--------------------------- MODULE TeamMembership ---------------------------
(***************************************************************************)
(* Devices with their team page, the keys of their team service, the flash *)
(* record of the team, the event bus that feeds the page, and the pairing  *)
(* service of module TeamPairing reduced to what it tells the page.        *)
(*   modules/ui_shared/src/ui/screens/team/team_page_components.cpp        *)
(*   modules/core_team/src/usecase/team_service.cpp                        *)
(*   platform/esp/idf_common/src/idf_chat_facade.cpp                       *)
(*   platform/esp/idf_common/src/team/idf_nvs_team_ui_snapshot_store.cpp   *)
(*                                                                         *)
(* Two tasks of a device meet here. The main loop runs the pairing service *)
(* and the radio, which publish into the bus, and then drains the bus into *)
(* the page; the display task runs the user's commands, at any moment, also *)
(* while events of before wait. The page is locked by the display lock,    *)
(* which the loop takes anew for every event: when it does not get it in   *)
(* time, the event goes back to the end of the bus.                        *)
(***************************************************************************)
EXTENDS TeamPage

CONSTANTS
    Commands,       \* what users may do: a subset of AllCommands
    QueueMax,       \* the length of the bus: what does not fit is dropped
    AirMax,         \* bound: frames of other devices are heard up to this length
    MaxActs         \* bound: commands and restarts, over all devices

AllCommands == {"Create", "Join", "Invite", "Retry", "Cancel", "Leave",
                "Transfer", "Back", "Close", "Restart"}

ASSUME MembershipAssumption ==
    /\ Commands \subseteq AllCommands
    /\ QueueMax \in Nat \ {0} /\ AirMax \in 0 .. QueueMax /\ MaxActs \in Nat

VARIABLES
    page,       \* page[n]: the page's state, kept while the screen is closed
    view,       \* view[n]: the screen shown
    svc,        \* svc[n]: the keys of the team service, NoKeys when !keys_.valid
    store,      \* store[n]: the record on flash
    bus,        \* bus[n]: the event bus
    due,        \* due[n]: status_pending_, the roster broadcasts scheduled
    pair,       \* pair[n]: the pairing service
    created,    \* history: the keys that create commands made
    wants,      \* history: wants[n], the user asked for a team and did not take it back
    late,       \* history: late[n], what was on the bus when the user took it back
    acts        \* how many commands there were

vars == << page, view, svc, store, bus, due, pair, created, wants, late, acts >>

NoKeys == [team |-> NoTeam, psk |-> NoPsk]
KeysOf(r) == [team |-> r.team, psk |-> r.psk]
AllKeys == [team : TeamIds, psk : Psks]

\* What the pairing service answers and what it publishes; granted is the key
\* on its way to a member, NoPsk when there is none.
Resting == [role |-> "None", state |-> "Idle", team |-> NoTeam, psk |-> NoPsk,
            leader |-> NoNode, granted |-> NoPsk]

Init ==
    /\ page = [n \in Node |-> Blank]
    /\ view = [n \in Node |-> "Closed"]
    /\ svc = [n \in Node |-> NoKeys]
    /\ store = [n \in Node |-> NoRecord]
    /\ bus = [n \in Node |-> << >>]
    /\ due = [n \in Node |-> 0]
    /\ pair = [n \in Node |-> Resting]
    /\ created = {}
    /\ wants = [n \in Node |-> FALSE]
    /\ late = [n \in Node |-> {}]
    /\ acts = 0

-----------------------------------------------------------------------------
(* The bus and the radio.                                                   *)

\* publish() with a timeout of 0, of several events in order.
Put(q, es) ==
    LET room == QueueMax - Len(q)
    IN  q \o SubSeq(es, 1, IF Len(es) <= room THEN Len(es) ELSE room)

PairingEvent(s, peer) ==
    [kind |-> "Pairing", role |-> s.role, state |-> s.state, team |-> s.team, peer |-> peer]

\* A frame of device n, encrypted with keys k, is understood by those who hold
\* the same keys.
Readers(n, k) == {m \in Node \ {n} : svc[m] = k /\ k # NoKeys}

\* The frame e reaches the devices S.
Hear(b, S, e) ==
    [m \in Node |-> IF m \in S /\ Len(b[m]) < AirMax THEN Append(b[m], e) ELSE b[m]]

StatusFrame(n, t, roster) == [kind |-> "Status", team |-> t, from |-> n, roster |-> roster]

\* sendStatus() and sendStatusPlain(), each lost on some of the others.
SendStatus(n, b, k, roster) ==
    \E E \in SUBSET Readers(n, k), P \in SUBSET (Node \ {n}) :
        bus' = Hear(Hear(b, E, StatusFrame(n, k.team, roster)),
                    P, StatusFrame(n, ZeroTeam, roster))

-----------------------------------------------------------------------------
(* The pairing service of device n, as far as the page sees it. Its main    *)
(* loop calls it once per turn.                                             *)

Publish(n, es) == bus' = [bus EXCEPT ![n] = Put(@, es)]

Leading(n, p) == [Resting EXCEPT !.role = "Leader", !.state = "LeaderBeacon",
                                 !.team = p.team, !.psk = p.psk, !.leader = n]
Scanning == [Resting EXCEPT !.role = "Member", !.state = "MemberScanning"]

\* stop(): the team id is kept, and told with the event.
Stopped(s) == [Resting EXCEPT !.team = s.team]

Awaiting(n, l) ==
    /\ pair[n].state \in {"JoinSent", "WaitingKey"}
    /\ pair[n].leader = l /\ pair[n].team = pair[l].team

\* A beacon of l reaches n, which sends a join.
HearBeacon(n, l) ==
    LET s == [pair[n] EXCEPT !.state = "JoinSent", !.team = pair[l].team,
                             !.leader = l, !.granted = NoPsk]
    IN  /\ n # l /\ pair[n].role = "Member" /\ pair[l].role = "Leader"
        /\ pair' = [pair EXCEPT ![n] = s]
        /\ Publish(n, << PairingEvent(s, NoNode) >>)
        /\ UNCHANGED << page, view, svc, store, due, created, wants, late, acts >>

\* JoinSent has been shown long enough.
AwaitKey(n) ==
    LET s == [pair[n] EXCEPT !.state = "WaitingKey"]
    IN  /\ pair[n].state = "JoinSent"
        /\ pair' = [pair EXCEPT ![n] = s]
        /\ Publish(n, << PairingEvent(s, NoNode) >>)
        /\ UNCHANGED << page, view, svc, store, due, created, wants, late, acts >>

\* A join of n reaches l, which sends its key.
AnswerJoin(l, n) ==
    /\ pair[l].role = "Leader" /\ Awaiting(n, l)
    /\ pair' = [pair EXCEPT ![n].granted = pair[l].psk]
    /\ Publish(l, << PairingEvent(pair[l], n) >>)
    /\ UNCHANGED << page, view, svc, store, due, created, wants, late, acts >>

\* The key reaches n.
TakeKey(n) ==
    LET s == pair[n]
    IN  /\ s.granted # NoPsk
        /\ pair' = [pair EXCEPT ![n] = Stopped(s)]
        /\ Publish(n, << [kind |-> "KeyDist", team |-> s.team, psk |-> s.granted,
                          from |-> s.leader],
                         PairingEvent([s EXCEPT !.state = "Completed"], s.leader),
                         PairingEvent(Stopped(s), NoNode) >>)
        /\ UNCHANGED << page, view, svc, store, due, created, wants, late, acts >>

\* Mutant of Expire: nobody is told.
ExpireUntold(n) ==
    /\ pair[n].role # "None"
    /\ pair' = [pair EXCEPT ![n] = Stopped(@)]
    /\ UNCHANGED << page, view, svc, store, bus, due, created, wants, late, acts >>

\* The deadline of the session.
Expire(n) ==
    LET s == pair[n]
    IN  /\ s.role # "None"
        /\ pair' = [pair EXCEPT ![n] = Stopped(s)]
        /\ Publish(n, << PairingEvent([s EXCEPT !.state = "Failed"], NoNode),
                         PairingEvent(Stopped(s), NoNode) >>)
        /\ UNCHANGED << page, view, svc, store, due, created, wants, late, acts >>

-----------------------------------------------------------------------------
(* The user. Every command ends by saving the page.                         *)

Act(n, command) ==
    /\ command \in Commands
    /\ acts < MaxActs /\ acts' = acts + 1

Saved(n, p, v) ==
    /\ page' = [page EXCEPT ![n] = p]
    /\ store' = [store EXCEPT ![n] = RecordOf(p)]
    /\ view' = [view EXCEPT ![n] = v]

Start(n, s) ==
    /\ pair' = [pair EXCEPT ![n] = s]
    /\ Publish(n, << PairingEvent(s, NoNode) >>)

Waiting(n) == {bus[n][i] : i \in DOMAIN bus[n]}

Wish(n, w) ==
    /\ wants' = [wants EXCEPT ![n] = w]
    /\ late' = [late EXCEPT ![n] = IF w THEN {} ELSE Waiting(n)]

\* The next number no team id and no key was drawn with.
Drawn(k) == \E c \in created : k \in {c.team, c.psk}

Fresh == {k \in Psks : ~Drawn(k) /\ \A j \in 1 .. k - 1 : Drawn(j)}

\* createTeam(): the keys are set before the pairing service is started, which
\* fails if the radio does not come up for it.
Create(n) ==
    /\ Act(n, "Create")
    /\ view[n] = "NotInTeam"
    /\ \E k \in Fresh :
         LET p == ReduceCreate(page[n], k, k)
         IN  /\ svc' = [svc EXCEPT ![n] = KeysOf(p)]
             /\ created' = created \cup {KeysOf(p)}
             /\ \/ /\ Saved(n, ReducePairingStarted(p, "Leader", "LeaderBeacon"), "JoinPending")
                   /\ Start(n, Leading(n, p))
                \/ /\ pair[n].role = "None"
                   /\ Saved(n, p, "InTeam")
                   /\ UNCHANGED << pair, bus >>
    /\ Wish(n, TRUE)
    /\ UNCHANGED due

CanLead(p) == p.leader /\ p.team # NoTeam /\ p.psk # NoPsk

\* The start failed: the page is saved as it is.
Refused(n) ==
    /\ Saved(n, page[n], view[n])
    /\ UNCHANGED << svc, bus, due, pair, created, wants, late >>

StartMember(n) ==
    \/ /\ Saved(n, ReducePairingStarted(page[n], "Member", "MemberScanning"), "JoinPending")
       /\ Start(n, Scanning)
       /\ Wish(n, TRUE)
       /\ UNCHANGED << svc, due, created >>
    \/ pair[n].role = "None" /\ Refused(n)

StartLeader(n) ==
    \/ /\ CanLead(page[n])
       /\ Saved(n, ReducePairingStarted(page[n], "Leader", "LeaderBeacon"), "JoinPending")
       /\ Start(n, Leading(n, page[n]))
       /\ Wish(n, TRUE)
       /\ UNCHANGED << svc, due, created >>
    \/ (~CanLead(page[n]) \/ pair[n].role = "None") /\ Refused(n)

Join(n) == Act(n, "Join") /\ view[n] = "NotInTeam" /\ StartMember(n)

Invite(n) == Act(n, "Invite") /\ view[n] = "InTeam" /\ StartLeader(n)

Retry(n) ==
    /\ Act(n, "Retry")
    /\ view[n] = "JoinPending"
    /\ IF page[n].leader THEN StartLeader(n) ELSE StartMember(n)

\* Mutant of CancelJoin: the pairing service goes on.
CancelJoinOfPage(n) ==
    LET p == ReduceJoinCanceled(page[n])
    IN  /\ Act(n, "Cancel")
        /\ view[n] = "JoinPending"
        /\ Saved(n, p, StatusView(p))
        /\ Wish(n, wants[n] /\ p.inTeam)
        /\ UNCHANGED << pair, bus, svc, due, created >>

CancelJoin(n) ==
    LET p == ReduceJoinCanceled(page[n])
    IN  /\ Act(n, "Cancel")
        /\ view[n] = "JoinPending"
        /\ Saved(n, p, StatusView(p))
        /\ Start(n, Stopped(pair[n]))
        /\ Wish(n, wants[n] /\ p.inTeam)
        /\ UNCHANGED << svc, due, created >>

\* Mutant of Leave: the keys of the service stay.
LeaveKeyed(n) ==
    /\ Act(n, "Leave")
    /\ view[n] = "InTeam"
    /\ Saved(n, ReduceLeave(page[n]), "NotInTeam")
    /\ due' = [due EXCEPT ![n] = 0]
    /\ Start(n, Stopped(pair[n]))
    /\ Wish(n, FALSE)
    /\ UNCHANGED << svc, created >>

Leave(n) ==
    /\ Act(n, "Leave")
    /\ view[n] = "InTeam"
    /\ Saved(n, ReduceLeave(page[n]), "NotInTeam")
    /\ svc' = [svc EXCEPT ![n] = NoKeys]
    /\ due' = [due EXCEPT ![n] = 0]
    /\ Start(n, Stopped(pair[n]))
    /\ Wish(n, FALSE)
    /\ UNCHANGED created

\* The leader picks a row and hands the team over, whether or not the frame can
\* be sent.
TransferLeader(n) ==
    /\ Act(n, "Transfer")
    /\ view[n] = "InTeam" /\ page[n].leader
    /\ \E row \in RowsOf(page[n]) :
         /\ Saved(n, ReduceTransferLeader(page[n], row), "InTeam")
         /\ \E E \in SUBSET Readers(n, svc[n]) :
              bus' = Hear(bus, E, [kind |-> "Transfer", team |-> svc[n].team,
                                   from |-> n, target |-> row])
    /\ UNCHANGED << svc, due, pair, created, wants, late >>

\* The back key on the pairing screen. Without a team it goes back to where the
\* pairing was started, if it was from there.
Back(n) ==
    /\ Act(n, "Back")
    /\ view[n] = "JoinPending"
    /\ view' = [view EXCEPT ![n] = StatusView(page[n])]
    /\ UNCHANGED << page, svc, store, bus, due, pair, created, wants, late >>

\* team_page_destroy(). The page is loaded from the record again when it is
\* next needed; nothing changes the record until then.
Close(n) ==
    /\ Act(n, "Close")
    /\ view[n] # "Closed"
    /\ view' = [view EXCEPT ![n] = "Closed"]
    /\ page' = [page EXCEPT ![n] = FromStore(Blank, store[n])]
    /\ due' = [due EXCEPT ![n] = 0]
    /\ UNCHANGED << svc, store, bus, pair, created, wants, late >>

\* sync_from_controller(): an open page takes over the record and the state of
\* the pairing service.
Synced(n, p, r) == SyncPairing(FromStore(p, r), pair[n])

\* team_page_create()
Open(n) ==
    LET p == SyncPairing(page[n], pair[n])
        q == Synced(n, p, store[n])
    IN  /\ view[n] = "Closed"
        /\ page' = [page EXCEPT ![n] = q]
        /\ view' = [view EXCEPT ![n] = SyncView(q, InitialView(p))]
        /\ UNCHANGED << svc, store, bus, due, pair, created, wants, late, acts >>

-----------------------------------------------------------------------------
(* The main loop drains the bus into the page.                              *)

Reduce(n, p, e) ==
    CASE e.kind = "Status"   -> ReduceStatus(n, p, e)
      [] e.kind = "Transfer" -> ReduceTransferEvent(p, e)
      [] e.kind = "KeyDist"  -> ReduceKeyDist(p, e)
      [] e.kind = "Pairing"  -> ReducePairing(p, e)

\* The screen the event asks for.
Requested(p, e, v) ==
    CASE e.kind = "KeyDist" /\ AcceptsTeam(p, e.team) /\ (~p.inTeam \/ WasPairing(p)) -> "InTeam"
      [] e.kind = "Pairing" /\ e.state = "Completed" -> "InTeam"
      [] e.kind = "Pairing" /\ e.state = "Failed" -> StatusView(ReducePairing(p, e))
      [] OTHER -> v

TakesKeys(p, e) == e.kind = "KeyDist" /\ AcceptsTeam(p, e.team)

\* team_page_handle_event(), with the effects of the reducer: keys are saved and
\* set, the page is saved, and an open page is refreshed. A newcomer makes the
\* leader send its roster now and once more later.
HandleEvent(n) ==
    /\ bus[n] # << >>
    /\ \E e \in {Head(bus[n])} :
       \E p \in {Reduce(n, page[n], e)} :
       \E q \in {Synced(n, p, RecordOf(p))} :
       LET keys == IF TakesKeys(page[n], e) THEN KeysOf(p) ELSE svc[n]
           news == e.kind = "Pairing" /\ Newcomer(page[n], e) /\ p.team # NoTeam
           drained == [bus EXCEPT ![n] = Tail(@)]
       IN  /\ store' = [store EXCEPT ![n] = RecordOf(p)]
           /\ svc' = [svc EXCEPT ![n] = keys]
           /\ IF view[n] = "Closed"
              THEN page' = [page EXCEPT ![n] = p] /\ UNCHANGED view
              ELSE /\ page' = [page EXCEPT ![n] = q]
                   /\ view' = [view EXCEPT ![n] = SyncView(q, Requested(page[n], e, @))]
           /\ IF news THEN SendStatus(n, drained, keys, RosterOf(n, p)) ELSE bus' = drained
           /\ due' = [due EXCEPT ![n] = IF news THEN @ + 1 ELSE @]
    /\ UNCHANGED << pair, created, wants, late, acts >>

\* routeTeamEvent() without the lock: the event goes to the end of the bus.
Requeue(n) ==
    /\ Len(bus[n]) > 1
    /\ bus' = [bus EXCEPT ![n] = Append(Tail(@), Head(@))]
    /\ UNCHANGED << page, view, svc, store, due, pair, created, wants, late, acts >>

\* SystemTick: the next scheduled roster broadcast, or none if the device does
\* not lead any more.
RebroadcastRoster(n) ==
    /\ due[n] > 0
    /\ IF page[n].inTeam /\ page[n].team # NoTeam /\ page[n].leader
       THEN /\ SendStatus(n, bus, svc[n], RosterOf(n, page[n]))
            /\ due' = [due EXCEPT ![n] = @ - 1]
       ELSE /\ due' = [due EXCEPT ![n] = 0]
            /\ UNCHANGED bus
    /\ UNCHANGED << page, view, svc, store, pair, created, wants, late, acts >>

\* tickTeamPresence(): a status without a roster, as long as there are keys.
Heartbeat(n) ==
    /\ svc[n] # NoKeys
    /\ SendStatus(n, bus, svc[n], NoRoster)
    /\ UNCHANGED << page, view, svc, store, due, pair, created, wants, late, acts >>

-----------------------------------------------------------------------------
(* A restart. The service takes its keys from the record.                   *)

\* Mutant of Restarted: the service starts without keys.
RestartedUnkeyed(n, r) ==
    /\ store' = [store EXCEPT ![n] = r]
    /\ svc' = [svc EXCEPT ![n] = NoKeys]
    /\ page' = [page EXCEPT ![n] = FromStore(Blank, r)]
    /\ view' = [view EXCEPT ![n] = "Closed"]
    /\ bus' = [bus EXCEPT ![n] = << >>]
    /\ due' = [due EXCEPT ![n] = 0]
    /\ pair' = [pair EXCEPT ![n] = Resting]
    /\ late' = [late EXCEPT ![n] = {}]
    /\ UNCHANGED << created, wants >>

Restarted(n, r) ==
    /\ store' = [store EXCEPT ![n] = r]
    /\ svc' = [svc EXCEPT ![n] = KeysOf(r)]
    /\ page' = [page EXCEPT ![n] = FromStore(Blank, r)]
    /\ view' = [view EXCEPT ![n] = "Closed"]
    /\ bus' = [bus EXCEPT ![n] = << >>]
    /\ due' = [due EXCEPT ![n] = 0]
    /\ pair' = [pair EXCEPT ![n] = Resting]
    /\ late' = [late EXCEPT ![n] = {}]
    /\ UNCHANGED << created, wants >>

Counted == "Restart" \in Commands /\ acts < MaxActs /\ acts' = acts + 1

Restart(n) == Counted /\ Restarted(n, store[n])

\* The device goes down in the middle of a key distribution, after
\* saveKeysNow() and before the page is saved: the record has the new keys and
\* the flags of the record before.
RestartAfterKeys(n) ==
    /\ Counted
    /\ bus[n] # << >> /\ TakesKeys(page[n], Head(bus[n]))
    /\ LET e == Head(bus[n])
           r == FromStore(Blank, store[n])
       IN  Restarted(n, RecordOf([r EXCEPT !.team = e.team, !.psk = e.psk]))

-----------------------------------------------------------------------------
Next ==
    \E n \in Node :
        \/ \E l \in Node : HearBeacon(n, l) \/ AnswerJoin(n, l)
        \/ AwaitKey(n) \/ TakeKey(n) \/ Expire(n)
        \/ Create(n) \/ Join(n) \/ Invite(n) \/ Retry(n) \/ CancelJoin(n) \/ Leave(n)
        \/ TransferLeader(n) \/ Back(n) \/ Close(n) \/ Open(n)
        \/ HandleEvent(n) \/ Requeue(n) \/ RebroadcastRoster(n) \/ Heartbeat(n)
        \/ Restart(n) \/ RestartAfterKeys(n)

Spec == Init /\ [][Next]_vars

\* The main loop keeps turning: it gets the display lock for one event after the
\* other in the end, and a pairing session ends by its deadline (SessionEnds of
\* TeamPairing).
FairSpec == Spec /\ \A n \in Node : WF_vars(HandleEvent(n)) /\ WF_vars(Expire(n))

-----------------------------------------------------------------------------
(* Properties.                                                              *)

Rosters == [members : Seq(Node), leader : Node \cup {NoNode}]

Events ==
    [kind : {"Status"}, team : TeamIds, from : Node, roster : Rosters]
    \cup [kind : {"Transfer"}, team : TeamIds, from : Node, target : Rows]
    \cup [kind : {"KeyDist"}, team : TeamIds, psk : Psks, from : Node]
    \cup [kind : {"Pairing"}, role : {"None", "Leader", "Member"}, state : PairingStates,
          team : TeamIds \cup {NoTeam}, peer : Node \cup {NoNode}]

\* A session with a key, its own or one on its way, is one of a leader's team.
Sessions ==
    {s \in [role : {"None", "Leader", "Member"}, state : PairingStates \ {"Completed", "Failed"},
            team : TeamIds \cup {NoTeam}, psk : Psks \cup {NoPsk},
            leader : Node \cup {NoNode}, granted : Psks \cup {NoPsk}] :
       s.role = "Leader" \/ s.granted # NoPsk => s.team \in TeamIds /\ s.leader \in Node}

TypeOK ==
    /\ page \in [Node -> Pages]
    /\ view \in [Node -> Views]
    /\ svc \in [Node -> AllKeys \cup {NoKeys}]
    /\ store \in [Node -> Records \cup {NoRecord}]
    /\ bus \in [Node -> Seq(Events)] /\ \A n \in Node : Len(bus[n]) <= QueueMax
    /\ due \in [Node -> Nat]
    /\ pair \in [Node -> Sessions]
    /\ created \in SUBSET AllKeys
    /\ wants \in [Node -> BOOLEAN]
    /\ late \in [Node -> SUBSET Events]
    /\ acts \in 0 .. MaxActs

\* One device has one channel key: the page, the team service and the record on
\* flash agree on it at every moment, also after a restart in the middle of a
\* key distribution, after a failed start, with events handled late or out of
\* order. Nothing is kept of a team that was left (the comment at
\* idf_nvs_team_ui_snapshot_store.cpp:157: "a deleted team cannot resurrect on
\* the next boot"). A team with the zero id is never recorded: with one of them
\* around the three do part.
NoZeroTeam == \A k \in created : k.team # ZeroTeam

OneKeyInDevice ==
    NoZeroTeam => \A n \in Node : page[n].psk = svc[n].psk /\ store[n].psk = svc[n].psk

\* A device gets into a team only while its user has asked for one and has not
\* cancelled or left, or by the handling of an event that was on the bus before
\* the user did: no answer or beacon of later, roster, closed page or restart
\* takes it in (CancelledStaysOut is what the screens promise).
Belated(n) == bus[n] # << >> /\ Head(bus[n]) \in late[n] /\ HandleEvent(n)

NobodyJoinsUnasked ==
    [][\A n \in Node :
          ~page[n].inTeam /\ page'[n].inTeam => wants'[n] \/ Belated(n)]_vars

\* Whatever happens, also with a zero team id around, no device mixes two keys:
\* page and record hold the key the team service encrypts with, or none. What
\* can be lost (OneKeyInDevice) is lost whole.
NeverTwoKeys ==
    \A n \in Node : {page[n].psk, store[n].psk} \subseteq {NoPsk, svc[n].psk}

\* The devices keep the promise of TeamPromise, seen through the user's wish,
\* the key of the team service, the teams created and the answers that were on
\* the bus when the wish was taken back: restarts, closed pages, failed starts,
\* frames and events change nothing of it but the one step in which a device
\* that asks is given the key of a created team, and no key goes away unless the
\* user leaves.
KeyHeld == [n \in Node |-> svc[n].psk]

\* The keys that wait on a bus.
KeysOn(q) == {q[i].psk : i \in {j \in DOMAIN q : q[j].kind = "KeyDist"}}

KeyBelated == [n \in Node |-> ~wants[n] /\ KeysOn(bus[n]) # {}]

Promise == INSTANCE TeamPromise
             WITH Id <- TeamIds, Key <- Psks, NoKey <- NoPsk, NoId <- ZeroTeam,
                  asks <- wants, belated <- KeyBelated, key <- KeyHeld, teams <- created

KeepsTeamPromise == Promise!Spec

\* A user never waits for ever on the pairing screen: the session ends, the
\* event that says so is handled, and the page leaves the screen.
PairingScreenEnds ==
    \A n \in Node : view[n] = "JoinPending" ~> view[n] # "JoinPending"

-----------------------------------------------------------------------------
(* The inductive invariant behind OneKeyInDevice.                           *)

RealTeam(t) == t \in TeamIds \ {ZeroTeam}

\* A key is always that of a real team: saving a page never loses it, and no
\* frame without a team id replaces the team.
KeyHasTeam(p) == p.psk # NoPsk => RealTeam(p.team)

\* The pairing service names no zero team, and hands out or awaits the key of a
\* real one.
SessionInv(s) ==
    /\ s.team # ZeroTeam
    /\ s.role = "Leader" \/ s.granted # NoPsk => RealTeam(s.team)

\* What waits on the bus names no zero team where the page would believe it.
EventInv(e) ==
    /\ e.kind = "Pairing" => e.team # ZeroTeam
    /\ e.kind = "KeyDist" => RealTeam(e.team)

DeviceInv(n) ==
    /\ page[n].psk = svc[n].psk /\ store[n].psk = svc[n].psk
    /\ KeyHasTeam(page[n])
    /\ SessionInv(pair[n])
    /\ \A i \in DOMAIN bus[n] : EventInv(bus[n][i])

MInv == TypeOK /\ (NoZeroTeam => \A n \in Node : DeviceInv(n))

-----------------------------------------------------------------------------
(* The inductive invariant behind NeverTwoKeys and KeepsTeamPromise.        *)

\* The keys of the teams T.
DrawnKeys(T) == {NoPsk} \cup {c.psk : c \in T}

\* Every key anywhere was drawn by a create command.
DeviceKeys(n) ==
    /\ {page[n].psk, store[n].psk} \subseteq {NoPsk, svc[n].psk}
    /\ {svc[n].psk, pair[n].psk, pair[n].granted} \cup KeysOn(bus[n]) \subseteq DrawnKeys(created)

KeyInv == \A n \in Node : DeviceKeys(n)

-----------------------------------------------------------------------------
(* What the repository says and the code does not do.                       *)

\* idf_chat_facade.cpp:899: "Safe even when the team screen is closed: the
\* handler updates the snapshot/controller". A device with a closed screen whose
\* pairing service took over a key gets the keys of its team.
KeyIsTakenOver ==
    [][\A n \in Node :
          HandleEvent(n) /\ view[n] = "Closed" /\ Head(bus[n]).kind = "KeyDist"
          => svc'[n] = KeysOf(Head(bus[n]))]_vars

\* docs/team/uiux.md:319: creating a team generates a team id. Two teams with
\* two keys have two ids.
TeamsHaveTheirOwnIds ==
    \A a, b \in created : a.team = b.team => a.psk = b.psk

\* docs/team/uiux.md:212: "timeout / cancel" on the pairing screen leads to the
\* status screen of a device that is not in a team. A user who cancelled or left
\* stays out of every team until the next command.
CancelledStaysOut ==
    [][\A n \in Node : ~page[n].inTeam /\ page'[n].inTeam => wants'[n]]_vars
=============================================================================
