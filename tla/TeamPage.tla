------------------------------ MODULE TeamPage ------------------------------
(***************************************************************************)
(* The team page of a device: what it believes of its team, and how the    *)
(* user's commands, the events of the team service and those of the        *)
(* pairing service change it.                                              *)
(*   modules/ui_shared/src/ui/screens/team/team_page_event_reducer.cpp     *)
(*   modules/ui_shared/src/ui/screens/team/team_page_command_reducer.cpp   *)
(*   modules/ui_shared/src/ui/screens/team/team_page_state_store.cpp       *)
(*   modules/ui_shared/src/ui/screens/team/team_page_flow_controller.cpp   *)
(*                                                                         *)
(* A page is a record p of Pages, and every reducer a function of it.      *)
(* NoTeam is !has_team_id, NoPsk !has_team_psk.  A member list names the   *)
(* device itself with node id 0, which is Self here.  Team ids and keys    *)
(* are the numbers of the create command that drew them; the team id of    *)
(* sixteen zero bytes, which nobody draws, is ZeroTeam.                    *)
(*                                                                         *)
(* The key id (security_round) is 1 in every team and is left out: the     *)
(* build refuses to rotate keys (team_service.cpp:427, KeyDist disabled).  *)
(***************************************************************************)
EXTENDS Integers, Sequences

CONSTANTS
    Node,           \* the devices, by node id
    NoNode, Self,
    MaxDraws        \* bound: teams and keys that are ever drawn

ASSUME PageAssumption ==
    NoNode \notin Node /\ Self \notin Node /\ NoNode # Self /\ MaxDraws \in Nat

NoTeam == -1
ZeroTeam == 0
NoPsk == 0
TeamIds == 0 .. MaxDraws
Psks == 1 .. MaxDraws
Rows == Node \cup {Self}

PairingStates == {"Idle", "LeaderBeacon", "MemberScanning", "JoinSent",
                  "WaitingKey", "Completed", "Failed"}

\* members lists the rows in order, leaders is the set of rows flagged so.
Pages ==
    [inTeam : BOOLEAN, pending : BOOLEAN, leader : BOOLEAN,
     team : TeamIds \cup {NoTeam}, psk : Psks \cup {NoPsk},
     members : Seq(Rows), leaders : SUBSET Rows,
     role : {"None", "Leader", "Member"}, state : PairingStates]

Blank ==
    [inTeam |-> FALSE, pending |-> FALSE, leader |-> FALSE,
     team |-> NoTeam, psk |-> NoPsk, members |-> << >>, leaders |-> {},
     role |-> "None", state |-> "Idle"]

Active(s) == s \notin {"Idle", "Completed", "Failed"}

-----------------------------------------------------------------------------
(* The member list.                                                         *)

RowsOf(p) == {p.members[i] : i \in DOMAIN p.members}

\* touchMember(): a node seen is listed.
Touch(p, row) ==
    IF row \in RowsOf(p) THEN p ELSE [p EXCEPT !.members = Append(@, row)]

\* ensureSelfMember()
EnsureSelf(p, leads) ==
    [Touch(p, Self) EXCEPT !.leaders = IF leads THEN @ \cup {Self} ELSE @ \ {Self}]

\* A node id as the row of device n that shows it, and a row as a node id.
RowOf(n, id) == IF id = n THEN Self ELSE id
NodeOf(n, row) == IF row = Self THEN n ELSE row

NoRoster == [members |-> << >>, leader |-> NoNode]

\* fillStatusMembers(): the roster device n sends. Its own id, if listed twice,
\* is sent once; of several flagged rows the last one names the leader.
RosterOf(n, p) ==
    LET ids == [i \in DOMAIN p.members |-> NodeOf(n, p.members[i])]
        twice == {i \in DOMAIN ids : \E j \in 1 .. i - 1 : ids[j] = ids[i]}
        last == {i \in DOMAIN ids :
                   /\ p.members[i] \in p.leaders
                   /\ \A j \in i + 1 .. Len(ids) : p.members[j] \notin p.leaders}
    IN  [members |-> IF twice = {} THEN ids
                     ELSE LET i == CHOOSE i \in twice : TRUE
                          IN  SubSeq(ids, 1, i - 1) \o SubSeq(ids, i + 1, Len(ids)),
         leader  |-> IF last # {} THEN ids[CHOOSE i \in last : TRUE]
                     ELSE IF p.leader THEN n ELSE NoNode]

\* applyStatusRoster(): the roster a leader sent replaces the list.
ApplyRoster(n, p, r) ==
    LET rows == [i \in DOMAIN r.members |-> RowOf(n, r.members[i])]
        q == Touch([p EXCEPT !.members = rows], Self)
    IN  IF r.members = << >> THEN p
        ELSE [q EXCEPT !.leaders = {RowOf(n, r.leader)} \cap RowsOf(q),
                       !.leader = (r.leader = n)]

-----------------------------------------------------------------------------
(* Commands. t and k are the team id and the key the create command draws,  *)
(* used where the page has none.                                            *)

ReduceCreate(p, t, k) ==
    EnsureSelf([p EXCEPT !.inTeam = TRUE, !.pending = FALSE, !.leader = TRUE,
                         !.members = << >>, !.leaders = {},
                         !.team = IF @ = NoTeam THEN t ELSE @,
                         !.psk = IF @ = NoPsk THEN k ELSE @], TRUE)

ReducePairingStarted(p, role, state) ==
    [p EXCEPT !.pending = TRUE, !.role = role, !.state = state]

ReduceJoinCanceled(p) == [p EXCEPT !.pending = FALSE, !.role = "None", !.state = "Idle"]

ReduceLeave(p) == Blank

ReduceTransferLeader(p, row) ==
    IF row \in RowsOf(p) THEN [p EXCEPT !.leaders = {row}, !.leader = FALSE] ELSE p

-----------------------------------------------------------------------------
(* Events. The team of a frame that came unencrypted is ZeroTeam.           *)

AcceptsTeam(p, t) == p.team \in {NoTeam, t}

\* Mutant of ReduceStatus: the status of any team is taken.
ReduceStatusOfAny(n, p, e) ==
    Touch(ApplyRoster(n, [p EXCEPT !.team = e.team], e.roster), e.from)

ReduceStatus(n, p, e) ==
    IF AcceptsTeam(p, e.team)
    THEN Touch(ApplyRoster(n, [p EXCEPT !.team = e.team], e.roster), e.from)
    ELSE p

\* The target is taken as a row, not translated: 0 is Self on every device.
ReduceTransferEvent(p, e) ==
    IF AcceptsTeam(p, e.team)
    THEN [Touch(p, e.target) EXCEPT !.leaders = {e.target}, !.leader = (e.target = Self)]
    ELSE p

WasPairing(p) == p.pending \/ Active(p.state) \/ p.role = "Member"

\* The page enters the team of a key it was given.
Entered(p) ==
    LET leads == p.leader /\ p.role # "Member"
    IN  IF ~p.inTeam \/ WasPairing(p)
        THEN EnsureSelf([p EXCEPT !.inTeam = TRUE, !.pending = FALSE, !.leader = leads], leads)
        ELSE p

\* Mutant of ReduceKeyDist: the key of any team is taken.
ReduceKeyDistOfAny(p, e) ==
    LET q == Entered([p EXCEPT !.team = e.team, !.psk = e.psk])
    IN  IF q.leader THEN q ELSE [Touch(q, e.from) EXCEPT !.leaders = @ \cup {e.from}]

ReduceKeyDist(p, e) ==
    LET q == Entered([p EXCEPT !.team = e.team, !.psk = e.psk])
    IN  IF ~AcceptsTeam(p, e.team) THEN p
        ELSE IF q.leader THEN q
        ELSE [Touch(q, e.from) EXCEPT !.leaders = @ \cup {e.from}]

\* applyPairingIdentity(): the team the pairing service names replaces the page's.
ApplyIdentity(p, u) ==
    [p EXCEPT !.role = u.role, !.state = u.state,
              !.team = IF u.team = NoTeam THEN @ ELSE u.team]

Admits(e) == e.role = "Leader" /\ e.state = "LeaderBeacon" /\ e.peer # NoNode

\* A peer that was not listed: the roster has to be sent.
Newcomer(p, e) == Admits(e) /\ e.peer \notin RowsOf(p)

ReducePairing(p, e) ==
    LET a == ApplyIdentity(p, e)
        b == IF e.role = "Leader"
             THEN EnsureSelf([a EXCEPT !.inTeam = TRUE, !.leader = TRUE], TRUE) ELSE a
        c == IF Admits(e) THEN Touch(b, e.peer) ELSE b
        d == IF e.state = "Completed" /\ ~c.inTeam
             THEN EnsureSelf([c EXCEPT !.inTeam = TRUE, !.leader = (e.role = "Leader")],
                             e.role = "Leader")
             ELSE c
    IN  [d EXCEPT !.pending = Active(e.state)]

\* reducePairingStatus(): what an open page takes from the pairing service u.
SyncPairing(p, u) == [ApplyIdentity(p, u) EXCEPT !.pending = Active(u.state)]

-----------------------------------------------------------------------------
(* The record on flash. It holds no member list and nothing of the pairing. *)

Records == [inTeam : BOOLEAN, leader : BOOLEAN, team : TeamIds \ {ZeroTeam}, psk : Psks]

NoRecord == [team |-> NoTeam, psk |-> NoPsk]

\* Mutant of RecordOf: a team without a key is recorded.
RecordOfTeam(p) ==
    IF p.team \in {NoTeam, ZeroTeam} THEN NoRecord
    ELSE [inTeam |-> p.inTeam, leader |-> p.leader, team |-> p.team, psk |-> p.psk]

\* save(): without a key, or under the zero team id, the record is erased.
RecordOf(p) ==
    IF p.psk = NoPsk \/ p.team \in {NoTeam, ZeroTeam} THEN NoRecord
    ELSE [inTeam |-> p.inTeam, leader |-> p.leader, team |-> p.team, psk |-> p.psk]

\* load() and applySnapshot()
FromStore(p, r) ==
    IF r = NoRecord THEN p
    ELSE [p EXCEPT !.inTeam = r.inTeam, !.leader = r.leader, !.team = r.team,
                   !.psk = r.psk, !.pending = FALSE,
                   !.members = IF r.inTeam THEN @ ELSE << >>,
                   !.leaders = IF r.inTeam THEN @ ELSE {}]

-----------------------------------------------------------------------------
(* Which screen is shown: InTeam stands for the status, home and member     *)
(* screens of a team.                                                       *)

Views == {"Closed", "NotInTeam", "InTeam", "JoinPending"}

StatusView(p) == IF p.inTeam THEN "InTeam" ELSE "NotInTeam"

\* selectInitialPage()
InitialView(p) == IF Active(p.state) \/ p.pending THEN "JoinPending" ELSE StatusView(p)

\* syncRuntime()
SyncView(p, v) ==
    CASE Active(p.state) /\ ~p.inTeam -> "JoinPending"
      [] ~Active(p.state) /\ p.inTeam /\ v \in {"NotInTeam", "JoinPending"} -> "InTeam"
      [] ~Active(p.state) /\ ~p.inTeam /\ v = "JoinPending" -> "NotInTeam"
      [] OTHER -> v
=============================================================================
