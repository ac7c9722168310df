------------------------- MODULE TeamMembershipProofs -------------------------
(***************************************************************************)
(* MInv is an invariant of TeamMembership: with it types, and the one key  *)
(* of a device, for any number of devices and any bus. With WishInv, which *)
(* says what can take a device in, nobody gets into a team unasked. KeyInv *)
(* says where keys come from; with the other two it gives the refinement   *)
(* of TeamPromise.                                                         *)
(***************************************************************************)
EXTENDS TeamMembership, TeamPageProofs

\* The constants behind team ids and keys.
LEMMA Numbers ==
    /\ MaxDraws \in Nat
    /\ ZeroTeam \in TeamIds /\ NoTeam \notin TeamIds /\ NoPsk \notin Psks
    /\ ZeroTeam # NoTeam
    /\ \A k \in Psks : RealTeam(k)
    /\ NoNode \notin Node
BY PageAssumption DEF ZeroTeam, NoTeam, NoPsk, TeamIds, Psks, RealTeam

-----------------------------------------------------------------------------
(* The bus.                                                                 *)

\* A queue of sound events, which fits.
Queue(q) == q \in Seq(Events) /\ Len(q) <= QueueMax

Sound(q) == \A i \in DOMAIN q : EventInv(q[i])

\* Publishing events keeps a queue, and its soundness if they are sound.
LEMMA PutType ==
    ASSUME NEW q, Queue(q), NEW es \in Seq(Events)
    PROVE  /\ Queue(Put(q, es))
           /\ Sound(q) /\ Sound(es) => Sound(Put(q, es))
<1> DEFINE room == QueueMax - Len(q)
           m == IF Len(es) <= room THEN Len(es) ELSE room
           t == SubSeq(es, 1, m)
<1>1. q \in Seq(Events) /\ Len(q) \in Nat /\ Len(es) \in Nat /\ QueueMax \in Nat /\ Len(q) <= QueueMax
  BY MembershipAssumption DEF Queue
<1>2. m \in Nat /\ m <= Len(es) /\ Len(q) + m <= QueueMax
  BY <1>1
<1>3. Put(q, es) = q \o t
  BY DEF Put
<1> HIDE DEF m
<1>4. t \in Seq(Events) /\ Len(t) = m /\ \A i \in 1 .. m : t[i] = es[i]
  BY <1>2
<1> HIDE DEF t
<1>5. /\ q \o t \in Seq(Events) /\ Len(q \o t) = Len(q) + m
      /\ \A i \in 1 .. Len(q) + m :
           (q \o t)[i] = IF i <= Len(q) THEN q[i] ELSE t[i - Len(q)]
  BY <1>1, <1>2, <1>4
<1>6. ASSUME Sound(q), Sound(es), NEW i \in DOMAIN (q \o t) PROVE EventInv((q \o t)[i])
  <2>1. i \in 1 .. Len(q) + m
    BY <1>5
  <2>2. CASE i <= Len(q)
    <3>1. i \in DOMAIN q /\ (q \o t)[i] = q[i]
      BY <1>1, <1>5, <2>1, <2>2
    <3> QED
      BY <1>6, <3>1 DEF Sound
  <2>3. CASE ~(i <= Len(q))
    <3>1. i - Len(q) \in 1 .. m
      BY <1>1, <1>2, <2>1, <2>3
    <3>2. (q \o t)[i] = es[i - Len(q)] /\ i - Len(q) \in DOMAIN es
      BY <1>1, <1>2, <1>4, <1>5, <2>1, <2>3, <3>1
    <3> QED
      BY <1>6, <3>2 DEF Sound
  <2> QED
    BY <2>2, <2>3
<1> QED
  BY <1>2, <1>3, <1>5, <1>6 DEF Queue, Sound

\* The first event of a queue is an event, the rest a queue.
LEMMA HeadTailType ==
    ASSUME NEW q, Queue(q), q # << >>
    PROVE  /\ Head(q) \in Events /\ Queue(Tail(q))
           /\ Len(Tail(q)) = Len(q) - 1
           /\ Sound(q) => EventInv(Head(q)) /\ Sound(Tail(q))
<1>1. q \in Seq(Events) /\ Len(q) \in Nat /\ Len(q) >= 1 /\ QueueMax \in Nat
  BY MembershipAssumption DEF Queue
<1>2. Head(q) = q[1] /\ 1 \in DOMAIN q
  BY <1>1
<1>3. /\ Tail(q) \in Seq(Events) /\ Len(Tail(q)) = Len(q) - 1
      /\ \A i \in 1 .. Len(q) - 1 : Tail(q)[i] = q[i + 1] /\ i + 1 \in DOMAIN q
  BY <1>1
<1>4. DOMAIN Tail(q) = 1 .. Len(q) - 1
  BY <1>3
<1> QED
  BY <1>1, <1>2, <1>3, <1>4 DEF Queue, Sound

\* So is a queue with an event behind it, if it fits.
LEMMA AppendType ==
    ASSUME NEW q, Queue(q), NEW e \in Events, Len(q) < QueueMax
    PROVE  /\ Queue(Append(q, e))
           /\ Sound(q) /\ EventInv(e) => Sound(Append(q, e))
<1>1. q \in Seq(Events) /\ Len(q) \in Nat /\ QueueMax \in Nat
  BY MembershipAssumption DEF Queue
<1>2. /\ Append(q, e) \in Seq(Events) /\ Len(Append(q, e)) = Len(q) + 1
      /\ DOMAIN Append(q, e) = 1 .. Len(q) + 1
      /\ \A i \in 1 .. Len(q) : Append(q, e)[i] = q[i] /\ i \in DOMAIN q
      /\ Append(q, e)[Len(q) + 1] = e
  BY <1>1
<1>3. \A i \in 1 .. Len(q) + 1 : i \in 1 .. Len(q) \/ i = Len(q) + 1
  BY <1>1
<1> QED
  BY <1>1, <1>2, <1>3 DEF Queue, Sound

\* A frame from the air keeps the queues of those who hear it.
LEMMA HearType ==
    ASSUME NEW b, DOMAIN b = Node, \A n \in Node : Queue(b[n]), NEW S, NEW e,
           S # {} => e \in Events
    PROVE  LET c == Hear(b, S, e)
           IN  /\ DOMAIN c = Node /\ c = [n \in Node |-> c[n]]
               /\ \A n \in Node : Queue(c[n])
               /\ EventInv(e) => \A n \in Node : Sound(b[n]) => Sound(c[n])
<1> DEFINE c == Hear(b, S, e)
<1>1. c = [n \in Node |-> IF n \in S /\ Len(b[n]) < AirMax THEN Append(b[n], e) ELSE b[n]]
  BY DEF Hear
<1>2. ASSUME NEW n \in Node
      PROVE  Queue(c[n]) /\ (EventInv(e) /\ Sound(b[n]) => Sound(c[n]))
  <2>1. Len(b[n]) \in Nat
    BY DEF Queue
  <2>2. Len(b[n]) < AirMax => Len(b[n]) < QueueMax
    BY <2>1, MembershipAssumption
  <2>3. c[n] = b[n] \/ (c[n] = Append(b[n], e) /\ Len(b[n]) < QueueMax /\ e \in Events)
    BY <1>1, <2>2
  <2> QED
    BY <1>1, <2>2, <2>3, AppendType
<1>3. DOMAIN c = Node /\ c = [n \in Node |-> c[n]]
  BY <1>1
<1> HIDE DEF c
<1> QED
  BY <1>2, <1>3 DEF c

Queues(b) == b \in [Node -> Seq(Events)] /\ \A n \in Node : Queue(b[n])

\* A status, with or without a roster, keeps every queue and its soundness.
LEMMA SendStatusType ==
    ASSUME NEW n \in Node, NEW b, Queues(b), NEW k \in AllKeys \cup {NoKeys},
           NEW roster \in Rosters, SendStatus(n, b, k, roster)
    PROVE  /\ Queues(bus')
           /\ \A m \in Node : Sound(b[m]) => Sound(bus'[m])
<1> DEFINE e == StatusFrame(n, k.team, roster)
           f == StatusFrame(n, ZeroTeam, roster)
<1>1. PICK E \in SUBSET Readers(n, k), P \in SUBSET (Node \ {n}) :
          bus' = Hear(Hear(b, E, e), P, f)
  BY DEF SendStatus
<1>2. E # {} => e \in Events
  <2>1. E # {} => k \in AllKeys
    BY DEF Readers
  <2>2. k \in AllKeys => k.team \in TeamIds
    BY DEF AllKeys
  <2> QED
    BY <2>1, <2>2 DEF StatusFrame, Events
<1>3. f \in Events
  BY Numbers DEF StatusFrame, Events
<1>4. EventInv(e) /\ EventInv(f)
  BY DEF EventInv, StatusFrame
<1> HIDE DEF e, f
<1> DEFINE c == Hear(b, E, e)
<1>5. /\ DOMAIN c = Node /\ \A m \in Node : Queue(c[m])
      /\ \A m \in Node : Sound(b[m]) => Sound(c[m])
  BY <1>2, <1>4, HearType DEF Queues
<1> HIDE DEF c
<1>6. /\ DOMAIN Hear(c, P, f) = Node
      /\ Hear(c, P, f) = [m \in Node |-> Hear(c, P, f)[m]]
      /\ \A m \in Node : Queue(Hear(c, P, f)[m])
      /\ \A m \in Node : Sound(c[m]) => Sound(Hear(c, P, f)[m])
  BY <1>3, <1>4, <1>5, HearType
<1>7. bus' = Hear(c, P, f)
  BY <1>1 DEF c
<1>8. bus' = [m \in Node |-> bus'[m]] /\ \A m \in Node : Queue(bus'[m])
  BY <1>6, <1>7
<1>9. bus' \in [Node -> Seq(Events)]
  BY <1>8 DEF Queue
<1> QED
  BY <1>5, <1>6, <1>7, <1>8, <1>9 DEF Queues

\* Publishing on one device keeps all the queues.
LEMMA PublishType ==
    ASSUME NEW n \in Node, Queues(bus), NEW es \in Seq(Events), Publish(n, es)
    PROVE  /\ Queues(bus')
           /\ Sound(es) => \A m \in Node : Sound(bus[m]) => Sound(bus'[m])
<1>1. bus' = [bus EXCEPT ![n] = Put(bus[n], es)]
  BY DEF Publish
<1>2. /\ Queue(Put(bus[n], es))
      /\ Sound(bus[n]) /\ Sound(es) => Sound(Put(bus[n], es))
  BY PutType DEF Queues
<1> QED
  BY <1>1, <1>2 DEF Queues, Queue

\* An event of a session is an event, and sound if the session names no zero team.
LEMMA PairingEventSound ==
    ASSUME NEW s, s.role \in {"None", "Leader", "Member"}, s.state \in PairingStates,
           s.team \in TeamIds \cup {NoTeam}, NEW peer \in Node \cup {NoNode}
    PROVE  /\ PairingEvent(s, peer) \in Events
           /\ s.team # ZeroTeam => EventInv(PairingEvent(s, peer))
<1>1. PairingEvent(s, peer)
      = [kind |-> "Pairing", role |-> s.role, state |-> s.state, team |-> s.team, peer |-> peer]
  BY DEF PairingEvent
<1> QED
  BY <1>1 DEF Events, EventInv

-----------------------------------------------------------------------------
(* One step of one device.                                                  *)

\* Every action gives one device n the page p, the screen v, the keys k, the
\* record r and the session s.
LEMMA DeviceStep ==
    ASSUME MInv, NEW n \in Node,
           NEW p \in Pages, page' = [page EXCEPT ![n] = p],
           NEW v \in Views, view' = [view EXCEPT ![n] = v],
           NEW k \in AllKeys \cup {NoKeys}, svc' = [svc EXCEPT ![n] = k],
           NEW r \in Records \cup {NoRecord}, store' = [store EXCEPT ![n] = r],
           NEW s \in Sessions, pair' = [pair EXCEPT ![n] = s],
           Queues(bus'), due' \in [Node -> Nat],
           created \subseteq created', created' \in SUBSET AllKeys,
           wants' \in [Node -> BOOLEAN], late' \in [Node -> SUBSET Events],
           acts' \in 0 .. MaxActs,
           NoZeroTeam' /\ NoZeroTeam /\ (\A m \in Node : DeviceInv(m))
           => /\ p.psk = k.psk /\ r.psk = k.psk
              /\ KeyHasTeam(p) /\ SessionInv(s)
              /\ \A m \in Node : Sound(bus'[m])
    PROVE  MInv'
<1>1. TypeOK'
  BY DEF MInv, TypeOK, Queues, Queue
<1>2. NoZeroTeam' => NoZeroTeam
  BY DEF NoZeroTeam
<1>3. ASSUME NoZeroTeam', NEW m \in Node PROVE DeviceInv(m)'
  <2>1. \A i \in Node : DeviceInv(i)
    BY <1>2, <1>3 DEF MInv
  <2>2. \A i \in DOMAIN bus'[m] : EventInv(bus'[m][i])
    BY <1>2, <1>3, <2>1 DEF Sound
  <2>3. CASE m = n
    <3>1. page'[m] = p /\ svc'[m] = k /\ store'[m] = r /\ pair'[m] = s
      BY <2>3 DEF MInv, TypeOK
    <3> QED
      BY <1>2, <1>3, <2>1, <2>2, <3>1 DEF DeviceInv
  <2>4. CASE m # n
    <3>1. page'[m] = page[m] /\ svc'[m] = svc[m] /\ store'[m] = store[m] /\ pair'[m] = pair[m]
      BY <2>4 DEF MInv, TypeOK
    <3> QED
      BY <2>1, <2>2, <3>1 DEF DeviceInv
  <2> QED
    BY <2>3, <2>4
<1> QED
  BY <1>1, <1>3 DEF MInv

\* What TypeOK says of one device.
LEMMA DeviceTypes ==
    ASSUME TypeOK, NEW n \in Node
    PROVE  /\ page[n] \in Pages /\ page = [page EXCEPT ![n] = page[n]]
           /\ view[n] \in Views /\ view = [view EXCEPT ![n] = view[n]]
           /\ svc[n] \in AllKeys \cup {NoKeys} /\ svc = [svc EXCEPT ![n] = svc[n]]
           /\ store[n] \in Records \cup {NoRecord} /\ store = [store EXCEPT ![n] = store[n]]
           /\ pair[n] \in Sessions /\ pair = [pair EXCEPT ![n] = pair[n]]
           /\ Queue(bus[n]) /\ Queues(bus)
           /\ due \in [Node -> Nat] /\ created \in SUBSET AllKeys
           /\ wants \in [Node -> BOOLEAN]
           /\ late \in [Node -> SUBSET Events] /\ acts \in 0 .. MaxActs
BY DEF TypeOK, Queues, Queue

\* One event, as what is published.
LEMMA OneEvent ==
    ASSUME NEW e \in Events
    PROVE  << e >> \in Seq(Events) /\ (EventInv(e) => Sound(<< e >>))
BY DEF Sound

\* Steps of the pairing service: one session, n's, and one bus, m's, change.
LEMMA ServiceStep ==
    ASSUME MInv, NEW n \in Node, NEW m \in Node,
           NEW s \in Sessions, pair' = [pair EXCEPT ![n] = s],
           NEW es \in Seq(Events), Publish(m, es),
           UNCHANGED << page, view, svc, store, due, created, wants, late, acts >>,
           NoZeroTeam /\ (\A i \in Node : DeviceInv(i)) => SessionInv(s) /\ Sound(es)
    PROVE  MInv'
<1>1. TypeOK
  BY DEF MInv
<1>2. /\ Queues(bus')
      /\ Sound(es) => \A i \in Node : Sound(bus[i]) => Sound(bus'[i])
  BY <1>1, DeviceTypes, PublishType
<1>3. (\A i \in Node : DeviceInv(i))
      => /\ \A i \in Node : Sound(bus[i])
         /\ page[n].psk = svc[n].psk /\ store[n].psk = svc[n].psk /\ KeyHasTeam(page[n])
  BY DEF DeviceInv, Sound
<1>4. /\ page' = [page EXCEPT ![n] = page[n]] /\ view' = [view EXCEPT ![n] = view[n]]
      /\ svc' = [svc EXCEPT ![n] = svc[n]] /\ store' = [store EXCEPT ![n] = store[n]]
      /\ due' \in [Node -> Nat] /\ created \subseteq created' /\ created' \in SUBSET AllKeys
      /\ wants' \in [Node -> BOOLEAN]
      /\ late' \in [Node -> SUBSET Events] /\ acts' \in 0 .. MaxActs
  BY <1>1, DeviceTypes
<1>5. /\ page[n] \in Pages /\ view[n] \in Views /\ svc[n] \in AllKeys \cup {NoKeys}
      /\ store[n] \in Records \cup {NoRecord}
  BY <1>1, DeviceTypes
<1>6. NoZeroTeam' /\ NoZeroTeam /\ (\A i \in Node : DeviceInv(i))
      => /\ page[n].psk = svc[n].psk /\ store[n].psk = svc[n].psk
         /\ KeyHasTeam(page[n]) /\ SessionInv(s)
         /\ \A i \in Node : Sound(bus'[i])
  BY <1>2, <1>3
<1> QED
  BY <1>2, <1>4, <1>5, <1>6, DeviceStep

\* Commands: the page is saved, so the record has its key.
LEMMA SavedStep ==
    ASSUME MInv, NEW n \in Node,
           NEW p \in Pages, NEW v \in Views, Saved(n, p, v),
           NEW k \in AllKeys \cup {NoKeys}, svc' = [svc EXCEPT ![n] = k],
           NEW s \in Sessions, pair' = [pair EXCEPT ![n] = s],
           Queues(bus'), due' \in [Node -> Nat],
           created \subseteq created', created' \in SUBSET AllKeys,
           wants' \in [Node -> BOOLEAN], late' \in [Node -> SUBSET Events],
           acts' \in 0 .. MaxActs,
           NoZeroTeam' /\ NoZeroTeam /\ (\A m \in Node : DeviceInv(m))
           => /\ p.psk = k.psk /\ KeyHasTeam(p) /\ SessionInv(s)
              /\ \A m \in Node : Sound(bus'[m])
    PROVE  MInv'
<1>1. KeyHasTeam(p) => RecordOf(p).psk = p.psk
  <2>1. CASE p.psk = NoPsk
    BY <2>1, RecordType DEF NoRecord
  <2>2. CASE p.psk # NoPsk
    BY <2>2, RecordType, Numbers DEF KeyHasTeam, RealTeam
  <2> QED
    BY <2>1, <2>2
<1>2. RecordOf(p) \in Records \cup {NoRecord}
  BY RecordType
<1>3. /\ page' = [page EXCEPT ![n] = p] /\ view' = [view EXCEPT ![n] = v]
      /\ store' = [store EXCEPT ![n] = RecordOf(p)]
  BY DEF Saved
<1> QED
  BY <1>1, <1>2, <1>3, DeviceStep

-----------------------------------------------------------------------------
(* The initial states, and the pairing service.                             *)

\* No device has a team or a key when the system starts.
LEMMA InitInv == Init => MInv
<1> SUFFICES ASSUME Init PROVE MInv
  OBVIOUS
<1>1. TypeOK
  <2>1. << >> \in Seq(Events) /\ Len(<< >>) <= QueueMax
    BY MembershipAssumption
  <2>2. Resting \in Sessions
    BY DEF Resting, Sessions, PairingStates
  <2>3. acts \in 0 .. MaxActs
    BY MembershipAssumption DEF Init
  <2> QED
    BY <2>1, <2>2, <2>3, BlankType DEF Init, TypeOK, Views
<1>2. ASSUME NEW n \in Node PROVE DeviceInv(n)
  <2>1. SessionInv(Resting)
    BY Numbers DEF SessionInv, Resting
  <2>2. KeyHasTeam(Blank) /\ Blank.psk = NoKeys.psk /\ NoRecord.psk = NoKeys.psk
    BY BlankType DEF KeyHasTeam, NoKeys, NoRecord
  <2> QED
    BY <2>1, <2>2 DEF Init, DeviceInv
<1> QED
  BY <1>1, <1>2 DEF MInv

\* Resting, leading with the page's keys, scanning and stopping are sessions.
LEMMA SessionTypes ==
    ASSUME NEW n \in Node, NEW p \in Pages, NEW s \in Sessions
    PROVE  /\ Resting \in Sessions /\ SessionInv(Resting)
           /\ Scanning \in Sessions /\ SessionInv(Scanning)
           /\ p.team # NoTeam => Leading(n, p) \in Sessions
           /\ RealTeam(p.team) => SessionInv(Leading(n, p))
           /\ Stopped(s) \in Sessions
           /\ SessionInv(s) => SessionInv(Stopped(s))
<1>1. Resting \in Sessions /\ SessionInv(Resting)
  BY Numbers DEF Resting, Sessions, SessionInv, PairingStates
<1>2. Scanning \in Sessions /\ SessionInv(Scanning)
  BY Numbers DEF Scanning, Resting, Sessions, SessionInv, PairingStates
<1>3. Stopped(s) \in Sessions /\ (SessionInv(s) => SessionInv(Stopped(s)))
  BY Numbers DEF Stopped, Resting, Sessions, SessionInv, PairingStates
<1> DEFINE t == Leading(n, p)
<1>4. t.role = "Leader" /\ t.team = p.team
  BY DEF Leading, Resting
<1>5. p.team \in TeamIds \cup {NoTeam} /\ p.psk \in Psks \cup {NoPsk}
  BY DEF Pages
<1>6. p.team # NoTeam => t \in Sessions
  BY <1>5 DEF Leading, Resting, Sessions, PairingStates
<1>7. RealTeam(p.team) => SessionInv(t)
  BY <1>4 DEF SessionInv, RealTeam
<1> QED
  BY <1>1, <1>2, <1>3, <1>6, <1>7

\* The event of a session, about a peer or not.
LEMMA SessionEvent ==
    ASSUME NEW s \in Sessions, NEW peer \in Node \cup {NoNode}
    PROVE  /\ PairingEvent(s, peer) \in Events
           /\ SessionInv(s) => EventInv(PairingEvent(s, peer))
           /\ << PairingEvent(s, peer) >> \in Seq(Events)
           /\ SessionInv(s) => Sound(<< PairingEvent(s, peer) >>)
<1>1. s.role \in {"None", "Leader", "Member"} /\ s.state \in PairingStates
      /\ s.team \in TeamIds \cup {NoTeam}
  BY DEF Sessions
<1>2. /\ PairingEvent(s, peer) \in Events
      /\ SessionInv(s) => EventInv(PairingEvent(s, peer))
  BY <1>1, PairingEventSound DEF SessionInv
<1> QED
  BY <1>2, OneEvent

\* The team a beacon names is that of a leader, hence real.
LEMMA HearBeaconInv ==
    ASSUME MInv, NEW n \in Node, NEW l \in Node, HearBeacon(n, l) PROVE MInv'
<1> DEFINE s == [pair[n] EXCEPT !.state = "JoinSent", !.team = pair[l].team,
                                !.leader = l, !.granted = NoPsk]
<1>1. pair[n] \in Sessions /\ pair[l] \in Sessions
  BY DeviceTypes DEF MInv
<1>2. s \in Sessions
  BY <1>1 DEF HearBeacon, Sessions, PairingStates
<1>3. SessionInv(pair[l]) => SessionInv(s)
  BY <1>1, Numbers DEF HearBeacon, SessionInv, Sessions, RealTeam
<1>4. pair' = [pair EXCEPT ![n] = s] /\ Publish(n, << PairingEvent(s, NoNode) >>)
      /\ UNCHANGED << page, view, svc, store, due, created, wants, late, acts >>
  BY DEF HearBeacon
<1> HIDE DEF s
<1>5. (\A i \in Node : DeviceInv(i)) => SessionInv(s)
  BY <1>3 DEF DeviceInv
<1> QED
  BY <1>2, <1>4, <1>5, SessionEvent, ServiceStep

\* Only the state of the session changes.
LEMMA AwaitKeyInv ==
    ASSUME MInv, NEW n \in Node, AwaitKey(n) PROVE MInv'
<1> DEFINE s == [pair[n] EXCEPT !.state = "WaitingKey"]
<1>1. pair[n] \in Sessions
  BY DeviceTypes DEF MInv
<1>2. s \in Sessions
  BY <1>1 DEF Sessions, PairingStates
<1>3. SessionInv(pair[n]) => SessionInv(s)
  BY <1>1 DEF SessionInv, Sessions
<1>4. pair' = [pair EXCEPT ![n] = s] /\ Publish(n, << PairingEvent(s, NoNode) >>)
      /\ UNCHANGED << page, view, svc, store, due, created, wants, late, acts >>
  BY DEF AwaitKey
<1> HIDE DEF s
<1>5. (\A i \in Node : DeviceInv(i)) => SessionInv(s)
  BY <1>3 DEF DeviceInv
<1> QED
  BY <1>2, <1>4, <1>5, SessionEvent, ServiceStep

\* The member that gets a key waits for the team of a leader.
LEMMA AnswerJoinInv ==
    ASSUME MInv, NEW l \in Node, NEW n \in Node, AnswerJoin(l, n) PROVE MInv'
<1> DEFINE s == [pair[n] EXCEPT !.granted = pair[l].psk]
<1>1. pair[n] \in Sessions /\ pair[l] \in Sessions
  BY DeviceTypes DEF MInv
<1>2. s \in Sessions
  BY <1>1 DEF AnswerJoin, Awaiting, Sessions
<1>3. SessionInv(pair[l]) => SessionInv(s)
  BY <1>1 DEF AnswerJoin, Awaiting, SessionInv, Sessions
<1>4. pair' = [pair EXCEPT ![n] = s] /\ Publish(l, << PairingEvent(pair[l], n) >>)
      /\ UNCHANGED << page, view, svc, store, due, created, wants, late, acts >>
  BY <1>1 DEF AnswerJoin, Sessions
<1> HIDE DEF s
<1>5. (\A i \in Node : DeviceInv(i)) => SessionInv(pair[l]) /\ SessionInv(s)
  BY <1>3 DEF DeviceInv
<1> QED
  BY <1>1, <1>2, <1>4, <1>5, SessionEvent, ServiceStep

\* The key is published with the team it was granted for, which is real.
LEMMA TakeKeyInv ==
    ASSUME MInv, NEW n \in Node, TakeKey(n) PROVE MInv'
<1> DEFINE s == pair[n]
           c == [s EXCEPT !.state = "Completed"]
           e1 == [kind |-> "KeyDist", team |-> s.team, psk |-> s.granted, from |-> s.leader]
           e2 == PairingEvent(c, s.leader)
           e3 == PairingEvent(Stopped(s), NoNode)
<1>1. s \in Sessions /\ s.granted # NoPsk
  BY DeviceTypes DEF MInv, TakeKey
<1>2. Stopped(s) \in Sessions /\ (SessionInv(s) => SessionInv(Stopped(s)))
  BY <1>1, BlankType, SessionTypes
<1>3. e1 \in Events /\ (SessionInv(s) => EventInv(e1))
  BY <1>1 DEF Sessions, Events, SessionInv, EventInv
<1>4. e2 \in Events /\ (SessionInv(s) => EventInv(e2))
  <2>1. /\ c.role \in {"None", "Leader", "Member"} /\ c.state \in PairingStates
        /\ c.team \in TeamIds \cup {NoTeam} /\ s.leader \in Node /\ c.team = s.team
    BY <1>1 DEF Sessions, PairingStates
  <2> HIDE DEF c
  <2> QED
    BY <2>1, PairingEventSound DEF SessionInv
<1>5. e3 \in Events /\ (SessionInv(s) => EventInv(e3))
  BY <1>2, SessionEvent
<1>6. /\ pair' = [pair EXCEPT ![n] = Stopped(s)] /\ Publish(n, << e1, e2, e3 >>)
      /\ UNCHANGED << page, view, svc, store, due, created, wants, late, acts >>
  BY DEF TakeKey
<1> HIDE DEF e1, e2, e3
<1>7. << e1, e2, e3 >> \in Seq(Events) /\ (SessionInv(s) => Sound(<< e1, e2, e3 >>))
  BY <1>3, <1>4, <1>5 DEF Sound
<1>8. (\A i \in Node : DeviceInv(i)) => SessionInv(s)
  BY DEF DeviceInv
<1> HIDE DEF s
<1> QED
  BY <1>2, <1>6, <1>7, <1>8, ServiceStep

\* A session that ends keeps its team id and drops its key.
LEMMA ExpireInv ==
    ASSUME MInv, NEW n \in Node, Expire(n) PROVE MInv'
<1> DEFINE s == pair[n]
           c == [s EXCEPT !.state = "Failed"]
           e2 == PairingEvent(c, NoNode)
           e3 == PairingEvent(Stopped(s), NoNode)
<1>1. s \in Sessions
  BY DeviceTypes DEF MInv
<1>2. Stopped(s) \in Sessions /\ (SessionInv(s) => SessionInv(Stopped(s)))
  BY <1>1, BlankType, SessionTypes
<1>4. e2 \in Events /\ (SessionInv(s) => EventInv(e2))
  <2>1. /\ c.role \in {"None", "Leader", "Member"} /\ c.state \in PairingStates
        /\ c.team \in TeamIds \cup {NoTeam} /\ c.team = s.team
    BY <1>1 DEF Sessions, PairingStates
  <2> HIDE DEF c
  <2> QED
    BY <2>1, PairingEventSound DEF SessionInv
<1>5. e3 \in Events /\ (SessionInv(s) => EventInv(e3))
  BY <1>2, SessionEvent
<1>6. /\ pair' = [pair EXCEPT ![n] = Stopped(s)] /\ Publish(n, << e2, e3 >>)
      /\ UNCHANGED << page, view, svc, store, due, created, wants, late, acts >>
  BY DEF Expire
<1> HIDE DEF e2, e3
<1>7. << e2, e3 >> \in Seq(Events) /\ (SessionInv(s) => Sound(<< e2, e3 >>))
  BY <1>4, <1>5 DEF Sound
<1>8. (\A i \in Node : DeviceInv(i)) => SessionInv(s)
  BY DEF DeviceInv
<1> HIDE DEF s
<1> QED
  BY <1>2, <1>6, <1>7, <1>8, ServiceStep

-----------------------------------------------------------------------------
(* The commands.                                                            *)

\* A command that starts, or stops, the pairing service and saves the page,
\* which keeps the team and the key it had.
LEMMA StartStep ==
    ASSUME MInv, NEW n \in Node,
           NEW p \in Pages, NEW v \in Views, Saved(n, p, v),
           p.psk = page[n].psk, p.team = page[n].team,
           NEW s \in Sessions, Start(n, s),
           wants' \in [Node -> BOOLEAN], late' \in [Node -> SUBSET Events],
           UNCHANGED << svc, due, created >>, acts' \in 0 .. MaxActs,
           NoZeroTeam /\ (\A i \in Node : DeviceInv(i)) => SessionInv(s)
    PROVE  MInv'
<1>1. TypeOK
  BY DEF MInv
<1>2. << PairingEvent(s, NoNode) >> \in Seq(Events)
      /\ (SessionInv(s) => Sound(<< PairingEvent(s, NoNode) >>))
  BY SessionEvent
<1>3. pair' = [pair EXCEPT ![n] = s] /\ Publish(n, << PairingEvent(s, NoNode) >>)
  BY DEF Start
<1>4. /\ Queues(bus')
      /\ SessionInv(s) => \A i \in Node : Sound(bus[i]) => Sound(bus'[i])
  BY <1>1, <1>2, <1>3, DeviceTypes, PublishType
<1>5. /\ svc[n] \in AllKeys \cup {NoKeys} /\ svc' = [svc EXCEPT ![n] = svc[n]]
      /\ due' \in [Node -> Nat] /\ created \subseteq created' /\ created' \in SUBSET AllKeys
      /\ wants' \in [Node -> BOOLEAN] /\ late' \in [Node -> SUBSET Events]
  BY <1>1, DeviceTypes
<1>6. NoZeroTeam' /\ NoZeroTeam /\ (\A m \in Node : DeviceInv(m))
      => /\ p.psk = svc[n].psk /\ KeyHasTeam(p) /\ SessionInv(s)
         /\ \A m \in Node : Sound(bus'[m])
  BY <1>4 DEF DeviceInv, KeyHasTeam, Sound
<1> QED
  BY <1>3, <1>4, <1>5, <1>6, SavedStep

\* A command that ends in saving the page with nothing changed but its screen.
LEMMA RefusedStep ==
    ASSUME MInv, NEW n \in Node, Refused(n), acts' \in 0 .. MaxActs
    PROVE  MInv'
<1>1. TypeOK
  BY DEF MInv
<1>2. /\ page[n] \in Pages /\ view[n] \in Views /\ Saved(n, page[n], view[n])
      /\ svc[n] \in AllKeys \cup {NoKeys} /\ svc' = [svc EXCEPT ![n] = svc[n]]
      /\ pair[n] \in Sessions /\ pair' = [pair EXCEPT ![n] = pair[n]]
      /\ Queues(bus') /\ due' \in [Node -> Nat]
      /\ created \subseteq created' /\ created' \in SUBSET AllKeys /\ wants' \in [Node -> BOOLEAN]
      /\ late' \in [Node -> SUBSET Events]
  BY <1>1, DeviceTypes DEF Refused, Queues
<1>3. NoZeroTeam' /\ NoZeroTeam /\ (\A m \in Node : DeviceInv(m))
      => /\ page[n].psk = svc[n].psk /\ KeyHasTeam(page[n]) /\ SessionInv(pair[n])
         /\ \A m \in Node : Sound(bus'[m])
  BY DEF Refused, DeviceInv, Sound
<1> QED
  BY <1>2, <1>3, SavedStep

\* Counting a command keeps the bound.
LEMMA ActType ==
    ASSUME TypeOK, acts < MaxActs /\ acts' = acts + 1
    PROVE  acts' \in 0 .. MaxActs
BY MembershipAssumption DEF TypeOK

\* What is noted of the user's wish.
LEMMA WishType ==
    ASSUME TypeOK, NEW n \in Node, NEW w \in BOOLEAN, Wish(n, w)
    PROVE  wants' \in [Node -> BOOLEAN] /\ late' \in [Node -> SUBSET Events]
<1>1. Waiting(n) \subseteq Events
  BY DEF TypeOK, Waiting
<1> QED
  BY <1>1 DEF TypeOK, Wish

\* A device that starts to scan names no team.
LEMMA StartMemberInv ==
    ASSUME MInv, NEW n \in Node, StartMember(n), acts' \in 0 .. MaxActs PROVE MInv'
<1> DEFINE p == ReducePairingStarted(page[n], "Member", "MemberScanning")
<1>1. page[n] \in Pages /\ pair[n] \in Sessions
  BY DeviceTypes DEF MInv
<1>2. p \in Pages /\ p.psk = page[n].psk /\ p.team = page[n].team
  BY <1>1, PairingStartedType DEF PairingStates
<1>3. Scanning \in Sessions /\ SessionInv(Scanning) /\ "JoinPending" \in Views
  BY <1>1, SessionTypes DEF Views
<1>4. CASE Saved(n, p, "JoinPending") /\ Start(n, Scanning) /\ Wish(n, TRUE)
           /\ UNCHANGED << svc, due, created >>
  <2> HIDE DEF p
  <2>1. wants' \in [Node -> BOOLEAN] /\ late' \in [Node -> SUBSET Events]
    BY <1>4, WishType DEF MInv
  <2> QED
    BY <1>2, <1>3, <1>4, <2>1, StartStep
<1>5. CASE Refused(n)
  BY <1>5, RefusedStep
<1> QED
  BY <1>4, <1>5 DEF StartMember

\* The page that may lead has a key, so its team is a real one.
LEMMA StartLeaderInv ==
    ASSUME MInv, NEW n \in Node, StartLeader(n), acts' \in 0 .. MaxActs PROVE MInv'
<1> DEFINE p == ReducePairingStarted(page[n], "Leader", "LeaderBeacon")
           s == Leading(n, page[n])
<1>1. page[n] \in Pages /\ pair[n] \in Sessions
  BY DeviceTypes DEF MInv
<1>2. p \in Pages /\ p.psk = page[n].psk /\ p.team = page[n].team
  BY <1>1, PairingStartedType DEF PairingStates
<1>3. CASE /\ CanLead(page[n]) /\ Saved(n, p, "JoinPending") /\ Start(n, s)
           /\ Wish(n, TRUE) /\ UNCHANGED << svc, due, created >>
  <2>1. page[n].team # NoTeam /\ page[n].psk # NoPsk /\ "JoinPending" \in Views
    BY <1>3 DEF CanLead, Views
  <2>2. s \in Sessions
    BY <1>1, <2>1, SessionTypes
  <2>3. (\A i \in Node : DeviceInv(i)) => SessionInv(s)
    BY <1>1, <2>1, SessionTypes DEF DeviceInv, KeyHasTeam
  <2>4. wants' \in [Node -> BOOLEAN] /\ late' \in [Node -> SUBSET Events]
    BY <1>3, WishType DEF MInv
  <2> HIDE DEF p, s
  <2> QED
    BY <1>2, <1>3, <2>1, <2>2, <2>3, <2>4, StartStep
<1>4. CASE Refused(n)
  BY <1>4, RefusedStep
<1> QED
  BY <1>3, <1>4 DEF StartLeader

\* Cancelling keeps the key the page had.
LEMMA CancelJoinInv ==
    ASSUME MInv, NEW n \in Node, CancelJoin(n) PROVE MInv'
<1> DEFINE p == ReduceJoinCanceled(page[n])
<1>1. page[n] \in Pages /\ pair[n] \in Sessions /\ acts' \in 0 .. MaxActs
  BY DeviceTypes, ActType DEF MInv, CancelJoin, Act
<1>2. p \in Pages /\ p.psk = page[n].psk /\ p.team = page[n].team
  BY <1>1, JoinCanceledType
<1>3. StatusView(p) \in Views /\ p.inTeam \in BOOLEAN
  BY <1>2, StatusViewType DEF Pages
<1>4. Stopped(pair[n]) \in Sessions /\ (SessionInv(pair[n]) => SessionInv(Stopped(pair[n])))
  BY <1>1, SessionTypes
<1>5. /\ Saved(n, p, StatusView(p)) /\ Start(n, Stopped(pair[n]))
      /\ Wish(n, wants[n] /\ p.inTeam) /\ UNCHANGED << svc, due, created >>
  BY DEF CancelJoin
<1>6. (\A i \in Node : DeviceInv(i)) => SessionInv(Stopped(pair[n]))
  BY <1>4 DEF DeviceInv
<1> HIDE DEF p
<1>7. wants' \in [Node -> BOOLEAN] /\ late' \in [Node -> SUBSET Events]
  BY <1>3, <1>5, WishType DEF MInv, TypeOK
<1> QED
  BY <1>1, <1>2, <1>3, <1>4, <1>5, <1>6, <1>7, StartStep

\* The keys a create command makes are a pair of AllKeys; if no team is the
\* zero team, they are those of a real one.
LEMMA CreateInv ==
    ASSUME MInv, NEW n \in Node, Create(n) PROVE MInv'
<1>1. /\ TypeOK /\ page[n] \in Pages /\ pair[n] \in Sessions /\ Queues(bus)
      /\ pair = [pair EXCEPT ![n] = pair[n]] /\ acts' \in 0 .. MaxActs
      /\ due' \in [Node -> Nat] /\ wants' \in [Node -> BOOLEAN]
      /\ late' \in [Node -> SUBSET Events]
  BY DeviceTypes, ActType, WishType DEF MInv, Create, Act
<1>2. PICK k \in Fresh :
        LET p == ReduceCreate(page[n], k, k)
        IN  /\ svc' = [svc EXCEPT ![n] = KeysOf(p)]
            /\ created' = created \cup {KeysOf(p)}
            /\ \/ /\ Saved(n, ReducePairingStarted(p, "Leader", "LeaderBeacon"), "JoinPending")
                  /\ Start(n, Leading(n, p))
               \/ /\ pair[n].role = "None"
                  /\ Saved(n, p, "InTeam")
                  /\ UNCHANGED << pair, bus >>
  BY DEF Create
<1> DEFINE p == ReduceCreate(page[n], k, k)
           q == ReducePairingStarted(p, "Leader", "LeaderBeacon")
           s == Leading(n, p)
<1>3. p \in Pages /\ p.psk \in Psks /\ p.team # NoTeam
  BY <1>1, CreateType DEF Fresh
<1> HIDE DEF p
<1>4. q \in Pages /\ q.psk = p.psk /\ q.team = p.team
  BY <1>3, PairingStartedType DEF PairingStates
<1>5. p.team \in TeamIds
  BY <1>3 DEF Pages
<1>6. /\ KeysOf(p) \in AllKeys /\ KeysOf(p).psk = p.psk /\ KeysOf(p).team = p.team
  BY <1>3, <1>5 DEF KeysOf, AllKeys
<1>7. svc' = [svc EXCEPT ![n] = KeysOf(p)] /\ created' = created \cup {KeysOf(p)}
  BY <1>2 DEF p
<1>8. created \subseteq created' /\ created' \in SUBSET AllKeys
  BY <1>1, <1>6, <1>7 DEF TypeOK
<1>9. NoZeroTeam' => RealTeam(p.team)
  BY <1>5, <1>6, <1>7 DEF NoZeroTeam, RealTeam
<1>10. s \in Sessions /\ (RealTeam(p.team) => SessionInv(s))
  BY <1>3, <1>1, SessionTypes
<1>11. "JoinPending" \in Views /\ "InTeam" \in Views
  BY DEF Views
<1>12. CASE Saved(n, q, "JoinPending") /\ Start(n, s)
  <2> HIDE DEF q, s
  <2>1. pair' = [pair EXCEPT ![n] = s] /\ Publish(n, << PairingEvent(s, NoNode) >>)
    BY <1>12 DEF Start
  <2>2. << PairingEvent(s, NoNode) >> \in Seq(Events)
        /\ (SessionInv(s) => Sound(<< PairingEvent(s, NoNode) >>))
    BY <1>10, SessionEvent
  <2>3. /\ Queues(bus')
        /\ SessionInv(s) => \A i \in Node : Sound(bus[i]) => Sound(bus'[i])
    BY <1>1, <2>1, <2>2, PublishType
  <2>4. NoZeroTeam' /\ NoZeroTeam /\ (\A m \in Node : DeviceInv(m))
        => /\ q.psk = KeysOf(p).psk /\ KeyHasTeam(q) /\ SessionInv(s)
           /\ \A m \in Node : Sound(bus'[m])
    BY <1>4, <1>6, <1>9, <1>10, <2>3 DEF DeviceInv, Sound, KeyHasTeam
  <2> QED
    BY <1>1, <1>4, <1>6, <1>7, <1>8, <1>10, <1>11, <1>12, <2>1, <2>3, <2>4, SavedStep
<1>13. CASE Saved(n, p, "InTeam") /\ UNCHANGED << pair, bus >>
  <2>1. pair' = [pair EXCEPT ![n] = pair[n]] /\ Queues(bus')
    BY <1>1, <1>13 DEF Queues
  <2>2. NoZeroTeam' /\ NoZeroTeam /\ (\A m \in Node : DeviceInv(m))
        => /\ p.psk = KeysOf(p).psk /\ KeyHasTeam(p) /\ SessionInv(pair[n])
           /\ \A m \in Node : Sound(bus'[m])
    BY <1>6, <1>9, <1>13 DEF DeviceInv, Sound, KeyHasTeam
  <2> QED
    BY <1>1, <1>3, <1>6, <1>7, <1>8, <1>11, <1>13, <2>1, <2>2, SavedStep
<1> QED
  BY <1>2, <1>12, <1>13 DEF p, q, s

\* Leaving drops the key from the page, the service and, by saving, the record.
LEMMA LeaveInv ==
    ASSUME MInv, NEW n \in Node, Leave(n) PROVE MInv'
<1> DEFINE s == Stopped(pair[n])
<1>1. /\ pair[n] \in Sessions /\ Queues(bus) /\ acts' \in 0 .. MaxActs
      /\ due' \in [Node -> Nat] /\ wants' \in [Node -> BOOLEAN]
      /\ late' \in [Node -> SUBSET Events]
      /\ created \subseteq created' /\ created' \in SUBSET AllKeys
  BY DeviceTypes, ActType, WishType DEF MInv, Leave, Act
<1>2. s \in Sessions /\ (SessionInv(pair[n]) => SessionInv(s))
  BY <1>1, BlankType, SessionTypes
<1>3. << PairingEvent(s, NoNode) >> \in Seq(Events)
      /\ (SessionInv(s) => Sound(<< PairingEvent(s, NoNode) >>))
  BY <1>2, SessionEvent
<1>4. /\ Saved(n, Blank, "NotInTeam") /\ svc' = [svc EXCEPT ![n] = NoKeys]
      /\ pair' = [pair EXCEPT ![n] = s] /\ Publish(n, << PairingEvent(s, NoNode) >>)
  BY DEF Leave, ReduceLeave, Start
<1> HIDE DEF s
<1>5. /\ Queues(bus')
      /\ SessionInv(s) => \A i \in Node : Sound(bus[i]) => Sound(bus'[i])
  BY <1>1, <1>3, <1>4, PublishType
<1>6. Blank \in Pages /\ Blank.psk = NoKeys.psk /\ KeyHasTeam(Blank) /\ "NotInTeam" \in Views
  BY BlankType DEF NoKeys, KeyHasTeam, Views
<1>7. (\A m \in Node : DeviceInv(m)) => SessionInv(s) /\ \A m \in Node : Sound(bus'[m])
  BY <1>2, <1>5 DEF DeviceInv, Sound
<1> QED
  BY <1>1, <1>2, <1>4, <1>5, <1>6, <1>7, SavedStep

\* The frame names a member by its row, and no team of a page.
LEMMA TransferLeaderInv ==
    ASSUME MInv, NEW n \in Node, TransferLeader(n) PROVE MInv'
<1>1. /\ TypeOK /\ page[n] \in Pages /\ svc[n] \in AllKeys \cup {NoKeys} /\ Queues(bus)
      /\ pair[n] \in Sessions /\ acts' \in 0 .. MaxActs
      /\ svc = [svc EXCEPT ![n] = svc[n]] /\ pair = [pair EXCEPT ![n] = pair[n]]
      /\ due \in [Node -> Nat] /\ wants \in [Node -> BOOLEAN]
      /\ late \in [Node -> SUBSET Events] /\ created \in SUBSET AllKeys
  BY DeviceTypes, ActType DEF MInv, TransferLeader, Act
<1>2. PICK row \in RowsOf(page[n]) :
        /\ Saved(n, ReduceTransferLeader(page[n], row), "InTeam")
        /\ \E E \in SUBSET Readers(n, svc[n]) :
             bus' = Hear(bus, E, [kind |-> "Transfer", team |-> svc[n].team,
                                  from |-> n, target |-> row])
  BY DEF TransferLeader
<1> DEFINE p == ReduceTransferLeader(page[n], row)
           e == [kind |-> "Transfer", team |-> svc[n].team, from |-> n, target |-> row]
<1>3. PICK E \in SUBSET Readers(n, svc[n]) : bus' = Hear(bus, E, e)
  BY <1>2
<1>4. row \in Rows
  BY <1>1 DEF RowsOf, Pages
<1>5. p \in Pages /\ p.psk = page[n].psk /\ p.team = page[n].team
  BY <1>1, <1>4, TransferLeaderType
<1>6. E # {} => e \in Events
  <2>1. E # {} => svc[n] \in AllKeys
    BY <1>1 DEF Readers
  <2>2. svc[n] \in AllKeys => svc[n].team \in TeamIds
    BY DEF AllKeys
  <2> QED
    BY <1>4, <2>1, <2>2 DEF Events
<1>7. EventInv(e)
  BY DEF EventInv
<1> HIDE DEF p, e
<1>8. DOMAIN bus = Node /\ \A m \in Node : Queue(bus[m])
  BY <1>1 DEF Queues
<1> DEFINE c == Hear(bus, E, e)
<1>9. /\ c = [m \in Node |-> c[m]] /\ \A m \in Node : Queue(c[m])
      /\ \A m \in Node : Sound(bus[m]) => Sound(c[m])
  BY <1>6, <1>7, <1>8, HearType
<1> HIDE DEF c
<1>10. bus' = c
  BY <1>3 DEF c
<1>11. Queues(bus') /\ \A m \in Node : Sound(bus[m]) => Sound(bus'[m])
  BY <1>9, <1>10 DEF Queues, Queue
<1>12. /\ Saved(n, p, "InTeam") /\ "InTeam" \in Views
       /\ svc' = [svc EXCEPT ![n] = svc[n]] /\ pair' = [pair EXCEPT ![n] = pair[n]]
       /\ due' \in [Node -> Nat] /\ wants' \in [Node -> BOOLEAN]
       /\ late' \in [Node -> SUBSET Events]
       /\ created \subseteq created' /\ created' \in SUBSET AllKeys
  BY <1>1, <1>2 DEF TransferLeader, Views, p
<1>13. NoZeroTeam' /\ NoZeroTeam /\ (\A m \in Node : DeviceInv(m))
       => /\ p.psk = svc[n].psk /\ KeyHasTeam(p) /\ SessionInv(pair[n])
          /\ \A m \in Node : Sound(bus'[m])
  BY <1>5, <1>11 DEF DeviceInv, KeyHasTeam, Sound
<1> QED
  BY <1>1, <1>5, <1>11, <1>12, <1>13, SavedStep

\* What an open page takes from the record and the pairing service keeps its
\* key if that is the record's.
LEMMA SyncedType ==
    ASSUME NEW n \in Node, NEW p \in Pages, NEW r \in Records \cup {NoRecord},
           pair[n] \in Sessions
    PROVE  LET q == Synced(n, p, r)
           IN  /\ q \in Pages
               /\ r.psk = p.psk => q.psk = p.psk
               /\ r.psk = p.psk /\ KeyHasTeam(p) /\ pair[n].team # ZeroTeam => KeyHasTeam(q)
<1> DEFINE t == FromStore(p, r)
<1>1. /\ t \in Pages /\ (r = NoRecord => t = p)
      /\ r # NoRecord => t.psk = r.psk /\ t.team = r.team /\ RealTeam(r.team)
  BY FromStoreType DEF RealTeam
<1> HIDE DEF t
<1>2. /\ pair[n].role \in {"None", "Leader", "Member"} /\ pair[n].state \in PairingStates
      /\ pair[n].team \in TeamIds \cup {NoTeam}
  BY DEF Sessions
<1> DEFINE q == SyncPairing(t, pair[n])
<1>3. /\ q \in Pages /\ q.psk = t.psk
      /\ pair[n].team = NoTeam => q.team = t.team
      /\ pair[n].team # NoTeam => q.team = pair[n].team
  BY <1>1, <1>2, SyncPairingType
<1> HIDE DEF q
<1>4. KeyHasTeam(p) => KeyHasTeam(t)
  BY <1>1 DEF KeyHasTeam
<1>5. KeyHasTeam(t) /\ pair[n].team # ZeroTeam => KeyHasTeam(q)
  BY <1>2, <1>3 DEF KeyHasTeam, RealTeam
<1>6. Synced(n, p, r) = q
  BY DEF Synced, q, t
<1>7. r.psk = p.psk => q.psk = p.psk
  BY <1>1, <1>3
<1> QED
  BY <1>3, <1>4, <1>5, <1>6, <1>7

\* Steps that change nothing but the page, its screen and what is due.
LEMMA PageStep ==
    ASSUME MInv, NEW n \in Node,
           NEW p \in Pages, page' = [page EXCEPT ![n] = p],
           NEW v \in Views, view' = [view EXCEPT ![n] = v],
           UNCHANGED << svc, store, bus, pair, created, wants, late >>,
           due' \in [Node -> Nat], acts' \in 0 .. MaxActs,
           NoZeroTeam /\ (\A m \in Node : DeviceInv(m)) => p.psk = store[n].psk /\ KeyHasTeam(p)
    PROVE  MInv'
<1>1. /\ svc[n] \in AllKeys \cup {NoKeys} /\ svc' = [svc EXCEPT ![n] = svc[n]]
      /\ store[n] \in Records \cup {NoRecord} /\ store' = [store EXCEPT ![n] = store[n]]
      /\ pair[n] \in Sessions /\ pair' = [pair EXCEPT ![n] = pair[n]]
      /\ Queues(bus') /\ created \subseteq created' /\ created' \in SUBSET AllKeys
      /\ wants' \in [Node -> BOOLEAN] /\ late' \in [Node -> SUBSET Events]
  BY DeviceTypes DEF MInv, Queues
<1>2. NoZeroTeam' /\ NoZeroTeam /\ (\A m \in Node : DeviceInv(m))
      => /\ p.psk = svc[n].psk /\ store[n].psk = svc[n].psk /\ KeyHasTeam(p)
         /\ SessionInv(pair[n]) /\ \A m \in Node : Sound(bus'[m])
  BY DEF DeviceInv, Sound
<1> QED
  BY ONLY <1>1, <1>2, DeviceStep, MInv, n \in Node, p \in Pages, v \in Views,
     page' = [page EXCEPT ![n] = p], view' = [view EXCEPT ![n] = v],
     due' \in [Node -> Nat], acts' \in 0 .. MaxActs

\* Leaving the pairing screen changes no key.
LEMMA BackInv ==
    ASSUME MInv, NEW n \in Node, Back(n) PROVE MInv'
<1>1. /\ page[n] \in Pages /\ page = [page EXCEPT ![n] = page[n]] /\ due \in [Node -> Nat]
      /\ acts' \in 0 .. MaxActs
  BY DeviceTypes, ActType DEF MInv, Back, Act
<1>2. StatusView(page[n]) \in Views
  BY StatusViewType
<1>3. (\A m \in Node : DeviceInv(m)) => page[n].psk = store[n].psk /\ KeyHasTeam(page[n])
  BY DEF DeviceInv
<1>4. /\ view' = [view EXCEPT ![n] = StatusView(page[n])]
      /\ UNCHANGED << page, svc, store, bus, due, pair, created, wants, late >>
  BY DEF Back
<1> QED
  BY <1>1, <1>2, <1>3, <1>4, PageStep

\* The page of a record has the record's key.
LEMMA LoadedType ==
    ASSUME NEW r \in Records \cup {NoRecord}
    PROVE  LET p == FromStore(Blank, r)
           IN  /\ p \in Pages /\ p.psk = r.psk /\ KeyHasTeam(p)
               /\ KeysOf(r) \in AllKeys \cup {NoKeys} /\ KeysOf(r).psk = r.psk
<1> DEFINE p == FromStore(Blank, r)
<1>1. /\ p \in Pages /\ (r = NoRecord => p = Blank)
      /\ r # NoRecord => /\ p.psk = r.psk /\ p.team = r.team
                         /\ r.psk \in Psks /\ r.team \in TeamIds \ {ZeroTeam}
  BY BlankType, FromStoreType
<1> HIDE DEF p
<1>2. p.psk = r.psk
  BY <1>1, BlankType DEF NoRecord
<1>3. KeyHasTeam(p)
  BY <1>1, BlankType DEF KeyHasTeam, RealTeam
<1>4. r = NoRecord => KeysOf(r) = NoKeys
  BY DEF KeysOf, NoRecord, NoKeys
<1>5. r # NoRecord => KeysOf(r) \in AllKeys
  BY <1>1 DEF KeysOf, AllKeys
<1> QED
  BY <1>1, <1>2, <1>3, <1>4, <1>5 DEF KeysOf, p

\* A closed page is that of the record, which has the key of the service.
LEMMA CloseInv ==
    ASSUME MInv, NEW n \in Node, Close(n) PROVE MInv'
<1> DEFINE p == FromStore(Blank, store[n])
<1>1. store[n] \in Records \cup {NoRecord} /\ due' \in [Node -> Nat] /\ acts' \in 0 .. MaxActs
  BY DeviceTypes, ActType DEF MInv, Close, Act
<1>2. p \in Pages /\ p.psk = store[n].psk /\ KeyHasTeam(p) /\ "Closed" \in Views
  BY <1>1, LoadedType DEF Views
<1>3. /\ view' = [view EXCEPT ![n] = "Closed"] /\ page' = [page EXCEPT ![n] = p]
      /\ UNCHANGED << svc, store, bus, pair, created, wants, late >>
  BY DEF Close
<1> HIDE DEF p
<1> QED
  BY <1>1, <1>2, <1>3, PageStep

\* An open page takes record and session, which have its key and a real team.
LEMMA OpenInv ==
    ASSUME MInv, NEW n \in Node, Open(n) PROVE MInv'
<1> DEFINE p == SyncPairing(page[n], pair[n])
           q == Synced(n, p, store[n])
<1>1. /\ page[n] \in Pages /\ pair[n] \in Sessions /\ store[n] \in Records \cup {NoRecord}
      /\ due' \in [Node -> Nat] /\ acts' \in 0 .. MaxActs
  BY DeviceTypes DEF MInv, Open
<1>2. /\ pair[n].role \in {"None", "Leader", "Member"} /\ pair[n].state \in PairingStates
      /\ pair[n].team \in TeamIds \cup {NoTeam}
  BY <1>1 DEF Sessions
<1>3. /\ p \in Pages /\ p.psk = page[n].psk
      /\ pair[n].team = NoTeam => p.team = page[n].team
      /\ pair[n].team # NoTeam => p.team = pair[n].team
  BY <1>1, <1>2, SyncPairingType
<1>4. /\ page' = [page EXCEPT ![n] = q] /\ view' = [view EXCEPT ![n] = SyncView(q, InitialView(p))]
      /\ UNCHANGED << svc, store, bus, pair, created, wants, late >>
  BY DEF Open
<1> HIDE DEF p
<1>5. /\ q \in Pages
      /\ store[n].psk = p.psk => q.psk = p.psk
      /\ store[n].psk = p.psk /\ KeyHasTeam(p) /\ pair[n].team # ZeroTeam => KeyHasTeam(q)
  BY <1>1, <1>3, SyncedType
<1> HIDE DEF q
<1>6. SyncView(q, InitialView(p)) \in Views
  BY InitialViewType, SyncViewType
<1>7. KeyHasTeam(page[n]) /\ pair[n].team # ZeroTeam => KeyHasTeam(p)
  BY <1>2, <1>3 DEF KeyHasTeam, RealTeam
<1>8. (\A m \in Node : DeviceInv(m)) => q.psk = store[n].psk /\ KeyHasTeam(q)
  BY <1>3, <1>5, <1>7 DEF DeviceInv, SessionInv
<1> QED
  BY <1>1, <1>4, <1>5, <1>6, <1>8, PageStep

-----------------------------------------------------------------------------
(* Restarts.                                                                *)

\* Service and page are restored from one record, whatever it holds.
LEMMA RestartedInv ==
    ASSUME MInv, NEW n \in Node, NEW r \in Records \cup {NoRecord}, Restarted(n, r),
           acts' \in 0 .. MaxActs
    PROVE  MInv'
<1> DEFINE p == FromStore(Blank, r)
<1>1. p \in Pages /\ p.psk = KeysOf(r).psk /\ r.psk = KeysOf(r).psk /\ KeyHasTeam(p)
      /\ KeysOf(r) \in AllKeys \cup {NoKeys}
  BY LoadedType
<1>2. Resting \in Sessions /\ SessionInv(Resting) /\ "Closed" \in Views
  BY BlankType, Numbers DEF Resting, Sessions, SessionInv, PairingStates, Views
<1>3. /\ Queues(bus) /\ due' \in [Node -> Nat] /\ created \subseteq created'
      /\ created' \in SUBSET AllKeys /\ wants' \in [Node -> BOOLEAN]
      /\ late' \in [Node -> SUBSET Events]
  BY DeviceTypes DEF MInv, Restarted
<1>4. Queue(<< >>) /\ Sound(<< >>)
  BY MembershipAssumption DEF Queue, Sound
<1>5. Queues(bus') /\ \A m \in Node : Sound(bus[m]) => Sound(bus'[m])
  BY <1>3, <1>4 DEF Restarted, Queues, Queue
<1>6. (\A m \in Node : DeviceInv(m)) => \A m \in Node : Sound(bus'[m])
  BY <1>5 DEF DeviceInv, Sound
<1>7. /\ store' = [store EXCEPT ![n] = r] /\ svc' = [svc EXCEPT ![n] = KeysOf(r)]
      /\ page' = [page EXCEPT ![n] = p] /\ view' = [view EXCEPT ![n] = "Closed"]
      /\ pair' = [pair EXCEPT ![n] = Resting]
  BY DEF Restarted
<1> HIDE DEF p
<1> QED
  BY <1>1, <1>2, <1>3, <1>5, <1>6, <1>7, DeviceStep

\* The record that was there.
LEMMA RestartInv ==
    ASSUME MInv, NEW n \in Node, Restart(n) PROVE MInv'
<1>1. store[n] \in Records \cup {NoRecord} /\ acts' \in 0 .. MaxActs
  BY DeviceTypes, ActType DEF MInv, Restart, Counted
<1> QED
  BY <1>1, RestartedInv DEF Restart

\* The device restarts with the new key everywhere.
LEMMA RestartAfterKeysInv ==
    ASSUME MInv, NEW n \in Node, RestartAfterKeys(n) PROVE MInv'
<1> DEFINE e == Head(bus[n])
           t == FromStore(Blank, store[n])
           u == [t EXCEPT !.team = e.team, !.psk = e.psk]
<1>1. /\ store[n] \in Records \cup {NoRecord} /\ acts' \in 0 .. MaxActs
      /\ Queue(bus[n]) /\ bus[n] # << >>
  BY DeviceTypes, ActType DEF MInv, RestartAfterKeys, Counted
<1>2. e \in Events /\ e.kind = "KeyDist"
  BY <1>1, HeadTailType DEF RestartAfterKeys, TakesKeys
<1>3. e.team \in TeamIds /\ e.psk \in Psks
  BY <1>2 DEF Events
<1>4. t \in Pages
  BY <1>1, LoadedType
<1> HIDE DEF e, t
<1>5. u \in Pages
  BY <1>3, <1>4 DEF Pages
<1>6. RecordOf(u) \in Records \cup {NoRecord}
  BY <1>5, RecordType
<1>7. Restarted(n, RecordOf(u))
  BY DEF RestartAfterKeys, e, t
<1> QED
  BY <1>1, <1>6, <1>7, RestartedInv

-----------------------------------------------------------------------------
(* The main loop.                                                           *)

\* An event handled: only a key that is taken changes the page's key, and the
\* page's key stays that of a real team.
LEMMA ReducedType ==
    ASSUME NEW n \in Node, NEW p \in Pages, NEW e \in Events
    PROVE  LET q == Reduce(n, p, e)
           IN  /\ q \in Pages
               /\ TakesKeys(p, e) => KeysOf(q) \in AllKeys
               /\ ~TakesKeys(p, e) => q.psk = p.psk
               /\ KeyHasTeam(p) /\ EventInv(e) => KeyHasTeam(q)
<1> DEFINE q == Reduce(n, p, e)
<1>1. CASE e.kind = "Status"
  <2>1. q = ReduceStatus(n, p, e)
    BY <1>1 DEF Reduce
  <2>2. /\ e.team \in TeamIds /\ e.from \in Node
        /\ e.roster.members \in Seq(Node) /\ e.roster.leader \in Node \cup {NoNode}
    BY <1>1 DEF Events, Rosters
  <2>3. q \in Pages /\ q.psk = p.psk /\ (p.team # NoTeam => q.team = p.team)
    BY <2>1, <2>2, StatusType
  <2> QED
    BY <1>1, <2>3, Numbers DEF TakesKeys, KeyHasTeam, RealTeam
<1>2. CASE e.kind = "Transfer"
  <2>1. q = ReduceTransferEvent(p, e)
    BY <1>2 DEF Reduce
  <2>2. e.target \in Rows
    BY <1>2 DEF Events
  <2>3. q \in Pages /\ q.psk = p.psk /\ q.team = p.team
    BY <2>1, <2>2, TransferEventType
  <2> QED
    BY <1>2, <2>3 DEF TakesKeys, KeyHasTeam
<1>3. CASE e.kind = "KeyDist"
  <2>1. q = ReduceKeyDist(p, e)
    BY <1>3 DEF Reduce
  <2>2. e.team \in TeamIds /\ e.psk \in Psks /\ e.from \in Node
    BY <1>3 DEF Events
  <2>3. /\ q \in Pages
        /\ AcceptsTeam(p, e.team) => q.psk = e.psk /\ q.team = e.team
        /\ ~AcceptsTeam(p, e.team) => q = p
    BY <2>1, <2>2, KeyDistType
  <2> QED
    BY <1>3, <2>2, <2>3 DEF TakesKeys, KeyHasTeam, EventInv, KeysOf, AllKeys
<1>4. CASE e.kind = "Pairing"
  <2>1. q = ReducePairing(p, e)
    BY <1>4 DEF Reduce
  <2>2. /\ e.role \in {"None", "Leader", "Member"} /\ e.state \in PairingStates
        /\ e.team \in TeamIds \cup {NoTeam} /\ e.peer \in Node \cup {NoNode}
    BY <1>4 DEF Events
  <2>3. /\ q \in Pages /\ q.psk = p.psk
        /\ e.team = NoTeam => q.team = p.team
        /\ e.team # NoTeam => q.team = e.team
    BY <2>1, <2>2, PairingEventType
  <2> QED
    BY <1>4, <2>2, <2>3 DEF TakesKeys, KeyHasTeam, EventInv, RealTeam
<1>5. e.kind \in {"Status", "Transfer", "KeyDist", "Pairing"}
  BY DEF Events
<1> QED
  BY <1>1, <1>2, <1>3, <1>4, <1>5

\* What an event asks for is a screen.
LEMMA RequestedType ==
    ASSUME NEW p, NEW e, NEW v \in Views
    PROVE  Requested(p, e, v) \in Views
<1>1. "InTeam" \in Views /\ StatusView(ReducePairing(p, e)) \in Views
  BY StatusViewType DEF Views
<1> QED
  BY <1>1 DEF Requested

\* The roster that is sent.
LEMMA RosterIsSent ==
    ASSUME NEW n \in Node, NEW p \in Pages PROVE RosterOf(n, p) \in Rosters
BY RosterType DEF Rosters

\* A key is saved, set and shown in one step; no other event changes a key, or
\* the team of a page that has one to the zero team.
LEMMA HandleEventInv ==
    ASSUME MInv, NEW n \in Node, HandleEvent(n) PROVE MInv'
<1> DEFINE e == Head(bus[n])
           p == Reduce(n, page[n], e)
           r == RecordOf(p)
           q == Synced(n, p, r)
           keys == IF TakesKeys(page[n], e) THEN KeysOf(p) ELSE svc[n]
           news == e.kind = "Pairing" /\ Newcomer(page[n], e) /\ p.team # NoTeam
           drained == [bus EXCEPT ![n] = Tail(@)]
           w == SyncView(q, Requested(page[n], e, view[n]))
<1>1. /\ TypeOK /\ page[n] \in Pages /\ view[n] \in Views /\ svc[n] \in AllKeys \cup {NoKeys}
      /\ pair[n] \in Sessions /\ pair = [pair EXCEPT ![n] = pair[n]]
      /\ view = [view EXCEPT ![n] = view[n]] /\ Queues(bus) /\ Queue(bus[n])
      /\ due \in [Node -> Nat] /\ created \in SUBSET AllKeys
      /\ wants \in [Node -> BOOLEAN]
      /\ late \in [Node -> SUBSET Events] /\ acts \in 0 .. MaxActs
  BY DeviceTypes DEF MInv
<1>2. /\ store' = [store EXCEPT ![n] = r]
      /\ svc' = [svc EXCEPT ![n] = keys]
      /\ \/ view[n] = "Closed" /\ page' = [page EXCEPT ![n] = p] /\ UNCHANGED view
         \/ page' = [page EXCEPT ![n] = q] /\ view' = [view EXCEPT ![n] = w]
      /\ IF news THEN SendStatus(n, drained, keys, RosterOf(n, p)) ELSE bus' = drained
      /\ due' = [due EXCEPT ![n] = IF news THEN @ + 1 ELSE @]
      /\ UNCHANGED << pair, created, wants, late, acts >>
  BY <1>1 DEF HandleEvent
<1>3. /\ e \in Events /\ Queue(Tail(bus[n]))
      /\ Sound(bus[n]) => EventInv(e) /\ Sound(Tail(bus[n]))
  BY <1>1, HeadTailType DEF HandleEvent
<1> HIDE DEF e
<1>4. /\ p \in Pages
      /\ TakesKeys(page[n], e) => KeysOf(p) \in AllKeys
      /\ ~TakesKeys(page[n], e) => p.psk = page[n].psk
      /\ KeyHasTeam(page[n]) /\ EventInv(e) => KeyHasTeam(p)
  BY <1>1, <1>3, ReducedType
<1> HIDE DEF p
<1>5. r \in Records \cup {NoRecord} /\ (KeyHasTeam(p) => r.psk = p.psk)
  <2>1. CASE p.psk = NoPsk
    BY <1>4, <2>1, RecordType DEF NoRecord
  <2>2. CASE p.psk # NoPsk
    BY <1>4, <2>2, RecordType, Numbers DEF KeyHasTeam, RealTeam
  <2> QED
    BY <2>1, <2>2
<1> HIDE DEF r
<1>6. /\ q \in Pages
      /\ r.psk = p.psk => q.psk = p.psk
      /\ r.psk = p.psk /\ KeyHasTeam(p) /\ pair[n].team # ZeroTeam => KeyHasTeam(q)
  BY <1>1, <1>4, <1>5, SyncedType
<1> HIDE DEF q
<1>7. w \in Views
  BY <1>1, RequestedType, SyncViewType
<1> HIDE DEF w
<1>8. /\ keys \in AllKeys \cup {NoKeys}
      /\ page[n].psk = svc[n].psk => keys.psk = p.psk
  BY <1>1, <1>4 DEF KeysOf
<1> HIDE DEF keys
<1>9. /\ Queues(drained)
      /\ EventInv(e) /\ Sound(bus[n]) => \A m \in Node : Sound(bus[m]) => Sound(drained[m])
  BY <1>1, <1>3 DEF Queues, Queue
<1> HIDE DEF drained
<1>10. /\ Queues(bus')
       /\ \A m \in Node : Sound(drained[m]) => Sound(bus'[m])
  <2>1. RosterOf(n, p) \in Rosters
    BY <1>4, RosterIsSent
  <2>2. SendStatus(n, drained, keys, RosterOf(n, p)) \/ bus' = drained
    BY <1>2
  <2>3. CASE SendStatus(n, drained, keys, RosterOf(n, p))
    BY <1>8, <1>9, <2>1, <2>3, SendStatusType
  <2>4. CASE bus' = drained
    BY <1>9, <2>4 DEF Queues
  <2> QED
    BY <2>2, <2>3, <2>4
<1>11. due' \in [Node -> Nat]
  BY <1>1, <1>2
<1>12. /\ created \subseteq created' /\ created' \in SUBSET AllKeys
       /\ wants' \in [Node -> BOOLEAN]
       /\ late' \in [Node -> SUBSET Events] /\ acts' \in 0 .. MaxActs
       /\ pair' = [pair EXCEPT ![n] = pair[n]]
  BY <1>1, <1>2
<1>13. (\A m \in Node : DeviceInv(m))
       => /\ KeyHasTeam(p) /\ KeyHasTeam(q) /\ q.psk = p.psk
          /\ p.psk = keys.psk /\ r.psk = keys.psk /\ SessionInv(pair[n])
          /\ \A m \in Node : Sound(bus'[m])
  <2> SUFFICES ASSUME \A m \in Node : DeviceInv(m)
               PROVE  /\ KeyHasTeam(p) /\ KeyHasTeam(q) /\ q.psk = p.psk
                      /\ p.psk = keys.psk /\ r.psk = keys.psk /\ SessionInv(pair[n])
                      /\ \A m \in Node : Sound(bus'[m])
    OBVIOUS
  <2>1. /\ page[n].psk = svc[n].psk /\ KeyHasTeam(page[n]) /\ SessionInv(pair[n])
        /\ \A m \in Node : Sound(bus[m])
    BY DEF DeviceInv, Sound
  <2>2. EventInv(e) /\ \A m \in Node : Sound(bus'[m])
    BY <1>3, <1>9, <1>10, <2>1
  <2>3. KeyHasTeam(p) /\ r.psk = p.psk /\ keys.psk = p.psk
    BY <1>4, <1>5, <1>8, <2>1, <2>2
  <2> QED
    BY <1>6, <2>1, <2>2, <2>3 DEF SessionInv
<1>14. /\ store' = [store EXCEPT ![n] = r] /\ svc' = [svc EXCEPT ![n] = keys]
       /\ view[n] \in Views /\ pair[n] \in Sessions
  BY <1>1, <1>2
<1>15. CASE page' = [page EXCEPT ![n] = p] /\ UNCHANGED view
  <2>1. view' = [view EXCEPT ![n] = view[n]]
    BY <1>1, <1>15
  <2>2. NoZeroTeam' /\ NoZeroTeam /\ (\A m \in Node : DeviceInv(m))
        => /\ p.psk = keys.psk /\ r.psk = keys.psk /\ KeyHasTeam(p) /\ SessionInv(pair[n])
           /\ \A m \in Node : Sound(bus'[m])
    BY <1>13
  <2> QED
    BY <1>4, <1>5, <1>8, <1>10, <1>11, <1>12, <1>14, <1>15, <2>1, <2>2, DeviceStep
<1>16. CASE page' = [page EXCEPT ![n] = q] /\ view' = [view EXCEPT ![n] = w]
  <2>1. NoZeroTeam' /\ NoZeroTeam /\ (\A m \in Node : DeviceInv(m))
        => /\ q.psk = keys.psk /\ r.psk = keys.psk /\ KeyHasTeam(q) /\ SessionInv(pair[n])
           /\ \A m \in Node : Sound(bus'[m])
    BY <1>13
  <2> QED
    BY <1>5, <1>6, <1>7, <1>8, <1>10, <1>11, <1>12, <1>14, <1>16, <2>1, DeviceStep
<1> QED
  BY <1>2, <1>15, <1>16

\* Steps that change the buses, and what is due.
LEMMA BusStep ==
    ASSUME MInv, NEW n \in Node, Queues(bus'), due' \in [Node -> Nat],
           UNCHANGED << page, view, svc, store, pair, created, wants, late, acts >>,
           \A m \in Node : Sound(bus[m]) => Sound(bus'[m])
    PROVE  MInv'
<1>1. TypeOK'
  BY DEF MInv, TypeOK, Queues, Queue
<1>2. ASSUME NoZeroTeam' PROVE \A m \in Node : DeviceInv(m)'
  BY <1>2 DEF MInv, NoZeroTeam, DeviceInv, Sound
<1> QED
  BY <1>1, <1>2 DEF MInv

\* The event at the head of a bus goes to its end.
LEMMA RequeueInv ==
    ASSUME MInv, NEW n \in Node, Requeue(n) PROVE MInv'
<1> DEFINE e == Head(bus[n])
           t == Tail(bus[n])
<1>1. Queues(bus) /\ Queue(bus[n]) /\ due \in [Node -> Nat]
  BY DeviceTypes DEF MInv
<1>2. bus[n] # << >> /\ Len(bus[n]) \in Nat
  BY <1>1 DEF Requeue, Queue
<1>3. /\ e \in Events /\ Queue(t) /\ Len(t) = Len(bus[n]) - 1
      /\ Sound(bus[n]) => EventInv(e) /\ Sound(t)
  BY <1>1, <1>2, HeadTailType
<1>4. bus' = [bus EXCEPT ![n] = Append(t, e)]
      /\ UNCHANGED << page, view, svc, store, due, pair, created, wants, late, acts >>
  BY DEF Requeue
<1> HIDE DEF e, t
<1>5. Len(t) < QueueMax
  BY <1>1, <1>2, <1>3, MembershipAssumption DEF Queue
<1>6. Queue(Append(t, e)) /\ (Sound(bus[n]) => Sound(Append(t, e)))
  BY <1>3, <1>5, AppendType
<1>7. Queues(bus') /\ \A m \in Node : Sound(bus[m]) => Sound(bus'[m])
  BY <1>1, <1>4, <1>6 DEF Queues, Queue
<1> QED
  BY <1>1, <1>4, <1>7, BusStep

\* A roster that was scheduled.
LEMMA RebroadcastRosterInv ==
    ASSUME MInv, NEW n \in Node, RebroadcastRoster(n) PROVE MInv'
<1>1. /\ page[n] \in Pages /\ svc[n] \in AllKeys \cup {NoKeys} /\ Queues(bus)
      /\ due \in [Node -> Nat] /\ due[n] > 0
  BY DeviceTypes DEF MInv, RebroadcastRoster
<1>2. /\ due' = [due EXCEPT ![n] = due[n] - 1] \/ due' = [due EXCEPT ![n] = 0]
      /\ SendStatus(n, bus, svc[n], RosterOf(n, page[n])) \/ bus' = bus
      /\ UNCHANGED << page, view, svc, store, pair, created, wants, late, acts >>
  BY DEF RebroadcastRoster
<1>3. due' \in [Node -> Nat]
  <2>1. due[n] - 1 \in Nat /\ 0 \in Nat
    BY <1>1
  <2> QED
    BY <1>1, <1>2, <2>1
<1>4. RosterOf(n, page[n]) \in Rosters
  BY <1>1, RosterIsSent
<1>5. Queues(bus') /\ \A m \in Node : Sound(bus[m]) => Sound(bus'[m])
  BY <1>1, <1>2, <1>4, SendStatusType DEF Queues
<1> QED
  BY <1>2, <1>3, <1>5, BusStep

\* A status without a roster.
LEMMA HeartbeatInv ==
    ASSUME MInv, NEW n \in Node, Heartbeat(n) PROVE MInv'
<1>1. svc[n] \in AllKeys \cup {NoKeys} /\ Queues(bus) /\ due \in [Node -> Nat]
  BY DeviceTypes DEF MInv
<1>2. NoRoster \in Rosters
  <2>1. << >> \in Seq(Node)
    OBVIOUS
  <2> QED
    BY <2>1 DEF NoRoster, Rosters
<1>3. /\ SendStatus(n, bus, svc[n], NoRoster)
      /\ UNCHANGED << page, view, svc, store, due, pair, created, wants, late, acts >>
  BY DEF Heartbeat
<1>4. Queues(bus') /\ \A m \in Node : Sound(bus[m]) => Sound(bus'[m])
  BY <1>1, <1>2, <1>3, SendStatusType
<1> QED
  BY <1>1, <1>3, <1>4, BusStep

-----------------------------------------------------------------------------
\* Every step keeps the invariant.
LEMMA NextInv == MInv /\ [Next]_vars => MInv'
<1> SUFFICES ASSUME MInv, [Next]_vars PROVE MInv'
  OBVIOUS
<1>1. CASE UNCHANGED vars
  BY <1>1 DEF vars, MInv, TypeOK, NoZeroTeam, DeviceInv
<1>2. CASE Next
  <2>1. PICK n \in Node :
          \/ \E l \in Node : HearBeacon(n, l) \/ AnswerJoin(n, l)
          \/ AwaitKey(n) \/ TakeKey(n) \/ Expire(n)
          \/ Create(n) \/ Join(n) \/ Invite(n) \/ Retry(n) \/ CancelJoin(n) \/ Leave(n)
          \/ TransferLeader(n) \/ Back(n) \/ Close(n) \/ Open(n)
          \/ HandleEvent(n) \/ Requeue(n) \/ RebroadcastRoster(n) \/ Heartbeat(n)
          \/ Restart(n) \/ RestartAfterKeys(n)
    BY <1>2 DEF Next
  <2>2. ASSUME Join(n) \/ Invite(n) \/ Retry(n) PROVE MInv'
    <3>1. acts' \in 0 .. MaxActs
      BY <2>2, ActType DEF MInv, Join, Invite, Retry, Act
    <3>2. StartMember(n) \/ StartLeader(n)
      BY <2>2 DEF Join, Invite, Retry
    <3> QED
      BY <3>1, <3>2, StartMemberInv, StartLeaderInv
  <2>3. ASSUME NEW l \in Node, HearBeacon(n, l) \/ AnswerJoin(n, l) PROVE MInv'
    BY <2>3, HearBeaconInv, AnswerJoinInv
  <2> QED
    BY <2>1, <2>2, <2>3, AwaitKeyInv, TakeKeyInv, ExpireInv, CreateInv, CancelJoinInv,
       LeaveInv, TransferLeaderInv, BackInv, CloseInv, OpenInv, HandleEventInv,
       RequeueInv, RebroadcastRosterInv, HeartbeatInv, RestartInv, RestartAfterKeysInv
<1> QED
  BY <1>1, <1>2

\* The invariant behind the one key of a device: in every reachable state all
\* variables have their types, and unless a team has the zero id, a device has
\* one key, every key is that of a real team, and neither the pairing service
\* nor the bus names the zero team where it would be believed.
THEOREM MembershipInvariant == Spec => []MInv
<1>1. Init => MInv
  BY InitInv
<1>2. MInv /\ [Next]_vars => MInv'
  BY NextInv
<1> QED
  BY <1>1, <1>2, PTL DEF Spec

\* Pages, records, sessions and events have their types, and no bus holds more
\* than it can, whatever the devices, the bus and the number of commands.
THEOREM MembershipTypes == Spec => []TypeOK
<1>1. MInv => TypeOK
  BY DEF MInv
<1> QED
  BY <1>1, MembershipInvariant, PTL

\* The page, the team service and the flash record of a device have the same
\* key at every moment: through commands, failed starts, keys handled late or
\* out of order, and restarts in the middle of a key distribution.
THEOREM MembershipOneKey == Spec => []OneKeyInDevice
<1>1. MInv => OneKeyInDevice
  BY DEF MInv, OneKeyInDevice, DeviceInv
<1> QED
  BY <1>1, MembershipInvariant, PTL

-----------------------------------------------------------------------------
(* Why no device gets into a team unasked: while its user wants no team, the *)
(* record on flash does not hold one the page has left, the pairing service  *)
(* rests, and nothing waits on the bus that would take the device in but     *)
(* what was there when the wish was taken back.                              *)

\* An event that takes nobody in.
Harmless(e) ==
    /\ e.kind # "KeyDist"
    /\ e.kind = "Pairing" => e.role # "Leader" /\ e.state # "Completed"

\* The events of q take nobody in, but for those of S.
Gentle(q, S) == \A i \in DOMAIN q : Harmless(q[i]) \/ q[i] \in S

\* A record that takes the page that loads it into a team.
Loads(r) == r # NoRecord /\ r.inTeam

Unasked(n) ==
    /\ Loads(store[n]) => page[n].inTeam
    /\ pair[n].role = "None" /\ pair[n].state = "Idle" /\ pair[n].granted = NoPsk
    /\ Gentle(bus[n], late[n])

WishInv == \A n \in Node : wants[n] \/ Unasked(n)

\* Frames and stopped sessions take nobody in; an event that is handled or put
\* behind leaves the rest as it was.
LEMMA GentleQueues ==
    ASSUME NEW T, NEW q \in Seq(T), NEW e, NEW S
    PROVE  /\ q # << >> /\ Gentle(q, S)
              => (Harmless(Head(q)) \/ Head(q) \in S) /\ Gentle(Tail(q), S)
           /\ Gentle(q, S) /\ (Harmless(e) \/ e \in S) => Gentle(Append(q, e), S)
<1>1. q # << >> => /\ Head(q) = q[1] /\ 1 \in DOMAIN q
                   /\ \A i \in DOMAIN Tail(q) : Tail(q)[i] = q[i + 1] /\ i + 1 \in DOMAIN q
  OBVIOUS
<1>2. ASSUME Gentle(q, S), Harmless(e) \/ e \in S PROVE Gentle(Append(q, e), S)
  <2>1. q \in Seq(T \cup {e}) /\ e \in T \cup {e}
    OBVIOUS
  <2>2. /\ DOMAIN Append(q, e) = 1 .. Len(q) + 1 /\ Append(q, e)[Len(q) + 1] = e
        /\ \A i \in 1 .. Len(q) : Append(q, e)[i] = q[i] /\ i \in DOMAIN q
        /\ Len(q) \in Nat
    BY <2>1
  <2> QED
    BY <1>2, <2>2 DEF Gentle
<1> QED
  BY <1>1, <1>2 DEF Gentle

\* A frame from the air takes nobody in.
LEMMA GentleHear ==
    ASSUME NEW b, NEW T, NEW m \in Node, b[m] \in Seq(T), NEW S, NEW e, Harmless(e), NEW L
    PROVE  /\ Hear(b, S, e)[m] \in Seq(T \cup {e})
           /\ Gentle(b[m], L) => Gentle(Hear(b, S, e)[m], L)
<1>1. Hear(b, S, e)[m] = Append(b[m], e) \/ Hear(b, S, e)[m] = b[m]
  BY DEF Hear
<1>2. b[m] \in Seq(T \cup {e}) /\ e \in T \cup {e}
  OBVIOUS
<1>3. Append(b[m], e) \in Seq(T \cup {e})
  BY <1>2
<1>4. Gentle(b[m], L) => Gentle(Append(b[m], e), L)
  BY GentleQueues
<1> QED
  BY <1>1, <1>2, <1>3, <1>4

\* Nor does a status, with or without a roster.
LEMMA GentleStatus ==
    ASSUME NEW n \in Node, NEW b, NEW m \in Node, b[m] \in Seq(Events), NEW k, NEW roster,
           SendStatus(n, b, k, roster), NEW L
    PROVE  Gentle(b[m], L) => Gentle(bus'[m], L)
<1> DEFINE e == StatusFrame(n, k.team, roster)
           f == StatusFrame(n, ZeroTeam, roster)
<1>1. PICK E \in SUBSET Readers(n, k), P \in SUBSET (Node \ {n}) :
          bus' = Hear(Hear(b, E, e), P, f)
  BY DEF SendStatus
<1>2. Harmless(e) /\ Harmless(f)
  BY DEF Harmless, StatusFrame
<1> HIDE DEF e, f
<1>3. /\ Hear(b, E, e)[m] \in Seq(Events \cup {e})
      /\ Gentle(b[m], L) => Gentle(Hear(b, E, e)[m], L)
  BY <1>2, GentleHear
<1> DEFINE c == Hear(b, E, e)
<1> HIDE DEF c
<1>4. Gentle(c[m], L) => Gentle(Hear(c, P, f)[m], L)
  <2>1. c[m] \in Seq(Events \cup {e})
    BY <1>3 DEF c
  <2> QED
    BY <1>2, <2>1, GentleHear
<1> QED
  BY <1>1, <1>3, <1>4 DEF c

\* What is on the bus after publish() was on it before, or is new.
LEMMA PutElements ==
    ASSUME NEW T, NEW q \in Seq(T), Len(q) <= QueueMax, NEW es \in Seq(T)
    PROVE  \A i \in DOMAIN Put(q, es) :
             \E j : \/ j \in DOMAIN q /\ Put(q, es)[i] = q[j]
                    \/ j \in DOMAIN es /\ Put(q, es)[i] = es[j]
<1> DEFINE room == QueueMax - Len(q)
           k == IF Len(es) <= room THEN Len(es) ELSE room
           t == SubSeq(es, 1, k)
<1>1. Len(q) \in Nat /\ Len(es) \in Nat /\ QueueMax \in Nat
  BY MembershipAssumption
<1>2. k \in Nat /\ k <= Len(es)
  BY <1>1
<1> HIDE DEF k
<1>3. t \in Seq(T) /\ Len(t) = k /\ \A i \in 1 .. k : t[i] = es[i]
  BY <1>2
<1>4. \A i \in DOMAIN t : i \in DOMAIN es /\ t[i] = es[i]
  BY <1>1, <1>2, <1>3
<1> HIDE DEF t
<1>5. \A i \in DOMAIN (q \o t) :
        \/ i \in DOMAIN q /\ (q \o t)[i] = q[i]
        \/ i - Len(q) \in DOMAIN t /\ (q \o t)[i] = t[i - Len(q)]
  BY <1>1, <1>3
<1>6. Put(q, es) = q \o t
  BY DEF Put, t, k
<1> QED
  BY <1>4, <1>5, <1>6

\* When a session is stopped and the wish noted as taken back, the bus holds
\* what was there, and the event that takes nobody in.
LEMMA GentleStop ==
    ASSUME NEW q \in Seq(Events), Len(q) <= QueueMax, NEW s
    PROVE  Gentle(Put(q, << PairingEvent(Stopped(s), NoNode) >>), {q[i] : i \in DOMAIN q})
<1> DEFINE e == PairingEvent(Stopped(s), NoNode)
           T == Events \cup {e}
<1>1. Harmless(e)
  BY DEF Harmless, PairingEvent, Stopped, Resting
<1> HIDE DEF e
<1>2. q \in Seq(T) /\ << e >> \in Seq(T)
  OBVIOUS
<1> HIDE DEF T
<1>3. \A j \in DOMAIN << e >> : << e >>[j] = e
  OBVIOUS
<1>4. \A i \in DOMAIN Put(q, << e >>) :
        \E j : \/ j \in DOMAIN q /\ Put(q, << e >>)[i] = q[j]
               \/ j \in DOMAIN << e >> /\ Put(q, << e >>)[i] = << e >>[j]
  <2> DEFINE es == << e >>
  <2>1. es \in Seq(T)
    BY <1>2
  <2> HIDE DEF es
  <2>2. \A i \in DOMAIN Put(q, es) :
          \E j : \/ j \in DOMAIN q /\ Put(q, es)[i] = q[j]
                 \/ j \in DOMAIN es /\ Put(q, es)[i] = es[j]
    BY <1>2, <2>1, PutElements
  <2> QED
    BY <2>2 DEF es
<1>5. \A i \in DOMAIN Put(q, << e >>) :
        Harmless(Put(q, << e >>)[i]) \/ Put(q, << e >>)[i] \in {q[j] : j \in DOMAIN q}
  BY <1>1, <1>3, <1>4
<1> QED
  BY <1>5 DEF Gentle, e

-----------------------------------------------------------------------------
(* Pages.                                                                   *)

\* Listing a node leaves the page where it is.
LEMMA TouchStays ==
    ASSUME NEW p \in Pages, NEW row PROVE Touch(p, row).inTeam = p.inTeam
BY DEF Touch, Pages

\* So does every event that takes nobody in.
LEMMA ReduceStays ==
    ASSUME NEW n \in Node, NEW p \in Pages, NEW e \in Events, Harmless(e)
    PROVE  Reduce(n, p, e).inTeam = p.inTeam
<1>1. CASE e.kind = "Status"
  <2> DEFINE s == [p EXCEPT !.team = e.team]
             rows == [i \in DOMAIN e.roster.members |-> RowOf(n, e.roster.members[i])]
             t == ApplyRoster(n, s, e.roster)
             u == [s EXCEPT !.members = rows]
             q == Touch(u, Self)
  <2>1. /\ e.team \in TeamIds /\ e.from \in Node
        /\ e.roster.members \in Seq(Node) /\ e.roster.leader \in Node \cup {NoNode}
    BY <1>1 DEF Events, Rosters
  <2>2. s \in Pages /\ s.inTeam = p.inTeam
    BY <2>1 DEF Pages
  <2> HIDE DEF s
  <2>3. rows \in Seq(Rows)
    <3>1. \A i \in DOMAIN e.roster.members : RowOf(n, e.roster.members[i]) \in Rows
      BY <2>1, RowOfType
    <3>2. DOMAIN e.roster.members = 1 .. Len(e.roster.members) /\ Len(e.roster.members) \in Nat
      BY <2>1
    <3> QED
      BY <3>1, <3>2
  <2> HIDE DEF rows
  <2>4. u \in Pages /\ u.inTeam = p.inTeam
    BY <2>2, <2>3 DEF Pages
  <2> HIDE DEF u
  <2>5. q \in Pages /\ q.inTeam = p.inTeam
    BY <2>4, TouchType, TouchStays DEF Rows
  <2> HIDE DEF q
  <2>6. t = IF e.roster.members = << >> THEN s
            ELSE [q EXCEPT !.leaders = {RowOf(n, e.roster.leader)} \cap RowsOf(q),
                           !.leader = (e.roster.leader = n)]
    BY DEF ApplyRoster, q, u, rows
  <2>7. t \in Pages
    BY <2>1, <2>2, ApplyRosterType
  <2>8. t.inTeam = p.inTeam
    BY <2>2, <2>5, <2>6 DEF Pages
  <2>9. Reduce(n, p, e) = IF AcceptsTeam(p, e.team) THEN Touch(t, e.from) ELSE p
    BY <1>1 DEF Reduce, ReduceStatus, t, s
  <2> HIDE DEF t
  <2> QED
    BY <2>7, <2>8, <2>9, TouchStays
<1>2. CASE e.kind = "Transfer"
  <2> DEFINE t == Touch(p, e.target)
  <2>1. e.target \in Rows
    BY <1>2 DEF Events
  <2>2. t \in Pages /\ t.inTeam = p.inTeam
    BY <2>1, TouchType, TouchStays
  <2>3. Reduce(n, p, e) = IF AcceptsTeam(p, e.team)
                          THEN [t EXCEPT !.leaders = {e.target}, !.leader = (e.target = Self)]
                          ELSE p
    BY <1>2 DEF Reduce, ReduceTransferEvent, t
  <2> HIDE DEF t
  <2> QED
    BY <2>2, <2>3 DEF Pages
<1>3. CASE e.kind = "Pairing"
  <2> DEFINE a == ApplyIdentity(p, e)
  <2>1. e.role # "Leader" /\ e.state # "Completed"
    BY <1>3 DEF Harmless
  <2>2. Reduce(n, p, e) = [a EXCEPT !.pending = Active(e.state)]
    BY <1>3, <2>1 DEF Reduce, ReducePairing, Admits
  <2>3. /\ e.role \in {"None", "Leader", "Member"} /\ e.state \in PairingStates
        /\ e.team \in TeamIds \cup {NoTeam}
    BY <1>3 DEF Events
  <2>4. a \in Pages /\ a.inTeam = p.inTeam
    BY <2>3 DEF ApplyIdentity, Pages
  <2> HIDE DEF a
  <2> QED
    BY <2>2, <2>4 DEF Pages
<1> QED
  BY <1>1, <1>2, <1>3 DEF Events, Harmless

\* What is saved of a page takes it in only where it is already.
LEMMA SavedStays ==
    ASSUME NEW p \in Pages
    PROVE  /\ Loads(RecordOf(p)) => p.inTeam
           /\ FromStore(p, RecordOf(p)).inTeam = p.inTeam
BY DEF RecordOf, Loads, FromStore, Pages

\* A page that loads a record is in a team if the record is.
LEMMA LoadedStays ==
    ASSUME NEW r \in Records \cup {NoRecord}
    PROVE  FromStore(Blank, r).inTeam <=> Loads(r)
BY BlankType DEF FromStore, Loads, Blank, Pages, Records

\* The refresh of an open page looks at the record, not at the pairing service.
LEMMA SyncedStays ==
    ASSUME NEW n \in Node, NEW p \in Pages, NEW r \in Records \cup {NoRecord},
           pair[n] \in Sessions
    PROVE  Synced(n, p, r).inTeam = FromStore(p, r).inTeam
<1> DEFINE t == FromStore(p, r)
           a == ApplyIdentity(t, pair[n])
<1>1. t \in Pages
  BY FromStoreType
<1>2. Synced(n, p, r) = [a EXCEPT !.pending = Active(pair[n].state)]
  BY DEF Synced, SyncPairing
<1> HIDE DEF t
<1>3. a.inTeam = t.inTeam /\ a \in Pages
  BY <1>1 DEF ApplyIdentity, Pages, Sessions, PairingStates
<1> HIDE DEF a
<1> QED
  BY <1>2, <1>3 DEF Pages, t

-----------------------------------------------------------------------------
(* Steps. Each leaves a device whose user wants no team out of one, and      *)
(* keeps what WishInv says of it.                                            *)

Enters(m) == ~page[m].inTeam /\ page'[m].inTeam

Orderly(m) == wants'[m] \/ (Unasked(m)' /\ (Enters(m) => Belated(m)))

Kept(m) ==
    /\ page'[m] = page[m] /\ store'[m] = store[m] /\ pair'[m] = pair[m]
    /\ wants'[m] = wants[m] /\ late'[m] = late[m]
    /\ Gentle(bus[m], late[m]) => Gentle(bus'[m], late[m])

LEMMA KeptOrderly ==
    ASSUME WishInv, NEW m \in Node, Kept(m) PROVE Orderly(m)
BY DEF WishInv, Unasked, Kept, Orderly, Enters

\* What is known of a device in any state.
LEMMA Device ==
    ASSUME TypeOK
    PROVE  /\ DOMAIN page = Node /\ DOMAIN view = Node /\ DOMAIN store = Node
           /\ DOMAIN pair = Node /\ DOMAIN wants = Node /\ DOMAIN bus = Node
           /\ DOMAIN late = Node
           /\ \A m \in Node : /\ page[m] \in Pages /\ pair[m] \in Sessions
                              /\ store[m] \in Records \cup {NoRecord}
                              /\ bus[m] \in Seq(Events) /\ Len(bus[m]) <= QueueMax
                              /\ wants[m] \in BOOLEAN
BY DEF TypeOK

\* The pairing service moves only where the user asked it to.
LEMMA ServiceWish ==
    ASSUME TypeOK, WishInv, NEW n \in Node,
           AwaitKey(n) \/ TakeKey(n) \/ Expire(n)
           \/ \E l \in Node : HearBeacon(n, l) \/ AnswerJoin(n, l),
           NEW m \in Node
    PROVE  Orderly(m)
<1> SUFFICES wants'[m] \/ Kept(m)
  BY KeptOrderly DEF Orderly
<1>1. wants' = wants /\ UNCHANGED << page, store, late >>
  BY DEF AwaitKey, TakeKey, Expire, HearBeacon, AnswerJoin
<1>2. wants[m] \/ (pair[m].role = "None" /\ pair[m].state = "Idle" /\ pair[m].granted = NoPsk)
  BY DEF WishInv, Unasked
<1>3. CASE AwaitKey(n)
  BY <1>1, <1>2, <1>3, Device DEF AwaitKey, Publish, Kept
<1>4. CASE TakeKey(n)
  BY <1>1, <1>2, <1>4, Device DEF TakeKey, Publish, Kept
<1>5. CASE Expire(n)
  BY <1>1, <1>2, <1>5, Device DEF Expire, Publish, Kept
<1>6. CASE \E l \in Node : HearBeacon(n, l)
  BY <1>1, <1>2, <1>6, Device DEF HearBeacon, Publish, Kept
<1>7. CASE \E l \in Node : AnswerJoin(n, l)
  <2>1. PICK l \in Node : AnswerJoin(n, l)
    BY <1>7
  <2>2. /\ m = l => pair[m].state \in {"JoinSent", "WaitingKey"}
        /\ m = n => pair[m].role = "Leader"
        /\ m \notin {n, l} => pair'[m] = pair[m] /\ bus'[m] = bus[m]
    BY <2>1, Device DEF AnswerJoin, Awaiting, Publish
  <2> QED
    BY <1>1, <1>2, <2>2 DEF Kept
<1> QED
  BY <1>3, <1>4, <1>5, <1>6, <1>7

\* A failed start records what the page shows.
LEMMA RefusedWish ==
    ASSUME TypeOK, WishInv, NEW n \in Node, Refused(n), NEW m \in Node PROVE Orderly(m)
<1>1. /\ UNCHANGED << bus, pair, wants, late >> /\ page'[m] = page[m]
      /\ store'[m] = IF m = n THEN RecordOf(page[m]) ELSE store[m]
  BY Device DEF Refused, Saved
<1>2. Loads(RecordOf(page[m])) => page[m].inTeam
  BY Device, SavedStays
<1>3. wants[m] \/ Unasked(m)
  BY DEF WishInv
<1> QED
  BY <1>1, <1>2, <1>3 DEF Unasked, Orderly, Enters

\* A user who starts something wants a team.
LEMMA StartWish ==
    ASSUME TypeOK, WishInv, NEW n \in Node, Create(n) \/ Join(n) \/ Invite(n) \/ Retry(n),
           NEW m \in Node
    PROVE  Orderly(m)
<1>1. ASSUME NEW p, NEW v, NEW s, Saved(n, p, v), Start(n, s) \/ UNCHANGED << pair, bus >>,
             Wish(n, TRUE)
      PROVE  Orderly(m)
  <2>1. wants'[n]
    BY <1>1, Device DEF Wish
  <2>2. m # n => Kept(m)
    BY <1>1, Device DEF Wish, Saved, Start, Publish, Kept
  <2> QED
    BY <2>1, <2>2, KeptOrderly DEF Orderly
<1>2. CASE Create(n)
  BY <1>1, <1>2 DEF Create
<1>3. CASE StartMember(n)
  BY <1>1, <1>3, RefusedWish DEF StartMember
<1>4. CASE StartLeader(n)
  BY <1>1, <1>4, RefusedWish DEF StartLeader
<1> QED
  BY <1>2, <1>3, <1>4 DEF Join, Invite, Retry

\* A user who takes the wish back: what was published before still waits, and
\* is noted; what is published from now on takes nobody in.
LEMMA GiveUpWish ==
    ASSUME TypeOK, WishInv, NEW n \in Node, CancelJoin(n) \/ Leave(n), NEW m \in Node
    PROVE  Orderly(m)
<1>1. CASE m # n
  <2>1. Kept(m)
    BY <1>1, Device DEF CancelJoin, Leave, Wish, Saved, Start, Publish, Kept
  <2> QED
    BY <2>1, KeptOrderly
<1>2. ASSUME m = n, NEW p \in Pages, NEW v, Saved(n, p, v), p.inTeam => page[n].inTeam,
             Start(n, Stopped(pair[n])), NEW w, Wish(n, w)
      PROVE  Orderly(m)
  <2>1. /\ page'[n] = p /\ store'[n] = RecordOf(p) /\ pair'[n] = Stopped(pair[n])
        /\ bus'[n] = Put(bus[n], << PairingEvent(Stopped(pair[n]), NoNode) >>)
        /\ wants'[n] = w /\ (~w => late'[n] = {bus[n][i] : i \in DOMAIN bus[n]})
    BY <1>2, Device DEF Saved, Start, Publish, Wish, Waiting
  <2>2. Loads(RecordOf(p)) => p.inTeam
    BY <1>2, SavedStays
  <2>3. /\ Stopped(pair[n]).role = "None" /\ Stopped(pair[n]).state = "Idle"
        /\ Stopped(pair[n]).granted = NoPsk
    BY DEF Stopped, Resting
  <2>4. ~w => Gentle(bus'[n], late'[n])
    BY <2>1, Device, GentleStop
  <2> QED
    BY <1>2, <2>1, <2>2, <2>3, <2>4 DEF Unasked, Orderly, Enters
<1>3. CASE m = n /\ CancelJoin(n)
  <2> DEFINE p == ReduceJoinCanceled(page[n])
  <2>1. p \in Pages /\ p.inTeam = page[n].inTeam
    BY Device, JoinCanceledType DEF ReduceJoinCanceled, Pages
  <2>2. Saved(n, p, StatusView(p)) /\ Start(n, Stopped(pair[n])) /\ Wish(n, wants[n] /\ p.inTeam)
    BY <1>3 DEF CancelJoin
  <2> HIDE DEF p
  <2> QED
    BY <1>2, <1>3, <2>1, <2>2
<1>4. CASE m = n /\ Leave(n)
  <2>1. Blank \in Pages /\ ~Blank.inTeam
    BY BlankType DEF Blank
  <2>2. Saved(n, Blank, "NotInTeam") /\ Start(n, Stopped(pair[n])) /\ Wish(n, FALSE)
    BY <1>4 DEF Leave, ReduceLeave
  <2> QED
    BY <1>2, <1>4, <2>1, <2>2
<1> QED
  BY <1>1, <1>3, <1>4

\* The screen alone, what is only heard, and the handing over of a team the
\* device is in, take nobody in.
LEMMA AirWish ==
    ASSUME TypeOK, WishInv, NEW n \in Node,
           TransferLeader(n) \/ Back(n) \/ RebroadcastRoster(n) \/ Heartbeat(n) \/ Requeue(n),
           NEW m \in Node
    PROVE  Orderly(m)
<1>1. UNCHANGED << wants, late, pair >>
  BY DEF TransferLeader, Back, RebroadcastRoster, Heartbeat, Requeue
<1>2. CASE TransferLeader(n)
  <2>1. PICK row \in RowsOf(page[n]) :
          \E E, e : /\ Saved(n, ReduceTransferLeader(page[n], row), "InTeam")
                    /\ e = [kind |-> "Transfer", team |-> svc[n].team, from |-> n, target |-> row]
                    /\ bus' = Hear(bus, E, e)
    BY <1>2 DEF TransferLeader
  <2>2. PICK E, e : /\ Saved(n, ReduceTransferLeader(page[n], row), "InTeam")
                    /\ e = [kind |-> "Transfer", team |-> svc[n].team, from |-> n, target |-> row]
                    /\ bus' = Hear(bus, E, e)
    BY <2>1
  <2> DEFINE p == ReduceTransferLeader(page[n], row)
  <2>3. Harmless(e)
    BY <2>2 DEF Harmless
  <2>4. Gentle(bus[m], late[m]) => Gentle(bus'[m], late[m])
    <3>1. bus[m] \in Seq(Events)
      BY Device
    <3>2. Gentle(bus[m], late[m]) => Gentle(Hear(bus, E, e)[m], late[m])
      BY <2>3, <3>1, GentleHear
    <3> QED
      BY <2>2, <3>2
  <2>5. p \in Pages /\ p.inTeam = page[n].inTeam
    <3>1. page[n] \in Pages /\ row \in Rows
      BY Device DEF Pages, RowsOf
    <3> QED
      BY <3>1, TransferLeaderType DEF ReduceTransferLeader, Pages
  <2>6. /\ page'[m] = IF m = n THEN p ELSE page[m]
        /\ store'[m] = IF m = n THEN RecordOf(p) ELSE store[m]
    BY <2>2, Device DEF Saved
  <2> HIDE DEF p
  <2>7. Loads(RecordOf(p)) => p.inTeam
    BY <2>5, SavedStays
  <2> QED
    BY <1>1, <2>4, <2>5, <2>6, <2>7 DEF WishInv, Unasked, Orderly, Enters
<1>3. CASE Back(n)
  <2>1. Kept(m)
    BY <1>1, <1>3 DEF Back, Kept
  <2> QED
    BY <2>1, KeptOrderly
<1>4. CASE RebroadcastRoster(n) \/ Heartbeat(n)
  <2>1. /\ UNCHANGED << page, store >>
        /\ bus' = bus \/ \E roster : SendStatus(n, bus, svc[n], roster)
    BY <1>4 DEF RebroadcastRoster, Heartbeat
  <2>2. Gentle(bus[m], late[m]) => Gentle(bus'[m], late[m])
    BY <2>1, Device, GentleStatus
  <2>3. Kept(m)
    BY <1>1, <2>1, <2>2 DEF Kept
  <2> QED
    BY <2>3, KeptOrderly
<1>5. CASE Requeue(n)
  <2> DEFINE q == bus[n]
  <2>1. q \in Seq(Events) /\ q # << >>
    BY <1>5, Device DEF Requeue
  <2>2. Tail(q) \in Seq(Events)
    BY <2>1
  <2>3. bus' = [bus EXCEPT ![n] = Append(Tail(q), Head(q))] /\ UNCHANGED << page, store >>
    BY <1>5 DEF Requeue
  <2>4. bus'[m] = IF m = n THEN Append(Tail(q), Head(q)) ELSE bus[m]
    BY <2>3, Device
  <2>5. Gentle(q, late[n])
        => (Harmless(Head(q)) \/ Head(q) \in late[n]) /\ Gentle(Tail(q), late[n])
    BY <2>1, GentleQueues
  <2>6. Gentle(Tail(q), late[n]) /\ (Harmless(Head(q)) \/ Head(q) \in late[n])
        => Gentle(Append(Tail(q), Head(q)), late[n])
    BY <2>2, GentleQueues
  <2>7. Kept(m)
    BY <1>1, <2>3, <2>4, <2>5, <2>6 DEF Kept
  <2> QED
    BY <2>7, KeptOrderly
<1> QED
  BY <1>2, <1>3, <1>4, <1>5

\* What the screen or the device loads when it comes up.
LEMMA LoadWish ==
    ASSUME TypeOK, WishInv, NEW n \in Node,
           Close(n) \/ Open(n) \/ Restart(n) \/ RestartAfterKeys(n), NEW m \in Node
    PROVE  Orderly(m)
<1>1. wants' = wants /\ (wants[n] \/ Unasked(n))
  BY DEF WishInv, Close, Open, Restart, RestartAfterKeys, Restarted
<1>2. CASE m # n
  <2>1. Kept(m)
    BY <1>2, Device DEF Close, Open, Restart, RestartAfterKeys, Restarted, Kept
  <2> QED
    BY <2>1, KeptOrderly
<1>3. FromStore(Blank, store[n]).inTeam <=> Loads(store[n])
  BY Device, LoadedStays
<1>4. CASE m = n /\ Close(n)
  <2>1. /\ page'[n] = FromStore(Blank, store[n])
        /\ UNCHANGED << store, bus, pair, late >>
    BY <1>4, Device DEF Close
  <2> QED
    BY <1>1, <1>3, <1>4, <2>1 DEF Unasked, Orderly, Enters
<1>5. ASSUME m = n, NEW r \in Records \cup {NoRecord}, Restarted(n, r),
             Loads(r) => Loads(store[n])
      PROVE  Orderly(m)
  <2>1. /\ page'[n] = FromStore(Blank, r) /\ store'[n] = r
        /\ bus'[n] = << >> /\ pair'[n] = Resting
    BY <1>5, Device DEF Restarted
  <2>2. FromStore(Blank, r).inTeam <=> Loads(r)
    BY <1>5, LoadedStays
  <2>3. Gentle(<< >>, late'[n])
    BY DEF Gentle
  <2> QED
    BY <1>1, <1>5, <2>1, <2>2, <2>3 DEF Unasked, Resting, Orderly, Enters
<1>6. CASE m = n /\ Restart(n)
  BY <1>5, <1>6, Device DEF Restart
<1>7. CASE m = n /\ RestartAfterKeys(n)
  <2> DEFINE e == Head(bus[n])
             t == FromStore(Blank, store[n])
             u == [t EXCEPT !.team = e.team, !.psk = e.psk]
  <2>1. bus[n] # << >> /\ e.kind = "KeyDist" /\ Restarted(n, RecordOf(u))
    BY <1>7 DEF RestartAfterKeys, TakesKeys
  <2>2. bus[n] \in Seq(Events) /\ store[n] \in Records \cup {NoRecord}
    BY Device
  <2>3. e \in Events
    BY <2>1, <2>2
  <2>4. e.team \in TeamIds /\ e.psk \in Psks
    BY <2>1, <2>3 DEF Events
  <2>5. t \in Pages
    BY <2>2, LoadedType
  <2> HIDE DEF e, t
  <2>6. u \in Pages /\ u.inTeam = t.inTeam
    BY <2>4, <2>5 DEF Pages
  <2> HIDE DEF u
  <2>7. RecordOf(u) \in Records \cup {NoRecord} /\ (Loads(RecordOf(u)) => u.inTeam)
    BY <2>6, RecordType, SavedStays
  <2>8. Loads(RecordOf(u)) => Loads(store[n])
    BY <1>3, <2>6, <2>7 DEF t
  <2> QED
    BY <1>5, <1>7, <2>1, <2>7, <2>8
<1>8. CASE m = n /\ Open(n)
  <2> DEFINE p == SyncPairing(page[n], pair[n])
             q == Synced(n, p, store[n])
  <2>1. /\ page[n] \in Pages /\ pair[n] \in Sessions /\ store[n] \in Records \cup {NoRecord}
        /\ pair[n].role \in {"None", "Leader", "Member"} /\ pair[n].state \in PairingStates
        /\ pair[n].team \in TeamIds \cup {NoTeam}
    BY Device DEF Sessions
  <2>2. p \in Pages
    BY <2>1, SyncPairingType
  <2>3. page'[n] = q /\ UNCHANGED << store, bus, pair, late >>
    BY <1>8, Device DEF Open
  <2>4. p.inTeam = page[n].inTeam
    BY <2>1 DEF SyncPairing, ApplyIdentity, Pages
  <2> HIDE DEF p
  <2>5. q.inTeam = FromStore(p, store[n]).inTeam
    BY <2>1, <2>2, SyncedStays
  <2>6. /\ FromStore(p, store[n]).inTeam => p.inTeam \/ Loads(store[n])
        /\ Loads(store[n]) => FromStore(p, store[n]).inTeam
    BY <2>1, <2>2 DEF FromStore, Loads, Pages, Records
  <2> HIDE DEF q
  <2> QED
    BY <1>1, <1>8, <2>3, <2>4, <2>5, <2>6 DEF Unasked, Orderly, Enters
<1> QED
  BY <1>2, <1>4, <1>6, <1>7, <1>8

\* An event handled for a user without a wish takes the device in only if it
\* was there when the wish was taken back.
LEMMA HandleEventWish ==
    ASSUME TypeOK, WishInv, NEW n \in Node, HandleEvent(n), NEW m \in Node
    PROVE  Orderly(m)
<1> DEFINE e == Head(bus[n])
           p == Reduce(n, page[n], e)
           r == RecordOf(p)
           q == Synced(n, p, r)
           keys == IF TakesKeys(page[n], e) THEN KeysOf(p) ELSE svc[n]
           drained == [bus EXCEPT ![n] = Tail(@)]
<1>1. /\ bus[n] # << >>
      /\ page[n] \in Pages /\ pair[n] \in Sessions /\ bus[n] \in Seq(Events)
  BY Device DEF HandleEvent
<1>2. /\ store' = [store EXCEPT ![n] = r]
      /\ page' = [page EXCEPT ![n] = p] \/ page' = [page EXCEPT ![n] = q]
      /\ SendStatus(n, drained, keys, RosterOf(n, p)) \/ bus' = drained
      /\ UNCHANGED << pair, wants, late >>
  BY <1>1 DEF HandleEvent
<1>3. /\ e \in Events
      /\ Gentle(bus[n], late[n])
         => (Harmless(e) \/ e \in late[n]) /\ Gentle(drained[n], late[n])
      /\ drained[m] \in Seq(Events) /\ (m # n => drained[m] = bus[m])
  BY <1>1, Device, GentleQueues
<1>4. e \in late[n] => Belated(n)
  BY <1>1 DEF Belated
<1> HIDE DEF drained, keys
<1>5. Gentle(drained[m], late[m]) => Gentle(bus'[m], late[m])
  <2> HIDE DEF e, p, r, q
  <2>1. bus' = drained \/ \E roster : SendStatus(n, drained, keys, roster)
    BY <1>2
  <2>2. UNCHANGED late /\ drained[m] \in Seq(Events)
    BY <1>2, <1>3
  <2> QED
    BY <2>1, <2>2, GentleStatus
<1>6. CASE m # n
  <2>1. Kept(m)
    BY <1>2, <1>3, <1>5, <1>6, Device DEF Kept
  <2> QED
    BY <2>1, KeptOrderly
<1>7. CASE m = n
  <2>1. Harmless(e) => p.inTeam = page[n].inTeam
    BY <1>1, <1>3, ReduceStays
  <2>2. p \in Pages
    BY <1>1, <1>3, ReducedType
  <2> HIDE DEF e, p
  <2>3. r \in Records \cup {NoRecord}
    BY <2>2, RecordType, Numbers DEF NoRecord
  <2>4. Loads(r) => p.inTeam
    BY <2>2, SavedStays
  <2>5. q.inTeam = p.inTeam
    BY <1>1, <2>2, <2>3, SavedStays, SyncedStays
  <2> HIDE DEF q, r
  <2>6. page'[n].inTeam = p.inTeam /\ store'[n] = r
    BY <1>2, <2>5, Device
  <2>7. wants[n] \/ Unasked(n)
    BY DEF WishInv
  <2> QED
    BY <1>2, <1>3, <1>4, <1>5, <1>7, <2>1, <2>4, <2>6, <2>7 DEF Unasked, Orderly, Enters
<1> QED
  BY <1>6, <1>7

LEMMA InitWish == Init => WishInv
<1>1. \A S : Gentle(<< >>, S)
  BY DEF Gentle
<1>2. Resting.role = "None" /\ Resting.state = "Idle" /\ Resting.granted = NoPsk
  BY DEF Resting
<1> QED
  BY <1>1, <1>2 DEF Init, WishInv, Unasked, Loads

LEMMA NextOrderly ==
    ASSUME TypeOK, WishInv, [Next]_vars, NEW m \in Node PROVE Orderly(m)
<1>1. CASE UNCHANGED vars
  <2>1. Kept(m)
    BY <1>1 DEF vars, Kept
  <2> QED
    BY <2>1, KeptOrderly
<1>2. CASE Next
  <2>1. PICK n \in Node :
          \/ \E l \in Node : HearBeacon(n, l) \/ AnswerJoin(n, l)
          \/ AwaitKey(n) \/ TakeKey(n) \/ Expire(n)
          \/ Create(n) \/ Join(n) \/ Invite(n) \/ Retry(n) \/ CancelJoin(n) \/ Leave(n)
          \/ TransferLeader(n) \/ Back(n) \/ Close(n) \/ Open(n)
          \/ HandleEvent(n) \/ Requeue(n) \/ RebroadcastRoster(n) \/ Heartbeat(n)
          \/ Restart(n) \/ RestartAfterKeys(n)
    BY <1>2 DEF Next
  <2> QED
    BY <2>1, ServiceWish, StartWish, GiveUpWish, AirWish, LoadWish, HandleEventWish
<1> QED
  BY <1>1, <1>2

LEMMA NextWish == TypeOK /\ WishInv /\ [Next]_vars => WishInv'
BY NextOrderly DEF Orderly, WishInv

\* A device gets into a team only while its user has asked for one and has not
\* taken it back, or by an event that was on the bus when the user did: whatever
\* the other devices send, in whatever order and however late events are
\* handled, and however often the screen or the device is restarted.
THEOREM MembershipNobodyUnasked == Spec => NobodyJoinsUnasked
<1>1. Init => WishInv
  BY InitWish
<1>2. TypeOK /\ WishInv /\ [Next]_vars => WishInv'
  BY NextWish
<1>3. TypeOK /\ WishInv /\ [Next]_vars
      => [\A n \in Node : ~page[n].inTeam /\ page'[n].inTeam => wants'[n] \/ Belated(n)]_vars
  BY NextOrderly DEF Orderly, Enters
<1> QED
  BY <1>1, <1>2, <1>3, MembershipTypes, PTL DEF Spec, NobodyJoinsUnasked
-----------------------------------------------------------------------------
(* Why no device mixes two keys, with or without zero team ids and whatever  *)
(* the loop does: page and record hold the key of the service or none, and   *)
(* every key in a session, in a service or on a bus is one a create command  *)
(* drew.                                                                     *)

\* What is heard, handled or put behind brings no key; what is published brings
\* its own.
LEMMA QueueKeys ==
    ASSUME NEW T, NEW q \in Seq(T), NEW e
    PROVE  /\ q # << >> => /\ KeysOn(Tail(q)) \subseteq KeysOn(q)
                           /\ Head(q).kind = "KeyDist" => Head(q).psk \in KeysOn(q)
           /\ e.kind # "KeyDist" => KeysOn(Append(q, e)) \subseteq KeysOn(q)
           /\ e.kind = "KeyDist" => KeysOn(Append(q, e)) \subseteq KeysOn(q) \cup {e.psk}
<1>1. q # << >> => /\ Head(q) = q[1] /\ 1 \in DOMAIN q
                   /\ \A i \in DOMAIN Tail(q) : Tail(q)[i] = q[i + 1] /\ i + 1 \in DOMAIN q
  OBVIOUS
<1>2. q \in Seq(T \cup {e}) /\ e \in T \cup {e}
  OBVIOUS
<1>3. \A i \in DOMAIN Append(q, e) :
        (i \in DOMAIN q /\ Append(q, e)[i] = q[i]) \/ Append(q, e)[i] = e
  BY <1>2
<1> QED
  BY <1>1, <1>3 DEF KeysOn

LEMMA PutKeys ==
    ASSUME NEW T, NEW q \in Seq(T), Len(q) <= QueueMax, NEW es \in Seq(T)
    PROVE  KeysOn(Put(q, es)) \subseteq KeysOn(q) \cup KeysOn(es)
BY PutElements DEF KeysOn

\* A frame that is no key distribution, on every bus.
LEMMA HearKeys ==
    ASSUME NEW b, NEW T, NEW m \in Node, b[m] \in Seq(T), NEW S, NEW e, e.kind # "KeyDist"
    PROVE  /\ Hear(b, S, e)[m] \in Seq(T \cup {e})
           /\ KeysOn(Hear(b, S, e)[m]) \subseteq KeysOn(b[m])
<1>1. Hear(b, S, e)[m] = Append(b[m], e) \/ Hear(b, S, e)[m] = b[m]
  BY DEF Hear
<1>2. b[m] \in Seq(T \cup {e}) /\ e \in T \cup {e}
  OBVIOUS
<1>3. Append(b[m], e) \in Seq(T \cup {e})
  BY <1>2
<1> QED
  BY <1>1, <1>2, <1>3, QueueKeys

LEMMA StatusKeys ==
    ASSUME NEW n \in Node, NEW b, NEW m \in Node, b[m] \in Seq(Events), NEW k, NEW roster,
           SendStatus(n, b, k, roster)
    PROVE  KeysOn(bus'[m]) \subseteq KeysOn(b[m])
<1> DEFINE e == StatusFrame(n, k.team, roster)
           f == StatusFrame(n, ZeroTeam, roster)
<1>1. PICK E \in SUBSET Readers(n, k), P \in SUBSET (Node \ {n}) :
          bus' = Hear(Hear(b, E, e), P, f)
  BY DEF SendStatus
<1>2. e.kind # "KeyDist" /\ f.kind # "KeyDist"
  BY DEF StatusFrame
<1> HIDE DEF e, f
<1> DEFINE c == Hear(b, E, e)
<1>3. c[m] \in Seq(Events \cup {e}) /\ KeysOn(c[m]) \subseteq KeysOn(b[m])
  BY <1>2, HearKeys
<1> HIDE DEF c
<1>4. KeysOn(Hear(c, P, f)[m]) \subseteq KeysOn(c[m])
  BY <1>2, <1>3, HearKeys
<1> QED
  BY <1>1, <1>3, <1>4 DEF c

\* The events of a session carry no key.
LEMMA PublishKeys ==
    ASSUME TypeOK, NEW n \in Node, NEW m \in Node, NEW T, NEW es \in Seq(T), Publish(n, es)
    PROVE  /\ m # n => bus'[m] = bus[m]
           /\ KeysOn(bus'[m]) \subseteq KeysOn(bus[m]) \cup KeysOn(es)
<1>1. bus[n] \in Seq(Events) /\ Len(bus[n]) <= QueueMax /\ DOMAIN bus = Node
  BY DEF TypeOK
<1>2. bus[n] \in Seq(Events \cup T) /\ es \in Seq(Events \cup T)
  BY <1>1
<1>3. KeysOn(Put(bus[n], es)) \subseteq KeysOn(bus[n]) \cup KeysOn(es)
  BY <1>1, <1>2, PutKeys
<1> QED
  BY <1>1, <1>3 DEF Publish

LEMMA TellKeys ==
    ASSUME TypeOK, NEW n \in Node, NEW s, NEW peer, Publish(n, << PairingEvent(s, peer) >>)
    PROVE  /\ \A m \in Node \ {n} : bus'[m] = bus[m]
           /\ \A m \in Node : KeysOn(bus'[m]) \subseteq KeysOn(bus[m])
<1> DEFINE e == PairingEvent(s, peer)
<1>1. e.kind # "KeyDist"
  BY DEF PairingEvent
<1> HIDE DEF e
<1>2. << e >> \in Seq({e})
  OBVIOUS
<1>3. KeysOn(<< e >>) = {}
  BY <1>1 DEF KeysOn
<1> QED
  BY <1>2, <1>3, PublishKeys DEF e
\* Keys drawn stay drawn; a device nothing happened to keeps its keys.
SameKeys(m) ==
    /\ page'[m].psk = page[m].psk /\ store'[m].psk = store[m].psk /\ svc'[m].psk = svc[m].psk
    /\ pair'[m].psk = pair[m].psk /\ pair'[m].granted = pair[m].granted
    /\ KeysOn(bus'[m]) \subseteq KeysOn(bus[m])

LEMMA KeyStep ==
    ASSUME KeyInv, created \subseteq created', \A m \in Node : DeviceKeys(m)' \/ SameKeys(m)
    PROVE  KeyInv'
<1>1. DrawnKeys(created) \subseteq DrawnKeys(created')
  BY DEF DrawnKeys
<1>2. ASSUME NEW m \in Node, SameKeys(m) PROVE DeviceKeys(m)'
  BY <1>1, <1>2 DEF KeyInv, SameKeys, DeviceKeys
<1> QED
  BY <1>2 DEF KeyInv

LEMMA KeyDevice ==
    ASSUME TypeOK
    PROVE  /\ DOMAIN page = Node /\ DOMAIN store = Node /\ DOMAIN svc = Node /\ DOMAIN pair = Node
           /\ DOMAIN bus = Node
           /\ \A m \in Node : /\ svc = [svc EXCEPT ![m] = svc[m]]
                              /\ pair = [pair EXCEPT ![m] = pair[m]]
                              /\ page[m] \in Pages /\ pair[m] \in Sessions
                              /\ svc[m] \in AllKeys \cup {NoKeys}
                              /\ store[m] \in Records \cup {NoRecord}
                              /\ bus[m] \in Seq(Events) /\ Len(bus[m]) <= QueueMax
BY DEF TypeOK

\* The pairing service hands a key on and drops it.
LEMMA ServiceKeys ==
    ASSUME TypeOK, KeyInv, NEW n \in Node,
           AwaitKey(n) \/ TakeKey(n) \/ Expire(n)
           \/ \E l \in Node : HearBeacon(n, l) \/ AnswerJoin(l, n)
    PROVE  KeyInv'
<1>1. UNCHANGED << page, svc, store, created >>
  BY DEF AwaitKey, TakeKey, Expire, HearBeacon, AnswerJoin
<1> SUFFICES ASSUME NEW m \in Node PROVE DeviceKeys(m)' \/ SameKeys(m)
  BY <1>1, KeyStep
<1>2. NoPsk \in DrawnKeys(created)
  BY DEF DrawnKeys
<1>3. ASSUME NEW s, NEW e, pair' = [pair EXCEPT ![n] = s], Publish(n, << PairingEvent(e, NoNode) >>),
             s.psk \in {NoPsk, pair[n].psk}, s.granted \in {NoPsk, pair[n].granted}
      PROVE  DeviceKeys(m)' \/ SameKeys(m)
  BY <1>1, <1>2, <1>3, TellKeys, KeyDevice DEF KeyInv, DeviceKeys, SameKeys
<1>4. Stopped(pair[n]).psk = NoPsk /\ Stopped(pair[n]).granted = NoPsk
  BY DEF Stopped, Resting
<1>5. CASE AwaitKey(n)
  <2>1. [pair[n] EXCEPT !.state = "WaitingKey"].psk = pair[n].psk
        /\ [pair[n] EXCEPT !.state = "WaitingKey"].granted = pair[n].granted
    BY KeyDevice DEF Sessions
  <2> QED
    BY <1>3, <1>5, <2>1 DEF AwaitKey
<1>6. CASE \E l \in Node : HearBeacon(n, l)
  <2>1. PICK l \in Node : HearBeacon(n, l)
    BY <1>6
  <2> DEFINE s == [pair[n] EXCEPT !.state = "JoinSent", !.team = pair[l].team,
                                  !.leader = l, !.granted = NoPsk]
  <2>2. s.psk = pair[n].psk /\ s.granted = NoPsk
    BY KeyDevice DEF Sessions
  <2>3. pair' = [pair EXCEPT ![n] = s] /\ Publish(n, << PairingEvent(s, NoNode) >>)
    BY <2>1 DEF HearBeacon
  <2> HIDE DEF s
  <2> QED
    BY <1>3, <2>2, <2>3
<1>7. CASE \E l \in Node : AnswerJoin(l, n)
  <2>1. PICK l \in Node : AnswerJoin(l, n)
    BY <1>7
  <2> DEFINE s == [pair[n] EXCEPT !.granted = pair[l].psk]
  <2>2. s.psk = pair[n].psk /\ s.granted = pair[l].psk
    BY KeyDevice DEF Sessions
  <2>3. pair' = [pair EXCEPT ![n] = s] /\ Publish(l, << PairingEvent(pair[l], n) >>)
    BY <2>1, KeyDevice DEF AnswerJoin, Sessions
  <2>4. KeysOn(bus'[m]) \subseteq KeysOn(bus[m])
    BY <2>3, TellKeys
  <2> HIDE DEF s
  <2> QED
    BY <1>1, <2>2, <2>3, <2>4, KeyDevice DEF KeyInv, DeviceKeys, SameKeys
<1>8. CASE TakeKey(n)
  <2> DEFINE s == pair[n]
             e1 == [kind |-> "KeyDist", team |-> s.team, psk |-> s.granted, from |-> s.leader]
             e2 == PairingEvent([s EXCEPT !.state = "Completed"], s.leader)
             e3 == PairingEvent(Stopped(s), NoNode)
  <2>1. e1.psk = s.granted /\ e2.kind # "KeyDist" /\ e3.kind # "KeyDist"
    BY DEF PairingEvent
  <2>2. pair' = [pair EXCEPT ![n] = Stopped(s)] /\ Publish(n, << e1, e2, e3 >>)
    BY <1>8 DEF TakeKey
  <2> HIDE DEF e1, e2, e3
  <2>3. << e1, e2, e3 >> \in Seq({e1, e2, e3})
    OBVIOUS
  <2>4. KeysOn(<< e1, e2, e3 >>) \subseteq {s.granted}
    BY <2>1 DEF KeysOn
  <2>5. /\ m # n => bus'[m] = bus[m]
        /\ KeysOn(bus'[m]) \subseteq KeysOn(bus[m]) \cup {s.granted}
    BY <2>2, <2>3, <2>4, PublishKeys
  <2> QED
    BY <1>1, <1>2, <1>4, <2>2, <2>5, KeyDevice DEF KeyInv, DeviceKeys, SameKeys
<1>9. CASE Expire(n)
  <2> DEFINE s == pair[n]
             e2 == PairingEvent([s EXCEPT !.state = "Failed"], NoNode)
             e3 == PairingEvent(Stopped(s), NoNode)
  <2>1. e2.kind # "KeyDist" /\ e3.kind # "KeyDist"
    BY DEF PairingEvent
  <2>2. pair' = [pair EXCEPT ![n] = Stopped(s)] /\ Publish(n, << e2, e3 >>)
    BY <1>9 DEF Expire
  <2> HIDE DEF e2, e3
  <2>3. << e2, e3 >> \in Seq({e2, e3})
    OBVIOUS
  <2>4. KeysOn(<< e2, e3 >>) = {}
    BY <2>1 DEF KeysOn
  <2>5. /\ m # n => bus'[m] = bus[m]
        /\ KeysOn(bus'[m]) \subseteq KeysOn(bus[m])
    BY <2>2, <2>3, <2>4, PublishKeys
  <2> QED
    BY <1>1, <1>2, <1>4, <2>2, <2>5, KeyDevice DEF KeyInv, DeviceKeys, SameKeys
<1> QED
  BY <1>5, <1>6, <1>7, <1>8, <1>9

\* What is saved is the page's key, or none.
LEMMA SavedKey ==
    ASSUME NEW p \in Pages PROVE RecordOf(p).psk \in {NoPsk, p.psk}
BY DEF RecordOf, NoRecord

\* A command: the page is saved with the key of the service, or none.
LEMMA CommandKeys ==
    ASSUME TypeOK, KeyInv, NEW n \in Node, NEW p \in Pages, NEW v, Saved(n, p, v),
           NEW k, svc' = [svc EXCEPT ![n] = k], p.psk = NoPsk \/ p.psk = k.psk,
           NEW s, pair' = [pair EXCEPT ![n] = s],
           created \subseteq created', k.psk \in DrawnKeys(created'),
           s.psk \in DrawnKeys(created'), s.granted \in DrawnKeys(created'),
           \A m \in Node : KeysOn(bus'[m]) \subseteq KeysOn(bus[m])
    PROVE  KeyInv'
<1> SUFFICES ASSUME NEW m \in Node PROVE DeviceKeys(m)' \/ SameKeys(m)
  BY KeyStep
<1>1. DrawnKeys(created) \subseteq DrawnKeys(created')
  BY DEF DrawnKeys
<1>2. KeysOn(bus[m]) \subseteq DrawnKeys(created)
  BY DEF KeyInv, DeviceKeys
<1>3. RecordOf(p).psk \in {NoPsk, p.psk}
  BY SavedKey
<1>4. /\ page' = [page EXCEPT ![n] = p] /\ store' = [store EXCEPT ![n] = RecordOf(p)]
  BY DEF Saved
<1>5. CASE m = n
  BY <1>1, <1>2, <1>3, <1>4, <1>5, KeyDevice DEF DeviceKeys
<1>6. CASE m # n
  BY <1>4, <1>6, KeyDevice DEF SameKeys
<1> QED
  BY <1>5, <1>6
\* A failed start saves the page as it is.
LEMMA RefusedKeys ==
    ASSUME TypeOK, KeyInv, NEW n \in Node, Refused(n) PROVE KeyInv'
<1>1. /\ page[n] \in Pages /\ Saved(n, page[n], view[n]) /\ svc' = [svc EXCEPT ![n] = svc[n]]
      /\ pair' = [pair EXCEPT ![n] = pair[n]] /\ bus' = bus /\ created' = created
  BY KeyDevice DEF Refused
<1>2. /\ page[n].psk = NoPsk \/ page[n].psk = svc[n].psk
      /\ svc[n].psk \in DrawnKeys(created') /\ pair[n].psk \in DrawnKeys(created')
      /\ pair[n].granted \in DrawnKeys(created')
  BY <1>1 DEF KeyInv, DeviceKeys
<1> QED
  BY <1>1, <1>2, CommandKeys

\* Starting and cancelling a session, whose key is none or the page's.
LEMMA SessionKeys ==
    ASSUME TypeOK, KeyInv, NEW n \in Node, NEW p \in Pages, NEW v, Saved(n, p, v),
           p.psk = page[n].psk, NEW s, Start(n, s),
           s.psk \in {NoPsk, page[n].psk}, s.granted = NoPsk, UNCHANGED << svc, created >>
    PROVE  KeyInv'
<1>1. /\ svc' = [svc EXCEPT ![n] = svc[n]] /\ pair' = [pair EXCEPT ![n] = s]
      /\ \A m \in Node : KeysOn(bus'[m]) \subseteq KeysOn(bus[m])
  BY KeyDevice, TellKeys DEF Start
<1>2. /\ p.psk = NoPsk \/ p.psk = svc[n].psk
      /\ svc[n].psk \in DrawnKeys(created') /\ s.psk \in DrawnKeys(created')
      /\ s.granted \in DrawnKeys(created') /\ created \subseteq created'
  BY DEF KeyInv, DeviceKeys, DrawnKeys
<1> QED
  BY <1>1, <1>2, CommandKeys

LEMMA StartKeys ==
    ASSUME TypeOK, KeyInv, NEW n \in Node,
           StartMember(n) \/ StartLeader(n) \/ CancelJoin(n)
    PROVE  KeyInv'
<1>1. page[n] \in Pages
  BY KeyDevice
<1>2. CASE Refused(n)
  BY <1>2, RefusedKeys
<1>3. CASE Saved(n, ReducePairingStarted(page[n], "Member", "MemberScanning"), "JoinPending")
           /\ Start(n, Scanning) /\ UNCHANGED << svc, created >>
  <2>1. Scanning.psk = NoPsk /\ Scanning.granted = NoPsk
    BY DEF Scanning, Resting
  <2> DEFINE p == ReducePairingStarted(page[n], "Member", "MemberScanning")
  <2>2. p \in Pages /\ p.psk = page[n].psk
    BY <1>1, PairingStartedType DEF PairingStates
  <2> HIDE DEF p
  <2> QED
    BY <1>3, <2>1, <2>2, SessionKeys DEF p
<1>4. CASE Saved(n, ReducePairingStarted(page[n], "Leader", "LeaderBeacon"), "JoinPending")
           /\ Start(n, Leading(n, page[n])) /\ UNCHANGED << svc, created >>
  <2>1. Leading(n, page[n]).psk = page[n].psk /\ Leading(n, page[n]).granted = NoPsk
    BY DEF Leading, Resting
  <2> DEFINE p == ReducePairingStarted(page[n], "Leader", "LeaderBeacon")
  <2>2. p \in Pages /\ p.psk = page[n].psk
    BY <1>1, PairingStartedType DEF PairingStates
  <2> HIDE DEF p
  <2> QED
    BY <1>4, <2>1, <2>2, SessionKeys DEF p
<1>5. CASE CancelJoin(n)
  <2>1. Stopped(pair[n]).psk = NoPsk /\ Stopped(pair[n]).granted = NoPsk
    BY DEF Stopped, Resting
  <2> DEFINE p == ReduceJoinCanceled(page[n])
  <2>2. p \in Pages /\ p.psk = page[n].psk
    BY <1>1, JoinCanceledType
  <2>3. /\ Saved(n, p, StatusView(p)) /\ Start(n, Stopped(pair[n]))
        /\ UNCHANGED << svc, created >>
    BY <1>5 DEF CancelJoin
  <2> HIDE DEF p
  <2> QED
    BY <2>1, <2>2, <2>3, SessionKeys
<1> QED
  BY <1>2, <1>3, <1>4, <1>5 DEF StartMember, StartLeader

\* A team is created under the page's key or the one the command draws.
LEMMA CreateKeys ==
    ASSUME TypeOK, KeyInv, NEW n \in Node, Create(n) PROVE KeyInv'
<1>1. PICK k \in Fresh :
        LET p == ReduceCreate(page[n], k, k)
        IN  /\ svc' = [svc EXCEPT ![n] = KeysOf(p)]
            /\ created' = created \cup {KeysOf(p)}
            /\ \/ /\ Saved(n, ReducePairingStarted(p, "Leader", "LeaderBeacon"), "JoinPending")
                  /\ Start(n, Leading(n, p))
               \/ /\ pair[n].role = "None"
                  /\ Saved(n, p, "InTeam")
                  /\ UNCHANGED << pair, bus >>
  BY DEF Create
<1> DEFINE p == ReduceCreate(page[n], k, k)
           q == ReducePairingStarted(p, "Leader", "LeaderBeacon")
<1>2. p \in Pages /\ q \in Pages /\ q.psk = p.psk /\ KeysOf(p).psk = p.psk
  BY KeyDevice, CreateType, PairingStartedType DEF Fresh, PairingStates, KeysOf
<1>3. /\ created \subseteq created' /\ p.psk \in DrawnKeys(created')
      /\ svc' = [svc EXCEPT ![n] = KeysOf(p)]
  BY <1>1, <1>2 DEF DrawnKeys
<1>4. CASE Saved(n, q, "JoinPending") /\ Start(n, Leading(n, p))
  <2>1. Leading(n, p).psk = p.psk /\ Leading(n, p).granted = NoPsk /\ NoPsk \in DrawnKeys(created')
    BY DEF Leading, Resting, DrawnKeys
  <2>2. pair' = [pair EXCEPT ![n] = Leading(n, p)]
        /\ \A m \in Node : KeysOn(bus'[m]) \subseteq KeysOn(bus[m])
    BY <1>4, TellKeys DEF Start
  <2> HIDE DEF p, q
  <2> QED
    BY <1>2, <1>3, <1>4, <2>1, <2>2, CommandKeys
<1>5. CASE Saved(n, p, "InTeam") /\ UNCHANGED << pair, bus >>
  <2>1. pair' = [pair EXCEPT ![n] = pair[n]]
    BY <1>5, KeyDevice
  <2>2. pair[n].psk \in DrawnKeys(created') /\ pair[n].granted \in DrawnKeys(created')
    BY <1>3 DEF KeyInv, DeviceKeys, DrawnKeys
  <2> HIDE DEF p
  <2> QED
    BY <1>2, <1>3, <1>5, <2>1, <2>2, CommandKeys
<1> QED
  BY <1>1, <1>4, <1>5

\* Leaving drops every key; handing the team over moves none.
LEMMA LeaveKeys ==
    ASSUME TypeOK, KeyInv, NEW n \in Node, Leave(n) PROVE KeyInv'
<1>1. /\ Saved(n, Blank, "NotInTeam") /\ svc' = [svc EXCEPT ![n] = NoKeys]
      /\ Start(n, Stopped(pair[n])) /\ created' = created
  BY DEF Leave, ReduceLeave
<1>2. pair' = [pair EXCEPT ![n] = Stopped(pair[n])]
      /\ \A m \in Node : KeysOn(bus'[m]) \subseteq KeysOn(bus[m])
  BY <1>1, TellKeys DEF Start
<1>3. /\ Blank \in Pages /\ Blank.psk = NoPsk /\ NoKeys.psk = NoPsk
      /\ Stopped(pair[n]).psk = NoPsk /\ Stopped(pair[n]).granted = NoPsk
      /\ NoPsk \in DrawnKeys(created')
  BY BlankType DEF NoKeys, Stopped, Resting, DrawnKeys
<1> QED
  BY <1>1, <1>2, <1>3, CommandKeys

LEMMA TransferKeys ==
    ASSUME TypeOK, KeyInv, NEW n \in Node, TransferLeader(n) PROVE KeyInv'
<1>1. PICK row \in RowsOf(page[n]), E \in SUBSET Readers(n, svc[n]) :
        /\ Saved(n, ReduceTransferLeader(page[n], row), "InTeam")
        /\ bus' = Hear(bus, E, [kind |-> "Transfer", team |-> svc[n].team,
                                from |-> n, target |-> row])
  BY DEF TransferLeader
<1> DEFINE e == [kind |-> "Transfer", team |-> svc[n].team, from |-> n, target |-> row]
<1>2. e.kind # "KeyDist"
  OBVIOUS
<1>3. ASSUME NEW m \in Node PROVE KeysOn(bus'[m]) \subseteq KeysOn(bus[m])
  <2>1. bus[m] \in Seq(Events)
    BY KeyDevice
  <2> HIDE DEF e
  <2>2. KeysOn(Hear(bus, E, e)[m]) \subseteq KeysOn(bus[m])
    BY <1>2, <2>1, HearKeys
  <2> QED
    BY <1>1, <2>2 DEF e
<1> DEFINE p == ReduceTransferLeader(page[n], row)
<1>4. page[n] \in Pages /\ row \in Rows
  BY KeyDevice DEF RowsOf, Pages
<1>5. p \in Pages /\ p.psk = page[n].psk
  BY <1>4, TransferLeaderType
<1>6. /\ svc' = [svc EXCEPT ![n] = svc[n]] /\ pair' = [pair EXCEPT ![n] = pair[n]]
      /\ created' = created
  BY KeyDevice DEF TransferLeader
<1>7. /\ page[n].psk = NoPsk \/ page[n].psk = svc[n].psk
      /\ svc[n].psk \in DrawnKeys(created') /\ pair[n].psk \in DrawnKeys(created')
      /\ pair[n].granted \in DrawnKeys(created')
  BY <1>6 DEF KeyInv, DeviceKeys
<1> HIDE DEF p
<1> QED
  BY <1>1, <1>3, <1>5, <1>6, <1>7, CommandKeys DEF p

\* What a page takes from a record is the record's key, or its own.
LEMMA LoadedKey ==
    ASSUME NEW p \in Pages, NEW r \in Records \cup {NoRecord}, NEW n \in Node, pair[n] \in Sessions
    PROVE  /\ FromStore(p, r) \in Pages /\ FromStore(p, r).psk \in {p.psk, r.psk}
           /\ Synced(n, p, r).psk \in {p.psk, r.psk}
<1> DEFINE t == FromStore(p, r)
<1>1. t \in Pages /\ t.psk \in {p.psk, r.psk}
  BY FromStoreType
<1>2. /\ pair[n].role \in {"None", "Leader", "Member"} /\ pair[n].state \in PairingStates
      /\ pair[n].team \in TeamIds \cup {NoTeam}
  BY DEF Sessions
<1>3. Synced(n, p, r) = SyncPairing(t, pair[n])
  BY DEF Synced
<1> HIDE DEF t
<1>4. SyncPairing(t, pair[n]).psk = t.psk
  BY <1>1, <1>2, SyncPairingType
<1> QED
  BY <1>1, <1>3, <1>4 DEF t

\* The screen opens and closes, and frames come in.
LEMMA ScreenKeys ==
    ASSUME TypeOK, KeyInv, NEW n \in Node,
           Back(n) \/ Close(n) \/ Open(n) \/ Requeue(n) \/ RebroadcastRoster(n) \/ Heartbeat(n)
    PROVE  KeyInv'
<1>1. UNCHANGED << svc, store, pair, created >>
  BY DEF Back, Close, Open, Requeue, RebroadcastRoster, Heartbeat
<1> SUFFICES ASSUME NEW m \in Node PROVE DeviceKeys(m)' \/ SameKeys(m)
  BY <1>1, KeyStep
<1>2. ASSUME NEW p, page' = [page EXCEPT ![n] = p], bus' = bus,
             p.psk \in {NoPsk, page[n].psk, store[n].psk}
      PROVE  DeviceKeys(m)' \/ SameKeys(m)
  BY <1>1, <1>2, KeyDevice DEF KeyInv, DeviceKeys, SameKeys
<1>3. page[n] \in Pages /\ store[n] \in Records \cup {NoRecord} /\ pair[n] \in Sessions
  BY KeyDevice
<1>4. CASE Back(n)
  BY <1>1, <1>4 DEF Back, SameKeys
<1>5. CASE Close(n)
  <2>1. FromStore(Blank, store[n]).psk \in {NoPsk, store[n].psk}
    BY <1>3, BlankType, LoadedKey
  <2> QED
    BY <1>2, <1>5, <2>1 DEF Close
<1>6. CASE Open(n)
  <2>1. Synced(n, page[n], store[n]).psk \in {page[n].psk, store[n].psk}
    BY <1>3, LoadedKey
  <2>2. SyncPairing(page[n], pair[n]) \in Pages
        /\ SyncPairing(page[n], pair[n]).psk = page[n].psk
    BY <1>3, SyncPairingType DEF Sessions
  <2>3. Synced(n, SyncPairing(page[n], pair[n]), store[n]).psk \in {page[n].psk, store[n].psk}
    BY <1>3, <2>2, LoadedKey
  <2> QED
    BY <1>2, <1>6, <2>3 DEF Open
<1>7. CASE Requeue(n)
  <2>1. bus[n] \in Seq(Events) /\ bus[n] # << >>
    BY <1>7, KeyDevice DEF Requeue
  <2>2. Tail(bus[n]) \in Seq(Events)
    BY <2>1
  <2>3. KeysOn(Append(Tail(bus[n]), Head(bus[n]))) \subseteq KeysOn(bus[n])
    BY <2>1, <2>2, QueueKeys
  <2> QED
    BY <1>1, <1>7, <2>3, KeyDevice DEF Requeue, SameKeys
<1>8. CASE RebroadcastRoster(n) \/ Heartbeat(n)
  <2>1. page' = page /\ (bus' = bus \/ \E roster : SendStatus(n, bus, svc[n], roster))
    BY <1>8 DEF RebroadcastRoster, Heartbeat
  <2>2. KeysOn(bus'[m]) \subseteq KeysOn(bus[m])
    BY <2>1, KeyDevice, StatusKeys
  <2> QED
    BY <1>1, <2>1, <2>2 DEF SameKeys
<1> QED
  BY <1>4, <1>5, <1>6, <1>7, <1>8
\* An event handled: a key that is taken goes to page, service and record in
\* one step, no other event changes one.
LEMMA HandleEventKeys ==
    ASSUME TypeOK, KeyInv, NEW n \in Node, HandleEvent(n) PROVE KeyInv'
<1> DEFINE e == Head(bus[n])
           p == Reduce(n, page[n], e)
           r == RecordOf(p)
           q == Synced(n, p, r)
           keys == IF TakesKeys(page[n], e) THEN KeysOf(p) ELSE svc[n]
           drained == [bus EXCEPT ![n] = Tail(@)]
<1>1. /\ page[n] \in Pages /\ pair[n] \in Sessions /\ Queue(bus[n]) /\ bus[n] # << >>
      /\ bus[n] \in Seq(Events)
  BY KeyDevice DEF HandleEvent, Queue
<1>2. /\ store' = [store EXCEPT ![n] = r] /\ svc' = [svc EXCEPT ![n] = keys]
      /\ page' = [page EXCEPT ![n] = p] \/ page' = [page EXCEPT ![n] = q]
      /\ SendStatus(n, drained, keys, RosterOf(n, p)) \/ bus' = drained
      /\ UNCHANGED << pair, created >>
  BY DEF HandleEvent
<1>3. /\ e \in Events /\ KeysOn(Tail(bus[n])) \subseteq KeysOn(bus[n])
      /\ e.kind = "KeyDist" => e.psk \in KeysOn(bus[n])
      /\ Tail(bus[n]) \in Seq(Events)
  BY <1>1, HeadTailType, QueueKeys DEF Queue
<1> HIDE DEF e
<1>4. ASSUME NEW m \in Node
      PROVE  drained[m] \in Seq(Events) /\ KeysOn(drained[m]) \subseteq KeysOn(bus[m])
  BY <1>1, <1>3, KeyDevice
<1> HIDE DEF drained
<1>5. ASSUME NEW m \in Node PROVE KeysOn(bus'[m]) \subseteq KeysOn(bus[m])
  BY <1>2, <1>4, StatusKeys
<1>6. /\ p \in Pages /\ (~TakesKeys(page[n], e) => p.psk = page[n].psk)
  BY <1>1, <1>3, ReducedType
<1>7. TakesKeys(page[n], e) => p.psk = e.psk /\ e.psk \in KeysOn(bus[n])
  <2>1. TakesKeys(page[n], e) => /\ e.team \in TeamIds /\ e.psk \in Psks /\ e.from \in Node
                                 /\ p = ReduceKeyDist(page[n], e)
    BY <1>3 DEF TakesKeys, Events, Reduce
  <2> QED
    BY <1>1, <1>3, <2>1, KeyDistType DEF TakesKeys
<1> HIDE DEF p
<1>8. keys.psk = IF TakesKeys(page[n], e) THEN p.psk ELSE svc[n].psk
  BY DEF KeysOf
<1> HIDE DEF keys
<1>9. r \in Records \cup {NoRecord} /\ r.psk \in {NoPsk, p.psk}
  BY <1>6, RecordType, SavedKey
<1> HIDE DEF r
<1>10. q.psk \in {NoPsk, p.psk}
  BY <1>1, <1>6, <1>9, LoadedKey
<1> HIDE DEF q
<1>11. /\ p.psk = NoPsk \/ p.psk = keys.psk
       /\ keys.psk \in DrawnKeys(created) /\ {pair[n].psk, pair[n].granted} \subseteq DrawnKeys(created)
  BY <1>6, <1>7, <1>8 DEF KeyInv, DeviceKeys
<1>12. page'[n].psk \in {NoPsk, p.psk} /\ store'[n].psk \in {NoPsk, p.psk} /\ svc'[n].psk = keys.psk
  BY <1>2, <1>9, <1>10, KeyDevice
<1>13. DeviceKeys(n)'
  BY <1>2, <1>5, <1>11, <1>12 DEF DeviceKeys, KeyInv
<1>14. ASSUME NEW m \in Node, m # n PROVE SameKeys(m)
  BY <1>2, <1>5, <1>14, KeyDevice DEF SameKeys
<1> QED
  BY <1>2, <1>13, <1>14, KeyStep

\* A restart takes everything from one record: the one on flash, or, in the
\* middle of a key distribution, one with the key that was on the bus.
LEMMA RestartKeys ==
    ASSUME TypeOK, KeyInv, NEW n \in Node, Restart(n) \/ RestartAfterKeys(n) PROVE KeyInv'
<1>1. ASSUME NEW r \in Records \cup {NoRecord}, Restarted(n, r), r.psk \in DrawnKeys(created)
      PROVE  KeyInv'
  <2>1. /\ FromStore(Blank, r).psk = r.psk /\ KeysOf(r).psk = r.psk
    BY LoadedType
  <2>2. Resting.psk = NoPsk /\ Resting.granted = NoPsk /\ NoPsk \in DrawnKeys(created)
    BY DEF Resting, DrawnKeys
  <2>3. KeysOn(<< >>) = {}
    BY DEF KeysOn
  <2>4. DeviceKeys(n)'
    BY <1>1, <2>1, <2>2, <2>3, KeyDevice DEF Restarted, DeviceKeys
  <2>5. ASSUME NEW m \in Node, m # n PROVE SameKeys(m)
    BY <1>1, <2>5, KeyDevice DEF Restarted, SameKeys
  <2>6. created' = created
    BY <1>1 DEF Restarted
  <2> QED
    BY <2>4, <2>5, <2>6, KeyStep
<1>2. CASE Restart(n)
  <2>1. store[n] \in Records \cup {NoRecord} /\ store[n].psk \in DrawnKeys(created)
    BY KeyDevice DEF KeyInv, DeviceKeys, DrawnKeys
  <2> QED
    BY <1>1, <1>2, <2>1 DEF Restart
<1>3. CASE RestartAfterKeys(n)
  <2> DEFINE e == Head(bus[n])
             t == FromStore(Blank, store[n])
             u == [t EXCEPT !.team = e.team, !.psk = e.psk]
  <2>1. /\ store[n] \in Records \cup {NoRecord} /\ bus[n] \in Seq(Events)
        /\ Queue(bus[n]) /\ bus[n] # << >> /\ e.kind = "KeyDist"
    BY <1>3, KeyDevice DEF RestartAfterKeys, TakesKeys, Queue
  <2>2. e \in Events /\ e.psk \in KeysOn(bus[n])
    BY <2>1, HeadTailType, QueueKeys
  <2>3. e.team \in TeamIds /\ e.psk \in Psks
    BY <2>1, <2>2 DEF Events
  <2>4. t \in Pages
    BY <2>1, LoadedType
  <2> HIDE DEF e, t
  <2>5. u \in Pages /\ u.psk = e.psk
    BY <2>3, <2>4 DEF Pages
  <2> HIDE DEF u
  <2>6. RecordOf(u) \in Records \cup {NoRecord} /\ RecordOf(u).psk \in {NoPsk, e.psk}
    BY <2>5, RecordType, SavedKey
  <2>7. e.psk \in DrawnKeys(created) /\ NoPsk \in DrawnKeys(created)
    BY <2>2 DEF KeyInv, DeviceKeys, DrawnKeys
  <2>8. Restarted(n, RecordOf(u))
    BY <1>3 DEF RestartAfterKeys, e, t, u
  <2> QED
    BY <1>1, <2>6, <2>7, <2>8
<1> QED
  BY <1>2, <1>3

LEMMA InitKeys == Init => KeyInv
<1>1. KeysOn(<< >>) = {}
  BY DEF KeysOn
<1>2. Resting.psk = NoPsk /\ Resting.granted = NoPsk /\ NoKeys.psk = NoPsk /\ NoRecord.psk = NoPsk
  BY DEF Resting, NoKeys, NoRecord
<1> QED
  BY <1>1, <1>2, BlankType DEF Init, KeyInv, DeviceKeys, DrawnKeys

LEMMA NextKeys == TypeOK /\ KeyInv /\ [Next]_vars => KeyInv'
<1> SUFFICES ASSUME TypeOK, KeyInv, [Next]_vars PROVE KeyInv'
  OBVIOUS
<1>1. CASE UNCHANGED vars
  BY <1>1 DEF vars, KeyInv, DeviceKeys
<1>2. CASE Next
  <2>1. PICK n \in Node :
          \/ \E l \in Node : HearBeacon(n, l) \/ AnswerJoin(n, l)
          \/ AwaitKey(n) \/ TakeKey(n) \/ Expire(n)
          \/ Create(n) \/ Join(n) \/ Invite(n) \/ Retry(n) \/ CancelJoin(n) \/ Leave(n)
          \/ TransferLeader(n) \/ Back(n) \/ Close(n) \/ Open(n)
          \/ HandleEvent(n) \/ Requeue(n) \/ RebroadcastRoster(n) \/ Heartbeat(n)
          \/ Restart(n) \/ RestartAfterKeys(n)
    BY <1>2 DEF Next
  <2>2. ASSUME NEW l \in Node, HearBeacon(n, l) \/ AnswerJoin(n, l) PROVE KeyInv'
    BY <2>2, ServiceKeys
  <2>3. Join(n) \/ Invite(n) \/ Retry(n) => StartMember(n) \/ StartLeader(n)
    BY DEF Join, Invite, Retry
  <2> QED
    BY <2>1, <2>2, <2>3, ServiceKeys, StartKeys, CreateKeys, LeaveKeys, TransferKeys,
       ScreenKeys, HandleEventKeys, RestartKeys
<1> QED
  BY <1>1, <1>2

\* Every key in a page, a record, a service, a session or on a bus was drawn by
\* a create command, and page and record hold the one of the service or none.
THEOREM MembershipKeys == Spec => []KeyInv
<1>1. Init => TypeOK /\ KeyInv
  BY InitInv, InitKeys DEF MInv
<1>2. TypeOK /\ KeyInv /\ [Next]_vars => KeyInv'
  BY NextKeys
<1> QED
  BY <1>1, <1>2, MembershipTypes, PTL DEF Spec

\* No device ever mixes two keys, also where a team has the zero id and the
\* three places part: what page or record have lost is lost whole.
THEOREM MembershipNeverTwoKeys == Spec => []NeverTwoKeys
<1>1. KeyInv => NeverTwoKeys
  BY DEF KeyInv, DeviceKeys, NeverTwoKeys
<1> QED
  BY <1>1, MembershipKeys, PTL
-----------------------------------------------------------------------------
(* The refinement of TeamPromise. A key comes onto a bus only while its user  *)
(* wants a team; one that is there when the wish is taken back is the answer  *)
(* under way of the promise.                                                 *)

\* Nothing but the pairing service brings a key onto a bus.
NoNewKeys(m) == KeysOn(bus'[m]) \subseteq KeysOn(bus[m])

LEMMA ServiceBringsNone ==
    ASSUME TypeOK, NEW n \in Node,
           AwaitKey(n) \/ Expire(n) \/ \E l \in Node : HearBeacon(n, l) \/ AnswerJoin(n, l),
           NEW m \in Node
    PROVE  NoNewKeys(m)
<1>1. CASE AwaitKey(n) \/ \E l \in Node : HearBeacon(n, l) \/ AnswerJoin(n, l)
  <2>1. \E s, peer : Publish(n, << PairingEvent(s, peer) >>)
    BY <1>1 DEF AwaitKey, HearBeacon, AnswerJoin
  <2> QED
    BY <2>1, TellKeys DEF NoNewKeys
<1>2. CASE Expire(n)
  <2> DEFINE a == PairingEvent([pair[n] EXCEPT !.state = "Failed"], NoNode)
             b == PairingEvent(Stopped(pair[n]), NoNode)
  <2>1. a.kind # "KeyDist" /\ b.kind # "KeyDist"
    BY DEF PairingEvent
  <2>2. Publish(n, << a, b >>)
    BY <1>2 DEF Expire
  <2> HIDE DEF a, b
  <2>3. << a, b >> \in Seq({a, b})
    OBVIOUS
  <2>4. KeysOn(<< a, b >>) = {}
    BY <2>1 DEF KeysOn
  <2> QED
    BY <2>2, <2>3, <2>4, PublishKeys DEF NoNewKeys
<1> QED
  BY <1>1, <1>2

LEMMA UserBringsNone ==
    ASSUME TypeOK, NEW n \in Node,
           Create(n) \/ Join(n) \/ Invite(n) \/ Retry(n) \/ CancelJoin(n) \/ Leave(n)
           \/ TransferLeader(n) \/ Back(n) \/ Close(n) \/ Open(n)
           \/ Restart(n) \/ RestartAfterKeys(n),
           NEW m \in Node
    PROVE  NoNewKeys(m)
<1>1. CASE bus' = bus \/ \E s : Start(n, s)
  BY <1>1, TellKeys DEF Start, NoNewKeys
<1>2. CASE \/ Create(n) \/ Join(n) \/ Invite(n) \/ Retry(n) \/ CancelJoin(n) \/ Leave(n)
           \/ Back(n) \/ Close(n) \/ Open(n)
  <2>1. StartMember(n) \/ StartLeader(n) => bus' = bus \/ \E s : Start(n, s)
    BY DEF StartMember, StartLeader, Refused
  <2> QED
    BY <1>1, <1>2, <2>1
    DEF Create, Join, Invite, Retry, CancelJoin, Leave, Back, Close, Open
<1>3. CASE TransferLeader(n)
  <2>1. PICK e, S : e.kind # "KeyDist" /\ bus' = Hear(bus, S, e)
    <3>1. PICK row \in RowsOf(page[n]), E \in SUBSET Readers(n, svc[n]) :
            bus' = Hear(bus, E, [kind |-> "Transfer", team |-> svc[n].team,
                                 from |-> n, target |-> row])
      BY <1>3 DEF TransferLeader
    <3> QED
      BY <3>1
  <2>2. KeysOn(Hear(bus, S, e)[m]) \subseteq KeysOn(bus[m])
    BY <2>1, KeyDevice, HearKeys
  <2> QED
    BY <2>1, <2>2 DEF NoNewKeys
<1>4. CASE Restart(n) \/ RestartAfterKeys(n)
  <2>1. bus' = [bus EXCEPT ![n] = << >>]
    BY <1>4 DEF Restart, RestartAfterKeys, Restarted
  <2>2. KeysOn(<< >>) = {}
    BY DEF KeysOn
  <2> QED
    BY <2>1, <2>2, KeyDevice DEF NoNewKeys
<1> QED
  BY <1>2, <1>3, <1>4

LEMMA LoopBringsNone ==
    ASSUME TypeOK, NEW n \in Node,
           HandleEvent(n) \/ Requeue(n) \/ RebroadcastRoster(n) \/ Heartbeat(n),
           NEW m \in Node
    PROVE  NoNewKeys(m)
<1>1. bus[n] \in Seq(Events) /\ bus[m] \in Seq(Events) /\ DOMAIN bus = Node
  BY KeyDevice
<1>2. CASE HandleEvent(n)
  <2> DEFINE drained == [bus EXCEPT ![n] = Tail(@)]
  <2>1. bus[n] # << >> /\ (bus' = drained \/ \E k, roster : SendStatus(n, drained, k, roster))
    BY <1>2 DEF HandleEvent
  <2>2. KeysOn(drained[m]) \subseteq KeysOn(bus[m]) /\ drained[m] \in Seq(Events)
    BY <1>1, <2>1, QueueKeys
  <2> HIDE DEF drained
  <2>3. KeysOn(bus'[m]) \subseteq KeysOn(drained[m])
    BY <2>1, <2>2, StatusKeys
  <2> QED
    BY <2>2, <2>3 DEF NoNewKeys
<1>3. CASE Requeue(n)
  <2>1. bus[n] # << >> /\ bus' = [bus EXCEPT ![n] = Append(Tail(@), Head(@))]
    BY <1>1, <1>3 DEF Requeue
  <2>2. Tail(bus[n]) \in Seq(Events)
    BY <1>1, <2>1
  <2>3. KeysOn(Append(Tail(bus[n]), Head(bus[n]))) \subseteq KeysOn(bus[n])
    BY <1>1, <2>1, <2>2, QueueKeys
  <2> QED
    BY <1>1, <2>1, <2>3 DEF NoNewKeys
<1>4. CASE RebroadcastRoster(n) \/ Heartbeat(n)
  <2>1. bus' = bus \/ \E roster : SendStatus(n, bus, svc[n], roster)
    BY <1>4 DEF RebroadcastRoster, Heartbeat
  <2> QED
    BY <1>1, <2>1, StatusKeys DEF NoNewKeys
<1> QED
  BY <1>2, <1>3, <1>4

\* A key waits for a user without a wish only if it waited before, or if the
\* user just took the wish back.
LEMMA KeysAreLate ==
    ASSUME TypeOK, WishInv, [Next]_vars
    PROVE  /\ KeyBelated' \in [Node -> BOOLEAN]
           /\ \A m \in Node : KeyBelated'[m] => KeyBelated[m] \/ (wants[m] /\ ~wants'[m])
<1>1. KeyBelated' \in [Node -> BOOLEAN]
  BY DEF KeyBelated
<1>2. ASSUME NEW m \in Node, ~wants[m] PROVE NoNewKeys(m)
  <2>1. CASE UNCHANGED vars
    BY <2>1 DEF vars, NoNewKeys
  <2>2. CASE \E n \in Node : TakeKey(n)
    <3>1. PICK n \in Node : TakeKey(n)
      BY <2>2
    <3>2. pair[m].granted = NoPsk
      BY <1>2 DEF WishInv, Unasked
    <3> QED
      BY <3>1, <3>2, KeyDevice DEF TakeKey, Publish, NoNewKeys
  <2> QED
    BY <2>1, <2>2, ServiceBringsNone, UserBringsNone, LoopBringsNone DEF Next
<1>3. ASSUME NEW m \in Node, KeyBelated'[m] PROVE KeyBelated[m] \/ (wants[m] /\ ~wants'[m])
  BY <1>2, <1>3 DEF KeyBelated, NoNewKeys
<1> QED
  BY <1>1, <1>3

LEMMA Dwindles ==
    ASSUME TypeOK, WishInv, [Next]_vars, NEW S \in SUBSET Node,
           \A m \in S : wants[m] => wants'[m]
    PROVE  Promise!Dwindle(S)
BY KeysAreLate DEF Promise!Dwindle

\* The key held, after a step that keeps the service's keys or sets one device's.
LEMMA HeldKeys ==
    ASSUME TypeOK
    PROVE  /\ svc' = svc => KeyHeld' = KeyHeld
           /\ \A n \in Node : \A k : svc' = [svc EXCEPT ![n] = k]
                                     => KeyHeld' = [KeyHeld EXCEPT ![n] = k.psk]
           /\ \A n \in Node : KeyHeld[n] = svc[n].psk /\ KeyHeld = [KeyHeld EXCEPT ![n] = svc[n].psk]
BY KeyDevice DEF KeyHeld

LEMMA HeldKey ==
    ASSUME TypeOK, NEW n \in Node, NEW k, svc' = [svc EXCEPT ![n] = k], NEW x, k.psk = x
    PROVE  KeyHeld' = [KeyHeld EXCEPT ![n] = x]
BY HeldKeys

PromiseVars == << wants, KeyBelated, KeyHeld, created >>

\* Steps the promise does not see.
Unseen == wants' = wants /\ svc' = svc /\ created' = created

LEMMA UnseenStep ==
    ASSUME TypeOK, Promise!Dwindle(Node), Unseen PROVE Promise!Next
BY HeldKeys DEF Unseen, Promise!Next, Promise!Lapse

\* A created team is one under the key the device has, or under a fresh one.
LEMMA CreateFounds ==
    ASSUME TypeOK, KeyInv, Promise!Dwindle(Node), NEW n \in Node, Create(n) PROVE Promise!Next
<1>1. PICK k \in Fresh :
        LET p == ReduceCreate(page[n], k, k)
        IN  svc' = [svc EXCEPT ![n] = KeysOf(p)] /\ created' = created \cup {KeysOf(p)}
  BY DEF Create
<1> DEFINE p == ReduceCreate(page[n], k, k)
<1>2. page[n] \in Pages /\ k \in Psks /\ page[n].psk \in {NoPsk, svc[n].psk}
  BY KeyDevice DEF Fresh, KeyInv, DeviceKeys
<1>3. p \in Pages /\ p.psk \in Psks /\ p.team # NoTeam
  BY <1>2, CreateType
<1>4. p.psk = IF page[n].psk = NoPsk THEN k ELSE page[n].psk
  <2> DEFINE t == [page[n] EXCEPT !.inTeam = TRUE, !.pending = FALSE, !.leader = TRUE,
                         !.members = << >>, !.leaders = {},
                         !.team = IF @ = NoTeam THEN k ELSE @,
                         !.psk = IF @ = NoPsk THEN k ELSE @]
  <2>1. << >> \in Seq(Rows) /\ k \in TeamIds
    BY <1>2, Numbers DEF RealTeam
  <2>2. t \in Pages /\ t.psk = IF page[n].psk = NoPsk THEN k ELSE page[n].psk
    BY <1>2, <2>1 DEF Pages
  <2>3. p = EnsureSelf(t, TRUE)
    BY DEF ReduceCreate
  <2> HIDE DEF t, p
  <2> QED
    BY <2>2, <2>3, EnsureSelfType
<1>5. page[n].psk = NoPsk => \A c \in created : c.psk # p.psk
  BY <1>4 DEF Fresh, Drawn
<1> HIDE DEF p
<1>6. p.psk = KeyHeld[n] \/ \A c \in created : c.psk # p.psk
  BY <1>2, <1>4, <1>5, HeldKeys
<1>7. p.team \in TeamIds /\ KeysOf(p) = [team |-> p.team, psk |-> p.psk]
  BY <1>3 DEF Pages, KeysOf
<1>8. KeyHeld' = [KeyHeld EXCEPT ![n] = p.psk]
      /\ created' = created \cup {[team |-> p.team, psk |-> p.psk]}
  <2>1. svc' = [svc EXCEPT ![n] = KeysOf(p)] /\ created' = created \cup {KeysOf(p)}
    BY <1>1 DEF p
  <2>2. KeysOf(p).psk = p.psk
    BY <1>7
  <2>3. KeyHeld' = [KeyHeld EXCEPT ![n] = p.psk]
    BY <2>1, <2>2, HeldKey
  <2> QED
    BY <1>7, <2>1, <2>3
<1>9. wants' = [wants EXCEPT ![n] = TRUE]
  BY DEF Create, Wish
<1>10. Promise!Found(n)
  BY <1>3, <1>6, <1>7, <1>8, <1>9 DEF Promise!Found
<1> QED
  BY <1>10 DEF Promise!Next

\* A user asks by joining, and takes it back by cancelling or leaving.
LEMMA UserAsks ==
    ASSUME TypeOK, WishInv, Next, NEW n \in Node,
           Join(n) \/ Invite(n) \/ Retry(n) \/ CancelJoin(n) \/ Leave(n)
    PROVE  Promise!Next
<1>1. CASE Unseen
  <2>1. Promise!Dwindle(Node)
    BY <1>1, Dwindles DEF Unseen
  <2> QED
    BY <1>1, <2>1, UnseenStep
<1>2. CASE wants' = [wants EXCEPT ![n] = TRUE] /\ svc' = svc /\ created' = created
  <2>1. Promise!Dwindle(Node)
    BY <1>2, Dwindles, Device
  <2>2. Promise!Ask(n)
    BY <1>2, <2>1, HeldKeys DEF Promise!Ask
  <2> QED
    BY <2>2 DEF Promise!Next
<1>3. ASSUME wants' = [wants EXCEPT ![n] = FALSE], created' = created,
             svc' = svc \/ svc' = [svc EXCEPT ![n] = NoKeys]
      PROVE  Promise!Next
  <2>1. Promise!Dwindle(Node \ {n})
    BY <1>3, Dwindles, Device
  <2>2. KeyHeld' = KeyHeld \/ KeyHeld' = [KeyHeld EXCEPT ![n] = NoPsk]
    <3>1. NoKeys.psk = NoPsk
      BY DEF NoKeys
    <3> QED
      BY <1>3, <3>1, HeldKeys
  <2>3. Promise!GiveUp(n)
    BY <1>3, <2>1, <2>2 DEF Promise!GiveUp
  <2> QED
    BY <2>3 DEF Promise!Next
<1>4. CASE Join(n) \/ Invite(n) \/ Retry(n)
  <2>1. StartMember(n) \/ StartLeader(n)
    BY <1>4 DEF Join, Invite, Retry
  <2> QED
    BY <1>1, <1>2, <2>1 DEF StartMember, StartLeader, Refused, Wish, Unseen
<1>5. CASE CancelJoin(n)
  <2>1. page[n] \in Pages /\ wants[n] \in BOOLEAN /\ DOMAIN wants = Node
    BY Device
  <2>2. ReduceJoinCanceled(page[n]).inTeam \in BOOLEAN
    BY <2>1, JoinCanceledType DEF Pages
  <2> DEFINE w == wants[n] /\ ReduceJoinCanceled(page[n]).inTeam
  <2>3. w \in BOOLEAN
    BY <2>1, <2>2
  <2>4. wants' = [wants EXCEPT ![n] = w] /\ svc' = svc /\ created' = created
    BY <1>5 DEF CancelJoin, Wish
  <2> HIDE DEF w
  <2>5. CASE w = TRUE
    BY <1>2, <2>4, <2>5
  <2>6. CASE w = FALSE
    BY <1>3, <2>4, <2>6
  <2> QED
    BY <2>3, <2>5, <2>6
<1>6. CASE Leave(n)
  BY <1>3, <1>6 DEF Leave, Wish
<1> QED
  BY <1>4, <1>5, <1>6

\* A device that is given the key of a created team while its user asks, or with
\* the answer under way.
LEMMA Admission ==
    ASSUME TypeOK, Promise!Dwindle(Node), NEW n \in Node, wants[n] \/ KeyBelated[n], NEW k, svc' = [svc EXCEPT ![n] = k],
           k.psk \in DrawnKeys(created) \ {NoPsk}, wants' = wants, created' = created
    PROVE  Promise!Next
<1>1. PICK c \in created : c.psk = k.psk
  BY DEF DrawnKeys
<1>2. KeyHeld' = [KeyHeld EXCEPT ![n] = c.psk]
  BY <1>1, HeldKey
<1>3. Promise!Admit(n)
  BY <1>2 DEF Promise!Admit
<1> QED
  BY <1>3 DEF Promise!Next

\* A key distribution that waits on a bus is for a user who asks, or an answer
\* under way, and its key was drawn.
LEMMA AskedFor ==
    ASSUME TypeOK, KeyInv, NEW n \in Node, bus[n] # << >>, Head(bus[n]).kind = "KeyDist"
    PROVE  /\ wants[n] \/ KeyBelated[n]
           /\ Head(bus[n]).psk \in DrawnKeys(created) \ {NoPsk}
           /\ Head(bus[n]) \in Events
           /\ Head(bus[n]).team \in TeamIds /\ Head(bus[n]).psk \in Psks
<1>1. bus[n] \in Seq(Events) /\ Queue(bus[n])
  BY KeyDevice DEF Queue
<1>2. Head(bus[n]) \in Events /\ Head(bus[n]).psk \in KeysOn(bus[n])
  BY <1>1, HeadTailType, QueueKeys
<1>3. Head(bus[n]).team \in TeamIds /\ Head(bus[n]).psk \in Psks
  BY <1>2 DEF Events
<1>4. Head(bus[n]).psk \in DrawnKeys(created) \ {NoPsk}
  BY <1>2, <1>3, Numbers DEF KeyInv, DeviceKeys
<1>5. wants[n] \/ KeyBelated[n]
  BY <1>2 DEF KeyBelated
<1> QED
  BY <1>2, <1>3, <1>4, <1>5

LEMMA HandleEventAdmits ==
    ASSUME TypeOK, KeyInv, Promise!Dwindle(Node), NEW n \in Node, HandleEvent(n)
    PROVE  Promise!Next
<1> DEFINE e == Head(bus[n])
           p == Reduce(n, page[n], e)
<1>1. /\ svc' = [svc EXCEPT ![n] = IF TakesKeys(page[n], e) THEN KeysOf(p) ELSE svc[n]]
      /\ wants' = wants /\ created' = created /\ bus[n] # << >>
  BY DEF HandleEvent
<1>2. CASE TakesKeys(page[n], e)
  <2>1. /\ wants[n] \/ KeyBelated[n]
        /\ e.psk \in DrawnKeys(created) \ {NoPsk}
        /\ e \in Events /\ e.team \in TeamIds /\ e.psk \in Psks
    BY <1>1, <1>2, AskedFor DEF TakesKeys
  <2>2. e.from \in Node /\ p = ReduceKeyDist(page[n], e) /\ page[n] \in Pages
    BY <1>2, <2>1, KeyDevice DEF TakesKeys, Events, Reduce
  <2>3. KeysOf(p).psk = e.psk
    BY <1>2, <2>1, <2>2, KeyDistType DEF TakesKeys, KeysOf
  <2> HIDE DEF p, e
  <2> QED
    BY <1>1, <1>2, <2>1, <2>3, Admission
<1>3. CASE ~TakesKeys(page[n], e)
  <2>1. svc' = svc
    BY <1>1, <1>3, KeyDevice
  <2> QED
    BY <1>1, <2>1, UnseenStep DEF Unseen
<1> QED
  BY <1>2, <1>3

\* A key is forgotten only where a team has the zero id.
LEMMA Forgets ==
    ASSUME TypeOK, Promise!Dwindle(Node), ~NoZeroTeam, NEW n \in Node, NEW k, svc' = [svc EXCEPT ![n] = k],
           k.psk = NoPsk, wants' = wants, created' = created
    PROVE  Promise!Next
<1>1. \E c \in created : c.team = ZeroTeam
  BY DEF NoZeroTeam
<1>2. KeyHeld' = [KeyHeld EXCEPT ![n] = NoPsk]
  BY HeldKeys
<1>3. Promise!Forget(n)
  BY <1>1, <1>2 DEF Promise!Forget
<1> QED
  BY <1>3 DEF Promise!Next

\* A restart gives the service the key it had, or in the middle of a key
\* distribution the one that came.
LEMMA RestartKeeps ==
    ASSUME MInv, KeyInv, Promise!Dwindle(Node), NEW n \in Node, Restart(n) \/ RestartAfterKeys(n)
    PROVE  Promise!Next
<1>1. TypeOK /\ (NoZeroTeam => DeviceInv(n))
  BY DEF MInv
<1>2. CASE Restart(n)
  <2>1. /\ svc' = [svc EXCEPT ![n] = KeysOf(store[n])] /\ wants' = wants /\ created' = created
        /\ KeysOf(store[n]).psk = store[n].psk /\ store[n].psk \in {NoPsk, svc[n].psk}
    BY <1>2 DEF Restart, Restarted, KeysOf, KeyInv, DeviceKeys
  <2>2. CASE store[n].psk = svc[n].psk
    <3>1. KeyHeld' = [KeyHeld EXCEPT ![n] = svc[n].psk]
      BY <1>1, <2>1, <2>2, HeldKey
    <3>2. KeyHeld' = KeyHeld
      BY <1>1, <3>1, HeldKeys
    <3>3. Promise!Lapse
      BY <2>1, <3>2 DEF Promise!Lapse
    <3> QED
      BY <3>3 DEF Promise!Next
  <2>3. CASE store[n].psk # svc[n].psk
    <3>1. ~NoZeroTeam /\ store[n].psk = NoPsk
      BY <1>1, <2>1, <2>3 DEF DeviceInv
    <3> QED
      BY <1>1, <2>1, <3>1, Forgets
  <2> QED
    BY <2>2, <2>3
<1>3. CASE RestartAfterKeys(n)
  <2> DEFINE e == Head(bus[n])
             t == FromStore(Blank, store[n])
             u == [t EXCEPT !.team = e.team, !.psk = e.psk]
             r == RecordOf(u)
  <2>1. bus[n] # << >> /\ e.kind = "KeyDist" /\ store[n] \in Records \cup {NoRecord}
    BY <1>1, <1>3, KeyDevice DEF RestartAfterKeys, TakesKeys
  <2>2. /\ wants[n] \/ KeyBelated[n]
        /\ e.psk \in DrawnKeys(created) \ {NoPsk}
        /\ e.team \in TeamIds /\ e.psk \in Psks /\ e \in Events
    BY <1>1, <2>1, AskedFor
  <2>3. ~RealTeam(e.team) => ~NoZeroTeam
    <3>1. bus[n] \in Seq(Events) /\ Queue(bus[n])
      BY <1>1, KeyDevice DEF Queue
    <3>2. NoZeroTeam => Sound(bus[n])
      BY <1>1 DEF DeviceInv, Sound
    <3> QED
      BY <2>1, <3>1, <3>2, HeadTailType DEF EventInv
  <2>4. t \in Pages
    BY <2>1, LoadedType
  <2>5. /\ svc' = [svc EXCEPT ![n] = KeysOf(r)] /\ wants' = wants /\ created' = created
        /\ KeysOf(r).psk = r.psk
    BY <1>3 DEF RestartAfterKeys, Restarted, KeysOf
  <2> HIDE DEF e, t
  <2>6. u \in Pages /\ u.psk = e.psk /\ u.team = e.team
    BY <2>2, <2>4 DEF Pages
  <2> HIDE DEF u
  <2>7. CASE RealTeam(e.team)
    <3>1. r.psk = e.psk
      BY <2>2, <2>6, <2>7, RecordType, Numbers DEF RealTeam
    <3> HIDE DEF r
    <3> QED
      BY <1>1, <2>2, <2>5, <3>1, Admission
  <2>8. CASE ~RealTeam(e.team)
    <3>1. r.psk \in {NoPsk, e.psk}
      BY <2>6, SavedKey
    <3> HIDE DEF r
    <3>2. CASE r.psk = NoPsk
      BY <1>1, <2>3, <2>5, <2>8, <3>2, Forgets
    <3>3. CASE r.psk = e.psk
      BY <1>1, <2>2, <2>5, <3>3, Admission
    <3> QED
      BY <3>1, <3>2, <3>3
  <2> QED
    BY <2>7, <2>8
<1> QED
  BY <1>2, <1>3

\* Every step of the devices is one of the promise or none.
LEMMA NextPromise ==
    MInv /\ KeyInv /\ WishInv /\ [Next]_vars => [Promise!Next]_PromiseVars
<1> SUFFICES ASSUME MInv, KeyInv, WishInv, [Next]_vars
             PROVE  [Promise!Next]_PromiseVars
  OBVIOUS
<1>1. TypeOK
  BY DEF MInv
<1>2. CASE UNCHANGED vars
  BY <1>2 DEF vars, PromiseVars, KeyBelated, KeyHeld
<1>3. CASE Next
  <2>1. PICK n \in Node :
          \/ \E l \in Node : HearBeacon(n, l) \/ AnswerJoin(n, l)
          \/ AwaitKey(n) \/ TakeKey(n) \/ Expire(n)
          \/ Create(n) \/ Join(n) \/ Invite(n) \/ Retry(n) \/ CancelJoin(n) \/ Leave(n)
          \/ TransferLeader(n) \/ Back(n) \/ Close(n) \/ Open(n)
          \/ HandleEvent(n) \/ Requeue(n) \/ RebroadcastRoster(n) \/ Heartbeat(n)
          \/ Restart(n) \/ RestartAfterKeys(n)
    BY <1>3 DEF Next
  <2>2. (\E l \in Node : HearBeacon(n, l) \/ AnswerJoin(n, l))
        \/ AwaitKey(n) \/ TakeKey(n) \/ Expire(n) => Unseen
    BY DEF HearBeacon, AnswerJoin, AwaitKey, TakeKey, Expire, Unseen
  <2>3. TransferLeader(n) \/ Back(n) \/ Close(n) \/ Open(n) \/ Requeue(n)
        \/ RebroadcastRoster(n) \/ Heartbeat(n) => Unseen
    BY DEF TransferLeader, Back, Close, Open, Requeue, RebroadcastRoster, Heartbeat, Unseen
  <2>4. CASE Join(n) \/ Invite(n) \/ Retry(n) \/ CancelJoin(n) \/ Leave(n)
    BY <1>1, <1>3, <2>4, UserAsks
  <2>5. CASE ~(Join(n) \/ Invite(n) \/ Retry(n) \/ CancelJoin(n) \/ Leave(n))
    <3>1. wants' = wants \/ wants' = [wants EXCEPT ![n] = TRUE]
      BY <2>1, <2>2, <2>3, <2>5
      DEF Unseen, Create, Wish, HandleEvent, Restart, RestartAfterKeys, Restarted
    <3>2. Promise!Dwindle(Node)
      BY <1>1, <3>1, Dwindles, Device
    <3> QED
      BY <1>1, <2>1, <2>2, <2>3, <2>5, <3>2, UnseenStep, CreateFounds, HandleEventAdmits,
         RestartKeeps
  <2> QED
    BY <2>4, <2>5
<1> QED
  BY <1>2, <1>3

\* The devices keep the promise of TeamPromise: a device gets a key only while
\* its user asks for a team, or with the answer that was on its bus when the user
\* took that back, and only one a create command drew; it keeps the key through
\* events, closed pages, failed starts and restarts until its user leaves, unless
\* some team has the id that stands for none.
THEOREM MembershipKeepsPromise == Spec => KeepsTeamPromise
<1>1. Init => MInv /\ KeyInv /\ WishInv
  BY InitInv, InitKeys, InitWish
<1>2. MInv /\ KeyInv /\ WishInv /\ [Next]_vars => MInv' /\ KeyInv' /\ WishInv'
  BY NextInv, NextKeys, NextWish DEF MInv
<1>3. Init => Promise!Init
  <2> SUFFICES ASSUME Init PROVE Promise!Init
    OBVIOUS
  <2>1. KeysOn(<< >>) = {}
    BY DEF KeysOn
  <2>2. ASSUME NEW n \in Node PROVE (~wants[n] /\ KeysOn(bus[n]) # {}) = FALSE
    BY <2>1 DEF Init
  <2>3. KeyBelated = [n \in Node |-> FALSE]
    BY <2>2, Zenon DEF KeyBelated
  <2>4. KeyHeld = [n \in Node |-> NoPsk]
    BY DEF Init, KeyHeld, NoKeys
  <2> QED
    BY <2>3, <2>4 DEF Init, Promise!Init
<1>4. MInv /\ KeyInv /\ WishInv /\ [Next]_vars => [Promise!Next]_PromiseVars
  BY NextPromise
<1> QED
  BY <1>1, <1>2, <1>3, <1>4, PTL DEF Spec, KeepsTeamPromise, Promise!Spec, PromiseVars
=============================================================================
