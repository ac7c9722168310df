---------------------- MODULE PairingCoordinatorProofs ----------------------
(***************************************************************************)
(* Lemmas about single calls of the coordinator, for every coordinator,    *)
(* packet and time: what handleIncomingPacket() and update() keep of the   *)
(* inductive invariant of TeamPairing, what they may send, and when they   *)
(* hand out a key.                                                         *)
(***************************************************************************)
EXTENDS TeamPairing, SequenceTheorems, TLAPS

\* The fields of a packet, by its type.
LEMMA PacketFields ==
    ASSUME NEW m \in Packets
    PROVE  /\ m.type \in {"Beacon", "Join", "Key"}
           /\ m.src \in Node
           /\ m.team \in Team
           /\ m.type = "Beacon" => /\ m \in Beacons /\ m.dst = Broadcast /\ m.key \in Nat
                                   /\ m.leader \in Node /\ m.name \in Name \cup {NoName}
           /\ m.type = "Join" => m \in Joins /\ m.dst \in Node /\ m.nonce \in Nat
           /\ m.type = "Key" => /\ m \in Keys /\ m.dst \in Node /\ m.nonce \in Nat
                                /\ m.key \in Nat /\ m.psk \in Psk
BY DEF Packets, Beacons, Joins, Keys

\* The fields of a coordinator.
LEMMA CoordinatorFields ==
    ASSUME NEW c \in Coordinators
    PROVE  /\ c.role \in Roles /\ c.state \in RestingStates
           /\ c.until \in Int /\ c.lastBeacon \in Int /\ c.lastJoin \in Int
           /\ c.joinSent \in Int /\ c.attempts \in 0 .. JoinRetryMax
           /\ c.team \in Team \cup {NoTeam} /\ c.key \in Nat
           /\ c.leader \in Node \cup {NoNode} /\ c.nonce \in Nat
           /\ c.psk \in Psk \cup {NoPsk} /\ c.name \in Name \cup {NoName}
           /\ c.mac \in Node \cup {NoNode}
BY DEF Coordinators

\* A list of state events: no key distribution is among them.
OnlyStates(ev) == \E T : ev \in Seq(T) /\ \A e \in T : e.kind = "State"

\* Events that only publish states hold no key distribution.
LEMMA NoKeyDist == ASSUME NEW ev, OnlyStates(ev) PROVE KeyDistsIn(ev) = {}
<1>1. PICK T : ev \in Seq(T) /\ \A e \in T : e.kind = "State"
  BY DEF OnlyStates
<1>2. \A i \in DOMAIN ev : ev[i] \in T
  BY <1>1
<1>. QED
  BY <1>1, <1>2 DEF KeyDistsIn

\* A call that publishes nothing publishes only states.
LEMMA NoEvents == OnlyStates(<< >>)
<1>. DEFINE T == {[kind |-> "State"]}
<1>1. << >> \in Seq(T)
  OBVIOUS
<1>2. \A x \in T : x.kind = "State"
  OBVIOUS
<1>. HIDE DEF T
<1>. QED
  BY <1>1, <1>2 DEF OnlyStates

\* One published state is only states.
LEMMA OneState == ASSUME NEW e, e.kind = "State" PROVE OnlyStates(<< e >>)
<1>. DEFINE T == {e}
<1>1. << e >> \in Seq(T)
  OBVIOUS
<1>2. \A x \in T : x.kind = "State"
  OBVIOUS
<1>. HIDE DEF T
<1>. QED
  BY <1>1, <1>2 DEF OnlyStates

\* Two published states are only states.
LEMMA TwoStates ==
    ASSUME NEW d, NEW e, d.kind = "State", e.kind = "State" PROVE OnlyStates(<< d, e >>)
<1>. DEFINE T == {d, e}
<1>1. << d, e >> \in Seq(T)
  OBVIOUS
<1>2. \A x \in T : x.kind = "State"
  OBVIOUS
<1>. HIDE DEF T
<1>. QED
  BY <1>1, <1>2 DEF OnlyStates

\* Publishing states twice in one call is publishing states.
LEMMA ConcatStates ==
    ASSUME NEW a, NEW b, OnlyStates(a), OnlyStates(b) PROVE OnlyStates(a \o b)
<1>1. PICK T : a \in Seq(T) /\ \A e \in T : e.kind = "State"
  BY DEF OnlyStates
<1>2. PICK U : b \in Seq(U) /\ \A e \in U : e.kind = "State"
  BY DEF OnlyStates
<1>3. a \in Seq(T \cup U) /\ b \in Seq(T \cup U)
  BY <1>1, <1>2
<1>4. a \o b \in Seq(T \cup U) /\ \A e \in T \cup U : e.kind = "State"
  BY <1>1, <1>2, <1>3, ConcatProperties
<1>. QED
  BY <1>4 DEF OnlyStates

\* A stopped coordinator satisfies its invariant whatever was sent.
LEMMA StoppedInv ==
    ASSUME NEW n \in Node, NEW c \in Coordinators, NEW N, NEW f, NEW S
    PROVE  /\ CoordinatorInv(n, Stopped(c), N, f, S)
           /\ Stopped(c).role = "None" /\ Stopped(c).state = "Idle"
<1>1. Stopped(c) \in Coordinators
  BY DEF Stopped, Coordinators, Roles, RestingStates
<1>2. Stopped(c).role = "None" /\ Stopped(c).state = "Idle"
  BY DEF Stopped, Coordinators
<1>. QED
  BY <1>1, <1>2 DEF CoordinatorInv, RoleFitsState, LeadsOpened, AwaitsItsLeader,
                    NonceIsForLeader, Awaiting

\* The clock stays an integer.
LEMMA AfterInt == ASSUME NEW t \in Int, NEW d \in Int PROVE After(t, d) \in Int
BY TimingAssumption DEF After

-----------------------------------------------------------------------------
(* update() of the coordinator.                                             *)

\* What a call of the coordinator may change, and send, without touching what
\* the invariant says of it.
SameBut(c, d) ==
    /\ d \in Coordinators
    /\ d.role = c.role /\ d.mac = c.mac /\ d.nonce = c.nonce /\ d.leader = c.leader
    /\ d.team = c.team /\ d.key = c.key /\ d.psk = c.psk

\* A join is sent to the leader's MAC under the current nonce, or not at all.
LEMMA SendJoinFields ==
    ASSUME NEW n \in Node, NEW c \in Coordinators, NEW t \in Int, NEW ok \in BOOLEAN,
           c.team \in Team, c.attempts < JoinRetryMax
    PROVE  LET r == SendJoin(n, c, t, ok)
           IN  /\ SameBut(c, r.co) /\ r.co.state = c.state
               /\ \A m \in r.tx : /\ m \in Joins /\ m.type = "Join" /\ m.src = n
                                  /\ m.nonce = c.nonce /\ m.dst = c.mac
               /\ r.ev = << >>
<1>. DEFINE r == SendJoin(n, c, t, ok)
            p == [type |-> "Join", src |-> n, dst |-> c.mac, team |-> c.team,
                  nonce |-> c.nonce]
            d == [c EXCEPT !.lastJoin = t, !.attempts = @ + 1]
<1>1. CASE ~(ok /\ c.mac # NoNode)
  BY <1>1 DEF SendJoin, Nothing, SameBut
<1>2. CASE ok /\ c.mac # NoNode
  <2>1. r.co = d /\ r.tx = {p} /\ r.ev = << >>
    BY <1>2 DEF SendJoin
  <2>2. c.mac \in Node /\ c.nonce \in Nat
    BY <1>2, CoordinatorFields
  <2>3. p \in Joins /\ p.type = "Join" /\ p.src = n /\ p.nonce = c.nonce /\ p.dst = c.mac
    BY <2>2 DEF Joins
  <2>4. c.attempts + 1 \in 0 .. JoinRetryMax
    BY CoordinatorFields, TimingAssumption
  <2>5. SameBut(c, d) /\ d.state = c.state
    BY <2>4 DEF Coordinators, SameBut
  <2>. QED
    BY <2>1, <2>3, <2>5
<1>. QED
  BY <1>1, <1>2

\* What every call of the coordinator c of device n guarantees of its result
\* r, but for the one that accepts a key: it keeps the invariant, sends only
\* sound packets, hands out no key, and takes up no role.
SoundCall(n, c, r, N, f, S) ==
    /\ CoordinatorInv(n, r.co, N \cup r.tx, f, S)
    /\ \A m \in r.tx : m \in Packets /\ m.src = n /\ PacketInv(m, N, f, S)
    /\ KeyDistsIn(r.ev) = {}
    /\ r.co.role \in {c.role, "None"}

\* A call that does nothing is sound.
LEMMA NothingSound ==
    ASSUME NEW n, NEW c, NEW N, NEW f, NEW S, CoordinatorInv(n, c, N, f, S)
    PROVE  SoundCall(n, c, Nothing(c), N, f, S)
<1>1. N \cup {} = N
  OBVIOUS
<1>. QED
  BY <1>1, NoEvents, NoKeyDist DEF SoundCall, Nothing

\* Sending the beacon that is due, or failing to, is sound.
LEMMA SendBeaconSound ==
    ASSUME NEW n \in Node, NEW c, NEW N, NEW f \in Nat, NEW S, NEW t \in Int,
           NEW ok \in BOOLEAN,
           CoordinatorInv(n, c, N, f, S), c.state = "LeaderBeacon", c.team \in Team
    PROVE  SoundCall(n, c, SendBeacon(n, c, t, ok), N, f, S)
<1>. DEFINE r == SendBeacon(n, c, t, ok)
            p == [type |-> "Beacon", src |-> n, dst |-> Broadcast, team |-> c.team,
                  key |-> c.key, leader |-> c.leader, name |-> c.name]
            d == [c EXCEPT !.lastBeacon = t]
<1>0. c \in Coordinators /\ c.role = "Leader" /\ c.leader = n
  BY DEF CoordinatorInv, RoleFitsState, LeadsOpened
<1>1. CASE ~ok
  BY <1>1, NothingSound DEF SendBeacon
<1>2. CASE ok
  <2>1. r.co = d /\ r.tx = {p} /\ r.ev = << >>
    BY <1>2 DEF SendBeacon
  <2>2. p \in Packets /\ p.src = n /\ PacketInv(p, N, f, S)
    BY <1>0, CoordinatorFields DEF Packets, Beacons, PacketInv
  <2>3. SameBut(c, d) /\ d.state = c.state
    BY <1>0 DEF Coordinators, SameBut
  <2>4. CoordinatorInv(n, d, N \cup {p}, f, S)
    BY <1>0, <2>3 DEF CoordinatorInv, RoleFitsState, LeadsOpened, AwaitsItsLeader,
                      NonceIsForLeader, Awaiting, SameBut
  <2>. QED
    BY <2>1, <2>2, <2>3, <2>4, NoEvents, NoKeyDist DEF SameBut, SoundCall
<1>. QED
  BY <1>1, <1>2

\* Sending a join, for the first time or again, is sound for a member that
\* awaits its leader and has not used up its retries.
LEMMA SendJoinSound ==
    ASSUME NEW n \in Node, NEW c, NEW N, NEW f \in Nat, NEW S, NEW t \in Int,
           NEW ok \in BOOLEAN,
           CoordinatorInv(n, c, N, f, S), c.state \in Awaiting, c.role = "Member",
           c.attempts < JoinRetryMax
    PROVE  SoundCall(n, c, SendJoin(n, c, t, ok), N, f, S)
<1>. DEFINE r == SendJoin(n, c, t, ok)
<1>0. c \in Coordinators /\ c.team \in Team /\ c.nonce < f
  BY DEF CoordinatorInv, AwaitsItsLeader, NonceIsForLeader
<1>1. /\ SameBut(c, r.co) /\ r.co.state = c.state
      /\ \A m \in r.tx : /\ m \in Joins /\ m.type = "Join" /\ m.src = n
                         /\ m.nonce = c.nonce /\ m.dst = c.mac
      /\ r.ev = << >>
  BY <1>0, SendJoinFields
<1>2. CoordinatorInv(n, r.co, N \cup r.tx, f, S)
  <2>1. NonceIsForLeader(n, r.co, N \cup r.tx, f)
    BY <1>1 DEF CoordinatorInv, NonceIsForLeader, SameBut
  <2>. QED
    BY <1>1, <2>1 DEF CoordinatorInv, RoleFitsState, LeadsOpened, AwaitsItsLeader, SameBut
<1>3. \A m \in r.tx : m \in Packets /\ m.src = n /\ PacketInv(m, N, f, S)
  BY <1>0, <1>1 DEF Packets, PacketInv
<1>. QED
  BY <1>1, <1>2, <1>3, NoEvents, NoKeyDist DEF SameBut, SoundCall

\* Passing from JoinSent to WaitingKey.
LEMMA HeldInv ==
    ASSUME NEW n \in Node, NEW c, NEW N, NEW f, NEW S, NEW t \in Int,
           CoordinatorInv(n, c, N, f, S)
    PROVE  CoordinatorInv(n, Held(c, t), N, f, S)
<1>. DEFINE d == [c EXCEPT !.state = "WaitingKey"]
<1>0. c \in Coordinators
  BY DEF CoordinatorInv
<1>1. CASE ~HoldOver(c, t)
  BY <1>1 DEF Held
<1>2. CASE HoldOver(c, t)
  <2>1. Held(c, t) = d /\ c.state = "JoinSent"
    BY <1>2 DEF Held, HoldOver
  <2>2. SameBut(c, d) /\ d.state = "WaitingKey"
    BY <1>0 DEF SameBut, Coordinators, RestingStates
  <2>3. CoordinatorInv(n, d, N, f, S)
    BY <1>0, <2>1, <2>2 DEF CoordinatorInv, RoleFitsState, LeadsOpened, AwaitsItsLeader,
                            NonceIsForLeader, Awaiting, SameBut
  <2>. QED
    BY <2>1, <2>3
<1>. QED
  BY <1>1, <1>2

\* Holding JoinSent over into WaitingKey changes the state and nothing else.
LEMMA HeldFields ==
    ASSUME NEW c \in Coordinators, NEW t
    PROVE  /\ Held(c, t).role = c.role
           /\ OnlyStates(HeldEvents(c, t))
<1>1. Held(c, t).role = c.role
  BY DEF Held, Coordinators
<1>2. StateEvent(Held(c, t), NoNode).kind = "State"
  BY DEF StateEvent
<1>3. OnlyStates(HeldEvents(c, t))
  BY <1>2, OneState, NoEvents DEF HeldEvents
<1>. QED
  BY <1>1, <1>3

\* A turn of the coordinator is sound, and changes nothing at rest.
LEMMA UpdateSound ==
    ASSUME NEW n \in Node, NEW c, NEW N, NEW f \in Nat, NEW S \in SUBSET Sessions,
           NEW t \in Int, NEW ok \in BOOLEAN,
           CoordinatorInv(n, c, N, f, S)
    PROVE  /\ SoundCall(n, c, Update(n, c, t, ok), N, f, S)
           /\ c.state = "Idle" => Update(n, c, t, ok) = Nothing(c)
<1>. DEFINE b == Update(n, c, t, ok)
<1>0. c \in Coordinators
  BY DEF CoordinatorInv
<1>1. CASE c.state = "Idle"
  <2>1. b = Nothing(c)
    BY <1>1 DEF Update, Held, HeldEvents, HoldOver, Nothing
  <2>. QED
    BY <2>1, NothingSound
<1>2. CASE c.state # "Idle" /\ Expired(c, t)
  <2>. DEFINE h == Held(c, t)
              failed == StateEvent([h EXCEPT !.state = "Failed"], NoNode)
              stopped == StateEvent(Stopped(h), NoNode)
  <2>1. b.co = Stopped(h) /\ b.tx = {} /\ b.ev = HeldEvents(c, t) \o << failed, stopped >>
    BY <1>2 DEF Update, Failure
  <2>2. h \in Coordinators
    BY HeldInv DEF CoordinatorInv
  <2>3. failed.kind = "State" /\ stopped.kind = "State"
    BY DEF StateEvent
  <2>4. KeyDistsIn(b.ev) = {}
    <3>. HIDE DEF failed, stopped
    <3>1. OnlyStates(<< failed, stopped >>)
      BY <2>3, TwoStates
    <3>2. OnlyStates(HeldEvents(c, t) \o << failed, stopped >>)
      BY <1>0, <3>1, HeldFields, ConcatStates
    <3>. QED
      BY <2>1, <3>2, NoKeyDist
  <2>. QED
    BY <1>2, <2>1, <2>2, <2>4, StoppedInv DEF SoundCall
<1>3. CASE c.state # "Idle" /\ ~Expired(c, t) /\ BeaconDue(c, t)
  <2>1. b = SendBeacon(n, c, t, ok)
    BY <1>3 DEF Update, BeaconDue, RetryDue
  <2>2. c.state = "LeaderBeacon"
    BY <1>3 DEF BeaconDue
  <2>3. c.team \in Team
    BY <2>2 DEF CoordinatorInv, RoleFitsState, LeadsOpened, Sessions
  <2>. QED
    BY <1>3, <2>1, <2>2, <2>3, SendBeaconSound
<1>4. CASE c.state # "Idle" /\ ~Expired(c, t) /\ ~BeaconDue(c, t) /\ RetryDue(c, t)
  <2>1. b = SendJoin(n, c, t, ok)
    BY <1>4 DEF Update
  <2>2. c.state = "WaitingKey" /\ c.attempts < JoinRetryMax
    BY <1>4 DEF RetryDue
  <2>3. c.role = "Member" /\ c.state \in Awaiting
    BY <1>0, <2>2, CoordinatorFields DEF CoordinatorInv, RoleFitsState, Roles, Awaiting
  <2>. QED
    BY <1>4, <2>1, <2>2, <2>3, SendJoinSound
<1>5. CASE c.state # "Idle" /\ ~Expired(c, t) /\ ~BeaconDue(c, t) /\ ~RetryDue(c, t)
  <2>1. b.co = Held(c, t) /\ b.tx = {} /\ b.ev = HeldEvents(c, t)
    BY <1>5 DEF Update
  <2>2. CoordinatorInv(n, Held(c, t), N \cup {}, f, S)
    <3>1. N \cup {} = N
      OBVIOUS
    <3>. QED
      BY <3>1, HeldInv
  <2>3. KeyDistsIn(HeldEvents(c, t)) = {} /\ Held(c, t).role = c.role
    BY <1>0, HeldFields, NoKeyDist
  <2>. QED
    BY <1>5, <2>1, <2>2, <2>3 DEF SoundCall
<1>. QED
  BY <1>1, <1>2, <1>3, <1>4, <1>5

-----------------------------------------------------------------------------
(* handleIncomingPacket() of the coordinator.                               *)

\* A packet that the radio may deliver to n.
Deliverable(n, m, N) == m \in N /\ m.src # n /\ m.dst \in {n, Broadcast}

\* A member that hears a beacon answers it under a number no packet carries yet.
LEMMA HandleBeaconSound ==
    ASSUME NEW n \in Node, NEW c, NEW N \in SUBSET Packets, NEW f \in Nat, NEW S,
           NEW t \in Int, NEW ok \in BOOLEAN, NEW m, Deliverable(n, m, N),
           CoordinatorInv(n, c, N, f, S), AcceptsBeacon(c), m.type = "Beacon",
           \A p \in N : p.src = n => PacketInv(p, N, f, S),
           m.leader = m.src
    PROVE  SoundCall(n, c, HandleBeacon(n, c, m, f, t, ok), N, f + 1, S)
<1>. DEFINE h == Heard(c, m, f)
            sent == SendJoin(n, h, t, ok)
            d == [sent.co EXCEPT !.joinSent = t, !.state = "JoinSent"]
            r == HandleBeacon(n, c, m, f, t, ok)
<1>1. m \in Packets /\ m \in N /\ m.src # n
  BY DEF Deliverable
<1>2. /\ m.src \in Node /\ m.team \in Team /\ m.key \in Nat /\ m.leader \in Node
      /\ m.name \in Name \cup {NoName}
  BY <1>1, PacketFields
<1>3. c \in Coordinators /\ c.role = "Member"
  BY DEF CoordinatorInv, AcceptsBeacon
<1>4. /\ h \in Coordinators /\ h.role = "Member" /\ h.mac = m.src /\ h.leader = m.src
      /\ h.team \in Team /\ h.nonce = f /\ h.attempts = 0
  <2>. DEFINE name == IF m.name = NoName THEN c.name ELSE m.name
  <2>1. name \in Name \cup {NoName}
    BY <1>2, <1>3, CoordinatorFields
  <2>2. h = [c EXCEPT !.team = m.team, !.key = m.key, !.leader = m.leader,
                      !.name = name, !.mac = m.src, !.nonce = f, !.attempts = 0]
    BY <1>3, CoordinatorFields DEF Heard
  <2>3. 0 \in 0 .. JoinRetryMax
    BY TimingAssumption
  <2>. HIDE DEF name
  <2>. QED
    BY <1>2, <1>3, <2>1, <2>2, <2>3 DEF Coordinators
<1>5. /\ SameBut(h, sent.co)
      /\ \A j \in sent.tx : /\ j \in Joins /\ j.type = "Join" /\ j.src = n
                            /\ j.nonce = f /\ j.dst = m.src
  <2>1. h.attempts < JoinRetryMax
    BY <1>4, TimingAssumption
  <2>. HIDE DEF h
  <2>2. /\ SameBut(h, sent.co)
        /\ \A j \in sent.tx : /\ j \in Joins /\ j.type = "Join" /\ j.src = n
                              /\ j.nonce = h.nonce /\ j.dst = h.mac
    BY <1>4, <2>1, SendJoinFields
  <2>. QED
    BY <1>4, <2>2
<1>6. SameBut(sent.co, d) /\ d.state = "JoinSent"
  <2>1. sent.co \in Coordinators
    BY <1>5 DEF SameBut
  <2>. HIDE DEF sent
  <2>. QED
    BY <2>1 DEF SameBut, Coordinators, RestingStates
<1>7. /\ d \in Coordinators /\ d.role = "Member" /\ d.state = "JoinSent"
      /\ d.mac = m.src /\ d.leader = m.src /\ d.team \in Team /\ d.nonce = f
  BY <1>4, <1>5, <1>6 DEF SameBut
<1>8. r.co = d /\ r.tx = sent.tx /\ r.ev = << StateEvent(d, NoNode) >>
  BY DEF HandleBeacon
<1>. HIDE DEF d, sent, h, r
<1>9. NonceIsForLeader(n, d, N \cup sent.tx, f + 1)
  <2>1. ASSUME NEW j \in N \cup sent.tx, j.type = "Join", j.src = n, j.nonce = f
        PROVE  j.dst = m.src
    <3>1. CASE j \in N
      <4>1. j.nonce < f
        BY <2>1, <3>1 DEF PacketInv
      <4>. QED
        BY <4>1, <2>1
    <3>. QED
      BY <1>5, <3>1
  <2>. QED
    BY <2>1, <1>7 DEF NonceIsForLeader, Awaiting
<1>10. CoordinatorInv(n, d, N \cup sent.tx, f + 1, S)
  BY <1>1, <1>2, <1>7, <1>9 DEF CoordinatorInv, RoleFitsState, LeadsOpened,
                                AwaitsItsLeader, Awaiting
<1>11. \A j \in sent.tx : j \in Packets /\ j.src = n /\ PacketInv(j, N, f + 1, S)
  BY <1>5 DEF Packets, PacketInv
<1>12. KeyDistsIn(r.ev) = {}
  <2>1. StateEvent(d, NoNode).kind = "State"
    BY DEF StateEvent
  <2>. QED
    BY <1>8, <2>1, OneState, NoKeyDist
<1>. QED
  BY <1>3, <1>7, <1>8, <1>10, <1>11, <1>12 DEF SoundCall, r

\* A leader answers a join with the key of the session it opened.
LEMMA HandleJoinSound ==
    ASSUME NEW n \in Node, NEW c, NEW N \in SUBSET Packets, NEW f \in Nat,
           NEW S \in SUBSET Sessions, NEW ok \in BOOLEAN, NEW m, Deliverable(n, m, N),
           CoordinatorInv(n, c, N, f, S), m.type = "Join"
    PROVE  SoundCall(n, c, HandleJoin(n, c, m, ok), N, f, S)
<1>. DEFINE p == KeyFor(n, c, m)
            r == HandleJoin(n, c, m, ok)
<1>1. CASE ~(AcceptsJoin(c, m) /\ c.psk # NoPsk /\ ok)
  BY <1>1, NothingSound DEF HandleJoin
<1>2. CASE AcceptsJoin(c, m) /\ c.psk # NoPsk /\ ok
  <2>1. m \in N /\ m.src \in Node /\ m.dst = n /\ m.nonce \in Nat
    <3>1. m \in Packets /\ m.dst \in {n, Broadcast}
      BY DEF Deliverable
    <3>2. m.dst \in Node /\ m.src \in Node /\ m.nonce \in Nat
      BY <3>1, PacketFields
    <3>. QED
      BY <3>1, <3>2, NullAssumption DEF Deliverable
  <2>2. /\ c \in Coordinators
        /\ \E s \in S : s.node = n /\ s.team = c.team /\ s.key = c.key /\ s.psk = c.psk
    BY <1>2 DEF CoordinatorInv, LeadsOpened, AcceptsJoin
  <2>3. c.team \in Team /\ c.key \in Nat /\ c.psk \in Psk
    BY <2>2 DEF Sessions
  <2>4. /\ p \in Packets /\ p.type = "Key" /\ p.src = n /\ p.dst = m.src
        /\ p.nonce = m.nonce /\ p.team = c.team /\ p.key = c.key /\ p.psk = c.psk
    BY <2>1, <2>3 DEF KeyFor, Packets, Keys
  <2>5. r.co = c /\ r.tx = {p} /\ r.ev = << StateEvent(c, m.src) >>
    BY <1>2 DEF HandleJoin
  <2>. HIDE DEF p, r
  <2>6. PacketInv(p, N, f, S)
    BY <2>1, <2>2, <2>4 DEF PacketInv
  <2>7. CoordinatorInv(n, c, N \cup {p}, f, S)
    <3>1. NonceIsForLeader(n, c, N \cup {p}, f)
      BY <2>4 DEF CoordinatorInv, NonceIsForLeader
    <3>. QED
      BY <3>1 DEF CoordinatorInv
  <2>8. KeyDistsIn(r.ev) = {}
    <3>1. StateEvent(c, m.src).kind = "State"
      BY DEF StateEvent
    <3>. QED
      BY <2>5, <3>1, OneState, NoKeyDist
  <2>. QED
    BY <2>4, <2>5, <2>6, <2>7, <2>8 DEF SoundCall, r
<1>. QED
  BY <1>1, <1>2

\* handleKey publishes exactly one key distribution.
LEMMA OneKeyDist ==
    ASSUME NEW k, NEW d, NEW e, k.kind = "KeyDist", d.kind = "State", e.kind = "State"
    PROVE  KeyDistsIn(<< k, d, e >>) = {k}
<1>. DEFINE ev == << k, d, e >>
<1>1. DOMAIN ev = {1, 2, 3} /\ ev[1] = k /\ ev[2] = d /\ ev[3] = e
  OBVIOUS
<1>. HIDE DEF ev
<1>2. {j \in DOMAIN ev : ev[j].kind = "KeyDist"} = {1}
  BY <1>1
<1>3. KeyDistsIn(ev) = {k}
  BY <1>1, <1>2 DEF KeyDistsIn
<1>. QED
  BY <1>3 DEF ev

\* What the call guarantees that accepts a key: the member is handed one key,
\* that of a session of another device, and is at rest with it.
AdmittingCall(n, c, r, N, f, S) ==
    /\ CoordinatorInv(n, r.co, N, f, S)
    /\ c.role = "Member" /\ r.co.role = "None" /\ r.co.state = "Idle"
    /\ r.tx = {}
    /\ \E s \in S : s.node # n /\ KeyDistsIn(r.ev) = {Promise!Grant(s)}

\* A key that a member accepts answers a join of its own under its current
\* nonce, which only its leader was sent: it comes from a session that leader
\* opened, and ends the member's.
LEMMA HandleKeyAdmits ==
    ASSUME NEW n \in Node, NEW c, NEW N \in SUBSET Packets, NEW f, NEW g,
           NEW S \in SUBSET Sessions, NEW m, Deliverable(n, m, N),
           CoordinatorInv(n, c, N, f, S), PacketInv(m, N, g, S),
           m.type = "Key", AcceptsKey(c, m)
    PROVE  AdmittingCall(n, c, HandleKey(c, m), N, f, S)
<1>. DEFINE d == Keyed(c, m)
            r == HandleKey(c, m)
            done == StateEvent([d EXCEPT !.state = "Completed"], c.leader)
            rest == StateEvent(Stopped(d), NoNode)
<1>1. m \in Packets /\ m \in N /\ m.src # n
  BY DEF Deliverable
<1>2. /\ m.src \in Node /\ m.dst = n /\ m.key \in Nat /\ m.psk \in Psk
  BY <1>1, PacketFields, NullAssumption DEF Deliverable
<1>3. /\ c \in Coordinators /\ c.role = "Member" /\ c.state \in Awaiting
      /\ m.team = c.team /\ m.nonce = c.nonce
  BY DEF CoordinatorInv, AcceptsKey, Awaiting
<1>4. PICK j \in N : j.type = "Join" /\ j.src = n /\ j.dst = m.src /\ j.nonce = m.nonce
  BY <1>2 DEF PacketInv
<1>5. m.src = c.leader
  <2>1. j.dst = c.mac
    BY <1>3, <1>4 DEF CoordinatorInv, NonceIsForLeader
  <2>. QED
    BY <1>3, <1>4, <2>1 DEF CoordinatorInv, AwaitsItsLeader
<1>6. PICK s \in S : s.node = c.leader /\ s.team = c.team /\ s.key = m.key /\ s.psk = m.psk
  BY <1>3, <1>5 DEF PacketInv
<1>7. d \in Coordinators /\ d.key = m.key /\ d.psk = m.psk
  BY <1>2, <1>3 DEF Keyed, Coordinators
<1>8. KeyDistOf(c, m) = Promise!Grant(s) /\ Promise!Grant(s).kind = "KeyDist"
  BY <1>6, <1>7 DEF KeyDistOf, Promise!Grant
<1>9. r.co = Stopped(d) /\ r.tx = {} /\ r.ev = << KeyDistOf(c, m), done, rest >>
  BY DEF HandleKey
<1>10. done.kind = "State" /\ rest.kind = "State"
  BY DEF StateEvent
<1>11. KeyDistsIn(r.ev) = {Promise!Grant(s)}
  <2>. HIDE DEF done, rest, r
  <2>. QED
    BY <1>8, <1>9, <1>10, OneKeyDist
<1>12. /\ CoordinatorInv(n, Stopped(d), N, f, S)
       /\ Stopped(d).role = "None" /\ Stopped(d).state = "Idle"
  BY <1>7, StoppedInv
<1>13. s.node # n
  BY <1>1, <1>5, <1>6
<1>. HIDE DEF r, d
<1>14. \E z \in S : z.node # n /\ KeyDistsIn(r.ev) = {Promise!Grant(z)}
  BY <1>11, <1>13
<1>. QED
  BY <1>3, <1>9, <1>12, <1>14 DEF r, AdmittingCall
=============================================================================
