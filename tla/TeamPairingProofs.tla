------------------------- MODULE TeamPairingProofs -------------------------
(***************************************************************************)
(* What TeamPairing guarantees for every set of devices, every timing and  *)
(* every bound: the inductive invariant IInv, and from it that a paired    *)
(* device holds the key of a session its leader opened, that the handshake *)
(* implements PairingPromise, and that every session ends in time.         *)
(*                                                                         *)
(* One update() of the service is HandlePacket followed by Update on the   *)
(* same coordinator, so the argument goes through the lemmas about single  *)
(* calls in PairingCoordinatorProofs.                                      *)
(***************************************************************************)
EXTENDS PairingCoordinatorProofs

-----------------------------------------------------------------------------
(* A turn of the service: the buffered packet, then the coordinator's own   *)
(* update().                                                                *)

\* The random numbers device n has drawn once it has handled its packet.
DrawnAfter(n) == IF Rejoins(n) THEN fresh[n] + 1 ELSE fresh[n]

\* A packet stays sound as more packets are sent, more numbers are drawn and
\* more sessions are opened.
LEMMA PacketInvMonotone ==
    ASSUME NEW m \in Packets, NEW N, NEW M, NEW f \in Nat, NEW g \in Nat, NEW S, NEW T,
           PacketInv(m, N, f, S), N \subseteq M, f <= g, S \subseteq T
    PROVE  PacketInv(m, M, g, T)
<1>1. m.type = "Join" => m.nonce \in Nat
  BY PacketFields
<1>. QED
  BY <1>1 DEF PacketInv

\* The first half of update(), the buffered packet, is sound.
LEMMA HandledSound ==
    ASSUME IInv, NEW n \in Node, NEW ok \in BOOLEAN
    PROVE  \/ SoundCall(n, co[n], Handled(n, ok), net, DrawnAfter(n), opened)
           \/ AdmittingCall(n, co[n], Handled(n, ok), net, DrawnAfter(n), opened)
<1>. DEFINE m == slot[n]
            c == co[n]
            f == fresh[n]
<1>1. /\ CoordinatorInv(n, c, net, f, opened)
      /\ net \in SUBSET Packets /\ opened \in SUBSET Sessions /\ f \in Nat
      /\ now \in Int
  BY DEF IInv, TypeOK
<1>2. CASE m = NoPacket
  BY <1>1, <1>2, NothingSound DEF Handled, DrawnAfter, Rejoins
<1>3. CASE m # NoPacket
  <2>1. Deliverable(n, m, net) /\ m \in Packets
    BY <1>1, <1>3 DEF IInv, BufferInv, Deliverable
  <2>2. PacketInv(m, net, fresh[m.src], opened)
    BY <2>1 DEF IInv, Deliverable
  <2>3. Handled(n, ok) = HandlePacket(n, c, m, f, now, ok)
    BY <1>3 DEF Handled
  <2>4. CASE m.type = "Beacon" /\ AcceptsBeacon(c)
    <3>1. m.leader = m.src
      BY <2>2, <2>4 DEF PacketInv
    <3>2. \A p \in net : p.src = n => PacketInv(p, net, f, opened)
      BY DEF IInv
    <3>3. DrawnAfter(n) = f + 1
      BY <1>3, <2>4 DEF DrawnAfter, Rejoins
    <3>4. SoundCall(n, c, HandleBeacon(n, c, m, f, now, ok), net, f + 1, opened)
      BY <1>1, <2>1, <2>4, <3>1, <3>2, HandleBeaconSound
    <3>5. Handled(n, ok) = HandleBeacon(n, c, m, f, now, ok)
      BY <2>3, <2>4 DEF HandlePacket
    <3>. QED
      BY <3>3, <3>4, <3>5
  <2>5. CASE ~(m.type = "Beacon" /\ AcceptsBeacon(c))
    <3>1. DrawnAfter(n) = f
      BY <2>5 DEF DrawnAfter, Rejoins
    <3>2. CASE m.type = "Beacon"
      <4>1. Handled(n, ok) = Nothing(c)
        BY <2>3, <2>5, <3>2 DEF HandlePacket, HandleBeacon
      <4>. QED
        BY <1>1, <3>1, <4>1, NothingSound
    <3>3. CASE m.type = "Join"
      <4>1. Handled(n, ok) = HandleJoin(n, c, m, ok)
        BY <2>3, <3>3 DEF HandlePacket
      <4>2. SoundCall(n, c, HandleJoin(n, c, m, ok), net, f, opened)
        BY <1>1, <2>1, <3>3, HandleJoinSound
      <4>. QED
        BY <3>1, <4>1, <4>2
    <3>4. CASE m.type = "Key"
      <4>1. Handled(n, ok) = HandleKey(c, m)
        BY <2>3, <3>4 DEF HandlePacket
      <4>2. CASE AcceptsKey(c, m)
        <5>1. AdmittingCall(n, c, HandleKey(c, m), net, f, opened)
          BY <1>1, <2>1, <2>2, <3>4, <4>2, HandleKeyAdmits
        <5>. QED
          BY <3>1, <4>1, <5>1
      <4>3. CASE ~AcceptsKey(c, m)
        <5>1. HandleKey(c, m) = Nothing(c)
          BY <4>3 DEF HandleKey
        <5>. QED
          BY <1>1, <3>1, <4>1, <5>1, NothingSound
      <4>. QED
        BY <4>2, <4>3
    <3>. QED
      BY <2>1, <3>2, <3>3, <3>4, PacketFields
  <2>. QED
    BY <2>4, <2>5
<1>. QED
  BY <1>2, <1>3

\* What a whole turn of device n guarantees: c are its coordinator's fields
\* after it, X the packets it sent, D the key distributions it published.
SoundTurn(n, c, X, D) ==
    /\ CoordinatorInv(n, c, net \cup X, DrawnAfter(n), opened)
    /\ \A m \in X : /\ m \in Packets /\ m.src = n
                    /\ PacketInv(m, net \cup X, DrawnAfter(n), opened)
    /\ \/ D = {} /\ c.role \in {co[n].role, "None"}
       \/ /\ co[n].role = "Member" /\ c.role = "None"
          /\ \E s \in opened : s.node # n /\ D = {Promise!Grant(s)}

\* The whole of update() in one turn, packet and timers, is sound.
LEMMA TurnSound ==
    ASSUME IInv, NEW n \in Node, NEW okPacket \in BOOLEAN, NEW okTurn \in BOOLEAN
    PROVE  LET a == Handled(n, okPacket)
               b == Update(n, a.co, now, okTurn)
           IN  SoundTurn(n, b.co, a.tx \cup b.tx, KeyDistsIn(a.ev) \cup KeyDistsIn(b.ev))
<1>. DEFINE a == Handled(n, okPacket)
            b == Update(n, a.co, now, okTurn)
            f == DrawnAfter(n)
            X == a.tx \cup b.tx
            D == KeyDistsIn(a.ev) \cup KeyDistsIn(b.ev)
<1>. SUFFICES SoundTurn(n, b.co, X, D)
  OBVIOUS
<1>1. /\ net \in SUBSET Packets /\ opened \in SUBSET Sessions /\ f \in Nat /\ now \in Int
  BY DEF IInv, TypeOK, DrawnAfter
<1>2. \/ SoundCall(n, co[n], a, net, f, opened)
      \/ AdmittingCall(n, co[n], a, net, f, opened)
  BY HandledSound
<1>. HIDE DEF a, f
<1>3. CASE SoundCall(n, co[n], a, net, f, opened)
  <2>1. /\ CoordinatorInv(n, a.co, net \cup a.tx, f, opened)
        /\ \A m \in a.tx : m \in Packets /\ m.src = n /\ PacketInv(m, net, f, opened)
        /\ KeyDistsIn(a.ev) = {} /\ a.co.role \in {co[n].role, "None"}
    BY <1>3 DEF SoundCall
  <2>2. SoundCall(n, a.co, b, net \cup a.tx, f, opened)
    BY <1>1, <2>1, UpdateSound
  <2>. HIDE DEF b
  <2>3. /\ CoordinatorInv(n, b.co, (net \cup a.tx) \cup b.tx, f, opened)
        /\ \A m \in b.tx : /\ m \in Packets /\ m.src = n
                           /\ PacketInv(m, net \cup a.tx, f, opened)
        /\ KeyDistsIn(b.ev) = {} /\ b.co.role \in {a.co.role, "None"}
    BY <2>2 DEF SoundCall
  <2>4. (net \cup a.tx) \cup b.tx = net \cup X
    OBVIOUS
  <2>5. \A m \in X : /\ m \in Packets /\ m.src = n /\ PacketInv(m, net \cup X, f, opened)
    <3>1. ASSUME NEW m \in a.tx PROVE PacketInv(m, net \cup X, f, opened)
      BY <1>1, <2>1, PacketInvMonotone
    <3>2. ASSUME NEW m \in b.tx PROVE PacketInv(m, net \cup X, f, opened)
      BY <1>1, <2>3, PacketInvMonotone
    <3>. QED
      BY <2>1, <2>3, <3>1, <3>2
  <2>6. D = {} /\ b.co.role \in {co[n].role, "None"}
    BY <2>1, <2>3
  <2>. HIDE DEF X, D
  <2>. QED
    BY <2>3, <2>4, <2>5, <2>6 DEF SoundTurn, f
<1>4. CASE AdmittingCall(n, co[n], a, net, f, opened)
  <2>1. /\ CoordinatorInv(n, a.co, net, f, opened)
        /\ a.co.role = "None" /\ a.co.state = "Idle" /\ a.tx = {}
    BY <1>4 DEF AdmittingCall
  <2>2. b = Nothing(a.co)
    BY <1>1, <2>1, UpdateSound
  <2>3. b.co = a.co /\ X = {} /\ KeyDistsIn(b.ev) = {}
    BY <2>1, <2>2, NoEvents, NoKeyDist DEF Nothing
  <2>. HIDE DEF b, X
  <2>4. CoordinatorInv(n, b.co, net \cup X, f, opened)
    <3>1. net \cup X = net
      BY <2>3
    <3>. QED
      BY <2>1, <2>3, <3>1
  <2>5. /\ co[n].role = "Member" /\ b.co.role = "None"
        /\ \E s \in opened : s.node # n /\ D = {Promise!Grant(s)}
    BY <1>4, <2>1, <2>3 DEF AdmittingCall
  <2>. HIDE DEF D
  <2>. QED
    BY <2>3, <2>4, <2>5 DEF SoundTurn, f
<1>. QED
  BY <1>2, <1>3, <1>4

-----------------------------------------------------------------------------
(* The inductive invariant.                                                 *)

\* Every action but Tick and Receive is a step of one device n: its coordinator
\* becomes d, it sends X, is handed D, and has drawn g random numbers.
DeviceStep(n, d, X, D, g) ==
    /\ now' = now
    /\ co' = [co EXCEPT ![n] = d]
    /\ ready' = [ready EXCEPT ![n] = d.state # "Idle"]
    /\ slot' = slot \/ slot' = [slot EXCEPT ![n] = NoPacket]
    /\ d.state = "Idle" => slot'[n] = NoPacket
    /\ net' = net \cup X
    /\ fresh' = [fresh EXCEPT ![n] = g]
    /\ opened \subseteq opened' /\ opened' \subseteq Offers
    /\ adopted' = [adopted EXCEPT ![n] = @ \cup D]
    /\ known' \in [Node -> SUBSET Sessions]

\* Such a step keeps the invariant if d, X and D are sound: no packet of n says
\* anything of another device's nonce.
LEMMA DeviceStepInv ==
    ASSUME IInv, NEW n \in Node, NEW d, NEW X, NEW D, NEW g \in Nat,
           DeviceStep(n, d, X, D, g), fresh[n] <= g,
           CoordinatorInv(n, d, net', g, opened'),
           \A m \in X : m \in Packets /\ m.src = n /\ PacketInv(m, net', g, opened'),
           \A e \in D : \E s \in opened' : s.node # n /\ e = Promise!Grant(s)
    PROVE  IInv'
<1>. USE DEF DeviceStep
<1>1. TypeOK /\ opened' \in SUBSET Sessions /\ opened \subseteq opened'
  BY OffersAssumption DEF IInv
<1>2. (\A k \in Node : AdoptionInv(k))'
  <2>1. ASSUME NEW k \in Node, NEW e \in adopted'[k]
        PROVE  \E s \in opened' : s.node # k /\ e = Promise!Grant(s)
    <3>1. CASE e \in adopted[k]
      BY <1>1, <3>1 DEF IInv, AdoptionInv
    <3>2. CASE e \notin adopted[k]
      <4>1. k = n /\ e \in D
        BY <1>1, <2>1, <3>2 DEF TypeOK
      <4>. QED
        BY <4>1
    <3>. QED
      BY <3>1, <3>2
  <2>. QED
    BY <2>1 DEF AdoptionInv, Promise!Grant
<1>3. TypeOK'
  <2>1. co' \in [Node -> Coordinators]
    BY <1>1 DEF TypeOK, CoordinatorInv
  <2>2. ready' \in [Node -> BOOLEAN]
    BY <1>1 DEF TypeOK
  <2>3. slot' \in [Node -> Packets \cup {NoPacket}]
    BY <1>1 DEF TypeOK
  <2>4. net' \in SUBSET Packets /\ fresh' \in [Node -> Nat] /\ now' \in Int
    BY <1>1 DEF TypeOK
  <2>5. adopted' \in [Node -> SUBSET KeyDists]
    <3>1. ASSUME NEW e \in D PROVE e \in KeyDists
      <4>1. PICK s \in opened' : e = Promise!Grant(s)
        OBVIOUS
      <4>. QED
        BY <1>1, <4>1 DEF Promise!Grant, KeyDists, Sessions
    <3>. QED
      BY <1>1, <3>1 DEF TypeOK
  <2>. QED
    BY <1>1, <2>1, <2>2, <2>3, <2>4, <2>5 DEF TypeOK
<1>4. (\A k \in Node : CoordinatorInv(k, co[k], net, fresh[k], opened))'
  <2>1. ASSUME NEW k \in Node
        PROVE  CoordinatorInv(k, co'[k], net', fresh'[k], opened')
    <3>1. CASE k = n
      BY <1>1, <3>1 DEF TypeOK
    <3>2. CASE k # n
      <4>1. co'[k] = co[k] /\ fresh'[k] = fresh[k]
        BY <1>1, <3>2 DEF TypeOK
      <4>2. CoordinatorInv(k, co[k], net, fresh[k], opened)
        BY DEF IInv
      <4>3. NonceIsForLeader(k, co[k], net', fresh[k])
        BY <3>2, <4>2 DEF CoordinatorInv, NonceIsForLeader
      <4>. QED
        BY <1>1, <4>1, <4>2, <4>3 DEF CoordinatorInv, LeadsOpened
    <3>. QED
      BY <3>1, <3>2
  <2>. QED
    BY <2>1
<1>5. (\A m \in net : PacketInv(m, net, fresh[m.src], opened))'
  <2>1. ASSUME NEW m \in net' PROVE PacketInv(m, net', fresh'[m.src], opened')
    <3>1. CASE m \in net
      <4>1. m \in Packets /\ m.src \in Node
        BY <1>1, <3>1, PacketFields DEF TypeOK
      <4>2. fresh[m.src] \in Nat /\ fresh'[m.src] \in Nat /\ fresh[m.src] <= fresh'[m.src]
        BY <1>1, <4>1 DEF TypeOK
      <4>3. PacketInv(m, net, fresh[m.src], opened)
        BY <3>1 DEF IInv
      <4>4. net \subseteq net'
        OBVIOUS
      <4>. QED
        BY <1>1, <4>1, <4>2, <4>3, <4>4, PacketInvMonotone
    <3>2. CASE m \notin net
      <4>1. m \in X /\ m.src = n /\ fresh'[n] = g
        BY <1>1, <3>2 DEF TypeOK
      <4>. QED
        BY <4>1
    <3>. QED
      BY <3>1, <3>2
  <2>. QED
    BY <2>1
<1>6. (\A k \in Node : BufferInv(k))'
  <2>1. ASSUME NEW k \in Node, slot'[k] # NoPacket
        PROVE  slot'[k] \in net' /\ slot'[k].src # k /\ slot'[k].dst \in {k, Broadcast}
    <3>1. slot'[k] = slot[k]
      BY <1>1, <2>1 DEF TypeOK
    <3>. QED
      BY <2>1, <3>1 DEF IInv, BufferInv
  <2>. QED
    BY <2>1 DEF BufferInv
<1>7. TransportFollowsSession'
  <2>1. ASSUME NEW k \in Node
        PROVE  (ready'[k] <=> co'[k].state # "Idle") /\ (~ready'[k] => slot'[k] = NoPacket)
    <3>1. CASE k = n
      BY <1>1, <3>1 DEF TypeOK
    <3>2. CASE k # n
      <4>1. co'[k] = co[k] /\ ready'[k] = ready[k] /\ slot'[k] = slot[k]
        BY <1>1, <3>2 DEF TypeOK
      <4>. QED
        BY <4>1 DEF IInv, TransportFollowsSession
    <3>. QED
      BY <3>1, <3>2
  <2>. QED
    BY <2>1 DEF TransportFollowsSession
<1>. QED
  BY <1>2, <1>3, <1>4, <1>5, <1>6, <1>7 DEF IInv

\* Devices that were just constructed satisfy the invariant.
LEMMA InitInv == Init => IInv
<1>. SUFFICES ASSUME Init PROVE IInv
  OBVIOUS
<1>1. Constructed \in Coordinators
  BY TimingAssumption DEF Constructed, Coordinators, Roles, RestingStates
<1>2. TypeOK
  BY <1>1 DEF Init, TypeOK
<1>3. \A n \in Node : CoordinatorInv(n, co[n], net, fresh[n], opened)
  BY <1>1 DEF Init, Constructed, CoordinatorInv, RoleFitsState, LeadsOpened,
              AwaitsItsLeader, NonceIsForLeader, Awaiting
<1>. QED
  BY <1>2, <1>3 DEF Init, IInv, BufferInv, AdoptionInv, TransportFollowsSession, Constructed

\* The coordinator after startLeader() and startMember().
LEMMA StartLeaderFields ==
    ASSUME NEW n \in Node, NEW c \in Coordinators, NEW o \in Sessions, NEW t \in Int
    PROVE  LET d == StartLeader(n, c, o, t).co
           IN  /\ d \in Coordinators /\ d.role = "Leader" /\ d.state = "LeaderBeacon"
               /\ d.leader = n /\ d.team = o.team /\ d.key = o.key /\ d.psk = o.psk
<1>1. LeaderWindow \in Int /\ 0 \in 0 .. JoinRetryMax
  BY TimingAssumption
<1>2. After(t, LeaderWindow) \in Int
  BY <1>1, AfterInt
<1>3. /\ o.team \in Team /\ o.key \in Nat /\ o.psk \in Psk /\ o.name \in Name \cup {NoName}
  BY DEF Sessions
<1>. DEFINE u == After(t, LeaderWindow)
            zero == 0
            d == [c EXCEPT !.role = "Leader", !.state = "LeaderBeacon",
                           !.team = o.team, !.key = o.key, !.leader = n,
                           !.name = o.name, !.psk = o.psk, !.until = u,
                           !.lastBeacon = zero, !.attempts = zero, !.joinSent = zero]
<1>4. StartLeader(n, c, o, t).co = d
  BY DEF StartLeader
<1>. HIDE DEF u, zero
<1>5. u \in Int /\ zero \in Nat /\ zero \in Int /\ zero \in 0 .. JoinRetryMax
  BY <1>1, <1>2 DEF u, zero
<1>6. /\ d \in Coordinators /\ d.role = "Leader" /\ d.state = "LeaderBeacon"
      /\ d.leader = n /\ d.team = o.team /\ d.key = o.key /\ d.psk = o.psk
  BY <1>1, <1>3, <1>5 DEF Coordinators, Roles, RestingStates
<1>. QED
  BY <1>4, <1>6

\* What startMember leaves in the fields the invariant speaks of.
LEMMA StartMemberFields ==
    ASSUME NEW c \in Coordinators, NEW x \in Nat, NEW t \in Int
    PROVE  LET d == StartMember(c, x, t).co
           IN  /\ d \in Coordinators /\ d.role = "Member"
               /\ d.state = "MemberScanning" /\ d.nonce = x
<1>1. MemberTimeout \in Int /\ 0 \in 0 .. JoinRetryMax
  BY TimingAssumption
<1>2. After(t, MemberTimeout) \in Int
  BY <1>1, AfterInt
<1>. DEFINE u == After(t, MemberTimeout)
            zero == 0
            d == [c EXCEPT !.role = "Member", !.state = "MemberScanning",
                           !.leader = NoNode, !.mac = NoNode, !.team = NoTeam,
                           !.key = zero, !.name = NoName, !.nonce = x, !.until = u,
                           !.lastJoin = zero, !.attempts = zero, !.joinSent = zero]
<1>3. StartMember(c, x, t).co = d
  BY DEF StartMember
<1>. HIDE DEF u, zero
<1>4. u \in Int /\ zero \in Nat /\ zero \in Int /\ zero \in 0 .. JoinRetryMax
  BY <1>1, <1>2 DEF u, zero
<1>5. /\ d \in Coordinators /\ d.role = "Member" /\ d.state = "MemberScanning"
      /\ d.nonce = x
  BY <1>1, <1>4 DEF Coordinators, Roles, RestingStates
<1>. QED
  BY <1>3, <1>5

\* The user's commands and a restart are steps of one device that send and
\* hand out nothing.
LEMMA OpenWindowStep ==
    ASSUME IInv, NEW n \in Node, OpenWindow(n)
    PROVE  IInv'
<1>1. PICK o \in Offers : /\ o.node = n
                          /\ co' = [co EXCEPT ![n] = StartLeader(n, co[n], o, now).co]
                          /\ opened' = opened \cup {o}
  BY DEF OpenWindow
<1>. DEFINE c == co[n]
            d == StartLeader(n, c, o, now).co
<1>2. c \in Coordinators /\ TypeOK /\ o \in Sessions /\ now \in Int
  BY OffersAssumption DEF IInv, TypeOK
<1>3. co' = [co EXCEPT ![n] = d]
  BY <1>1
<1>. HIDE DEF c, d
<1>4. /\ d \in Coordinators /\ d.role = "Leader" /\ d.state = "LeaderBeacon"
      /\ d.leader = n /\ d.team = o.team /\ d.key = o.key /\ d.psk = o.psk
  BY <1>2, StartLeaderFields DEF d
<1>5. CoordinatorInv(n, d, net', fresh[n], opened')
  BY <1>1, <1>4 DEF CoordinatorInv, RoleFitsState, LeadsOpened, AwaitsItsLeader,
                    NonceIsForLeader, Awaiting
<1>6. DeviceStep(n, d, {}, {}, fresh[n])
  <2>1. known' \in [Node -> SUBSET Sessions]
    BY <1>2 DEF OpenWindow, TypeOK
  <2>2. opened \subseteq opened' /\ opened' \subseteq Offers
    BY <1>1 DEF IInv
  <2>3. /\ net' = net \cup {} /\ fresh' = [fresh EXCEPT ![n] = fresh[n]]
        /\ adopted' = [adopted EXCEPT ![n] = @ \cup {}]
    BY <1>2 DEF OpenWindow, TypeOK
  <2>4. ready' = [ready EXCEPT ![n] = d.state # "Idle"]
    BY <1>4 DEF OpenWindow
  <2>5. now' = now /\ slot' = slot
    BY DEF OpenWindow
  <2>. QED
    BY <1>3, <1>4, <2>1, <2>2, <2>3, <2>4, <2>5 DEF DeviceStep
<1>. QED
  BY <1>2, <1>5, <1>6, DeviceStepInv DEF TypeOK

\* Asking to join preserves the invariant: the nonce is new to the air.
LEMMA AskToJoinStep ==
    ASSUME IInv, NEW n \in Node, AskToJoin(n)
    PROVE  IInv'
<1>. DEFINE c == co[n]
            f == fresh[n]
            d == StartMember(c, f, now).co
<1>1. c \in Coordinators /\ TypeOK /\ f \in Nat /\ now \in Int
  BY DEF IInv, TypeOK
<1>2. d \in Coordinators /\ d.role = "Member" /\ d.state = "MemberScanning" /\ d.nonce = f
  BY <1>1, StartMemberFields
<1>3. \A j \in net : j.type = "Join" /\ j.src = n => j.nonce < f
  BY DEF IInv, PacketInv
<1>. HIDE DEF d
<1>4. CoordinatorInv(n, d, net', f + 1, opened')
  <2>1. NonceIsForLeader(n, d, net', f + 1)
    BY <1>1, <1>2, <1>3 DEF NonceIsForLeader, AskToJoin
  <2>. QED
    BY <1>2, <2>1 DEF CoordinatorInv, RoleFitsState, LeadsOpened, AwaitsItsLeader, Awaiting
<1>5. DeviceStep(n, d, {}, {}, f + 1)
  BY <1>1, <1>2 DEF AskToJoin, DeviceStep, TypeOK, IInv, d
<1>. QED
  BY <1>1, <1>4, <1>5, DeviceStepInv

\* Cancelling preserves the invariant.
LEMMA CancelStep ==
    ASSUME IInv, NEW n \in Node, Cancel(n)
    PROVE  IInv'
<1>1. co[n] \in Coordinators /\ TypeOK
  BY DEF IInv, TypeOK
<1>2. /\ CoordinatorInv(n, Stopped(co[n]), net', fresh[n], opened')
      /\ Stopped(co[n]).state = "Idle"
  BY <1>1, StoppedInv
<1>3. DeviceStep(n, Stopped(co[n]), {}, {}, fresh[n])
  BY <1>1, <1>2 DEF Cancel, Stop, DeviceStep, TypeOK, IInv
<1>. QED
  BY <1>1, <1>2, <1>3, DeviceStepInv DEF TypeOK

\* A restart preserves the invariant.
LEMMA RebootStep ==
    ASSUME IInv, NEW n \in Node, Reboot(n)
    PROVE  IInv'
<1>1. TypeOK
  BY DEF IInv
<1>2. Constructed \in Coordinators /\ Constructed.state = "Idle" /\ Constructed.role = "None"
  BY TimingAssumption DEF Constructed, Coordinators, Roles, RestingStates
<1>3. CoordinatorInv(n, Constructed, net', fresh[n], opened')
  BY <1>2 DEF CoordinatorInv, RoleFitsState, LeadsOpened, AwaitsItsLeader,
              NonceIsForLeader, Awaiting
<1>4. DeviceStep(n, Constructed, {}, {}, fresh[n])
  BY <1>1, <1>2 DEF Reboot, DeviceStep, TypeOK, IInv
<1>. QED
  BY <1>1, <1>3, <1>4, DeviceStepInv DEF TypeOK

\* A reception preserves the invariant: what it buffers was sent to this device.
LEMMA ReceiveStep ==
    ASSUME IInv, NEW n \in Node, Receive(n)
    PROVE  IInv'
<1>1. PICK m \in net : /\ m.dst \in {n, Broadcast} /\ m.src # n
                       /\ slot' = [slot EXCEPT ![n] = m]
  BY DEF Receive
<1>2. UNCHANGED << now, co, ready, net, fresh, opened, adopted, known >> /\ ready[n]
  BY DEF Receive
<1>3. TypeOK'
  BY <1>1, <1>2 DEF IInv, TypeOK
<1>4. (\A k \in Node : BufferInv(k))'
  BY <1>1, <1>2 DEF IInv, TypeOK, BufferInv
<1>5. TransportFollowsSession'
  BY <1>1, <1>2 DEF IInv, TypeOK, TransportFollowsSession
<1>6. (\A k \in Node : AdoptionInv(k))'
  BY <1>2 DEF IInv, AdoptionInv, Promise!Grant
<1>. QED
  BY <1>2, <1>3, <1>4, <1>5, <1>6 DEF IInv

\* What one turn of the service does, in the terms of DeviceStep.
LEMMA UpdateServiceSound ==
    ASSUME IInv, NEW n \in Node, UpdateService(n)
    PROVE  \E d, X, D : SoundTurn(n, d, X, D) /\ DeviceStep(n, d, X, D, DrawnAfter(n))
<1>1. PICK okPacket \in BOOLEAN, okTurn \in BOOLEAN :
        LET a == Handled(n, okPacket)
            b == Update(n, a.co, now, okTurn)
        IN  /\ co' = [co EXCEPT ![n] = b.co]
            /\ net' = net \cup a.tx \cup b.tx
            /\ adopted' = [adopted EXCEPT ![n] = @ \cup KeyDistsIn(a.ev) \cup KeyDistsIn(b.ev)]
            /\ ready' = [ready EXCEPT ![n] = b.co.state # "Idle"]
            /\ known' = [known EXCEPT ![n] = KnownAfter(n, b.co)]
  BY DEF UpdateService
<1>. DEFINE a == Handled(n, okPacket)
            b == Update(n, a.co, now, okTurn)
            d == b.co
            X == a.tx \cup b.tx
            D == KeyDistsIn(a.ev) \cup KeyDistsIn(b.ev)
<1>2. SoundTurn(n, d, X, D)
  BY TurnSound
<1>3. TypeOK /\ opened \subseteq Offers
  BY DEF IInv
<1>4. KnownAfter(n, d) \in SUBSET Sessions
  BY <1>3 DEF KnownAfter, TypeOK
<1>5. /\ net' = net \cup X
      /\ adopted' = [adopted EXCEPT ![n] = @ \cup D]
      /\ co' = [co EXCEPT ![n] = d] /\ ready' = [ready EXCEPT ![n] = d.state # "Idle"]
      /\ known' = [known EXCEPT ![n] = KnownAfter(n, d)]
  <2>1. /\ net' = (net \cup a.tx) \cup b.tx
        /\ adopted' = [adopted EXCEPT ![n] = (@ \cup KeyDistsIn(a.ev)) \cup KeyDistsIn(b.ev)]
        /\ co' = [co EXCEPT ![n] = d] /\ ready' = [ready EXCEPT ![n] = d.state # "Idle"]
        /\ known' = [known EXCEPT ![n] = KnownAfter(n, d)]
    BY <1>1
  <2>. HIDE DEF a, b
  <2>2. (adopted[n] \cup KeyDistsIn(a.ev)) \cup KeyDistsIn(b.ev) = adopted[n] \cup D
    OBVIOUS
  <2>. QED
    BY <2>1, <2>2
<1>. HIDE DEF a, b, d, X, D
<1>6. /\ slot' = [slot EXCEPT ![n] = NoPacket]
      /\ fresh' = [fresh EXCEPT ![n] = DrawnAfter(n)]
      /\ now' = now /\ opened' = opened
  BY <1>3 DEF UpdateService, DrawnAfter, TypeOK
<1>7. DeviceStep(n, d, X, D, DrawnAfter(n))
  BY <1>3, <1>4, <1>5, <1>6 DEF DeviceStep, TypeOK
<1>. QED
  BY <1>2, <1>7

\* A turn of the main loop preserves the invariant.
LEMMA UpdateServiceStep ==
    ASSUME IInv, NEW n \in Node, UpdateService(n)
    PROVE  IInv'
<1>1. PICK d, X, D : SoundTurn(n, d, X, D) /\ DeviceStep(n, d, X, D, DrawnAfter(n))
  BY UpdateServiceSound
<1>2. net' = net \cup X /\ opened' = opened
  BY <1>1 DEF DeviceStep, UpdateService
<1>3. DrawnAfter(n) \in Nat /\ fresh[n] <= DrawnAfter(n)
  BY DEF IInv, TypeOK, DrawnAfter
<1>4. CoordinatorInv(n, d, net', DrawnAfter(n), opened')
  BY <1>1, <1>2 DEF SoundTurn
<1>5. \A m \in X : m \in Packets /\ m.src = n /\ PacketInv(m, net', DrawnAfter(n), opened')
  BY <1>1, <1>2 DEF SoundTurn
<1>6. \A e \in D : \E s \in opened' : s.node # n /\ e = Promise!Grant(s)
  BY <1>1, <1>2 DEF SoundTurn
<1>. QED
  BY <1>1, <1>3, <1>4, <1>5, <1>6, DeviceStepInv

\* Every step keeps the inductive invariant.
LEMMA NextInv == IInv /\ [Next]_vars => IInv'
<1>. SUFFICES ASSUME IInv, [Next]_vars PROVE IInv'
  OBVIOUS
<1>1. CASE Tick
  <2>1. After(now, 1) \in Int
    BY AfterInt DEF IInv, TypeOK
  <2>. QED
    BY <1>1, <2>1 DEF Tick, IInv, TypeOK, BufferInv, AdoptionInv, Promise!Grant,
                      TransportFollowsSession
<1>2. CASE UNCHANGED vars
  BY <1>2 DEF vars, IInv, TypeOK, BufferInv, AdoptionInv, Promise!Grant,
              TransportFollowsSession
<1>3. ASSUME NEW n \in Node,
             \/ OpenWindow(n) \/ AskToJoin(n) \/ Cancel(n)
             \/ Reboot(n) \/ Receive(n) \/ UpdateService(n)
      PROVE  IInv'
  BY <1>3, OpenWindowStep, AskToJoinStep, CancelStep, RebootStep, ReceiveStep,
     UpdateServiceStep
<1>. QED
  BY <1>1, <1>2, <1>3 DEF Next

\* The inductive invariant holds in every reachable state, for every number of
\* devices, teams, keys and sessions and every choice of the timing constants.
THEOREM PairingInvariant == Spec => []IInv
<1>. QED
  BY InitInv, NextInv, PTL DEF Spec

-----------------------------------------------------------------------------
(* What follows from it.                                                    *)

\* The fields of every device keep their types.
THEOREM PairingTypes == Spec => []TypeOK
<1>1. IInv => TypeOK
  BY DEF IInv
<1>. QED
  BY <1>1, PairingInvariant, PTL

\* Every paired device holds the key of a session its leader opened, whatever
\* the radio did to the packets (handleKey).
THEOREM PairingKeyOfNamedLeader == Spec => []KeyOfNamedLeader
<1>1. IInv => KeyOfNamedLeader
  BY DEF IInv, AdoptionInv, KeyOfNamedLeader, Promise!Grant
<1>. QED
  BY <1>1, PairingInvariant, PTL

\* Devices that hold a team under one key id hold one channel key, if the
\* leaders of the team opened it with one.
THEOREM PairingOneKeyPerRound == Spec => []OneKeyPerRound
<1>1. ASSUME IInv PROVE OneKeyPerRound
  <2>1. ASSUME NEW n \in Node, NEW e \in adopted[n]
        PROVE  \E s \in opened : s.team = e.team /\ s.key = e.key /\ s.psk = e.psk
    BY <1>1 DEF IInv, AdoptionInv, Promise!Grant
  <2>2. SUFFICES ASSUME NEW a, NEW b, NEW n \in Node, NEW k \in Node,
                        a \in adopted[n], b \in adopted[k],
                        a.team = b.team, a.key = b.key, a.psk # b.psk
                 PROVE  \E s, t \in opened : s.team = t.team /\ s.key = t.key /\ s.psk # t.psk
    BY DEF OneKeyPerRound
  <2>3. PICK s \in opened : s.team = a.team /\ s.key = a.key /\ s.psk = a.psk
    BY <2>1, <2>2
  <2>4. PICK t \in opened : t.team = b.team /\ t.key = b.key /\ t.psk = b.psk
    BY <2>1, <2>2
  <2>. QED
    BY <2>2, <2>3, <2>4
<1>. QED
  BY <1>1, PairingInvariant, PTL

\* A running session has its transport, a service at rest has none and an empty
\* buffer (ensureTransport, shutdownTransport).
THEOREM PairingTransportFollowsSession == Spec => []TransportFollowsSession
<1>1. IInv => TransportFollowsSession
  BY DEF IInv
<1>. QED
  BY <1>1, PairingInvariant, PTL

-----------------------------------------------------------------------------
(* The handshake implements PairingPromise.                                 *)

\* A step that leaves the coordinators, the sessions and the keys alone.
LEMMA Unseen ==
    ASSUME co' = co, opened' = opened, adopted' = adopted
    PROVE  UNCHANGED << Phase, opened, adopted >>
BY DEF Phase

\* A step in which device n takes up role r, as the promise sees it.
LEMMA PhaseStep ==
    ASSUME TypeOK, NEW n \in Node, NEW d, co' = [co EXCEPT ![n] = d]
    PROVE  Phase' = [Phase EXCEPT ![n] = d.role]
BY DEF TypeOK, Phase

\* A turn of the main loop is a step of the promise or a stutter of it: it
\* admits a seeking device, ends a session, or shows nothing.
LEMMA UpdateServicePromise ==
    ASSUME IInv, NEW n \in Node, UpdateService(n)
    PROVE  [Promise!Next]_<< Phase, opened, adopted >>
<1>1. PICK d, X, D : SoundTurn(n, d, X, D) /\ DeviceStep(n, d, X, D, DrawnAfter(n))
  BY UpdateServiceSound
<1>2. TypeOK /\ opened' = opened
  BY DEF IInv, UpdateService
<1>3. /\ Phase' = [Phase EXCEPT ![n] = d.role]
      /\ adopted' = [adopted EXCEPT ![n] = @ \cup D]
  BY <1>1, <1>2, PhaseStep DEF DeviceStep
<1>4. Phase = [k \in Node |-> co[k].role]
  BY DEF Phase
<1>5. CASE D = {} /\ d.role \in {co[n].role, "None"}
  <2>1. adopted' = adopted
    BY <1>2, <1>3, <1>5 DEF TypeOK
  <2>2. CASE d.role = co[n].role
    <3>1. Phase' = Phase
      BY <1>3, <1>4, <2>2
    <3>. QED
      BY <1>2, <2>1, <3>1
  <2>3. CASE d.role = "None"
    <3>1. Promise!Rest(n)
      BY <1>2, <1>3, <2>1, <2>3 DEF Promise!Rest
    <3>. QED
      BY <3>1 DEF Promise!Next
  <2>. QED
    BY <1>5, <2>2, <2>3
<1>6. CASE /\ co[n].role = "Member" /\ d.role = "None"
           /\ \E s \in opened : s.node # n /\ D = {Promise!Grant(s)}
  <2>1. Phase[n] = "Member"
    BY <1>4, <1>6
  <2>2. Promise!Admit(n)
    BY <1>2, <1>3, <1>6, <2>1 DEF Promise!Admit, Promise!Grant
  <2>. QED
    BY <2>2 DEF Promise!Next
<1>. QED
  BY <1>1, <1>5, <1>6 DEF SoundTurn

\* Every step of the handshake is a step of the promise or a stutter of it.
LEMMA NextPromise ==
    ASSUME IInv, [Next]_vars
    PROVE  [Promise!Next]_<< Phase, opened, adopted >>
<1>1. TypeOK
  BY DEF IInv
<1>2. CASE Tick \/ UNCHANGED vars
  BY <1>2, Unseen DEF Tick, vars
<1>3. ASSUME NEW n \in Node, OpenWindow(n)
      PROVE  [Promise!Next]_<< Phase, opened, adopted >>
  <2>1. PICK o \in Offers : /\ o.node = n
                            /\ co' = [co EXCEPT ![n] = StartLeader(n, co[n], o, now).co]
                            /\ opened' = opened \cup {o}
    BY <1>3 DEF OpenWindow
  <2>2. StartLeader(n, co[n], o, now).co.role = "Leader"
    BY <1>1, OffersAssumption, StartLeaderFields DEF TypeOK
  <2>3. Phase' = [Phase EXCEPT ![n] = "Leader"] /\ adopted' = adopted
    <3>1. Phase' = [Phase EXCEPT ![n] = StartLeader(n, co[n], o, now).co.role]
      BY <1>1, <2>1, PhaseStep
    <3>. QED
      BY <1>3, <2>2, <3>1 DEF OpenWindow
  <2>4. Promise!Lead(n)
    BY <2>1, <2>3 DEF Promise!Lead
  <2>. QED
    BY <2>4 DEF Promise!Next
<1>4. ASSUME NEW n \in Node, AskToJoin(n)
      PROVE  [Promise!Next]_<< Phase, opened, adopted >>
  <2>1. StartMember(co[n], fresh[n], now).co.role = "Member"
    BY <1>1, StartMemberFields DEF TypeOK
  <2>2. Phase' = [Phase EXCEPT ![n] = "Member"]
    BY <1>1, <1>4, <2>1, PhaseStep DEF AskToJoin
  <2>3. Promise!Seek(n)
    BY <1>4, <2>2 DEF AskToJoin, Promise!Seek
  <2>. QED
    BY <2>3 DEF Promise!Next
<1>5. ASSUME NEW n \in Node, Cancel(n) \/ Reboot(n)
      PROVE  [Promise!Next]_<< Phase, opened, adopted >>
  <2>1. Stop(co[n]).co.role = "None" /\ Constructed.role = "None"
    BY <1>1, StoppedInv DEF Stop, Constructed, TypeOK
  <2>2. Phase' = [Phase EXCEPT ![n] = "None"]
    BY <1>1, <1>5, <2>1, PhaseStep DEF Cancel, Reboot
  <2>3. Promise!Rest(n)
    BY <1>5, <2>2 DEF Cancel, Reboot, Promise!Rest
  <2>. QED
    BY <2>3 DEF Promise!Next
<1>6. ASSUME NEW n \in Node, Receive(n)
      PROVE  [Promise!Next]_<< Phase, opened, adopted >>
  BY <1>6, Unseen DEF Receive
<1>7. ASSUME NEW n \in Node, UpdateService(n)
      PROVE  [Promise!Next]_<< Phase, opened, adopted >>
  BY <1>7, UpdateServicePromise
<1>. QED
  BY <1>2, <1>3, <1>4, <1>5, <1>6, <1>7 DEF Next

\* Every call of a device is a step of the promise or changes nothing of it:
\* only a seeking device is admitted, by a session another device opened, and
\* its search ends with that.
THEOREM PairingKeepsPromise == Spec => KeepsPromise
<1>1. Init => Promise!Init
  BY DEF Init, Constructed, Phase, Promise!Init
<1>2. IInv /\ [Next]_vars => [Promise!Next]_<< Phase, opened, adopted >>
  BY NextPromise
<1>. QED
  BY <1>1, <1>2, PairingInvariant, PTL DEF Spec, KeepsPromise, Promise!Spec
-----------------------------------------------------------------------------
(***************************************************************************)
(* Why a rotation of the key is safe for the devices that pair around it:  *)
(* a device never ends with a key older than one its leader had opened     *)
(* when it accepted the beacon (NoKeyFromBeforeTheBeacon).                 *)
(*                                                                         *)
(* The argument is RotationInv: a leader hands out the newest key of its   *)
(* team, a key in the air under the current nonce of a device was sent     *)
(* after that device drew the nonce, and it drew it with the beacon.       *)
(***************************************************************************)

\* A leader hands out the newest key it opened for the team (MayOpen).
LeadsNewest(n) ==
    co[n].role = "Leader" =>
        \A s \in opened : s.node = n /\ s.team = co[n].team => s.key <= co[n].key

\* A device remembers sessions of the leader it awaits.
KnownInv(n) ==
    \A s \in known[n] : s \in opened /\ co[n].state \in Awaiting /\ s.node = co[n].mac

\* A key under the current nonce of the device it goes to is no older than
\* what the device remembers.
AnswerIsNew(n, m) ==
    m.type = "Key" /\ m.dst = n /\ m.nonce = co[n].nonce /\ co[n].state \in Awaiting
    => \A s \in known[n] : s.team = m.team => s.key <= m.key

RotationInv ==
    /\ \A n \in Node : LeadsNewest(n) /\ KnownInv(n)
    /\ \A n \in Node : \A m \in net : AnswerIsNew(n, m)

-----------------------------------------------------------------------------
(* What a turn of the service changes of the fields RotationInv speaks of.  *)

\* The call ended the session, or left what identifies it alone.
EndedOrKept(c, d) ==
    \/ d.role = "None" /\ d.state = "Idle"
    \/ SameBut(c, d) /\ (d.state \in Awaiting <=> c.state \in Awaiting)

NoKeyIn(X) == \A m \in X : m.type # "Key"

\* The coordinator's own update() ends the session or keeps its leader and
\* nonce, and sends no key.
LEMMA UpdateKeeps ==
    ASSUME NEW n \in Node, NEW c, NEW N, NEW f \in Nat, NEW S \in SUBSET Sessions,
           NEW t \in Int, NEW ok \in BOOLEAN,
           CoordinatorInv(n, c, N, f, S)
    PROVE  LET b == Update(n, c, t, ok) IN EndedOrKept(c, b.co) /\ NoKeyIn(b.tx)
<1>. DEFINE b == Update(n, c, t, ok)
            h == Held(c, t)
<1>0. c \in Coordinators
  BY DEF CoordinatorInv
<1>1. h \in Coordinators /\ SameBut(c, h) /\ (h.state \in Awaiting <=> c.state \in Awaiting)
  <2>1. CASE HoldOver(c, t)
    <3>1. h = [c EXCEPT !.state = "WaitingKey"] /\ c.state = "JoinSent"
      BY <2>1 DEF Held, HoldOver
    <3>. QED
      BY <1>0, <3>1 DEF SameBut, Coordinators, RestingStates, Awaiting
  <2>2. CASE ~HoldOver(c, t)
    BY <1>0, <2>2 DEF Held, SameBut
  <2>. QED
    BY <2>1, <2>2
<1>2. CASE c.state # "Idle" /\ Expired(c, t)
  <2>1. b.co = Stopped(h) /\ b.tx = {}
    BY <1>2 DEF Update, Failure
  <2>2. Stopped(h).role = "None" /\ Stopped(h).state = "Idle"
    BY <1>1, StoppedInv
  <2>. QED
    BY <2>1, <2>2 DEF EndedOrKept, NoKeyIn
<1>3. CASE c.state # "Idle" /\ ~Expired(c, t) /\ BeaconDue(c, t)
  <2>1. b = SendBeacon(n, c, t, ok)
    BY <1>3 DEF Update, BeaconDue, RetryDue
  <2>2. SameBut(c, b.co) /\ b.co.state = c.state
    BY <1>0, <2>1 DEF SendBeacon, Nothing, SameBut, Coordinators
  <2>3. NoKeyIn(b.tx)
    BY <2>1 DEF SendBeacon, Nothing, NoKeyIn
  <2>. QED
    BY <2>2, <2>3 DEF EndedOrKept
<1>4. CASE c.state # "Idle" /\ ~Expired(c, t) /\ ~BeaconDue(c, t) /\ RetryDue(c, t)
  <2>1. b = SendJoin(n, c, t, ok)
    BY <1>4 DEF Update
  <2>2. c.state = "WaitingKey" /\ c.attempts < JoinRetryMax
    BY <1>4 DEF RetryDue
  <2>3. c.team \in Team
    BY <2>2 DEF CoordinatorInv, AwaitsItsLeader, Awaiting
  <2>4. /\ SameBut(c, b.co) /\ b.co.state = c.state
        /\ \A m \in b.tx : m.type = "Join"
    BY <1>0, <2>1, <2>2, <2>3, SendJoinFields
  <2>. QED
    BY <2>4 DEF EndedOrKept, NoKeyIn
<1>5. CASE \/ c.state = "Idle"
           \/ ~Expired(c, t) /\ ~BeaconDue(c, t) /\ ~RetryDue(c, t)
  <2>1. b.co = h /\ b.tx = {}
    BY <1>5 DEF Update
  <2>. QED
    BY <1>1, <2>1 DEF EndedOrKept, NoKeyIn
<1>. QED
  BY <1>2, <1>3, <1>4, <1>5

\* m is the leader's answer to the join in its buffer.
Answers(n, m) ==
    /\ slot[n] # NoPacket /\ slot[n].type = "Join"
    /\ co[n].role = "Leader" /\ m = KeyFor(n, co[n], slot[n])

\* e is the key distribution of the key in the buffer, which answers the join
\* of the device.
IsHandedOver(n, e) ==
    /\ slot[n] # NoPacket /\ slot[n].type = "Key" /\ AcceptsKey(co[n], slot[n])
    /\ e.team = slot[n].team /\ e.key = slot[n].key

\* What the coordinator d after a turn, the packets X sent in it and the key
\* distributions D published have to do with what was before.
TurnTrace(n, d, X, D) ==
    /\ \A m \in X : m.type = "Key" => Answers(n, m)
    /\ \A e \in D : IsHandedOver(n, e)
    /\ \/ d.role = "None" /\ d.state = "Idle"
       \/ ~Rejoins(n) /\ EndedOrKept(co[n], d)
       \/ /\ Rejoins(n) /\ d.role = "Member" /\ d.state \in Awaiting
          /\ d.mac = slot[n].src /\ d.nonce = fresh[n]

\* The buffered packet leaves such a trace: a key ends the search it answers, a
\* join is answered by a leader, a beacon restarts the search under a new nonce.
LEMMA HandledTrace ==
    ASSUME IInv, NEW n \in Node, NEW ok \in BOOLEAN
    PROVE  LET a == Handled(n, ok) IN TurnTrace(n, a.co, a.tx, KeyDistsIn(a.ev))
<1>. DEFINE m == slot[n]
            c == co[n]
            f == fresh[n]
            a == Handled(n, ok)
<1>1. /\ c \in Coordinators /\ CoordinatorInv(n, c, net, f, opened)
      /\ f \in Nat /\ now \in Int
  BY DEF IInv, TypeOK
<1>2. ASSUME a = Nothing(c), ~Rejoins(n)
      PROVE  TurnTrace(n, a.co, a.tx, KeyDistsIn(a.ev))
  <2>1. a.co = c /\ a.tx = {} /\ KeyDistsIn(a.ev) = {}
    BY <1>2, NoEvents, NoKeyDist DEF Nothing
  <2>. QED
    BY <1>1, <1>2, <2>1 DEF TurnTrace, EndedOrKept, SameBut
<1>3. CASE m = NoPacket
  BY <1>2, <1>3 DEF Handled, Rejoins
<1>4. CASE m # NoPacket
  <2>1. Deliverable(n, m, net) /\ m \in Packets
    BY <1>4 DEF IInv, TypeOK, BufferInv, Deliverable
  <2>2. a = HandlePacket(n, c, m, f, now, ok)
    BY <1>4 DEF Handled
  <2>3. CASE m.type = "Beacon" /\ ~AcceptsBeacon(c)
    BY <1>2, <2>2, <2>3 DEF HandlePacket, HandleBeacon, Rejoins
  <2>4. CASE m.type = "Beacon" /\ AcceptsBeacon(c)
    <3>. DEFINE h == Heard(c, m, f)
                sent == SendJoin(n, h, now, ok)
                d == [sent.co EXCEPT !.joinSent = now, !.state = "JoinSent"]
    <3>1. a.co = d /\ a.tx = sent.tx /\ a.ev = << StateEvent(d, NoNode) >>
      BY <2>2, <2>4 DEF HandlePacket, HandleBeacon
    <3>2. /\ h \in Coordinators /\ h.role = "Member" /\ h.mac = m.src /\ h.nonce = f
          /\ h.team \in Team /\ h.attempts < JoinRetryMax
      <4>1. /\ m.src \in Node /\ m.team \in Team /\ m.key \in Nat /\ m.leader \in Node
            /\ m.name \in Name \cup {NoName}
        BY <2>1, <2>4, PacketFields
      <4>. DEFINE name == IF m.name = NoName THEN c.name ELSE m.name
      <4>2. name \in Name \cup {NoName}
        BY <1>1, <4>1, CoordinatorFields
      <4>3. h = [c EXCEPT !.team = m.team, !.key = m.key, !.leader = m.leader,
                          !.name = name, !.mac = m.src, !.nonce = f, !.attempts = 0]
        BY <1>1, CoordinatorFields DEF Heard
      <4>4. 0 \in 0 .. JoinRetryMax /\ 0 < JoinRetryMax /\ c.role = "Member"
        BY <2>4, TimingAssumption DEF AcceptsBeacon
      <4>. HIDE DEF name
      <4>. QED
        BY <1>1, <4>1, <4>2, <4>3, <4>4 DEF Coordinators
    <3>. HIDE DEF h
    <3>3. /\ SameBut(h, sent.co)
          /\ \A j \in sent.tx : j.type = "Join"
      BY <1>1, <3>2, SendJoinFields
    <3>4. d.role = "Member" /\ d.state = "JoinSent" /\ d.mac = m.src /\ d.nonce = f
      <4>1. sent.co \in Coordinators
        BY <3>3 DEF SameBut
      <4>. HIDE DEF sent
      <4>. QED
        BY <3>2, <3>3, <4>1 DEF SameBut, Coordinators
    <3>. HIDE DEF sent, d
    <3>5. KeyDistsIn(a.ev) = {}
      <4>1. StateEvent(d, NoNode).kind = "State"
        BY DEF StateEvent
      <4>. QED
        BY <3>1, <4>1, OneState, NoKeyDist
    <3>6. Rejoins(n)
      BY <1>4, <2>4 DEF Rejoins
    <3>. QED
      BY <3>1, <3>3, <3>4, <3>5, <3>6 DEF TurnTrace, Awaiting
  <2>5. CASE m.type = "Join"
    <3>1. a = HandleJoin(n, c, m, ok) /\ ~Rejoins(n)
      BY <2>2, <2>5 DEF HandlePacket, Rejoins
    <3>2. CASE ~(AcceptsJoin(c, m) /\ c.psk # NoPsk /\ ok)
      BY <1>2, <3>1, <3>2 DEF HandleJoin
    <3>3. CASE AcceptsJoin(c, m) /\ c.psk # NoPsk /\ ok
      <4>1. a.co = c /\ a.tx = {KeyFor(n, c, m)} /\ a.ev = << StateEvent(c, m.src) >>
        BY <3>1, <3>3 DEF HandleJoin
      <4>2. KeyDistsIn(a.ev) = {}
        <5>1. StateEvent(c, m.src).kind = "State"
          BY DEF StateEvent
        <5>. QED
          BY <4>1, <5>1, OneState, NoKeyDist
      <4>3. Answers(n, KeyFor(n, c, m))
        BY <1>4, <2>5, <3>3 DEF Answers, AcceptsJoin
      <4>. QED
        BY <1>1, <3>1, <4>1, <4>2, <4>3 DEF TurnTrace, EndedOrKept, SameBut
    <3>. QED
      BY <3>2, <3>3
  <2>6. CASE m.type = "Key"
    <3>. DEFINE d == Keyed(c, m)
                done == StateEvent([d EXCEPT !.state = "Completed"], c.leader)
                rest == StateEvent(Stopped(d), NoNode)
    <3>1. a = HandleKey(c, m) /\ ~Rejoins(n)
      BY <2>2, <2>6 DEF HandlePacket, Rejoins
    <3>2. CASE ~AcceptsKey(c, m)
      BY <1>2, <3>1, <3>2 DEF HandleKey
    <3>3. CASE AcceptsKey(c, m)
      <4>1. a.co = Stopped(d) /\ a.tx = {} /\ a.ev = << KeyDistOf(c, m), done, rest >>
        BY <3>1, <3>3 DEF HandleKey
      <4>2. d \in Coordinators /\ d.key = m.key /\ d.psk = m.psk
        <5>1. m.key \in Nat /\ m.psk \in Psk
          BY <2>1, <2>6, PacketFields
        <5>. QED
          BY <1>1, <5>1 DEF Keyed, Coordinators
      <4>3. /\ KeyDistOf(c, m).kind = "KeyDist" /\ KeyDistOf(c, m).team = m.team
            /\ KeyDistOf(c, m).key = m.key
        BY <3>3, <4>2 DEF KeyDistOf, AcceptsKey
      <4>4. Stopped(d).role = "None" /\ Stopped(d).state = "Idle"
        BY <4>2, StoppedInv
      <4>5. done.kind = "State" /\ rest.kind = "State"
        BY DEF StateEvent
      <4>. HIDE DEF done, rest, d
      <4>6. KeyDistsIn(a.ev) = {KeyDistOf(c, m)}
        BY <4>1, <4>3, <4>5, OneKeyDist
      <4>. QED
        BY <1>4, <2>6, <3>3, <4>1, <4>3, <4>4, <4>6 DEF TurnTrace, IsHandedOver
    <3>. QED
      BY <3>2, <3>3
  <2>. QED
    BY <2>1, <2>3, <2>4, <2>5, <2>6, PacketFields
<1>. QED
  BY <1>3, <1>4

\* update() adds nothing to the trace of the packet but the end of the session.
LEMMA TraceThenUpdate ==
    ASSUME NEW n, NEW c, NEW d, NEW X, NEW Y, NEW D,
           TurnTrace(n, c, X, D), EndedOrKept(c, d), NoKeyIn(Y),
           c.role = "None" /\ c.state = "Idle" => d = c
    PROVE  TurnTrace(n, d, X \cup Y, D)
BY DEF TurnTrace, EndedOrKept, SameBut, NoKeyIn

\* A whole turn of device n leaves a trace of that kind.
LEMMA UpdateServiceTrace ==
    ASSUME IInv, NEW n \in Node, UpdateService(n)
    PROVE  \E d, X, D : /\ TurnTrace(n, d, X, D)
                        /\ co' = [co EXCEPT ![n] = d]
                        /\ net' = net \cup X
                        /\ adopted' = [adopted EXCEPT ![n] = @ \cup D]
                        /\ known' = [known EXCEPT ![n] = KnownAfter(n, d)]
<1>1. PICK okPacket \in BOOLEAN, okTurn \in BOOLEAN :
        LET a == Handled(n, okPacket)
            b == Update(n, a.co, now, okTurn)
        IN  /\ co' = [co EXCEPT ![n] = b.co]
            /\ net' = net \cup a.tx \cup b.tx
            /\ adopted' = [adopted EXCEPT ![n] = @ \cup KeyDistsIn(a.ev) \cup KeyDistsIn(b.ev)]
            /\ known' = [known EXCEPT ![n] = KnownAfter(n, b.co)]
  BY DEF UpdateService
<1>. DEFINE a == Handled(n, okPacket)
            b == Update(n, a.co, now, okTurn)
            f == DrawnAfter(n)
            X == a.tx \cup b.tx
            D == KeyDistsIn(a.ev)
<1>2. TurnTrace(n, a.co, a.tx, D)
  BY HandledTrace
<1>3. /\ f \in Nat /\ now \in Int /\ opened \in SUBSET Sessions
  BY DEF IInv, TypeOK, DrawnAfter
<1>4. \E N : CoordinatorInv(n, a.co, N, f, opened)
  BY HandledSound DEF SoundCall, AdmittingCall
<1>. HIDE DEF a, f
<1>5. PICK N : CoordinatorInv(n, a.co, N, f, opened)
  BY <1>4
<1>6. EndedOrKept(a.co, b.co) /\ NoKeyIn(b.tx)
  BY <1>3, <1>5, UpdateKeeps
<1>7. SoundCall(n, a.co, b, N, f, opened) /\ (a.co.state = "Idle" => b = Nothing(a.co))
  BY <1>3, <1>5, UpdateSound
<1>8. KeyDistsIn(b.ev) = {} /\ (a.co.state = "Idle" => b.co = a.co)
  BY <1>7 DEF SoundCall, Nothing
<1>. HIDE DEF b
<1>9. TurnTrace(n, b.co, X, D)
  BY <1>2, <1>6, <1>8, TraceThenUpdate
<1>10. /\ net' = (net \cup a.tx) \cup b.tx
       /\ adopted' = [adopted EXCEPT ![n] = (@ \cup D) \cup KeyDistsIn(b.ev)]
       /\ co' = [co EXCEPT ![n] = b.co] /\ known' = [known EXCEPT ![n] = KnownAfter(n, b.co)]
  BY <1>1 DEF a, b
<1>. HIDE DEF D
<1>11. net' = net \cup X /\ adopted' = [adopted EXCEPT ![n] = @ \cup D]
  BY <1>8, <1>10
<1>. QED
  BY <1>9, <1>10, <1>11

-----------------------------------------------------------------------------
(* RotationInv is inductive beside IInv.                                    *)

\* Key packets in the air name the leader the device they go to awaits, if they
\* answer its current nonce.
LEMMA AnswerFromLeader ==
    ASSUME IInv, NEW k \in Node, NEW j \in net, j.type = "Join", j.src = k,
           j.nonce = co[k].nonce, co[k].state \in Awaiting
    PROVE  j.dst = co[k].mac
<1>1. CoordinatorInv(k, co[k], net, fresh[k], opened) /\ co[k] \in Coordinators
  BY DEF IInv, TypeOK
<1>2. co[k].role = "Member"
  BY <1>1, CoordinatorFields DEF CoordinatorInv, RoleFitsState, Roles, Awaiting
<1>. QED
  BY <1>1, <1>2 DEF CoordinatorInv, NonceIsForLeader

\* A step that changes the coordinator of one device only, sends nothing and
\* leaves that device without a memory of its leader.
LEMMA ForgetfulStep ==
    ASSUME TypeOK, RotationInv, NEW n \in Node, NEW d,
           co' = [co EXCEPT ![n] = d], net' = net,
           known' = [known EXCEPT ![n] = {}],
           \A s \in opened' \ opened : s.node = n,
           opened \subseteq opened',
           d.role = "Leader" =>
               \A s \in opened' : s.node = n /\ s.team = d.team => s.key <= d.key
    PROVE  RotationInv'
<1>1. ASSUME NEW k \in Node
      PROVE  LeadsNewest(k)' /\ KnownInv(k)' /\ \A m \in net : AnswerIsNew(k, m)'
  <2>1. CASE k = n
    <3>1. co'[k] = d /\ known'[k] = {}
      BY <2>1 DEF TypeOK
    <3>. QED
      BY <2>1, <3>1 DEF LeadsNewest, KnownInv, AnswerIsNew
  <2>2. CASE k # n
    <3>1. co'[k] = co[k] /\ known'[k] = known[k]
      BY <2>2 DEF TypeOK
    <3>2. LeadsNewest(k)'
      BY <2>2, <3>1 DEF RotationInv, LeadsNewest
    <3>3. KnownInv(k)'
      BY <3>1 DEF RotationInv, KnownInv
    <3>4. \A m \in net : AnswerIsNew(k, m)'
      BY <3>1 DEF RotationInv, AnswerIsNew
    <3>. QED
      BY <3>2, <3>3, <3>4
  <2>. QED
    BY <2>1, <2>2
<1>. QED
  BY <1>1 DEF RotationInv

\* Opening a window keeps the newest key with the leader (MayOpen).
LEMMA OpenWindowNewest ==
    ASSUME IInv, RotationInv, NEW n \in Node, OpenWindow(n)
    PROVE  RotationInv'
<1>1. PICK o \in Offers : /\ o.node = n /\ MayOpen(o)
                          /\ co' = [co EXCEPT ![n] = StartLeader(n, co[n], o, now).co]
                          /\ opened' = opened \cup {o}
  BY DEF OpenWindow
<1>. DEFINE d == StartLeader(n, co[n], o, now).co
<1>2. co[n] \in Coordinators /\ TypeOK /\ o \in Sessions /\ now \in Int
  BY OffersAssumption DEF IInv, TypeOK
<1>3. d.team = o.team /\ d.key = o.key
  BY <1>2, StartLeaderFields
<1>4. o.key \in Nat /\ o.key <= o.key
  BY <1>2 DEF Sessions
<1>5. co' = [co EXCEPT ![n] = d] /\ net' = net /\ known' = [known EXCEPT ![n] = {}]
  BY <1>1 DEF OpenWindow
<1>. HIDE DEF d
<1>6. \A s \in opened' : s.node = n /\ s.team = d.team => s.key <= d.key
  BY <1>1, <1>3, <1>4 DEF MayOpen
<1>. QED
  BY <1>1, <1>2, <1>5, <1>6, ForgetfulStep

\* Asking to join, cancelling and a restart forget the leader.
LEMMA RestNewest ==
    ASSUME IInv, RotationInv, NEW n \in Node, AskToJoin(n) \/ Cancel(n) \/ Reboot(n)
    PROVE  RotationInv'
<1>1. co[n] \in Coordinators /\ TypeOK /\ fresh[n] \in Nat /\ now \in Int
  BY DEF IInv, TypeOK
<1>2. PICK d : co' = [co EXCEPT ![n] = d] /\ d.role # "Leader"
  <2>1. StartMember(co[n], fresh[n], now).co.role = "Member"
    BY <1>1, StartMemberFields
  <2>2. Stop(co[n]).co.role = "None" /\ Constructed.role = "None"
    BY <1>1, StoppedInv DEF Stop, Constructed
  <2>. QED
    BY <2>1, <2>2 DEF AskToJoin, Cancel, Reboot
<1>3. net' = net /\ known' = [known EXCEPT ![n] = {}] /\ opened' = opened
  BY DEF AskToJoin, Cancel, Reboot
<1>. QED
  BY <1>1, <1>2, <1>3, ForgetfulStep

\* A turn of the service: answers carry the newest key of a leader, and a
\* beacon is answered under a nonce that no key in the air carries.
LEMMA UpdateServiceNewest ==
    ASSUME IInv, RotationInv, NEW n \in Node, UpdateService(n)
    PROVE  RotationInv'
<1>1. PICK d, X, D : /\ TurnTrace(n, d, X, D)
                     /\ co' = [co EXCEPT ![n] = d]
                     /\ net' = net \cup X
                     /\ adopted' = [adopted EXCEPT ![n] = @ \cup D]
                     /\ known' = [known EXCEPT ![n] = KnownAfter(n, d)]
  BY UpdateServiceTrace
<1>2. TypeOK /\ opened' = opened
  BY DEF IInv, UpdateService
<1>3. co'[n] = d /\ known'[n] = KnownAfter(n, d)
  BY <1>1, <1>2 DEF TypeOK
<1>4. \A k \in Node \ {n} : co'[k] = co[k] /\ known'[k] = known[k]
  BY <1>1, <1>2 DEF TypeOK
<1>5. LeadsNewest(n)'
  <2>1. ASSUME d.role = "Leader"
        PROVE  co[n].role = "Leader" /\ d.team = co[n].team /\ d.key = co[n].key
    BY <1>1, <2>1 DEF TurnTrace, EndedOrKept, SameBut
  <2>. QED
    BY <1>2, <1>3, <2>1 DEF RotationInv, LeadsNewest
<1>6. ASSUME d.state \in Awaiting, ~Rejoins(n)
      PROVE  /\ co[n].state \in Awaiting /\ d.mac = co[n].mac /\ d.nonce = co[n].nonce
             /\ known'[n] \subseteq known[n]
  <2>1. SameBut(co[n], d) /\ co[n].state \in Awaiting
    BY <1>1, <1>6 DEF TurnTrace, EndedOrKept, Awaiting
  <2>. QED
    BY <1>3, <1>6, <2>1 DEF SameBut, KnownAfter
<1>7. ASSUME d.state \in Awaiting, Rejoins(n)
      PROVE  d.mac = slot[n].src /\ d.nonce = fresh[n]
  BY <1>1, <1>7 DEF TurnTrace, EndedOrKept, Awaiting
<1>8. KnownInv(n)'
  <2>1. CASE d.state \in Awaiting /\ ~Rejoins(n)
    BY <1>2, <1>3, <1>6, <2>1 DEF RotationInv, KnownInv
  <2>2. CASE d.state \in Awaiting /\ Rejoins(n)
    BY <1>2, <1>3, <1>7, <2>2 DEF KnownInv, KnownAfter
  <2>3. CASE d.state \notin Awaiting
    <3>1. known'[n] \subseteq known[n]
      BY <1>1, <1>3, <2>3 DEF TurnTrace, EndedOrKept, KnownAfter
    <3>2. known'[n] = {}
      <4>1. CASE d.role = "None"
        BY <1>3, <4>1 DEF KnownAfter
      <4>2. CASE d.role # "None"
        BY <1>1, <2>3, <3>1, <4>2 DEF TurnTrace, EndedOrKept, RotationInv, KnownInv
      <4>. QED
        BY <4>1, <4>2
    <3>. QED
      BY <3>2 DEF KnownInv
  <2>. QED
    BY <2>1, <2>2, <2>3
<1>9. ASSUME NEW m \in net PROVE AnswerIsNew(n, m)'
  <2>1. SUFFICES ASSUME m.type = "Key", m.dst = n, m.nonce = d.nonce, d.state \in Awaiting
                 PROVE  \A s \in known'[n] : s.team = m.team => s.key <= m.key
    BY <1>3 DEF AnswerIsNew
  <2>2. CASE ~Rejoins(n)
    BY <1>6, <2>1, <2>2 DEF RotationInv, AnswerIsNew
  <2>3. CASE Rejoins(n)
    <3>1. m.nonce = fresh[n]
      BY <1>7, <2>1, <2>3
    <3>2. PICK j \in net : j.type = "Join" /\ j.src = n /\ j.nonce = m.nonce
      BY <2>1 DEF IInv, PacketInv
    <3>3. j.nonce < fresh[n] /\ fresh[n] \in Nat
      BY <1>2, <3>2 DEF IInv, PacketInv, TypeOK
    <3>. QED
      BY <3>1, <3>2, <3>3
  <2>. QED
    BY <2>2, <2>3
<1>10. ASSUME NEW k \in Node, NEW m \in X PROVE AnswerIsNew(k, m)'
  <2>1. SUFFICES ASSUME m.type = "Key", m.dst = k, m.nonce = co'[k].nonce,
                        co'[k].state \in Awaiting
                 PROVE  \A s \in known'[k] : s.team = m.team => s.key <= m.key
    BY DEF AnswerIsNew
  <2>2. Answers(n, m)
    BY <1>1, <2>1 DEF TurnTrace
  <2>3. /\ slot[n] \in net /\ slot[n].src # n /\ slot[n].dst \in {n, Broadcast}
        /\ slot[n].type = "Join" /\ slot[n] \in Packets
    BY <1>2, <2>2 DEF Answers, IInv, BufferInv, TypeOK
  <2>4. slot[n].dst = n
    BY <2>3, PacketFields, NullAssumption
  <2>5. /\ slot[n].src = k /\ slot[n].nonce = m.nonce
        /\ m.team = co[n].team /\ m.key = co[n].key /\ co[n].role = "Leader"
    BY <2>1, <2>2 DEF Answers, KeyFor
  <2>6. co'[k] = co[k] /\ known'[k] = known[k]
    BY <1>4, <2>3, <2>5
  <2>7. co[k].mac = n
    BY <2>1, <2>3, <2>4, <2>5, <2>6, AnswerFromLeader
  <2>8. \A s \in known[k] : s \in opened /\ s.node = n
    BY <2>7 DEF RotationInv, KnownInv
  <2>9. \A s \in opened : s.node = n /\ s.team = m.team => s.key <= m.key
    BY <2>5 DEF RotationInv, LeadsNewest
  <2>. QED
    BY <2>6, <2>8, <2>9
<1>11. ASSUME NEW k \in Node \ {n}
       PROVE  LeadsNewest(k)' /\ KnownInv(k)' /\ \A m \in net : AnswerIsNew(k, m)'
  BY <1>2, <1>4 DEF RotationInv, LeadsNewest, KnownInv, AnswerIsNew
<1>12. \A k \in Node : LeadsNewest(k)' /\ KnownInv(k)'
  BY <1>5, <1>8, <1>11
<1>13. \A k \in Node : \A m \in net' : AnswerIsNew(k, m)'
  BY <1>1, <1>9, <1>10, <1>11
<1>. QED
  BY <1>12, <1>13 DEF RotationInv

\* Every step keeps both invariants.
LEMMA NextRotation == IInv /\ RotationInv /\ [Next]_vars => RotationInv'
<1>. SUFFICES ASSUME IInv, RotationInv, [Next]_vars PROVE RotationInv'
  OBVIOUS
<1>1. CASE Tick \/ UNCHANGED vars \/ \E n \in Node : Receive(n)
  BY <1>1 DEF Tick, Receive, vars, RotationInv, LeadsNewest, KnownInv, AnswerIsNew
<1>2. ASSUME NEW n \in Node,
             \/ OpenWindow(n) \/ AskToJoin(n) \/ Cancel(n) \/ Reboot(n) \/ UpdateService(n)
      PROVE  RotationInv'
  BY <1>2, OpenWindowNewest, RestNewest, UpdateServiceNewest
<1>. QED
  BY <1>1, <1>2 DEF Next

\* No device remembers anything of a leader at the start.
LEMMA InitRotation == Init => RotationInv
BY DEF Init, Constructed, RotationInv, LeadsNewest, KnownInv, AnswerIsNew

-----------------------------------------------------------------------------
(* What follows from it.                                                    *)

\* The key a device takes over in a step is no older than what it remembers.
LEMMA HandedOverIsNew ==
    ASSUME IInv, RotationInv, [Next]_vars,
           NEW n \in Node, NEW e \in adopted'[n] \ adopted[n],
           NEW s \in known[n], s.team = e.team
    PROVE  e.key >= s.key
<1>1. TypeOK
  BY DEF IInv
<1>2. PICK k \in Node : UpdateService(k)
  BY DEF Next, vars, Tick, OpenWindow, AskToJoin, Cancel, Reboot, Receive
<1>3. PICK d, X, D : TurnTrace(k, d, X, D) /\ adopted' = [adopted EXCEPT ![k] = @ \cup D]
  BY <1>2, UpdateServiceTrace
<1>4. k = n /\ e \in D
  BY <1>1, <1>3 DEF TypeOK
<1>5. IsHandedOver(n, e)
  BY <1>3, <1>4 DEF TurnTrace
<1>. DEFINE m == slot[n]
<1>6. /\ m \in net /\ m \in Packets /\ m.type = "Key" /\ m.dst \in {n, Broadcast}
      /\ e.team = m.team /\ e.key = m.key /\ AcceptsKey(co[n], m)
  BY <1>1, <1>5 DEF IsHandedOver, IInv, BufferInv, TypeOK
<1>7. m.dst = n /\ m.key \in Nat
  BY <1>6, PacketFields, NullAssumption
<1>8. m.nonce = co[n].nonce /\ co[n].state \in Awaiting
  BY <1>6 DEF AcceptsKey, Awaiting
<1>9. s.key <= m.key
  BY <1>6, <1>7, <1>8 DEF RotationInv, AnswerIsNew
<1>10. s.key \in Nat
  BY <1>1 DEF TypeOK, Sessions
<1>. QED
  BY <1>6, <1>7, <1>9, <1>10

\* The newest key stays with the leader and the answers in the air, in every
\* reachable state.
THEOREM PairingRotation == Spec => []RotationInv
<1>. QED
  BY InitRotation, NextRotation, PairingInvariant, PTL DEF Spec

\* A device never ends with a key its leader had replaced before the device
\* accepted the beacon, whatever the radio delays, repeats or reorders (the
\* nonce of handleBeacon, compared in handleKey).
THEOREM PairingNoOldKey == Spec => NoKeyFromBeforeTheBeacon
<1>1. ASSUME IInv, RotationInv, [Next]_vars
      PROVE  [\A n \in Node : \A e \in adopted'[n] \ adopted[n] :
                \A s \in known[n] : s.team = e.team => e.key >= s.key]_vars
  BY <1>1, HandedOverIsNew
<1>. QED
  BY <1>1, PairingInvariant, PairingRotation, PTL DEF Spec, NoKeyFromBeforeTheBeacon
-----------------------------------------------------------------------------
(* Deadlines. A turn ends a session with its key or past its deadline, and  *)
(* otherwise leaves role and deadline alone: that is DeadlineStands. While  *)
(* the clock has not wrapped, the deadline says when the session began:     *)
(* that is MemberScansItsWindow.                                            *)

\* The clock does not wrap before the last session of interest is over.
NoWrap ==
    /\ MaxTime < ClockMod
    /\ LastStart + MemberTimeout < ClockMod /\ LastStart + LeaderWindow < ClockMod

SameDeadline(c, d) == d.role = c.role /\ d.until = c.until

\* Sending changes neither role nor deadline.
LEMMA SendKeepsDeadline ==
    ASSUME NEW n, NEW c \in Coordinators, NEW t, NEW ok
    PROVE  /\ SameDeadline(c, SendBeacon(n, c, t, ok).co)
           /\ SameDeadline(c, SendJoin(n, c, t, ok).co)
BY DEF SendBeacon, SendJoin, Nothing, SameDeadline, Coordinators

\* The coordinator's own update() ends a session past its deadline, and no
\* other.
LEMMA UpdateDeadline ==
    ASSUME NEW n, NEW c \in Coordinators, NEW t, NEW ok, RoleFitsState(c)
    PROVE  LET d == Update(n, c, t, ok).co
           IN  IF c.role # "None" /\ Expired(c, t) THEN d.role = "None"
                                                   ELSE SameDeadline(c, d)
<1>. DEFINE d == Update(n, c, t, ok).co
            h == Held(c, t)
<1>1. h \in Coordinators /\ SameDeadline(c, h)
  BY DEF Held, SameDeadline, Coordinators, RestingStates
<1>2. c.role = "None" <=> c.state = "Idle"
  BY DEF RoleFitsState
<1>3. CASE c.state # "Idle" /\ Expired(c, t)
  <2>1. d = Stopped(h)
    BY <1>3 DEF Update, Failure
  <2>. QED
    BY <1>1, <1>2, <1>3, <2>1 DEF Stopped, Coordinators
<1>4. CASE ~(c.state # "Idle" /\ Expired(c, t))
  <2>1. d \in {SendBeacon(n, c, t, ok).co, SendJoin(n, c, t, ok).co, h}
    BY <1>4 DEF Update
  <2>. HIDE DEF d, h
  <2>2. SameDeadline(c, d)
    BY <1>1, <2>1, SendKeepsDeadline
  <2>. QED
    BY <1>2, <1>4, <2>2 DEF d
<1>. QED
  BY <1>3, <1>4

\* The packet in the buffer ends the session if it is the key, and otherwise
\* leaves role and deadline alone.
LEMMA HandledDeadline ==
    ASSUME IInv, NEW n \in Node, NEW ok \in BOOLEAN
    PROVE  LET d == Handled(n, ok).co
           IN  /\ d \in Coordinators /\ RoleFitsState(d)
               /\ IF KeyArrives(n) THEN d.role = "None" ELSE SameDeadline(co[n], d)
<1>. DEFINE m == slot[n]
            c == co[n]
            d == Handled(n, ok).co
<1>1. d \in Coordinators /\ RoleFitsState(d)
  BY HandledSound DEF SoundCall, AdmittingCall, CoordinatorInv
<1>2. c \in Coordinators /\ SameDeadline(c, c)
  BY DEF IInv, TypeOK, SameDeadline
<1>3. CASE m = NoPacket
  BY <1>1, <1>2, <1>3 DEF Handled, Nothing, KeyArrives
<1>4. CASE m # NoPacket
  <2>1. m.type \in {"Beacon", "Join", "Key"} /\ Handled(n, ok) = HandlePacket(n, c, m, fresh[n], now, ok)
    BY <1>4, PacketFields DEF IInv, TypeOK, Handled
  <2>2. CASE m.type = "Beacon"
    <3>1. CASE ~AcceptsBeacon(c)
      <4>1. d = c
        BY <2>1, <2>2, <3>1 DEF HandlePacket, HandleBeacon, Nothing
      <4>. QED
        BY <1>1, <1>2, <2>2, <4>1 DEF KeyArrives
    <3>2. CASE AcceptsBeacon(c)
      <4>. DEFINE h == Heard(c, m, fresh[n])
                  s == SendJoin(n, h, now, ok).co
      <4>1. d = [s EXCEPT !.joinSent = now, !.state = "JoinSent"]
        BY <2>1, <2>2, <3>2 DEF HandlePacket, HandleBeacon
      <4>2. SameDeadline(c, h) /\ DOMAIN h = DOMAIN c
        BY <1>2 DEF Heard, SameDeadline, Coordinators
      <4>3. SameDeadline(h, s) /\ DOMAIN s = DOMAIN h
        <5>1. h.until = [h EXCEPT !.lastJoin = now, !.attempts = @ + 1].until
          BY DEF Heard
        <5>. QED
          BY <1>2, <5>1 DEF SendJoin, Nothing, SameDeadline, Heard, Coordinators
      <4>. HIDE DEF h, s
      <4>4. SameDeadline(s, d)
        BY <4>1 DEF SameDeadline
      <4>. QED
        BY <1>1, <2>2, <4>2, <4>3, <4>4 DEF SameDeadline, KeyArrives
    <3>. QED
      BY <3>1, <3>2
  <2>3. CASE m.type = "Join"
    <3>1. d = c
      BY <2>1, <2>3 DEF HandlePacket, HandleJoin, Nothing
    <3>. QED
      BY <1>1, <1>2, <2>3, <3>1 DEF KeyArrives
  <2>4. CASE m.type = "Key" /\ ~AcceptsKey(c, m)
    <3>1. d = c
      BY <2>1, <2>4 DEF HandlePacket, HandleKey, Nothing
    <3>. QED
      BY <1>1, <1>2, <2>4, <3>1 DEF KeyArrives
  <2>5. CASE m.type = "Key" /\ AcceptsKey(c, m)
    <3>1. d = Stopped(Keyed(c, m))
      BY <2>1, <2>5 DEF HandlePacket, HandleKey
    <3>2. d.role = "None"
      BY <1>2, <3>1 DEF Stopped, Keyed, Coordinators
    <3>. QED
      BY <1>1, <1>4, <2>5, <3>2 DEF KeyArrives
  <2>. QED
    BY <2>1, <2>2, <2>3, <2>4, <2>5
<1>. QED
  BY <1>3, <1>4

\* A whole turn: the session ends with its key, or past its deadline, and goes
\* on as it is otherwise.
LEMMA TurnDeadline ==
    ASSUME IInv, NEW n \in Node, UpdateService(n)
    PROVE  /\ \A k \in Node : k # n => co'[k] = co[k]
           /\ KeyArrives(n) => co'[n].role = "None"
           /\ co[n].role # "None" /\ Expired(co[n], now) => co'[n].role = "None"
           /\ ~KeyArrives(n) /\ ~(co[n].role # "None" /\ Expired(co[n], now))
              => SameDeadline(co[n], co'[n])
<1>1. PICK okPacket \in BOOLEAN, okTurn \in BOOLEAN :
        co' = [co EXCEPT ![n] = Update(n, Handled(n, okPacket).co, now, okTurn).co]
  BY DEF UpdateService
<1>. DEFINE a == Handled(n, okPacket).co
            b == Update(n, a, now, okTurn).co
<1>2. co'[n] = b /\ \A k \in Node : k # n => co'[k] = co[k]
  BY <1>1 DEF IInv, TypeOK
<1>3. /\ a \in Coordinators /\ RoleFitsState(a)
      /\ IF KeyArrives(n) THEN a.role = "None" ELSE SameDeadline(co[n], a)
  BY HandledDeadline
<1>. HIDE DEF a
<1>4. IF a.role # "None" /\ Expired(a, now) THEN b.role = "None" ELSE SameDeadline(a, b)
  BY <1>3, UpdateDeadline
<1>. HIDE DEF b
<1>. QED
  BY <1>2, <1>3, <1>4 DEF SameDeadline, Expired

\* Nothing prolongs a session but its user, whatever the radio delivers: past
\* its deadline a turn is the last of the session.
THEOREM PairingDeadlineStands == Spec => DeadlineStands
<1>1. ASSUME IInv, [Next]_vars, NEW n \in Node, UpdateService(n), co'[n].role # "None"
      PROVE  /\ co'[n].role = co[n].role /\ co'[n].until = co[n].until
             /\ ~Expired(co[n], now)
  <2>1. ~KeyArrives(n) /\ (co[n].role # "None" => ~Expired(co[n], now))
    BY <1>1, TurnDeadline
  <2>2. SameDeadline(co[n], co'[n])
    BY <1>1, <2>1, TurnDeadline
  <2>. QED
    BY <1>1, <2>1, <2>2 DEF SameDeadline
<1>2. IInv /\ [Next]_vars
      => [\A n \in Node :
            UpdateService(n) /\ co'[n].role # "None"
            => /\ co'[n].role = co[n].role /\ co'[n].until = co[n].until
               /\ ~Expired(co[n], now)]_vars
  BY <1>1
<1>. QED
  BY <1>2, PairingInvariant, PTL DEF Spec, DeadlineStands

\* docs/team/team_chat_protocol.md:221 has no key leave after the window, and
\* the code does not keep to that (KeysOnlyInWindow). What holds instead: a key
\* that leaves after the deadline of its leader leaves in the last turn of that
\* session, so there is one turn of answers at most.
LateKeyIsLast ==
    [][\A m \in net' \ net :
          m.type = "Key" /\ Expired(co[m.src], now) => co'[m.src].role = "None"]_vars

\* A leader answers joins for one turn past its deadline at most (update() of
\* the service hands over the buffered packet first).
THEOREM PairingLateKeyIsLast == Spec => LateKeyIsLast
<1>1. ASSUME IInv, [Next]_vars, NEW m \in net' \ net, m.type = "Key", Expired(co[m.src], now)
      PROVE  co'[m.src].role = "None"
  <2>1. PICK n \in Node : UpdateService(n)
    BY <1>1 DEF Next, vars, Tick, OpenWindow, AskToJoin, Cancel, Reboot, Receive
  <2>2. m.src = n
    <3>1. PICK d, X, D : SoundTurn(n, d, X, D) /\ DeviceStep(n, d, X, D, DrawnAfter(n))
      BY <1>1, <2>1, UpdateServiceSound
    <3>2. m \in X
      BY <1>1, <3>1 DEF DeviceStep
    <3>. QED
      BY <3>1, <3>2 DEF SoundTurn
  <2>3. co[n].role = "Leader"
    <3>1. PICK d, X, D : TurnTrace(n, d, X, D) /\ net' = net \cup X
      BY <1>1, <2>1, UpdateServiceTrace
    <3>. QED
      BY <1>1, <3>1 DEF TurnTrace, Answers
  <2>. QED
    BY <1>1, <2>1, <2>2, <2>3, TurnDeadline
<1>2. IInv /\ [Next]_vars
      => [\A m \in net' \ net :
            m.type = "Key" /\ Expired(co[m.src], now) => co'[m.src].role = "None"]_vars
  BY <1>1
<1>. QED
  BY <1>2, PairingInvariant, PTL DEF Spec, LateKeyIsLast

\* What a deadline says of the session it ends, as long as the clock has not
\* wrapped: it lies a whole timeout after a start, and is not 0, which would
\* mean none.
DeadlineInv ==
    /\ now \in 0 .. MaxTime
    /\ \A n \in Node :
         /\ co[n].role = "Leader" => co[n].until \in LeaderWindow .. (LastStart + LeaderWindow)
         /\ co[n].role = "Member" => co[n].until \in MemberTimeout .. (LastStart + MemberTimeout)

\* Before the wrap, time is added without the modulus.
LEMMA AfterIsSum ==
    ASSUME NEW t \in Nat, NEW d \in Nat, t + d < ClockMod
    PROVE  After(t, d) = t + d
BY TimingAssumption DEF After

LEMMA InitDeadline == Init => DeadlineInv
BY BoundAssumption DEF Init, Constructed, DeadlineInv

LEMMA NextDeadline ==
    ASSUME NoWrap, IInv, DeadlineInv, [Next]_vars
    PROVE  DeadlineInv'
<1>. DEFINE Sound(n) ==
        /\ co[n].role = "Leader" => co[n].until \in LeaderWindow .. (LastStart + LeaderWindow)
        /\ co[n].role = "Member" => co[n].until \in MemberTimeout .. (LastStart + MemberTimeout)
<1>0. /\ now \in Nat /\ now <= MaxTime /\ MaxTime \in Nat /\ LastStart \in Nat
      /\ \A n \in Node : co[n] \in Coordinators
  BY BoundAssumption DEF DeadlineInv, IInv, TypeOK
<1>1. ASSUME NEW n \in Node, now' = now, Sound(n)',
             \A k \in Node : k # n => co'[k] = co[k]
      PROVE  DeadlineInv'
  BY <1>1 DEF DeadlineInv
<1>2. CASE Tick
  <2>1. now' = now + 1 /\ now + 1 <= MaxTime /\ co' = co
    <3>1. now < MaxTime /\ now' = After(now, 1) /\ co' = co
      BY <1>2 DEF Tick
    <3>2. now + 1 < ClockMod /\ now + 1 <= MaxTime
      BY <1>0, <3>1, TimingAssumption DEF NoWrap
    <3>. QED
      BY <1>0, <3>1, <3>2, AfterIsSum
  <2>. QED
    BY <1>0, <2>1 DEF DeadlineInv
<1>3. ASSUME NEW n \in Node, OpenWindow(n)
      PROVE  DeadlineInv'
  <2>1. PICK o \in Offers : co' = [co EXCEPT ![n] = StartLeader(n, co[n], o, now).co]
    BY <1>3 DEF OpenWindow
  <2>2. now <= LastStart /\ now' = now
    BY <1>3 DEF OpenWindow, MayOpen
  <2>3. After(now, LeaderWindow) = now + LeaderWindow
    BY <1>0, <2>2, AfterIsSum, TimingAssumption DEF NoWrap
  <2>4. co'[n].role = "Leader" /\ co'[n].until = now + LeaderWindow
    BY <1>0, <2>1, <2>3 DEF IInv, TypeOK, StartLeader, Coordinators
  <2>5. \A k \in Node : k # n => co'[k] = co[k]
    BY <2>1 DEF IInv, TypeOK
  <2>. QED
    BY <1>0, <1>1, <2>2, <2>4, <2>5, TimingAssumption
<1>4. ASSUME NEW n \in Node, AskToJoin(n)
      PROVE  DeadlineInv'
  <2>1. co' = [co EXCEPT ![n] = StartMember(co[n], fresh[n], now).co]
    BY <1>4 DEF AskToJoin
  <2>2. now <= LastStart /\ now' = now
    BY <1>4 DEF AskToJoin
  <2>3. After(now, MemberTimeout) = now + MemberTimeout
    BY <1>0, <2>2, AfterIsSum, TimingAssumption DEF NoWrap
  <2>4. co'[n].role = "Member" /\ co'[n].until = now + MemberTimeout
    BY <1>0, <2>1, <2>3 DEF IInv, TypeOK, StartMember, Coordinators
  <2>5. \A k \in Node : k # n => co'[k] = co[k]
    BY <2>1 DEF IInv, TypeOK
  <2>. QED
    BY <1>0, <1>1, <2>2, <2>4, <2>5, TimingAssumption
<1>5. ASSUME NEW n \in Node, Cancel(n) \/ Reboot(n)
      PROVE  DeadlineInv'
  <2>1. now' = now /\ \A k \in Node : k # n => co'[k] = co[k]
    BY <1>5 DEF Cancel, Reboot, IInv, TypeOK
  <2>2. co'[n].role = "None"
    <3>1. co'[n] \in {Stopped(co[n]), Constructed}
      BY <1>5 DEF Cancel, Reboot, Stop, IInv, TypeOK
    <3>2. Stopped(co[n]).role = "None"
      BY <1>0 DEF Stopped, Coordinators
    <3>. QED
      BY <3>1, <3>2 DEF Constructed
  <2>. QED
    BY <1>1, <2>1, <2>2
<1>6. ASSUME NEW n \in Node, UpdateService(n)
      PROVE  DeadlineInv'
  <2>1. now' = now
    BY <1>6 DEF UpdateService
  <2>2. co'[n].role = "None" \/ SameDeadline(co[n], co'[n])
    BY <1>6, TurnDeadline
  <2>3. Sound(n)'
    BY <2>2 DEF SameDeadline, DeadlineInv
  <2>4. \A k \in Node : k # n => co'[k] = co[k]
    BY <1>6, TurnDeadline
  <2>. QED
    BY <1>1, <2>1, <2>3, <2>4
<1>7. CASE (\E n \in Node : Receive(n)) \/ UNCHANGED vars
  BY <1>7 DEF Receive, vars, DeadlineInv
<1>. QED
  BY <1>2, <1>3, <1>4, <1>5, <1>6, <1>7 DEF Next

\* Deadlines lie a whole timeout after their start in every reachable state, if
\* the clock does not wrap.
LEMMA DeadlineInvariant == ASSUME NoWrap PROVE Spec => []DeadlineInv
<1>1. IInv /\ DeadlineInv /\ [Next]_vars => DeadlineInv'
  BY NextDeadline
<1>. QED
  BY <1>1, InitDeadline, PairingInvariant, PTL DEF Spec

\* The comment on the member's scan window is right for every timing as long as
\* the clock does not wrap: the wrap is all there is to pairing_clock_wrap.
THEOREM PairingScansItsWindow == ASSUME NoWrap PROVE Spec => MemberScansItsWindow
<1>1. ASSUME IInv, DeadlineInv, [Next]_vars, NEW n \in Node, co[n].role = "Member",
             UpdateService(n), co'[n].role = "None", ~KeyArrives(n)
      PROVE  Elapsed(now, co[n].until - MemberTimeout) >= MemberTimeout
  <2>1. Expired(co[n], now)
    <3>1. ~SameDeadline(co[n], co'[n])
      BY <1>1 DEF SameDeadline
    <3>. QED
      BY <1>1, <3>1, TurnDeadline
  <2>2. /\ now \in Nat /\ now < ClockMod /\ co[n].until \in Int
        /\ co[n].until >= MemberTimeout /\ now >= co[n].until /\ MemberTimeout \in Nat
    BY <1>1, <2>1, BoundAssumption, TimingAssumption DEF DeadlineInv, Expired, NoWrap
  <2>. DEFINE e == now - (co[n].until - MemberTimeout)
  <2>3. e \in 0 .. (ClockMod - 1) /\ e >= MemberTimeout
    BY <2>2, TimingAssumption
  <2>. HIDE DEF e
  <2>4. e % ClockMod = e
    BY <2>3, TimingAssumption
  <2>. QED
    BY <2>3, <2>4 DEF e, Elapsed
<1>2. IInv /\ DeadlineInv /\ [Next]_vars
      => [\A n \in Node :
            /\ co[n].role = "Member" /\ UpdateService(n)
            /\ co'[n].role = "None" /\ ~KeyArrives(n)
            => Elapsed(now, co[n].until - MemberTimeout) >= MemberTimeout]_vars
  BY <1>1
<1>. QED
  BY <1>2, PairingInvariant, DeadlineInvariant, PTL DEF Spec, MemberScansItsWindow

-----------------------------------------------------------------------------
(* SessionEnds without ENABLED. That the main loop turns and that the clock *)
(* goes on are hypotheses here; WF_vars(UpdateService(n)) implies the       *)
(* first, as a turn past the deadline ends the session and so is enabled.   *)

\* A session past its deadline does not wait for ever for a turn.
GetsItsTurn(n) ==
    <>[](ready[n] /\ Expired(co[n], now)) => []<><<UpdateService(n)>>_vars

\* The clock outlives every session.
OutlivesSessions ==
    LastStart + LeaderWindow <= MaxTime /\ LastStart + MemberTimeout <= MaxTime

\* Every session ends, for every device: with its key, by its user, or in the
\* first turn past its deadline, which comes.
THEOREM PairingSessionEnds ==
    ASSUME NoWrap, OutlivesSessions, NEW n \in Node
    PROVE  Spec /\ <>(now = MaxTime) /\ GetsItsTurn(n)
           => (co[n].role # "None" ~> co[n].role = "None")
<1>. DEFINE Late == now = MaxTime
            Goes == co[n].role # "None"
            Rests == co[n].role = "None"
            Over == ready[n] /\ Expired(co[n], now)
            Turn == UpdateService(n)
<1>1. Late /\ [Next]_vars => Late'
  BY BoundAssumption
  DEF Next, vars, Tick, OpenWindow, AskToJoin, Cancel, Reboot, Receive, UpdateService
<1>2. IInv /\ DeadlineInv /\ Late /\ Goes => Over
  <2>. SUFFICES ASSUME IInv, DeadlineInv, Late, Goes PROVE Over
    OBVIOUS
  <2>1. co[n].role \in {"Leader", "Member"} /\ co[n].state # "Idle"
    BY CoordinatorFields DEF IInv, TypeOK, CoordinatorInv, RoleFitsState, Roles
  <2>2. ready[n]
    BY <2>1 DEF IInv, TransportFollowsSession
  <2>3. co[n].until # 0 /\ now >= co[n].until
    BY <2>1, BoundAssumption, TimingAssumption DEF DeadlineInv, OutlivesSessions
  <2>. QED
    BY <2>2, <2>3 DEF Expired
<1>3. IInv /\ Over /\ Goes /\ <<Turn>>_vars => ~Goes'
  BY TurnDeadline
<1>4. Spec => [](IInv /\ DeadlineInv)
  BY PairingInvariant, DeadlineInvariant, PTL
<1>5. Spec => [][Next]_vars
  BY DEF Spec
<1>6. ~Goes => Rests
  OBVIOUS
<1>. HIDE DEF Late, Goes, Rests, Over, Turn
<1>7. Spec /\ <>Late /\ (<>[]Over => []<><<Turn>>_vars) => (Goes ~> Rests)
  BY <1>1, <1>2, <1>3, <1>4, <1>5, <1>6, PTL
<1>. QED
  BY <1>7 DEF Late, Goes, Rests, Over, Turn, GetsItsTurn
=============================================================================
