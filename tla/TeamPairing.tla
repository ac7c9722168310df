---------------------------- MODULE TeamPairing ----------------------------
(***************************************************************************)
(* Devices that pair into teams: on each a pairing service                 *)
(*   platform/esp/arduino_common/src/team/pairing/                         *)
(*                               team_pairing_service_espnow.cpp           *)
(*   platform/esp/idf_common/src/team/idf_lora_pairing_service.cpp         *)
(* (without a passphrase) around the coordinator of PairingCoordinator,    *)
(* and between them a radio that loses, repeats, delays and reorders.      *)
(*                                                                         *)
(* A service buffers ONE received packet.  Its update(), called once per   *)
(* turn of the main loop, hands that packet to the coordinator, then runs  *)
(* the coordinator's own update(), and tears the transport down when the   *)
(* coordinator has come to rest in Idle.                                   *)
(***************************************************************************)
EXTENDS PairingCoordinator

CONSTANTS
    Offers,         \* the sessions leaders may open: startLeader's arguments
    Joiners,        \* the devices whose user may ask to join
    KeepFirst,      \* a full buffer keeps its packet (ESP-NOW) or takes the new one (LoRa)
    NoPacket,       \* the empty buffer
    MaxTime,        \* bound: the clock stops here (ClockMod or more: it never stops)
    LastStart,      \* bound: no session is started later than this
    MaxNonce        \* bound: random numbers drawn per device

Sessions == [node : Node, team : Team, key : Nat \ {0}, psk : Psk,
             name : Name \cup {NoName}]

ASSUME OffersAssumption == Offers \subseteq Sessions
ASSUME JoinersAssumption == Joiners \subseteq Node
ASSUME BufferAssumption == KeepFirst \in BOOLEAN /\ NoPacket \notin Packets
ASSUME BoundAssumption == MaxTime \in Nat /\ LastStart \in Nat /\ MaxNonce \in Nat

VARIABLES
    now,        \* the millisecond clock, in ticks
    co,         \* co[n]: the coordinator of device n
    ready,      \* ready[n]: transport_ready_
    slot,       \* slot[n]: rx_packet_, NoPacket when !rx_pending_
    net,        \* every packet sent: the radio may deliver it at any time, or never
    fresh,      \* fresh[n]: how many random numbers device n has drawn
    opened,     \* history: the sessions leaders have opened
    adopted,    \* history: adopted[n], the key distributions device n took over
    known       \* history: known[n], the sessions its leader had opened for the
                \* team when device n accepted its last beacon

vars == << now, co, ready, slot, net, fresh, opened, adopted, known >>

Init ==
    /\ now = 0
    /\ co = [n \in Node |-> Constructed]
    /\ ready = [n \in Node |-> FALSE]
    /\ slot = [n \in Node |-> NoPacket]
    /\ net = {}
    /\ fresh = [n \in Node |-> 0]
    /\ opened = {}
    /\ adopted = [n \in Node |-> {}]
    /\ known = [n \in Node |-> {}]

-----------------------------------------------------------------------------
(* The user, the radio, the clock.                                          *)

\* A leader raises the key id of its team, it never lowers it.
MayOpen(o) ==
    /\ now <= LastStart
    /\ \A s \in opened : s.node = o.node /\ s.team = o.team => s.key <= o.key

\* startLeader(): the transport is begun, or is running already; a packet
\* waiting in the buffer stays there.
OpenWindow(n) ==
    /\ \E o \in Offers :
         /\ o.node = n
         /\ MayOpen(o)
         /\ co' = [co EXCEPT ![n] = StartLeader(n, co[n], o, now).co]
         /\ opened' = opened \cup {o}
    /\ ready' = [ready EXCEPT ![n] = TRUE]
    /\ known' = [known EXCEPT ![n] = {}]
    /\ UNCHANGED << now, slot, net, fresh, adopted >>

\* Random numbers drawn, with the one the waiting packet may cost.
Drawn(n) == fresh[n] + (IF slot[n] # NoPacket THEN 1 ELSE 0)

\* startMember()
AskToJoin(n) ==
    /\ n \in Joiners
    /\ now <= LastStart
    /\ Drawn(n) < MaxNonce
    /\ co' = [co EXCEPT ![n] = StartMember(co[n], fresh[n], now).co]
    /\ fresh' = [fresh EXCEPT ![n] = @ + 1]
    /\ ready' = [ready EXCEPT ![n] = TRUE]
    /\ known' = [known EXCEPT ![n] = {}]
    /\ UNCHANGED << now, slot, net, opened, adopted >>

\* Mutant of Cancel: the transport is left running.
CancelKeepingTransport(n) ==
    /\ co[n].role # "None"
    /\ co' = [co EXCEPT ![n] = Stop(co[n]).co]
    /\ known' = [known EXCEPT ![n] = {}]
    /\ UNCHANGED << now, ready, slot, net, fresh, opened, adopted >>

\* stop(): the coordinator stops and the transport goes down with its buffer.
Cancel(n) ==
    /\ co[n].role # "None"
    /\ co' = [co EXCEPT ![n] = Stop(co[n]).co]
    /\ ready' = [ready EXCEPT ![n] = FALSE]
    /\ slot' = [slot EXCEPT ![n] = NoPacket]
    /\ known' = [known EXCEPT ![n] = {}]
    /\ UNCHANGED << now, net, fresh, opened, adopted >>

\* The device restarts. Nothing of the handshake is stored.
Reboot(n) ==
    /\ co[n] # Constructed
    /\ co' = [co EXCEPT ![n] = Constructed]
    /\ ready' = [ready EXCEPT ![n] = FALSE]
    /\ slot' = [slot EXCEPT ![n] = NoPacket]
    /\ known' = [known EXCEPT ![n] = {}]
    /\ UNCHANGED << now, net, fresh, opened, adopted >>

\* onPairingReceive(): the radio delivers a packet addressed to n, once more or
\* for the first time, into the buffer. The packet stays deliverable, so it may
\* be lost, late, repeated and overtaken.
Receive(n) ==
    /\ ready[n]
    /\ KeepFirst => slot[n] = NoPacket
    /\ \E m \in net :
         /\ m.dst \in {n, Broadcast} /\ m.src # n
         /\ m.type = "Beacon" => fresh[n] < MaxNonce
         /\ slot' = [slot EXCEPT ![n] = m]
    /\ UNCHANGED << now, co, ready, net, fresh, opened, adopted, known >>

Tick ==
    /\ now < MaxTime
    /\ now' = After(now, 1)
    /\ UNCHANGED << co, ready, slot, net, fresh, opened, adopted, known >>

-----------------------------------------------------------------------------
(* update(), in one turn of the main loop.                                  *)

\* The coordinator with the buffered packet, if there is one.
Handled(n, ok) ==
    IF slot[n] = NoPacket THEN Nothing(co[n])
                          ELSE HandlePacket(n, co[n], slot[n], fresh[n], now, ok)

Rejoins(n) == slot[n] # NoPacket /\ slot[n].type = "Beacon" /\ AcceptsBeacon(co[n])

KeyDistsIn(ev) == {ev[i] : i \in {j \in DOMAIN ev : ev[j].kind = "KeyDist"}}

\* What the history of device n remembers of its leader.
KnownAfter(n, c) ==
    IF c.role = "None" THEN {}
    ELSE IF Rejoins(n)
         THEN {s \in opened : s.node = slot[n].src /\ s.team = slot[n].team}
         ELSE known[n]

UpdateService(n) ==
    /\ ready[n]
    /\ \E okPacket, okTurn \in BOOLEAN :
       \E a \in {Handled(n, okPacket)} :
         \E b \in {Update(n, a.co, now, okTurn)} :
             /\ co' = [co EXCEPT ![n] = b.co]
             /\ net' = net \cup a.tx \cup b.tx
             /\ adopted' = [adopted EXCEPT ![n] = @ \cup KeyDistsIn(a.ev) \cup KeyDistsIn(b.ev)]
             /\ ready' = [ready EXCEPT ![n] = b.co.state # "Idle"]
             /\ known' = [known EXCEPT ![n] = KnownAfter(n, b.co)]
    /\ slot' = [slot EXCEPT ![n] = NoPacket]
    /\ fresh' = [fresh EXCEPT ![n] = IF Rejoins(n) THEN @ + 1 ELSE @]
    /\ UNCHANGED << now, opened >>

Next ==
    \/ Tick
    \/ \E n \in Node : \/ OpenWindow(n)
                       \/ AskToJoin(n)
                       \/ Cancel(n)
                       \/ Reboot(n)
                       \/ Receive(n)
                       \/ UpdateService(n)

Spec == Init /\ [][Next]_vars

\* Time passes and every main loop keeps turning. Nothing is assumed of the
\* radio or of the user.
FairSpec == Spec /\ WF_vars(Tick) /\ \A n \in Node : WF_vars(UpdateService(n))

-----------------------------------------------------------------------------
(* Properties.                                                              *)

TypeOK ==
    /\ now \in Int
    /\ co \in [Node -> Coordinators]
    /\ ready \in [Node -> BOOLEAN]
    /\ slot \in [Node -> Packets \cup {NoPacket}]
    /\ net \in SUBSET Packets
    /\ fresh \in [Node -> Nat]
    /\ opened \in SUBSET Sessions
    /\ adopted \in [Node -> SUBSET KeyDists]
    /\ known \in [Node -> SUBSET Sessions]

\* A device that pairs holds the team, key id and channel key of one session
\* which the leader it names really opened: nothing is mixed from two beacons,
\* two leaders or two sessions, whatever the radio repeats, delays or reorders
\* (handleKey takes the team and the leader from its own fields, the key from
\* the packet).
KeyOfNamedLeader ==
    \A n \in Node : \A e \in adopted[n] :
        \E s \in opened : /\ s.node = e.from /\ s.team = e.team
                          /\ s.key = e.key /\ s.psk = e.psk

\* Two devices that paired into the same team under the same key id share one
\* channel key, provided the leaders of that team opened it with one: they can
\* decrypt each other.
OneKeyPerRound ==
    \A a, b \in UNION {adopted[n] : n \in Node} :
        a.team = b.team /\ a.key = b.key /\ a.psk # b.psk
        => \E s, t \in opened : s.team = t.team /\ s.key = t.key /\ s.psk # t.psk

\* A device never ends with a key older than one its leader had already opened
\* when the device accepted its beacon: an answer to an earlier join, delayed
\* past a rotation of the key, is not taken for an answer to this one (the
\* nonce handleBeacon draws).
NoKeyFromBeforeTheBeacon ==
    [][\A n \in Node : \A e \in adopted'[n] \ adopted[n] :
          \A s \in known[n] : s.team = e.team => e.key >= s.key]_vars

\* A running session always has its transport, so that update() keeps being
\* served and can end it, and a service at rest holds no packet that a later
\* session would take for its own (ensureTransport, shutdownTransport).
TransportFollowsSession ==
    \A n \in Node : /\ ready[n] <=> co[n].state # "Idle"
                    /\ ~ready[n] => slot[n] = NoPacket

\* Every session ends, with a key, by its deadline or by the user: neither a
\* member that keeps hearing beacons nor a leader that keeps answering joins
\* goes on for ever (the deadline is set once, at the start).
SessionEnds ==
    \A n \in Node : co[n].role # "None" ~> co[n].role = "None"

\* Nothing prolongs a session: in a turn of the main loop that does not end it,
\* its role and its deadline stay as the user set them, whatever packet the turn
\* handles, and the deadline is not over. A turn past the deadline is the last,
\* so a join that is answered too late is answered in the turn that ends the
\* session (update() looks at the deadline after the packet, in every state).
DeadlineStands ==
    [][\A n \in Node :
          UpdateService(n) /\ co'[n].role # "None"
          => /\ co'[n].role = co[n].role /\ co'[n].until = co[n].until
             /\ ~Expired(co[n], now)]_vars

\* The key the member waits for is in the buffer.
KeyArrives(n) ==
    slot[n] # NoPacket /\ slot[n].type = "Key" /\ AcceptsKey(co[n], slot[n])

\* The comment at team_pairing_coordinator.cpp:17: "the member's 30 s scan
\* window still catches ~15 beacons". A member whose turn ends its session
\* without a key has spent the whole of its timeout on it, as long as the clock
\* does not wrap.
MemberScansItsWindow ==
    [][\A n \in Node :
          /\ co[n].role = "Member" /\ UpdateService(n)
          /\ co'[n].role = "None" /\ ~KeyArrives(n)
          => Elapsed(now, co[n].until - MemberTimeout) >= MemberTimeout]_vars

\* The handshake implements the promise: seen through the roles, the sessions
\* opened and the keys taken over, every call is a step of PairingPromise or
\* changes nothing of it. In particular only a seeking device is admitted, the
\* admission ends its search, and no device is admitted by itself.
Phase == [n \in Node |-> co[n].role]

Promise == INSTANCE PairingPromise
             WITH Session <- Offers, phase <- Phase, offers <- opened, holds <- adopted

KeepsPromise == Promise!Spec

-----------------------------------------------------------------------------
(* The inductive invariant behind KeyOfNamedLeader and KeepsPromise. Its    *)
(* parts take the coordinator c of device n, the packets N sent, the random *)
(* numbers f drawn and the sessions S opened as parameters, because one     *)
(* update() is two calls of the coordinator.                                *)

Awaiting == {"JoinSent", "WaitingKey"}

\* The role and the state name the same thing.
RoleFitsState(c) ==
    /\ c.role = "None" <=> c.state = "Idle"
    /\ c.role = "Leader" <=> c.state = "LeaderBeacon"

\* A leader hands out the key of a session it opened, under its own id.
LeadsOpened(n, c, S) ==
    c.role = "Leader" => /\ c.leader = n
                         /\ \E s \in S : /\ s.node = n /\ s.team = c.team
                                         /\ s.key = c.key /\ s.psk = c.psk

\* A member that awaits a key awaits it from the leader it names.
AwaitsItsLeader(n, c) ==
    c.state \in Awaiting => /\ c.mac \in Node /\ c.mac # n
                            /\ c.leader = c.mac /\ c.team \in Team

\* The current nonce was drawn by this device, and only joins to the leader it
\* now awaits carry it.
NonceIsForLeader(n, c, N, f) ==
    c.role = "Member" =>
        /\ c.nonce < f
        /\ \A j \in N : j.type = "Join" /\ j.src = n /\ j.nonce = c.nonce
                        => c.state \in Awaiting /\ j.dst = c.mac

CoordinatorInv(n, c, N, f, S) ==
    /\ c \in Coordinators
    /\ RoleFitsState(c)
    /\ LeadsOpened(n, c, S)
    /\ AwaitsItsLeader(n, c)
    /\ NonceIsForLeader(n, c, N, f)

\* Beacons name their sender, joins carry numbers their sender has drawn, keys
\* are those of a session of their sender and answer a join sent to it.
PacketInv(m, N, f, S) ==
    /\ m.type = "Beacon" => m.leader = m.src
    /\ m.type = "Join" => m.nonce < f
    /\ m.type = "Key" => /\ \E s \in S : /\ s.node = m.src /\ s.team = m.team
                                         /\ s.key = m.key /\ s.psk = m.psk
                         /\ \E j \in N : /\ j.type = "Join" /\ j.src = m.dst
                                         /\ j.dst = m.src /\ j.nonce = m.nonce

BufferInv(n) ==
    slot[n] # NoPacket => /\ slot[n] \in net /\ slot[n].src # n
                          /\ slot[n].dst \in {n, Broadcast}

\* What a device holds was granted by a session of another device.
AdoptionInv(n) ==
    \A e \in adopted[n] : \E s \in opened : s.node # n /\ e = Promise!Grant(s)

IInv ==
    /\ TypeOK
    /\ opened \subseteq Offers
    /\ \A n \in Node : CoordinatorInv(n, co[n], net, fresh[n], opened)
    /\ \A m \in net : PacketInv(m, net, fresh[m.src], opened)
    /\ \A n \in Node : BufferInv(n)
    /\ \A n \in Node : AdoptionInv(n)
    /\ TransportFollowsSession

-----------------------------------------------------------------------------
(* What the repository says of pairing and the code does not do.            *)

\* docs/team/team_chat_protocol.md:221: "All ESP-NOW packets are only processed
\* within the pairing window." A leader hands out no key after its deadline.
KeysOnlyInWindow ==
    [][\A m \in net' \ net : m.type = "Key" => ~Expired(co[m.src], now)]_vars
=============================================================================
