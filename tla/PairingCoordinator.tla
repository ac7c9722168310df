------------------------- MODULE PairingCoordinator -------------------------
(***************************************************************************)
(* TeamPairingCoordinator: the Beacon / Join / Key handshake by which a    *)
(* leader hands the key of its team to the devices that join it            *)
(* (modules/core_team/src/usecase/team_pairing_coordinator.cpp).           *)
(*                                                                         *)
(* The coordinator is a passive object: its owner calls it with the time,  *)
(* with a packet or with a user command.  Every call is therefore a        *)
(* function of the coordinator's fields (a record c of Coordinators) and   *)
(* its arguments, and what it does is a result of three parts:             *)
(*   co   the fields after the call,                                       *)
(*   tx   the packets it handed to the transport,                          *)
(*   ev   what it published to its event sink, in order.                   *)
(* Module TeamPairing puts coordinators on devices and a radio between     *)
(* them.                                                                   *)
(*                                                                         *)
(* Times are ticks of the 32-bit millisecond clock, which wraps: ClockMod  *)
(* stands for 2^32.  A field the code guards with a flag is one field with *)
(* a null: NoTeam is !has_team_id_, NoName !has_team_name_, NoNode an      *)
(* invalid leader_mac_ or a leader_id_ of 0, NoPsk a key of length 0.      *)
(***************************************************************************)
EXTENDS Integers, Sequences

CONSTANTS
    Node,           \* the devices; a device is its node id and its MAC
    Team,           \* team ids
    Psk,            \* channel keys (16 bytes each)
    Name,           \* team names
    NoNode, NoTeam, NoPsk, NoName,
    Broadcast,      \* the MAC FF:FF:FF:FF:FF:FF
    ClockMod,       \* the clock counts modulo this
    LeaderWindow, MemberTimeout, BeaconInterval,
    JoinRetry, JoinRetryMax, JoinSentHold

ASSUME NullAssumption ==
    /\ NoNode \notin Node /\ Broadcast \notin Node
    /\ NoTeam \notin Team /\ NoPsk \notin Psk /\ NoName \notin Name

ASSUME TimingAssumption ==
    /\ ClockMod \in Nat \ {0}
    /\ LeaderWindow \in Nat \ {0} /\ MemberTimeout \in Nat \ {0}
    /\ BeaconInterval \in Nat \ {0} /\ JoinRetry \in Nat \ {0}
    /\ JoinRetryMax \in Nat \ {0} /\ JoinSentHold \in Nat \ {0}

Roles == {"None", "Leader", "Member"}

\* The states a coordinator rests in. Completed and Failed are published and
\* left again within one call.
RestingStates == {"Idle", "LeaderBeacon", "MemberScanning", "JoinSent", "WaitingKey"}

Coordinators ==
    [role : Roles, state : RestingStates,
     until : Int, lastBeacon : Int, lastJoin : Int, joinSent : Int,
     attempts : 0 .. JoinRetryMax,
     team : Team \cup {NoTeam}, key : Nat, leader : Node \cup {NoNode},
     nonce : Nat, psk : Psk \cup {NoPsk}, name : Name \cup {NoName},
     mac : Node \cup {NoNode}]

Beacons == [type : {"Beacon"}, src : Node, dst : {Broadcast}, team : Team,
            key : Nat, leader : Node, name : Name \cup {NoName}]
Joins   == [type : {"Join"}, src : Node, dst : Node, team : Team, nonce : Nat]
Keys    == [type : {"Key"}, src : Node, dst : Node, team : Team, key : Nat,
            nonce : Nat, psk : Psk]
Packets == Beacons \cup Joins \cup Keys

Constructed ==
    [role |-> "None", state |-> "Idle",
     until |-> 0, lastBeacon |-> 0, lastJoin |-> 0, joinSent |-> 0,
     attempts |-> 0, team |-> NoTeam, key |-> 0, leader |-> NoNode,
     nonce |-> 0, psk |-> NoPsk, name |-> NoName, mac |-> NoNode]

-----------------------------------------------------------------------------
(* The clock. Elapsed subtracts in uint32_t and survives the wrap; Expired  *)
(* compares with <= and does not.                                           *)

After(t, d) == (t + d) % ClockMod
Elapsed(t, since) == (t - since) % ClockMod
\* Mutant of Expired: no deadline while the key is awaited.
ExpiredUnlessWaiting(c, t) == c.until # 0 /\ t >= c.until /\ c.state # "WaitingKey"

\* Mutant of Expired: a member gives up when its joins are used up.
ExpiredOnceAsked(c, t) ==
    \/ c.until # 0 /\ t >= c.until
    \/ c.state = "WaitingKey" /\ c.attempts = JoinRetryMax

Expired(c, t) == c.until # 0 /\ t >= c.until

-----------------------------------------------------------------------------
(* What the coordinator publishes.                                          *)

StateEvent(c, peer) ==
    [kind |-> "State", role |-> c.role, state |-> c.state, team |-> c.team,
     key |-> c.key, name |-> c.name, peer |-> peer]

KeyDists == [kind : {"KeyDist"}, team : Team, key : Nat, psk : Psk,
             from : Node \cup {NoNode}]

Stopped(c) == [c EXCEPT !.role = "None", !.state = "Idle"]

Nothing(c) == [co |-> c, tx |-> {}, ev |-> << >>]

\* stop()
Stop(c) == [co |-> Stopped(c), tx |-> {}, ev |-> << StateEvent(Stopped(c), NoNode) >>]

-----------------------------------------------------------------------------
(* User commands.                                                           *)

\* startLeader(): o is the session to open. The psk is never empty: every
\* caller passes the 16 bytes of its team key.
StartLeader(n, c, o, t) ==
    LET d == [c EXCEPT !.role = "Leader", !.state = "LeaderBeacon",
                       !.team = o.team, !.key = o.key, !.leader = n,
                       !.name = o.name, !.psk = o.psk,
                       !.until = After(t, LeaderWindow),
                       !.lastBeacon = 0, !.attempts = 0, !.joinSent = 0]
    IN  [co |-> d, tx |-> {}, ev |-> << StateEvent(d, NoNode) >>]

\* startMember(): x is the random number it draws.
StartMember(c, x, t) ==
    LET d == [c EXCEPT !.role = "Member", !.state = "MemberScanning",
                       !.leader = NoNode, !.mac = NoNode, !.team = NoTeam,
                       !.key = 0, !.name = NoName, !.nonce = x,
                       !.until = After(t, MemberTimeout),
                       !.lastJoin = 0, !.attempts = 0, !.joinSent = 0]
    IN  [co |-> d, tx |-> {}, ev |-> << StateEvent(d, NoNode) >>]

-----------------------------------------------------------------------------
(* Sending. ok is what the transport answers: a send it refuses leaves the  *)
(* retry bookkeeping as it was.                                             *)

SendBeacon(n, c, t, ok) ==
    IF ok THEN [co |-> [c EXCEPT !.lastBeacon = t],
                tx |-> {[type |-> "Beacon", src |-> n, dst |-> Broadcast,
                         team |-> c.team, key |-> c.key, leader |-> c.leader,
                         name |-> c.name]},
                ev |-> << >>]
          ELSE Nothing(c)

SendJoin(n, c, t, ok) ==
    IF ok /\ c.mac # NoNode
    THEN [co |-> [c EXCEPT !.lastJoin = t, !.attempts = @ + 1],
          tx |-> {[type |-> "Join", src |-> n, dst |-> c.mac, team |-> c.team,
                   nonce |-> c.nonce]},
          ev |-> << >>]
    ELSE Nothing(c)

KeyFor(n, c, m) ==
    [type |-> "Key", src |-> n, dst |-> m.src, team |-> c.team, key |-> c.key,
     nonce |-> m.nonce, psk |-> c.psk]

-----------------------------------------------------------------------------
(* handleIncomingPacket(). m is a packet the radio delivered, x the random  *)
(* number handleBeacon would draw.                                          *)

AcceptsBeacon(c) ==
    c.role = "Member" /\ c.state \in {"MemberScanning", "JoinSent", "WaitingKey"}

AcceptsJoin(c, m) ==
    c.role = "Leader" /\ c.state = "LeaderBeacon" /\ c.team # NoTeam /\ m.team = c.team

\* Mutant of AcceptsKey: the nonce is not compared.
AcceptsKeyOfTeam(c, m) ==
    /\ c.role = "Member" /\ c.state \in {"JoinSent", "WaitingKey"}
    /\ c.team # NoTeam /\ m.team = c.team

AcceptsKey(c, m) ==
    /\ c.role = "Member" /\ c.state \in {"JoinSent", "WaitingKey"}
    /\ c.team # NoTeam /\ m.team = c.team
    /\ m.nonce = c.nonce

\* Mutant of Heard: the nonce of the session is kept.
HeardSameNonce(c, m, x) ==
    [c EXCEPT !.team = m.team, !.key = m.key, !.leader = m.leader,
              !.name = IF m.name = NoName THEN @ ELSE m.name,
              !.mac = m.src, !.attempts = 0]

\* What handleBeacon takes over from the beacon. A beacon without a name
\* leaves the name of an earlier one in place.
Heard(c, m, x) ==
    [c EXCEPT !.team = m.team, !.key = m.key, !.leader = m.leader,
              !.name = IF m.name = NoName THEN @ ELSE m.name,
              !.mac = m.src, !.nonce = x, !.attempts = 0]

\* Mutant of HandleBeacon: every beacon starts the search anew.
HandleBeaconAnew(n, c, m, x, t, ok) ==
    LET sent == SendJoin(n, Heard(c, m, x), t, ok)
        d == [sent.co EXCEPT !.joinSent = t, !.state = "JoinSent",
                             !.until = After(t, MemberTimeout)]
    IN  IF AcceptsBeacon(c)
        THEN [co |-> d, tx |-> sent.tx, ev |-> << StateEvent(d, NoNode) >>]
        ELSE Nothing(c)

HandleBeacon(n, c, m, x, t, ok) ==
    LET sent == SendJoin(n, Heard(c, m, x), t, ok)
        d == [sent.co EXCEPT !.joinSent = t, !.state = "JoinSent"]
    IN  IF AcceptsBeacon(c)
        THEN [co |-> d, tx |-> sent.tx, ev |-> << StateEvent(d, NoNode) >>]
        ELSE Nothing(c)

\* The leader answers a join and stays in its window, ready for the next one.
HandleJoin(n, c, m, ok) ==
    IF AcceptsJoin(c, m) /\ c.psk # NoPsk /\ ok
    THEN [co |-> c, tx |-> {KeyFor(n, c, m)}, ev |-> << StateEvent(c, m.src) >>]
    ELSE Nothing(c)

\* Mutant of Keyed: the key id stays the one of the beacon.
KeyedUnderBeaconKey(c, m) == [c EXCEPT !.psk = m.psk]

Keyed(c, m) == [c EXCEPT !.psk = m.psk, !.key = m.key]

KeyDistOf(c, m) ==
    [kind |-> "KeyDist", team |-> c.team, key |-> Keyed(c, m).key,
     psk |-> Keyed(c, m).psk, from |-> c.leader]

\* Mutant of HandleKey: the session goes on after the key.
HandleKeyGoingOn(c, m) ==
    IF AcceptsKey(c, m)
    THEN [co |-> Keyed(c, m), tx |-> {}, ev |-> << KeyDistOf(c, m) >>]
    ELSE Nothing(c)

HandleKey(c, m) ==
    LET d == Keyed(c, m)
    IN  IF AcceptsKey(c, m)
        THEN [co |-> Stopped(d), tx |-> {},
              ev |-> << KeyDistOf(c, m),
                        StateEvent([d EXCEPT !.state = "Completed"], c.leader),
                        StateEvent(Stopped(d), NoNode) >>]
        ELSE Nothing(c)

HandlePacket(n, c, m, x, t, ok) ==
    CASE m.type = "Beacon" -> HandleBeacon(n, c, m, x, t, ok)
      [] m.type = "Join"   -> HandleJoin(n, c, m, ok)
      [] m.type = "Key"    -> HandleKey(c, m)

-----------------------------------------------------------------------------
(* update(), called once per turn of the device's main loop.                *)

\* JoinSent is held for a moment, for the screen, before WaitingKey.
HoldOver(c, t) == c.state = "JoinSent" /\ Elapsed(t, c.joinSent) >= JoinSentHold
Held(c, t) == IF HoldOver(c, t) THEN [c EXCEPT !.state = "WaitingKey"] ELSE c
HeldEvents(c, t) == IF HoldOver(c, t) THEN << StateEvent(Held(c, t), NoNode) >> ELSE << >>

Failure(c, before) ==
    [co |-> Stopped(c), tx |-> {},
     ev |-> before \o << StateEvent([c EXCEPT !.state = "Failed"], NoNode),
                         StateEvent(Stopped(c), NoNode) >>]

BeaconDue(c, t) == c.state = "LeaderBeacon" /\ Elapsed(t, c.lastBeacon) >= BeaconInterval

\* Mutant of RetryDue: one join too many.
RetryDueOnceMore(c, t) ==
    /\ c.state = "WaitingKey" /\ c.mac # NoNode
    /\ Elapsed(t, c.lastJoin) >= JoinRetry
    /\ c.attempts <= JoinRetryMax

RetryDue(c, t) ==
    /\ c.state = "WaitingKey" /\ c.mac # NoNode
    /\ Elapsed(t, c.lastJoin) >= JoinRetry
    /\ c.attempts < JoinRetryMax

Update(n, c, t, ok) ==
    CASE c.state # "Idle" /\ Expired(c, t) -> Failure(Held(c, t), HeldEvents(c, t))
      [] c.state # "Idle" /\ ~Expired(c, t) /\ BeaconDue(c, t) -> SendBeacon(n, c, t, ok)
      [] c.state # "Idle" /\ ~Expired(c, t) /\ RetryDue(c, t)  -> SendJoin(n, c, t, ok)
      [] OTHER -> [co |-> Held(c, t), tx |-> {}, ev |-> HeldEvents(c, t)]
=============================================================================
