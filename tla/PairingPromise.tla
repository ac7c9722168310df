--------------------------- MODULE PairingPromise ---------------------------
(***************************************************************************)
(* What pairing promises, without packets, timers or nonces: a device that *)
(* seeks a team is handed the key of one session which some other device   *)
(* has opened, whole, and its search ends with that.                       *)
(***************************************************************************)
CONSTANTS Node, Session     \* a session: [node, team, key, psk, name]

VARIABLES
    phase,      \* phase[n]: what device n is doing, "None", "Leader" or "Member"
    offers,     \* the sessions opened so far
    holds       \* holds[n]: the grants device n was handed

Grant(s) == [kind |-> "KeyDist", team |-> s.team, key |-> s.key, psk |-> s.psk,
             from |-> s.node]

Init ==
    /\ phase = [n \in Node |-> "None"]
    /\ offers = {}
    /\ holds = [n \in Node |-> {}]

Lead(n) ==
    /\ \E s \in Session : s.node = n /\ offers' = offers \cup {s}
    /\ phase' = [phase EXCEPT ![n] = "Leader"]
    /\ UNCHANGED holds

Seek(n) ==
    /\ phase' = [phase EXCEPT ![n] = "Member"]
    /\ UNCHANGED << offers, holds >>

Admit(n) ==
    /\ phase[n] = "Member"
    /\ \E s \in offers : /\ s.node # n
                         /\ holds' = [holds EXCEPT ![n] = @ \cup {Grant(s)}]
    /\ phase' = [phase EXCEPT ![n] = "None"]
    /\ UNCHANGED offers

Rest(n) ==
    /\ phase' = [phase EXCEPT ![n] = "None"]
    /\ UNCHANGED << offers, holds >>

Next == \E n \in Node : Lead(n) \/ Seek(n) \/ Admit(n) \/ Rest(n)

Spec == Init /\ [][Next]_<< phase, offers, holds >>
=============================================================================
