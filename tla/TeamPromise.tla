---------------------------- MODULE TeamPromise ----------------------------
(***************************************************************************)
(* What a team promises the user of a device, without pages, frames,       *)
(* events, flash or restarts: the device gets the key of a team only while *)
(* its user asks for one, or with an answer that was under way when the    *)
(* user took that back; it keeps the key until the user leaves, and no key *)
(* is drawn twice.                                                         *)
(***************************************************************************)
CONSTANTS
    Node,
    Id,         \* team ids, NoId among them: the one that stands for none
    Key,        \* channel keys
    NoKey, NoId

VARIABLES
    asks,       \* asks[n]: the user of n wants to be in a team
    belated,    \* belated[n]: an answer to a wish taken back is under way
    key,        \* key[n]: the channel key of device n
    teams       \* the teams founded so far, [team, psk]

Init ==
    /\ asks = [n \in Node |-> FALSE]
    /\ belated = [n \in Node |-> FALSE]
    /\ key = [n \in Node |-> NoKey]
    /\ teams = {}

\* To the devices S nothing is sent after a wish was taken back; what is under
\* way to them arrives or is lost.
Dwindle(S) ==
    /\ belated' \in [Node -> BOOLEAN]
    /\ \A n \in S : belated'[n] => belated[n]

Ask(n) ==
    /\ asks' = [asks EXCEPT ![n] = TRUE]
    /\ Dwindle(Node)
    /\ UNCHANGED << key, teams >>

\* A team is founded under a key nobody has drawn, or under the one the device
\* already has.
Found(n) ==
    /\ \E t \in Id, k \in Key :
         /\ k = key[n] \/ \A c \in teams : c.psk # k
         /\ teams' = teams \cup {[team |-> t, psk |-> k]}
         /\ key' = [key EXCEPT ![n] = k]
    /\ asks' = [asks EXCEPT ![n] = TRUE]
    /\ Dwindle(Node)

Admit(n) ==
    /\ asks[n] \/ belated[n]
    /\ \E c \in teams : key' = [key EXCEPT ![n] = c.psk]
    /\ Dwindle(Node)
    /\ UNCHANGED << asks, teams >>

Lapse == Dwindle(Node) /\ UNCHANGED << asks, key, teams >>

\* The user cancels, and what the device holds stays, or leaves.
GiveUp(n) ==
    /\ asks' = [asks EXCEPT ![n] = FALSE]
    /\ key' = key \/ key' = [key EXCEPT ![n] = NoKey]
    /\ Dwindle(Node \ {n})
    /\ UNCHANGED teams

\* A key is lost against the will of its user: only where some team was founded
\* under the id that stands for none.
Forget(n) ==
    /\ \E c \in teams : c.team = NoId
    /\ key' = [key EXCEPT ![n] = NoKey]
    /\ Dwindle(Node)
    /\ UNCHANGED << asks, teams >>

Next ==
    \/ Lapse
    \/ \E n \in Node : Ask(n) \/ Found(n) \/ Admit(n) \/ GiveUp(n) \/ Forget(n)

Spec == Init /\ [][Next]_<< asks, belated, key, teams >>
=============================================================================
