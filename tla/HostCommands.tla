---------------------------- MODULE HostCommands ----------------------------
(***************************************************************************)
(* What the link promises a PC of the commands it accepts, without frames, *)
(* tasks, queues of events or a line that comes and goes: they are run in  *)
(* the order they were accepted in, each once at most, and none outlives   *)
(* the session it was accepted in.                                         *)
(***************************************************************************)
EXTENDS Naturals

VARIABLES
    opened,    \* sessions opened so far
    last,      \* commands accepted so far: the number of the last one
    pending,   \* accepted and neither run nor dropped
    done       \* run

Init ==
    /\ opened = 0 /\ last = 0
    /\ pending = {} /\ done = {}

Open ==
    /\ pending = {}
    /\ opened' = opened + 1
    /\ UNCHANGED << last, pending, done >>

Accept ==
    /\ last' = last + 1
    /\ pending' = pending \cup {last'}
    /\ UNCHANGED << opened, done >>

Run ==
    /\ \E c \in pending :
         /\ \A d \in pending : c <= d
         /\ \A d \in done : d < c
         /\ pending' = pending \ {c}
         /\ done' = done \cup {c}
    /\ UNCHANGED << opened, last >>

\* The session is over, or its commands are given up.
Drop ==
    /\ pending' = {}
    /\ UNCHANGED << opened, last, done >>

Next == Open \/ Accept \/ Run \/ Drop

Spec == Init /\ [][Next]_<< opened, last, pending, done >>
=============================================================================
