------------------------------- MODULE MtDedup -------------------------------
(***************************************************************************)
(* The packets the Meshtastic adapter has seen.                            *)
(*   modules/core_chat/src/infra/meshtastic/mt_dedup.cpp                   *)
(*                                                                         *)
(* A cache maps a packet's sender and id to how long ago it was marked.    *)
(* Times are differences of the 32-bit clock, which do not depend on where *)
(* it stands; they are counted up to Timeout + 1.                          *)
(***************************************************************************)
EXTENDS Integers, FiniteSets

CONSTANTS
    DedupMax,       \* MAX_CACHE_SIZE
    Timeout,        \* CACHE_TIMEOUT_MS
    CleanupEvery    \* 30000 ms between two sweeps

ASSUME DedupAssumption ==
    /\ DedupMax \in Nat \ {0}
    /\ CleanupEvery \in Nat \ {0} /\ Timeout \in Nat \ {0}

Ages == 0 .. Timeout + 1
Older(age, d) == IF age + d > Timeout THEN Timeout + 1 ELSE age + d
AllOlder(cache, d) == [k \in DOMAIN cache |-> Older(cache[k], d)]

\* PacketKey::operator<
Before(a, b) == a[1] < b[1] \/ (a[1] = b[1] /\ a[2] < b[2])

Only(cache, keys) == [k \in keys |-> cache[k]]

\* cleanup(), when the last sweep was idle ago
SweepDue(idle) == idle >= CleanupEvery

\* Mutant of Swept: a packet is forgotten a moment early.
SweptEarly(cache, idle) ==
    IF SweepDue(idle) THEN Only(cache, {k \in DOMAIN cache : cache[k] < Timeout})
    ELSE cache

Swept(cache, idle) ==
    IF SweepDue(idle) THEN Only(cache, {k \in DOMAIN cache : cache[k] <= Timeout})
    ELSE cache

\* markSeen() after isDuplicate() said no: a full cache drops begin(), its
\* smallest key.
Full(cache) == Cardinality(DOMAIN cache) >= DedupMax
Smallest(keys) == CHOOSE k \in keys : \A other \in keys \ {k} : Before(k, other)
Marked(cache, key) ==
    LET kept == IF Full(cache) THEN DOMAIN cache \ {Smallest(DOMAIN cache)}
                ELSE DOMAIN cache
    IN [k \in kept \union {key} |-> IF k = key THEN 0 ELSE cache[k]]
=============================================================================
