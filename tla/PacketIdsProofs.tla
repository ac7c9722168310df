--------------------------- MODULE PacketIdsProofs ---------------------------
(***************************************************************************)
(* No packet id is used twice with a private key, for every size of the    *)
(* blocks, every largest id and every set of keys. What carries the proof  *)
(* is that an id that was used lies below the allocator's next one, and    *)
(* below the mark on flash, for every key that is no older than the        *)
(* counter, and that the older ones that are still configured are listed.  *)
(***************************************************************************)
EXTENDS PacketIds, TLAPS

\* The keys that this counter has known from their first use on.
KnownKeys == Keys \ spent

Below(ids, n) == \A id \in ids : id < n

\* What the flash promises to the next boot.
FlashInv ==
    /\ flash # NoBlob =>
         /\ flash.high >= 1
         /\ config \intersect spent \subseteq flash.legacy
         /\ \A k \in KnownKeys : Below(air[k], flash.high)
    /\ flash = NoBlob => \A k \in KnownKeys : air[k] = {}

\* What a boot has in memory: the record of the flash, and a next id within the
\* block that is reserved.
RamInv ==
    ram.state = "Ready" =>
        /\ flash # NoBlob
        /\ ram.end = flash.high /\ ram.legacy = flash.legacy
        /\ 1 <= ram.next /\ ram.next <= ram.end
        /\ \A k \in KnownKeys : Below(air[k], ram.next)

IdInv == IdTypeOK /\ FlashInv /\ RamInv /\ NonceOnce

LEMMA IdInvInit == IdInit => IdInv
<1>. SUFFICES ASSUME IdInit PROVE IdInv
  OBVIOUS
<1>. USE IdAssumption DEF IdInit
<1>1. IdTypeOK
  BY DEF IdTypeOK, Blobs, NoBlob, Idle
<1>2. FlashInv
  BY DEF FlashInv, KnownKeys
<1>3. RamInv
  BY DEF RamInv, Idle
<1>. QED
  BY <1>1, <1>2, <1>3 DEF IdInv, NonceOnce

\* A record that was made or loaded is a good one.
LEMMA BlobTyped ==
    ASSUME NEW high \in 0 .. End, NEW legacy \in SUBSET Keys
    PROVE  /\ [high |-> high, legacy |-> legacy] \in Blobs
           /\ high >= 1 => [high |-> high, legacy |-> legacy] # NoBlob
BY IdAssumption DEF Blobs, NoBlob

LEMMA InitializeKeeps == ASSUME IdInv, Initialize PROVE IdInv'
<1>. DEFINE blob == IF flash = NoBlob THEN [high |-> 1, legacy |-> config] ELSE flash
<1>. USE IdAssumption
<1>1. /\ flash' \in {flash, blob}
      /\ ram' \in {Ready(blob), Idle("Failed")}
      /\ ram' = Ready(blob) => flash' = blob
      /\ UNCHANGED << config, spent, air, reused >>
  BY DEF Initialize, Ready, Idle
<1>2. blob \in Blobs /\ blob.high >= 1 /\ blob # NoBlob
  BY DEF IdInv, IdTypeOK, FlashInv, Blobs, NoBlob
<1>3. IdTypeOK'
  BY <1>1, <1>2 DEF IdInv, IdTypeOK, Ready, Idle, Blobs
<1>4. /\ config \intersect spent \subseteq blob.legacy
      /\ \A k \in KnownKeys : Below(air[k], blob.high)
  BY DEF IdInv, FlashInv, KnownKeys, Below
<1>5. FlashInv'
  BY <1>1, <1>2, <1>4 DEF IdInv, FlashInv, KnownKeys, Below
<1>6. RamInv'
  <2>. SUFFICES ASSUME ram'.state = "Ready" PROVE RamInv'
    BY DEF RamInv
  <2>1. ram' = Ready(blob) /\ flash' = blob
    BY <1>1 DEF Idle
  <2>2. blob.high \in Nat
    BY <1>2 DEF Blobs
  <2>. QED
    BY <1>1, <1>2, <1>4, <2>1, <2>2 DEF RamInv, Ready, KnownKeys, Below
<1>. QED
  BY <1>1, <1>3, <1>5, <1>6 DEF IdInv, NonceOnce

\* A key that gets an id is the public one or known to this counter.
LEMMA UsedKeyIsKnown ==
    ASSUME IdInv, NEW k \in config \union {Public}, MayUse(k)
    PROVE  k \in Keys => k \in KnownKeys
BY IdAssumption DEF IdInv, IdTypeOK, FlashInv, RamInv, MayUse, KnownKeys

LEMMA AllocateKeeps ==
    ASSUME IdInv, NEW k \in config \union {Public}, Allocate(k) PROVE IdInv'
<1>. USE IdAssumption
<1>1. /\ ram.state = "Ready" /\ ram.next \in 0 .. End /\ ram.end \in 0 .. End
      /\ ram.legacy \in SUBSET Keys
      /\ ram \in [state : {"Off", "Ready", "Failed"}, next : 0 .. End, end : 0 .. End,
                  legacy : SUBSET Keys]
      /\ flash # NoBlob /\ ram.end = flash.high /\ ram.legacy = flash.legacy
      /\ 1 <= ram.next /\ ram.next <= ram.end
  BY DEF Allocate, MayUse, IdInv, IdTypeOK, RamInv
<1>2. PICK end \in 0 .. End :
        /\ ram.next < end /\ ram.end <= end
        /\ ram' = [ram EXCEPT !.next = Id + 1, !.end = end]
        /\ flash' = [high |-> end, legacy |-> ram.legacy]
  <2>1. CASE Reserved /\ ram' = [ram EXCEPT !.next = Id + 1] /\ UNCHANGED flash
    <3>1. flash = [high |-> ram.end, legacy |-> ram.legacy]
      BY <1>1 DEF IdInv, IdTypeOK, Blobs
    <3>2. ram' = [ram EXCEPT !.next = Id + 1, !.end = ram.end]
      BY <1>1, <2>1
    <3>3. ram.end \in 0 .. End /\ ram.next < ram.end /\ ram.end <= ram.end
      BY <1>1, <2>1 DEF Reserved
    <3>4. flash' = [high |-> ram.end, legacy |-> ram.legacy]
      BY <2>1, <3>1
    <3>. QED
      BY <3>2, <3>3, <3>4
  <2>2. CASE /\ ~Reserved /\ ~Exhausted
             /\ flash' = [high |-> NewEnd, legacy |-> ram.legacy]
             /\ ram' = [ram EXCEPT !.next = Id + 1, !.end = NewEnd]
    <3>1. NewEnd \in 0 .. End /\ ram.next < NewEnd /\ ram.end <= NewEnd
      BY <1>1, <2>2 DEF NewEnd, Exhausted, Reserved
    <3>. QED
      BY <2>2, <3>1
  <2>. QED
    BY <2>1, <2>2 DEF Allocate
<1>3. Id = ram.next /\ Id \in 0 .. End - 1 /\ Id + 1 \in 0 .. End
  BY <1>1, <1>2 DEF Id, Cast
<1>4. /\ UNCHANGED << config, spent >>
      /\ HandOut(k, Id)
  BY DEF Allocate
<1>5. k \in Keys => k \in KnownKeys /\ Id \notin air[k]
  <2>1. k \in Keys => k \in KnownKeys
    BY UsedKeyIsKnown DEF Allocate
  <2>2. \A i \in KnownKeys : Below(air[i], ram.next)
    BY <1>1 DEF IdInv, RamInv
  <2>. QED
    BY <1>1, <1>3, <2>1, <2>2 DEF Below
<1>6. NonceOnce'
  BY <1>4, <1>5 DEF HandOut, IdInv, NonceOnce
<1>7. \A i \in Keys : air'[i] = IF i = k THEN air[i] \union {Id} ELSE air[i]
  BY <1>4 DEF HandOut, IdInv, IdTypeOK
<1>8. air' \in [Keys -> SUBSET (0 .. End - 1)]
  BY <1>3, <1>4 DEF HandOut, IdInv, IdTypeOK
<1>9. IdTypeOK'
  <2>1. ram' \in [state : {"Off", "Ready", "Failed"}, next : 0 .. End, end : 0 .. End,
                  legacy : SUBSET Keys]
    BY <1>1, <1>2, <1>3
  <2>2. flash' \in Blobs
    BY <1>1, <1>2 DEF Blobs
  <2>. QED
    BY <1>4, <1>6, <1>8, <2>1, <2>2 DEF IdInv, IdTypeOK, NonceOnce
<1>10. ram'.next = ram.next + 1 /\ ram'.end = flash'.high /\ ram'.legacy = flash'.legacy
       /\ ram'.state = "Ready" /\ flash'.high \in Nat /\ ram'.next <= flash'.high
       /\ flash'.legacy = flash.legacy
  BY <1>1, <1>2, <1>3
<1>11. \A i \in KnownKeys' : Below(air'[i], ram'.next)
  <2>. SUFFICES ASSUME NEW i \in KnownKeys', NEW id \in air'[i] PROVE id < ram'.next
    BY DEF Below
  <2>1. i \in KnownKeys /\ i \in Keys
    BY <1>4 DEF KnownKeys
  <2>2. id \in 0 .. End - 1
    BY <1>8, <2>1
  <2>3. CASE id \in air[i]
    BY <1>1, <1>10, <2>1, <2>2, <2>3 DEF IdInv, RamInv, Below
  <2>4. CASE id = Id
    BY <1>1, <1>3, <1>10, <2>4
  <2>. QED
    BY <1>7, <2>1, <2>3, <2>4
<1>12. flash' # NoBlob /\ flash'.high >= 1
  BY <1>1, <1>2 DEF NoBlob
<1>13. FlashInv'
  <2>1. config' \intersect spent' \subseteq flash'.legacy
    BY <1>1, <1>4, <1>10 DEF IdInv, FlashInv
  <2>2. \A i \in KnownKeys' : Below(air'[i], flash'.high)
    <3>. SUFFICES ASSUME NEW i \in KnownKeys', NEW id \in air'[i] PROVE id < flash'.high
      BY DEF Below
    <3>1. id < ram'.next /\ id \in Nat
      BY <1>8, <1>11 DEF Below, KnownKeys
    <3>. QED
      BY <1>1, <1>10, <3>1
  <2>. QED
    BY <1>12, <2>1, <2>2 DEF FlashInv
<1>14. RamInv'
  BY <1>1, <1>10, <1>11, <1>12 DEF RamInv
<1>. QED
  BY <1>6, <1>9, <1>13, <1>14 DEF IdInv

LEMMA AllocateFailsKeeps ==
    ASSUME IdInv, NEW k, AllocateFails(k) PROVE IdInv'
<1>. USE IdAssumption
<1>1. /\ ram.state = "Ready" /\ ram.next \in 0 .. End /\ ram.end \in 0 .. End
      /\ flash # NoBlob /\ ram.end = flash.high /\ ram.legacy = flash.legacy
      /\ ram.legacy \in SUBSET Keys /\ flash.high >= 1
  BY DEF AllocateFails, IdInv, IdTypeOK, RamInv, FlashInv
<1>2. /\ ram' = Idle("Failed")
      /\ UNCHANGED << config, spent, air, reused >>
  BY DEF AllocateFails
<1>3. PICK high \in 0 .. End : high >= flash.high /\ flash' = [high |-> high, legacy |-> flash.legacy]
  <2>1. flash = [high |-> flash.high, legacy |-> flash.legacy] /\ flash.high \in 0 .. End
    BY DEF IdInv, IdTypeOK, Blobs
  <2>2. NewEnd \in 0 .. End /\ (~Reserved /\ ~Exhausted => NewEnd >= flash.high)
    BY <1>1 DEF NewEnd, Exhausted
  <2>3. \/ flash' = flash
        \/ ~Reserved /\ ~Exhausted /\ flash' = [high |-> NewEnd, legacy |-> ram.legacy]
    BY DEF AllocateFails
  <2>. QED
    BY <1>1, <2>1, <2>2, <2>3
<1>4. flash' \in Blobs /\ flash' # NoBlob /\ flash'.high >= 1 /\ flash'.high = high
      /\ flash'.legacy = flash.legacy
  BY <1>1, <1>3 DEF Blobs, NoBlob
<1>5. IdTypeOK'
  BY <1>2, <1>4 DEF IdInv, IdTypeOK, Idle
<1>6. FlashInv'
  <2>1. \A i \in KnownKeys' : Below(air'[i], flash'.high)
    <3>. SUFFICES ASSUME NEW i \in KnownKeys', NEW id \in air'[i] PROVE id < flash'.high
      BY DEF Below
    <3>1. id < flash.high /\ id \in Nat
      BY <1>1, <1>2 DEF IdInv, IdTypeOK, FlashInv, KnownKeys, Below
    <3>. QED
      BY <1>1, <1>3, <1>4, <3>1
  <2>. QED
    BY <1>1, <1>2, <1>4, <2>1 DEF IdInv, FlashInv
<1>7. RamInv'
  BY <1>2 DEF RamInv, Idle
<1>. QED
  BY <1>2, <1>5, <1>6, <1>7 DEF IdInv, NonceOnce

LEMMA ConfigureKeeps == ASSUME IdInv, Configure PROVE IdInv'
<1>. PICK new \in SUBSET Keys : (new \ config) \intersect spent = {} /\ config' = new
  BY DEF Configure
<1>1. UNCHANGED << flash, ram, spent, air, reused >>
  BY DEF Configure
<1>2. config' \intersect spent' \subseteq config \intersect spent
  BY <1>1
<1>3. IdTypeOK'
  BY <1>1 DEF IdInv, IdTypeOK
<1>4. FlashInv'
  BY <1>1, <1>2 DEF IdInv, FlashInv, KnownKeys
<1>5. RamInv'
  BY <1>1 DEF IdInv, RamInv, KnownKeys
<1>. QED
  BY <1>1, <1>3, <1>4, <1>5 DEF IdInv, NonceOnce

LEMMA IdRestartKeeps == ASSUME IdInv, IdRestart PROVE IdInv'
<1>1. IdTypeOK'
  BY IdAssumption DEF IdRestart, IdInv, IdTypeOK, Idle
<1>2. FlashInv'
  BY DEF IdRestart, IdInv, FlashInv, KnownKeys
<1>3. RamInv'
  BY DEF IdRestart, RamInv, Idle
<1>. QED
  BY <1>1, <1>2, <1>3 DEF IdRestart, IdInv, NonceOnce

LEMMA EraseKeeps == ASSUME IdInv, Erase PROVE IdInv'
<1>1. IdTypeOK'
  BY IdAssumption DEF Erase, IdInv, IdTypeOK, NoBlob, Blobs
<1>2. FlashInv'
  BY DEF Erase, IdInv, IdTypeOK, FlashInv, KnownKeys
<1>3. RamInv'
  BY DEF Erase, IdInv, RamInv
<1>. QED
  BY <1>1, <1>2, <1>3 DEF Erase, IdInv, NonceOnce

LEMMA IdInvStep == IdInv /\ [IdNext]_idVars => IdInv'
<1>. SUFFICES ASSUME IdInv, [IdNext]_idVars PROVE IdInv'
  OBVIOUS
<1>1. CASE Initialize
  BY <1>1, InitializeKeeps
<1>2. CASE Configure
  BY <1>2, ConfigureKeeps
<1>3. CASE IdRestart
  BY <1>3, IdRestartKeeps
<1>4. CASE Erase
  BY <1>4, EraseKeeps
<1>5. ASSUME NEW k \in config \union {Public}, OtherPacket(k) PROVE IdInv'
  <2>1. CASE Allocate(k)
    BY <2>1, AllocateKeeps
  <2>2. CASE AllocateFails(k)
    BY <2>2, AllocateFailsKeeps
  <2>3. CASE UNCHANGED idVars
    BY <2>3 DEF idVars, IdInv, IdTypeOK, FlashInv, RamInv, NonceOnce, KnownKeys
  <2>. QED
    BY <1>5, <2>1, <2>2, <2>3 DEF OtherPacket, Refused
<1>6. CASE UNCHANGED idVars
  BY <1>6 DEF idVars, IdInv, IdTypeOK, FlashInv, RamInv, NonceOnce, KnownKeys
<1>. QED
  BY <1>1, <1>2, <1>3, <1>4, <1>5, <1>6 DEF IdNext

LEMMA IdsInvariant == IdSpec => []IdInv
<1>. QED
  BY IdInvInit, IdInvStep, PTL DEF IdSpec

\* For all constants, no packet id is used twice with a private key, whatever
\* restarts, storage errors, lost counters and exhausted ids lie between
\* (PersistentPacketIdAllocator::allocate, allocatePacketId).
THEOREM IdsAreUsedOnce == IdSpec => []NonceOnce
<1>1. IdInv => NonceOnce
  BY DEF IdInv
<1>. QED
  BY <1>1, IdsInvariant, PTL

\* The types of the record on flash, the allocator and the history, for all
\* constants: in particular no id leaves the range of 32 bits.
THEOREM IdsAreTyped == IdSpec => []IdTypeOK
<1>1. IdInv => IdTypeOK
  BY DEF IdInv
<1>. QED
  BY <1>1, IdsInvariant, PTL
=============================================================================
