------------------------------ MODULE PacketIds ------------------------------
(***************************************************************************)
(* The packet ids of a node. With the node id they make the nonce of what  *)
(* is encrypted under a private channel key, so the same id must never be  *)
(* handed out twice for the same private key, whatever restarts, storage   *)
(* errors and erased counters lie between.                                 *)
(*   platform/esp/radio/persistent_packet_ids.cpp                          *)
(*   modules/core_chat/include/chat/domain/persistent_packet_id_allocator.h*)
(*                                                                         *)
(* Ids are reserved on flash in blocks before the first of a block is      *)
(* used. Keys that were configured before the counter existed are recorded *)
(* with it and are refused: nobody knows which ids they were used with.    *)
(***************************************************************************)
EXTENDS Integers, FiniteSets

CONSTANTS
    Keys,       \* the private channel keys that exist
    Public,     \* no key, or the public one: its ids are no secret
    Block,      \* kBlock, the ids reserved at a time
    End         \* kEnd, 2^32: one more than the largest id

ASSUME IdAssumption ==
    /\ Block \in Nat \ {0} /\ End \in Nat \ {0}
    /\ Public \notin Keys

VARIABLES
    flash,      \* the record on flash, NoBlob when there is none
    ram,        \* initialized, failed, the allocator and the record in memory
    config,     \* the private keys in the channel configuration
    spent,      \* history: the private keys used in a time without this counter
    air,        \* history: air[k], the ids that private key k was used with
    reused      \* history: what was used twice

idVars == << flash, ram, config, spent, air, reused >>

NoBlob == [high |-> 0, legacy |-> {}]
Blobs == [high : 0 .. End, legacy : SUBSET Keys]

Idle(state) == [state |-> state, next |-> 0, end |-> 0, legacy |-> {}]

\* Mutant of Ready: the keys of old are recorded and not loaded.
ReadyForgetful(blob) == [state |-> "Ready", next |-> blob.high, end |-> blob.high,
                         legacy |-> {}]

Ready(blob) == [state |-> "Ready", next |-> blob.high, end |-> blob.high,
                legacy |-> blob.legacy]

\* A device whose firmware had no counter yet: any private key it has may have
\* been used with any id.
IdInit ==
    /\ flash = NoBlob
    /\ ram = Idle("Off")
    /\ config \in SUBSET Keys
    /\ spent = config
    /\ air = [k \in Keys |-> IF k \in config THEN 0 .. End - 1 ELSE {}]
    /\ reused = {}

-----------------------------------------------------------------------------
\* initializePacketIds(), called whenever a configuration is applied: the first
\* call of a boot loads the record, or makes it with the keys configured now.
\* Any storage error fails the whole boot; a write it reports as failed may have
\* got through.
Initialize ==
    /\ ram.state = "Off"
    /\ LET blob == IF flash = NoBlob THEN [high |-> 1, legacy |-> config] ELSE flash
       IN \/ /\ flash' = blob
             /\ ram' = Ready(blob)
          \/ /\ flash' \in {flash, blob}
             /\ ram' = Idle("Failed")
    /\ UNCHANGED << config, spent, air, reused >>

-----------------------------------------------------------------------------
\* PersistentPacketIdAllocator::allocate(0, ...) under allocatePacketId()
MayUse(k) == ram.state = "Ready" /\ k \notin ram.legacy
Reserved == ram.next < ram.end
\* reserve_range(): the block after the last, as much of it as there is
NewEnd == IF ram.end + Block > End THEN End ELSE ram.end + Block
Exhausted == ~Reserved /\ NewEnd <= ram.end

\* static_cast<uint32_t>(next_), which never exceeds 2^32
Cast(n) == IF n >= End THEN n - End ELSE n
Id == Cast(ram.next)

\* id leaves the allocator: a packet under k carries it, sent or not.
HandOut(k, id) ==
    /\ air' = IF k \in Keys THEN [air EXCEPT ![k] = @ \union {id}] ELSE air
    /\ reused' = IF k \in Keys /\ id \in air[k]
                 THEN reused \union {<< k, id >>} ELSE reused

\* A fresh id for a packet under key k: the next one of the block, or the
\* first one of a block that was just written to flash.
Allocate(k) ==
    /\ MayUse(k)
    /\ \/ /\ Reserved
          /\ ram' = [ram EXCEPT !.next = Id + 1]
          /\ UNCHANGED flash
       \/ /\ ~Reserved /\ ~Exhausted
          /\ flash' = [high |-> NewEnd, legacy |-> ram.legacy]
          /\ ram' = [ram EXCEPT !.next = Id + 1, !.end = NewEnd]
    /\ HandOut(k, Id)
    /\ UNCHANGED << config, spent >>

\* The hash of the key or the write to flash fails: nothing is sent any more in
\* this boot. The write may have got through all the same.
AllocateFails(k) ==
    /\ ram.state = "Ready"
    /\ \/ k \in Keys /\ UNCHANGED flash
       \/ /\ MayUse(k) /\ ~Reserved /\ ~Exhausted
          /\ flash' \in {flash, [high |-> NewEnd, legacy |-> ram.legacy]}
    /\ ram' = Idle("Failed")
    /\ UNCHANGED << config, spent, air, reused >>

\* No id: the boot failed, the key is an old one, or there are no ids left.
Refused(k) ==
    /\ ~MayUse(k) \/ Exhausted
    /\ UNCHANGED idVars

-----------------------------------------------------------------------------
\* The user puts keys into the channels and takes keys out. Keys from before
\* the counter, or from before it was erased, are not put back: the record on
\* flash cannot know them (docs/.../NONCE-MIGRATION.md).
Configure ==
    /\ ram.state # "Off"
    /\ \E new \in SUBSET Keys :
          /\ (new \ config) \intersect spent = {}
          /\ config' = new
    /\ UNCHANGED << flash, ram, spent, air, reused >>

\* The device restarts, at any moment: after a failed write, after a written
\* block of which no id was used yet.
IdRestart ==
    /\ ram' = Idle("Off")
    /\ UNCHANGED << flash, config, spent, air, reused >>

\* While the device is down the flash loses the counter, alone or together
\* with the configuration.
Erase ==
    /\ ram.state = "Off" /\ flash # NoBlob
    /\ flash' = NoBlob
    /\ config' \in {config, {}}
    /\ spent' = spent \union config \union {k \in Keys : air[k] # {}}
    /\ UNCHANGED << ram, air, reused >>

\* A packet that is no message: an acknowledgement, node information, a team
\* frame. Whether it goes out is of no concern here.
OtherPacket(k) == Allocate(k) \/ AllocateFails(k) \/ Refused(k)

IdNext ==
    \/ Initialize \/ Configure \/ IdRestart \/ Erase
    \/ \E k \in config \union {Public} : OtherPacket(k)

IdSpec == IdInit /\ [][IdNext]_idVars

-----------------------------------------------------------------------------
IdTypeOK ==
    /\ flash \in Blobs
    /\ ram \in [state : {"Off", "Ready", "Failed"}, next : 0 .. End, end : 0 .. End,
                legacy : SUBSET Keys]
    /\ config \subseteq Keys /\ spent \subseteq Keys
    /\ air \in [Keys -> SUBSET (0 .. End - 1)]
    /\ reused \subseteq Keys \X (0 .. End - 1)

\* No id is used twice with a private key: not after a restart, a write that
\* failed or half failed, an erased counter, or at the end of the ids, when the
\* allocator must refuse instead of starting over.
NonceOnce == reused = {}
=============================================================================
