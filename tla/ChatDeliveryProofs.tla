-------------------------- MODULE ChatDeliveryProofs --------------------------
(***************************************************************************)
(* What ChatDelivery guarantees for any sets of conversations, nodes, keys *)
(* and packets, any limits of logs, caches and bus, and any number of      *)
(* acts: the packet ids are those of PacketIds, and the safety properties. *)
(***************************************************************************)
EXTENDS ChatDelivery, PacketIdsProofs, ChatLogProofs, SequenceTheorems

-----------------------------------------------------------------------------
(* The packet ids.                                                          *)

LEMMA KeyForConfigured == ASSUME NEW c PROVE KeyFor(c) \in config \union {Public}
BY DEF KeyFor

LEMMA OtherPacketIsIdStep ==
    ASSUME NEW k \in config \union {Public}, OtherPacket(k) PROVE [IdNext]_idVars
BY DEF IdNext

LEMMA NextIsIdStep == [Next]_vars => [IdNext]_idVars
<1>. SUFFICES ASSUME [Next]_vars PROVE [IdNext]_idVars
  OBVIOUS
<1>1. ASSUME NEW p \in Packets, Hear(p) PROVE [IdNext]_idVars
  <2>1. CASE Readable(p) /\ OtherPacket(p.key)
    BY <2>1, OtherPacketIsIdStep DEF Readable
  <2>2. CASE UNCHANGED idVars
    BY <2>2
  <2>. QED
    BY <1>1, <2>1, <2>2 DEF Hear
<1>2. CASE Loop
  BY <1>2 DEF Loop, KeepInModel, KeepInStore, Take, StoreResult, Feed, FeedGone, GiveBack, IdNext
<1>3. CASE SendRefused
  <2>1. CASE AllocateFails(KeyFor(page.conv))
    BY <2>1, KeyForConfigured, OtherPacketIsIdStep DEF OtherPacket
  <2>2. CASE UNCHANGED idVars
    BY <2>2
  <2>. QED
    BY <1>3, <2>1, <2>2 DEF SendRefused
<1>4. ASSUME NEW ok \in BOOLEAN, Transmit(ok) PROVE [IdNext]_idVars
  BY <1>4, KeyForConfigured, OtherPacketIsIdStep DEF Transmit, OtherPacket
<1>5. CASE Record \/ Clear
  BY <1>5 DEF Record, RecordInModel, RecordInStore, ShowSent, Clear, ClearStore, ClearRecent
<1>6. CASE Screens
  BY <1>6 DEF Screens, OpenPage, Compose, Back, ClosePage, ClearModel, OpenConversation
<1>7. CASE Device
  <2>1. ASSUME NEW k \in config \union {Public}, OtherSend(k) PROVE [IdNext]_idVars
    BY <2>1, OtherPacketIsIdStep DEF OtherSend
  <2>2. ASSUME NEW d \in TickSteps, Tick(d) PROVE [IdNext]_idVars
    BY <2>2 DEF Tick
  <2>3. CASE Boot \/ Restart \/ EraseFlash \/ ChangeKeys
    BY <2>3 DEF Boot, Restart, EraseFlash, ChangeKeys, IdNext
  <2>. QED
    BY <1>7, <2>1, <2>2, <2>3 DEF Device
<1>8. CASE UNCHANGED vars
  BY <1>8 DEF vars
<1>. QED
  BY <1>1, <1>2, <1>3, <1>4, <1>5, <1>6, <1>7, <1>8 DEF Next, Radio, Send

\* With all that the two tasks do, packet ids move only as PacketIds allows: a
\* message is sent under a key that is configured, or under the public one.
THEOREM ChatUsesPacketIds == Spec => IdSpec
<1>1. Init => IdInit
  BY DEF Init
<1>. QED
  BY <1>1, NextIsIdStep, PTL DEF Spec, IdSpec

LEMMA ChatIdInv == Spec => []IdInv
BY ChatUsesPacketIds, IdsInvariant, PTL

\* No packet id is used twice with a private key while messages, results,
\* acknowledgements and restarts interleave in any way (allocatePacketId).
THEOREM ChatNonceOnce == Spec => []NonceOnce
BY ChatUsesPacketIds, IdsAreUsedOnce, PTL

-----------------------------------------------------------------------------
(* The packet filter.                                                       *)

PacketKeys == {KeyOf(p) : p \in Packets}

FilterOK ==
    /\ seen \in Caches /\ passed \in Caches
    /\ idle \in 0 .. CleanupEvery /\ crowded \in BOOLEAN

\* A packet that was let through within the time-out is still in the cache, as
\* old as it is.
FilterKnows ==
    ~crowded => \A k \in DOMAIN passed :
        passed[k] <= Timeout => k \in DOMAIN seen /\ seen[k] = passed[k]

LEMMA CacheType ==
    ASSUME NEW c
    PROVE  /\ c \in Caches => DOMAIN c \in SUBSET PacketKeys /\ c \in [DOMAIN c -> Ages]
           /\ \A keys \in SUBSET PacketKeys : c \in [keys -> Ages] => c \in Caches
BY DEF Caches, PacketKeys

LEMMA AgesGrow ==
    ASSUME NEW d \in Nat \ {0}, NEW a \in Ages
    PROVE  Older(a, d) \in Ages /\ (Older(a, d) <= Timeout => a <= Timeout)
BY DedupAssumption DEF Older, Ages

\* Only Hear, Tick and a restart touch the filter.
FilterQuiet ==
    \/ KeepInModel \/ KeepInStore \/ Take \/ StoreResult \/ Feed \/ GiveBack
    \/ Send \/ Record \/ Screens \/ Clear
    \/ Boot \/ EraseFlash \/ ChangeKeys
    \/ \E k \in config \union {Public} : OtherSend(k)
    \/ UNCHANGED vars

LEMMA NextByFilter ==
    ASSUME [Next]_vars
    PROVE  \/ \E p \in Packets : Hear(p)
           \/ \E d \in TickSteps : Tick(d)
           \/ FeedGone \/ Restart
           \/ FilterQuiet
BY DEF Next, Radio, Loop, Device, FilterQuiet

LEMMA QuietLeavesFilter == FilterQuiet => UNCHANGED filterVars
<1>1. KeepInModel \/ KeepInStore \/ Take \/ StoreResult \/ Feed \/ GiveBack \/ Send \/ Record
        => UNCHANGED filterVars
  BY DEF KeepInModel, KeepInStore, Take, StoreResult, Feed, GiveBack, Send, SendRefused,
         Transmit, Record, RecordInModel, RecordInStore, ShowSent
<1>2. Screens \/ Clear => UNCHANGED filterVars
  BY DEF Screens, OpenPage, Compose, Back, ClosePage, ClearModel, OpenConversation,
         Clear, ClearStore, ClearRecent
<1>3. Boot \/ EraseFlash \/ ChangeKeys \/ UNCHANGED vars => UNCHANGED filterVars
  BY DEF Boot, EraseFlash, ChangeKeys, vars
<1>4. (\E k \in config \union {Public} : OtherSend(k)) => UNCHANGED filterVars
  BY DEF OtherSend
<1>. QED
  BY <1>1, <1>2, <1>3, <1>4 DEF FilterQuiet

\* The filter of a device that has just started.
FilterEmpty == seen = EmptyCache /\ passed = EmptyCache /\ idle = 0 /\ crowded = FALSE

LEMMA FilterEmptyOK == FilterEmpty => FilterOK /\ FilterKnows
<1>1. EmptyCache \in [{} -> Ages] /\ DOMAIN EmptyCache = {}
  BY DEF EmptyCache
<1>2. EmptyCache \in Caches
  BY <1>1, CacheType
<1>3. FilterEmpty => FilterOK
  <2>1. 0 \in 0 .. CleanupEvery
    BY DedupAssumption
  <2>. QED
    BY <1>2, <2>1, Zenon DEF FilterEmpty, FilterOK
<1>4. FilterEmpty => FilterKnows
  BY <1>1, Zenon DEF FilterEmpty, FilterKnows
<1>. QED
  BY <1>3, <1>4

\* A sweep drops what is too old and nothing else.
LEMMA SweepKeeps ==
    ASSUME FilterOK, NEW cache, cache = Swept(seen, idle)
    PROVE  /\ DOMAIN cache \in SUBSET DOMAIN seen
           /\ cache = [k \in DOMAIN cache |-> seen[k]]
           /\ \A k \in DOMAIN seen : seen[k] <= Timeout => k \in DOMAIN cache
<1>1. seen = [k \in DOMAIN seen |-> seen[k]]
  BY CacheType DEF FilterOK
<1>. QED
  BY <1>1 DEF Swept, Only

LEMMA FilterHears ==
    ASSUME FilterOK, FilterKnows, NEW p \in Packets, Filter(p)
    PROVE  FilterOK' /\ FilterKnows'
<1>. DEFINE cache == Swept(seen, idle)
            key == KeyOf(p)
<1>1. /\ DOMAIN cache \in SUBSET DOMAIN seen
      /\ cache = [k \in DOMAIN cache |-> seen[k]]
      /\ \A k \in DOMAIN seen : seen[k] <= Timeout => k \in DOMAIN cache
  BY SweepKeeps
<1>2. /\ DOMAIN seen \in SUBSET PacketKeys /\ seen \in [DOMAIN seen -> Ages]
      /\ DOMAIN passed \in SUBSET PacketKeys /\ passed \in [DOMAIN passed -> Ages]
      /\ key \in PacketKeys /\ 0 \in Ages
  BY CacheType, DedupAssumption DEF FilterOK, PacketKeys, Ages
<1>3. idle' = (IF SweepDue(idle) THEN 0 ELSE idle) /\ idle' \in 0 .. CleanupEvery
  BY DedupAssumption DEF Filter, FilterOK
<1>4. CASE Duplicate(p)
  <2>1. seen' = cache /\ UNCHANGED << passed, crowded >>
    BY <1>4 DEF Filter
  <2>. HIDE DEF cache
  <2>2. cache \in [DOMAIN cache -> Ages] /\ DOMAIN cache \in SUBSET PacketKeys
    BY <1>1, <1>2
  <2>3. FilterOK'
    BY <1>3, <2>1, <2>2, CacheType DEF FilterOK
  <2>4. FilterKnows'
    BY <1>1, <2>1 DEF FilterKnows
  <2>. QED
    BY <2>3, <2>4
<1>5. CASE ~Duplicate(p)
  <2>1. /\ seen' = Marked(cache, key)
        /\ passed' = [k \in DOMAIN passed \union {key} |->
                        IF k = key THEN 0 ELSE passed[k]]
        /\ crowded' = (crowded \/ Full(cache))
    BY <1>5 DEF Filter
  <2>. DEFINE kept == IF Full(cache) THEN DOMAIN cache \ {Smallest(DOMAIN cache)}
                      ELSE DOMAIN cache
  <2>2. seen' = [k \in kept \union {key} |-> IF k = key THEN 0 ELSE cache[k]]
    BY <2>1 DEF Marked
  <2>3. kept \in SUBSET DOMAIN cache /\ (~Full(cache) => kept = DOMAIN cache)
    OBVIOUS
  <2>. HIDE DEF cache, key, kept
  <2>4. seen' \in [kept \union {key} -> Ages] /\ kept \union {key} \in SUBSET PacketKeys
    BY <1>1, <1>2, <2>2, <2>3
  <2>5. /\ passed' \in [DOMAIN passed \union {key} -> Ages]
        /\ DOMAIN passed \union {key} \in SUBSET PacketKeys
    BY <1>2, <2>1
  <2>6. seen' \in Caches /\ passed' \in Caches
    BY <2>4, <2>5, CacheType
  <2>7. FilterOK'
    BY <1>3, <2>1, <2>6 DEF FilterOK, Full
  <2>8. FilterKnows'
    <3>. SUFFICES ASSUME ~crowded', NEW k \in DOMAIN passed', passed'[k] <= Timeout
                  PROVE  k \in DOMAIN seen' /\ seen'[k] = passed'[k]
      BY DEF FilterKnows
    <3>1. ~crowded /\ ~Full(cache)
      BY <2>1
    <3>2. CASE k = key
      BY <2>1, <2>2, <3>2
    <3>3. CASE k # key
      <4>1. k \in DOMAIN passed /\ passed'[k] = passed[k]
        BY <2>1, <3>3
      <4>2. k \in DOMAIN seen /\ seen[k] = passed[k]
        BY <3>1, <4>1 DEF FilterKnows
      <4>3. k \in DOMAIN cache /\ cache[k] = seen[k]
        BY <1>1, <4>1, <4>2
      <4>. QED
        BY <2>2, <2>3, <3>1, <3>3, <4>1, <4>2, <4>3
    <3>. QED
      BY <3>2, <3>3
  <2>. QED
    BY <2>7, <2>8
<1>. QED
  BY <1>4, <1>5

LEMMA FilterTicks ==
    ASSUME FilterOK, FilterKnows, NEW d \in TickSteps, Tick(d)
    PROVE  FilterOK' /\ FilterKnows'
<1>1. d \in Nat \ {0} /\ CleanupEvery \in Nat
  BY ChatAssumption, DedupAssumption
<1>2. /\ DOMAIN seen \in SUBSET PacketKeys /\ seen \in [DOMAIN seen -> Ages]
      /\ DOMAIN passed \in SUBSET PacketKeys /\ passed \in [DOMAIN passed -> Ages]
  BY CacheType DEF FilterOK
<1>3. /\ seen' = [k \in DOMAIN seen |-> Older(seen[k], d)]
      /\ passed' = [k \in DOMAIN passed |-> Older(passed[k], d)]
      /\ idle' = IF idle + d > CleanupEvery THEN CleanupEvery ELSE idle + d
      /\ crowded' = crowded
  BY DEF Tick, AllOlder
<1>4. seen' \in [DOMAIN seen -> Ages] /\ passed' \in [DOMAIN passed -> Ages]
  <2>1. \A a \in Ages : Older(a, d) \in Ages
    BY <1>1, AgesGrow
  <2>. QED
    BY <1>2, <1>3, <2>1
<1>5. idle' \in 0 .. CleanupEvery
  BY <1>1, <1>3 DEF FilterOK
<1>6. FilterOK'
  BY <1>2, <1>3, <1>4, <1>5, CacheType DEF FilterOK
<1>7. FilterKnows'
  <2>. SUFFICES ASSUME ~crowded', NEW k \in DOMAIN passed', passed'[k] <= Timeout
                PROVE  k \in DOMAIN seen' /\ seen'[k] = passed'[k]
    BY DEF FilterKnows
  <2>1. k \in DOMAIN passed /\ passed[k] \in Ages /\ passed'[k] = Older(passed[k], d)
    BY <1>2, <1>3
  <2>2. passed[k] <= Timeout
    BY <1>1, <2>1, AgesGrow
  <2>3. k \in DOMAIN seen /\ seen[k] = passed[k]
    BY <1>3, <2>1, <2>2 DEF FilterKnows
  <2>. QED
    BY <1>3, <2>1, <2>3
<1>. QED
  BY <1>6, <1>7

LEMMA FilterInvariant == Spec => [](FilterOK /\ FilterKnows)
<1>1. Init => FilterOK /\ FilterKnows
  BY FilterEmptyOK DEF Init, FilterEmpty
<1>2. FilterOK /\ FilterKnows /\ [Next]_vars => FilterOK' /\ FilterKnows'
  <2>. SUFFICES ASSUME FilterOK, FilterKnows, [Next]_vars PROVE FilterOK' /\ FilterKnows'
    OBVIOUS
  <2>1. ASSUME NEW p \in Packets, Hear(p) PROVE FilterOK' /\ FilterKnows'
    BY <2>1, FilterHears DEF Hear
  <2>2. ASSUME NEW d \in TickSteps, Tick(d) PROVE FilterOK' /\ FilterKnows'
    BY <2>2, FilterTicks
  <2>3. CASE FeedGone \/ Restart
    <3>1. FilterEmpty'
      BY <2>3 DEF FeedGone, Restart, ChatRestarts, FilterEmpty, EmptyCache
    <3>. QED
      BY <3>1, FilterEmptyOK, PTL
  <2>4. CASE FilterQuiet
    <3>1. UNCHANGED filterVars
      BY <2>4, QuietLeavesFilter
    <3>. QED
      BY <3>1 DEF filterVars, FilterOK, FilterKnows
  <2>. QED
    BY <2>1, <2>2, <2>3, <2>4, NextByFilter
<1>. QED
  BY <1>1, <1>2, PTL DEF Spec

\* Within the time-out no packet passes the filter twice, for any size of the
\* cache and any times, as long as the cache never had to make room
\* (MtDedup::isDuplicate, markSeen, cleanup).
THEOREM ChatPassedOnce == Spec => []PassedOnce
<1>1. FilterKnows => PassedOnce
  BY DEF FilterKnows, PassedOnce
<1>. QED
  BY <1>1, FilterInvariant, PTL

-----------------------------------------------------------------------------
(* Types of the rest.                                                       *)

RecentOK ==
    /\ recent \in Seq(Convs \X Peers \X (Nat \ {0}))
    /\ Len(recent) <= RecentMax

LogsOK == LogOK(model) /\ LogOK(store) /\ enabled \in BOOLEAN

\* What the loop is in the middle of: a text is one that came in, and a result is
\* the event it has taken.
HandOK ==
    /\ hand \in [stage : {"None", "Model", "Store", "Result"}, msg : Messages]
    /\ hand.stage \in {"Model", "Store"} =>
          hand.msg.from # 0 /\ hand.msg.fresh /\ hand.msg.status = "Incoming"
    /\ hand.stage = "Result" => held.kind = "Result"
    /\ forgotten \in SUBSET (Convs \X Peers \X Nat)

BusOK ==
    /\ bus \in Seq(Events) /\ Len(bus) <= QueueMax
    /\ held \in Events \union {NoEvent} /\ stuck \in BOOLEAN
    /\ lost \in SUBSET Nat /\ astray \in SUBSET Nat

ShownOK == shown \in Seq(Deliveries) /\ Len(shown) <= ShownMax

Stages == {"None", "Air", "Model", "Show", "ClearStore", "ClearRecent"}

UiOK ==
    /\ page \in [at : {"Closed", "List", "Conv", "Compose"}, conv : Convs]
    /\ sending \in [stage : Stages, msg : Messages]
    /\ sending.msg.from = 0 /\ ~sending.msg.fresh
    /\ sending.msg.status \in {"Queued", "Failed"}
    /\ ShownOK

ActsOK == acts \in [Acts -> Nat]

LEMMA MessageType ==
    ASSUME NEW id \in Nat, NEW conv \in Convs, NEW from \in {0} \union Peers,
           NEW status \in Statuses, NEW m, m = Message(id, conv, from, status)
    PROVE  /\ m \in Messages /\ m.id = id /\ m.conv = conv /\ m.from = from
           /\ m.status = status /\ m.seq = 0 /\ (m.fresh <=> status = "Incoming")
BY DEF Message, Messages

\* Between two operations a task has nothing in hand.
LEMMA DoingType ==
    ASSUME NEW stage
    PROVE  /\ Doing(stage) = [stage |-> stage, msg |-> Doing(stage).msg]
           /\ Doing(stage).stage = stage /\ Doing(stage).msg \in Messages
           /\ Doing(stage).msg.from = 0 /\ ~Doing(stage).msg.fresh
           /\ Doing(stage).msg.status = "Queued"
<1>1. Doing(stage) = [stage |-> stage, msg |-> Message(0, 0, 0, "Queued")]
  BY DEF Doing
<1>2. "Queued" \in Statuses /\ "Queued" # "Incoming" /\ 0 \in Nat /\ 0 \in Convs
      /\ 0 \in {0} \union Peers
  BY LogAssumption DEF Statuses
<1>. DEFINE m == Message(0, 0, 0, "Queued")
<1>3. m \in Messages /\ m.from = 0 /\ m.status = "Queued" /\ (m.fresh <=> "Queued" = "Incoming")
  BY <1>2, MessageType
<1>. HIDE DEF m
<1>4. Doing(stage) = [stage |-> stage, msg |-> m]
  BY <1>1 DEF m
<1>. QED
  BY <1>2, <1>3, <1>4

\* What a boot starts from.
Rebooted ==
    /\ recent = << >> /\ model = EmptyLog /\ enabled = TRUE /\ store = EmptyLog
    /\ hand = Nothing /\ forgotten = {}
    /\ bus = << >> /\ held = NoEvent /\ stuck = FALSE /\ lost = {} /\ astray = {}
    /\ page = Closed /\ sending = Nothing /\ shown = << >>

LEMMA RebootedOK == Rebooted => RecentOK /\ LogsOK /\ HandOK /\ BusOK /\ UiOK
<1>. SUFFICES ASSUME Rebooted PROVE RecentOK /\ LogsOK /\ HandOK /\ BusOK /\ UiOK
  OBVIOUS
<1>1. RecentOK
  BY ChatAssumption DEF Rebooted, RecentOK
<1>2. LogsOK
  BY EmptyLogOK DEF Rebooted, LogsOK
<1>3. BusOK
  <2>1. stuck \in BOOLEAN /\ held \in Events \union {NoEvent}
        /\ lost \in SUBSET Nat /\ astray \in SUBSET Nat
    BY Zenon DEF Rebooted
  <2>2. bus \in Seq(Events) /\ Len(bus) <= QueueMax
    BY ChatAssumption DEF Rebooted
  <2>. QED
    BY <2>1, <2>2 DEF BusOK
<1>4. page \in [at : {"Closed", "List", "Conv", "Compose"}, conv : Convs]
  BY LogAssumption DEF Rebooted, Closed, Screen
<1>5. /\ Nothing.msg \in Messages /\ Nothing.msg.from = 0 /\ ~Nothing.msg.fresh
      /\ Nothing.msg.status = "Queued" /\ Nothing.stage = "None"
      /\ Nothing = [stage |-> Nothing.stage, msg |-> Nothing.msg]
  BY DoingType DEF Nothing
<1>6. UiOK
  <2>1. ShownOK
    BY ChatAssumption DEF Rebooted, ShownOK
  <2>. QED
    BY <1>4, <1>5, <2>1 DEF Rebooted, UiOK, Stages
<1>7. HandOK
  BY <1>5 DEF Rebooted, HandOK
<1>. QED
  BY <1>1, <1>2, <1>3, <1>6, <1>7

\* A packet that is heard, as a message.
LEMMA HeardType ==
    ASSUME NEW p \in Packets, NEW m, m = Message(p.id, p.conv, p.from, "Incoming")
    PROVE  /\ m \in Messages /\ m.id = p.id /\ m.conv = p.conv /\ m.from = p.from
           /\ m.status = "Incoming" /\ m.fresh /\ m.from # 0
           /\ p.id \in Nat /\ p.conv \in Convs /\ p.from \in Peers
<1>1. p.id \in Nat /\ p.conv \in Convs /\ p.from \in Peers
  BY ChatAssumption DEF PacketSet
<1>2. p.from # 0
  BY <1>1, LogAssumption
<1>3. "Incoming" \in Statuses
  BY DEF Statuses
<1>4. /\ m \in Messages /\ m.id = p.id /\ m.conv = p.conv /\ m.from = p.from
      /\ m.status = "Incoming" /\ (m.fresh <=> "Incoming" = "Incoming")
  <2>1. p.from \in {0} \union Peers
    BY <1>1
  <2>. QED
    BY <1>1, <1>3, <2>1 DEF Message, Messages
<1>. QED
  BY <1>1, <1>2, <1>4

\* What is put on the bus fits, and what was there stays where it was.
LEMMA Published ==
    ASSUME bus \in Seq(Events), Len(bus) <= QueueMax, NEW e \in Events, Publish(e)
    PROVE  /\ bus' \in Seq(Events) /\ Len(bus') <= QueueMax
           /\ Len(bus) <= Len(bus') /\ \A i \in 1 .. Len(bus) : bus'[i] = bus[i]
           /\ \A i \in 1 .. Len(bus') : i <= Len(bus) \/ bus'[i] = e
           /\ Room => Len(bus') = Len(bus) + 1 /\ bus'[Len(bus) + 1] = e
           /\ ~Room => bus' = bus
BY ChatAssumption DEF Publish, Room

LEMMA Remembered ==
    ASSUME RecentOK, NEW p \in Packets, Remember(p) PROVE RecentOK'
<1>1. IdentityOf(p) \in Convs \X Peers \X Nat /\ (p.id # 0 => p.id \in Nat \ {0})
  BY HeardType DEF IdentityOf
<1>2. CASE p.id = 0
  BY <1>2 DEF Remember, RecentOK
<1>3. CASE p.id # 0
  <2>1. IdentityOf(p) \in Convs \X Peers \X (Nat \ {0})
    BY <1>3, HeardType DEF IdentityOf
  <2>. DEFINE T == Convs \X Peers \X (Nat \ {0})
              all == Append(recent, IdentityOf(p))
  <2>2. recent' = IF Len(all) > RecentMax THEN Tail(all) ELSE all
    BY <1>3 DEF Remember
  <2>3. recent \in Seq(T) /\ Len(recent) <= RecentMax /\ RecentMax \in Nat
        /\ IdentityOf(p) \in T
    BY <2>1, ChatAssumption DEF RecentOK
  <2>. HIDE DEF T
  <2>4. all \in Seq(T) /\ Len(all) = Len(recent) + 1
    BY <2>3
  <2>. HIDE DEF all
  <2>5. recent' \in Seq(T) /\ Len(recent') <= RecentMax
    BY <2>2, <2>3, <2>4
  <2>. QED
    BY <2>5 DEF RecentOK, T
<1>. QED
  BY <1>2, <1>3

LEMMA ReadBoth ==
    ASSUME LogsOK, NEW c \in Convs, MarkConversationRead(c)
    PROVE  LogOK(model)' /\ LogOK(store)'
BY MarkReadKeeps DEF LogsOK, MarkConversationRead

Typed == RecentOK /\ LogsOK /\ HandOK /\ BusOK /\ UiOK /\ ActsOK

LEMMA ActTypes == ASSUME ActsOK, NEW kind \in Acts, Act(kind) PROVE ActsOK'
BY DEF ActsOK, Act

LEMMA ActKinds == {"Hear", "Send", "Id", "Crash", "Tick", "Screen"} \subseteq Acts
BY DEF Acts

LEMMA HearTypes == ASSUME Typed, NEW p \in Packets, Hear(p) PROVE Typed'
<1>. DEFINE msg == Message(p.id, p.conv, p.from, "Incoming")
<1>1. UiOK' /\ LogsOK' /\ BusOK'
  BY DEF Hear, uiVars, busVars, Typed, UiOK, ShownOK, LogsOK, BusOK
<1>2. ActsOK'
  BY ActTypes, ActKinds DEF Hear, Typed
<1>3. forgotten' = forgotten /\ held' = held
  BY DEF Hear, busVars
<1>4. CASE Remember(p) /\ hand' = [stage |-> "Model", msg |-> msg]
  <2>1. RecentOK'
    BY <1>4, Remembered DEF Typed
  <2>2. msg \in Messages /\ msg.from # 0 /\ msg.fresh /\ msg.status = "Incoming"
    BY HeardType
  <2>. HIDE DEF msg
  <2>3. HandOK'
    BY <1>3, <1>4, <2>2 DEF Typed, HandOK
  <2>. QED
    BY <1>1, <1>2, <2>1, <2>3 DEF Typed
<1>5. CASE UNCHANGED << recent, hand >>
  <2>1. RecentOK' /\ HandOK'
    BY <1>3, <1>5 DEF Typed, RecentOK, HandOK
  <2>. QED
    BY <1>1, <1>2, <2>1 DEF Typed
<1>. QED
  BY <1>4, <1>5 DEF Hear

LEMMA KeepTypes == ASSUME Typed, KeepInModel \/ KeepInStore PROVE Typed'
<1>1. hand.msg \in Messages /\ hand.msg.id \in Nat
  BY DEF Typed, HandOK, Messages
<1>2. RecentOK' /\ UiOK' /\ ActsOK'
  BY DEF KeepInModel, KeepInStore, uiVars, Typed, RecentOK, UiOK, ShownOK, ActsOK
<1>3. CASE KeepInModel
  <2>1. LogsOK'
    BY <1>1, <1>3, AppendKeeps DEF KeepInModel, Typed, LogsOK
  <2>2. BusOK'
    BY <1>3 DEF KeepInModel, busVars, Typed, BusOK
  <2>3. HandOK'
    BY <1>3 DEF KeepInModel, busVars, Typed, HandOK
  <2>. QED
    BY <1>2, <2>1, <2>2, <2>3 DEF Typed
<1>4. CASE KeepInStore
  <2>. DEFINE e == Event("New", hand.msg.id, TRUE)
  <2>1. LogsOK'
    BY <1>1, <1>4, AppendKeeps DEF KeepInStore, Typed, LogsOK
  <2>2. e \in Events
    BY <1>1 DEF Event, Events
  <2>3. Publish(e) /\ stuck' = ~Room /\ UNCHANGED << held, lost, astray, forgotten >>
        /\ hand' = Nothing
    BY <1>4 DEF KeepInStore
  <2>. HIDE DEF e
  <2>4. bus' \in Seq(Events) /\ Len(bus') <= QueueMax
    BY <2>2, <2>3, Published DEF Typed, BusOK
  <2>5. stuck' \in BOOLEAN
    BY <2>3
  <2>6. BusOK'
    BY <2>3, <2>4, <2>5 DEF Typed, BusOK
  <2>7. HandOK'
    BY <2>3, DoingType DEF Nothing, Typed, HandOK
  <2>. QED
    BY <1>2, <2>1, <2>6, <2>7 DEF Typed
<1>. QED
  BY <1>3, <1>4

LEMMA HeadEvent ==
    ASSUME BusOK, bus # << >>, NEW e, e = Head(bus)
    PROVE  /\ e \in Events /\ e.id \in Nat /\ e.ok \in BOOLEAN /\ e.kind \in {"New", "Result"}
           /\ e = bus[1] /\ Tail(bus) \in Seq(Events) /\ Len(bus) >= 1
           /\ Len(Tail(bus)) = Len(bus) - 1
           /\ \A i \in 1 .. Len(bus) - 1 : Tail(bus)[i] = bus[i + 1]
<1>1. bus \in Seq(Events)
  BY DEF BusOK
<1>2. /\ e \in Events /\ e = bus[1] /\ Tail(bus) \in Seq(Events) /\ Len(bus) >= 1
      /\ Len(Tail(bus)) = Len(bus) - 1
      /\ \A i \in 1 .. Len(bus) - 1 : Tail(bus)[i] = bus[i + 1]
  BY <1>1
<1>. QED
  BY <1>2 DEF Events

LEMMA TakeTypes == ASSUME Typed, Take PROVE Typed'
<1>. DEFINE e == Head(bus)
<1>1. /\ e \in Events /\ e.id \in Nat /\ e.ok \in BOOLEAN
      /\ Tail(bus) \in Seq(Events) /\ Len(Tail(bus)) = Len(bus) - 1
      /\ Len(bus) \in Nat /\ QueueMax \in Nat
  BY HeadEvent, ChatAssumption DEF Take, Typed, BusOK
<1>2. /\ bus' = Tail(bus) /\ held' \in {NoEvent, e}
      /\ model' \in {model, ModelResult(e.id, e.ok)}
      /\ astray' \in {astray, astray \union {e.id}}
      /\ UNCHANGED << recent, enabled, store, forgotten, stuck, lost, page, sending, shown, acts >>
  BY DEF Take, uiVars
<1>3. \/ hand' = hand /\ hand.stage = "None"
      \/ hand' = Doing("Result") /\ held' = e /\ e.kind = "Result"
  BY DEF Take, LoopFree
<1>. HIDE DEF e
<1>4. LogsOK'
  BY <1>1, <1>2, ResultsKeep DEF Typed, LogsOK, ModelResult
<1>5. BusOK'
  BY <1>1, <1>2 DEF Typed, BusOK
<1>6. HandOK'
  BY <1>2, <1>3, DoingType DEF Typed, HandOK
<1>7. RecentOK' /\ UiOK' /\ ActsOK'
  BY <1>2 DEF Typed, RecentOK, UiOK, ShownOK, ActsOK
<1>. QED
  BY <1>4, <1>5, <1>6, <1>7 DEF Typed

\* A result in hand is an event of the bus.
LEMMA ResultInHand ==
    ASSUME Typed, hand.stage = "Result"
    PROVE  /\ held \in Events /\ held.kind = "Result" /\ held.id \in Nat /\ held.ok \in BOOLEAN
<1>1. held.kind = "Result" /\ held \in Events \union {NoEvent}
  BY DEF Typed, HandOK, BusOK
<1>2. NoEvent.kind # "Result"
  BY DEF NoEvent, Event
<1>3. held \in Events
  BY <1>1, <1>2
<1>. QED
  BY <1>1, <1>3 DEF Events

LEMMA StoreResultTypes == ASSUME Typed, StoreResult PROVE Typed'
<1>1. held \in Events /\ held.id \in Nat /\ held.ok \in BOOLEAN
  BY ResultInHand DEF StoreResult
<1>2. /\ held' \in {NoEvent, held} /\ hand' = Nothing
      /\ store' = UpdateMessageStatus(store, held.id, held.ok)
      /\ lost' \in {lost, lost \ {held.id}, lost \union {held.id}}
      /\ UNCHANGED << recent, model, enabled, forgotten, bus, stuck, astray >>
      /\ UNCHANGED << page, sending, shown, acts >>
  BY DEF StoreResult, uiVars
<1>3. LogsOK'
  BY <1>1, <1>2, ResultsKeep DEF Typed, LogsOK
<1>4. BusOK'
  BY <1>1, <1>2 DEF Typed, BusOK
<1>5. HandOK'
  BY <1>2, DoingType DEF Nothing, Typed, HandOK
<1>6. RecentOK' /\ UiOK' /\ ActsOK'
  BY <1>2 DEF Typed, RecentOK, UiOK, ShownOK, ActsOK
<1>. QED
  BY <1>3, <1>4, <1>5, <1>6 DEF Typed

\* The page's records change by one, and by no more than there is room for.
Entries(s) == {s[i] : i \in 1 .. Len(s)}

LEMMA Upserted ==
    ASSUME NEW s \in Seq(Deliveries), Len(s) <= ShownMax, NEW new \in Deliveries
    PROVE  /\ Upsert(s, new) \in Seq(Deliveries) /\ Len(Upsert(s, new)) <= ShownMax
           /\ Entries(Upsert(s, new)) \subseteq Entries(s) \union {new}
<1>. DEFINE t == Upsert(s, new)
<1>. SUFFICES /\ t \in Seq(Deliveries) /\ Len(t) <= ShownMax
              /\ \A i \in 1 .. Len(t) : t[i] = new \/ \E j \in 1 .. Len(s) : s[j] = t[i]
  BY DEF Entries
<1>1. ShownMax \in Nat \ {0} /\ Len(s) \in Nat
  BY ChatAssumption
<1>2. CASE \E i \in 1 .. Len(s) : s[i].id = new.id
  <2>1. t = [i \in 1 .. Len(s) |-> IF s[i].id = new.id THEN new ELSE s[i]]
    BY <1>2 DEF Upsert
  <2>2. t \in Seq(Deliveries) /\ Len(t) = Len(s)
    BY <1>1, <2>1
  <2>. QED
    BY <2>1, <2>2
<1>3. CASE t = Append(s, new) /\ Len(s) < ShownMax
  BY <1>1, <1>3
<1>4. CASE t = Append(Tail(s), new) /\ Len(s) = ShownMax
  <2>1. s # << >>
    BY <1>1, <1>4
  <2>2. /\ Tail(s) \in Seq(Deliveries) /\ Len(Tail(s)) = Len(s) - 1
        /\ \A i \in 1 .. Len(Tail(s)) : Tail(s)[i] = s[i + 1] /\ i + 1 \in 1 .. Len(s)
    BY <1>1, <2>1
  <2>3. /\ t \in Seq(Deliveries) /\ Len(t) = Len(s)
        /\ \A i \in 1 .. Len(t) : t[i] = IF i <= Len(Tail(s)) THEN Tail(s)[i] ELSE new
    BY <1>1, <1>4, <2>2
  <2>4. ASSUME NEW i \in 1 .. Len(t) PROVE t[i] = new \/ \E j \in 1 .. Len(s) : s[j] = t[i]
    <3>1. CASE i <= Len(Tail(s))
      <4>1. t[i] = s[i + 1] /\ i + 1 \in 1 .. Len(s)
        BY <2>2, <2>3, <3>1
      <4>. QED
        BY <4>1
    <3>2. CASE ~(i <= Len(Tail(s)))
      BY <2>3, <3>2
    <3>. QED
      BY <3>1, <3>2
  <2>. QED
    BY <1>1, <1>4, <2>3, <2>4
<1>5. \/ \E i \in 1 .. Len(s) : s[i].id = new.id
      \/ t = Append(s, new) /\ Len(s) < ShownMax
      \/ t = Append(Tail(s), new) /\ Len(s) = ShownMax
  BY <1>1 DEF Upsert
<1>. HIDE DEF t
<1>. QED
  BY <1>2, <1>3, <1>4, <1>5

\* What the page is told of a result: the record it makes of it.
LEMMA DeliveryType ==
    ASSUME NEW id \in Nat, NEW ok \in BOOLEAN
    PROVE  /\ Delivery(id, ok) \in Deliveries
           /\ Delivery(id, ok).id = id /\ Delivery(id, ok).state = Verdict(ok)
BY DEF Delivery, Deliveries, Verdict

\* With an event, the page takes it into its records, or leaves them.
LEMMA FeedShows ==
    ASSUME Typed, Feed
    PROVE  /\ ShownOK'
           /\ Entries(shown') \subseteq Entries(shown)
                \union {d \in {Delivery(held.id, held.ok)} : held.kind = "Result"}
<1>1. shown \in Seq(Deliveries) /\ Len(shown) <= ShownMax
  BY DEF Typed, UiOK, ShownOK
<1>2. held.id \in Nat /\ held.ok \in BOOLEAN
  BY DEF Feed, Typed, BusOK, Events
<1>3. CASE shown' = shown
  BY <1>1, <1>3 DEF ShownOK
<1>4. CASE held.kind = "Result" /\ shown' = Upsert(shown, Delivery(held.id, held.ok))
  <2>1. Delivery(held.id, held.ok) \in Deliveries
    BY <1>2, DeliveryType
  <2>2. /\ shown' \in Seq(Deliveries) /\ Len(shown') <= ShownMax
        /\ Entries(shown') \subseteq Entries(shown) \union {Delivery(held.id, held.ok)}
    BY <1>1, <1>4, <2>1, Upserted
  <2>. QED
    BY <1>4, <2>2 DEF ShownOK
<1>. QED
  BY <1>3, <1>4 DEF Feed

LEMMA FeedTypes == ASSUME Typed, Feed PROVE Typed'
<1>1. page.conv \in Convs
  BY DEF Typed, UiOK
<1>2. LogsOK'
  <2>1. CASE MarkConversationRead(page.conv)
    BY <1>1, <2>1, ReadBoth DEF Feed, Typed, LogsOK
  <2>2. CASE UNCHANGED << model, store >>
    BY <2>2 DEF Feed, Typed, LogsOK
  <2>. QED
    BY <2>1, <2>2 DEF Feed
<1>3. RecentOK' /\ UiOK' /\ ActsOK'
  BY FeedShows DEF Feed, Typed, RecentOK, UiOK, ActsOK
<1>4. BusOK'
  BY DEF Feed, Typed, BusOK
<1>5. HandOK'
  BY DEF Feed, LoopFree, Typed, HandOK
<1>. QED
  BY <1>2, <1>3, <1>4, <1>5 DEF Typed

LEMMA GiveBackTypes == ASSUME Typed, GiveBack PROVE Typed'
<1>1. held \in Events
  BY DEF GiveBack, Typed, BusOK
<1>2. bus' \in Seq(Events) /\ Len(bus') <= QueueMax
  BY <1>1, Published DEF GiveBack, Typed, BusOK
<1>3. BusOK'
  BY <1>2 DEF GiveBack, Typed, BusOK
<1>4. RecentOK' /\ LogsOK' /\ UiOK' /\ ActsOK'
  BY DEF GiveBack, logVars, uiVars, Typed, RecentOK, LogsOK, UiOK, ShownOK, ActsOK
<1>5. HandOK'
  BY DEF GiveBack, LoopFree, logVars, Typed, HandOK
<1>. QED
  BY <1>3, <1>4, <1>5 DEF Typed

LEMMA RebootTypes == ASSUME Typed, FeedGone \/ Restart PROVE Typed'
<1>1. Rebooted' /\ ActsOK'
  <2>1. ActsOK'
    BY ActTypes, ActKinds DEF FeedGone, Restart, Typed, ActsOK
  <2>2. Rebooted'
    BY Zenon DEF FeedGone, Restart, ChatRestarts, Rebooted, Nothing, Doing, Closed, NoEvent,
                 Event, Screen, EmptyLog, Message
  <2>. QED
    BY <2>1, <2>2
<1>2. RecentOK' /\ LogsOK' /\ HandOK' /\ BusOK' /\ UiOK'
  BY <1>1, RebootedOK, PTL
<1>. QED
  BY <1>1, <1>2 DEF Typed

\* An id that leaves the allocator is the next one, a number above zero.
LEMMA AllocatedId ==
    ASSUME IdInv, NEW k, Allocate(k)
    PROVE  /\ ram.state = "Ready" /\ Id = ram.next /\ Id \in Nat /\ Id >= 1
           /\ ram'.state = "Ready" /\ ram'.next = Id + 1
<1>. USE IdAssumption
<1>1. /\ ram.state = "Ready" /\ ram.next \in 0 .. End /\ ram.end \in 0 .. End
      /\ ram \in [state : {"Off", "Ready", "Failed"}, next : 0 .. End, end : 0 .. End,
                  legacy : SUBSET Keys]
      /\ 1 <= ram.next /\ ram.next <= ram.end
  BY DEF Allocate, MayUse, IdInv, IdTypeOK, RamInv
<1>2. ram.next < End
  <2>1. CASE Reserved
    BY <1>1, <2>1 DEF Reserved
  <2>2. CASE ~Reserved /\ ~Exhausted
    BY <1>1, <2>2 DEF Reserved, Exhausted, NewEnd
  <2>. QED
    BY <2>1, <2>2 DEF Allocate
<1>3. Id = ram.next
  BY <1>1, <1>2 DEF Id, Cast
<1>4. ram'.state = "Ready" /\ ram'.next = Id + 1
  BY <1>1 DEF Allocate
<1>. QED
  BY <1>1, <1>3, <1>4

LEMMA ScreenType ==
    ASSUME NEW at \in {"Closed", "List", "Conv", "Compose"}, NEW c \in Convs
    PROVE  Screen(at, c) \in [at : {"Closed", "List", "Conv", "Compose"}, conv : Convs]
BY DEF Screen

LEMMA SendRefusedTypes == ASSUME Typed, SendRefused PROVE Typed'
<1>1. page.conv \in Convs
  BY DEF Typed, UiOK
<1>2. LogsOK'
  BY <1>1, ReadBoth DEF SendRefused, Typed, LogsOK
<1>3. UiOK'
  BY <1>1, ScreenType DEF SendRefused, Typed, UiOK, ShownOK
<1>4. ActsOK'
  BY ActTypes, ActKinds DEF SendRefused, Typed, ActsOK
<1>5. RecentOK' /\ BusOK' /\ HandOK'
  BY DEF SendRefused, busVars, Typed, RecentOK, BusOK, HandOK
<1>. QED
  BY <1>2, <1>3, <1>4, <1>5 DEF Typed

LEMMA TransmitTypes ==
    ASSUME Typed, IdInv, NEW ok \in BOOLEAN, Transmit(ok) PROVE Typed'
<1>. DEFINE status == IF ok THEN "Queued" ELSE "Failed"
            msg == Message(Id, page.conv, 0, status)
            e == Event("Result", Id, ok)
<1>1. Id \in Nat
  BY AllocatedId DEF Transmit
<1>2. page.conv \in Convs
  BY DEF Typed, UiOK
<1>3. /\ msg \in Messages /\ msg.from = 0 /\ ~msg.fresh /\ msg.status = status
  <2>1. status \in Statuses /\ status # "Incoming"
    BY DEF Statuses
  <2>2. 0 \in {0} \union Peers
    OBVIOUS
  <2>. HIDE DEF status
  <2>3. msg \in Messages /\ msg.from = 0 /\ (msg.fresh <=> status = "Incoming")
        /\ msg.status = status
    BY <1>1, <1>2, <2>1, <2>2, MessageType
  <2>. QED
    BY <2>1, <2>3
<1>4. e \in Events
  BY <1>1 DEF Event, Events
<1>5. /\ Publish(e) /\ lost' \in {lost, lost \union {Id}}
      /\ sending' = [stage |-> "Air", msg |-> msg]
      /\ UNCHANGED << recent, model, enabled, store, hand, forgotten, held, stuck, astray >>
      /\ UNCHANGED << page, shown >>
  BY DEF Transmit, logVars
<1>6. status \in {"Queued", "Failed"}
  OBVIOUS
<1>. HIDE DEF msg, e, status
<1>7. UiOK'
  BY <1>3, <1>5, <1>6 DEF Typed, UiOK, ShownOK, Stages
<1>8. bus' \in Seq(Events) /\ Len(bus') <= QueueMax
  BY <1>4, <1>5, Published DEF Typed, BusOK
<1>9. BusOK'
  BY <1>1, <1>5, <1>8 DEF Typed, BusOK
<1>10. RecentOK' /\ LogsOK' /\ HandOK'
  BY <1>5 DEF Typed, RecentOK, LogsOK, HandOK
<1>11. ActsOK'
  BY ActTypes, ActKinds DEF Transmit, Typed
<1>. QED
  BY <1>7, <1>9, <1>10, <1>11 DEF Typed

LEMMA RecordInModelTypes == ASSUME Typed, RecordInModel PROVE Typed'
<1>. DEFINE msg == sending.msg
            with == AppendMessage(model, msg)
<1>1. msg \in Messages /\ msg.id \in Nat
  BY DEF Typed, UiOK, Messages
<1>2. /\ model' \in {OnSendResult(with, msg.id, FALSE), with, model}
      /\ astray' \in {astray, astray \union {msg.id}}
      /\ sending' = [sending EXCEPT !.stage = "Model"]
      /\ UNCHANGED << recent, enabled, store, hand, forgotten, bus, held, stuck, lost >>
      /\ UNCHANGED << page, shown, acts >>
  BY DEF RecordInModel
<1>3. LogOK(with)
  BY <1>1, AppendKeeps DEF Typed, LogsOK
<1>. HIDE DEF msg, with
<1>4. LogsOK'
  BY <1>2, <1>3, ResultsKeep DEF Typed, LogsOK
<1>5. BusOK'
  BY <1>1, <1>2 DEF Typed, BusOK
<1>6. UiOK'
  BY <1>2 DEF Typed, UiOK, ShownOK, Stages
<1>7. RecentOK' /\ ActsOK' /\ HandOK'
  BY <1>2 DEF Typed, RecentOK, ActsOK, HandOK
<1>. QED
  BY <1>4, <1>5, <1>6, <1>7 DEF Typed

LEMMA RecordInStoreTypes == ASSUME Typed, RecordInStore PROVE Typed'
<1>1. sending.msg \in Messages
  BY DEF Typed, UiOK
<1>2. LogsOK'
  BY <1>1, AppendKeeps DEF RecordInStore, Typed, LogsOK
<1>3. UiOK'
  BY DoingType DEF RecordInStore, Typed, UiOK, ShownOK, Stages
<1>4. RecentOK' /\ HandOK' /\ BusOK' /\ ActsOK'
  BY DEF RecordInStore, busVars, Typed, RecentOK, HandOK, BusOK, ActsOK
<1>. QED
  BY <1>2, <1>3, <1>4 DEF Typed

LEMMA ShowSentTypes == ASSUME Typed, ShowSent PROVE Typed'
<1>1. page.conv \in Convs
  BY DEF Typed, UiOK
<1>2. LogsOK'
  BY <1>1, ReadBoth DEF ShowSent, Typed, LogsOK
<1>3. UiOK'
  BY <1>1, ScreenType, DoingType DEF ShowSent, Nothing, Typed, UiOK, ShownOK, Stages
<1>4. RecentOK' /\ HandOK' /\ BusOK' /\ ActsOK'
  BY DEF ShowSent, busVars, Typed, RecentOK, HandOK, BusOK, ActsOK
<1>. QED
  BY <1>2, <1>3, <1>4 DEF Typed

\* A text of a log, as the service remembers it.
LEMMA IdentityType ==
    ASSUME NEW m \in Messages, m.from # 0 PROVE Identity(m) \in Convs \X Peers \X Nat
BY DEF Identity, Messages

LEMMA ClearTypes == ASSUME Typed, Clear PROVE Typed'
<1>1. UiOK'
  BY DoingType DEF Clear, ClearStore, ClearRecent, Nothing, Typed, UiOK, ShownOK, Stages
<1>2. BusOK' /\ ActsOK'
  BY DEF Clear, ClearStore, ClearRecent, busVars, Typed, BusOK, ActsOK
<1>3. CASE ClearStore
  <2>1. LogsOK'
    BY <1>3, EmptyLogOK DEF ClearStore, Typed, LogsOK
  <2>2. RecentOK' /\ HandOK'
    BY <1>3 DEF ClearStore, busVars, Typed, RecentOK, HandOK
  <2>. QED
    BY <1>1, <1>2, <2>1, <2>2 DEF Typed
<1>4. CASE ClearRecent
  <2>1. LogsOK'
    BY <1>4 DEF ClearRecent, Typed, LogsOK
  <2>2. RecentOK'
    BY <1>4, ChatAssumption DEF ClearRecent, RecentOK
  <2>3. store.msgs \subseteq Messages /\ hand.msg \in Messages
    BY DEF Typed, LogsOK, LogOK, Logs, HandOK
  <2>4. \A m \in Texts(store) : Identity(m) \in Convs \X Peers \X Nat
    BY <2>3, IdentityType DEF Texts
  <2>5. hand.stage \in {"Model", "Store"} => Identity(hand.msg) \in Convs \X Peers \X Nat
    BY <2>3, IdentityType DEF Typed, HandOK
  <2>6. forgotten' \in SUBSET (Convs \X Peers \X Nat)
    BY <1>4, <2>4, <2>5 DEF ClearRecent
  <2>7. HandOK'
    BY <1>4, <2>6 DEF ClearRecent, busVars, Typed, HandOK
  <2>. QED
    BY <1>1, <1>2, <2>1, <2>2, <2>7 DEF Typed
<1>. QED
  BY <1>3, <1>4 DEF Clear

LEMMA ScreensTypes == ASSUME Typed, Screens PROVE Typed'
<1>. USE DEF Screens, OpenPage, Compose, Back, ClosePage, ClearModel, OpenConversation
<1>1. page.conv \in Convs /\ 0 \in Convs
  BY LogAssumption DEF Typed, UiOK
<1>2. BusOK' /\ RecentOK' /\ HandOK'
  BY DEF busVars, logVars, Typed, BusOK, RecentOK, HandOK
<1>3. ActsOK'
  BY ActTypes, ActKinds DEF Typed
<1>4. UiOK'
  <2>1. sending' \in {sending, Doing("ClearStore")}
    OBVIOUS
  <2>2. page' \in {page, List, Closed, Screen("Compose", page.conv), Screen("Conv", page.conv)}
                    \union {Screen("Conv", c) : c \in Convs}
    OBVIOUS
  <2>3. page' \in [at : {"Closed", "List", "Conv", "Compose"}, conv : Convs]
    BY <1>1, <2>2, ScreenType DEF Typed, UiOK, List, Closed
  <2>4. ShownOK'
    <3>1. shown' \in {shown, << >>}
      OBVIOUS
    <3>2. CASE shown' = shown
      BY <3>2 DEF Typed, UiOK, ShownOK
    <3>3. CASE shown' = << >>
      BY <3>3, ChatAssumption DEF ShownOK
    <3>. QED
      BY <3>1, <3>2, <3>3
  <2>5. sending' = sending \/ sending' = Doing("ClearStore")
    BY <2>1
  <2>6. CASE sending' = sending
    BY <2>3, <2>4, <2>6 DEF Typed, UiOK
  <2>7. CASE sending' = Doing("ClearStore")
    BY <2>3, <2>4, <2>7, DoingType DEF Typed, UiOK, Stages
  <2>. QED
    BY <2>5, <2>6, <2>7
<1>5. LogsOK'
  <2>1. ASSUME NEW c \in Convs, MarkConversationRead(c), enabled' = enabled PROVE LogsOK'
    BY <2>1, ReadBoth DEF Typed, LogsOK
  <2>2. ASSUME NEW c \in Convs, OpenConversation(c) PROVE LogsOK'
    BY <2>1, <2>2
  <2>3. CASE Back
    <3>1. CASE enabled' = TRUE /\ UNCHANGED << model, store >>
      BY <3>1 DEF Typed, LogsOK
    <3>2. CASE MarkConversationRead(page.conv) /\ enabled' = enabled
      BY <1>1, <2>1, <3>2
    <3>. QED
      BY <2>3, <3>1, <3>2
  <2>4. CASE OpenPage \/ Compose
    BY <2>4 DEF logVars, Typed, LogsOK
  <2>5. CASE ClosePage \/ ClearModel
    BY <2>5, EmptyLogOK DEF Typed, LogsOK
  <2>. QED
    BY <2>2, <2>3, <2>4, <2>5
<1>. QED
  BY <1>2, <1>3, <1>4, <1>5 DEF Typed

\* Steps that touch neither messages nor events nor the page.
Silent ==
    \/ Boot \/ EraseFlash \/ ChangeKeys
    \/ \E k \in config \union {Public} : OtherSend(k)
    \/ \E d \in TickSteps : Tick(d)
    \/ UNCHANGED vars

LEMMA SilentLeaves == Silent => UNCHANGED << logVars, busVars, uiVars >>
<1>1. Boot \/ EraseFlash \/ ChangeKeys \/ UNCHANGED vars
        => UNCHANGED << logVars, busVars, uiVars >>
  BY DEF Boot, EraseFlash, ChangeKeys, vars
<1>2. (\E k \in config \union {Public} : OtherSend(k)) \/ (\E d \in TickSteps : Tick(d))
        => UNCHANGED << logVars, busVars, uiVars >>
  BY DEF OtherSend, Tick
<1>. QED
  BY <1>1, <1>2 DEF Silent

LEMMA SilentTypes == ASSUME Typed, Silent PROVE Typed'
<1>1. UNCHANGED << logVars, busVars, uiVars >>
  BY SilentLeaves
<1>2. ActsOK'
  BY ActTypes, ActKinds DEF Silent, Boot, EraseFlash, ChangeKeys, OtherSend, Tick, vars, Typed, ActsOK
<1>3. RecentOK' /\ LogsOK' /\ HandOK' /\ BusOK' /\ UiOK'
  BY <1>1 DEF logVars, busVars, uiVars, Typed, RecentOK, LogsOK, HandOK, BusOK, UiOK, ShownOK
<1>. QED
  BY <1>2, <1>3 DEF Typed

LEMMA NextByDelivery ==
    ASSUME [Next]_vars
    PROVE  \/ \E p \in Packets : Hear(p)
           \/ KeepInModel \/ KeepInStore \/ Take \/ StoreResult
           \/ Feed \/ GiveBack \/ FeedGone \/ Restart
           \/ SendRefused \/ (\E ok \in BOOLEAN : Transmit(ok))
           \/ RecordInModel \/ RecordInStore \/ ShowSent \/ Screens \/ Clear \/ Silent
BY DEF Next, Radio, Loop, Send, Record, Device, Silent

LEMMA TypedStep == ASSUME Typed, IdInv, [Next]_vars PROVE Typed'
BY NextByDelivery, HearTypes, KeepTypes, TakeTypes, StoreResultTypes, FeedTypes,
   GiveBackTypes, RebootTypes, SendRefusedTypes, TransmitTypes, RecordInModelTypes,
   RecordInStoreTypes, ShowSentTypes, ScreensTypes, ClearTypes, SilentTypes

LEMMA TypedInit == Init => Typed
<1>1. Init => Rebooted
  BY DEF Init, Rebooted
<1>2. Init => ActsOK
  BY DEF Init, ActsOK
<1>. QED
  BY <1>1, <1>2, RebootedOK DEF Typed

LEMMA TypedInvariant == Spec => []Typed
<1>1. Typed /\ IdInv /\ [Next]_vars => Typed'
  BY TypedStep
<1>. QED
  BY <1>1, TypedInit, ChatIdInv, PTL DEF Spec

\* The types of everything, for all constants: in particular the bus and the
\* texts that are remembered keep their limits.
THEOREM ChatTypes == Spec => []ChatTypeOK
<1>1. Typed /\ IdInv /\ FilterOK => ChatTypeOK
  BY DEF Typed, IdInv, FilterOK, RecentOK, LogsOK, LogOK, Logs, HandOK, BusOK, UiOK, Stages,
         ShownOK, ActsOK, ChatTypeOK
<1>. QED
  BY <1>1, TypedInvariant, ChatIdInv, FilterInvariant, PTL

-----------------------------------------------------------------------------
(* The store.                                                               *)

\* The results in a queue q, and at hand as h.
ResultsOf(q, h) ==
    {e \in Events : e.kind = "Result" /\ (e = h \/ \E i \in 1 .. Len(q) : q[i] = e)}

\* The text the loop has remembered and not yet stored, and how many that are.
Coming == {m \in {hand.msg} : hand.stage \in {"Model", "Store"}}
Ahead(texts) == IF texts = {} THEN 0 ELSE 1

\* The ways a step can change the store, and the memory of texts.
Memory == << recent, Coming, forgotten >>
StoreReboots == store' = EmptyLog /\ recent' = << >> /\ Coming' = {} /\ forgotten' = {}
StoreClears == store' = EmptyLog /\ Memory' = Memory
StoreForgets ==
    /\ store' = store /\ Coming' = Coming
    /\ forgotten' = {Identity(m) : m \in Texts(store) \union Coming}
StoreReads == Memory' = Memory /\ \E c \in Convs : store' = MarkRead(store, c)
StoreLearns ==
    /\ Memory' = Memory
    /\ \E e \in ResultsOf(bus, held) : store' = UpdateMessageStatus(store, e.id, e.ok)
StoreSends ==
    Memory' = Memory /\ sending.stage = "Model" /\ store' = AppendMessage(store, sending.msg)
StoreHears(p) ==
    /\ Remember(p) /\ ~Known(p) /\ Coming = {}
    /\ Coming' = {Message(p.id, p.conv, p.from, "Incoming")}
    /\ UNCHANGED << store, forgotten >>
StoreKeeps ==
    /\ Coming = {hand.msg} /\ Coming' = {}
    /\ store' = AppendMessage(store, hand.msg)
    /\ UNCHANGED << recent, forgotten >>

\* What is no text in the hands of the loop does not count as coming.
LEMMA ComingKinds ==
    /\ hand.stage \in {"Model", "Store"} => Coming = {hand.msg}
    /\ hand.stage \notin {"Model", "Store"} => Coming = {}
    /\ hand'.stage \in {"Model", "Store"} => Coming' = {hand'.msg}
    /\ hand'.stage \notin {"Model", "Store"} => Coming' = {}
    /\ hand' = hand => Coming' = Coming
BY DEF Coming

LEMMA StoreStep ==
    ASSUME Typed, [Next]_vars
    PROVE  \/ UNCHANGED << store, Memory >>
           \/ StoreReboots \/ StoreClears \/ StoreForgets \/ StoreReads \/ StoreLearns
           \/ StoreSends \/ StoreKeeps \/ \E p \in Packets : StoreHears(p)
<1>. DEFINE Goal == \/ UNCHANGED << store, Memory >>
                    \/ StoreReboots \/ StoreClears \/ StoreForgets \/ StoreReads \/ StoreLearns
                    \/ StoreSends \/ StoreKeeps \/ \E p \in Packets : StoreHears(p)
<1>1. page.conv \in Convs
  BY DEF Typed, UiOK
<1>a. UNCHANGED << recent, hand, forgotten >> => Memory' = Memory
  BY ComingKinds DEF Memory
<1>b. \A stage : stage \notin {"Model", "Store"} /\ hand' = Doing(stage) => Coming' = {}
  BY ComingKinds, DoingType
<1>2. ASSUME NEW p \in Packets, Hear(p) PROVE Goal
  <2>. DEFINE msg == Message(p.id, p.conv, p.from, "Incoming")
  <2>1. UNCHANGED << store, forgotten >> /\ hand.stage = "None"
    BY <1>2 DEF Hear, LoopFree
  <2>2. CASE UNCHANGED << recent, hand >>
    BY <1>a, <2>1, <2>2
  <2>3. CASE ~Known(p) /\ Remember(p) /\ hand' = [stage |-> "Model", msg |-> msg]
    <3>1. Coming = {} /\ Coming' = {msg}
      <4>. HIDE DEF msg
      <4>. QED
        BY <2>1, <2>3, ComingKinds
    <3>. QED
      BY <2>1, <2>3, <3>1 DEF StoreHears
  <2>. QED
    BY <1>2, <2>2, <2>3 DEF Hear
<1>3. CASE KeepInModel
  <2>1. hand' = [hand EXCEPT !.stage = "Store"] /\ UNCHANGED << store, recent, forgotten >>
        /\ hand.stage = "Model"
    BY <1>3 DEF KeepInModel
  <2>2. hand'.stage = "Store" /\ hand'.msg = hand.msg
    BY <2>1 DEF Typed, HandOK
  <2>3. Coming' = Coming
    BY <2>1, <2>2, ComingKinds
  <2>. QED
    BY <2>1, <2>3 DEF Memory
<1>4. CASE KeepInStore
  BY <1>4, <1>b, ComingKinds DEF KeepInStore, Nothing, StoreKeeps
<1>5. CASE Take
  <2>1. UNCHANGED << store, recent, forgotten >> /\ hand.stage = "None"
        /\ hand' \in {hand, Doing("Result")}
    BY <1>5 DEF Take, LoopFree
  <2>2. Coming' = Coming
    BY <1>b, <2>1, ComingKinds
  <2>. QED
    BY <2>1, <2>2 DEF Memory
<1>6. CASE StoreResult
  <2>1. /\ UNCHANGED << recent, forgotten >> /\ hand.stage = "Result" /\ hand' = Doing("None")
        /\ store' = UpdateMessageStatus(store, held.id, held.ok)
    BY <1>6 DEF StoreResult, Nothing
  <2>2. Coming' = Coming
    BY <1>b, <2>1, ComingKinds
  <2>3. held \in ResultsOf(bus, held)
    BY <2>1, ResultInHand DEF ResultsOf
  <2>. QED
    BY <2>1, <2>2, <2>3 DEF StoreLearns, Memory
<1>7. CASE Feed \/ SendRefused \/ ShowSent
  BY <1>1, <1>7, <1>a DEF Feed, SendRefused, ShowSent, MarkConversationRead, StoreReads
<1>8. CASE GiveBack \/ RecordInModel
  BY <1>8, <1>a DEF GiveBack, RecordInModel, logVars
<1>9. CASE FeedGone \/ Restart
  BY <1>9, <1>b DEF FeedGone, Restart, ChatRestarts, Nothing, StoreReboots
<1>10. ASSUME NEW ok \in BOOLEAN, Transmit(ok) PROVE Goal
  BY <1>10, <1>a DEF Transmit, logVars
<1>11. CASE RecordInStore
  BY <1>11, <1>a DEF RecordInStore, StoreSends
<1>12. CASE Screens
  BY <1>1, <1>12, <1>a DEF Screens, OpenPage, Compose, Back, ClosePage, ClearModel,
     OpenConversation, MarkConversationRead, logVars, StoreReads
<1>13. CASE ClearStore
  BY <1>13, <1>a DEF ClearStore, StoreClears
<1>14. CASE ClearRecent
  <2>1. /\ UNCHANGED << store, hand >>
        /\ forgotten' = {Identity(m) : m \in Texts(store)}
              \union IF hand.stage \in {"Model", "Store"} THEN {Identity(hand.msg)} ELSE {}
    BY <1>14 DEF ClearRecent
  <2>2. forgotten' = {Identity(m) : m \in Texts(store) \union Coming}
    BY <2>1, ComingKinds
  <2>. QED
    BY <2>1, <2>2, ComingKinds DEF StoreForgets
<1>15. CASE Silent
  BY <1>15, <1>a, SilentLeaves DEF logVars
<1>. QED
  BY <1>2, <1>3, <1>4, <1>5, <1>6, <1>7, <1>8, <1>9, <1>10, <1>11, <1>12, <1>13, <1>14, <1>15,
     NextByDelivery DEF Clear

\* No text twice in a log; and a text is remembered unless RecentMax messages
\* came after it. A text that was remembered leaves the memory only after
\* RecentMax others, and by then the log has dropped it. gone: the texts in the
\* log when the memory was cleared.
Once(log, gone) ==
    \A m, n \in Texts(log) :
        Identity(m) = Identity(n) /\ m.id # 0 => m = n \/ Identity(m) \in gone

Remembers(mem, what, ago) ==
    \E i \in 1 .. Len(mem) : mem[i] = what /\ Len(mem) - i <= ago

Recalled(log, mem, more, gone) ==
    \A m \in Texts(log) :
        m.id # 0 /\ Identity(m) \notin gone /\ log.next - 1 - m.seq + more < RecentMax
          => Remembers(mem, Identity(m), log.next - 1 - m.seq + more)

\* A text the loop is about to store is the last one remembered, and those that
\* are the same are about to leave the log.
Awaited(log, mem, texts, gone) ==
    \A m \in texts :
        m.id # 0 /\ Identity(m) \notin gone =>
            /\ RecentMax > 0 => Remembers(mem, Identity(m), 0)
            /\ \A n \in Texts(log) : Identity(n) = Identity(m)
                                       => log.next - 1 - n.seq >= RecentMax

LEMMA AheadNumber == \A texts : Ahead(texts) \in {0, 1} /\ (texts = {} <=> Ahead(texts) = 0)
BY DEF Ahead

LEMMA TextNumbers ==
    ASSUME NEW log, LogOK(log), NEW m \in Texts(log)
    PROVE  m \in log.msgs /\ m.seq \in Nat /\ m.id \in Nat /\ m.from # 0 /\ log.next \in Nat
BY DEF Texts, LogOK, Logs, Messages

LEMMA InheritsOnce ==
    ASSUME NEW old, NEW new, LogOK(old), LogOK(new), Inherits(old, new),
           NEW mem, NEW texts, NEW gone,
           Once(old, gone), Recalled(old, mem, Ahead(texts), gone), Awaited(old, mem, texts, gone)
    PROVE  /\ Once(new, gone) /\ Recalled(new, mem, Ahead(texts), gone)
           /\ Awaited(new, mem, texts, gone)
<1>1. \A n \in Texts(new) : \E m \in Texts(old) :
          m.seq = n.seq /\ m.id = n.id /\ Identity(m) = Identity(n)
  BY DEF Inherits, Alike, Texts, Identity
<1>2. Once(new, gone)
  <2>. SUFFICES ASSUME NEW a \in Texts(new), NEW b \in Texts(new),
                       Identity(a) = Identity(b), a.id # 0, Identity(a) \notin gone
                PROVE  a = b
    BY DEF Once
  <2>1. a.seq = b.seq
    BY <1>1 DEF Once
  <2>. QED
    BY <2>1 DEF Texts, LogOK
<1>3. new.next = old.next
  BY DEF Inherits
<1>4. Recalled(new, mem, Ahead(texts), gone)
  BY <1>1, <1>3 DEF Recalled
<1>5. Awaited(new, mem, texts, gone)
  BY <1>1, <1>3 DEF Awaited
<1>. QED
  BY <1>2, <1>4, <1>5

\* What an append leaves of the texts: they were there, and are not too far back.
LEMMA AppendTexts ==
    ASSUME NEW log, LogOK(log), NEW msg \in Messages
    PROVE  /\ AppendMessage(log, msg).next = log.next + 1 /\ log.next \in Nat
           /\ LogOK(AppendMessage(log, msg))
           /\ \A n \in Texts(AppendMessage(log, msg)) :
                 \/ n \in Texts(log) /\ n.seq \in Nat /\ n.seq < log.next
                    /\ log.next - LogMax < n.seq
                 \/ n.seq = log.next /\ n.id = msg.id /\ Identity(n) = Identity(msg)
                    /\ msg.from # 0
<1>1. LogOK(AppendMessage(log, msg))
  BY AppendKeeps
<1>2. /\ AppendMessage(log, msg).next = log.next + 1 /\ log.next \in Nat
      /\ \A n \in AppendMessage(log, msg).msgs :
            \/ n \in log.msgs /\ n.seq \in Nat /\ n.seq < log.next /\ log.next - LogMax < n.seq
            \/ n.seq = log.next /\ n.id = msg.id /\ n.conv = msg.conv /\ n.from = msg.from
  BY AppendFrom
<1>. QED
  BY <1>1, <1>2 DEF Texts, Identity

LEMMA Further ==
    ASSUME NEW mem \in Seq(Convs \X Peers \X (Nat \ {0})), NEW what, NEW ago \in Int,
           Remembers(mem, what, ago)
    PROVE  Remembers(mem, what, ago + 1)
<1>1. PICK i \in 1 .. Len(mem) : mem[i] = what /\ Len(mem) - i <= ago
  BY DEF Remembers
<1>2. Len(mem) - i <= ago + 1
  <2>1. Len(mem) \in Nat
    OBVIOUS
  <2>. QED
    BY <1>1, <2>1
<1>. QED
  BY <1>1, <1>2 DEF Remembers

LEMMA OwnOnce ==
    ASSUME NEW log, LogOK(log), NEW msg \in Messages, msg.from = 0,
           NEW mem \in Seq(Convs \X Peers \X (Nat \ {0})), NEW texts, NEW gone,
           Once(log, gone), Recalled(log, mem, Ahead(texts), gone),
           Awaited(log, mem, texts, gone),
           NEW new, new = AppendMessage(log, msg)
    PROVE  /\ Once(new, gone) /\ Recalled(new, mem, Ahead(texts), gone)
           /\ Awaited(new, mem, texts, gone)
<1>1. /\ new.next = log.next + 1 /\ log.next \in Nat
      /\ \A n \in Texts(new) : n \in Texts(log) /\ n.seq \in Nat
  BY AppendTexts
<1>2. Once(new, gone)
  BY <1>1 DEF Once
<1>3. Recalled(new, mem, Ahead(texts), gone)
  <2>. SUFFICES ASSUME NEW m \in Texts(new), m.id # 0, Identity(m) \notin gone,
                       new.next - 1 - m.seq + Ahead(texts) < RecentMax
                PROVE  Remembers(mem, Identity(m), new.next - 1 - m.seq + Ahead(texts))
    BY DEF Recalled
  <2>. DEFINE more == Ahead(texts)
              ago == log.next - 1 - m.seq + more
  <2>a. more \in {0, 1}
    BY AheadNumber, Zenon
  <2>. HIDE DEF more
  <2>1. m \in Texts(log) /\ ago \in Int /\ ago < RecentMax
        /\ new.next - 1 - m.seq + more = ago + 1
    BY <1>1, <2>a, ChatAssumption DEF more
  <2>2. Remembers(mem, Identity(m), ago)
    BY <2>1 DEF Recalled, more
  <2>. HIDE DEF ago
  <2>. QED
    BY <2>1, <2>2, Further DEF more
<1>4. Awaited(new, mem, texts, gone)
  BY <1>1, ChatAssumption DEF Awaited
<1>. QED
  BY <1>2, <1>3, <1>4

\* A text that is heard is remembered last, and nothing that still matters goes.
LEMMA HeardOnce ==
    ASSUME Typed, NEW p \in Packets, StoreHears(p), Recalled(store, recent, 0, forgotten)
    PROVE  /\ Recalled(store, recent', 1, forgotten)
           /\ Awaited(store, recent', Coming', forgotten)
<1>. DEFINE msg == Message(p.id, p.conv, p.from, "Incoming")
            T == Convs \X Peers \X (Nat \ {0})
            all == Append(recent, IdentityOf(p))
<1>1. msg.id = p.id /\ Identity(msg) = IdentityOf(p) /\ p.id \in Nat
  BY HeardType DEF Identity, IdentityOf
<1>2. Coming' = {msg} /\ Remember(p) /\ ~Known(p)
  BY DEF StoreHears
<1>3. recent \in Seq(T) /\ Len(recent) <= RecentMax /\ RecentMax \in Nat /\ Len(recent) \in Nat
  BY ChatAssumption DEF Typed, RecentOK
<1>4. LogOK(store)
  BY DEF Typed, LogsOK
<1>. HIDE DEF msg, T
<1>5. CASE p.id = 0
  <2>1. recent' = recent
    BY <1>2, <1>5 DEF Remember
  <2>2. Recalled(store, recent, 1, forgotten)
    <3>. SUFFICES ASSUME NEW m \in Texts(store), m.id # 0, Identity(m) \notin forgotten,
                         store.next - 1 - m.seq + 1 < RecentMax
                  PROVE  Remembers(recent, Identity(m), store.next - 1 - m.seq + 1)
      BY DEF Recalled
    <3>1. m.seq \in Nat /\ store.next \in Nat
      BY <1>4, TextNumbers
    <3>2. Remembers(recent, Identity(m), store.next - 1 - m.seq + 0)
      BY <1>3, <3>1 DEF Recalled
    <3>3. store.next - 1 - m.seq + 0 \in Int
      BY <3>1
    <3>4. Remembers(recent, Identity(m), (store.next - 1 - m.seq + 0) + 1)
      BY <1>3, <3>2, <3>3, Further DEF T
    <3>5. (store.next - 1 - m.seq + 0) + 1 = store.next - 1 - m.seq + 1
      BY <3>1
    <3>. QED
      BY <3>4, <3>5
  <2>3. Awaited(store, recent', Coming', forgotten)
    BY <1>1, <1>2, <1>5 DEF Awaited
  <2>. QED
    BY <2>1, <2>2, <2>3
<1>6. CASE p.id # 0
  <2>1. recent' = IF Len(all) > RecentMax THEN Tail(all) ELSE all
    BY <1>2, <1>6 DEF Remember
  <2>2. IdentityOf(p) \in T
    BY <1>6, HeardType DEF IdentityOf, T
  <2>3. /\ all \in Seq(T) /\ Len(all) = Len(recent) + 1
        /\ all[Len(recent) + 1] = IdentityOf(p)
        /\ \A i \in 1 .. Len(recent) : all[i] = recent[i]
    BY <1>3, <2>2
  <2>. HIDE DEF all
  <2>4. /\ Tail(all) \in Seq(T) /\ Len(Tail(all)) = Len(recent)
        /\ \A i \in 1 .. Len(recent) : Tail(all)[i] = all[i + 1]
    BY <1>3, <2>3
  <2>5. ASSUME NEW n \in Texts(store), Identity(n) = IdentityOf(p), IdentityOf(p) \notin forgotten
        PROVE  store.next - 1 - n.seq >= RecentMax
    <3>1. n.seq \in Nat /\ store.next \in Nat /\ n.id # 0
      BY <1>4, <1>6, <2>5, TextNumbers DEF Identity, IdentityOf
    <3>2. ~Remembers(recent, Identity(n), store.next - 1 - n.seq + 0)
      BY <1>2, <1>6, <2>5 DEF Remembers, Known
    <3>3. ~(store.next - 1 - n.seq + 0 < RecentMax)
      BY <2>5, <3>1, <3>2 DEF Recalled
    <3>. QED
      BY <1>3, <3>1, <3>3
  <2>6. RecentMax > 0 => Remembers(recent', IdentityOf(p), 0)
    <3>. SUFFICES ASSUME RecentMax > 0 PROVE Remembers(recent', IdentityOf(p), 0)
      OBVIOUS
    <3>1. CASE Len(all) > RecentMax
      <4>1. Len(recent) >= 1 /\ recent' = Tail(all)
        BY <1>3, <2>1, <2>3, <3>1
      <4>2. recent'[Len(recent)] = IdentityOf(p) /\ Len(recent') = Len(recent)
        BY <1>3, <2>3, <2>4, <4>1
      <4>. QED
        BY <1>3, <4>1, <4>2 DEF Remembers
    <3>2. CASE ~(Len(all) > RecentMax)
      <4>1. recent' = all
        BY <2>1, <3>2
      <4>. QED
        BY <1>3, <2>3, <4>1 DEF Remembers
    <3>. QED
      BY <3>1, <3>2
  <2>7. Awaited(store, recent', Coming', forgotten)
    BY <1>1, <1>2, <2>5, <2>6 DEF Awaited
  <2>8. Recalled(store, recent', 1, forgotten)
    <3>. SUFFICES ASSUME NEW m \in Texts(store), m.id # 0, Identity(m) \notin forgotten,
                         store.next - 1 - m.seq + 1 < RecentMax
                  PROVE  Remembers(recent', Identity(m), store.next - 1 - m.seq + 1)
      BY DEF Recalled
    <3>1. m.seq \in Nat /\ store.next \in Nat
      BY <1>4, TextNumbers
    <3>2. Remembers(recent, Identity(m), store.next - 1 - m.seq + 0)
      BY <1>3, <3>1 DEF Recalled
    <3>3. PICK i \in 1 .. Len(recent) :
              recent[i] = Identity(m) /\ Len(recent) - i <= store.next - 1 - m.seq + 0
      BY <3>2 DEF Remembers
    <3>4. CASE Len(all) > RecentMax
      <4>1. recent' = Tail(all) /\ Len(recent) = RecentMax
        BY <1>3, <2>1, <2>3, <3>4
      <4>2. i >= 2
        BY <1>3, <3>1, <3>3, <4>1
      <4>3. i - 1 \in 1 .. Len(recent) /\ (i - 1) + 1 = i /\ Len(recent') = Len(recent)
        BY <1>3, <2>4, <4>1, <4>2
      <4>4. recent'[i - 1] = all[i]
        BY <2>4, <4>1, <4>3
      <4>5. recent'[i - 1] = Identity(m)
        BY <2>3, <3>3, <4>4
      <4>6. Len(recent) - (i - 1) <= store.next - 1 - m.seq + 1
        BY <1>3, <3>1, <3>3
      <4>7. Len(recent') - (i - 1) <= store.next - 1 - m.seq + 1
        BY <4>3, <4>6
      <4>. QED
        BY <4>3, <4>5, <4>7 DEF Remembers
    <3>5. CASE ~(Len(all) > RecentMax)
      <4>1. recent' = all
        BY <2>1, <3>5
      <4>2. i \in 1 .. Len(recent') /\ recent'[i] = Identity(m)
            /\ Len(recent') - i <= store.next - 1 - m.seq + 1
        BY <1>3, <2>3, <3>1, <3>3, <4>1
      <4>. QED
        BY <4>2 DEF Remembers
    <3>. QED
      BY <3>4, <3>5
  <2>. QED
    BY <2>7, <2>8
<1>. QED
  BY <1>5, <1>6

\* A text that is stored is the only one of its kind in the log: the others, if
\* there were any, have to make room for it.
LEMMA KeptOnce ==
    ASSUME NEW log, LogOK(log), NEW msg \in Messages,
           NEW mem \in Seq(Convs \X Peers \X (Nat \ {0})), NEW gone,
           Once(log, gone), Recalled(log, mem, 1, gone), Awaited(log, mem, {msg}, gone),
           NEW new, new = AppendMessage(log, msg)
    PROVE  Once(new, gone) /\ Recalled(new, mem, 0, gone)
<1>1. /\ new.next = log.next + 1 /\ log.next \in Nat /\ LogOK(new)
      /\ \A n \in Texts(new) :
            \/ n \in Texts(log) /\ n.seq \in Nat /\ n.seq < log.next
               /\ log.next - LogMax < n.seq
            \/ n.seq = log.next /\ n.id = msg.id /\ Identity(n) = Identity(msg)
  BY AppendTexts
<1>2. RecentMax \in Nat /\ LogMax \in Nat /\ RecentMax + 1 >= LogMax
  BY ChatAssumption, LogAssumption
<1>3. ASSUME NEW n \in Texts(log), n.seq \in Nat, log.next - LogMax < n.seq,
             Identity(n) = Identity(msg), msg.id # 0, Identity(msg) \notin gone
      PROVE  FALSE
  <2>1. log.next - 1 - n.seq >= RecentMax
    BY <1>3 DEF Awaited
  <2>. QED
    BY <1>1, <1>2, <1>3, <2>1
<1>4. Once(new, gone)
  <2>. SUFFICES ASSUME NEW a \in Texts(new), NEW b \in Texts(new),
                       Identity(a) = Identity(b), a.id # 0, Identity(a) \notin gone
                PROVE  a = b
    BY DEF Once
  <2>1. a.id = b.id /\ a \in new.msgs /\ b \in new.msgs
    BY DEF Identity, Texts
  <2>2. CASE a.seq = log.next /\ b.seq = log.next
    BY <1>1, <2>1, <2>2 DEF LogOK
  <2>3. CASE a.seq # log.next /\ b.seq # log.next
    BY <1>1, <2>3 DEF Once
  <2>4. CASE a.seq # log.next /\ b.seq = log.next
    <3>1. a \in Texts(log) /\ a.seq \in Nat /\ log.next - LogMax < a.seq
      BY <1>1, <2>4
    <3>2. b.id = msg.id /\ Identity(b) = Identity(msg)
      BY <1>1, <2>4
    <3>. QED
      BY <1>3, <2>1, <3>1, <3>2
  <2>5. CASE a.seq = log.next /\ b.seq # log.next
    <3>1. b \in Texts(log) /\ b.seq \in Nat /\ log.next - LogMax < b.seq
      BY <1>1, <2>5
    <3>2. a.id = msg.id /\ Identity(a) = Identity(msg)
      BY <1>1, <2>5
    <3>. QED
      BY <1>3, <3>1, <3>2
  <2>. QED
    BY <2>2, <2>3, <2>4, <2>5
<1>5. Recalled(new, mem, 0, gone)
  <2>. SUFFICES ASSUME NEW m \in Texts(new), m.id # 0, Identity(m) \notin gone,
                       new.next - 1 - m.seq + 0 < RecentMax
                PROVE  Remembers(mem, Identity(m), new.next - 1 - m.seq + 0)
    BY DEF Recalled
  <2>1. CASE m \in Texts(log) /\ m.seq \in Nat
    <3>1. new.next - 1 - m.seq + 0 = log.next - 1 - m.seq + 1
      BY <1>1, <2>1
    <3>. QED
      BY <2>1, <3>1 DEF Recalled
  <2>2. CASE m.seq = log.next /\ m.id = msg.id /\ Identity(m) = Identity(msg)
    <3>1. new.next - 1 - m.seq + 0 = 0 /\ RecentMax > 0
      BY <1>1, <1>2, <2>2
    <3>. QED
      BY <2>2, <3>1 DEF Awaited
  <2>. QED
    BY <1>1, <2>1, <2>2
<1>. QED
  BY <1>4, <1>5

\* What the node sent is its own, what it received is not.
Sides(log) == \A m \in log.msgs : Incoming(m) <=> m.from # 0

StoreInv ==
    /\ Once(store, forgotten) /\ Recalled(store, recent, Ahead(Coming), forgotten)
    /\ Awaited(store, recent, Coming, forgotten)
    /\ Sides(store) /\ CountsOK(store)

StoreEmpty == store = EmptyLog /\ Coming = {}

LEMMA EmptyHolds == ASSUME NEW log, log.msgs = {}
                    PROVE  \A mem, more, gone : Once(log, gone) /\ Recalled(log, mem, more, gone)
BY DEF Once, Recalled, Texts

LEMMA EmptyStoreInv == StoreEmpty => StoreInv
<1>. SUFFICES ASSUME StoreEmpty PROVE StoreInv
  OBVIOUS
<1>. USE DEF StoreEmpty
<1>1. store.msgs = {}
  BY DEF EmptyLog
<1>2. Once(store, forgotten) /\ Recalled(store, recent, Ahead(Coming), forgotten)
  BY <1>1, EmptyHolds
<1>3. Sides(store) /\ Awaited(store, recent, Coming, forgotten)
  BY <1>1 DEF Sides, Awaited
<1>. QED
  BY <1>2, <1>3, EmptyLogOK DEF StoreInv

LEMMA ReadSides ==
    ASSUME NEW log, LogOK(log), NEW c \in Convs, Sides(log) PROVE Sides(MarkRead(log, c))
BY ReadInherits DEF Sides, Alike, Incoming

LEMMA AppendSides ==
    ASSUME NEW log, LogOK(log), NEW m \in Messages, Sides(log), Incoming(m) <=> m.from # 0
    PROVE  Sides(AppendMessage(log, m))
BY AppendFrom DEF Sides, Incoming

\* A result reaches only messages of our own.
LEMMA UpdateSides ==
    ASSUME NEW log, LogOK(log), NEW id, NEW ok \in BOOLEAN, Sides(log), CountsOK(log)
    PROVE  /\ Sides(UpdateMessageStatus(log, id, ok))
           /\ CountsOK(UpdateMessageStatus(log, id, ok))
<1>. DEFINE ms == Own(log, id)
            new == SetStatus(log, ms, Verdict(ok))
<1>1. /\ Verdict(ok) \in Statuses /\ ms \in SUBSET log.msgs
      /\ UpdateMessageStatus(log, id, ok) = IF id = 0 THEN log ELSE new
  BY ResultsAreStatuses
<1>2. \A m \in ms : m.from = 0 /\ ~Incoming(m) /\ ~m.fresh
  BY DEF Own, ById, Sides, CountsOK
<1>3. Verdict(ok) # "Incoming"
  BY DEF Verdict
<1>. HIDE DEF ms
<1>4. CountsOK(new)
  BY <1>1, <1>2, SetStatusCounts
<1>5. \A n \in new.msgs : n \in log.msgs \/ (n.from = 0 /\ n.status = Verdict(ok))
  <2>1. \A n \in new.msgs :
          \/ n \in log.msgs
          \/ First(ms) \in ms /\ Alike(First(ms), n) /\ n.status = Verdict(ok)
    BY <1>1, StatusInherits
  <2>. QED
    BY <1>2, <2>1 DEF Alike
<1>. HIDE DEF new
<1>6. Sides(new)
  BY <1>3, <1>5 DEF Sides, Incoming
<1>. QED
  BY <1>1, <1>4, <1>6

LEMMA StoreInvStep ==
    ASSUME Typed, StoreInv, [Next]_vars PROVE StoreInv'
<1>1. LogOK(store) /\ recent \in Seq(Convs \X Peers \X (Nat \ {0}))
  BY DEF Typed, LogsOK, RecentOK
<1>2. /\ Once(store, forgotten) /\ Recalled(store, recent, Ahead(Coming), forgotten)
      /\ Awaited(store, recent, Coming, forgotten) /\ Sides(store) /\ CountsOK(store)
  BY DEF StoreInv
<1>3. Memory' = Memory => recent' = recent /\ Coming' = Coming /\ forgotten' = forgotten
  BY DEF Memory
<1>4. CASE UNCHANGED << store, Memory >>
  BY <1>2, <1>3, <1>4 DEF StoreInv
<1>5. CASE StoreReboots
  <2>1. StoreEmpty'
    BY <1>5 DEF StoreReboots, StoreEmpty
  <2>. QED
    BY <2>1, EmptyStoreInv, PTL
<1>6. CASE StoreClears
  <2>1. store' = EmptyLog /\ EmptyLog.msgs = {} /\ Memory' = Memory
    BY <1>6 DEF StoreClears, EmptyLog
  <2>2. Once(store', forgotten') /\ Recalled(store', recent', Ahead(Coming'), forgotten')
    BY <2>1, EmptyHolds
  <2>3. Awaited(store', recent', Coming', forgotten')
    BY <1>2, <1>3, <2>1 DEF Awaited, Texts
  <2>4. Sides(store') /\ CountsOK(store')
    BY <2>1, EmptyLogOK DEF Sides
  <2>. QED
    BY <2>2, <2>3, <2>4 DEF StoreInv
<1>7. CASE StoreForgets
  <2>1. /\ store' = store /\ Coming' = Coming
        /\ \A m \in Texts(store) \union Coming : Identity(m) \in forgotten'
    BY <1>7 DEF StoreForgets
  <2>2. Once(store', forgotten') /\ Recalled(store', recent', Ahead(Coming'), forgotten')
        /\ Awaited(store', recent', Coming', forgotten')
    BY <2>1 DEF Once, Recalled, Awaited
  <2>. QED
    BY <1>2, <2>1, <2>2 DEF StoreInv
<1>8. CASE StoreReads
  <2>1. PICK c \in Convs : store' = MarkRead(store, c) /\ Memory' = Memory
    BY <1>8 DEF StoreReads
  <2>2. LogOK(store') /\ Inherits(store, store') /\ Sides(store') /\ CountsOK(store')
    BY <1>1, <1>2, <2>1, MarkReadKeeps, ReadInherits, ReadSides, MarkReadCounts
  <2>3. /\ Once(store', forgotten) /\ Recalled(store', recent, Ahead(Coming), forgotten)
        /\ Awaited(store', recent, Coming, forgotten)
    BY <1>1, <1>2, <2>2, InheritsOnce
  <2>. QED
    BY <1>3, <2>1, <2>2, <2>3 DEF StoreInv
<1>9. CASE StoreLearns
  <2>1. PICK id \in Nat, ok \in BOOLEAN :
            store' = UpdateMessageStatus(store, id, ok) /\ Memory' = Memory
    BY <1>9 DEF StoreLearns, ResultsOf, Events
  <2>2. LogOK(store') /\ Inherits(store, store') /\ Sides(store') /\ CountsOK(store')
    BY <1>1, <1>2, <2>1, ResultsKeep, ResultInherits, UpdateSides
  <2>3. /\ Once(store', forgotten) /\ Recalled(store', recent, Ahead(Coming), forgotten)
        /\ Awaited(store', recent, Coming, forgotten)
    BY <1>1, <1>2, <2>2, InheritsOnce
  <2>. QED
    BY <1>3, <2>1, <2>2, <2>3 DEF StoreInv
<1>10. CASE StoreSends
  <2>. DEFINE msg == sending.msg
  <2>1. store' = AppendMessage(store, msg) /\ Memory' = Memory
    BY <1>10 DEF StoreSends
  <2>2. /\ msg \in Messages /\ msg.from = 0 /\ ~msg.fresh /\ ~Incoming(msg)
    BY DEF Typed, UiOK, Incoming
  <2>. HIDE DEF msg
  <2>3. Sides(store') /\ CountsOK(store')
    BY <1>1, <1>2, <2>1, <2>2, AppendSides, AppendCounts
  <2>4. /\ Once(store', forgotten) /\ Recalled(store', recent, Ahead(Coming), forgotten)
        /\ Awaited(store', recent, Coming, forgotten)
    BY <1>1, <1>2, <2>1, <2>2, OwnOnce
  <2>. QED
    BY <1>3, <2>1, <2>3, <2>4 DEF StoreInv
<1>11. ASSUME NEW p \in Packets, StoreHears(p) PROVE StoreInv'
  <2>1. UNCHANGED << store, forgotten >> /\ Ahead(Coming) = 0 /\ Ahead(Coming') = 1
    BY <1>11, AheadNumber DEF StoreHears
  <2>2. /\ Recalled(store, recent', 1, forgotten) /\ Awaited(store, recent', Coming', forgotten)
    BY <1>2, <1>11, <2>1, HeardOnce
  <2>. QED
    BY <1>2, <2>1, <2>2 DEF StoreInv
<1>12. CASE StoreKeeps
  <2>. DEFINE msg == hand.msg
  <2>1. store' = AppendMessage(store, msg) /\ Coming = {msg} /\ Coming' = {}
        /\ UNCHANGED << recent, forgotten >>
    BY <1>12 DEF StoreKeeps
  <2>2. hand.stage \in {"Model", "Store"}
    BY <2>1 DEF Coming
  <2>3. msg \in Messages /\ msg.from # 0 /\ msg.fresh /\ Incoming(msg)
    BY <2>2 DEF Typed, HandOK, Incoming
  <2>. HIDE DEF msg
  <2>4. Ahead(Coming) = 1 /\ Ahead(Coming') = 0
    BY <2>1, AheadNumber
  <2>5. Once(store', forgotten) /\ Recalled(store', recent, 0, forgotten)
    BY <1>1, <1>2, <2>1, <2>3, <2>4, KeptOnce
  <2>6. Sides(store') /\ CountsOK(store')
    BY <1>1, <1>2, <2>1, <2>3, AppendSides, AppendCounts
  <2>7. Awaited(store', recent', Coming', forgotten')
    BY <2>1 DEF Awaited
  <2>. QED
    BY <2>1, <2>4, <2>5, <2>6, <2>7 DEF StoreInv
<1>. QED
  BY <1>4, <1>5, <1>6, <1>7, <1>8, <1>9, <1>10, <1>11, <1>12, StoreStep

LEMMA StoreInvariant == Spec => []StoreInv
<1>1. Init => StoreInv
  <2>1. Init => StoreEmpty
    BY ComingKinds, DoingType DEF Init, Nothing, StoreEmpty
  <2>. QED
    BY <2>1, EmptyStoreInv
<1>2. Typed /\ StoreInv /\ [Next]_vars => StoreInv'
  BY StoreInvStep
<1>. QED
  BY <1>1, <1>2, TypedInvariant, PTL DEF Spec

\* No received text is stored twice, for any number of texts the service
\* remembers that is not below the limit of the log by more than one, and
\* wherever the other task comes between remembering a text and storing it; but
\* a text that came in while all messages were being cleared may be stored again
\* (ChatService::isDuplicateIncoming, clearAllMessages, kRecentIncomingLimit).
THEOREM ChatStoredOnce == Spec => []StoredOnce
<1>1. StoreInv => StoredOnce
  BY DEF StoreInv, Once, StoredOnce
<1>. QED
  BY <1>1, StoreInvariant, PTL

\* Results never touch a received message of the store, for all constants
\* (RamStore::updateMessageStatus).
THEOREM ChatReceivedStaysReceived == Spec => []ReceivedStaysReceived
<1>1. StoreInv => ReceivedStaysReceived
  BY DEF StoreInv, Sides, ReceivedStaysReceived
<1>. QED
  BY <1>1, StoreInvariant, PTL

\* The counts of unread messages are right up to the conversations that lost a
\* read message at the expense of the count, for all constants
\* (RamStore::append, setUnread, evictOldestMessage).
THEOREM ChatUnreadCounts == Spec => []UnreadCounts
<1>1. StoreInv => UnreadCounts
  BY DEF StoreInv, CountsOK, UnreadCounts
<1>. QED
  BY <1>1, StoreInvariant, PTL

-----------------------------------------------------------------------------
(* Sends and their results.                                                 *)

\* The allocator r has handed out id in this boot; it will not do so again.
HandedBy(r, id) == r.state # "Off" /\ id >= 1 /\ (r.state = "Ready" => id < r.next)
HandedLater(r, later) == \A id \in Nat : HandedBy(r, id) => HandedBy(later, id)

OwnMsgs(log) == {m \in log.msgs : m.from = 0}

\* No two messages of our own have the same id.
OwnIds(log, r) ==
    /\ \A m \in OwnMsgs(log) : HandedBy(r, m.id)
    /\ \A m, n \in OwnMsgs(log) : m.id = n.id => m = n

\* The message in the sending function is not stored yet.
Unstored(snd) == snd.stage \in {"Air", "Model"}

SendingOK(mlog, log, snd, r) ==
    Unstored(snd) =>
        /\ HandedBy(r, snd.msg.id)
        /\ \A m \in OwnMsgs(log) : m.id # snd.msg.id
        /\ snd.stage = "Air" => \A m \in OwnMsgs(mlog) : m.id # snd.msg.id

\* The results of one id say the same, and what is recorded says nothing else.
ResultsOK(rs, log, snd, r) ==
    \A e \in rs :
        /\ HandedBy(r, e.id)
        /\ \A f \in rs : f.id = e.id => f.ok = e.ok
        /\ \A m \in OwnMsgs(log) : m.id = e.id => m.status \in {"Queued", Verdict(e.ok)}
        /\ Unstored(snd) /\ snd.msg.id = e.id => snd.msg.status \in {"Queued", Verdict(e.ok)}

\* The result that is in the model and not yet in the store.
AtHand == IF hand.stage = "Result" THEN {held.id} ELSE {}

\* Why a message may be queued: its result is in q or at hand, or known to be
\* lost.
Comes(q, id) == \E i \in 1 .. Len(q) : q[i].kind = "Result" /\ q[i].id = id
Reason(q, lst, at, id) == Comes(q, id) \/ id \in lst \union at

QueuedOK(log, snd, q, lst, at) ==
    /\ \A m \in OwnMsgs(log) : m.status = "Queued" => Reason(q, lst, at, m.id)
    /\ Unstored(snd) /\ snd.msg.status = "Queued" => Reason(q, lst, at, snd.msg.id)

\* Model and store agree, and the model agrees with what is still to be stored;
\* but for the ids in except.
ModelOK(mlog, en, log, snd, except) ==
    /\ ~en => mlog.msgs = {}
    /\ \A m \in OwnMsgs(mlog), n \in OwnMsgs(log) :
          m.id = n.id => m.status = n.status \/ m.id \in except
    /\ Unstored(snd) =>
          \A m \in OwnMsgs(mlog) :
              m.id = snd.msg.id => m.status = snd.msg.status \/ m.id \in except

\* The result at hand is in the model already: its message has the verdict, or
\* will never have it from the model.
VerdictOK(mlog, snd, at, ok, ast) ==
    \A id \in at \ ast :
        /\ \A m \in OwnMsgs(mlog) : m.id = id => m.status = Verdict(ok)
        /\ snd.stage = "Air" => snd.msg.id # id

\* What the page was told of sends, and what it is going to be told next.
Told(s, h, at) ==
    Entries(s) \union {d \in {Delivery(h.id, h.ok)} : h.kind = "Result" /\ h.id \notin at}

\* What is told agrees with the results still to come, with the store, and with
\* the message in the sending function; or it came before the message.
ToldOK(ds, rs, log, snd, lst, r) ==
    \A d \in ds :
        /\ HandedBy(r, d.id)
        /\ \A e \in rs : e.id = d.id => Verdict(e.ok) = d.state
        /\ \A m \in OwnMsgs(log) : m.id = d.id => m.status = d.state \/ m.id \in lst
        /\ Unstored(snd) /\ snd.msg.id = d.id => d.id \in lst

DeliveryInv ==
    /\ OwnIds(store, ram) /\ OwnIds(model, ram)
    /\ SendingOK(model, store, sending, ram)
    /\ ResultsOK(ResultsOf(bus, held), store, sending, ram)
    /\ QueuedOK(store, sending, bus, lost, AtHand)
    /\ ModelOK(model, enabled, store, sending, lost \union astray \union AtHand)
    /\ VerdictOK(model, sending, AtHand, held.ok, astray)
    /\ ToldOK(Told(shown, held, AtHand), ResultsOf(bus, held), store, sending, lost, ram)

\* A step that neither takes a result up nor puts one away.
SameAtHand ==
    /\ hand'.stage = "Result" <=> hand.stage = "Result"
    /\ hand.stage = "Result" => held' = held

LEMMA AtHandStays == SameAtHand => AtHand' = AtHand
BY DEF SameAtHand, AtHand

\* The messages of our own in new are messages of old, with the same status.
Echoes(old, new) ==
    \A n \in OwnMsgs(new) : \E m \in OwnMsgs(old) :
        m.seq = n.seq /\ m.id = n.id /\ m.status = n.status

LEMMA ReadEchoes ==
    ASSUME NEW log, LogOK(log), NEW c \in Convs PROVE Echoes(log, MarkRead(log, c))
BY ReadInherits DEF Echoes, OwnMsgs, Alike

LEMMA SameEchoes == ASSUME NEW log PROVE Echoes(log, log)
BY DEF Echoes

LEMMA EmptyEchoes == ASSUME NEW log PROVE Echoes(log, EmptyLog)
BY DEF Echoes, OwnMsgs, EmptyLog

LEMMA ReceiveEchoes ==
    ASSUME NEW log, LogOK(log), NEW m \in Messages, m.from # 0
    PROVE  Echoes(log, AppendMessage(log, m))
BY AppendFrom DEF Echoes, OwnMsgs

LEMMA OwnNumbers ==
    ASSUME NEW log, LogOK(log), NEW m \in OwnMsgs(log)
    PROVE  m \in log.msgs /\ m \in Messages /\ m.id \in Nat /\ m.seq \in Nat /\ m.from = 0
BY DEF OwnMsgs, LogOK, Logs, Messages

\* What the allocator does in a boot, it does not take back.
LEMMA RamMoves ==
    ASSUME IdInv, \/ Initialize \/ Configure \/ Erase \/ UNCHANGED idVars
                  \/ \E k \in config \union {Public} : OtherPacket(k)
    PROVE  HandedLater(ram, ram')
<1>1. CASE Initialize
  BY <1>1 DEF Initialize, HandedLater, HandedBy
<1>2. CASE Configure \/ Erase \/ UNCHANGED idVars
  BY <1>2 DEF Configure, Erase, idVars, HandedLater
<1>3. ASSUME NEW k \in config \union {Public}, OtherPacket(k)
      PROVE  HandedLater(ram, ram')
  <2>1. CASE Allocate(k)
    BY <2>1, AllocatedId DEF HandedLater, HandedBy
  <2>2. CASE AllocateFails(k)
    BY <2>2 DEF AllocateFails, Idle, HandedLater, HandedBy
  <2>3. CASE Refused(k)
    BY <2>3 DEF Refused, idVars, HandedLater
  <2>. QED
    BY <1>3, <2>1, <2>2, <2>3 DEF OtherPacket
<1>. QED
  BY <1>1, <1>2, <1>3

\* The ids are distinct in a log whose messages of our own were in another one.
Descends(old, new) ==
    \A n \in OwnMsgs(new) : \E m \in OwnMsgs(old) : m.seq = n.seq /\ m.id = n.id

LEMMA IdsEcho ==
    ASSUME NEW old, NEW new, LogOK(old), LogOK(new), Descends(old, new),
           NEW r, NEW later, HandedLater(r, later), OwnIds(old, r)
    PROVE  OwnIds(new, later)
<1>1. \A n \in OwnMsgs(new) : HandedBy(later, n.id)
  BY OwnNumbers DEF Descends, OwnIds, HandedLater
<1>2. \A a, b \in OwnMsgs(new) : a.id = b.id => a.seq = b.seq
  BY DEF Descends, OwnIds
<1>3. \A a, b \in OwnMsgs(new) : a.seq = b.seq => a = b
  BY OwnNumbers DEF LogOK
<1>. QED
  BY <1>1, <1>2, <1>3 DEF OwnIds

LEMMA ToldType == ASSUME Typed PROVE \A d \in Told(shown, held, AtHand) : d.id \in Nat
<1>1. \A d \in Entries(shown) : d.id \in Nat
  <2>1. Entries(shown) \subseteq Deliveries
    BY DEF Typed, UiOK, ShownOK, Entries
  <2>. QED
    BY <2>1 DEF Deliveries
<1>2. held.kind = "Result" => held.id \in Nat /\ held.ok \in BOOLEAN
  BY DEF Typed, BusOK, Events, NoEvent, Event
<1>3. held.kind = "Result" => Delivery(held.id, held.ok).id \in Nat
  BY <1>2, DeliveryType
<1>. QED
  BY <1>1, <1>3 DEF Told

\* With nothing at hand the page will only be told what it was told; a page
\* without records was told nothing.
LEMMA ToldNothing ==
    /\ \A s, at : Told(s, NoEvent, at) = Entries(s)
    /\ Entries(<< >>) = {}
<1>1. NoEvent.kind # "Result"
  BY DEF NoEvent, Event
<1>. QED
  BY <1>1 DEF Told, Entries

LEMMA EchoStep ==
    ASSUME DeliveryInv, Typed, LogOK(store'), LogOK(model'), HandedLater(ram, ram'),
           Echoes(store, store'), Echoes(model, model'),
           Unstored(sending') => sending' = sending, UNCHANGED << lost, astray >>,
           SameAtHand,
           ResultsOf(bus', held') \subseteq ResultsOf(bus, held),
           \A id \in Nat : Comes(bus, id) => Comes(bus', id),
           Told(shown', held', AtHand) \subseteq Told(shown, held, AtHand),
           ~enabled' => model'.msgs = {}
    PROVE  DeliveryInv'
<1>. DEFINE except == lost \union astray \union AtHand
<1>1. /\ OwnIds(store, ram) /\ OwnIds(model, ram)
      /\ SendingOK(model, store, sending, ram)
      /\ ResultsOK(ResultsOf(bus, held), store, sending, ram)
      /\ QueuedOK(store, sending, bus, lost, AtHand)
      /\ ModelOK(model, enabled, store, sending, except)
      /\ VerdictOK(model, sending, AtHand, held.ok, astray)
      /\ ToldOK(Told(shown, held, AtHand), ResultsOf(bus, held), store, sending, lost, ram)
  BY DEF DeliveryInv
<1>2. LogOK(store) /\ LogOK(model) /\ sending.msg.id \in Nat
      /\ lost' = lost /\ astray' = astray /\ AtHand' = AtHand
      /\ (Unstored(sending') => sending' = sending /\ Unstored(sending))
  BY AtHandStays DEF Typed, LogsOK, UiOK, Messages
<1>. HIDE DEF except
<1>3. OwnIds(store', ram') /\ OwnIds(model', ram')
  <2>1. Descends(store, store') /\ Descends(model, model')
    BY DEF Descends, Echoes
  <2>. QED
    BY <1>1, <1>2, <2>1, IdsEcho
<1>4. SendingOK(model', store', sending', ram')
  BY <1>1, <1>2 DEF SendingOK, HandedLater, Echoes
<1>5. ResultsOK(ResultsOf(bus', held'), store', sending', ram')
  <2>. SUFFICES ASSUME NEW e \in ResultsOf(bus', held')
                PROVE  /\ HandedBy(ram', e.id)
                       /\ \A f \in ResultsOf(bus', held') : f.id = e.id => f.ok = e.ok
                       /\ \A m \in OwnMsgs(store') : m.id = e.id =>
                             m.status \in {"Queued", Verdict(e.ok)}
                       /\ Unstored(sending') /\ sending'.msg.id = e.id
                            => sending'.msg.status \in {"Queued", Verdict(e.ok)}
    BY DEF ResultsOK
  <2>1. e \in ResultsOf(bus, held) /\ e.id \in Nat
    BY DEF ResultsOf, Events
  <2>2. HandedBy(ram', e.id)
    BY <1>1, <2>1 DEF ResultsOK, HandedLater
  <2>3. \A f \in ResultsOf(bus', held') : f.id = e.id => f.ok = e.ok
    BY <1>1, <2>1 DEF ResultsOK
  <2>4. \A m \in OwnMsgs(store') : m.id = e.id => m.status \in {"Queued", Verdict(e.ok)}
    BY <1>1, <2>1 DEF ResultsOK, Echoes
  <2>5. Unstored(sending') /\ sending'.msg.id = e.id
          => sending'.msg.status \in {"Queued", Verdict(e.ok)}
    BY <1>1, <1>2, <2>1 DEF ResultsOK
  <2>. QED
    BY <2>2, <2>3, <2>4, <2>5
<1>6. QueuedOK(store', sending', bus', lost, AtHand)
  <2>1. \A id \in Nat : Reason(bus, lost, AtHand, id) => Reason(bus', lost, AtHand, id)
    BY DEF Reason
  <2>2. \A m \in OwnMsgs(store) : m.id \in Nat
    BY <1>2, OwnNumbers
  <2>3. \A n \in OwnMsgs(store') : n.status = "Queued" => Reason(bus', lost, AtHand, n.id)
    BY <1>1, <2>1, <2>2 DEF QueuedOK, Echoes
  <2>4. Unstored(sending') /\ sending'.msg.status = "Queued"
          => Reason(bus', lost, AtHand, sending'.msg.id)
    BY <1>1, <1>2, <2>1 DEF QueuedOK
  <2>. QED
    BY <2>3, <2>4 DEF QueuedOK
<1>7. ModelOK(model', enabled', store', sending', except)
  <2>1. \A m \in OwnMsgs(model'), n \in OwnMsgs(store') :
           m.id = n.id => m.status = n.status \/ m.id \in except
    BY <1>1 DEF ModelOK, Echoes
  <2>2. Unstored(sending') =>
          \A m \in OwnMsgs(model') :
              m.id = sending'.msg.id => m.status = sending'.msg.status \/ m.id \in except
    BY <1>1, <1>2 DEF ModelOK, Echoes
  <2>. QED
    BY <2>1, <2>2 DEF ModelOK
<1>8. VerdictOK(model', sending', AtHand, held'.ok, astray)
  <2>. SUFFICES ASSUME NEW id \in AtHand \ astray
                PROVE  /\ \A m \in OwnMsgs(model') : m.id = id => m.status = Verdict(held'.ok)
                       /\ sending'.stage = "Air" => sending'.msg.id # id
    BY DEF VerdictOK
  <2>1. held' = held
    BY DEF AtHand, SameAtHand
  <2>2. \A m \in OwnMsgs(model') : m.id = id => m.status = Verdict(held.ok)
    BY <1>1 DEF VerdictOK, Echoes
  <2>3. sending'.stage = "Air" => sending' = sending
    BY DEF Unstored
  <2>. QED
    BY <1>1, <2>1, <2>2, <2>3 DEF VerdictOK
<1>9. ToldOK(Told(shown', held', AtHand), ResultsOf(bus', held'), store', sending', lost, ram')
  <2>. SUFFICES ASSUME NEW d \in Told(shown', held', AtHand)
                PROVE  /\ HandedBy(ram', d.id)
                       /\ \A e \in ResultsOf(bus', held') :
                             e.id = d.id => Verdict(e.ok) = d.state
                       /\ \A n \in OwnMsgs(store') :
                             n.id = d.id => n.status = d.state \/ n.id \in lost
                       /\ Unstored(sending') /\ sending'.msg.id = d.id => d.id \in lost
    BY DEF ToldOK
  <2>1. d \in Told(shown, held, AtHand) /\ d.id \in Nat
    BY ToldType
  <2>2. HandedBy(ram', d.id)
    BY <1>1, <2>1 DEF ToldOK, HandedLater
  <2>3. \A n \in OwnMsgs(store') : n.id = d.id => n.status = d.state \/ n.id \in lost
    BY <1>1, <2>1 DEF ToldOK, Echoes
  <2>4. \A e \in ResultsOf(bus', held') : e.id = d.id => Verdict(e.ok) = d.state
    BY <1>1, <2>1 DEF ToldOK
  <2>5. Unstored(sending') /\ sending'.msg.id = d.id => d.id \in lost
    BY <1>1, <1>2, <2>1 DEF ToldOK
  <2>. QED
    BY <2>2, <2>3, <2>4, <2>5
<1>. QED
  BY <1>2, <1>3, <1>4, <1>5, <1>6, <1>7, <1>8, <1>9 DEF DeliveryInv, except

\* Queues.
LEMMA PublishedResults ==
    ASSUME Typed, NEW e \in Events, Publish(e), NEW h, e.kind = "Result" => e = h \/ e = held,
           h \in {held, NoEvent}
    PROVE  /\ ResultsOf(bus', h) \subseteq ResultsOf(bus, held)
           /\ \A id \in Nat : Comes(bus, id) => Comes(bus', id)
<1>1. /\ bus \in Seq(Events) /\ bus' \in Seq(Events) /\ Len(bus) \in Nat /\ Len(bus') \in Nat
      /\ Len(bus) <= Len(bus') /\ \A i \in 1 .. Len(bus) : bus'[i] = bus[i]
      /\ \A i \in 1 .. Len(bus') : i <= Len(bus) \/ bus'[i] = e
  BY Published DEF Typed, BusOK
<1>2. NoEvent.kind # "Result"
  BY DEF NoEvent, Event
<1>3. ASSUME NEW f \in ResultsOf(bus', h) PROVE f \in ResultsOf(bus, held)
  <2>1. f \in Events /\ f.kind = "Result" /\ (f = h \/ \E i \in 1 .. Len(bus') : bus'[i] = f)
    BY DEF ResultsOf
  <2>2. CASE f = h
    BY <1>2, <2>1, <2>2 DEF ResultsOf
  <2>3. CASE f # h
    <3>1. PICK i \in 1 .. Len(bus') : bus'[i] = f
      BY <2>1, <2>3
    <3>2. CASE i <= Len(bus)
      BY <1>1, <2>1, <3>1, <3>2 DEF ResultsOf
    <3>3. CASE bus'[i] = e
      BY <2>1, <2>3, <3>1, <3>3 DEF ResultsOf
    <3>. QED
      BY <1>1, <3>2, <3>3
  <2>. QED
    BY <2>2, <2>3
<1>4. \A id \in Nat : Comes(bus, id) => Comes(bus', id)
  BY <1>1 DEF Comes
<1>. QED
  BY <1>3, <1>4

LEMMA Unchanged ==
    ASSUME DeliveryInv,
           UNCHANGED << store, model, enabled, sending, shown, bus, held, lost, astray >>,
           SameAtHand, Typed, HandedLater(ram, ram')
    PROVE  DeliveryInv'
<1>1. LogOK(store') /\ LogOK(model') /\ store' = store /\ model' = model
  BY DEF Typed, LogsOK
<1>2. Echoes(store, store') /\ Echoes(model, model')
  BY <1>1, SameEchoes
<1>3. ~enabled' => model'.msgs = {}
  BY DEF DeliveryInv, ModelOK
<1>. QED
  BY <1>1, <1>2, <1>3, EchoStep

LEMMA HearDelivers ==
    ASSUME DeliveryInv, Typed, IdInv, NEW p \in Packets, Hear(p) PROVE DeliveryInv'
<1>1. HandedLater(ram, ram')
  <2>1. CASE Readable(p) /\ OtherPacket(p.key)
    BY <2>1, RamMoves DEF Readable
  <2>2. CASE UNCHANGED idVars
    BY <2>2, RamMoves
  <2>. QED
    BY <2>1, <2>2 DEF Hear
<1>2. UNCHANGED << store, model, enabled, sending, shown, bus, held, lost, astray >>
  BY DEF Hear, uiVars, busVars
<1>3. SameAtHand
  <2>1. hand.stage = "None" /\ hand'.stage \in {"None", "Model"}
    BY DEF Hear, LoopFree
  <2>. QED
    BY <2>1 DEF SameAtHand
<1>. QED
  BY <1>1, <1>2, <1>3, Unchanged

LEMMA KeepDelivers ==
    ASSUME DeliveryInv, Typed, IdInv, KeepInModel \/ KeepInStore PROVE DeliveryInv'
<1>1. HandedLater(ram, ram')
  BY RamMoves DEF KeepInModel, KeepInStore
<1>2. hand.stage \in {"Model", "Store"} /\ hand.msg \in Messages /\ hand.msg.from # 0
      /\ LogOK(model) /\ LogOK(store) /\ (~enabled => model.msgs = {})
  BY DEF KeepInModel, KeepInStore, Typed, HandOK, LogsOK, DeliveryInv, ModelOK
<1>3. CASE KeepInModel
  <2>1. /\ UNCHANGED << store, enabled, sending, shown, bus, held, lost, astray >>
        /\ hand'.stage = "Store"
        /\ model' = IF enabled THEN AppendMessage(model, hand.msg) ELSE model
    BY <1>3 DEF KeepInModel, busVars, uiVars, Typed, HandOK
  <2>2. LogOK(store') /\ LogOK(model') /\ Echoes(store, store') /\ Echoes(model, model')
    BY <1>2, <2>1, AppendKeeps, ReceiveEchoes, SameEchoes
  <2>3. SameAtHand
    BY <1>2, <2>1 DEF SameAtHand
  <2>. QED
    BY <1>1, <1>2, <2>1, <2>2, <2>3, EchoStep
<1>4. CASE KeepInStore
  <2>. DEFINE e == Event("New", hand.msg.id, TRUE)
  <2>1. /\ UNCHANGED << model, enabled, sending, shown, held, lost, astray >>
        /\ hand' = Nothing /\ Publish(e) /\ store' = AppendMessage(store, hand.msg)
    BY <1>4 DEF KeepInStore, uiVars
  <2>2. e \in Events /\ e.kind # "Result"
    BY <1>2 DEF Event, Events, Messages
  <2>. HIDE DEF e
  <2>3. LogOK(store') /\ LogOK(model') /\ Echoes(store, store') /\ Echoes(model, model')
    BY <1>2, <2>1, AppendKeeps, ReceiveEchoes, SameEchoes
  <2>4. /\ ResultsOf(bus', held') \subseteq ResultsOf(bus, held)
        /\ \A id \in Nat : Comes(bus, id) => Comes(bus', id)
    BY <2>1, <2>2, PublishedResults
  <2>5. SameAtHand
    BY <1>2, <2>1, DoingType DEF SameAtHand, Nothing
  <2>. QED
    BY <1>1, <1>2, <2>1, <2>3, <2>4, <2>5, EchoStep
<1>. QED
  BY <1>3, <1>4

LEMMA GiveBackDelivers == ASSUME DeliveryInv, Typed, IdInv, GiveBack PROVE DeliveryInv'
<1>1. HandedLater(ram, ram')
  BY RamMoves DEF GiveBack
<1>2. /\ UNCHANGED << store, model, enabled, hand, sending, shown, lost, astray >>
      /\ held' = NoEvent /\ hand.stage = "None"
  BY DEF GiveBack, LoopFree, logVars, uiVars
<1>3. LogOK(store') /\ LogOK(model') /\ Echoes(store, store') /\ Echoes(model, model')
  BY <1>2, SameEchoes DEF Typed, LogsOK
<1>4. /\ ResultsOf(bus', held') \subseteq ResultsOf(bus, held)
      /\ \A id \in Nat : Comes(bus, id) => Comes(bus', id)
  <2>1. held \in Events /\ Publish(held)
    BY DEF GiveBack, Typed, BusOK
  <2>. QED
    BY <1>2, <2>1, PublishedResults
<1>5. ~enabled' => model'.msgs = {}
  BY <1>2 DEF DeliveryInv, ModelOK
<1>6. Told(shown', held', AtHand) \subseteq Told(shown, held, AtHand)
  BY <1>2, ToldNothing DEF Told
<1>7. SameAtHand
  BY <1>2 DEF SameAtHand
<1>. QED
  BY <1>1, <1>2, <1>3, <1>4, <1>5, <1>6, <1>7, EchoStep

LEMMA ReadEmpty ==
    ASSUME NEW log, LogOK(log), NEW c \in Convs, log.msgs = {}
    PROVE  MarkRead(log, c).msgs = {}
<1>1. MarkRead(log, c).msgs = {ReadIn(c, m) : m \in log.msgs}
  BY MarkReadShape
<1>. QED
  BY <1>1

\* Steps that at most read, clear or switch the logs.
LEMMA LogsDeliver ==
    ASSUME DeliveryInv, Typed, HandedLater(ram, ram'),
           Unstored(sending') => sending' = sending,
           UNCHANGED << bus, lost, astray >>, held' \in {held, NoEvent}, SameAtHand,
           Told(shown', held', AtHand) \subseteq Told(shown, held, AtHand),
           \/ UNCHANGED << store, model >>
           \/ \E c \in Convs : MarkConversationRead(c)
           \/ model' \in {model, EmptyLog} /\ store' \in {store, EmptyLog},
           enabled' \in {enabled, TRUE} \/ model' = EmptyLog \/ (~enabled /\ model' = model)
    PROVE  DeliveryInv'
<1>1. LogOK(store) /\ LogOK(model) /\ (~enabled => model.msgs = {})
  BY DEF Typed, LogsOK, DeliveryInv, ModelOK
<1>2. EmptyLog.msgs = {}
  BY DEF EmptyLog
<1>3. /\ ResultsOf(bus', held') \subseteq ResultsOf(bus, held)
      /\ \A id \in Nat : Comes(bus, id) => Comes(bus', id)
  <2>1. NoEvent.kind # "Result" /\ bus' = bus
    BY DEF NoEvent, Event
  <2>. QED
    BY <2>1 DEF ResultsOf
<1>4. CASE UNCHANGED << store, model >>
  BY <1>1, <1>2, <1>3, <1>4, SameEchoes, EchoStep
<1>5. ASSUME NEW c \in Convs, MarkConversationRead(c) PROVE DeliveryInv'
  <2>1. store' = MarkRead(store, c) /\ model' = MarkRead(model, c)
    BY <1>5 DEF MarkConversationRead
  <2>2. LogOK(store') /\ LogOK(model') /\ Echoes(store, store') /\ Echoes(model, model')
    BY <1>1, <2>1, MarkReadKeeps, ReadEchoes
  <2>3. model.msgs = {} => model'.msgs = {}
    BY <1>1, <2>1, ReadEmpty
  <2>4. ~enabled' => model'.msgs = {}
    BY <1>1, <1>2, <2>3
  <2>. QED
    BY <1>1, <1>3, <2>2, <2>4, EchoStep
<1>6. CASE model' \in {model, EmptyLog} /\ store' \in {store, EmptyLog}
  <2>1. LogOK(store') /\ LogOK(model') /\ Echoes(store, store') /\ Echoes(model, model')
    BY <1>1, <1>6, EmptyLogOK, EmptyEchoes, SameEchoes
  <2>2. ~enabled' => model'.msgs = {}
    BY <1>1, <1>2, <1>6
  <2>. QED
    BY <1>3, <2>1, <2>2, EchoStep
<1>. QED
  BY <1>4, <1>5, <1>6

LEMMA FeedDelivers ==
    ASSUME DeliveryInv, Typed, IdInv, Feed \/ SendRefused PROVE DeliveryInv'
<1>1. page.conv \in Convs
  BY DEF Typed, UiOK
<1>2. HandedLater(ram, ram')
  <2>1. CASE UNCHANGED idVars
    BY <2>1, RamMoves
  <2>2. CASE AllocateFails(KeyFor(page.conv))
    BY <2>2, RamMoves, KeyForConfigured DEF OtherPacket
  <2>. QED
    BY <2>1, <2>2 DEF Feed, SendRefused
<1>3. /\ UNCHANGED << bus, sending, lost, astray, enabled >> /\ held' \in {held, NoEvent}
      /\ UNCHANGED << store, model >> \/ MarkConversationRead(page.conv)
  BY DEF Feed, SendRefused, uiVars, busVars
<1>4. SameAtHand
  BY DEF Feed, LoopFree, SendRefused, busVars, SameAtHand
<1>5. Told(shown', held', AtHand) \subseteq Told(shown, held, AtHand)
  <2>1. CASE Feed
    <3>1. held' = NoEvent /\ AtHand = {}
      BY <2>1 DEF Feed, LoopFree, AtHand
    <3>2. Entries(shown') \subseteq Told(shown, held, AtHand)
      BY <2>1, <3>1, FeedShows DEF Told
    <3>. QED
      BY <3>1, <3>2, ToldNothing
  <2>2. CASE SendRefused
    BY <2>2 DEF SendRefused, busVars
  <2>. QED
    BY <2>1, <2>2
<1>. QED
  BY <1>1, <1>2, <1>3, <1>4, <1>5, LogsDeliver

\* The end of a send, and the clearing of everything.
LEMMA ClearDelivers ==
    ASSUME DeliveryInv, Typed, IdInv, ShowSent \/ Clear PROVE DeliveryInv'
<1>1. page.conv \in Convs
  BY DEF Typed, UiOK
<1>2. HandedLater(ram, ram')
  BY RamMoves DEF ShowSent, Clear, ClearStore, ClearRecent
<1>3. /\ UNCHANGED << bus, held, hand, lost, astray, enabled, shown >>
      /\ \/ UNCHANGED << store, model >> \/ MarkConversationRead(page.conv)
         \/ model' = model /\ store' = EmptyLog
      /\ sending' \in {Nothing, Doing("ClearRecent")}
  BY DEF ShowSent, Clear, ClearStore, ClearRecent, busVars
<1>4. ~Unstored(sending')
  BY <1>3, DoingType DEF Nothing, Unstored
<1>5. SameAtHand
  BY <1>3 DEF SameAtHand
<1>6. \/ UNCHANGED << store, model >>
      \/ \E c \in Convs : MarkConversationRead(c)
      \/ model' \in {model, EmptyLog} /\ store' \in {store, EmptyLog}
  BY <1>1, <1>3
<1>7. Told(shown', held', AtHand) \subseteq Told(shown, held, AtHand)
  BY <1>3
<1>. QED
  BY <1>2, <1>3, <1>4, <1>5, <1>6, <1>7, LogsDeliver

LEMMA ScreensDeliver == ASSUME DeliveryInv, Typed, IdInv, Screens PROVE DeliveryInv'
<1>1. page.conv \in Convs
  BY DEF Typed, UiOK
<1>2. UNCHANGED << idVars, bus, held, hand, lost, astray >>
  BY DEF Screens, OpenPage, Compose, Back, ClosePage, ClearModel, OpenConversation,
         busVars, logVars
<1>3. HandedLater(ram, ram') /\ Told(shown', held', AtHand) \subseteq Told(shown, held, AtHand)
      /\ SameAtHand
  <2>1. shown' \in {shown, << >>}
    BY DEF Screens, OpenPage, Compose, Back, ClosePage, ClearModel, OpenConversation, uiVars
  <2>. QED
    BY <1>2, <2>1, RamMoves, ToldNothing DEF Told, SameAtHand
<1>4. Unstored(sending') => sending' = sending
  <2>1. sending' = sending \/ sending' = Doing("ClearStore")
    BY DEF Screens, OpenPage, Compose, Back, ClosePage, ClearModel, OpenConversation, uiVars
  <2>. QED
    BY <2>1, DoingType DEF Unstored
<1>5. ASSUME NEW c \in Convs, OpenConversation(c) PROVE DeliveryInv'
  BY <1>2, <1>3, <1>4, <1>5, LogsDeliver DEF OpenConversation
<1>6. CASE Back
  <2>1. \/ enabled' = TRUE /\ UNCHANGED << store, model >>
        \/ enabled' = enabled /\ MarkConversationRead(page.conv)
    BY <1>6 DEF Back
  <2>. QED
    BY <1>1, <1>2, <1>3, <1>4, <2>1, LogsDeliver
<1>7. CASE OpenPage \/ Compose
  <2>1. enabled' \in {enabled, TRUE} /\ UNCHANGED << store, model >>
    BY <1>7 DEF OpenPage, Compose, logVars
  <2>. QED
    BY <1>2, <1>3, <1>4, <2>1, LogsDeliver
<1>8. CASE ClosePage \/ ClearModel
  <2>1. store' = store /\ (model' = EmptyLog \/ (~enabled /\ ~enabled' /\ model' = model))
    BY <1>8 DEF ClosePage, ClearModel
  <2>. QED
    BY <1>2, <1>3, <1>4, <2>1, LogsDeliver
<1>. QED
  BY <1>5, <1>6, <1>7, <1>8 DEF Screens

LEMMA SilentDelivers == ASSUME DeliveryInv, Typed, IdInv, Silent PROVE DeliveryInv'
<1>1. UNCHANGED << store, model, enabled, sending, shown, bus, held, lost, astray >>
  BY SilentLeaves DEF logVars, busVars, uiVars
<1>2. HandedLater(ram, ram')
  <2>1. CASE Boot \/ EraseFlash \/ ChangeKeys
    BY <2>1, RamMoves DEF Boot, EraseFlash, ChangeKeys
  <2>2. ASSUME NEW k \in config \union {Public}, OtherSend(k) PROVE HandedLater(ram, ram')
    BY <2>2, RamMoves DEF OtherSend
  <2>3. ASSUME NEW d \in TickSteps, Tick(d) PROVE HandedLater(ram, ram')
    BY <2>3, RamMoves DEF Tick
  <2>4. CASE UNCHANGED vars
    BY <2>4, RamMoves DEF vars
  <2>. QED
    BY <2>1, <2>2, <2>3, <2>4 DEF Silent
<1>3. SameAtHand
  BY SilentLeaves DEF logVars, busVars, SameAtHand
<1>. QED
  BY <1>1, <1>2, <1>3, Unchanged

LEMMA RebootedDelivers == Rebooted => DeliveryInv
<1>. SUFFICES ASSUME Rebooted PROVE DeliveryInv
  OBVIOUS
<1>1. store.msgs = {} /\ model.msgs = {} /\ bus = << >> /\ held = NoEvent /\ lost = {}
      /\ sending.stage = "None" /\ hand.stage = "None"
  BY DoingType DEF Rebooted, EmptyLog, Nothing
<1>2. OwnMsgs(store) = {} /\ OwnMsgs(model) = {}
  BY <1>1 DEF OwnMsgs
<1>3. ResultsOf(bus, held) = {}
  BY <1>1 DEF ResultsOf, NoEvent, Event
<1>4. Told(shown, held, AtHand) = {} /\ AtHand = {}
  BY <1>1, ToldNothing DEF Rebooted, AtHand
<1>5. ~Unstored(sending)
  BY <1>1 DEF Unstored
<1>. QED
  BY <1>1, <1>2, <1>3, <1>4, <1>5
  DEF DeliveryInv, OwnIds, SendingOK, ResultsOK, QueuedOK, ModelOK, VerdictOK, ToldOK

\* The messages of our own in new are messages of old, and the one with that id
\* has got the verdict.
Decides(old, new, id, ok) ==
    \A n \in OwnMsgs(new) : \E m \in OwnMsgs(old) :
        /\ m.seq = n.seq /\ m.id = n.id
        /\ n.status = IF m.id = id THEN Verdict(ok) ELSE m.status

LEMMA StatusDecides ==
    ASSUME NEW log, LogOK(log), NEW id, NEW ok \in BOOLEAN, NEW ms \in SUBSET ById(log, id),
           ms # {}, First(ms).from = 0, \A m, n \in OwnMsgs(log) : m.id = n.id => m = n,
           NEW new, new = SetStatus(log, ms, Verdict(ok))
    PROVE  Decides(log, new, id, ok)
<1>1. ms \in SUBSET log.msgs /\ \A m \in ms : m.id = id
  BY DEF ById
<1>2. Verdict(ok) \in Statuses
  BY ResultsAreStatuses
<1>3. \A n \in new.msgs :
          \/ n \in log.msgs /\ n # First(ms)
          \/ First(ms) \in ms /\ Alike(First(ms), n) /\ n.status = Verdict(ok)
  BY <1>1, <1>2, StatusInherits
<1>4. First(ms) \in OwnMsgs(log) /\ First(ms).id = id
  <2>1. First(ms) \in ms
    BY <1>1, FirstIn DEF LogOK, Logs
  <2>. QED
    BY <1>1, <2>1 DEF OwnMsgs
<1>. HIDE DEF Decides
<1>5. ASSUME NEW n \in OwnMsgs(new)
      PROVE  \E m \in OwnMsgs(log) :
                /\ m.seq = n.seq /\ m.id = n.id
                /\ n.status = IF m.id = id THEN Verdict(ok) ELSE m.status
  <2>1. n \in new.msgs /\ n.from = 0
    BY DEF OwnMsgs
  <2>2. CASE n \in log.msgs /\ n # First(ms)
    <3>1. n \in OwnMsgs(log) /\ n.id # id
      BY <1>4, <2>1, <2>2 DEF OwnMsgs
    <3>. QED
      BY <3>1
  <2>3. CASE Alike(First(ms), n) /\ n.status = Verdict(ok)
    BY <1>4, <2>3 DEF Alike
  <2>. QED
    BY <1>3, <2>1, <2>2, <2>3
<1>. QED
  BY <1>5 DEF Decides

LEMMA StoreDecides ==
    ASSUME NEW log, LogOK(log), NEW id, id # 0, NEW ok \in BOOLEAN,
           \A m, n \in OwnMsgs(log) : m.id = n.id => m = n
    PROVE  Decides(log, UpdateMessageStatus(log, id, ok), id, ok)
<1>1. UpdateMessageStatus(log, id, ok) = SetStatus(log, Own(log, id), Verdict(ok))
  BY ResultsAreStatuses
<1>2. CASE Own(log, id) = {}
  <2>1. SetStatus(log, Own(log, id), Verdict(ok)) = log
    BY <1>2 DEF SetStatus
  <2>2. \A m \in OwnMsgs(log) : m.id # id
    BY <1>2 DEF Own, ById, OwnMsgs
  <2>. QED
    BY <1>1, <2>1, <2>2 DEF Decides
<1>3. CASE Own(log, id) # {}
  <2>1. Own(log, id) \in SUBSET ById(log, id) /\ Own(log, id) \in SUBSET Messages
    BY DEF Own, ById, LogOK, Logs
  <2>2. First(Own(log, id)) \in Own(log, id)
    BY <1>3, <2>1, FirstIn
  <2>3. First(Own(log, id)).from = 0
    BY <2>2 DEF Own
  <2>. QED
    BY <1>1, <1>3, <2>1, <2>3, StatusDecides
<1>. QED
  BY <1>2, <1>3

\* The model gives a result to a message of our own, or to a received one.
LEMMA ModelDecides ==
    ASSUME NEW log, LogOK(log), NEW id, NEW ok \in BOOLEAN,
           \A m, n \in OwnMsgs(log) : m.id = n.id => m = n,
           NEW new, new = OnSendResult(log, id, ok)
    PROVE  /\ ~(ById(log, id) # {} /\ First(ById(log, id)).from # 0)
                => Decides(log, new, id, ok)
           /\ ById(log, id) # {} /\ First(ById(log, id)).from # 0 => Echoes(log, new)
<1>1. new = SetStatus(log, ById(log, id), Verdict(ok)) /\ Verdict(ok) \in Statuses
      /\ ById(log, id) \in SUBSET log.msgs /\ ById(log, id) \in SUBSET Messages
  BY ResultsAreStatuses DEF LogOK, Logs
<1>2. CASE ById(log, id) = {}
  <2>1. new = log
    BY <1>1, <1>2 DEF SetStatus
  <2>2. \A m \in OwnMsgs(log) : m.id # id
    BY <1>2 DEF ById, OwnMsgs
  <2>. QED
    BY <1>2, <2>1, <2>2 DEF Decides
<1>3. CASE ById(log, id) # {} /\ First(ById(log, id)).from = 0
  BY <1>1, <1>3, StatusDecides
<1>4. CASE ById(log, id) # {} /\ First(ById(log, id)).from # 0
  <2>1. \A n \in new.msgs :
          \/ n \in log.msgs
          \/ Alike(First(ById(log, id)), n)
    BY <1>1, StatusInherits
  <2>2. \A n \in OwnMsgs(new) : n \in OwnMsgs(log)
    BY <1>4, <2>1 DEF OwnMsgs, Alike
  <2>. QED
    BY <1>4, <2>2 DEF Echoes
<1>. QED
  BY <1>2, <1>3, <1>4

\* The loop takes e: what it takes was on the bus.
LEMMA TakeFacts ==
    ASSUME Typed, Take, NEW e, e = Head(bus)
    PROVE  /\ e \in Events /\ e.id \in Nat /\ e.ok \in BOOLEAN
           /\ held' \in {NoEvent, e} /\ held = NoEvent
           /\ ResultsOf(bus', held') \subseteq ResultsOf(bus, held)
           /\ e.kind = "Result" => e \in ResultsOf(bus, held)
           /\ \A id \in Nat : Comes(bus, id) =>
                 Comes(bus', id) \/ (e.kind = "Result" /\ e.id = id)
           /\ UNCHANGED << enabled, store, lost, sending, shown, ram >>
<1>1. /\ e \in Events /\ e.id \in Nat /\ e.ok \in BOOLEAN /\ e = bus[1] /\ Len(bus) >= 1
      /\ Len(bus) \in Nat /\ Len(bus') = Len(bus) - 1
      /\ \A i \in 1 .. Len(bus) - 1 : bus'[i] = bus[i + 1]
  BY HeadEvent DEF Take, Typed, BusOK
<1>2. /\ held' \in {NoEvent, e} /\ held = NoEvent
      /\ UNCHANGED << enabled, store, lost, sending, shown, ram >>
  BY DEF Take, uiVars, idVars
<1>3. NoEvent.kind # "Result"
  BY DEF NoEvent, Event
<1>4. \A i \in 1 .. Len(bus') : \E j \in 1 .. Len(bus) : bus[j] = bus'[i]
  <2>. SUFFICES ASSUME NEW i \in 1 .. Len(bus')
                PROVE  \E j \in 1 .. Len(bus) : bus[j] = bus'[i]
    OBVIOUS
  <2>1. i + 1 \in 1 .. Len(bus) /\ bus'[i] = bus[i + 1]
    BY <1>1
  <2>. QED
    BY <2>1
<1>5. 1 \in 1 .. Len(bus)
  BY <1>1
<1>6. ResultsOf(bus', held') \subseteq ResultsOf(bus, held)
  BY <1>1, <1>2, <1>3, <1>4, <1>5 DEF ResultsOf
<1>7. e.kind = "Result" => e \in ResultsOf(bus, held)
  BY <1>1, <1>5 DEF ResultsOf
<1>8. ASSUME NEW id \in Nat, Comes(bus, id)
      PROVE  Comes(bus', id) \/ (e.kind = "Result" /\ e.id = id)
  <2>1. PICK i \in 1 .. Len(bus) : bus[i].kind = "Result" /\ bus[i].id = id
    BY <1>8 DEF Comes
  <2>2. CASE i = 1
    BY <1>1, <2>1, <2>2
  <2>3. CASE i # 1
    <3>1. i - 1 \in 1 .. Len(bus') /\ i - 1 + 1 = i
      BY <1>1, <2>1, <2>3
    <3>2. bus'[i - 1] = bus[i]
      BY <1>1, <3>1
    <3>. QED
      BY <2>1, <3>1, <3>2 DEF Comes
  <2>. QED
    BY <2>2, <2>3
<1>. QED
  BY <1>1, <1>2, <1>6, <1>7, <1>8

\* What the verdict does to the parts, for logs in general.
LEMMA DecidesStatus ==
    ASSUME NEW old, NEW new, NEW id, NEW ok, Decides(old, new, id, ok)
    PROVE  /\ Descends(old, new)
           /\ \A n \in OwnMsgs(new) : n.id = id => n.status = Verdict(ok)
           /\ \A n \in OwnMsgs(new) : n.id # id =>
                 \E m \in OwnMsgs(old) : m.id = n.id /\ m.status = n.status
BY DEF Decides, Descends

\* A result goes to the model: the verdict is there, unless the model has given
\* the result away or does not know the message yet; the store still waits.
LEMMA TakeResult ==
    ASSUME Typed, DeliveryInv, Take, NEW e, e = Head(bus), e.kind = "Result"
    PROVE  DeliveryInv'
<1>. DEFINE except == lost \union astray \union AtHand
<1>1. /\ OwnIds(store, ram) /\ OwnIds(model, ram)
      /\ SendingOK(model, store, sending, ram)
      /\ ResultsOK(ResultsOf(bus, held), store, sending, ram)
      /\ QueuedOK(store, sending, bus, lost, AtHand)
      /\ ModelOK(model, enabled, store, sending, except)
      /\ ToldOK(Told(shown, held, AtHand), ResultsOf(bus, held), store, sending, lost, ram)
  BY DEF DeliveryInv
<1>2. LogOK(store) /\ LogOK(model) /\ LogOK(model')
      /\ enabled \in BOOLEAN /\ sending.msg.id \in Nat
  BY TakeTypes DEF Typed, LogsOK, UiOK, Messages
<1>3. /\ e.id \in Nat /\ e.ok \in BOOLEAN
      /\ ResultsOf(bus', held') \subseteq ResultsOf(bus, held)
      /\ \A id \in Nat : Comes(bus, id) => Comes(bus', id) \/ e.id = id
      /\ UNCHANGED << enabled, store, lost, sending, shown, ram >>
  BY TakeFacts
<1>4. /\ held' = e /\ hand' = Doing("Result") /\ hand.stage = "None"
      /\ model' = ModelResult(e.id, e.ok)
      /\ astray' = IF Mistaken(model, e.id) \/ Awaits({"Air"}, e.id)
                   THEN astray \union {e.id} ELSE astray
  BY DEF Take, LoopFree
<1>5. AtHand = {} /\ AtHand' = {e.id}
  BY <1>4, DoingType DEF AtHand
<1>6. astray \subseteq astray' /\ except \subseteq lost' \union astray' \union AtHand'
      /\ e.id \in lost' \union astray' \union AtHand'
  BY <1>3, <1>4, <1>5
<1>7. /\ Descends(model, model')
      /\ \A n \in OwnMsgs(model') : n.id = e.id =>
            n.status = Verdict(e.ok) \/ e.id \in astray'
      /\ \A n \in OwnMsgs(model') : n.id # e.id =>
            \E m \in OwnMsgs(model) : m.id = n.id /\ m.status = n.status
      /\ ~enabled => model'.msgs = {}
  <2>1. CASE ~enabled
    <3>1. model' = model /\ model.msgs = {}
      BY <1>1, <1>4, <2>1 DEF ModelResult, ModelOK
    <3>2. OwnMsgs(model') = {}
      BY <3>1 DEF OwnMsgs
    <3>. QED
      BY <3>1, <3>2 DEF Descends
  <2>2. CASE enabled /\ ~Mistaken(model, e.id)
    <3>1. Decides(model, model', e.id, e.ok)
      BY <1>1, <1>2, <1>3, <1>4, <2>2, ModelDecides DEF ModelResult, Mistaken, OwnIds
    <3>. QED
      BY <2>2, <3>1, DecidesStatus
  <2>3. CASE enabled /\ Mistaken(model, e.id)
    <3>1. Echoes(model, model')
      BY <1>1, <1>2, <1>3, <1>4, <2>3, ModelDecides DEF ModelResult, Mistaken, OwnIds
    <3>2. e.id \in astray'
      BY <1>4, <2>3
    <3>. QED
      BY <2>3, <3>1, <3>2 DEF Echoes, Descends
  <2>. QED
    BY <1>2, <2>1, <2>2, <2>3
<1>. HIDE DEF except
<1>8. OwnIds(store', ram') /\ OwnIds(model', ram')
  <2>1. OwnIds(model', ram)
    BY <1>1, <1>2, <1>7, IdsEcho DEF HandedLater
  <2>. QED
    BY <1>1, <1>3, <2>1
<1>9. SendingOK(model', store', sending', ram')
  BY <1>1, <1>3, <1>7 DEF SendingOK, Descends
<1>10. ResultsOK(ResultsOf(bus', held'), store', sending', ram')
  BY <1>1, <1>3 DEF ResultsOK
<1>11. QueuedOK(store', sending', bus', lost', AtHand')
  <2>1. \A id \in Nat : Reason(bus, lost, AtHand, id) => Reason(bus', lost', AtHand', id)
    BY <1>3, <1>5 DEF Reason
  <2>2. \A m \in OwnMsgs(store) : m.id \in Nat
    BY <1>2, OwnNumbers
  <2>. QED
    BY <1>1, <1>2, <1>3, <2>1, <2>2 DEF QueuedOK
<1>12. ModelOK(model', enabled', store', sending', lost' \union astray' \union AtHand')
  <2>1. ASSUME NEW m \in OwnMsgs(model'), NEW n \in OwnMsgs(store), m.id = n.id
        PROVE  m.status = n.status \/ m.id \in lost' \union astray' \union AtHand'
    <3>1. CASE m.id = e.id
      BY <1>6, <3>1
    <3>2. CASE m.id # e.id
      <4>1. PICK a \in OwnMsgs(model) : a.id = m.id /\ a.status = m.status
        BY <1>7, <3>2
      <4>2. a.status = n.status \/ a.id \in except
        BY <1>1, <2>1, <4>1 DEF ModelOK
      <4>. QED
        BY <1>6, <4>1, <4>2
    <3>. QED
      BY <3>1, <3>2
  <2>2. ASSUME Unstored(sending), NEW m \in OwnMsgs(model'), m.id = sending.msg.id
        PROVE  m.status = sending.msg.status \/ m.id \in lost' \union astray' \union AtHand'
    <3>1. CASE m.id = e.id
      BY <1>6, <3>1
    <3>2. CASE m.id # e.id
      <4>1. PICK a \in OwnMsgs(model) : a.id = m.id /\ a.status = m.status
        BY <1>7, <3>2
      <4>2. a.status = sending.msg.status \/ a.id \in except
        BY <1>1, <2>2, <4>1 DEF ModelOK
      <4>. QED
        BY <1>6, <4>1, <4>2
    <3>. QED
      BY <3>1, <3>2
  <2>. QED
    BY <1>3, <1>7, <2>1, <2>2 DEF ModelOK
<1>13. VerdictOK(model', sending', AtHand', held'.ok, astray')
  <2>1. sending.stage = "Air" /\ sending.msg.id = e.id => e.id \in astray'
    BY <1>4 DEF Awaits
  <2>. QED
    BY <1>3, <1>4, <1>5, <1>7, <2>1 DEF VerdictOK
<1>14. ToldOK(Told(shown', held', AtHand'), ResultsOf(bus', held'), store', sending', lost', ram')
  <2>1. Told(shown', held', AtHand') \subseteq Told(shown, held, AtHand)
    BY <1>3, <1>4, <1>5 DEF Told
  <2>. QED
    BY <1>1, <1>3, <2>1 DEF ToldOK
<1>. QED
  BY <1>8, <1>9, <1>10, <1>11, <1>12, <1>13, <1>14 DEF DeliveryInv

LEMMA TakeDelivers == ASSUME DeliveryInv, Typed, IdInv, Take PROVE DeliveryInv'
<1>1. CASE Head(bus).kind = "Result"
  BY <1>1, TakeResult
<1>2. CASE Head(bus).kind # "Result"
  <2>1. /\ UNCHANGED << model, store, lost, astray, enabled, hand, sending, shown, ram >>
        /\ held' \in {NoEvent, Head(bus)} /\ held = NoEvent /\ hand.stage = "None"
        /\ ResultsOf(bus', held') \subseteq ResultsOf(bus, held)
        /\ \A id \in Nat : Comes(bus, id) => Comes(bus', id)
    BY <1>2, TakeFacts DEF Take, LoopFree
  <2>2. LogOK(store') /\ LogOK(model') /\ Echoes(store, store') /\ Echoes(model, model')
    BY <2>1, SameEchoes DEF Typed, LogsOK
  <2>3. HandedLater(ram, ram')
    BY <2>1 DEF HandedLater
  <2>4. ~enabled' => model'.msgs = {}
    BY <2>1 DEF DeliveryInv, ModelOK
  <2>5. Told(shown', held', AtHand) \subseteq Told(shown, held, AtHand)
    BY <1>2, <2>1, ToldNothing DEF Told
  <2>6. SameAtHand
    BY <2>1 DEF SameAtHand
  <2>. QED
    BY <2>1, <2>2, <2>3, <2>4, <2>5, <2>6, EchoStep
<1>. QED
  BY <1>1, <1>2

\* The result goes to the store: its message gets the verdict that the model has
\* given it, or is still to be stored and never gets it.
LEMMA StoreResultDelivers ==
    ASSUME DeliveryInv, Typed, IdInv, StoreResult PROVE DeliveryInv'
<1>. DEFINE id == held.id
            except == lost \union astray \union AtHand
            later == lost' \union astray' \union AtHand'
<1>1. /\ OwnIds(store, ram) /\ OwnIds(model, ram)
      /\ SendingOK(model, store, sending, ram)
      /\ ResultsOK(ResultsOf(bus, held), store, sending, ram)
      /\ QueuedOK(store, sending, bus, lost, AtHand)
      /\ ModelOK(model, enabled, store, sending, except)
      /\ VerdictOK(model, sending, AtHand, held.ok, astray)
      /\ ToldOK(Told(shown, held, AtHand), ResultsOf(bus, held), store, sending, lost, ram)
  BY DEF DeliveryInv
<1>2. LogOK(store) /\ LogOK(model) /\ LogOK(store') /\ sending.msg.id \in Nat
  BY StoreResultTypes DEF Typed, LogsOK, UiOK, Messages
<1>3. /\ held \in Events /\ held.kind = "Result" /\ held.id \in Nat /\ held.ok \in BOOLEAN
      /\ held \in ResultsOf(bus, held)
  BY ResultInHand DEF StoreResult, ResultsOf
<1>4. /\ store' = UpdateMessageStatus(store, held.id, held.ok)
      /\ lost' = IF Own(store, held.id) # {} THEN lost \ {held.id}
                 ELSE IF Awaits({"Air", "Model"}, held.id) THEN lost \union {held.id} ELSE lost
      /\ held' \in {NoEvent, held} /\ hand.stage = "Result" /\ hand' = Doing("None")
      /\ UNCHANGED << ram, model, enabled, bus, sending, shown, astray >>
  BY DEF StoreResult, Nothing, idVars, uiVars
<1>5. AtHand = {held.id} /\ AtHand' = {}
  BY <1>4, DoingType DEF AtHand
<1>6. held.id >= 1
  BY <1>1, <1>3 DEF ResultsOK, HandedBy
<1>7. Decides(store, store', held.id, held.ok)
  BY <1>1, <1>2, <1>3, <1>4, <1>6, StoreDecides DEF OwnIds
<1>8. /\ Descends(store, store')
      /\ \A n \in OwnMsgs(store') : n.id = id => n.status = Verdict(held.ok)
      /\ \A n \in OwnMsgs(store') : n.id # id =>
            \E m \in OwnMsgs(store) : m.id = n.id /\ m.status = n.status
  BY <1>7, DecidesStatus
<1>9. Unstored(sending) /\ sending.msg.id = id => id \in lost'
  <2>. SUFFICES ASSUME Unstored(sending), sending.msg.id = id PROVE id \in lost'
    OBVIOUS
  <2>1. Own(store, id) = {}
    BY <1>1 DEF SendingOK, Own, ById, OwnMsgs
  <2>2. Awaits({"Air", "Model"}, id)
    BY DEF Awaits, Unstored
  <2>. QED
    BY <1>4, <2>1, <2>2
<1>10. \A i \in Nat \ {id} : i \in except => i \in later
  BY <1>4, <1>5
<1>11. \A i \in Nat \ {id} : i \in lost => i \in lost'
  BY <1>4
<1>12. ResultsOf(bus', held') \subseteq ResultsOf(bus, held)
  BY <1>4 DEF ResultsOf, NoEvent, Event
<1>. HIDE DEF except, later, id
<1>13. OwnIds(store', ram') /\ OwnIds(model', ram')
  <2>1. OwnIds(store', ram)
    BY <1>1, <1>2, <1>8, IdsEcho DEF HandedLater
  <2>. QED
    BY <1>1, <1>4, <2>1
<1>14. SendingOK(model', store', sending', ram')
  BY <1>1, <1>4, <1>8 DEF SendingOK, Descends
<1>15. ResultsOK(ResultsOf(bus', held'), store', sending', ram')
  <2>1. ASSUME NEW f \in ResultsOf(bus, held), NEW n \in OwnMsgs(store'), n.id = f.id
        PROVE  n.status \in {"Queued", Verdict(f.ok)}
    <3>1. CASE n.id = id
      <4>1. f.ok = held.ok
        BY <1>1, <1>3, <2>1, <3>1 DEF ResultsOK, id
      <4>. QED
        BY <1>8, <3>1, <4>1
    <3>2. CASE n.id # id
      BY <1>1, <1>8, <2>1, <3>2 DEF ResultsOK
    <3>. QED
      BY <3>1, <3>2
  <2>2. \A f \in ResultsOf(bus, held) :
          /\ HandedBy(ram, f.id)
          /\ \A g \in ResultsOf(bus, held) : g.id = f.id => g.ok = f.ok
          /\ Unstored(sending) /\ sending.msg.id = f.id
               => sending.msg.status \in {"Queued", Verdict(f.ok)}
    BY <1>1 DEF ResultsOK
  <2>. QED
    BY <1>4, <1>12, <2>1, <2>2 DEF ResultsOK
<1>16. QueuedOK(store', sending', bus', lost', AtHand')
  <2>1. \A i \in Nat \ {id} : Reason(bus, lost, AtHand, i) => Reason(bus', lost', AtHand', i)
    BY <1>4, <1>5, <1>11 DEF Reason, id
  <2>2. \A n \in OwnMsgs(store') : n.status = "Queued" => n.id # id
    BY <1>8 DEF Verdict
  <2>3. \A m \in OwnMsgs(store) : m.id \in Nat
    BY <1>2, OwnNumbers
  <2>4. \A n \in OwnMsgs(store') : n.status = "Queued" => Reason(bus', lost', AtHand', n.id)
    BY <1>1, <1>8, <2>1, <2>2, <2>3 DEF QueuedOK
  <2>5. ASSUME Unstored(sending), sending.msg.status = "Queued"
        PROVE  Reason(bus', lost', AtHand', sending.msg.id)
    <3>1. CASE sending.msg.id = id
      BY <1>9, <2>5, <3>1 DEF Reason
    <3>2. CASE sending.msg.id # id
      BY <1>1, <1>2, <2>1, <2>5, <3>2 DEF QueuedOK
    <3>. QED
      BY <3>1, <3>2
  <2>. QED
    BY <1>4, <2>4, <2>5 DEF QueuedOK
<1>17. ModelOK(model', enabled', store', sending', later)
  <2>1. \A m \in OwnMsgs(model) : m.id \in Nat
    BY <1>2, OwnNumbers
  <2>2. \A m \in OwnMsgs(model) : m.id = id => m.status = Verdict(held.ok) \/ m.id \in later
    BY <1>1, <1>4, <1>5 DEF VerdictOK, id, later
  <2>3. ASSUME NEW m \in OwnMsgs(model), NEW n \in OwnMsgs(store'), m.id = n.id
        PROVE  m.status = n.status \/ m.id \in later
    <3>1. CASE m.id = id
      BY <1>8, <2>2, <2>3, <3>1
    <3>2. CASE m.id # id
      <4>1. PICK b \in OwnMsgs(store) : b.id = n.id /\ b.status = n.status
        BY <1>8, <2>3, <3>2
      <4>2. m.status = b.status \/ m.id \in except
        BY <1>1, <2>3, <4>1 DEF ModelOK
      <4>. QED
        BY <1>10, <2>1, <3>2, <4>1, <4>2
    <3>. QED
      BY <3>1, <3>2
  <2>4. ASSUME Unstored(sending), NEW m \in OwnMsgs(model), m.id = sending.msg.id
        PROVE  m.status = sending.msg.status \/ m.id \in later
    <3>1. CASE m.id = id
      BY <1>9, <2>4, <3>1 DEF later
    <3>2. CASE m.id # id
      BY <1>1, <1>10, <2>1, <2>4, <3>2 DEF ModelOK
    <3>. QED
      BY <3>1, <3>2
  <2>. QED
    BY <1>1, <1>4, <2>3, <2>4 DEF ModelOK
<1>18. VerdictOK(model', sending', AtHand', held'.ok, astray')
  BY <1>5 DEF VerdictOK
<1>19. ToldOK(Told(shown', held', AtHand'), ResultsOf(bus', held'), store', sending', lost', ram')
  <2>1. ASSUME NEW d \in Told(shown', held', AtHand')
        PROVE  d \in Told(shown, held, AtHand) \/ d = Delivery(held.id, held.ok)
    BY <1>4, <2>1, ToldNothing DEF Told
  <2>2. Delivery(held.id, held.ok).id = id /\ Delivery(held.id, held.ok).state = Verdict(held.ok)
    BY <1>3, DeliveryType DEF id
  <2>3. ASSUME NEW d, d.id = id, d.state = Verdict(held.ok)
        PROVE  /\ HandedBy(ram, d.id)
               /\ \A f \in ResultsOf(bus', held') : f.id = d.id => Verdict(f.ok) = d.state
               /\ \A n \in OwnMsgs(store') : n.id = d.id => n.status = d.state
               /\ Unstored(sending) /\ sending.msg.id = d.id => d.id \in lost'
    <3>1. HandedBy(ram, d.id) /\ \A f \in ResultsOf(bus', held') : f.id = d.id => f.ok = held.ok
      BY <1>1, <1>3, <1>12, <2>3 DEF ResultsOK, id
    <3>. QED
      BY <1>8, <1>9, <2>3, <3>1
  <2>4. ASSUME NEW d \in Told(shown, held, AtHand), d.id # id
        PROVE  /\ HandedBy(ram, d.id)
               /\ \A f \in ResultsOf(bus', held') : f.id = d.id => Verdict(f.ok) = d.state
               /\ \A n \in OwnMsgs(store') : n.id = d.id => n.status = d.state \/ n.id \in lost'
               /\ Unstored(sending) /\ sending.msg.id = d.id => d.id \in lost'
    <3>1. d.id \in Nat /\ (d.id \in lost => d.id \in lost')
      BY <1>11, <2>4, ToldType
    <3>2. \A n \in OwnMsgs(store') : n.id = d.id => n.status = d.state \/ n.id \in lost'
      BY <1>1, <1>8, <2>4, <3>1 DEF ToldOK
    <3>3. HandedBy(ram, d.id)
          /\ \A f \in ResultsOf(bus', held') : f.id = d.id => Verdict(f.ok) = d.state
      BY <1>1, <1>12, <2>4 DEF ToldOK
    <3>4. Unstored(sending) /\ sending.msg.id = d.id => d.id \in lost'
      BY <1>1, <2>4, <3>1 DEF ToldOK
    <3>. QED
      BY <3>2, <3>3, <3>4
  <2>5. ASSUME NEW d \in Told(shown, held, AtHand), d.id = id PROVE d.state = Verdict(held.ok)
    BY <1>1, <1>3, <2>5 DEF ToldOK, id
  <2>6. \A d \in Told(shown', held', AtHand') :
           \/ d.id = id /\ d.state = Verdict(held.ok)
           \/ d \in Told(shown, held, AtHand) /\ d.id # id
    BY <2>1, <2>2, <2>5
  <2>. QED
    BY <1>4, <2>3, <2>4, <2>6 DEF ToldOK
<1>. QED
  BY <1>13, <1>14, <1>15, <1>16, <1>17, <1>18, <1>19 DEF DeliveryInv, later

LEMMA TransmitDelivers ==
    ASSUME DeliveryInv, Typed, IdInv, NEW ok \in BOOLEAN, Transmit(ok) PROVE DeliveryInv'
<1>1. /\ OwnIds(store, ram) /\ OwnIds(model, ram)
      /\ ResultsOK(ResultsOf(bus, held), store, sending, ram)
      /\ QueuedOK(store, sending, bus, lost, AtHand)
      /\ ModelOK(model, enabled, store, sending, lost \union astray \union AtHand)
      /\ VerdictOK(model, sending, AtHand, held.ok, astray)
      /\ ToldOK(Told(shown, held, AtHand), ResultsOf(bus, held), store, sending, lost, ram)
  BY DEF DeliveryInv
<1>2. /\ ram.state = "Ready" /\ Id = ram.next /\ Id \in Nat /\ Id >= 1
      /\ ram'.state = "Ready" /\ ram'.next = Id + 1
  BY AllocatedId DEF Transmit
<1>. DEFINE e == Event("Result", Id, ok)
<1>3. /\ UNCHANGED << store, model, enabled, hand, held, shown, astray >>
      /\ Publish(e) /\ lost' = (IF Room THEN lost ELSE lost \union {Id})
      /\ sending'.stage = "Air" /\ sending'.msg.id = Id /\ sending.stage = "None"
      /\ AtHand' = AtHand
      /\ sending'.msg.status = IF ok THEN "Queued" ELSE "Failed"
  BY DEF Transmit, logVars, Message, Free, AtHand
<1>4. e \in Events /\ e.kind = "Result" /\ e.id = Id /\ e.ok = ok
  BY <1>2 DEF Event, Events
<1>. HIDE DEF e
<1>5. /\ bus \in Seq(Events) /\ bus' \in Seq(Events) /\ Len(bus) \in Nat /\ Len(bus') \in Nat
      /\ Len(bus) <= Len(bus') /\ \A i \in 1 .. Len(bus) : bus'[i] = bus[i]
      /\ \A i \in 1 .. Len(bus') : i <= Len(bus) \/ bus'[i] = e
      /\ Room => Len(bus') = Len(bus) + 1 /\ bus'[Len(bus) + 1] = e
  BY <1>3, <1>4, Published DEF Typed, BusOK
<1>6. HandedLater(ram, ram') /\ HandedBy(ram', Id)
      /\ \A id \in Nat : HandedBy(ram, id) => id < Id
  BY <1>2 DEF HandedLater, HandedBy
<1>7. \A m \in OwnMsgs(store) \union OwnMsgs(model) : m.id \in Nat /\ m.id < Id
  <2>1. \A m \in OwnMsgs(store) \union OwnMsgs(model) : m.id \in Nat
    BY OwnNumbers DEF Typed, LogsOK
  <2>. QED
    BY <1>1, <1>6, <2>1 DEF OwnIds
<1>8. \A m \in OwnMsgs(store) \union OwnMsgs(model) : m.id # Id
  BY <1>2, <1>7
<1>9. \A f \in ResultsOf(bus', held') : f = e \/ (f \in ResultsOf(bus, held) /\ f.id # Id)
  <2>1. ASSUME NEW f \in ResultsOf(bus', held'), f # e PROVE f \in ResultsOf(bus, held)
    BY <1>3, <1>5, <2>1 DEF ResultsOf
  <2>2. ASSUME NEW f \in ResultsOf(bus, held) PROVE f.id # Id
    <3>1. f.id \in Nat /\ HandedBy(ram, f.id)
      BY <1>1 DEF ResultsOK, ResultsOf, Events
    <3>. QED
      BY <1>2, <1>6, <3>1
  <2>. QED
    BY <2>1, <2>2
<1>a. Unstored(sending') /\ ~Unstored(sending)
  BY <1>3 DEF Unstored
<1>b. \A id \in AtHand : id # Id
  <2>1. AtHand # {} => held \in ResultsOf(bus, held) /\ AtHand = {held.id} /\ held.id \in Nat
    BY ResultInHand DEF AtHand, ResultsOf
  <2>2. AtHand # {} => HandedBy(ram, held.id) /\ AtHand = {held.id} /\ held.id \in Nat
    BY <1>1, <2>1 DEF ResultsOK
  <2>. QED
    BY <1>2, <1>6, <2>2
<1>10. OwnIds(store', ram') /\ OwnIds(model', ram')
  BY <1>1, <1>3, <1>6, <1>7 DEF OwnIds, HandedLater
<1>11. SendingOK(model', store', sending', ram')
  BY <1>3, <1>6, <1>8, <1>a DEF SendingOK
<1>12. ResultsOK(ResultsOf(bus', held'), store', sending', ram')
  <2>1. ASSUME NEW f \in ResultsOf(bus', held')
        PROVE  /\ HandedBy(ram', f.id)
               /\ \A g \in ResultsOf(bus', held') : g.id = f.id => g.ok = f.ok
               /\ \A m \in OwnMsgs(store) : m.id = f.id => m.status \in {"Queued", Verdict(f.ok)}
               /\ sending'.msg.id = f.id => sending'.msg.status \in {"Queued", Verdict(f.ok)}
    <3>1. CASE f = e
      <4>1. \A g \in ResultsOf(bus', held') : g.id = f.id => g.ok = f.ok
        BY <1>4, <1>9, <3>1
      <4>2. sending'.msg.status \in {"Queued", Verdict(f.ok)}
        BY <1>3, <1>4, <3>1 DEF Verdict
      <4>. QED
        BY <1>4, <1>6, <1>8, <3>1, <4>1, <4>2
    <3>2. CASE f # e
      <4>1. f \in ResultsOf(bus, held) /\ f.id # Id /\ f.id \in Nat
        BY <1>9, <3>2 DEF ResultsOf, Events
      <4>2. \A g \in ResultsOf(bus', held') : g.id = f.id => g.ok = f.ok
        BY <1>1, <1>4, <1>9, <4>1 DEF ResultsOK
      <4>3. HandedBy(ram', f.id)
        BY <1>1, <1>6, <4>1 DEF ResultsOK, HandedLater
      <4>4. \A m \in OwnMsgs(store) : m.id = f.id => m.status \in {"Queued", Verdict(f.ok)}
        BY <1>1, <4>1 DEF ResultsOK
      <4>. QED
        BY <1>3, <4>1, <4>2, <4>3, <4>4
    <3>. QED
      BY <3>1, <3>2
  <2>. QED
    BY <1>3, <2>1 DEF ResultsOK
<1>13. QueuedOK(store', sending', bus', lost', AtHand')
  <2>1. \A id \in Nat : Reason(bus, lost, AtHand, id) => Reason(bus', lost', AtHand', id)
    BY <1>3, <1>5 DEF Reason, Comes
  <2>2. \A m \in OwnMsgs(store) : m.id \in Nat
    BY <1>7
  <2>3. Reason(bus', lost', AtHand', Id)
    <3>1. CASE Room
      <4>1. Len(bus) + 1 \in 1 .. Len(bus') /\ bus'[Len(bus) + 1] = e
        BY <1>5, <3>1
      <4>. QED
        BY <1>4, <4>1 DEF Reason, Comes
    <3>2. CASE ~Room
      BY <1>3, <3>2 DEF Reason
    <3>. QED
      BY <3>1, <3>2
  <2>. QED
    BY <1>1, <1>3, <2>1, <2>2, <2>3 DEF QueuedOK
<1>14. ModelOK(model', enabled', store', sending', lost' \union astray' \union AtHand')
  <2>1. lost \union astray \union AtHand \subseteq lost' \union astray' \union AtHand'
    BY <1>3
  <2>. QED
    BY <1>1, <1>3, <1>8, <2>1 DEF ModelOK
<1>15. VerdictOK(model', sending', AtHand', held'.ok, astray')
  BY <1>1, <1>3, <1>b DEF VerdictOK
<1>16. ToldOK(Told(shown', held', AtHand'), ResultsOf(bus', held'), store', sending', lost', ram')
  <2>. SUFFICES ASSUME NEW d \in Told(shown, held, AtHand)
                PROVE  /\ HandedBy(ram', d.id)
                       /\ \A f \in ResultsOf(bus', held') :
                             f.id = d.id => Verdict(f.ok) = d.state
                       /\ \A m \in OwnMsgs(store) :
                             m.id = d.id => m.status = d.state \/ m.id \in lost'
                       /\ sending'.msg.id # d.id
    BY <1>3 DEF ToldOK
  <2>1. d.id \in Nat /\ HandedBy(ram, d.id)
    BY <1>1, ToldType DEF ToldOK
  <2>2. d.id # Id /\ HandedBy(ram', d.id)
    BY <1>2, <1>6, <2>1 DEF HandedLater
  <2>3. \A f \in ResultsOf(bus', held') : f.id = d.id => Verdict(f.ok) = d.state
    BY <1>1, <1>4, <1>9, <2>2 DEF ToldOK
  <2>4. \A m \in OwnMsgs(store) : m.id = d.id => m.status = d.state \/ m.id \in lost'
    BY <1>1, <1>3 DEF ToldOK
  <2>. QED
    BY <1>3, <2>2, <2>3, <2>4
<1>. QED
  BY <1>10, <1>11, <1>12, <1>13, <1>14, <1>15, <1>16 DEF DeliveryInv

\* A message of our own that is appended is the only one with its id.
LEMMA AppendOwn ==
    ASSUME NEW log, LogOK(log), NEW r, OwnIds(log, r), NEW msg \in Messages, msg.from = 0,
           HandedBy(r, msg.id), \A m \in OwnMsgs(log) : m.id # msg.id,
           NEW new, new = AppendMessage(log, msg)
    PROVE  /\ LogOK(new) /\ OwnIds(new, r)
           /\ \A n \in OwnMsgs(new) :
                 \/ n.id = msg.id /\ n.status = msg.status
                 \/ n.id # msg.id
                    /\ \E m \in OwnMsgs(log) : m.id = n.id /\ m.status = n.status
<1>1. LogOK(new)
  BY AppendKeeps
<1>2. \A n \in OwnMsgs(new) :
          \/ n \in OwnMsgs(log) /\ n.id # msg.id
          \/ n.seq = log.next /\ n.id = msg.id /\ n.status = msg.status
  BY AppendFrom DEF OwnMsgs
<1>3. \A a, b \in OwnMsgs(new) : a.seq = b.seq => a = b
  BY <1>1 DEF LogOK, OwnMsgs
<1>4. OwnIds(new, r)
  BY <1>2, <1>3 DEF OwnIds
<1>. QED
  BY <1>1, <1>2, <1>4

LEMMA RecordInModelDelivers ==
    ASSUME DeliveryInv, Typed, RecordInModel PROVE DeliveryInv'
<1>1. /\ OwnIds(store, ram) /\ OwnIds(model, ram)
      /\ SendingOK(model, store, sending, ram)
      /\ ResultsOK(ResultsOf(bus, held), store, sending, ram)
      /\ QueuedOK(store, sending, bus, lost, AtHand)
      /\ ModelOK(model, enabled, store, sending, lost \union astray \union AtHand)
      /\ VerdictOK(model, sending, AtHand, held.ok, astray)
      /\ ToldOK(Told(shown, held, AtHand), ResultsOf(bus, held), store, sending, lost, ram)
  BY DEF DeliveryInv
<1>2. LogOK(model) /\ sending.msg \in Messages /\ sending.msg.from = 0 /\ LogOK(model')
      /\ enabled \in BOOLEAN
  BY RecordInModelTypes DEF Typed, LogsOK, UiOK
<1>. DEFINE msg    == sending.msg
            with   == AppendMessage(model, msg)
            failed == enabled /\ msg.status = "Failed"
<1>3. /\ UNCHANGED << ram, store, enabled, hand, bus, held, shown, lost >> /\ AtHand' = AtHand
      /\ sending.stage = "Air" /\ sending'.stage = "Model" /\ sending'.msg = msg
      /\ model' = (IF failed THEN OnSendResult(with, msg.id, FALSE)
                   ELSE IF enabled THEN with ELSE model)
      /\ astray' = (IF failed /\ Mistaken(with, msg.id) THEN astray \union {msg.id} ELSE astray)
  BY DEF RecordInModel, idVars, UiOK, Typed, AtHand
<1>4. HandedBy(ram, msg.id) /\ (\A m \in OwnMsgs(store) : m.id # msg.id)
      /\ (\A m \in OwnMsgs(model) : m.id # msg.id) /\ Unstored(sending)
  BY <1>1, <1>3 DEF SendingOK, Unstored
<1>5. /\ LogOK(with) /\ OwnIds(with, ram)
      /\ \A n \in OwnMsgs(with) :
            \/ n.id = msg.id /\ n.status = msg.status
            \/ n.id # msg.id /\ \E m \in OwnMsgs(model) : m.id = n.id /\ m.status = n.status
  BY <1>1, <1>2, <1>4, AppendOwn
<1>. HIDE DEF with
<1>6. /\ OwnIds(model', ram)
      /\ \A n \in OwnMsgs(model') :
            \/ n.id = msg.id /\ n.status = msg.status
            \/ n.id # msg.id /\ \E m \in OwnMsgs(model) : m.id = n.id /\ m.status = n.status
  <2>1. CASE ~enabled
    BY <1>1, <1>3, <1>4, <2>1
  <2>2. CASE enabled /\ ~failed
    BY <1>3, <1>5, <2>2
  <2>3. CASE failed
    <3>1. model' = OnSendResult(with, msg.id, FALSE) /\ msg.status = Verdict(FALSE)
      BY <1>3, <2>3 DEF Verdict
    <3>2. Decides(with, model', msg.id, FALSE) \/ Echoes(with, model')
      BY <1>5, <3>1, ModelDecides DEF OwnIds
    <3>3. Descends(with, model')
      BY <3>2 DEF Decides, Echoes, Descends
    <3>4. OwnIds(model', ram)
      BY <1>2, <1>5, <3>3, IdsEcho DEF HandedLater
    <3>5. ASSUME NEW n \in OwnMsgs(model')
          PROVE  \/ n.id = msg.id /\ n.status = msg.status
                 \/ n.id # msg.id /\ \E m \in OwnMsgs(model) : m.id = n.id /\ m.status = n.status
      <4>1. PICK m \in OwnMsgs(with) :
                 m.id = n.id /\ n.status \in {m.status, IF m.id = msg.id THEN msg.status ELSE m.status}
        <5>1. CASE Echoes(with, model')
          BY <5>1 DEF Echoes
        <5>2. CASE Decides(with, model', msg.id, FALSE)
          BY <3>1, <5>2 DEF Decides
        <5>. QED
          BY <3>2, <5>1, <5>2
      <4>2. \/ m.id = msg.id /\ m.status = msg.status
            \/ m.id # msg.id /\ \E a \in OwnMsgs(model) : a.id = m.id /\ a.status = m.status
        BY <1>5
      <4>. QED
        BY <4>1, <4>2
    <3>. QED
      BY <3>4, <3>5
  <2>. QED
    BY <1>2, <2>1, <2>2, <2>3
<1>7. ~enabled => model' = model
  BY <1>3
<1>8. astray \subseteq astray'
  BY <1>3
<1>. HIDE DEF msg
<1>9. OwnIds(store', ram') /\ OwnIds(model', ram')
  BY <1>1, <1>3, <1>6
<1>10. SendingOK(model', store', sending', ram')
  BY <1>3, <1>4 DEF SendingOK
<1>11. ResultsOK(ResultsOf(bus', held'), store', sending', ram')
  BY <1>1, <1>3, <1>4 DEF ResultsOK, msg
<1>12. QueuedOK(store', sending', bus', lost', AtHand')
  BY <1>1, <1>3, <1>4 DEF QueuedOK, msg
<1>13. ModelOK(model', enabled', store', sending', lost' \union astray' \union AtHand')
  <2>1. \A m \in OwnMsgs(model'), n \in OwnMsgs(store) :
           m.id = n.id => m.status = n.status \/ m.id \in lost \union astray' \union AtHand
    BY <1>1, <1>4, <1>6, <1>8 DEF ModelOK
  <2>2. \A m \in OwnMsgs(model') : m.id = msg.id => m.status = msg.status
    BY <1>6
  <2>3. ~enabled => model'.msgs = {}
    BY <1>1, <1>7 DEF ModelOK
  <2>. QED
    BY <1>3, <2>1, <2>2, <2>3 DEF ModelOK
<1>14. VerdictOK(model', sending', AtHand', held'.ok, astray')
  <2>. SUFFICES ASSUME NEW id \in AtHand \ astray', NEW n \in OwnMsgs(model'), n.id = id
                PROVE  n.status = Verdict(held.ok)
    BY <1>3 DEF VerdictOK
  <2>1. id \in AtHand \ astray
    BY <1>8
  <2>2. n.id # msg.id
    BY <1>1, <1>3, <2>1 DEF VerdictOK, msg
  <2>3. PICK m \in OwnMsgs(model) : m.id = n.id /\ m.status = n.status
    BY <1>6, <2>2
  <2>. QED
    BY <1>1, <2>1, <2>3 DEF VerdictOK
<1>15. ToldOK(Told(shown', held', AtHand'), ResultsOf(bus', held'), store', sending', lost', ram')
  BY <1>1, <1>3, <1>4 DEF ToldOK, msg
<1>. QED
  BY <1>9, <1>10, <1>11, <1>12, <1>13, <1>14, <1>15 DEF DeliveryInv

LEMMA RecordInStoreDelivers ==
    ASSUME DeliveryInv, Typed, RecordInStore PROVE DeliveryInv'
<1>. DEFINE msg    == sending.msg
            except == lost \union astray \union AtHand
<1>1. /\ OwnIds(store, ram) /\ OwnIds(model, ram)
      /\ SendingOK(model, store, sending, ram)
      /\ ResultsOK(ResultsOf(bus, held), store, sending, ram)
      /\ QueuedOK(store, sending, bus, lost, AtHand)
      /\ ModelOK(model, enabled, store, sending, except)
      /\ VerdictOK(model, sending, AtHand, held.ok, astray)
      /\ ToldOK(Told(shown, held, AtHand), ResultsOf(bus, held), store, sending, lost, ram)
  BY DEF DeliveryInv
<1>2. LogOK(store) /\ msg \in Messages /\ msg.from = 0
  BY DEF Typed, LogsOK, UiOK
<1>3. /\ UNCHANGED << ram, model, enabled, hand, bus, held, shown, lost, astray >>
      /\ AtHand' = AtHand /\ sending.stage = "Model" /\ sending' = Doing("Show")
      /\ store' = AppendMessage(store, msg)
  BY DEF RecordInStore, idVars, busVars, AtHand
<1>4. Unstored(sending) /\ sending'.stage = "Show" /\ ~Unstored(sending')
  BY <1>3, DoingType DEF Unstored
<1>5. HandedBy(ram, msg.id) /\ \A m \in OwnMsgs(store) : m.id # msg.id
  BY <1>1, <1>4 DEF SendingOK
<1>6. /\ OwnIds(store', ram)
      /\ \A n \in OwnMsgs(store') :
            \/ n.id = msg.id /\ n.status = msg.status
            \/ n.id # msg.id /\ \E m \in OwnMsgs(store) : m.id = n.id /\ m.status = n.status
  BY <1>1, <1>2, <1>3, <1>5, AppendOwn
<1>. HIDE DEF except
<1>7. OwnIds(store', ram') /\ OwnIds(model', ram')
  BY <1>1, <1>3, <1>6
<1>8. SendingOK(model', store', sending', ram')
  BY <1>4 DEF SendingOK
<1>9. ResultsOK(ResultsOf(bus', held'), store', sending', ram')
  <2>1. ASSUME NEW f \in ResultsOf(bus, held), NEW n \in OwnMsgs(store'), n.id = f.id
        PROVE  n.status \in {"Queued", Verdict(f.ok)}
    <3>1. CASE n.id = msg.id
      BY <1>1, <1>4, <1>6, <2>1, <3>1 DEF ResultsOK
    <3>2. CASE n.id # msg.id
      BY <1>1, <1>6, <2>1, <3>2 DEF ResultsOK
    <3>. QED
      BY <3>1, <3>2
  <2>2. \A f \in ResultsOf(bus, held) :
           HandedBy(ram, f.id) /\ \A g \in ResultsOf(bus, held) : g.id = f.id => g.ok = f.ok
    BY <1>1 DEF ResultsOK
  <2>. QED
    BY <1>3, <1>4, <2>1, <2>2 DEF ResultsOK
<1>10. QueuedOK(store', sending', bus', lost', AtHand')
  BY <1>1, <1>3, <1>4, <1>6 DEF QueuedOK
<1>11. ModelOK(model', enabled', store', sending', except)
  <2>1. ASSUME NEW m \in OwnMsgs(model), NEW n \in OwnMsgs(store'), m.id = n.id
        PROVE  m.status = n.status \/ m.id \in except
    <3>1. CASE n.id = msg.id
      BY <1>1, <1>4, <1>6, <2>1, <3>1 DEF ModelOK
    <3>2. CASE n.id # msg.id
      <4>1. PICK b \in OwnMsgs(store) : b.id = n.id /\ b.status = n.status
        BY <1>6, <3>2
      <4>. QED
        BY <1>1, <2>1, <4>1 DEF ModelOK
    <3>. QED
      BY <3>1, <3>2
  <2>. QED
    BY <1>1, <1>3, <1>4, <2>1 DEF ModelOK
<1>12. VerdictOK(model', sending', AtHand', held'.ok, astray')
  BY <1>1, <1>3, <1>4 DEF VerdictOK
<1>13. ToldOK(Told(shown', held', AtHand'), ResultsOf(bus', held'), store', sending', lost', ram')
  <2>1. ASSUME NEW d \in Told(shown, held, AtHand), NEW n \in OwnMsgs(store'), n.id = d.id
        PROVE  n.status = d.state \/ n.id \in lost
    <3>1. CASE n.id = msg.id
      BY <1>1, <1>4, <2>1, <3>1 DEF ToldOK
    <3>2. CASE n.id # msg.id
      BY <1>1, <1>6, <2>1, <3>2 DEF ToldOK
    <3>. QED
      BY <3>1, <3>2
  <2>. QED
    BY <1>1, <1>3, <1>4, <2>1 DEF ToldOK
<1>. QED
  BY <1>3, <1>7, <1>8, <1>9, <1>10, <1>11, <1>12, <1>13 DEF DeliveryInv, except

LEMMA RebootDelivers == ASSUME Typed, FeedGone \/ Restart PROVE DeliveryInv'
<1>1. Rebooted'
  BY Zenon DEF FeedGone, Restart, ChatRestarts, Rebooted, Nothing, Doing, Closed, NoEvent, Event,
               Screen, EmptyLog, Message
<1>. QED
  BY <1>1, RebootedDelivers, PTL

LEMMA DeliveryInvStep ==
    ASSUME DeliveryInv, Typed, IdInv, [Next]_vars PROVE DeliveryInv'
<1>1. ASSUME NEW p \in Packets, Hear(p) PROVE DeliveryInv'
  BY <1>1, HearDelivers
<1>2. CASE Take
  BY <1>2, TakeDelivers
<1>3. CASE Feed \/ SendRefused
  BY <1>3, FeedDelivers
<1>4. CASE GiveBack
  BY <1>4, GiveBackDelivers
<1>5. CASE FeedGone \/ Restart
  BY <1>5, RebootDelivers
<1>6. ASSUME NEW ok \in BOOLEAN, Transmit(ok) PROVE DeliveryInv'
  BY <1>6, TransmitDelivers
<1>7. CASE RecordInModel
  BY <1>7, RecordInModelDelivers
<1>8. CASE RecordInStore
  BY <1>8, RecordInStoreDelivers
<1>9. CASE Screens
  BY <1>9, ScreensDeliver
<1>10. CASE Silent
  BY <1>10, SilentDelivers
<1>11. CASE KeepInModel \/ KeepInStore
  BY <1>11, KeepDelivers
<1>12. CASE StoreResult
  BY <1>12, StoreResultDelivers
<1>13. CASE ShowSent \/ Clear
  BY <1>13, ClearDelivers
<1>. QED
  BY <1>1, <1>2, <1>3, <1>4, <1>5, <1>6, <1>7, <1>8, <1>9, <1>10, <1>11, <1>12, <1>13,
     NextByDelivery

LEMMA DeliveryInvariant == Spec => []DeliveryInv
<1>1. Init => DeliveryInv
  <2>1. Init => Rebooted
    BY Zenon DEF Init, Rebooted
  <2>. QED
    BY <2>1, RebootedDelivers
<1>2. DeliveryInv /\ Typed /\ IdInv /\ [Next]_vars => DeliveryInv'
  BY DeliveryInvStep
<1>. QED
  BY <1>1, <1>2, TypedInvariant, ChatIdInv, PTL DEF Spec

\* A stored message is queued only while its result is on the bus or in the
\* hands of the loop, or was lost in one of the two known ways: no room, or taken before the message was
\* recorded (ChatService::sendTextWithIdDetailed, handleSendResult).
THEOREM ChatQueuedHasReason == Spec => []QueuedHasReason
<1>1. DeliveryInv /\ StoreInv => QueuedHasReason
  <2>. SUFFICES ASSUME DeliveryInv, StoreInv, NEW m \in store.msgs, m.status = "Queued"
                PROVE  ResultFor(m.id) \/ m.id \in lost
    BY DEF QueuedHasReason
  <2>1. m.from = 0
    BY DEF StoreInv, Sides, Incoming
  <2>2. Reason(bus, lost, AtHand, m.id)
    BY <2>1 DEF DeliveryInv, QueuedOK, OwnMsgs
  <2>. QED
    BY <2>2 DEF Reason, Comes, AtHand, ResultFor, InHand
<1>. QED
  BY <1>1, DeliveryInvariant, StoreInvariant, PTL

\* While the page is open, model and store agree on every message of our own,
\* wherever the display task comes between the two writes of a result, but for
\* the moment between them; unless the result was taken before the message was
\* recorded in the one or the other, or was given to a received message
\* (ChatService::handleSendResult, ChatModel::onSendResult,
\* RamStore::updateMessageStatus).
THEOREM ChatSameVerdict == Spec => []SameVerdict
<1>1. DeliveryInv => SameVerdict
  <2>. SUFFICES ASSUME DeliveryInv, NEW m \in OwnMsgs(model), NEW n \in OwnMsgs(store),
                       m.id = n.id
                PROVE  m.status = n.status \/ InHand(m.id) \/ m.id \in lost \union astray
    BY DEF SameVerdict, OwnMsgs
  <2>1. m.status = n.status \/ m.id \in lost \union astray \union AtHand
    BY DEF DeliveryInv, ModelOK
  <2>. QED
    BY <2>1 DEF AtHand, InHand
<1>. QED
  BY <1>1, DeliveryInvariant, PTL

\* What the page records of a send is what the store says of it, unless the
\* result was taken before the message was recorded
\* (ChatDeliveryEventProjectionAdapter::publishSendResult).
THEOREM ChatShownVerdict == Spec => []ShownVerdict
<1>1. DeliveryInv => ShownVerdict
  <2>. SUFFICES ASSUME DeliveryInv, NEW i \in 1 .. Len(shown), NEW m \in Own(store, shown[i].id)
                PROVE  m.status = shown[i].state \/ m.id \in lost
    BY DEF ShownVerdict
  <2>1. shown[i] \in Told(shown, held, AtHand)
    BY DEF Told, Entries
  <2>2. m \in OwnMsgs(store) /\ m.id = shown[i].id
    BY DEF Own, ById, OwnMsgs
  <2>. QED
    BY <2>1, <2>2 DEF DeliveryInv, ToldOK
<1>. QED
  BY <1>1, DeliveryInvariant, PTL

\* A step that echoes the store changes no verdict.
LEMMA EchoKeepsVerdict ==
    ASSUME OwnIds(store, ram), Echoes(store, store'),
           NEW m \in OwnMsgs(store), NEW n \in OwnMsgs(store'), m.id = n.id
    PROVE  n.status = m.status
BY DEF OwnIds, Echoes

\* A verdict is final: no result taken again, no result of another message and
\* no later send changes it (ChatService::handleSendResult).
THEOREM ChatVerdictKept == Spec => VerdictKept
<1>1. ASSUME DeliveryInv, Typed, [Next]_vars,
             NEW m \in OwnMsgs(store), NEW n \in OwnMsgs(store'), m.id = n.id,
             m.status \in {"Sent", "Failed"}
      PROVE  n.status = m.status
  <2>1. /\ OwnIds(store, ram) /\ LogOK(store)
        /\ ResultsOK(ResultsOf(bus, held), store, sending, ram)
        /\ SendingOK(model, store, sending, ram)
        /\ sending.msg \in Messages /\ sending.msg.from = 0
    BY <1>1 DEF DeliveryInv, Typed, LogsOK, UiOK
  <2>2. CASE UNCHANGED << store, Memory >> \/ StoreForgets
    BY <1>1, <2>1, <2>2, SameEchoes, EchoKeepsVerdict DEF StoreForgets
  <2>3. CASE StoreReboots \/ StoreClears
    BY <1>1, <2>3 DEF StoreReboots, StoreClears, OwnMsgs, EmptyLog
  <2>4. CASE StoreReads
    BY <1>1, <2>1, <2>4, ReadEchoes, EchoKeepsVerdict DEF StoreReads
  <2>5. CASE StoreLearns
    <3>1. PICK e \in ResultsOf(bus, held) : store' = UpdateMessageStatus(store, e.id, e.ok)
      BY <2>5 DEF StoreLearns
    <3>2. e.ok \in BOOLEAN /\ e.id \in Nat /\ e.id # 0
      BY <2>1 DEF ResultsOf, Events, ResultsOK, HandedBy
    <3>3. Decides(store, store', e.id, e.ok)
      BY <2>1, <3>1, <3>2, StoreDecides DEF OwnIds
    <3>4. n.status = IF m.id = e.id THEN Verdict(e.ok) ELSE m.status
      BY <1>1, <2>1, <3>3 DEF Decides, OwnIds
    <3>5. m.id = e.id => m.status = Verdict(e.ok)
      BY <1>1, <2>1 DEF ResultsOK
    <3>. QED
      BY <3>4, <3>5
  <2>6. CASE StoreSends
    <3>1. HandedBy(ram, sending.msg.id) /\ \A a \in OwnMsgs(store) : a.id # sending.msg.id
      BY <2>1, <2>6 DEF StoreSends, SendingOK, Unstored
    <3>2. \A a \in OwnMsgs(store') :
             \/ a.id = sending.msg.id
             \/ \E b \in OwnMsgs(store) : b.id = a.id /\ b.status = a.status
      BY <2>1, <2>6, <3>1, AppendOwn DEF StoreSends
    <3>3. PICK b \in OwnMsgs(store) : b.id = n.id /\ b.status = n.status
      BY <1>1, <3>1, <3>2
    <3>. QED
      BY <1>1, <2>1, <3>3 DEF OwnIds
  <2>7. CASE StoreKeeps
    <3>1. store' = AppendMessage(store, hand.msg) /\ hand.stage \in {"Model", "Store"}
      BY <2>7 DEF StoreKeeps, Coming
    <3>2. hand.msg \in Messages /\ hand.msg.from # 0
      BY <1>1, <3>1 DEF Typed, HandOK
    <3>3. Echoes(store, store')
      BY <2>1, <3>1, <3>2, ReceiveEchoes
    <3>. QED
      BY <1>1, <2>1, <3>3, EchoKeepsVerdict
  <2>8. ASSUME NEW p \in Packets, StoreHears(p) PROVE n.status = m.status
    BY <1>1, <2>1, <2>8, SameEchoes, EchoKeepsVerdict DEF StoreHears
  <2>. QED
    BY <1>1, <2>2, <2>3, <2>4, <2>5, <2>6, <2>7, <2>8, StoreStep
<1>. DEFINE Kept == \A m \in store.msgs, n \in store'.msgs :
                       m.from = 0 /\ n.from = 0 /\ m.id = n.id
                       /\ m.status \in {"Sent", "Failed"} => n.status = m.status
<1>2. DeliveryInv /\ Typed /\ [Next]_vars => Kept
  BY <1>1 DEF OwnMsgs
<1>. QED
  BY <1>2, DeliveryInvariant, TypedInvariant, PTL DEF Spec, VerdictKept
=============================================================================
