---------------------------- MODULE ChatDelivery ----------------------------
(***************************************************************************)
(* Text messages of the ESP-IDF build, from the radio to the store and     *)
(* from the compose screen to the verdict on what was sent.                *)
(*   platform/esp/radio/meshtastic_radio_adapter.cpp                       *)
(*   modules/core_chat/src/usecase/chat_service.cpp                        *)
(*   platform/esp/idf_common/src/idf_chat_facade.cpp                       *)
(*   modules/ui_shared/src/ui/screens/chat/chat_ui_controller.cpp          *)
(*                                                                         *)
(* Two tasks. The main loop polls the radio, stores what came in and then  *)
(* drains the event bus; the display task runs the chat page and, from the *)
(* compose screen, transmits. The page is guarded by the display lock. The *)
(* chat service is not: its operations are a call on the model, one on the *)
(* store and one on the memory of texts, and the other task may come       *)
(* between any two of them.                                                *)
(***************************************************************************)
EXTENDS PacketIds, ChatLog, MtDedup, Sequences

CONSTANTS
    Packets,    \* what other nodes may put on the air
    ChannelKey, \* the key meant for the channel of each conversation
    RecentMax,  \* kRecentIncomingLimit
    QueueMax,   \* the places the event bus has for chat events
    ShownMax,   \* ChatDeliveryReadModel::kMaxRecords
    TickSteps,  \* how much time may pass at once
    Budgets     \* bound: how many acts of each kind there may be, in several mixes

\* A packet heard, a text sent, a packet of another kind or a failure of the
\* storage or a change of keys, a restart, a while of time, a command on a screen
Acts == {"Hear", "Send", "Id", "Crash", "Tick", "Screen"}

\* text: a text message, ack: it asks us for an acknowledgement, key: of the
\* channel it came on, conv: the channel for a broadcast, else channel and sender
PacketSet == [from : Peers, id : Nat, conv : Convs, key : Keys \union {Public},
              text : BOOLEAN, ack : BOOLEAN]

ASSUME ChatAssumption ==
    /\ Packets \subseteq PacketSet
    /\ ChannelKey \in [Convs -> Keys \union {Public}]
    /\ RecentMax \in Nat /\ RecentMax + 1 >= LogMax
    /\ QueueMax \in Nat \ {0} /\ ShownMax \in Nat \ {0}
    /\ Budgets \subseteq [Acts -> Nat]
    /\ TickSteps \subseteq Nat \ {0}

VARIABLES
    seen,       \* dedup_ of the adapter
    idle,       \* the time since its last sweep
    passed,     \* history: the packets it let through, and when
    crowded,    \* history: it dropped a packet to make room
    recent,     \* recent_incoming_, the texts the service took in
    model,      \* the ChatModel
    enabled,    \* model_enabled_
    store,      \* the RamStore
    bus,        \* the event bus
    held,       \* the event the loop has taken from it
    hand,       \* what the loop is in the middle of: a text that came in, a result
    stuck,      \* the loop waits for a place on the bus
    page,       \* the chat page: its screen and conversation
    sending,    \* what the display task is in the middle of: a send, clearing all
    shown,      \* the page's ChatDeliveryReadModel
    lost,       \* history: the sends whose result found no message, or no room
    astray,     \* history: the results the model took before it had the message they
                \* are for, or gave to a received one
    forgotten,  \* history: the texts in the store when the memory of texts was cleared
    acts        \* how many acts there were of each kind

filterVars == << seen, idle, passed, crowded >>
logVars == << recent, model, enabled, store, hand, forgotten >>
busVars == << bus, held, stuck, lost, astray >>
uiVars == << page, sending, shown >>
vars == << idVars, filterVars, logVars, busVars, uiVars, acts >>

Event(kind, id, ok) == [kind |-> kind, id |-> id, ok |-> ok]
NoEvent == Event("None", 0, FALSE)

Screen(at, conv) == [at |-> at, conv |-> conv]
Closed == Screen("Closed", 0)
List == Screen("List", 0)

Message(id, conv, from, status) ==
    [seq |-> 0, id |-> id, conv |-> conv, from |-> from, status |-> status,
     fresh |-> status = "Incoming"]
Doing(stage) == [stage |-> stage, msg |-> Message(0, 0, 0, "Queued")]
Nothing == Doing("None")

\* What a boot starts from; the chat model is on until the page is closed once.
EmptyCache == [k \in {} |-> 0]

Init ==
    /\ IdInit
    /\ seen = EmptyCache /\ idle = 0 /\ passed = EmptyCache /\ crowded = FALSE
    /\ recent = << >> /\ model = EmptyLog /\ enabled = TRUE /\ store = EmptyLog
    /\ hand = Nothing /\ forgotten = {}
    /\ bus = << >> /\ held = NoEvent /\ stuck = FALSE /\ lost = {} /\ astray = {}
    /\ page = Closed /\ sending = Nothing /\ shown = << >>
    /\ acts = [kind \in Acts |-> 0]

ChatRestarts ==
    /\ seen' = EmptyCache /\ idle' = 0 /\ passed' = EmptyCache /\ crowded' = FALSE
    /\ recent' = << >> /\ model' = EmptyLog /\ enabled' = TRUE /\ store' = EmptyLog
    /\ hand' = Nothing /\ forgotten' = {}
    /\ bus' = << >> /\ held' = NoEvent /\ stuck' = FALSE /\ lost' = {} /\ astray' = {}
    /\ page' = Closed /\ sending' = Nothing /\ shown' = << >>

Up == ram.state # "Off"
Act(kind) ==
    /\ acts' = [acts EXCEPT ![kind] = @ + 1]
    /\ \E most \in Budgets : \A k \in Acts : acts'[k] <= most[k]
Free == sending.stage = "None"       \* the display lock can be had

\* EventBus::publish(): what does not fit is deleted.
Room == Len(bus) < QueueMax

\* Mutant of Publish: the bus has no limit.
PublishAlways(e) == bus' = Append(bus, e)

Publish(e) == bus' = IF Room THEN Append(bus, e) ELSE bus

-----------------------------------------------------------------------------
(***************************************************************************)
(* The main loop: the radio.                                               *)
(***************************************************************************)
KeyOf(p) == << p.from, p.id >>

\* processReceivedPacket(): a packet is marked as seen before anyone knows
\* whether it can be read.
Duplicate(p) == KeyOf(p) \in DOMAIN Swept(seen, idle)

Filter(p) ==
    LET cache == Swept(seen, idle)
    IN /\ idle' = IF SweepDue(idle) THEN 0 ELSE idle
       /\ IF Duplicate(p)
          THEN seen' = cache /\ UNCHANGED << passed, crowded >>
          ELSE /\ seen' = Marked(cache, KeyOf(p))
               /\ passed' = [k \in DOMAIN passed \union {KeyOf(p)} |->
                                IF k = KeyOf(p) THEN 0 ELSE passed[k]]
               /\ crowded' = (crowded \/ Full(cache))

Readable(p) == p.key \in config \union {Public}

\* ChatService::processIncoming() with one text: what the service took in a
\* short while ago it does not take in again.
Identity(m) == << m.conv, m.from, m.id >>
IdentityOf(p) == << p.conv, p.from, p.id >>
Known(p) == p.id # 0 /\ \E i \in 1 .. Len(recent) : recent[i] = IdentityOf(p)

\* Mutant of Remember: the oldest text is dropped one text early.
RememberFewer(p) ==
    LET all == Append(recent, IdentityOf(p))
    IN recent' = IF p.id = 0 THEN recent
                 ELSE IF Len(all) >= RecentMax THEN Tail(all) ELSE all

\* rememberIncoming()
Remember(p) ==
    LET all == Append(recent, IdentityOf(p))
    IN recent' = IF p.id = 0 THEN recent
                 ELSE IF Len(all) > RecentMax THEN Tail(all) ELSE all

\* The loop is done with the text or the result it had.
LoopFree == Up /\ hand.stage = "None" /\ ~stuck

\* One turn of the radio, and of the service with what the radio gave it: the
\* text is remembered, and then kept.
Hear(p) ==
    /\ LoopFree /\ held = NoEvent /\ Act("Hear")
    /\ Filter(p)
    /\ IF ~Duplicate(p) /\ Readable(p) /\ p.ack
       THEN OtherPacket(p.key) ELSE UNCHANGED idVars
    /\ IF ~Duplicate(p) /\ Readable(p) /\ p.text /\ ~Known(p)
       THEN /\ Remember(p)
            /\ hand' = [stage |-> "Model", msg |-> Message(p.id, p.conv, p.from, "Incoming")]
       ELSE UNCHANGED << recent, hand >>
    /\ UNCHANGED << model, enabled, store, forgotten, busVars, uiVars >>

KeepInModel ==
    /\ Up /\ hand.stage = "Model"
    /\ model' = IF enabled THEN AppendMessage(model, hand.msg) ELSE model
    /\ hand' = [hand EXCEPT !.stage = "Store"]
    /\ UNCHANGED << idVars, filterVars, recent, enabled, store, forgotten, busVars, uiVars, acts >>

\* A text that was stored is published without a time-out. Nobody but the loop
\* itself takes events: when the bus is full, the loop waits for good.
KeepInStore ==
    /\ Up /\ hand.stage = "Store"
    /\ store' = AppendMessage(store, hand.msg)
    /\ Publish(Event("New", hand.msg.id, TRUE))
    /\ stuck' = ~Room
    /\ hand' = Nothing
    /\ UNCHANGED << idVars, filterVars, recent, model, enabled, forgotten >>
    /\ UNCHANGED << held, lost, astray, uiVars, acts >>

-----------------------------------------------------------------------------
(***************************************************************************)
(* The main loop: draining the bus.                                        *)
(***************************************************************************)
\* Mutant of ModelResult: only the screen of a conversation takes results.
ModelResultOnScreen(id, ok) ==
    IF enabled /\ page.at = "Conv" THEN OnSendResult(model, id, ok) ELSE model

\* handleSendResult() for the model, when it is on
ModelResult(id, ok) == IF enabled THEN OnSendResult(model, id, ok) ELSE model
Mistaken(log, id) == enabled /\ ById(log, id) # {} /\ First(ById(log, id)).from # 0

Awaits(stage, id) == sending.stage \in stage /\ sending.msg.id = id

\* The loop takes an event. A result goes to the model and then to the store at
\* once, each time it is taken; what is for a page that is not there is deleted.
Take ==
    /\ LoopFree /\ held = NoEvent /\ bus # << >>
    /\ LET e == Head(bus)
       IN IF e.kind = "Result"
          THEN /\ held' = e /\ hand' = Doing("Result")
               /\ model' = ModelResult(e.id, e.ok)
               /\ astray' = IF Mistaken(model, e.id) \/ Awaits({"Air"}, e.id)
                            THEN astray \union {e.id} ELSE astray
          ELSE /\ held' = IF page.at = "Closed" THEN NoEvent ELSE e
               /\ UNCHANGED << hand, model, astray >>
    /\ bus' = Tail(bus)
    /\ UNCHANGED << idVars, filterVars, recent, enabled, store, forgotten >>
    /\ UNCHANGED << stuck, lost, uiVars, acts >>

StoreResult ==
    /\ Up /\ hand.stage = "Result"
    /\ store' = UpdateMessageStatus(store, held.id, held.ok)
    /\ lost' = IF Own(store, held.id) # {} THEN lost \ {held.id}
               ELSE IF Awaits({"Air", "Model"}, held.id) THEN lost \union {held.id} ELSE lost
    /\ held' = IF page.at = "Closed" THEN NoEvent ELSE held
    /\ hand' = Nothing
    /\ UNCHANGED << idVars, filterVars, recent, model, enabled, forgotten >>
    /\ UNCHANGED << bus, stuck, astray, uiVars, acts >>

\* ChatService::getMessage()
Found(id) == IF ById(model, id) # {} THEN ById(model, id) ELSE ById(store, id)

MarkConversationRead(c) ==
    /\ model' = MarkRead(model, c)
    /\ store' = MarkRead(store, c)

\* Mutant of Delivery: what has a result was sent.
DeliverySent(id, ok) == [id |-> id, state |-> "Sent"]

\* The page's own record of what became of a send; it goes before the status of
\* the message when the conversation is drawn.
Delivery(id, ok) == [id |-> id, state |-> IF ok THEN "Sent" ELSE "Failed"]

\* ChatDeliveryReadModel::upsert()
Upsert(records, new) ==
    IF \E i \in 1 .. Len(records) : records[i].id = new.id
    THEN [i \in 1 .. Len(records) |-> IF records[i].id = new.id THEN new ELSE records[i]]
    ELSE IF Len(records) < ShownMax THEN Append(records, new)
    ELSE Append(Tail(records), new)

\* With the lock, the event goes to the page: a message that came into the
\* conversation on the screen is read, and the result of a send is recorded for
\* the screen, when there is a message with its id.
Feed ==
    /\ LoopFree /\ held # NoEvent /\ Free /\ page.at # "Closed"
    /\ IF held.kind = "New" /\ page.at = "Conv" /\ Found(held.id) # {}
          /\ First(Found(held.id)).conv = page.conv
       THEN MarkConversationRead(page.conv)
       ELSE UNCHANGED << model, store >>
    /\ shown' = IF held.kind = "Result" /\ held.id # 0 /\ Found(held.id) # {}
                THEN Upsert(shown, Delivery(held.id, held.ok)) ELSE shown
    /\ held' = NoEvent
    /\ UNCHANGED << idVars, filterVars, recent, enabled, hand, forgotten >>
    /\ UNCHANGED << bus, stuck, lost, astray, page, sending, acts >>

\* The page was there when the loop looked, and was closed before it had the
\* lock: the call goes through a null pointer, and the device restarts.
FeedGone ==
    /\ LoopFree /\ held # NoEvent /\ Free /\ page.at = "Closed"
    /\ IdRestart /\ ChatRestarts
    /\ UNCHANGED acts

\* Mutant of GiveBack: the event goes back to where it came from.
GiveBackToFront ==
    /\ LoopFree /\ held # NoEvent
    /\ bus' = IF Room THEN << held >> \o bus ELSE bus
    /\ held' = NoEvent
    /\ UNCHANGED << idVars, filterVars, logVars, stuck, lost, astray, uiVars, acts >>

\* No lock in time: the event goes back to the end of the bus.
GiveBack ==
    /\ LoopFree /\ held # NoEvent
    /\ Publish(held)
    /\ held' = NoEvent
    /\ UNCHANGED << idVars, filterVars, logVars, stuck, lost, astray, uiVars, acts >>

-----------------------------------------------------------------------------
(***************************************************************************)
(* The display task: sending.                                              *)
(***************************************************************************)
\* Mutant of KeyFor: the key a channel had once.
KeyForOnce(c) == ChannelKey[c]

\* channelKeyFor(): the key of the channel, if it is configured
KeyFor(c) == IF ChannelKey[c] \in config THEN ChannelKey[c] ELSE Public

\* sendTextDetailed() gives up before there is an id: the radio or the channel
\* is off, or there is no id. Nothing is recorded, and the page goes back to the
\* conversation.
SendRefused ==
    /\ Up /\ Free /\ page.at = "Compose"
    /\ \/ UNCHANGED << idVars, acts >>
       \/ Act("Id") /\ AllocateFails(KeyFor(page.conv))
    /\ page' = Screen("Conv", page.conv)
    /\ MarkConversationRead(page.conv)
    /\ UNCHANGED << filterVars, recent, enabled, hand, forgotten, busVars, sending, shown >>

\* sendEncodedPayload(): the packet is sent or not, and the result is on the
\* bus before the service knows the message.
Transmit(ok) ==
    /\ Up /\ Free /\ page.at = "Compose" /\ Act("Send")
    /\ Allocate(KeyFor(page.conv))
    /\ Publish(Event("Result", Id, ok))
    /\ lost' = IF Room THEN lost ELSE lost \union {Id}
    /\ sending' = [stage |-> "Air",
                   msg |-> Message(Id, page.conv, 0, IF ok THEN "Queued" ELSE "Failed")]
    /\ UNCHANGED << filterVars, logVars, held, stuck, astray, page, shown >>

\* sendTextWithIdDetailed() records it in the model ...
RecordInModel ==
    /\ Up /\ sending.stage = "Air"
    /\ LET msg    == sending.msg
           with   == AppendMessage(model, msg)
           failed == enabled /\ msg.status = "Failed"
       IN /\ model' = IF failed THEN OnSendResult(with, msg.id, FALSE)
                      ELSE IF enabled THEN with ELSE model
          /\ astray' = IF failed /\ Mistaken(with, msg.id)
                       THEN astray \union {msg.id} ELSE astray
    /\ sending' = [sending EXCEPT !.stage = "Model"]
    /\ UNCHANGED << idVars, filterVars, recent, enabled, store, hand, forgotten >>
    /\ UNCHANGED << bus, held, stuck, lost, page, shown, acts >>

\* ... and in the store ...
RecordInStore ==
    /\ Up /\ sending.stage = "Model"
    /\ store' = AppendMessage(store, sending.msg)
    /\ sending' = Doing("Show")
    /\ UNCHANGED << idVars, filterVars, recent, model, enabled, hand, forgotten >>
    /\ UNCHANGED << busVars, page, shown, acts >>

\* ... and the page shows the conversation again.
ShowSent ==
    /\ Up /\ sending.stage = "Show"
    /\ MarkConversationRead(page.conv)
    /\ page' = Screen("Conv", page.conv)
    /\ sending' = Nothing
    /\ UNCHANGED << idVars, filterVars, recent, enabled, hand, forgotten, busVars, shown, acts >>

-----------------------------------------------------------------------------
(***************************************************************************)
(* The display task: the screens of the page.                              *)
(***************************************************************************)
OpenPage ==
    /\ Up /\ Free /\ page = Closed
    /\ page' = List
    /\ enabled' = TRUE
    /\ shown' = << >>
    /\ UNCHANGED << idVars, filterVars, recent, model, store, hand, forgotten, busVars, sending >>

OpenConversation(c) ==
    /\ Up /\ Free /\ page = List
    /\ page' = Screen("Conv", c)
    /\ MarkConversationRead(c)
    /\ UNCHANGED << idVars, filterVars, recent, enabled, hand, forgotten, busVars, sending, shown >>

Compose ==
    /\ Up /\ Free /\ page.at = "Conv"
    /\ page' = Screen("Compose", page.conv)
    /\ UNCHANGED << idVars, filterVars, logVars, busVars, sending, shown >>

Back ==
    /\ Up /\ Free
    /\ \/ /\ page.at = "Conv"
          /\ page' = List
          /\ enabled' = TRUE
          /\ UNCHANGED << model, store >>
       \/ /\ page.at = "Compose"
          /\ page' = Screen("Conv", page.conv)
          /\ MarkConversationRead(page.conv)
          /\ UNCHANGED enabled
    /\ UNCHANGED << idVars, filterVars, recent, hand, forgotten, busVars, sending, shown >>

\* The page goes, its records and the model with it: setModelEnabled(false).
ClosePage ==
    /\ Up /\ Free /\ page # Closed
    /\ page' = Closed
    /\ enabled' = FALSE
    /\ model' = IF enabled THEN EmptyLog ELSE model
    /\ shown' = << >>
    /\ UNCHANGED << idVars, filterVars, recent, store, hand, forgotten, busVars, sending >>

Texts(log) == {m \in log.msgs : m.from # 0}

\* clearMessageDb(), from the settings page: the model, the store, and then the
\* memory of texts, which forgets what came in since as well.
ClearModel ==
    /\ Up /\ Free /\ page = Closed
    /\ model' = EmptyLog
    /\ sending' = Doing("ClearStore")
    /\ UNCHANGED << idVars, filterVars, recent, enabled, store, hand, forgotten >>
    /\ UNCHANGED << busVars, page, shown >>

ClearStore ==
    /\ Up /\ sending.stage = "ClearStore"
    /\ store' = EmptyLog
    /\ sending' = Doing("ClearRecent")
    /\ UNCHANGED << idVars, filterVars, recent, model, enabled, hand, forgotten >>
    /\ UNCHANGED << busVars, page, shown, acts >>

\* A text the loop is just keeping is forgotten before it is stored.
ClearRecent ==
    /\ Up /\ sending.stage = "ClearRecent"
    /\ recent' = << >>
    /\ forgotten' = {Identity(m) : m \in Texts(store)}
                    \union IF hand.stage \in {"Model", "Store"} THEN {Identity(hand.msg)} ELSE {}
    /\ sending' = Nothing
    /\ UNCHANGED << idVars, filterVars, model, enabled, store, hand >>
    /\ UNCHANGED << busVars, page, shown, acts >>

-----------------------------------------------------------------------------
\* Packets that are no messages, keys, the power and the clock
OtherSend(k) ==
    /\ Up /\ Act("Id") /\ OtherPacket(k)
    /\ UNCHANGED << filterVars, logVars, busVars, uiVars >>

\* applyMeshConfig(), from the settings page
ChangeKeys ==
    /\ Up /\ Free /\ page = Closed /\ Act("Id") /\ Configure
    /\ UNCHANGED << filterVars, logVars, busVars, uiVars >>

Boot ==
    /\ Initialize
    /\ UNCHANGED << filterVars, logVars, busVars, uiVars, acts >>

EraseFlash ==
    /\ Erase
    /\ UNCHANGED << filterVars, logVars, busVars, uiVars, acts >>

Restart == Up /\ Act("Crash") /\ IdRestart /\ ChatRestarts

Tick(d) ==
    /\ Up /\ Act("Tick")
    /\ seen' = AllOlder(seen, d) /\ passed' = AllOlder(passed, d)
    /\ idle' = IF idle + d > CleanupEvery THEN CleanupEvery ELSE idle + d
    /\ UNCHANGED << idVars, crowded, logVars, busVars, uiVars >>

Radio == \E p \in Packets : Hear(p)
Loop == KeepInModel \/ KeepInStore \/ Take \/ StoreResult \/ Feed \/ FeedGone \/ GiveBack
Send == SendRefused \/ \E ok \in BOOLEAN : Transmit(ok)
Record == RecordInModel \/ RecordInStore \/ ShowSent
Clear == ClearStore \/ ClearRecent
Screens ==
    /\ Act("Screen")
    /\ \/ OpenPage \/ Compose \/ Back \/ ClosePage \/ ClearModel
       \/ \E c \in Convs : OpenConversation(c)
Device ==
    \/ Boot \/ Restart \/ EraseFlash \/ ChangeKeys
    \/ \E k \in config \union {Public} : OtherSend(k)
    \/ \E d \in TickSteps : Tick(d)

Next == Radio \/ Loop \/ Send \/ Record \/ Screens \/ Clear \/ Device

Spec == Init /\ [][Next]_vars

\* The loop runs again and again: it takes events while there are some, and is
\* done with each in bounded time, with or without the lock.
FairSpec ==
    /\ Spec /\ WF_vars(Take)
    /\ WF_vars(KeepInModel \/ KeepInStore \/ StoreResult \/ Feed \/ FeedGone \/ GiveBack)

-----------------------------------------------------------------------------
Events == [kind : {"New", "Result"}, id : Nat, ok : BOOLEAN]
Deliveries == [id : Nat, state : {"Sent", "Failed"}]

Caches == UNION {[keys -> Ages] : keys \in SUBSET {KeyOf(p) : p \in Packets}}

ChatTypeOK ==
    /\ IdTypeOK
    /\ seen \in Caches /\ passed \in Caches
    /\ idle \in 0 .. CleanupEvery /\ crowded \in BOOLEAN
    /\ recent \in Seq(Convs \X Peers \X (Nat \ {0})) /\ Len(recent) <= RecentMax
    /\ model.msgs \subseteq Messages /\ store.msgs \subseteq Messages
    /\ enabled \in BOOLEAN
    /\ bus \in Seq(Events) /\ Len(bus) <= QueueMax
    /\ held \in Events \union {NoEvent} /\ stuck \in BOOLEAN
    /\ page.at \in {"Closed", "List", "Conv", "Compose"} /\ page.conv \in Convs
    /\ sending.stage \in {"None", "Air", "Model", "Show", "ClearStore", "ClearRecent"}
    /\ hand.stage \in {"None", "Model", "Store", "Result"} /\ hand.msg \in Messages
    /\ forgotten \subseteq Convs \X Peers \X Nat
    /\ shown \in Seq(Deliveries) /\ Len(shown) <= ShownMax
    /\ lost \subseteq Nat /\ astray \subseteq Nat /\ acts \in [Acts -> Nat]

\* No received text is stored twice, whatever the mesh repeats and whatever
\* the packet filter has forgotten: what the log still holds the service still
\* remembers (ChatService::isDuplicateIncoming, kRecentIncomingLimit), but for
\* the texts that came in while all messages were being cleared: they outlive
\* the memory of them (ChatService::clearAllMessages).
StoredOnce ==
    \A m, n \in Texts(store) :
        Identity(m) = Identity(n) /\ m.id # 0 => m = n \/ Identity(m) \in forgotten

\* A result never touches a received message of the store, not even one that
\* carries the same id as a message of our own (RamStore::updateMessageStatus).
ReceivedStaysReceived == \A m \in store.msgs : Incoming(m) <=> m.from # 0

\* The badge of a conversation counts stored messages that came in since it was
\* read, and all of them, unless the log dropped a read one at the expense of
\* the count (RamStore::evictOldestMessage).
UnreadCounts ==
    \A c \in Convs :
        /\ store.unread[c] <= Cardinality(Fresh(store, c))
        /\ c \notin store.miscounted => store.unread[c] = Cardinality(Fresh(store, c))

InHand(id) == hand.stage = "Result" /\ held.id = id
ResultFor(id) ==
    InHand(id) \/ \E i \in 1 .. Len(bus) : bus[i].kind = "Result" /\ bus[i].id = id
QueuedIn(log, id) == \E m \in Own(log, id) : m.status = "Queued"

\* A stored message is queued only while its result is on the bus or in the
\* hands of the loop, unless the bus had no room for the result or the loop took
\* it before the message was recorded (ChatService::sendTextWithIdDetailed,
\* handleSendResult).
QueuedHasReason ==
    \A m \in store.msgs : m.status = "Queued" => ResultFor(m.id) \/ m.id \in lost

\* While the page is open, model and store agree on what became of a message of
\* our own, but for the moment between the two writes of its result, unless the
\* loop took the result before the message was recorded in the one or the other,
\* or the model gave it to a received message with the same id
\* (ChatService::handleSendResult, ChatModel::onSendResult).
SameVerdict ==
    \A m \in model.msgs, n \in store.msgs :
        m.from = 0 /\ n.from = 0 /\ m.id = n.id =>
            m.status = n.status \/ InHand(m.id) \/ m.id \in lost \union astray

\* What the page records of a send for the screen is what the store says of it,
\* in whatever order the result, the record of the message and the page's turn
\* come, unless the result was taken before the message was recorded
\* (ChatDeliveryEventProjectionAdapter::publishSendResult).
ShownVerdict ==
    \A i \in 1 .. Len(shown) : \A m \in Own(store, shown[i].id) :
        m.status = shown[i].state \/ m.id \in lost

\* Within the time-out the packet filter lets a packet through once, as long as
\* it never had to make room (MtDedup).
PassedOnce ==
    ~crowded => \A k \in DOMAIN passed : passed[k] <= Timeout => k \in DOMAIN seen

\* A verdict on a message is final: results that are taken again, and results
\* of other messages, never change it (ChatService::handleSendResult).
VerdictKept ==
    [][\A m \in store.msgs, n \in store'.msgs :
          m.from = 0 /\ n.from = 0 /\ m.id = n.id /\ m.status \in {"Sent", "Failed"}
            => n.status = m.status]_vars

\* A result on the bus reaches the message it is for, if the message is stored:
\* lock or no lock, the bus turns and the result comes up (the drain loop of
\* IdfChatFacade::pumpMeshAndDrainEvents). What stops it for good is a text that
\* comes in while the bus is full (ChatEventBusBridge::onIncomingMessage).
ResultsArrive ==
    \A id \in 1 .. End - 1 :
        (QueuedIn(store, id) /\ ResultFor(id)) ~> (~QueuedIn(store, id) \/ stuck)
=============================================================================
