------------------------------- MODULE ChatLog -------------------------------
(***************************************************************************)
(* A bounded log of chat messages, kept twice in the program: by RamStore, *)
(* what the user sees, and by ChatModel, a copy while the chat page is     *)
(* open.                                                                   *)
(*   modules/core_chat/src/infra/store/ram_store.cpp                       *)
(*   modules/core_chat/src/domain/chat_model.cpp                           *)
(*                                                                         *)
(* The messages of all conversations are one set. A message's sequence     *)
(* number gives the order within its conversation and the order in which   *)
(* messages are dropped when the log is full.                              *)
(***************************************************************************)
EXTENDS Integers, FiniteSets

CONSTANTS
    Convs,      \* the conversations, numbered in the order of ConversationId; 0
                \* is the primary channel
    Peers,      \* the other nodes; a message of our own is from 0
    LogMax      \* MAX_MESSAGES_TOTAL

ASSUME LogAssumption ==
    /\ 0 \in Convs /\ Convs \subseteq Nat /\ Peers \subseteq Nat \ {0}
    /\ LogMax \in Nat \ {0}

Statuses == {"Incoming", "Queued", "Sent", "Failed"}

\* fresh is history: the message came in and its conversation was not marked as
\* read since.
Messages == [seq : Nat, id : Nat, conv : Convs, from : {0} \union Peers,
             status : Statuses, fresh : BOOLEAN]

\* miscounted is history: the conversations that lost a message that had been
\* read, at the expense of the count of unread ones.
Logs == [msgs : SUBSET Messages, unread : [Convs -> Nat], count : Nat, next : Nat,
         miscounted : SUBSET Convs]

EmptyLog == [msgs |-> {}, unread |-> [c \in Convs |-> 0], count |-> 0, next |-> 1,
             miscounted |-> {}]

In(log, c) == {m \in log.msgs : m.conv = c}
Incoming(m) == m.status = "Incoming"
Fresh(log, c) == {m \in In(log, c) : m.fresh}

\* The message a loop over the conversations, and over the messages of each,
\* comes to first.
First(ms) ==
    CHOOSE m \in ms : \A n \in ms :
        m.conv < n.conv \/ (m.conv = n.conv /\ m.seq <= n.seq)

-----------------------------------------------------------------------------
Oldest(log) == CHOOSE m \in log.msgs : \A n \in log.msgs : m.seq <= n.seq

\* Mutant of EvictOldest: the count of unread messages stays.
EvictOldestUncounted(log) ==
    IF log.msgs = {} THEN [log EXCEPT !.count = 0]
    ELSE [log EXCEPT !.msgs = @ \ {Oldest(log)}, !.count = IF @ > 0 THEN @ - 1 ELSE 0]

\* evictOldestMessage(): the count of unread messages goes down for a received
\* message whether or not it was read, and is forgotten with the last message
\* of the conversation.
EvictOldest(log) ==
    IF log.msgs = {} THEN [log EXCEPT !.count = 0]
    ELSE LET old  == Oldest(log)
             last == In(log, old.conv) = {old}
             less == Incoming(old) /\ log.unread[old.conv] > 0
         IN [log EXCEPT
               !.msgs = @ \ {old},
               !.count = IF @ > 0 THEN @ - 1 ELSE 0,
               !.unread[old.conv] = IF last THEN 0 ELSE IF less THEN @ - 1 ELSE @,
               !.miscounted = IF last THEN @ \ {old.conv}
                              ELSE IF less /\ ~old.fresh THEN @ \union {old.conv}
                              ELSE @]

\* append(), appendMessage()
AppendMessage(log, m) ==
    LET room == IF log.count >= LogMax THEN EvictOldest(log) ELSE log
    IN [room EXCEPT
          !.msgs = @ \union {[m EXCEPT !.seq = room.next]},
          !.count = @ + 1,
          !.next = @ + 1,
          !.unread[m.conv] = IF Incoming(m) THEN @ + 1 ELSE @]

\* setUnread(conv, 0), markRead()
MarkRead(log, c) ==
    [log EXCEPT !.unread[c] = 0,
                !.msgs = {IF m.conv = c THEN [m EXCEPT !.fresh = FALSE] ELSE m : m \in @},
                !.miscounted = @ \ {c}]

\* The first of the messages ms of the log gets a status.
SetStatus(log, ms, status) ==
    IF ms = {} THEN log
    ELSE [log EXCEPT !.msgs = (@ \ {First(ms)}) \union {[First(ms) EXCEPT !.status = status]}]

ById(log, id) == {m \in log.msgs : m.id = id}

\* ChatModel::onSendResult(): any message of that id
OnSendResult(log, id, ok) ==
    SetStatus(log, ById(log, id), IF ok THEN "Sent" ELSE "Failed")

\* Mutants of Own: any message of that id, any message of our own
OwnById(log, id) == ById(log, id)
OwnOfAnyId(log, id) == {m \in log.msgs : m.from = 0}

\* RamStore::updateMessageStatus(): a message of our own
Own(log, id) == {m \in ById(log, id) : m.from = 0}

\* Mutant of UpdateMessageStatus: it gives up at a received message of that id.
UpdateFirstOnly(log, id, ok) ==
    LET first == First(ById(log, id))
    IN IF ById(log, id) = {} \/ first.from # 0 THEN log
       ELSE SetStatus(log, {first}, IF ok THEN "Sent" ELSE "Failed")

UpdateMessageStatus(log, id, ok) ==
    IF id = 0 THEN log ELSE SetStatus(log, Own(log, id), IF ok THEN "Sent" ELSE "Failed")
=============================================================================
