---------------------------- MODULE ChatLogProofs ----------------------------
(***************************************************************************)
(* What the operations on a log of messages keep and change, for every     *)
(* limit, every set of conversations and every set of nodes.               *)
(***************************************************************************)
EXTENDS ChatLog, FiniteSetTheorems, WellFoundedInduction, TLAPS

\* A log holds the last count messages that were appended to it.
LogOK(log) ==
    /\ log \in Logs
    /\ IsFiniteSet(log.msgs)
    /\ log.count <= LogMax /\ log.count < log.next
    /\ \A m \in log.msgs : log.next - log.count <= m.seq /\ m.seq < log.next
    /\ \A m, n \in log.msgs : m.seq = n.seq => m = n
    /\ \A s \in (log.next - log.count) .. (log.next - 1) : \E m \in log.msgs : m.seq = s

\* Only received messages are fresh, and the counts of unread messages are right
\* up to the conversations that are known to be miscounted.
CountsOK(log) ==
    /\ \A m \in log.msgs : m.fresh => Incoming(m)
    /\ \A c \in Convs :
         /\ log.unread[c] <= Cardinality(Fresh(log, c))
         /\ c \notin log.miscounted => log.unread[c] = Cardinality(Fresh(log, c))

-----------------------------------------------------------------------------
(* Smallest elements.                                                       *)

LEMMA LeastNumber ==
    ASSUME NEW S \in SUBSET Nat, S # {} PROVE \E x \in S : \A y \in S : x <= y
<1>1. PICK x \in S : \A y \in S : ~ (<< y, x >> \in OpToRel(<, Nat))
  BY NatLessThanWellFounded, WFMin
<1>2. \A y \in S : ~ (y < x)
  <2>. TAKE y \in S
  <2>1. << y, x >> \in Nat \X Nat
    OBVIOUS
  <2>2. << y, x >>[1] = y /\ << y, x >>[2] = x
    OBVIOUS
  <2>. QED
    BY <1>1, <2>1, <2>2 DEF OpToRel
<1>. QED
  BY <1>2

LEMMA MessageNumbers ==
    ASSUME NEW m \in Messages PROVE m.seq \in Nat /\ m.conv \in Nat /\ m.conv \in Convs
BY LogAssumption DEF Messages

\* The message found first is one of those that were looked for.
LEMMA FirstIn == ASSUME NEW ms \in SUBSET Messages, ms # {} PROVE First(ms) \in ms
<1>1. PICK c \in {m.conv : m \in ms} : \A d \in {m.conv : m \in ms} : c <= d
  <2>1. {m.conv : m \in ms} \in SUBSET Nat
    BY MessageNumbers
  <2>2. {m.conv : m \in ms} # {}
    OBVIOUS
  <2>. QED
    BY <2>1, <2>2, LeastNumber
<1>. DEFINE those == {m \in ms : m.conv = c}
<1>2. PICK s \in {m.seq : m \in those} : \A t \in {m.seq : m \in those} : s <= t
  <2>1. {m.seq : m \in those} \in SUBSET Nat
    BY MessageNumbers
  <2>2. {m.seq : m \in those} # {}
    BY <1>1
  <2>. HIDE DEF those
  <2>. QED
    BY <2>1, <2>2, LeastNumber
<1>3. PICK m \in those : m.seq = s
  BY <1>2
<1>4. \A n \in ms : m.conv < n.conv \/ (m.conv = n.conv /\ m.seq <= n.seq)
  <2>. TAKE n \in ms
  <2>1. m.conv = c /\ m.seq = s /\ c \in Nat /\ n.conv \in Nat
    BY <1>1, <1>3, MessageNumbers
  <2>2. c <= n.conv
    BY <1>1
  <2>3. n.conv = c => s <= n.seq
    BY <1>2
  <2>. QED
    BY <2>1, <2>2, <2>3
<1>5. m \in ms
  BY <1>3
<1>. HIDE DEF those
<1>. QED
  BY <1>4, <1>5 DEF First

LEMMA OldestIn ==
    ASSUME NEW log, log.msgs \in SUBSET Messages, log.msgs # {}
    PROVE  Oldest(log) \in log.msgs /\ \A n \in log.msgs : Oldest(log).seq <= n.seq
<1>1. {m.seq : m \in log.msgs} \in SUBSET Nat
  BY MessageNumbers
<1>2. PICK s \in {m.seq : m \in log.msgs} : \A t \in {m.seq : m \in log.msgs} : s <= t
  <2>1. {m.seq : m \in log.msgs} # {}
    OBVIOUS
  <2>. QED
    BY <1>1, <2>1, LeastNumber
<1>3. PICK m \in log.msgs : m.seq = s
  BY <1>2
<1>4. \A n \in log.msgs : m.seq <= n.seq
  BY <1>2, <1>3
<1>. QED
  BY <1>4 DEF Oldest

-----------------------------------------------------------------------------
LEMMA EmptyLogOK == LogOK(EmptyLog) /\ CountsOK(EmptyLog)
<1>1. EmptyLog \in Logs
  BY DEF EmptyLog, Logs
<1>2. \A c \in Convs : Fresh(EmptyLog, c) = {}
  BY DEF Fresh, In, EmptyLog
<1>3. IsFiniteSet(EmptyLog.msgs)
  BY FS_EmptySet DEF EmptyLog
<1>4. LogOK(EmptyLog)
  BY <1>1, <1>3, LogAssumption DEF LogOK, EmptyLog
<1>5. CountsOK(EmptyLog)
  BY <1>2, FS_EmptySet DEF CountsOK, EmptyLog
<1>. QED
  BY <1>4, <1>5

\* The messages that are unread are finitely many.
LEMMA FreshFinite ==
    ASSUME NEW log, IsFiniteSet(log.msgs), NEW c
    PROVE  IsFiniteSet(Fresh(log, c)) /\ Cardinality(Fresh(log, c)) \in Nat
<1>1. Fresh(log, c) \in SUBSET log.msgs
  BY DEF Fresh, In
<1>. QED
  BY <1>1, FS_Subset, FS_CardinalityType

-----------------------------------------------------------------------------
(* Dropping the oldest message of a full log.                               *)

LEMMA LogFields ==
    ASSUME NEW log, LogOK(log)
    PROVE  /\ log.msgs \in SUBSET Messages /\ log.count \in Nat /\ log.next \in Nat
           /\ log.unread \in [Convs -> Nat] /\ log.miscounted \in SUBSET Convs
BY DEF LogOK, Logs

\* What the log is after that, field by field.
LEMMA EvictShape ==
    ASSUME NEW log, LogOK(log), log.count = LogMax, NEW old, old = Oldest(log)
    PROVE  /\ old \in log.msgs /\ old \in Messages
           /\ EvictOldest(log) \in Logs
           /\ EvictOldest(log).msgs = log.msgs \ {old}
           /\ EvictOldest(log).count = log.count - 1
           /\ EvictOldest(log).next = log.next
           /\ EvictOldest(log).unread = [log.unread EXCEPT ![old.conv] =
                IF In(log, old.conv) = {old} THEN 0
                ELSE IF Incoming(old) /\ @ > 0 THEN @ - 1 ELSE @]
           /\ EvictOldest(log).miscounted =
                IF In(log, old.conv) = {old} THEN log.miscounted \ {old.conv}
                ELSE IF Incoming(old) /\ log.unread[old.conv] > 0 /\ ~old.fresh
                     THEN log.miscounted \union {old.conv} ELSE log.miscounted
           /\ \A n \in log.msgs \ {old} : log.next - LogMax < n.seq
<1>. DEFINE last == In(log, old.conv) = {old}
            less == Incoming(old) /\ log.unread[old.conv] > 0
<1>1. /\ log.msgs \in SUBSET Messages /\ log.count \in Nat /\ log.next \in Nat
      /\ log.unread \in [Convs -> Nat] /\ log.miscounted \in SUBSET Convs
      /\ LogMax \in Nat \ {0} /\ log \in Logs
  BY LogFields, LogAssumption DEF LogOK
<1>2. PICK oldest \in log.msgs : oldest.seq = log.next - log.count
  <2>1. log.next - log.count \in (log.next - log.count) .. (log.next - 1)
    BY <1>1
  <2>. QED
    BY <2>1 DEF LogOK
<1>3. old \in log.msgs /\ \A n \in log.msgs : old.seq <= n.seq
  BY <1>1, <1>2, OldestIn
<1>4. old \in Messages /\ old.conv \in Convs
  BY <1>1, <1>3, MessageNumbers
<1>5. EvictOldest(log) =
        [log EXCEPT !.msgs = log.msgs \ {old},
                    !.count = IF log.count > 0 THEN log.count - 1 ELSE 0,
                    !.unread[old.conv] = IF last THEN 0 ELSE IF less THEN @ - 1 ELSE @,
                    !.miscounted = IF last THEN log.miscounted \ {old.conv}
                                   ELSE IF less /\ ~old.fresh
                                        THEN log.miscounted \union {old.conv}
                                        ELSE log.miscounted]
  BY <1>1, <1>3 DEF EvictOldest
<1>6. EvictOldest(log).unread =
        [log.unread EXCEPT ![old.conv] = IF last THEN 0 ELSE IF less THEN @ - 1 ELSE @]
  BY <1>1, <1>5 DEF Logs
<1>7. /\ EvictOldest(log).msgs = log.msgs \ {old}
      /\ EvictOldest(log).count = log.count - 1
      /\ EvictOldest(log).next = log.next
      /\ EvictOldest(log).miscounted =
            IF last THEN log.miscounted \ {old.conv}
            ELSE IF less /\ ~old.fresh THEN log.miscounted \union {old.conv}
                 ELSE log.miscounted
  BY <1>1, <1>5 DEF Logs
<1>8. EvictOldest(log).unread \in [Convs -> Nat]
  <2>1. (IF last THEN 0 ELSE IF less THEN log.unread[old.conv] - 1 ELSE log.unread[old.conv])
          \in Nat
    BY <1>1, <1>4
  <2>. HIDE DEF last, less
  <2>. QED
    BY <1>1, <1>4, <1>6, <2>1
<1>9. EvictOldest(log) \in Logs
  <2>1. EvictOldest(log) = [msgs |-> EvictOldest(log).msgs, unread |-> EvictOldest(log).unread,
                            count |-> EvictOldest(log).count, next |-> EvictOldest(log).next,
                            miscounted |-> EvictOldest(log).miscounted]
    <3>. HIDE DEF last, less
    <3>. QED
      BY <1>1, <1>5 DEF Logs
  <2>2. EvictOldest(log).miscounted \in SUBSET Convs
    <3>. HIDE DEF last, less
    <3>. QED
      BY <1>1, <1>4, <1>7
  <2>3. EvictOldest(log).count \in Nat
    BY <1>1, <1>7
  <2>. QED
    BY <1>1, <1>7, <1>8, <2>1, <2>2, <2>3 DEF Logs
<1>10. \A n \in log.msgs \ {old} : log.next - LogMax < n.seq
  <2>. TAKE n \in log.msgs \ {old}
  <2>1. n.seq # old.seq
    BY <1>3 DEF LogOK
  <2>2. old.seq <= n.seq /\ log.next - LogMax <= old.seq /\ n.seq \in Nat /\ old.seq \in Nat
    BY <1>1, <1>3, <1>4, MessageNumbers DEF LogOK
  <2>. QED
    BY <1>1, <2>1, <2>2
<1>. QED
  BY <1>3, <1>4, <1>6, <1>7, <1>9, <1>10

LEMMA EvictKeeps ==
    ASSUME NEW log, LogOK(log), log.count = LogMax
    PROVE  LogOK(EvictOldest(log))
<1>. DEFINE old == Oldest(log)
            new == EvictOldest(log)
<1>1. /\ log.msgs \in SUBSET Messages /\ log.count \in Nat /\ log.next \in Nat
      /\ LogMax \in Nat \ {0}
  BY LogFields, LogAssumption
<1>2. /\ old \in log.msgs /\ new \in Logs
      /\ new.msgs = log.msgs \ {old} /\ new.count = log.count - 1 /\ new.next = log.next
      /\ \A n \in new.msgs : log.next - LogMax < n.seq
  BY EvictShape
<1>. HIDE DEF old, new
<1>3. IsFiniteSet(new.msgs)
  BY <1>2, FS_RemoveElement DEF LogOK
<1>4. \A m \in new.msgs : new.next - new.count <= m.seq /\ m.seq < new.next
  BY <1>1, <1>2, MessageNumbers DEF LogOK
<1>5. \A s \in (new.next - new.count) .. (new.next - 1) : \E m \in new.msgs : m.seq = s
  <2>. TAKE s \in (new.next - new.count) .. (new.next - 1)
  <2>1. PICK m \in log.msgs : m.seq = s
    BY <1>1, <1>2 DEF LogOK
  <2>2. PICK n \in log.msgs : n.seq = log.next - LogMax
    <3>1. log.next - LogMax \in (log.next - log.count) .. (log.next - 1)
      BY <1>1
    <3>. QED
      BY <3>1 DEF LogOK
  <2>3. n = old
    BY <1>1, <1>2, <2>2
  <2>4. m # old
    BY <1>1, <1>2, <2>1, <2>2, <2>3
  <2>. QED
    BY <1>2, <2>1, <2>4
<1>6. \A m, n \in new.msgs : m.seq = n.seq => m = n
  BY <1>2 DEF LogOK
<1>. QED
  BY <1>1, <1>2, <1>3, <1>4, <1>5, <1>6 DEF LogOK, new

\* The count of unread messages follows, or the conversation is known to be
\* miscounted.
LEMMA EvictCounts ==
    ASSUME NEW log, LogOK(log), log.count = LogMax, CountsOK(log)
    PROVE  CountsOK(EvictOldest(log))
<1>. DEFINE old == Oldest(log)
            new == EvictOldest(log)
            last == In(log, old.conv) = {old}
            less == Incoming(old) /\ log.unread[old.conv] > 0
<1>1. /\ log.msgs \in SUBSET Messages /\ log.unread \in [Convs -> Nat]
      /\ log.miscounted \in SUBSET Convs
  BY LogFields
<1>2. /\ old \in log.msgs /\ old \in Messages /\ new \in Logs
      /\ new.msgs = log.msgs \ {old}
      /\ new.unread = [log.unread EXCEPT ![old.conv] =
                         IF last THEN 0 ELSE IF Incoming(old) /\ @ > 0 THEN @ - 1 ELSE @]
      /\ new.miscounted = IF last THEN log.miscounted \ {old.conv}
                          ELSE IF less /\ ~old.fresh
                               THEN log.miscounted \union {old.conv} ELSE log.miscounted
  BY EvictShape
<1>3. old.conv \in Convs /\ IsFiniteSet(log.msgs) /\ log.unread[old.conv] \in Nat
  BY <1>1, <1>2, MessageNumbers DEF LogOK
<1>4. \A m \in new.msgs : m.fresh => Incoming(m)
  BY <1>2 DEF CountsOK
<1>5. ASSUME NEW c \in Convs, c # old.conv
      PROVE  /\ Fresh(new, c) = Fresh(log, c)
             /\ new.unread[c] = log.unread[c]
             /\ c \in log.miscounted => c \in new.miscounted
             /\ c \in new.miscounted => c \in log.miscounted
  <2>1. Fresh(new, c) = Fresh(log, c)
    BY <1>2, <1>5 DEF Fresh, In
  <2>. QED
    BY <1>1, <1>2, <1>3, <1>5, <2>1
<1>6. Fresh(new, old.conv) = Fresh(log, old.conv) \ {old}
  BY <1>2 DEF Fresh, In
<1>7. old \in Fresh(log, old.conv) <=> old.fresh
  BY <1>2 DEF Fresh, In
<1>8. new.unread[old.conv] = IF last THEN 0 ELSE IF less THEN log.unread[old.conv] - 1
                             ELSE log.unread[old.conv]
  BY <1>1, <1>2, <1>3
<1>9. Cardinality(Fresh(log, old.conv)) \in Nat /\ IsFiniteSet(Fresh(log, old.conv))
  BY <1>3, FreshFinite
<1>10. Cardinality(Fresh(new, old.conv)) =
         IF old.fresh THEN Cardinality(Fresh(log, old.conv)) - 1
         ELSE Cardinality(Fresh(log, old.conv))
  BY <1>6, <1>7, <1>9, FS_RemoveElement
<1>11. last => Fresh(new, old.conv) = {}
  BY <1>6 DEF Fresh
<1>12. old.fresh => Incoming(old)
  BY <1>2 DEF CountsOK
<1>13. /\ log.unread[old.conv] <= Cardinality(Fresh(log, old.conv))
       /\ old.conv \notin log.miscounted =>
            log.unread[old.conv] = Cardinality(Fresh(log, old.conv))
  BY <1>3 DEF CountsOK
<1>14. old.fresh => Cardinality(Fresh(log, old.conv)) >= 1
  BY <1>6, <1>7, <1>9, <1>10, FS_RemoveElement, FS_CardinalityType
<1>15. /\ new.unread[old.conv] <= Cardinality(Fresh(new, old.conv))
       /\ old.conv \notin new.miscounted =>
            new.unread[old.conv] = Cardinality(Fresh(new, old.conv))
  <2>1. CASE last
    BY <1>8, <1>11, <2>1, FS_EmptySet
  <2>2. CASE ~last /\ less
    <3>1. old.conv \notin new.miscounted => old.fresh /\ old.conv \notin log.miscounted
      BY <1>2, <2>2
    <3>. HIDE DEF last, less
    <3>. QED
      BY <1>3, <1>8, <1>9, <1>10, <1>13, <2>2, <3>1
  <2>3. CASE ~last /\ ~less
    <3>1. new.miscounted = log.miscounted
      BY <1>2, <2>3
    <3>2. log.unread[old.conv] = 0 \/ ~old.fresh
      BY <1>3, <1>12, <2>3
    <3>. HIDE DEF last, less
    <3>. QED
      BY <1>3, <1>8, <1>9, <1>10, <1>13, <1>14, <2>3, <3>1, <3>2
  <2>. QED
    BY <2>1, <2>2, <2>3
<1>. HIDE DEF last, less, old, new
<1>16. \A c \in Convs : /\ new.unread[c] <= Cardinality(Fresh(new, c))
                        /\ c \notin new.miscounted =>
                             new.unread[c] = Cardinality(Fresh(new, c))
  <2>. TAKE c \in Convs
  <2>1. CASE c = old.conv
    BY <1>15, <2>1
  <2>2. CASE c # old.conv
    BY <1>5, <2>2 DEF CountsOK
  <2>. QED
    BY <2>1, <2>2
<1>. QED
  BY <1>4, <1>16 DEF CountsOK, new

-----------------------------------------------------------------------------
(* Appending a message.                                                     *)

\* The log with room for one more.
RoomIn(log) == IF log.count >= LogMax THEN EvictOldest(log) ELSE log

LEMMA RoomKeeps ==
    ASSUME NEW log, LogOK(log)
    PROVE  /\ LogOK(RoomIn(log)) /\ RoomIn(log).count < LogMax
           /\ RoomIn(log).next = log.next
           /\ RoomIn(log).msgs \in SUBSET log.msgs
           /\ \A n \in RoomIn(log).msgs : log.next - LogMax < n.seq
           /\ CountsOK(log) => CountsOK(RoomIn(log))
<1>1. log.count \in Nat /\ LogMax \in Nat \ {0} /\ log.count <= LogMax /\ log.next \in Nat
      /\ log.msgs \in SUBSET Messages
  BY LogFields, LogAssumption DEF LogOK
<1>2. CASE log.count = LogMax
  <2>1. RoomIn(log) = EvictOldest(log)
    BY <1>1, <1>2 DEF RoomIn
  <2>2. /\ RoomIn(log).count = log.count - 1 /\ RoomIn(log).next = log.next
        /\ RoomIn(log).msgs \in SUBSET log.msgs
        /\ \A n \in RoomIn(log).msgs : log.next - LogMax < n.seq
    BY <1>2, <2>1, EvictShape
  <2>. QED
    BY <1>1, <1>2, <2>1, <2>2, EvictKeeps, EvictCounts
<1>3. CASE log.count # LogMax
  <2>1. RoomIn(log) = log
    BY <1>1, <1>3 DEF RoomIn
  <2>2. \A n \in log.msgs : log.next - LogMax < n.seq
    BY <1>1, <1>3, MessageNumbers DEF LogOK
  <2>. QED
    BY <1>1, <1>3, <2>1, <2>2
<1>. QED
  BY <1>2, <1>3

\* An appended message is the newest; all that stay are among the last LogMax.
LEMMA AppendShape ==
    ASSUME NEW log, LogOK(log), NEW m \in Messages
    PROVE  /\ AppendMessage(log, m) \in Logs
           /\ AppendMessage(log, m).msgs = RoomIn(log).msgs \union {[m EXCEPT !.seq = log.next]}
           /\ AppendMessage(log, m).count = RoomIn(log).count + 1
           /\ AppendMessage(log, m).next = log.next + 1
           /\ AppendMessage(log, m).unread =
                [RoomIn(log).unread EXCEPT ![m.conv] = IF Incoming(m) THEN @ + 1 ELSE @]
           /\ AppendMessage(log, m).miscounted = RoomIn(log).miscounted
           /\ [m EXCEPT !.seq = log.next] \in Messages
<1>. DEFINE room == RoomIn(log)
            new == AppendMessage(log, m)
<1>1. /\ LogOK(room) /\ room.next = log.next /\ room \in Logs
  BY RoomKeeps DEF LogOK
<1>2. /\ room.msgs \in SUBSET Messages /\ room.count \in Nat /\ room.next \in Nat
      /\ room.unread \in [Convs -> Nat] /\ room.miscounted \in SUBSET Convs
  BY <1>1, LogFields
<1>3. new = [room EXCEPT
              !.msgs = room.msgs \union {[m EXCEPT !.seq = room.next]},
              !.count = room.count + 1, !.next = room.next + 1,
              !.unread[m.conv] = IF Incoming(m) THEN @ + 1 ELSE @]
  BY <1>1 DEF AppendMessage, RoomIn, Logs
<1>. HIDE DEF room, new
<1>4. [m EXCEPT !.seq = log.next] \in Messages
  BY <1>1, <1>2 DEF Messages
<1>5. m.conv \in Convs
  BY MessageNumbers
<1>6. new = [msgs |-> room.msgs \union {[m EXCEPT !.seq = room.next]},
             unread |-> [room.unread EXCEPT ![m.conv] = IF Incoming(m) THEN @ + 1 ELSE @],
             count |-> room.count + 1, next |-> room.next + 1,
             miscounted |-> room.miscounted]
  BY <1>1, <1>3 DEF Logs
<1>7. [room.unread EXCEPT ![m.conv] = IF Incoming(m) THEN @ + 1 ELSE @] \in [Convs -> Nat]
  BY <1>2, <1>5
<1>8. new \in Logs
  BY <1>1, <1>2, <1>4, <1>6, <1>7 DEF Logs
<1>. QED
  BY <1>1, <1>4, <1>6, <1>8 DEF room, new

LEMMA AppendKeeps ==
    ASSUME NEW log, LogOK(log), NEW m \in Messages
    PROVE  LogOK(AppendMessage(log, m))
<1>. DEFINE room == RoomIn(log)
            new == AppendMessage(log, m)
            msg == [m EXCEPT !.seq = log.next]
<1>1. /\ LogOK(room) /\ room.next = log.next /\ room.count < LogMax
      /\ \A n \in room.msgs : n \in Messages /\ n.seq \in Nat
      /\ room.count \in Nat /\ room.next \in Nat /\ LogMax \in Nat /\ room.count < room.next
      /\ IsFiniteSet(room.msgs)
  BY RoomKeeps, LogFields, MessageNumbers, LogAssumption DEF LogOK
<1>2. /\ new \in Logs /\ new.msgs = room.msgs \union {msg}
      /\ new.count = room.count + 1 /\ new.next = room.next + 1
  <2>1. /\ new \in Logs /\ new.msgs = room.msgs \union {msg}
        /\ new.count = room.count + 1 /\ new.next = log.next + 1
    BY AppendShape
  <2>. HIDE DEF room, new, msg
  <2>. QED
    BY <1>1, <2>1
<1>3. msg.seq = room.next
  BY <1>1 DEF Messages
<1>4. \A n \in room.msgs : room.next - room.count <= n.seq /\ n.seq < room.next
  BY <1>1 DEF LogOK
<1>. HIDE DEF new, msg
<1>5. IsFiniteSet(new.msgs)
  BY <1>1, <1>2, FS_AddElement
<1>6. \A n \in new.msgs : new.next - new.count <= n.seq /\ n.seq < new.next
  BY <1>1, <1>2, <1>3, <1>4
<1>7. \A a, b \in new.msgs : a.seq = b.seq => a = b
  <2>1. \A a, b \in room.msgs : a.seq = b.seq => a = b
    BY <1>1 DEF LogOK
  <2>2. \A a \in room.msgs : a.seq # msg.seq
    BY <1>1, <1>3, <1>4
  <2>. HIDE DEF room
  <2>. QED
    BY <1>2, <2>1, <2>2
<1>8. \A s \in (new.next - new.count) .. (new.next - 1) : \E n \in new.msgs : n.seq = s
  <2>. TAKE s \in (new.next - new.count) .. (new.next - 1)
  <2>1. CASE s = room.next
    BY <1>2, <1>3, <2>1
  <2>2. CASE s # room.next
    <3>1. s \in (room.next - room.count) .. (room.next - 1)
      BY <1>1, <1>2, <2>2
    <3>2. \E n \in room.msgs : n.seq = s
      BY <1>1, <3>1 DEF LogOK
    <3>. QED
      BY <1>2, <3>2
  <2>. QED
    BY <2>1, <2>2
<1>. QED
  BY <1>1, <1>2, <1>5, <1>6, <1>7, <1>8 DEF LogOK, new

\* A message is fresh when it comes in, and then it is counted.
LEMMA AppendCounts ==
    ASSUME NEW log, LogOK(log), CountsOK(log),
           NEW m \in Messages, m.fresh <=> Incoming(m)
    PROVE  CountsOK(AppendMessage(log, m))
<1>. DEFINE room == RoomIn(log)
            new == AppendMessage(log, m)
            msg == [m EXCEPT !.seq = log.next]
<1>1. /\ LogOK(room) /\ CountsOK(room) /\ IsFiniteSet(room.msgs)
      /\ room.unread \in [Convs -> Nat] /\ room.next = log.next /\ room.next \in Nat
      /\ \A n \in room.msgs : n.seq \in Nat
  BY RoomKeeps, LogFields, MessageNumbers DEF LogOK
<1>2. /\ new.msgs = room.msgs \union {msg}
      /\ new.unread = [room.unread EXCEPT ![m.conv] = IF Incoming(m) THEN @ + 1 ELSE @]
      /\ new.miscounted = room.miscounted
  BY AppendShape
<1>3. /\ msg.conv = m.conv /\ msg.fresh = m.fresh /\ (Incoming(msg) <=> Incoming(m))
      /\ msg.seq = room.next /\ m.conv \in Convs
  BY <1>1, MessageNumbers DEF Messages, Incoming
<1>4. msg \notin room.msgs
  <2>1. \A n \in room.msgs : n.seq < room.next
    BY <1>1 DEF LogOK
  <2>. HIDE DEF room, msg
  <2>. QED
    BY <1>1, <1>3, <2>1
<1>. HIDE DEF room, new, msg
<1>5. \A n \in new.msgs : n.fresh => Incoming(n)
  BY <1>1, <1>2, <1>3 DEF CountsOK
<1>6. ASSUME NEW c \in Convs
      PROVE  /\ new.unread[c] <= Cardinality(Fresh(new, c))
             /\ c \notin new.miscounted => new.unread[c] = Cardinality(Fresh(new, c))
  <2>1. IsFiniteSet(Fresh(room, c)) /\ Cardinality(Fresh(room, c)) \in Nat
        /\ room.unread[c] \in Nat
    BY <1>1, FreshFinite
  <2>2. /\ room.unread[c] <= Cardinality(Fresh(room, c))
        /\ c \notin room.miscounted => room.unread[c] = Cardinality(Fresh(room, c))
    BY <1>1 DEF CountsOK
  <2>3. CASE c = m.conv /\ m.fresh
    <3>1. Fresh(new, c) = Fresh(room, c) \union {msg} /\ msg \notin Fresh(room, c)
      BY <1>2, <1>3, <1>4, <2>3 DEF Fresh, In
    <3>2. Cardinality(Fresh(new, c)) = Cardinality(Fresh(room, c)) + 1
      BY <2>1, <3>1, FS_AddElement
    <3>3. new.unread[c] = room.unread[c] + 1
      BY <1>1, <1>2, <1>3, <2>3
    <3>. QED
      BY <1>2, <2>1, <2>2, <3>2, <3>3
  <2>4. CASE ~(c = m.conv /\ m.fresh)
    <3>1. Fresh(new, c) = Fresh(room, c)
      BY <1>2, <1>3, <1>4, <2>4 DEF Fresh, In
    <3>2. new.unread[c] = room.unread[c]
      BY <1>1, <1>2, <1>3, <2>4
    <3>. QED
      BY <1>2, <2>2, <3>1, <3>2
  <2>. QED
    BY <2>3, <2>4
<1>. QED
  BY <1>5, <1>6 DEF CountsOK, new

-----------------------------------------------------------------------------
(* Reading, and the status of a message: the messages stay the same ones.   *)

\* m, once conversation c is read.
ReadIn(c, m) == IF m.conv = c THEN [m EXCEPT !.fresh = FALSE] ELSE m

LEMMA ReadInKeeps ==
    ASSUME NEW c, NEW m \in Messages
    PROVE  /\ ReadIn(c, m) \in Messages
           /\ ReadIn(c, m).seq = m.seq /\ ReadIn(c, m).id = m.id
           /\ ReadIn(c, m).conv = m.conv /\ ReadIn(c, m).from = m.from
           /\ ReadIn(c, m).status = m.status
           /\ ReadIn(c, m).fresh <=> m.fresh /\ m.conv # c
BY DEF ReadIn, Messages

LEMMA MarkReadShape ==
    ASSUME NEW log, LogOK(log), NEW c \in Convs
    PROVE  /\ MarkRead(log, c) \in Logs
           /\ MarkRead(log, c).msgs = {ReadIn(c, m) : m \in log.msgs}
           /\ MarkRead(log, c).count = log.count
           /\ MarkRead(log, c).next = log.next
           /\ MarkRead(log, c).unread = [log.unread EXCEPT ![c] = 0]
           /\ MarkRead(log, c).miscounted = log.miscounted \ {c}
<1>. DEFINE new == MarkRead(log, c)
            read == {ReadIn(c, m) : m \in log.msgs}
<1>1. /\ log \in Logs /\ log.msgs \in SUBSET Messages /\ log.count \in Nat
      /\ log.next \in Nat
      /\ log.unread \in [Convs -> Nat] /\ log.miscounted \in SUBSET Convs
  BY LogFields DEF LogOK
<1>2. read = {IF m.conv = c THEN [m EXCEPT !.fresh = FALSE] ELSE m : m \in log.msgs}
  BY DEF ReadIn
<1>3. read \in SUBSET Messages
  BY <1>1, ReadInKeeps
<1>4. new = [log EXCEPT !.unread[c] = 0, !.msgs = read, !.miscounted = log.miscounted \ {c}]
  BY <1>1, <1>2 DEF MarkRead, Logs
<1>. HIDE DEF read, new
<1>5. new = [msgs |-> read, unread |-> [log.unread EXCEPT ![c] = 0], count |-> log.count,
             next |-> log.next, miscounted |-> log.miscounted \ {c}]
  BY <1>1, <1>4 DEF Logs
<1>6. new \in Logs
  BY <1>1, <1>3, <1>5 DEF Logs
<1>. QED
  BY <1>5, <1>6 DEF new, read

LEMMA MarkReadKeeps ==
    ASSUME NEW log, LogOK(log), NEW c \in Convs
    PROVE  LogOK(MarkRead(log, c))
<1>. DEFINE new == MarkRead(log, c)
            f == [m \in log.msgs |-> ReadIn(c, m)]
<1>1. log.msgs \in SUBSET Messages
  BY LogFields
<1>2. /\ new \in Logs /\ new.msgs = {ReadIn(c, m) : m \in log.msgs}
      /\ new.count = log.count /\ new.next = log.next
  BY MarkReadShape
<1>. HIDE DEF new
<1>3. f \in Surjection(log.msgs, new.msgs)
  BY <1>2 DEF Surjection
<1>4. IsFiniteSet(new.msgs)
  <2>. HIDE DEF f
  <2>. QED
    BY <1>3, FS_Surjection DEF LogOK
<1>5. \A m \in log.msgs : ReadIn(c, m).seq = m.seq
  BY <1>1, ReadInKeeps
<1>6. \A n \in new.msgs : new.next - new.count <= n.seq /\ n.seq < new.next
  BY <1>2, <1>5 DEF LogOK
<1>7. \A a, b \in new.msgs : a.seq = b.seq => a = b
  BY <1>2, <1>5 DEF LogOK
<1>8. \A s \in (new.next - new.count) .. (new.next - 1) : \E n \in new.msgs : n.seq = s
  BY <1>2, <1>5 DEF LogOK
<1>. QED
  BY <1>2, <1>4, <1>6, <1>7, <1>8 DEF LogOK, new

LEMMA MarkReadCounts ==
    ASSUME NEW log, LogOK(log), CountsOK(log), NEW c \in Convs
    PROVE  CountsOK(MarkRead(log, c))
<1>. DEFINE new == MarkRead(log, c)
<1>1. log.msgs \in SUBSET Messages /\ log.unread \in [Convs -> Nat]
  BY LogFields
<1>2. /\ new.msgs = {ReadIn(c, m) : m \in log.msgs}
      /\ new.unread = [log.unread EXCEPT ![c] = 0]
      /\ new.miscounted = log.miscounted \ {c}
  BY MarkReadShape
<1>. HIDE DEF new
<1>3. \A m \in log.msgs :
        /\ ReadIn(c, m).conv = m.conv /\ ReadIn(c, m).status = m.status
        /\ ReadIn(c, m).fresh <=> m.fresh /\ m.conv # c
        /\ m.conv # c => ReadIn(c, m) = m
  BY <1>1, ReadInKeeps DEF ReadIn
<1>4. \A n \in new.msgs : n.fresh => Incoming(n)
  BY <1>2, <1>3 DEF CountsOK, Incoming
<1>5. Fresh(new, c) = {}
  BY <1>2, <1>3 DEF Fresh, In
<1>6. \A d \in Convs : d # c => Fresh(new, d) = Fresh(log, d)
  BY <1>2, <1>3 DEF Fresh, In
<1>7. ASSUME NEW d \in Convs
      PROVE  /\ new.unread[d] <= Cardinality(Fresh(new, d))
             /\ d \notin new.miscounted => new.unread[d] = Cardinality(Fresh(new, d))
  <2>1. CASE d = c
    <3>1. new.unread[d] = 0
      BY <1>1, <1>2, <2>1
    <3>2. Cardinality(Fresh(new, d)) = 0
      BY <1>5, <2>1, FS_EmptySet
    <3>. QED
      BY <3>1, <3>2
  <2>2. CASE d # c
    BY <1>1, <1>2, <1>6, <2>2 DEF CountsOK
  <2>. QED
    BY <2>1, <2>2
<1>. QED
  BY <1>4, <1>7 DEF CountsOK, new

\* A status goes to the first of some messages, or there are none.
LEMMA SetStatusShape ==
    ASSUME NEW log, LogOK(log), NEW ms \in SUBSET log.msgs, ms # {},
           NEW status \in Statuses,
           NEW f, f = First(ms), NEW n, n = [f EXCEPT !.status = status],
           NEW new, new = SetStatus(log, ms, status)
    PROVE  /\ f \in ms /\ f \in Messages /\ n \in Messages
           /\ n.seq = f.seq /\ n.id = f.id /\ n.conv = f.conv /\ n.from = f.from
           /\ n.status = status /\ n.fresh = f.fresh
           /\ new \in Logs /\ new.msgs = (log.msgs \ {f}) \union {n}
           /\ new.count = log.count /\ new.next = log.next
           /\ new.unread = log.unread /\ new.miscounted = log.miscounted
<1>1. log \in Logs /\ log.msgs \in SUBSET Messages
  BY LogFields DEF LogOK
<1>2. f \in ms /\ f \in Messages
  BY <1>1, FirstIn
<1>3. new = [log EXCEPT !.msgs = (log.msgs \ {f}) \union {n}]
  BY <1>1 DEF SetStatus, Logs
<1>4. n \in Messages
  BY <1>2 DEF Messages
<1>5. /\ n.seq = f.seq /\ n.id = f.id /\ n.conv = f.conv /\ n.from = f.from
      /\ n.status = status /\ n.fresh = f.fresh
  BY <1>2 DEF Messages
<1>6. /\ new \in Logs /\ new.msgs = (log.msgs \ {f}) \union {n}
      /\ new.count = log.count /\ new.next = log.next
      /\ new.unread = log.unread /\ new.miscounted = log.miscounted
  BY <1>1, <1>3, <1>4 DEF Logs
<1>. QED
  BY <1>2, <1>4, <1>5, <1>6

LEMMA SetStatusKeeps ==
    ASSUME NEW log, LogOK(log), NEW ms \in SUBSET log.msgs, NEW status \in Statuses
    PROVE  LogOK(SetStatus(log, ms, status))
<1>1. CASE ms = {}
  BY <1>1 DEF SetStatus
<1>2. CASE ms # {}
  <2>. DEFINE f == First(ms)
              n == [f EXCEPT !.status = status]
              new == SetStatus(log, ms, status)
  <2>0. f = First(ms) /\ n = [f EXCEPT !.status = status] /\ new = SetStatus(log, ms, status)
    OBVIOUS
  <2>. HIDE DEF f, n, new
  <2>1. /\ f \in ms /\ f \in log.msgs /\ n.seq = f.seq
        /\ new \in Logs /\ new.msgs = (log.msgs \ {f}) \union {n}
        /\ new.count = log.count /\ new.next = log.next
    BY <1>2, <2>0, SetStatusShape
  <2>2. IsFiniteSet(new.msgs)
    <3>1. IsFiniteSet(log.msgs \ {f})
      BY FS_RemoveElement DEF LogOK
    <3>. QED
      BY <2>1, <3>1, FS_AddElement
  <2>3. \A m \in new.msgs : \E o \in log.msgs : o.seq = m.seq /\ (m = n \/ m = o)
    BY <2>1
  <2>4. \A m \in new.msgs : new.next - new.count <= m.seq /\ m.seq < new.next
    BY <2>1, <2>3 DEF LogOK
  <2>5. \A a, b \in new.msgs : a.seq = b.seq => a = b
    BY <2>1 DEF LogOK
  <2>6. \A s \in (new.next - new.count) .. (new.next - 1) : \E m \in new.msgs : m.seq = s
    <3>. TAKE s \in (new.next - new.count) .. (new.next - 1)
    <3>1. PICK m \in log.msgs : m.seq = s
      BY <2>1 DEF LogOK
    <3>. QED
      BY <2>1, <3>1
  <2>. QED
    BY <2>1, <2>2, <2>4, <2>5, <2>6 DEF LogOK, new
<1>. QED
  BY <1>1, <1>2

\* The counts do not change when a message that is not fresh gets a status.
LEMMA SetStatusCounts ==
    ASSUME NEW log, LogOK(log), CountsOK(log), NEW ms \in SUBSET log.msgs,
           NEW status \in Statuses, \A m \in ms : ~m.fresh
    PROVE  CountsOK(SetStatus(log, ms, status))
<1>1. CASE ms = {}
  BY <1>1 DEF SetStatus
<1>2. CASE ms # {}
  <2>. DEFINE f == First(ms)
              n == [f EXCEPT !.status = status]
              new == SetStatus(log, ms, status)
  <2>0. f = First(ms) /\ n = [f EXCEPT !.status = status] /\ new = SetStatus(log, ms, status)
    OBVIOUS
  <2>. HIDE DEF f, n, new
  <2>1. /\ f \in ms /\ n.fresh = f.fresh
        /\ new.msgs = (log.msgs \ {f}) \union {n}
        /\ new.unread = log.unread /\ new.miscounted = log.miscounted
    BY <1>2, <2>0, SetStatusShape
  <2>2. f \in log.msgs /\ ~f.fresh /\ ~n.fresh
    BY <2>1
  <2>3. \A c \in Convs : Fresh(new, c) = Fresh(log, c)
    BY <2>1, <2>2 DEF Fresh, In
  <2>. QED
    BY <2>1, <2>2, <2>3 DEF CountsOK, new
<1>. QED
  BY <1>1, <1>2

\* What a result says of a message.
Verdict(ok) == IF ok THEN "Sent" ELSE "Failed"

LEMMA ResultsAreStatuses ==
    ASSUME NEW log, NEW id, NEW ok \in BOOLEAN
    PROVE  /\ Verdict(ok) \in Statuses
           /\ ById(log, id) \in SUBSET log.msgs /\ Own(log, id) \in SUBSET log.msgs
           /\ OnSendResult(log, id, ok) = SetStatus(log, ById(log, id), Verdict(ok))
           /\ UpdateMessageStatus(log, id, ok) =
                IF id = 0 THEN log ELSE SetStatus(log, Own(log, id), Verdict(ok))
BY DEF Verdict, Statuses, ById, Own, OnSendResult, UpdateMessageStatus

LEMMA ResultsKeep ==
    ASSUME NEW log, LogOK(log), NEW id, NEW ok \in BOOLEAN
    PROVE  LogOK(OnSendResult(log, id, ok)) /\ LogOK(UpdateMessageStatus(log, id, ok))
BY ResultsAreStatuses, SetStatusKeeps

-----------------------------------------------------------------------------
(* What the operations keep of each message.                                *)

Alike(m, n) == n.seq = m.seq /\ n.id = m.id /\ n.conv = m.conv /\ n.from = m.from

\* The messages of new are messages of old that were read, or got a status.
Inherits(old, new) ==
    new.next = old.next /\ \A n \in new.msgs : \E m \in old.msgs : Alike(m, n)

LEMMA ReadInherits ==
    ASSUME NEW log, LogOK(log), NEW c \in Convs
    PROVE  /\ Inherits(log, MarkRead(log, c))
           /\ \A n \in MarkRead(log, c).msgs : \E m \in log.msgs :
                 Alike(m, n) /\ n.status = m.status
<1>. DEFINE new == MarkRead(log, c)
<1>1. new.msgs = {ReadIn(c, m) : m \in log.msgs} /\ new.next = log.next
  BY MarkReadShape
<1>2. \A m \in log.msgs : Alike(m, ReadIn(c, m)) /\ ReadIn(c, m).status = m.status
  BY LogFields, ReadInKeeps DEF Alike
<1>. HIDE DEF new
<1>. QED
  BY <1>1, <1>2 DEF Inherits, new

\* A message of the log afterwards is one of before that was not chosen, or the
\* chosen one with the status.
LEMMA StatusInherits ==
    ASSUME NEW log, LogOK(log), NEW ms \in SUBSET log.msgs, NEW status \in Statuses,
           NEW new, new = SetStatus(log, ms, status)
    PROVE  /\ Inherits(log, new)
           /\ \A n \in new.msgs :
                 \/ n \in log.msgs /\ (ms # {} => n # First(ms))
                 \/ ms # {} /\ First(ms) \in ms /\ Alike(First(ms), n) /\ n.status = status
                    /\ n.fresh = First(ms).fresh
<1>1. CASE ms = {}
  <2>1. new = log
    BY <1>1 DEF SetStatus
  <2>. QED
    BY <1>1, <2>1 DEF Inherits, Alike
<1>2. CASE ms # {}
  <2>. DEFINE f == First(ms)
              g == [f EXCEPT !.status = status]
  <2>1. f = First(ms) /\ g = [f EXCEPT !.status = status]
    OBVIOUS
  <2>. HIDE DEF f, g
  <2>2. /\ f \in ms /\ g.seq = f.seq /\ g.id = f.id /\ g.conv = f.conv /\ g.from = f.from
        /\ g.status = status /\ g.fresh = f.fresh
        /\ new.msgs = (log.msgs \ {f}) \union {g} /\ new.next = log.next
    BY <1>2, <2>1, SetStatusShape
  <2>3. Alike(f, g) /\ \A m \in log.msgs : Alike(m, m)
    BY <2>2 DEF Alike
  <2>4. f \in log.msgs
    BY <2>2
  <2>5. Inherits(log, new)
    BY <2>2, <2>3, <2>4 DEF Inherits
  <2>6. \A n \in new.msgs : (n \in log.msgs /\ n # f) \/ n = g
    BY <2>2
  <2>. QED
    BY <1>2, <2>1, <2>2, <2>3, <2>5, <2>6
<1>. QED
  BY <1>1, <1>2

LEMMA ResultInherits ==
    ASSUME NEW log, LogOK(log), NEW id, NEW ok \in BOOLEAN
    PROVE  /\ Inherits(log, UpdateMessageStatus(log, id, ok))
           /\ Inherits(log, OnSendResult(log, id, ok))
<1>1. Inherits(log, log)
  BY DEF Inherits, Alike
<1>2. /\ Verdict(ok) \in Statuses
      /\ ById(log, id) \in SUBSET log.msgs /\ Own(log, id) \in SUBSET log.msgs
  BY ResultsAreStatuses
<1>3. \A ms \in SUBSET log.msgs : Inherits(log, SetStatus(log, ms, Verdict(ok)))
  BY <1>2, StatusInherits
<1>. QED
  BY <1>1, <1>2, <1>3, ResultsAreStatuses

\* The messages after one was appended.
LEMMA AppendFrom ==
    ASSUME NEW log, LogOK(log), NEW m \in Messages, NEW new, new = AppendMessage(log, m)
    PROVE  /\ new.next = log.next + 1 /\ log.next \in Nat
           /\ \A n \in new.msgs :
                 \/ n \in log.msgs /\ n.seq \in Nat /\ n.seq < log.next
                    /\ log.next - LogMax < n.seq
                 \/ /\ n.seq = log.next /\ n.id = m.id /\ n.conv = m.conv /\ n.from = m.from
                    /\ n.status = m.status /\ n.fresh = m.fresh
<1>. DEFINE msg == [m EXCEPT !.seq = log.next]
<1>1. /\ new.msgs = RoomIn(log).msgs \union {msg} /\ new.next = log.next + 1
  BY AppendShape
<1>2. /\ RoomIn(log).msgs \in SUBSET log.msgs
      /\ \A n \in RoomIn(log).msgs : log.next - LogMax < n.seq
  BY RoomKeeps
<1>3. \A n \in log.msgs : n.seq \in Nat /\ n.seq < log.next
  BY LogFields, MessageNumbers DEF LogOK
<1>4. /\ msg.seq = log.next /\ msg.id = m.id /\ msg.conv = m.conv /\ msg.from = m.from
      /\ msg.status = m.status /\ msg.fresh = m.fresh
  BY DEF Messages
<1>5. log.next \in Nat
  BY LogFields
<1>. HIDE DEF msg
<1>. QED
  BY <1>1, <1>2, <1>3, <1>4, <1>5
=============================================================================
