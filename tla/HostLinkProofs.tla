--------------------------- MODULE HostLinkProofs ---------------------------
(***************************************************************************)
(* What HostLink guarantees for every size of the queues and of a read,    *)
(* and without any of the bounds: its types, that a command is run in the  *)
(* session it was accepted in, in order and once, so that HostLink         *)
(* implements HostCommands, and that in the program whose task is alone a  *)
(* session begins with its greeting.                                       *)
(***************************************************************************)
EXTENDS HostLink, TLAPS

-----------------------------------------------------------------------------
(* Types.                                                                  *)

LEMMA QueuedType ==
    ASSUME NEW queue \in Seq(Events), Len(queue) <= QueueMax, NEW event \in Events
    PROVE  Queued(queue, event) \in Seq(Events) /\ Len(Queued(queue, event)) <= QueueMax
<1>1. CASE Ready /\ Len(queue) < QueueMax
  <2>1. Queued(queue, event) = Append(queue, event)
    BY <1>1 DEF Queued
  <2>2. Append(queue, event) \in Seq(Events) /\ Len(Append(queue, event)) = Len(queue) + 1
    OBVIOUS
  <2>. QED
    BY <1>1, <2>1, <2>2, HostLinkAssumption
<1>2. CASE ~(Ready /\ Len(queue) < QueueMax)
  BY <1>2 DEF Queued
<1>. QED
  BY <1>1, <1>2

LEMMA EventType ==
    /\ \A kind \in Kinds : Event(kind) \in Events
    /\ \A version \in Nat : TeamState(version) \in Events
BY DEF Event, TeamState, Events, Kinds

\* The records that are updated a field at a time.
LEMMA RecordType ==
    /\ NoHost \in Hosts
    /\ \A h \in Hosts : /\ [h EXCEPT !.opened = TRUE] \in Hosts
                       /\ \A v \in Nat : [h EXCEPT !.team = v] \in Hosts
    /\ \A b \in Budgets : /\ [b EXCEPT !.frames = @ + 1] \in Budgets
                         /\ [b EXCEPT !.plugs = @ + 1] \in Budgets
                         /\ [b EXCEPT !.news = @ + 1] \in Budgets
                         /\ [b EXCEPT !.starts = @ + 1] \in Budgets
<1>1. NoHost \in Hosts
  BY DEF NoHost, Hosts
<1>2. ASSUME NEW h \in Hosts
      PROVE  /\ [h EXCEPT !.opened = TRUE] \in Hosts
             /\ \A v \in Nat : [h EXCEPT !.team = v] \in Hosts
  BY <1>2 DEF Hosts
<1>3. ASSUME NEW b \in Budgets
      PROVE  /\ [b EXCEPT !.frames = @ + 1] \in Budgets
             /\ [b EXCEPT !.plugs = @ + 1] \in Budgets
             /\ [b EXCEPT !.news = @ + 1] \in Budgets
             /\ [b EXCEPT !.starts = @ + 1] \in Budgets
  <2>1. [b EXCEPT !.frames = @ + 1] \in Budgets
    BY <1>3 DEF Budgets
  <2>2. [b EXCEPT !.plugs = @ + 1] \in Budgets
    BY <1>3 DEF Budgets
  <2>3. [b EXCEPT !.news = @ + 1] \in Budgets
    BY <1>3 DEF Budgets
  <2>4. [b EXCEPT !.starts = @ + 1] \in Budgets
    BY <1>3 DEF Budgets
  <2>. QED
    BY <2>1, <2>2, <2>3, <2>4
<1>. QED
  BY <1>1, <1>2, <1>3

\* A part of a queue of frames is one.
LEMMA PartType ==
    ASSUME NEW s \in Seq(Frames), NEW a \in 1 .. Len(s) + 1, NEW b \in Nat, b <= Len(s)
    PROVE  SubSeq(s, a, b) \in Seq(Frames)
OBVIOUS

\* The steps of the task before its first frame.
LEMMA TurnType ==
    ASSUME TypeOK, Boot \/ PollLost \/ PollConnected \/ Read
    PROVE  TypeOK'
<1>1. CASE Boot
  BY <1>1 DEF TypeOK, Boot, Sessions, hostVars, history, Frames
<1>2. CASE PollLost
  <2>1. PICK part \in 0 .. (IF inbox = <<>> THEN 0 ELSE 1) :
           inbox' = SubSeq(inbox, part + 1, Len(inbox))
    BY <1>2 DEF PollLost
  <2>2. part + 1 \in 1 .. Len(inbox) + 1 /\ inbox \in Seq(Frames) /\ Len(inbox) \in Nat
    BY <2>1 DEF TypeOK
  <2>3. inbox' \in Seq(Frames)
    BY <2>1, <2>2, PartType
  <2>. QED
    BY <1>2, <2>3, HostLinkAssumption DEF TypeOK, PollLost, Sessions, history
<1>3. CASE PollConnected
  BY <1>3 DEF TypeOK, PollConnected, Sessions, hostVars, history
<1>4. CASE Read
  <2>. DEFINE n == IF Len(inbox) < ReadMax THEN Len(inbox) ELSE ReadMax
  <2>1. n \in Nat /\ n <= Len(inbox) /\ inbox \in Seq(Frames) /\ Len(inbox) \in Nat
    BY HostLinkAssumption DEF TypeOK
  <2>2. frames' = SubSeq(inbox, 1, n) /\ inbox' = SubSeq(inbox, n + 1, Len(inbox))
    BY <1>4 DEF Read
  <2>3. frames' \in Seq(Frames) /\ inbox' \in Seq(Frames)
    <3>. HIDE DEF n
    <3>. QED
      BY <2>1, <2>2, PartType
  <2>. QED
    BY <1>4, <2>3 DEF TypeOK, Read, history
<1>. QED
  BY <1>1, <1>2, <1>3, <1>4

\* The frames and the greeting.
LEMMA FrameType ==
    ASSUME TypeOK, HandleFrame \/ Greet \/ LoadTeam \/ MarkTeam \/ PushTeam
    PROVE  TypeOK'
<1>0. Event("CONFIG") \in Events /\ Event("GPS") \in Events /\ TeamState(copy) \in Events
  BY EventType DEF TypeOK, Kinds
<1>. DEFINE q(event) == Queued(tx, event)
<1>q. \A event \in Events : q(event) \in Seq(Events) /\ Len(q(event)) <= QueueMax
  BY QueuedType DEF TypeOK
<1>f. frames # <<>> => Tail(frames) \in Seq(Frames)
  BY DEF TypeOK
<1>1. CASE HandleHello
  <2>1. host' \in Hosts
    BY <1>1, RecordType DEF TypeOK, HandleHello, Told
  <2>2. link' \in Nat /\ greeting' \in Seq(Kinds) /\ Len(greeting') <= 2
    <3>1. <<>> \in Seq(Kinds) /\ Len(<<>>) = 0
      OBVIOUS
    <3>. QED
      <4>1. CASE Ready
        BY <1>1, <4>1 DEF TypeOK, HandleHello
      <4>2. CASE ~Ready
        BY <1>1, <3>1, <4>2 DEF TypeOK, HandleHello
      <4>. QED
        BY <4>1, <4>2
  <2>. QED
    BY <1>1, <2>1, <2>2, <1>f DEF TypeOK, HandleHello, Receive, Sessions
<1>2. CASE HandleTx
  <2>1. accepted' \in Seq(Nat) /\ cmds' \in Seq(Nat) /\ Len(cmds') <= QueueMax
    <3>0. /\ accepted \in Seq(Nat) /\ Len(accepted) \in Nat /\ link \in Nat
          /\ cmds \in Seq(Nat) /\ Len(cmds) \in Nat /\ Len(cmds) <= QueueMax
      BY DEF TypeOK
    <3>1. CASE Len(cmds) < QueueMax
      <4>1. accepted' = Append(accepted, link) /\ cmds' = Append(cmds, Len(accepted) + 1)
        BY <1>2, <3>1 DEF HandleTx
      <4>2. Len(cmds') = Len(cmds) + 1 /\ cmds' \in Seq(Nat) /\ accepted' \in Seq(Nat)
        BY <4>1, <3>0
      <4>. QED
        BY <4>2, <3>0, <3>1, HostLinkAssumption
    <3>2. CASE ~(Len(cmds) < QueueMax)
      BY <1>2, <3>0, <3>2 DEF HandleTx
    <3>. QED
      BY <3>1, <3>2
  <2>. QED
    BY <1>2, <2>1, <1>f DEF TypeOK, HandleTx, Receive, hostVars
<1>3. CASE HandleConfig
  <2>1. tx' \in Seq(Events) /\ Len(tx') <= QueueMax
    BY <1>3, <1>0, <1>q DEF HandleConfig
  <2>. QED
    BY <1>3, <2>1, <1>f DEF TypeOK, HandleConfig, Receive, hostVars, history
<1>4. CASE HandleGps
  <2>1. tx' \in Seq(Events) /\ Len(tx') <= QueueMax
    BY <1>4, <1>0, <1>q DEF HandleGps
  <2>. QED
    BY <1>4, <2>1, <1>f DEF TypeOK, HandleGps, Receive, hostVars, history
<1>5. CASE HandleOther
  BY <1>5, <1>f DEF TypeOK, HandleOther, hostVars, history
<1>6. CASE Greet
  <2>1. tx' \in Seq(Events) /\ Len(tx') <= QueueMax
    BY <1>6, <1>0, <1>q DEF Greet
  <2>. QED
    BY <1>6, <2>1 DEF TypeOK, Greet, hostVars, history
<1>7. CASE LoadTeam
  BY <1>7 DEF TypeOK, LoadTeam, hostVars, history
<1>8. CASE MarkTeam
  BY <1>8 DEF TypeOK, MarkTeam, hostVars, history
<1>9. CASE PushTeam
  <2>1. tx' \in Seq(Events) /\ Len(tx') <= QueueMax
    BY <1>9, <1>0, <1>q DEF PushTeam
  <2>. QED
    BY <1>9, <2>1 DEF TypeOK, PushTeam, hostVars, history
<1>. QED
  BY <1>1, <1>2, <1>3, <1>4, <1>5, <1>6, <1>7, <1>8, <1>9 DEF HandleFrame

\* The end of a turn.
LEMMA DrainType ==
    ASSUME TypeOK, Timers \/ Drain \/ EndTurn
    PROVE  TypeOK'
<1>0. tx \in Seq(Events) /\ Len(tx) <= QueueMax
  BY DEF TypeOK
<1>1. CASE Timers
  <2>1. PICK expired, status, gps \in BOOLEAN :
           /\ session' = IF expired THEN "Waiting" ELSE session
           /\ LET one == IF status THEN Queued(tx, Event("STATUS")) ELSE tx
              IN  tx' = IF gps THEN Queued(one, Event("GPS")) ELSE one
    BY <1>1 DEF Timers
  <2>. DEFINE one == IF status THEN Queued(tx, Event("STATUS")) ELSE tx
  <2>2. one \in Seq(Events) /\ Len(one) <= QueueMax
    BY <1>0, QueuedType, EventType DEF Kinds
  <2>3. tx' \in Seq(Events) /\ Len(tx') <= QueueMax
    <3>1. tx' = IF gps THEN Queued(one, Event("GPS")) ELSE one
      BY <2>1
    <3>. HIDE DEF one
    <3>. QED
      BY <3>1, <2>2, QueuedType, EventType DEF Kinds
  <2>. QED
    BY <1>1, <2>1, <2>3 DEF TypeOK, Timers, Sessions, hostVars, history
<1>2. CASE Drain
  <2>1. Head(tx) \in Events /\ tx' \in Seq(Events) /\ Len(tx') <= QueueMax
    BY <1>2, <1>0, HostLinkAssumption DEF Drain
  <2>2. greeting' \in Seq(Kinds) /\ Len(greeting') <= 2
    <3>1. Head(tx).kind \in Kinds
      BY <2>1 DEF Events
    <3>2. greeting' = IF Len(greeting) < 2 THEN Append(greeting, Head(tx).kind)
                                           ELSE greeting
      BY <1>2 DEF Drain
    <3>. QED
      BY <3>1, <3>2 DEF TypeOK
  <2>3. host' \in Hosts
    <3>1. Head(tx).team \in Nat
      BY <2>1 DEF Events
    <3>. QED
      BY <1>2, <3>1, RecordType DEF TypeOK, Drain, Told
  <2>. QED
    BY <1>2, <2>1, <2>2, <2>3 DEF TypeOK, Drain
<1>3. CASE EndTurn
  BY <1>3 DEF TypeOK, EndTurn, hostVars, history
<1>. QED
  BY <1>1, <1>2, <1>3

\* The main loop.
LEMMA MainType ==
    ASSUME TypeOK, Main \/ ChangeTeam \/ RelayNews \/ RelayResult
    PROVE  TypeOK'
<1>0. /\ tx \in Seq(Events) /\ Len(tx) <= QueueMax
      /\ Event("NEWS") \in Events /\ Event("TX_RESULT") \in Events
      /\ TeamState(team) \in Events
  BY EventType DEF TypeOK, Kinds
<1>1. CASE ServeBegin
  BY <1>1 DEF TypeOK, ServeBegin, hostVars, history
<1>2. CASE Discard
  BY <1>2, HostLinkAssumption DEF TypeOK, Discard, hostVars, history
<1>3. CASE Serve
  <2>1. Head(cmds) \in Nat /\ Tail(cmds) \in Seq(Nat) /\ Len(Tail(cmds)) <= QueueMax
    BY <1>3, HostLinkAssumption DEF TypeOK, Serve
  <2>. QED
    BY <1>3, <2>1 DEF TypeOK, Serve, hostVars
<1>4. CASE ServeEnd
  BY <1>4 DEF TypeOK, ServeEnd, hostVars, history
<1>5. CASE TellTeam
  BY <1>5 DEF TypeOK, TellTeam, hostVars, history
<1>6. CASE PushTold
  <2>1. tx' \in Seq(Events) /\ Len(tx') <= QueueMax
    BY <1>6, <1>0, QueuedType DEF PushTold
  <2>. QED
    BY <1>6, <2>1 DEF TypeOK, PushTold, hostVars, history
<1>7. CASE Evict
  <2>1. tx' \in Seq(Events) /\ Len(tx') <= QueueMax
    BY <1>7, <1>0, HostLinkAssumption DEF Evict
  <2>. QED
    BY <1>7, <2>1 DEF TypeOK, Evict, hostVars, history
<1>8. CASE Retry
  <2>1. tx' \in Seq(Events) /\ Len(tx') <= QueueMax
    BY <1>8, <1>0, HostLinkAssumption DEF Retry
  <2>. QED
    BY <1>8, <2>1 DEF TypeOK, Retry, hostVars, history
<1>9. CASE ChangeTeam
  <2>1. main' \in {"tell", "none"} /\ team' \in Nat
    BY <1>9 DEF TypeOK, ChangeTeam
  <2>2. spent' \in Budgets
    BY <1>9, RecordType DEF TypeOK, ChangeTeam
  <2>. QED
    BY <1>9, <2>1, <2>2 DEF TypeOK, ChangeTeam, hostVars, history
<1>10. CASE RelayNews
  <2>1. tx' \in Seq(Events) /\ Len(tx') <= QueueMax
    BY <1>10, <1>0, QueuedType DEF RelayNews
  <2>. QED
    BY <1>10, <2>1, RecordType DEF TypeOK, RelayNews, hostVars, history
<1>11. CASE RelayResult
  <2>1. tx' \in Seq(Events) /\ Len(tx') <= QueueMax
    BY <1>11, <1>0, HostLinkAssumption DEF RelayResult
  <2>. QED
    BY <1>11, <2>1, RecordType DEF TypeOK, RelayResult, hostVars, history
<1>. QED
  BY <1>1, <1>2, <1>3, <1>4, <1>5, <1>6, <1>7, <1>8, <1>9, <1>10, <1>11 DEF Main

\* The page and the host.
LEMMA OutsideType ==
    ASSUME TypeOK, Start \/ Stop \/ Plug \/ Unplug \/ \E frame \in Frames : Send(frame)
    PROVE  TypeOK'
<1>1. CASE Start
  BY <1>1, RecordType DEF TypeOK, Start, hostVars, history
<1>2. CASE Stop
  <2>1. inbox' \in Seq(Frames)
    <3>1. <<>> \in Seq(Frames)
      OBVIOUS
    <3>. QED
      BY <1>2, <3>1 DEF TypeOK, Stop
  <2>2. /\ tx' \in Seq(Events) /\ Len(tx') <= QueueMax
        /\ cmds' \in Seq(Nat) /\ Len(cmds') <= QueueMax
    BY <1>2, HostLinkAssumption DEF Stop
  <2>3. /\ session' \in Sessions /\ task' = "none"
        /\ UNCHANGED <<frames, copy, main, hash, team, plugged, host, link,
                       greeting, accepted, ran, spent>>
    BY <1>2 DEF Stop, Sessions, history
  <2>. QED
    BY <2>1, <2>2, <2>3 DEF TypeOK
<1>3. CASE Plug
  BY <1>3, RecordType DEF TypeOK, Plug, deviceVars, history
<1>4. CASE Unplug
  <2>1. inbox' \in Seq(Frames)
    <3>1. <<>> \in Seq(Frames)
      OBVIOUS
    <3>. QED
      BY <1>4, <3>1 DEF TypeOK, Unplug
  <2>. QED
    BY <1>4, <2>1 DEF TypeOK, Unplug, deviceVars, history
<1>5. ASSUME NEW frame \in Frames, Send(frame)
      PROVE  TypeOK'
  <2>1. inbox' \in Seq(Frames)
    BY <1>5 DEF TypeOK, Send
  <2>. QED
    BY <1>5, <2>1, RecordType DEF TypeOK, Send, deviceVars, history
<1>. QED
  BY <1>1, <1>2, <1>3, <1>4, <1>5

\* The types of every variable, the queues within their size.
THEOREM HostLinkType == Spec => []TypeOK
<1>1. Init => TypeOK
  <2>1. ASSUME Init
        PROVE  spent \in Budgets /\ host \in Hosts
    BY <2>1, RecordType DEF Init, Budgets
  <2>. QED
    <3>1. /\ <<>> \in Seq(Events) /\ <<>> \in Seq(Nat) /\ <<>> \in Seq(Frames)
          /\ <<>> \in Seq(Kinds) /\ Len(<<>>) = 0
      OBVIOUS
    <3>. SUFFICES ASSUME Init PROVE TypeOK
      OBVIOUS
    <3>. QED
      <4>1. /\ tx \in Seq(Events) /\ cmds \in Seq(Nat) /\ frames \in Seq(Frames)
            /\ inbox \in Seq(Frames) /\ greeting \in Seq(Kinds)
            /\ accepted \in Seq(Nat)
            /\ Len(tx) = 0 /\ Len(cmds) = 0 /\ Len(greeting) = 0
        BY <3>1 DEF Init
      <4>2. 0 <= QueueMax
        BY HostLinkAssumption
      <4>3. /\ session \in Sessions /\ task = "none" /\ main \in {"idle", "none"}
            /\ copy = 0 /\ hash = 0 /\ team = 1 /\ link = 0 /\ plugged = FALSE
            /\ ran = {}
        BY DEF Init, Sessions
      <4>. QED
        <5>1. Len(tx) <= QueueMax /\ Len(cmds) <= QueueMax /\ Len(greeting) <= 2
          BY <4>1, <4>2
        <5>. QED
          BY <2>1, <4>1, <4>3, <5>1 DEF TypeOK
<1>2. TypeOK /\ [Next]_vars => TypeOK'
  <2>1. CASE Next
    BY <2>1, TurnType, FrameType, DrainType, MainType, OutsideType DEF Next, Task
  <2>2. CASE UNCHANGED vars
    BY <2>2 DEF TypeOK, vars, deviceVars, hostVars, history
  <2>. QED
    BY <2>1, <2>2
<1>. QED
  BY <1>1, <1>2, PTL DEF Spec

-----------------------------------------------------------------------------
(* Commands.  A session that is not ready has none in its queue: what      *)
(* clears the queue is the turn that sees the host gone, and until then    *)
(* the session stays open, however the main loop and the page move.        *)

CommandsInv ==
    /\ \A i \in 1 .. Len(cmds) : cmds[i] \in DOMAIN accepted /\ accepted[cmds[i]] = link
    /\ ~Ready => cmds = <<>>
    /\ task \in {"none", "boot"} => ~Ready

\* A step that leaves the commands and the session alone.
LEMMA CommandsKept ==
    ASSUME CommandsInv, UNCHANGED <<cmds, accepted, link, session>>,
           task' \in {"none", "boot"} => task \in {"none", "boot"}
    PROVE  CommandsInv'
BY DEF CommandsInv, Ready

\* A step that leaves the queue empty.
LEMMA CommandsGone ==
    ASSUME cmds' = <<>>, task' \in {"none", "boot"} => ~Ready'
    PROVE  CommandsInv'
BY DEF CommandsInv

LEMMA CommandsTask ==
    ASSUME TypeOK, CommandsInv, Task
    PROVE  CommandsInv'
<1>1. CASE Boot
  <2>1. cmds' = <<>>
    BY <1>1 DEF CommandsInv, Boot
  <2>. QED
    BY <1>1, <2>1, CommandsGone DEF Boot
<1>2. CASE PollLost
  BY <1>2, CommandsGone DEF PollLost
<1>3. CASE PollConnected
  <2>1. session' = session \/ (~Ready /\ ~Ready')
    <3>1. CASE session = "Waiting"
      BY <1>3, <3>1 DEF PollConnected, Ready
    <3>2. CASE session # "Waiting"
      BY <1>3, <3>2 DEF PollConnected, Ready
    <3>. QED
      BY <3>1, <3>2
  <2>. QED
    BY <1>3, <2>1 DEF PollConnected, CommandsInv, Ready, history
<1>4. CASE Read \/ Greet \/ LoadTeam \/ MarkTeam \/ PushTeam \/ EndTurn
  BY <1>4, CommandsKept DEF Read, Greet, LoadTeam, MarkTeam, PushTeam, EndTurn, history
<1>5. CASE HandleHello
  <2>1. CASE Ready
    BY <1>5, <2>1 DEF HandleHello, CommandsInv, Ready
  <2>2. CASE ~Ready
    BY <1>5, <2>2, CommandsGone DEF HandleHello, CommandsInv
  <2>. QED
    BY <2>1, <2>2
<1>6. CASE HandleTx
  <2>1. CASE Len(cmds) < QueueMax
    <3>1. /\ accepted' = Append(accepted, link) /\ cmds' = Append(cmds, Len(accepted) + 1)
          /\ UNCHANGED <<session, task, link>>
          /\ Ready
      BY <1>6, <2>1 DEF HandleTx
    <3>2. accepted \in Seq(Nat) /\ cmds \in Seq(Nat) /\ Len(cmds) \in Nat /\ Len(accepted) \in Nat
      BY DEF TypeOK
    <3>3. /\ DOMAIN accepted = 1 .. Len(accepted)
          /\ DOMAIN accepted' = 1 .. Len(accepted) + 1
          /\ \A c \in 1 .. Len(accepted) : accepted'[c] = accepted[c]
          /\ accepted'[Len(accepted) + 1] = link
      BY <3>1, <3>2
    <3>4. ASSUME NEW i \in 1 .. Len(cmds')
          PROVE  cmds'[i] \in DOMAIN accepted' /\ accepted'[cmds'[i]] = link'
      <4>1. Len(cmds') = Len(cmds) + 1
        BY <3>1, <3>2
      <4>2. CASE i = Len(cmds) + 1
        <5>1. cmds'[i] = Len(accepted) + 1
          BY <3>1, <3>2, <4>2
        <5>. QED
          BY <3>1, <3>2, <3>3, <5>1
      <4>3. CASE i # Len(cmds) + 1
        <5>1. i \in 1 .. Len(cmds) /\ cmds'[i] = cmds[i]
          BY <3>1, <3>2, <4>1, <4>3
        <5>2. cmds[i] \in DOMAIN accepted /\ accepted[cmds[i]] = link
          BY <5>1 DEF CommandsInv
        <5>. QED
          BY <3>1, <3>2, <3>3, <5>1, <5>2
      <4>. QED
        BY <4>2, <4>3
    <3>. QED
      BY <3>1, <3>4 DEF CommandsInv, Ready
  <2>2. CASE ~(Len(cmds) < QueueMax)
    BY <1>6, <2>2, CommandsKept DEF HandleTx
  <2>. QED
    BY <2>1, <2>2
<1>7. CASE HandleConfig \/ HandleGps \/ HandleOther
  BY <1>7, CommandsKept DEF HandleConfig, HandleGps, HandleOther, history
<1>8. CASE Timers
  <2>1. session' = session \/ (~Ready /\ ~Ready')
    <3>1. PICK expired \in BOOLEAN :
             /\ expired => session = "Handshaking"
             /\ session' = IF expired THEN "Waiting" ELSE session
      BY <1>8 DEF Timers
    <3>2. CASE expired
      BY <3>1, <3>2 DEF Ready
    <3>3. CASE ~expired
      BY <3>1, <3>3 DEF Ready
    <3>. QED
      BY <3>2, <3>3
  <2>. QED
    BY <1>8, <2>1 DEF Timers, CommandsInv, Ready, history
<1>9. CASE Drain
  BY <1>9, CommandsKept DEF Drain
<1>. QED
  BY <1>1, <1>2, <1>3, <1>4, <1>5, <1>6, <1>7, <1>8, <1>9 DEF Task, HandleFrame

LEMMA CommandsOthers ==
    ASSUME TypeOK, CommandsInv,
           \/ Start \/ Stop \/ Main \/ ChangeTeam \/ RelayNews \/ RelayResult
           \/ Plug \/ Unplug \/ \E frame \in Frames : Send(frame)
    PROVE  CommandsInv'
<1>1. CASE Start
  BY <1>1 DEF Start, CommandsInv, Ready, history
<1>2. CASE Stop
  BY <1>2, CommandsGone DEF Stop, Ready
<1>3. CASE Discard
  BY <1>3 DEF Discard, CommandsInv, Ready, history
<1>4. CASE Serve
  <2>1. cmds \in Seq(Nat) /\ cmds # <<>> /\ cmds' = Tail(cmds)
    BY <1>4 DEF Serve, TypeOK
  <2>2. ASSUME NEW i \in 1 .. Len(cmds')
        PROVE  i + 1 \in 1 .. Len(cmds) /\ cmds'[i] = cmds[i + 1]
    BY <2>1
  <2>. QED
    BY <1>4, <2>1, <2>2 DEF Serve, CommandsInv, Ready
<1>5. CASE ServeBegin \/ ServeEnd \/ TellTeam \/ PushTold \/ Evict \/ Retry
  BY <1>5, CommandsKept DEF ServeBegin, ServeEnd, TellTeam, PushTold, Evict, Retry, history
<1>6. CASE ChangeTeam \/ RelayNews \/ RelayResult
  BY <1>6, CommandsKept DEF ChangeTeam, RelayNews, RelayResult, history
<1>7. CASE Plug \/ Unplug \/ \E frame \in Frames : Send(frame)
  BY <1>7, CommandsKept DEF Plug, Unplug, Send, deviceVars, history
<1>. QED
  BY <1>1, <1>2, <1>3, <1>4, <1>5, <1>6, <1>7 DEF Main

\* What the queue holds was accepted in the session that is open.
THEOREM HostLinkCommands == Spec => []CommandsInv
<1>1. Init => CommandsInv
  BY DEF Init, CommandsInv, Ready
<1>2. TypeOK /\ CommandsInv /\ [Next]_vars => CommandsInv'
  <2>1. CASE UNCHANGED vars
    BY <2>1, CommandsKept DEF vars, deviceVars, history
  <2>2. CASE Next
    BY <2>2, CommandsTask, CommandsOthers DEF Next
  <2>. QED
    BY <2>1, <2>2
<1>. QED
  BY <1>1, <1>2, HostLinkType, PTL DEF Spec

\* No host's command is run for the host that opens the line after it.
THEOREM HostLinkCommandsOfThisLink == Spec => CommandsOfThisLink
<1>1. TypeOK /\ CommandsInv /\ [Next]_vars
        => [\A c \in ran' \ ran : c \in DOMAIN accepted /\ accepted[c] = link]_vars
  <2>. SUFFICES ASSUME TypeOK, CommandsInv, Next,
                       NEW c \in ran' \ ran
                PROVE  c \in DOMAIN accepted /\ accepted[c] = link
    OBVIOUS
  <2>1. CASE Serve
    <3>1. cmds \in Seq(Nat) /\ cmds # <<>> /\ c = Head(cmds)
      BY <2>1 DEF Serve, TypeOK
    <3>2. 1 \in 1 .. Len(cmds) /\ cmds[1] = c
      BY <3>1
    <3>. QED
      BY <3>2 DEF CommandsInv
  <2>2. CASE Task
    BY <2>2 DEF Task, Boot, PollLost, PollConnected, Read, HandleFrame, HandleHello,
         HandleTx, HandleConfig, HandleGps, HandleOther, Greet, LoadTeam, MarkTeam,
         PushTeam, Timers, Drain, EndTurn, history
  <2>3. CASE Main /\ ~Serve
    BY <2>3 DEF Main, ServeBegin, Discard, ServeEnd, TellTeam, PushTold, Evict, Retry,
         history
  <2>4. CASE Start \/ Stop \/ ChangeTeam \/ RelayNews \/ RelayResult
    BY <2>4 DEF Start, Stop, ChangeTeam, RelayNews, RelayResult, history
  <2>5. CASE Plug \/ Unplug \/ \E frame \in Frames : Send(frame)
    BY <2>5 DEF Plug, Unplug, Send, history
  <2>. QED
    BY <2>1, <2>2, <2>3, <2>4, <2>5 DEF Next
<1>. QED
  BY <1>1, HostLinkType, HostLinkCommands, PTL DEF Spec, CommandsOfThisLink

-----------------------------------------------------------------------------
(* The greeting, when the task is alone.  The queue is empty whenever no   *)
(* session is open, since a turn ends with an empty queue and only the     *)
(* beginning of a turn closes the session; so the two events of a greeting *)
(* find room and are the first.                                            *)

Turning == {"frames", "greet", "load", "mark", "push", "drain"}

\* Nothing of the greeting is queued yet; the status is; both are; the status
\* is written; both are.
Unsaid == greeting = <<>> /\ tx = <<>> /\ task = "greet"
HalfQueued ==
    /\ greeting = <<>> /\ Len(tx) = 1 /\ tx[1].kind = "CONFIG"
    /\ task \in {"load", "mark", "push"}
BothQueued ==
    /\ greeting = <<>> /\ Len(tx) >= 2
    /\ tx[1].kind = "CONFIG" /\ tx[2].kind = "TEAM_STATE"
    /\ task \in Turning
HalfSaid ==
    /\ greeting = <<"CONFIG">> /\ Len(tx) >= 1 /\ tx[1].kind = "TEAM_STATE"
    /\ task = "drain"
Said == greeting = <<"CONFIG", "TEAM_STATE">> /\ (tx # <<>> => task \in Turning)

InProgress == Unsaid \/ HalfQueued \/ BothQueued \/ HalfSaid \/ Said

GreetingInv ==
    /\ main = "none"
    /\ ~Ready => /\ tx = <<>>
                 /\ task \notin {"greet", "load", "mark", "push"}
                 /\ greeting \in {<<>>, <<"CONFIG">>, <<"CONFIG", "TEAM_STATE">>}
    /\ Ready => task \notin {"none", "boot"} /\ InProgress

\* One element appended to a sequence of one.
LEMMA AppendToOne ==
    ASSUME NEW S, NEW a \in S, NEW b \in S
    PROVE  Append(<<a>>, b) = <<a, b>> /\ Len(<<a>>) = 1
<1>1. <<a>> \in Seq(S) /\ Len(<<a>>) = 1 /\ <<a>>[1] = a
  OBVIOUS
<1>2. ASSUME NEW t \in Seq(S), Len(t) = 2
      PROVE  t = <<t[1], t[2]>>
  BY <1>2
<1>3. /\ Append(<<a>>, b) \in Seq(S) /\ Len(Append(<<a>>, b)) = 2
      /\ Append(<<a>>, b)[1] = a /\ Append(<<a>>, b)[2] = b
  BY <1>1
<1>. QED
  BY <1>1, <1>2, <1>3

\* An event put behind what is queued.
Behind(queue, event, q) ==
    /\ q \in Seq(Events) /\ Len(q) \in Nat
    /\ Len(q) >= Len(queue)
    /\ \A i \in 1 .. Len(queue) : q[i] = queue[i]
    /\ Ready /\ Len(queue) < QueueMax
          => Len(q) = Len(queue) + 1 /\ q[Len(queue) + 1] = event

LEMMA QueuedBehind ==
    ASSUME NEW queue \in Seq(Events), NEW event \in Events
    PROVE  Behind(queue, event, Queued(queue, event))
<1>1. CASE Ready /\ Len(queue) < QueueMax
  BY <1>1 DEF Queued, Behind
<1>2. CASE ~(Ready /\ Len(queue) < QueueMax)
  BY <1>2 DEF Queued, Behind
<1>. QED
  BY <1>1, <1>2

LEMMA GreetingTask ==
    ASSUME TypeOK, GreetingInv, Task
    PROVE  GreetingInv'
<1>0. tx \in Seq(Events) /\ Len(tx) \in Nat
  BY DEF TypeOK
<1>e. Event("CONFIG") \in Events /\ Event("GPS") \in Events /\ Event("STATUS") \in Events
      /\ TeamState(copy) \in Events
  BY EventType DEF TypeOK, Kinds
<1>1. CASE Boot
  BY <1>1 DEF GreetingInv, Boot, Ready, history
<1>2. CASE PollLost
  <2>1. Ready => Said /\ tx = <<>>
    BY <1>2 DEF GreetingInv, PollLost, InProgress, Unsaid, HalfQueued, BothQueued,
         HalfSaid, Said, Turning
  <2>. QED
    BY <1>2, <2>1 DEF GreetingInv, PollLost, Ready, Said, history
<1>3. CASE PollConnected \/ Read \/ EndTurn
  <2>1. Ready => Said /\ tx = <<>>
    BY <1>3, <1>0 DEF GreetingInv, PollConnected, Read, EndTurn, InProgress, Unsaid,
         HalfQueued, BothQueued, HalfSaid, Said, Turning
  <2>2. /\ main' = main /\ tx' = tx /\ greeting' = greeting
        /\ task' \in {"read", "frames", "poll"} /\ (Ready' <=> Ready)
    <3>1. CASE PollConnected
      <4>1. CASE session = "Waiting"
        BY <3>1, <4>1 DEF PollConnected, Ready, history
      <4>2. CASE session # "Waiting"
        BY <3>1, <4>2 DEF PollConnected, Ready, history
      <4>. QED
        BY <4>1, <4>2
    <3>2. CASE Read \/ EndTurn
      BY <3>2 DEF Read, EndTurn, Ready, history
    <3>. QED
      BY <1>3, <3>1, <3>2
  <2>. QED
    BY <2>1, <2>2 DEF GreetingInv, InProgress, Said
<1>4. CASE HandleHello
  <2>1. CASE Ready
    <3>1. BothQueued \/ Said
      BY <1>4, <2>1 DEF HandleHello, Receive, GreetingInv, InProgress, Unsaid,
           HalfQueued, HalfSaid
    <3>. QED
      BY <1>4, <2>1, <3>1 DEF HandleHello, GreetingInv, InProgress, BothQueued, Said,
           Ready, Turning
  <2>2. CASE ~Ready
    BY <1>4, <2>2 DEF HandleHello, GreetingInv, InProgress, Unsaid, Ready
  <2>. QED
    BY <2>1, <2>2
<1>5. CASE HandleTx \/ HandleOther
  BY <1>5 DEF HandleTx, HandleOther, Receive, GreetingInv, InProgress, Unsaid, HalfQueued,
       BothQueued, HalfSaid, Said, Ready, history
<1>6. CASE HandleConfig \/ HandleGps
  <2>1. BothQueued \/ Said
    BY <1>6 DEF HandleConfig, HandleGps, Receive, GreetingInv, InProgress, Unsaid,
         HalfQueued, HalfSaid
  <2>2. PICK event \in Events : tx' = Queued(tx, event)
    BY <1>6, <1>e DEF HandleConfig, HandleGps
  <2>3. /\ tx' \in Seq(Events) /\ Len(tx') >= Len(tx) /\ Len(tx') \in Nat
        /\ \A i \in 1 .. Len(tx) : tx'[i] = tx[i]
    BY <1>0, <2>2, QueuedBehind DEF Behind
  <2>4. /\ task = "frames" /\ task' = "frames" /\ main' = main /\ greeting' = greeting
        /\ Ready /\ Ready'
    BY <1>6 DEF HandleConfig, HandleGps, Receive, Ready, history
  <2>5. BothQueued => BothQueued'
    BY <1>0, <2>3, <2>4 DEF BothQueued, Turning
  <2>6. Said => Said'
    BY <2>4 DEF Said, Turning
  <2>. QED
    BY <2>1, <2>4, <2>5, <2>6 DEF GreetingInv, InProgress
<1>7. CASE Greet
  <2>1. /\ task = "greet" /\ task' = "load" /\ main' = main /\ greeting' = greeting
        /\ Ready /\ Ready' /\ tx' = Queued(tx, Event("CONFIG"))
    BY <1>7 DEF Greet, GreetingInv, Ready, history
  <2>2. /\ tx' \in Seq(Events) /\ Len(tx') >= Len(tx) /\ Len(tx') \in Nat
        /\ \A i \in 1 .. Len(tx) : tx'[i] = tx[i]
        /\ Len(tx) < QueueMax => Len(tx') = Len(tx) + 1
                                 /\ tx'[Len(tx) + 1] = Event("CONFIG")
    BY <1>0, <1>e, <2>1, QueuedBehind DEF Behind
  <2>3. Unsaid => HalfQueued'
    <3>1. Unsaid => Len(tx) = 0 /\ Len(tx) < QueueMax
      BY HostLinkAssumption DEF Unsaid
    <3>. QED
      BY <2>1, <2>2, <3>1 DEF Unsaid, HalfQueued, Event
  <2>4. BothQueued => BothQueued'
    BY <1>0, <2>1, <2>2 DEF BothQueued, Turning
  <2>5. Said => Said'
    BY <2>1 DEF Said, Turning
  <2>. QED
    BY <2>1, <2>3, <2>4, <2>5 DEF GreetingInv, InProgress, HalfQueued, HalfSaid
<1>8. CASE LoadTeam \/ MarkTeam
  BY <1>8 DEF LoadTeam, MarkTeam, GreetingInv, InProgress, Unsaid, HalfQueued, BothQueued,
       HalfSaid, Said, Ready, Turning, history
<1>9. CASE PushTeam
  <2>1. /\ task = "push" /\ task' = "frames" /\ main' = main /\ greeting' = greeting
        /\ Ready /\ Ready' /\ tx' = Queued(tx, TeamState(copy))
    BY <1>9 DEF PushTeam, GreetingInv, Ready, history
  <2>2. /\ tx' \in Seq(Events) /\ Len(tx') >= Len(tx) /\ Len(tx') \in Nat
        /\ \A i \in 1 .. Len(tx) : tx'[i] = tx[i]
        /\ Len(tx) < QueueMax => Len(tx') = Len(tx) + 1
                                 /\ tx'[Len(tx) + 1] = TeamState(copy)
    BY <1>0, <1>e, <2>1, QueuedBehind DEF Behind
  <2>3. HalfQueued => BothQueued'
    <3>1. HalfQueued => Len(tx) = 1 /\ Len(tx) < QueueMax
      BY HostLinkAssumption DEF HalfQueued
    <3>. QED
      BY <2>1, <2>2, <3>1 DEF HalfQueued, BothQueued, TeamState, Turning
  <2>4. BothQueued => BothQueued'
    BY <1>0, <2>1, <2>2 DEF BothQueued, Turning
  <2>5. Said => Said'
    BY <2>1 DEF Said, Turning
  <2>. QED
    BY <2>1, <2>3, <2>4, <2>5 DEF GreetingInv, InProgress, Unsaid, HalfSaid
<1>10. CASE Timers
  <2>1. PICK expired, status, gps \in BOOLEAN :
           /\ expired => session = "Handshaking"
           /\ status \/ gps => Ready
           /\ session' = IF expired THEN "Waiting" ELSE session
           /\ LET one == IF status THEN Queued(tx, Event("STATUS")) ELSE tx
              IN  tx' = IF gps THEN Queued(one, Event("GPS")) ELSE one
    BY <1>10 DEF Timers
  <2>. DEFINE one == IF status THEN Queued(tx, Event("STATUS")) ELSE tx
  <2>2. /\ task = "frames" /\ task' = "drain" /\ main' = main /\ greeting' = greeting
    BY <1>10 DEF Timers, history
  <2>3. Ready' <=> Ready
    <3>1. CASE expired
      BY <2>1, <3>1 DEF Ready
    <3>2. CASE ~expired
      BY <2>1, <3>2 DEF Ready
    <3>. QED
      BY <3>1, <3>2
  <2>4. CASE ~Ready
    BY <2>1, <2>2, <2>3, <2>4 DEF GreetingInv
  <2>5. CASE Ready
    <3>1. BothQueued \/ Said
      BY <2>2, <2>5 DEF GreetingInv, InProgress, Unsaid, HalfQueued, HalfSaid
    <3>2. /\ one \in Seq(Events) /\ Len(one) \in Nat /\ Len(one) >= Len(tx)
          /\ \A i \in 1 .. Len(tx) : one[i] = tx[i]
      BY <1>0, <1>e, QueuedBehind DEF Behind
    <3>3. /\ tx' \in Seq(Events) /\ Len(tx') \in Nat /\ Len(tx') >= Len(one)
          /\ \A i \in 1 .. Len(one) : tx'[i] = one[i]
      <4>1. tx' = IF gps THEN Queued(one, Event("GPS")) ELSE one
        BY <2>1
      <4>. HIDE DEF one
      <4>. QED
        BY <1>e, <3>2, <4>1, QueuedBehind DEF Behind
    <3>4. BothQueued => BothQueued'
      <4>1. Len(tx') >= Len(tx) /\ \A i \in 1 .. Len(tx) : tx'[i] = tx[i]
        <5>. HIDE DEF one
        <5>. QED
          BY <1>0, <3>2, <3>3
      <4>. QED
        BY <1>0, <2>2, <3>3, <4>1 DEF BothQueued, Turning
    <3>5. Said => Said'
      BY <2>2 DEF Said, Turning
    <3>. QED
      BY <2>2, <2>3, <2>5, <3>1, <3>4, <3>5 DEF GreetingInv, InProgress
  <2>. QED
    BY <2>4, <2>5
<1>11. CASE Drain
  <2>1. /\ Ready /\ Ready' /\ tx # <<>> /\ tx' = Tail(tx) /\ Head(tx) = tx[1]
        /\ task = "drain" /\ task' = "drain" /\ main' = main
        /\ Len(tx') = Len(tx) - 1
        /\ \A i \in 1 .. Len(tx) - 1 : tx'[i] = tx[i + 1]
    BY <1>11, <1>0 DEF Drain, Ready
  <2>2. greeting' = IF Len(greeting) < 2 THEN Append(greeting, tx[1].kind) ELSE greeting
    BY <1>11, <2>1 DEF Drain
  <2>3. BothQueued => HalfSaid'
    BY <1>0, <2>1, <2>2 DEF BothQueued, HalfSaid
  <2>4. HalfSaid => Said'
    <3>1. HalfSaid => greeting' = <<"CONFIG", "TEAM_STATE">>
      <4>1. Append(<<"CONFIG">>, "TEAM_STATE") = <<"CONFIG", "TEAM_STATE">>
            /\ Len(<<"CONFIG">>) = 1
        <5>1. "CONFIG" \in Kinds /\ "TEAM_STATE" \in Kinds
          BY DEF Kinds
        <5>. QED
          BY <5>1, AppendToOne
      <4>. QED
        BY <2>2, <4>1 DEF HalfSaid
    <3>. QED
      BY <2>1, <3>1 DEF Said, Turning
  <2>5. Said => Said'
    BY <2>1, <2>2 DEF Said, Turning
  <2>. QED
    BY <2>1, <2>3, <2>4, <2>5 DEF GreetingInv, InProgress, Unsaid, HalfQueued
<1>. QED
  BY <1>1, <1>2, <1>3, <1>4, <1>5, <1>6, <1>7, <1>8, <1>9, <1>10, <1>11
     DEF Task, HandleFrame

\* The main loop is not there, and the page and the host leave the greeting
\* as it is.
LEMMA GreetingOthers ==
    ASSUME GreetingInv,
           \/ Start \/ Stop \/ Main \/ ChangeTeam \/ RelayNews \/ RelayResult
           \/ Plug \/ Unplug \/ \E frame \in Frames : Send(frame)
    PROVE  GreetingInv'
<1>1. ~Main /\ ~RelayNews /\ ~RelayResult
  BY DEF GreetingInv, Main, ServeBegin, Discard, Serve, ServeEnd, TellTeam, PushTold,
       Evict, Retry, RelayNews, RelayResult
<1>2. CASE Start
  BY <1>2 DEF Start, GreetingInv, Ready, history
<1>3. CASE Stop
  <2>1. greeting \in {<<>>, <<"CONFIG">>, <<"CONFIG", "TEAM_STATE">>}
    BY DEF GreetingInv, InProgress, Unsaid, HalfQueued, BothQueued, HalfSaid, Said
  <2>. QED
    BY <1>3, <2>1 DEF Stop, GreetingInv, Ready, history
<1>4. CASE ChangeTeam \/ Plug \/ Unplug \/ \E frame \in Frames : Send(frame)
  <2>1. UNCHANGED <<session, tx, task, main, greeting>>
    BY <1>4 DEF ChangeTeam, Plug, Unplug, Send, deviceVars, history, GreetingInv
  <2>. QED
    BY <2>1 DEF GreetingInv, InProgress, Unsaid, HalfQueued, BothQueued, HalfSaid, Said,
         Ready
<1>. QED
  BY <1>1, <1>2, <1>3, <1>4

\* A program does not change while it runs.
LEMMA ProgramKept ==
    ASSUME [Next]_vars
    PROVE  main' = "none" => main = "none"
<1>1. CASE UNCHANGED vars
  BY <1>1 DEF vars, deviceVars
<1>2. CASE Task
  BY <1>2 DEF Task, Boot, PollLost, PollConnected, Read, HandleFrame, HandleHello,
       HandleTx, HandleConfig, HandleGps, HandleOther, Greet, LoadTeam, MarkTeam,
       PushTeam, Timers, Drain, EndTurn
<1>3. CASE Main
  BY <1>3 DEF Main, ServeBegin, Discard, Serve, ServeEnd, TellTeam, PushTold, Evict,
       Retry
<1>4. CASE Start \/ Stop \/ ChangeTeam \/ RelayNews \/ RelayResult
  BY <1>4 DEF Start, Stop, ChangeTeam, RelayNews, RelayResult, Between
<1>5. CASE Plug \/ Unplug \/ \E frame \in Frames : Send(frame)
  BY <1>5 DEF Plug, Unplug, Send, deviceVars
<1>. QED
  BY <1>1, <1>2, <1>3, <1>4, <1>5 DEF Next

\* In the program whose task is alone a session begins with the configuration
\* and the team state, whatever its host sends and however often it goes.
THEOREM HostLinkGreeting == Spec => []GreetingInOrder
<1>. DEFINE Inv == main = "none" => GreetingInv
<1>1. Init => Inv
  BY DEF Init, GreetingInv, Ready
<1>2. TypeOK /\ Inv /\ [Next]_vars => Inv'
  <2>. SUFFICES ASSUME TypeOK, Inv, [Next]_vars, main' = "none"
                PROVE  GreetingInv'
    OBVIOUS
  <2>0. GreetingInv
    BY ProgramKept
  <2>1. CASE UNCHANGED vars
    BY <2>0, <2>1 DEF vars, deviceVars, history, GreetingInv, InProgress, Unsaid,
         HalfQueued, BothQueued, HalfSaid, Said, Ready
  <2>2. CASE Next
    BY <2>0, <2>2, GreetingTask, GreetingOthers DEF Next
  <2>. QED
    BY <2>1, <2>2
<1>3. Inv => GreetingInOrder
  <2>1. GreetingInv => greeting \in {<<>>, <<"CONFIG">>, <<"CONFIG", "TEAM_STATE">>}
    BY DEF GreetingInv, InProgress, Unsaid, HalfQueued, BothQueued, HalfSaid, Said
  <2>. QED
    <3>1. CASE greeting = <<>>
      BY <3>1 DEF GreetingInOrder, IsPrefix
    <3>2. CASE greeting = <<"CONFIG">>
      BY <3>2 DEF GreetingInOrder, IsPrefix
    <3>3. CASE greeting = <<"CONFIG", "TEAM_STATE">>
      BY <3>3 DEF GreetingInOrder, IsPrefix
    <3>. QED
      BY <2>1, <3>1, <3>2, <3>3 DEF GreetingInOrder
<1>. QED
  BY <1>1, <1>2, <1>3, HostLinkType, PTL DEF Spec
-----------------------------------------------------------------------------
(* The refinement of HostCommands.                                         *)

\* All that happens to a command: it is left, dropped with the queue, put
\* behind the queue, or taken from its head and run; and a session opens on an
\* empty queue.
Left == UNCHANGED <<link, accepted, cmds, ran>>
Dropped == cmds' = <<>> /\ UNCHANGED <<link, accepted, ran>>
OpenedEmpty == cmds = <<>> /\ link' = link + 1 /\ UNCHANGED <<accepted, cmds, ran>>
PutBehind ==
    /\ accepted' = Append(accepted, link)
    /\ cmds' = Append(cmds, Len(accepted) + 1)
    /\ UNCHANGED <<link, ran>>
HeadRun ==
    /\ cmds # <<>> /\ cmds' = Tail(cmds)
    /\ ran' = ran \union {Head(cmds)}
    /\ UNCHANGED <<link, accepted>>

LEMMA CommandSteps ==
    ASSUME CommandsInv, [Next]_vars
    PROVE  Left \/ Dropped \/ OpenedEmpty \/ PutBehind \/ HeadRun
<1>1. CASE UNCHANGED vars
  BY <1>1 DEF vars, deviceVars, history, Left
<1>2. CASE Boot \/ PollConnected \/ Read \/ Greet \/ LoadTeam \/ MarkTeam \/ PushTeam
           \/ Timers \/ Drain \/ EndTurn \/ HandleConfig \/ HandleGps \/ HandleOther
  BY <1>2 DEF Boot, PollConnected, Read, Greet, LoadTeam, MarkTeam, PushTeam, Timers, Drain,
       EndTurn, HandleConfig, HandleGps, HandleOther, history, Left
<1>3. CASE HandleHello
  BY <1>3 DEF HandleHello, CommandsInv, Left, OpenedEmpty
<1>4. CASE HandleTx
  BY <1>4 DEF HandleTx, Left, PutBehind
<1>5. CASE PollLost \/ Stop \/ Discard
  BY <1>5 DEF PollLost, Stop, Discard, history, Dropped
<1>6. CASE Serve
  BY <1>6 DEF Serve, HeadRun
<1>7. CASE ServeBegin \/ ServeEnd \/ TellTeam \/ PushTold \/ Evict \/ Retry
           \/ ChangeTeam \/ RelayNews \/ RelayResult
  BY <1>7 DEF ServeBegin, ServeEnd, TellTeam, PushTold, Evict, Retry, ChangeTeam, RelayNews,
       RelayResult, history, Left
<1>8. CASE Start \/ Plug \/ Unplug \/ \E frame \in Frames : Send(frame)
  BY <1>8 DEF Start, Plug, Unplug, Send, deviceVars, history, Left
<1>. QED
  BY <1>1, <1>2, <1>3, <1>4, <1>5, <1>6, <1>7, <1>8 DEF Next, Task, HandleFrame, Main

\* The queue is in the order of acceptance, and what is run is older than
\* everything in it.
OrderInv ==
    /\ \A i, j \in 1 .. Len(cmds) : i < j => cmds[i] < cmds[j]
    /\ \A i \in 1 .. Len(cmds) : cmds[i] <= Len(accepted)
    /\ \A d \in ran : d <= Len(accepted)
    /\ \A d \in ran : \A i \in 1 .. Len(cmds) : d < cmds[i]

LEMMA EmptyInOrder ==
    ASSUME cmds' = <<>>, UNCHANGED <<accepted, ran>>, OrderInv
    PROVE  OrderInv'
BY DEF OrderInv

LEMMA NextInOrder ==
    ASSUME TypeOK, CommandsInv, OrderInv, [Next]_vars
    PROVE  OrderInv'
<1>0. /\ cmds \in Seq(Nat) /\ Len(cmds) \in Nat /\ \A i \in 1 .. Len(cmds) : cmds[i] \in Nat
      /\ accepted \in Seq(Nat) /\ Len(accepted) \in Nat /\ ran \subseteq Nat
  BY DEF TypeOK
<1>1. CASE Left
  BY <1>1 DEF Left, OrderInv
<1>2. CASE Dropped \/ OpenedEmpty
  BY <1>2, EmptyInOrder DEF Dropped, OpenedEmpty
<1>3. CASE PutBehind
  <2>1. /\ Len(accepted') = Len(accepted) + 1 /\ Len(cmds') = Len(cmds) + 1 /\ ran' = ran
        /\ cmds'[Len(cmds) + 1] = Len(accepted) + 1
        /\ \A i \in 1 .. Len(cmds) : cmds'[i] = cmds[i]
    BY <1>0, <1>3 DEF PutBehind
  <2>2. \A i \in 1 .. Len(cmds) + 1 : i \in 1 .. Len(cmds) \/ i = Len(cmds) + 1
    BY <1>0
  <2>3. \A i \in 1 .. Len(cmds) : cmds[i] < Len(accepted) + 1 /\ cmds[i] <= Len(accepted) + 1
    BY <1>0 DEF OrderInv
  <2>4. \A d \in ran : d < Len(accepted) + 1 /\ d <= Len(accepted) + 1
    BY <1>0 DEF OrderInv
  <2>5. \A i, j \in 1 .. Len(cmds) + 1 : i < j => i \in 1 .. Len(cmds)
    BY <1>0
  <2>6. ASSUME NEW i \in 1 .. Len(cmds'), NEW j \in 1 .. Len(cmds'), i < j
        PROVE  cmds'[i] < cmds'[j]
    <3>1. i \in 1 .. Len(cmds) /\ (j \in 1 .. Len(cmds) \/ j = Len(cmds) + 1)
      BY <2>1, <2>2, <2>5, <2>6
    <3>. QED
      BY <2>1, <2>3, <2>6, <3>1 DEF OrderInv
  <2>7. ASSUME NEW i \in 1 .. Len(cmds')
        PROVE  cmds'[i] <= Len(accepted') /\ \A d \in ran' : d < cmds'[i]
    <3>1. CASE i \in 1 .. Len(cmds)
      BY <2>1, <2>3, <3>1 DEF OrderInv
    <3>2. CASE i = Len(cmds) + 1
      BY <1>0, <2>1, <2>4, <3>2
    <3>. QED
      BY <2>1, <2>2, <3>1, <3>2
  <2>8. \A d \in ran' : d <= Len(accepted')
    BY <2>1, <2>4
  <2>. QED
    BY <2>6, <2>7, <2>8 DEF OrderInv
<1>4. CASE HeadRun
  <2>1. /\ Head(cmds) = cmds[1] /\ 1 \in 1 .. Len(cmds) /\ Len(cmds') = Len(cmds) - 1
        /\ \A i \in 1 .. Len(cmds') : i + 1 \in 1 .. Len(cmds) /\ cmds'[i] = cmds[i + 1] /\ 1 < i + 1
        /\ ran' = ran \cup {cmds[1]} /\ accepted' = accepted
    BY <1>0, <1>4 DEF HeadRun
  <2>2. ASSUME NEW i \in 1 .. Len(cmds'), NEW j \in 1 .. Len(cmds'), i < j
        PROVE  cmds'[i] < cmds'[j]
    <3>1. i + 1 < j + 1
      BY <1>0, <2>1, <2>2
    <3>. QED
      BY <2>1, <3>1 DEF OrderInv
  <2>3. ASSUME NEW i \in 1 .. Len(cmds')
        PROVE  cmds'[i] <= Len(accepted') /\ \A d \in ran' : d < cmds'[i]
    BY <2>1 DEF OrderInv
  <2>4. \A d \in ran' : d <= Len(accepted')
    BY <2>1 DEF OrderInv
  <2>. QED
    BY <2>2, <2>3, <2>4 DEF OrderInv
<1>. QED
  BY <1>1, <1>2, <1>3, <1>4, CommandSteps

\* The queue as a set.
LEMMA PendingSets ==
    ASSUME TypeOK
    PROVE  /\ ToSet(<<>>) = {}
           /\ \A c \in Nat : ToSet(Append(cmds, c)) = ToSet(cmds) \cup {c}
           /\ cmds # <<>> /\ OrderInv => /\ Head(cmds) \in ToSet(cmds)
                                         /\ ToSet(Tail(cmds)) = ToSet(cmds) \ {Head(cmds)}
                                         /\ \A d \in ToSet(cmds) : Head(cmds) <= d
                                         /\ \A d \in ran : d < Head(cmds)
<1>0. /\ cmds \in Seq(Nat) /\ Len(cmds) \in Nat /\ \A i \in 1 .. Len(cmds) : cmds[i] \in Nat
      /\ DOMAIN cmds = 1 .. Len(cmds)
  BY DEF TypeOK
<1>1. ToSet(<<>>) = {}
  BY DEF ToSet
<1>2. ASSUME NEW c \in Nat PROVE ToSet(Append(cmds, c)) = ToSet(cmds) \cup {c}
  <2>1. /\ DOMAIN Append(cmds, c) = 1 .. Len(cmds) + 1 /\ Append(cmds, c)[Len(cmds) + 1] = c
        /\ \A i \in 1 .. Len(cmds) : Append(cmds, c)[i] = cmds[i]
    BY <1>0
  <2>2. /\ \A i \in 1 .. Len(cmds) + 1 : i \in 1 .. Len(cmds) \/ i = Len(cmds) + 1
        /\ \A i \in 1 .. Len(cmds) : i \in 1 .. Len(cmds) + 1
        /\ Len(cmds) + 1 \in 1 .. Len(cmds) + 1
    BY <1>0
  <2>. QED
    BY <1>0, <2>1, <2>2 DEF ToSet
<1>3. ASSUME cmds # <<>>, OrderInv
      PROVE  /\ Head(cmds) \in ToSet(cmds)
             /\ ToSet(Tail(cmds)) = ToSet(cmds) \ {Head(cmds)}
             /\ \A d \in ToSet(cmds) : Head(cmds) <= d
             /\ \A d \in ran : d < Head(cmds)
  <2>1. Head(cmds) = cmds[1] /\ 1 \in 1 .. Len(cmds)
    BY <1>0, <1>3
  <2>2. /\ DOMAIN Tail(cmds) = 1 .. Len(cmds) - 1
        /\ \A i \in 1 .. Len(cmds) - 1 : Tail(cmds)[i] = cmds[i + 1]
    BY <1>0, <1>3
  <2>3. \A j \in 1 .. Len(cmds) : j # 1 => cmds[1] < cmds[j] /\ cmds[j] # cmds[1]
    <3>1. \A j \in 1 .. Len(cmds) : j # 1 => 1 < j
      BY <1>0
    <3>. QED
      BY <1>0, <1>3, <2>1, <3>1 DEF OrderInv
  <2>4. /\ \A i \in 1 .. Len(cmds) - 1 : i + 1 \in 1 .. Len(cmds) /\ i + 1 # 1
        /\ \A j \in 1 .. Len(cmds) : j # 1 => j - 1 \in 1 .. Len(cmds) - 1 /\ (j - 1) + 1 = j
    BY <1>0
  <2>5. ToSet(Tail(cmds)) \subseteq ToSet(cmds) \ {Head(cmds)}
    BY <1>0, <2>1, <2>2, <2>3, <2>4 DEF ToSet
  <2>6. ASSUME NEW d \in ToSet(cmds), d # Head(cmds) PROVE d \in ToSet(Tail(cmds))
    <3>1. PICK j \in 1 .. Len(cmds) : d = cmds[j]
      BY <1>0 DEF ToSet
    <3>2. j - 1 \in DOMAIN Tail(cmds) /\ Tail(cmds)[j - 1] = d
      BY <2>1, <2>2, <2>4, <2>6, <3>1
    <3>. QED
      BY <3>2 DEF ToSet
  <2>7. \A d \in ToSet(cmds) : Head(cmds) <= d
    BY <1>0, <2>1, <2>3 DEF ToSet
  <2>8. \A d \in ran : d < Head(cmds)
    BY <1>3, <2>1 DEF OrderInv
  <2>. QED
    BY <1>0, <2>1, <2>5, <2>6, <2>7, <2>8 DEF ToSet
<1>. QED
  BY <1>1, <1>2, <1>3

LEMMA NextPromise ==
    ASSUME TypeOK, CommandsInv, OrderInv, [Next]_vars
    PROVE  [Promise!Next]_<<link, Len(accepted), ToSet(cmds), ran>>
<1>0. accepted \in Seq(Nat) /\ Len(accepted) \in Nat /\ link \in Nat
  BY DEF TypeOK
<1>1. CASE Left
  BY <1>1 DEF Left
<1>2. CASE Dropped
  <2>1. ToSet(cmds') = {} /\ UNCHANGED <<link, Len(accepted), ran>>
    BY <1>2, PendingSets DEF Dropped
  <2>. QED
    BY <2>1 DEF Promise!Next, Promise!Drop
<1>3. CASE OpenedEmpty
  <2>1. ToSet(cmds) = {} /\ link' = link + 1 /\ UNCHANGED <<Len(accepted), ToSet(cmds), ran>>
    BY <1>3, PendingSets DEF OpenedEmpty
  <2>. QED
    BY <2>1 DEF Promise!Next, Promise!Open
<1>4. CASE PutBehind
  <2>1. /\ Len(accepted') = Len(accepted) + 1
        /\ ToSet(cmds') = ToSet(cmds) \cup {Len(accepted) + 1}
        /\ UNCHANGED <<link, ran>>
    BY <1>0, <1>4, PendingSets DEF PutBehind
  <2>. QED
    BY <2>1 DEF Promise!Next, Promise!Accept
<1>5. CASE HeadRun
  <2>1. /\ Head(cmds) \in ToSet(cmds) /\ ToSet(cmds') = ToSet(cmds) \ {Head(cmds)}
        /\ \A d \in ToSet(cmds) : Head(cmds) <= d
        /\ \A d \in ran : d < Head(cmds)
        /\ ran' = ran \cup {Head(cmds)} /\ UNCHANGED <<link, Len(accepted)>>
    BY <1>5, PendingSets DEF HeadRun
  <2>. QED
    BY <2>1 DEF Promise!Next, Promise!Run
<1>. QED
  BY <1>1, <1>2, <1>3, <1>4, <1>5, CommandSteps

\* The queue of commands stays in the order of acceptance and behind all that
\* was run, however often it is emptied and filled again.
THEOREM HostLinkOrder == Spec => []OrderInv
<1>1. Init => OrderInv
  BY DEF Init, OrderInv
<1>2. TypeOK /\ CommandsInv /\ OrderInv /\ [Next]_vars => OrderInv'
  BY NextInOrder
<1>. QED
  BY <1>1, <1>2, HostLinkType, HostLinkCommands, PTL DEF Spec

\* The link keeps the promise of HostCommands, for queues of any size and any
\* interleaving of the task, the main loop, the page and the host: commands are
\* run in order and once at most, and none outlives its session.
THEOREM HostLinkKeepsCommandPromise == Spec => KeepsCommandPromise
<1>1. Init => Promise!Init
  <2>1. ToSet(<<>>) = {} /\ Len(<<>>) = 0
    BY DEF ToSet
  <2>. QED
    BY <2>1 DEF Init, Promise!Init
<1>2. TypeOK /\ CommandsInv /\ OrderInv /\ [Next]_vars
        => [Promise!Next]_<<link, Len(accepted), ToSet(cmds), ran>>
  BY NextPromise
<1>. QED
  BY <1>1, <1>2, HostLinkType, HostLinkCommands, HostLinkOrder, PTL
     DEF Spec, KeepsCommandPromise, Promise!Spec
=============================================================================
