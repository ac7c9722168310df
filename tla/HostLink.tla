------------------------------ MODULE HostLink ------------------------------
(***************************************************************************)
(* The link to a PC over USB (hostlink_service.cpp, hostlink_session.cpp,  *)
(* hostlink_frame_router.cpp, hostlink_bridge_radio.cpp).  Two tasks meet  *)
(* in it.  The host link task reads frames, answers them, queues events    *)
(* and writes the queue out, one turn every 10 ms.  The main loop runs the *)
(* commands the task accepted and queues the events of the mesh and the    *)
(* team.  They share the session, two queues and the hash of the team      *)
(* state sent last.                                                        *)
(*                                                                         *)
(* Two programs are built from these files.  The Arduino one calls them    *)
(* from its main loop; in the IDF one nobody does, and the task is alone   *)
(* (main is "none").                                                       *)
(*                                                                         *)
(* Time is left out: whether an interval or the handshake's deadline has   *)
(* passed when a turn looks at it is chosen.                               *)
(***************************************************************************)
EXTENDS Naturals, Sequences, SequencesExt

CONSTANTS
    Programs,    \* the programs looked at: "Arduino", "IDF"
    QueueMax,    \* kTxQueueSize and kCmdQueueSize
    ReadMax,     \* frames one read of 128 bytes may complete
    MaxFrames,   \* bound: frames the hosts send
    MaxPlugs,    \* bound: times the line is opened by a host
    MaxNews,     \* bound: events of the team and the mesh
    MaxStarts    \* bound: times the PC link page is entered

ASSUME HostLinkAssumption ==
    /\ Programs \subseteq {"Arduino", "IDF"}
    /\ QueueMax \in Nat /\ QueueMax >= 2
    /\ ReadMax \in Nat
    /\ MaxFrames \in Nat /\ MaxPlugs \in Nat
    /\ MaxNews \in Nat /\ MaxStarts \in Nat

VARIABLES
    session,   \* s_session.status.state
    tx,        \* s_tx_queue
    cmds,      \* s_cmd_queue: the numbers of the commands in it
    task,      \* where the host link task is, "none" when there is none
    frames,    \* the whole frames in s_decoder
    copy,      \* the team state on_link_ready loaded
    main,      \* where the main loop is in a call into the host link, "none"
               \* in the program that has no such call
    hash,      \* s_team_state_hash, 0 for none
    team,      \* the version of the team state in the snapshot store
    plugged,   \* a host holds the line open
    inbox,     \* frames in the receive buffer of the USB driver
    host,      \* what the host at the line was answered and told
    link,      \* history: sessions opened by a HELLO
    greeting,  \* history: the first two events written in this session
    accepted,  \* history: the session in which each command was accepted
    ran,       \* history: the commands the main loop has run
    spent      \* what is used up of each bound

deviceVars == <<session, tx, cmds, task, frames, copy, main, hash>>
hostVars == <<plugged, inbox, host>>
history == <<link, greeting, accepted, ran>>
vars == <<deviceVars, team, hostVars, history, spent>>

Sessions == {"Stopped", "Waiting", "Handshaking", "Ready"}
Frames == {"HELLO", "TX", "GET_CONFIG", "GET_GPS", "OTHER"}
Kinds == {"STATUS", "CONFIG", "GPS", "TEAM_STATE", "NEWS", "TX_RESULT"}
Events == [kind : Kinds, team : Nat]
Hosts == [opened : BOOLEAN, team : Nat]
Budgets == [frames : Nat, plugs : Nat, news : Nat, starts : Nat]

Event(kind) == [kind |-> kind, team |-> 0]
TeamState(version) == [kind |-> "TEAM_STATE", team |-> version]
NoHost == [opened |-> FALSE, team |-> 0]

Ready == session = "Ready"
Between == main \in {"idle", "none"}

\* Mutant of Queued: the length of the queue is off by one.
QueuedOneMore(queue, event) ==
    IF Ready /\ Len(queue) <= QueueMax THEN Append(queue, event) ELSE queue

\* enqueue_event of a low priority event: dropped when the link is not ready
\* or the queue is full.
Queued(queue, event) ==
    IF Ready /\ Len(queue) < QueueMax THEN Append(queue, event) ELSE queue

\* send_raw: what is written with no host at the line is lost.
Told(answer) == IF plugged THEN answer ELSE host

-----------------------------------------------------------------------------
(* The host link task: start(), the loop of hostlink_task, stop().         *)

Start ==
    /\ task = "none" /\ Between
    /\ spent.starts < MaxStarts
    /\ task' = "boot"
    /\ spent' = [spent EXCEPT !.starts = @ + 1]
    /\ UNCHANGED <<session, tx, cmds, frames, copy, main, hash, team, hostVars,
                   history>>

Boot ==
    /\ task = "boot"
    /\ task' = "poll"
    /\ session' = "Waiting"
    /\ frames' = <<>>
    /\ UNCHANGED <<tx, cmds, copy, main, hash, team, hostVars, history, spent>>

\* The display deletes the task wherever it is.  The driver keeps what it has
\* received if another part of the program installed it.
Stop ==
    /\ task # "none" /\ Between
    /\ task' = "none"
    /\ session' = "Stopped"
    /\ tx' = <<>> /\ cmds' = <<>>
    /\ inbox' \in {inbox, <<>>}
    /\ UNCHANGED <<frames, copy, main, hash, team, plugged, host, history, spent>>

\* Mutant of PollLost: the commands are kept.
PollLostKeeps ==
    /\ task = "poll" /\ ~plugged
    /\ session' = "Waiting"
    /\ task' = "read"
    /\ UNCHANGED <<tx, cmds, frames, copy, main, hash, team, hostVars, history,
                   spent>>

\* With no host the session waits, the commands are dropped, and so is a frame
\* of which only a part has arrived.
PollLost ==
    /\ task = "poll" /\ ~plugged
    /\ session' = "Waiting"
    /\ cmds' = <<>>
    /\ \E part \in 0 .. (IF inbox = <<>> THEN 0 ELSE 1) :
          inbox' = SubSeq(inbox, part + 1, Len(inbox))
    /\ task' = "read"
    /\ UNCHANGED <<tx, frames, copy, main, hash, team, plugged, host, history,
                   spent>>

PollConnected ==
    /\ task = "poll" /\ plugged
    /\ session' = IF session = "Waiting" THEN "Handshaking" ELSE session
    /\ task' = "read"
    /\ UNCHANGED <<tx, cmds, frames, copy, main, hash, team, hostVars, history,
                   spent>>

Read ==
    /\ task = "read"
    /\ LET n == IF Len(inbox) < ReadMax THEN Len(inbox) ELSE ReadMax
       IN  /\ frames' = SubSeq(inbox, 1, n)
           /\ inbox' = SubSeq(inbox, n + 1, Len(inbox))
    /\ task' = "frames"
    /\ UNCHANGED <<session, tx, cmds, copy, main, hash, team, plugged, host,
                   history, spent>>

Receive(frame) ==
    /\ task = "frames" /\ frames # <<>> /\ Head(frames) = frame
    /\ frames' = Tail(frames)

\* CompleteHello: the answer goes out before the session is ready; the two
\* events of the greeting are queued after.
HandleHello ==
    /\ Receive("HELLO")
    /\ host' = Told([host EXCEPT !.opened = TRUE])
    /\ session' = "Ready"
    /\ IF Ready THEN UNCHANGED <<link, greeting>>
                ELSE link' = link + 1 /\ greeting' = <<>>
    /\ task' = "greet"
    /\ UNCHANGED <<tx, cmds, copy, main, hash, team, plugged, inbox, accepted,
                   ran, spent>>

\* Mutant of Greet: the status is queued before the session is ready, and so
\* not at all.
GreetTooEarly ==
    /\ task = "greet"
    /\ task' = "load"
    /\ UNCHANGED <<session, tx, cmds, frames, copy, main, hash, team, hostVars,
                   history, spent>>

Greet ==
    /\ task = "greet"
    /\ tx' = Queued(tx, Event("CONFIG"))
    /\ task' = "load"
    /\ UNCHANGED <<session, cmds, frames, copy, main, hash, team, hostVars,
                   history, spent>>

\* on_link_ready: maybe_send_team_state(true) in three steps, between which
\* the main loop may do the same.
LoadTeam ==
    /\ task = "load"
    /\ copy' = team
    /\ task' = "mark"
    /\ UNCHANGED <<session, tx, cmds, frames, main, hash, team, hostVars,
                   history, spent>>

MarkTeam ==
    /\ task = "mark"
    /\ hash' = copy
    /\ task' = "push"
    /\ UNCHANGED <<session, tx, cmds, frames, copy, main, team, hostVars,
                   history, spent>>

PushTeam ==
    /\ task = "push"
    /\ tx' = Queued(tx, TeamState(copy))
    /\ task' = "frames"
    /\ UNCHANGED <<session, cmds, frames, copy, main, hash, team, hostVars,
                   history, spent>>

\* CMD_TX_MSG and CMD_TX_APP_DATA: accepted (ACK OK) when there is room.
HandleTx ==
    /\ Receive("TX") /\ Ready
    /\ IF Len(cmds) < QueueMax
         THEN /\ accepted' = Append(accepted, link)
              /\ cmds' = Append(cmds, Len(accepted) + 1)
         ELSE UNCHANGED <<accepted, cmds>>
    /\ UNCHANGED <<session, tx, task, copy, main, hash, team, hostVars, link,
                   greeting, ran, spent>>

\* CMD_GET_CONFIG, and a CMD_SET_CONFIG that was applied: whether the event
\* was queued is not looked at, the answer is ACK OK.
HandleConfig ==
    /\ Receive("GET_CONFIG") /\ Ready
    /\ tx' = Queued(tx, Event("CONFIG"))
    /\ UNCHANGED <<session, cmds, task, copy, main, hash, team, hostVars,
                   history, spent>>

\* CMD_GET_GPS: the answer is ACK BUSY when the event was not queued.
HandleGps ==
    /\ Receive("GET_GPS") /\ Ready
    /\ tx' = Queued(tx, Event("GPS"))
    /\ UNCHANGED <<session, cmds, task, copy, main, hash, team, hostVars,
                   history, spent>>

\* Frames that are answered and change nothing here: before the HELLO, not
\* supported or malformed, a refused configuration, the clock.
HandleOther ==
    /\ task = "frames" /\ frames # <<>> /\ Head(frames) # "HELLO"
    /\ ~Ready \/ Head(frames) = "OTHER"
    /\ frames' = Tail(frames)
    /\ UNCHANGED <<session, tx, cmds, task, copy, main, hash, team, hostVars,
                   history, spent>>

\* After the frames: the handshake's deadline, then the periodic status and
\* position.  A handshake that expires starts anew in the next turn.
Timers ==
    /\ task = "frames" /\ frames = <<>>
    /\ \E expired, status, gps \in BOOLEAN :
          /\ expired => session = "Handshaking"
          /\ status \/ gps => Ready
          /\ session' = IF expired THEN "Waiting" ELSE session
          /\ LET one == IF status THEN Queued(tx, Event("STATUS")) ELSE tx
             IN  tx' = IF gps THEN Queued(one, Event("GPS")) ELSE one
    /\ task' = "drain"
    /\ UNCHANGED <<cmds, frames, copy, main, hash, team, hostVars, history,
                   spent>>

\* One pass of the loop that writes the queue to the line.
Drain ==
    /\ task = "drain" /\ Ready /\ tx # <<>>
    /\ LET event == Head(tx)
       IN  /\ host' = IF event.kind = "TEAM_STATE"
                         THEN Told([host EXCEPT !.team = event.team])
                         ELSE host
           /\ greeting' = IF Len(greeting) < 2 THEN Append(greeting, event.kind)
                                               ELSE greeting
    /\ tx' = Tail(tx)
    /\ UNCHANGED <<session, cmds, task, frames, copy, main, hash, team, plugged,
                   inbox, link, accepted, ran, spent>>

EndTurn ==
    /\ task = "drain" /\ (~Ready \/ tx = <<>>)
    /\ task' = "poll"
    /\ UNCHANGED <<session, tx, cmds, frames, copy, main, hash, team, hostVars,
                   history, spent>>

HandleFrame ==
    \/ HandleHello \/ HandleTx \/ HandleConfig \/ HandleGps \/ HandleOther

Task ==
    \/ Boot \/ PollLost \/ PollConnected \/ Read
    \/ HandleFrame \/ Greet \/ LoadTeam \/ MarkTeam \/ PushTeam
    \/ Timers \/ Drain \/ EndTurn

-----------------------------------------------------------------------------
(* The main loop of the Arduino program.                                   *)

\* process_pending_commands looks at the session once, then empties the queue
\* or runs what is in it.
ServeBegin ==
    /\ main = "idle" /\ task # "none"
    /\ main' = IF Ready THEN "serve" ELSE "discard"
    /\ UNCHANGED <<session, tx, cmds, task, frames, copy, hash, team, hostVars,
                   history, spent>>

Discard ==
    /\ main = "discard"
    /\ cmds' = <<>>
    /\ main' = "idle"
    /\ UNCHANGED <<session, tx, task, frames, copy, hash, team, hostVars,
                   history, spent>>

\* Mutant of Serve: the command accepted last is run first.
ServeNewest ==
    /\ main = "serve" /\ cmds # <<>>
    /\ cmds' = Front(cmds)
    /\ ran' = ran \union {Last(cmds)}
    /\ UNCHANGED <<session, tx, task, frames, copy, main, hash, team, hostVars,
                   link, greeting, accepted, spent>>

\* Mutant of Serve: the command that is run stays in the queue.
ServeLooksOnly ==
    /\ main = "serve" /\ cmds # <<>>
    /\ ran' = ran \union {Head(cmds)}
    /\ main' = "idle"
    /\ UNCHANGED <<session, tx, cmds, task, frames, copy, hash, team, hostVars,
                   link, greeting, accepted, spent>>

Serve ==
    /\ main = "serve" /\ cmds # <<>>
    /\ cmds' = Tail(cmds)
    /\ ran' = ran \union {Head(cmds)}
    /\ UNCHANGED <<session, tx, task, frames, copy, main, hash, team, hostVars,
                   link, greeting, accepted, spent>>

ServeEnd ==
    /\ main = "serve" /\ cmds = <<>>
    /\ main' = "idle"
    /\ UNCHANGED <<session, tx, cmds, task, frames, copy, hash, team, hostVars,
                   history, spent>>

\* A team event: the page saves the team; then on_team_state_changed.  In the
\* IDF program the team changes and the host link is not told.
ChangeTeam ==
    /\ Between
    /\ spent.news < MaxNews
    /\ team' = team + 1
    /\ main' = IF main = "idle" THEN "tell" ELSE "none"
    /\ spent' = [spent EXCEPT !.news = @ + 1]
    /\ UNCHANGED <<session, tx, cmds, task, frames, copy, hash, hostVars, history>>

\* maybe_send_team_state(false): the hash is set before the event is queued.
TellTeam ==
    /\ main = "tell"
    /\ IF Ready /\ hash # team
         THEN hash' = team /\ main' = "push"
         ELSE main' = "idle" /\ UNCHANGED hash
    /\ UNCHANGED <<session, tx, cmds, task, frames, copy, team, hostVars,
                   history, spent>>

PushTold ==
    /\ main = "push"
    /\ tx' = Queued(tx, TeamState(team))
    /\ main' = "idle"
    /\ UNCHANGED <<session, cmds, task, frames, copy, hash, team, hostVars,
                   history, spent>>

\* on_event: a received message, application data or a team frame.
RelayNews ==
    /\ main = "idle" /\ Ready
    /\ spent.news < MaxNews
    /\ tx' = Queued(tx, Event("NEWS"))
    /\ spent' = [spent EXCEPT !.news = @ + 1]
    /\ UNCHANGED <<session, cmds, task, frames, copy, main, hash, team, hostVars,
                   history>>

\* on_event: a send result has high priority and displaces the oldest event.
RelayResult ==
    /\ main = "idle" /\ Ready
    /\ spent.news < MaxNews
    /\ IF Len(tx) < QueueMax
         THEN tx' = Append(tx, Event("TX_RESULT")) /\ UNCHANGED main
         ELSE main' = "evict" /\ UNCHANGED tx
    /\ spent' = [spent EXCEPT !.news = @ + 1]
    /\ UNCHANGED <<session, cmds, task, frames, copy, hash, team, hostVars,
                   history>>

Evict ==
    /\ main = "evict"
    /\ IF tx = <<>> THEN main' = "idle" /\ UNCHANGED tx
                    ELSE main' = "retry" /\ tx' = Tail(tx)
    /\ UNCHANGED <<session, cmds, task, frames, copy, hash, team, hostVars,
                   history, spent>>

Retry ==
    /\ main = "retry"
    /\ tx' = IF Len(tx) < QueueMax THEN Append(tx, Event("TX_RESULT")) ELSE tx
    /\ main' = "idle"
    /\ UNCHANGED <<session, cmds, task, frames, copy, hash, team, hostVars,
                   history, spent>>

\* What the main loop does of itself; events come when they come.
Main ==
    \/ ServeBegin \/ Discard \/ Serve \/ ServeEnd
    \/ TellTeam \/ PushTold \/ Evict \/ Retry

-----------------------------------------------------------------------------
(* The host.                                                               *)

Plug ==
    /\ ~plugged
    /\ spent.plugs < MaxPlugs
    /\ plugged' = TRUE
    /\ host' = NoHost
    /\ spent' = [spent EXCEPT !.plugs = @ + 1]
    /\ UNCHANGED <<deviceVars, team, inbox, history>>

\* The driver may keep or lose what it has received.
Unplug ==
    /\ plugged
    /\ plugged' = FALSE
    /\ inbox' \in {inbox, <<>>}
    /\ UNCHANGED <<deviceVars, team, host, history, spent>>

Send(frame) ==
    /\ plugged /\ task \notin {"none", "boot"}
    /\ spent.frames < MaxFrames
    /\ inbox' = Append(inbox, frame)
    /\ spent' = [spent EXCEPT !.frames = @ + 1]
    /\ UNCHANGED <<deviceVars, team, plugged, host, history>>

-----------------------------------------------------------------------------
Init ==
    /\ session = "Stopped"
    /\ tx = <<>> /\ cmds = <<>>
    /\ task = "none" /\ frames = <<>> /\ copy = 0
    /\ \E program \in Programs :
          main = IF program = "Arduino" THEN "idle" ELSE "none"
    /\ hash = 0
    /\ team = 1
    /\ plugged = FALSE /\ inbox = <<>> /\ host = NoHost
    /\ link = 0 /\ greeting = <<>> /\ accepted = <<>> /\ ran = {}
    /\ spent = [frames |-> 0, plugs |-> 0, news |-> 0, starts |-> 0]

Next ==
    \/ Start \/ Stop \/ Task
    \/ Main \/ ChangeTeam \/ RelayNews \/ RelayResult
    \/ Plug \/ Unplug \/ \E frame \in Frames : Send(frame)

Spec == Init /\ [][Next]_vars

\* Both tasks run for ever: the host link task sleeps 10 ms between its turns,
\* the main loop comes round; the host owes nothing.
FairSpec == Spec /\ WF_vars(Task) /\ WF_vars(Main)

-----------------------------------------------------------------------------
(* Properties.                                                             *)

\* Types and bounds of the two queues, of the parts of a turn and of the
\* histories.
TypeOK ==
    /\ session \in Sessions
    /\ tx \in Seq(Events) /\ Len(tx) <= QueueMax
    /\ cmds \in Seq(Nat) /\ Len(cmds) <= QueueMax
    /\ task \in {"none", "boot", "poll", "read", "frames", "greet", "load",
                 "mark", "push", "drain"}
    /\ frames \in Seq(Frames) /\ inbox \in Seq(Frames)
    /\ copy \in Nat /\ hash \in Nat /\ team \in Nat /\ link \in Nat
    /\ main \in {"none", "idle", "serve", "discard", "tell", "push", "evict",
                 "retry"}
    /\ plugged \in BOOLEAN
    /\ host \in Hosts
    /\ greeting \in Seq(Kinds) /\ Len(greeting) <= 2
    /\ accepted \in Seq(Nat)
    /\ ran \subseteq Nat
    /\ spent \in Budgets

\* A command is run in the session it was accepted in, never in one that a later
\* HELLO opens: the main loop may be anywhere when a host goes, and need not come
\* round before the next HELLO.  (A host replaced between two looks of the task
\* at the line goes unnoticed, and its session goes on.)
CommandsOfThisLink ==
    [][\A c \in ran' \ ran : c \in DOMAIN accepted /\ accepted[c] = link]_vars

\* The promise of HostCommands, seen through the sessions opened, the commands
\* accepted, those in the queue and those run: whatever the task, the main loop
\* and the page do to the queue between two looks at the session, commands are
\* run in order and each once at most, and no session opens on a command of an
\* earlier one.
Promise == INSTANCE HostCommands
             WITH opened <- link, last <- Len(accepted), pending <- ToSet(cmds), done <- ran

KeepsCommandPromise == Promise!Spec

\* In the program whose task is alone the greeting comes first and in order:
\* nothing an earlier session left behind, no periodic event and no event of a
\* command in the same read is written before the configuration and the team
\* state that answer the HELLO, and neither of the two is dropped.
GreetingInOrder ==
    main = "none" => IsPrefix(greeting, <<"CONFIG", "TEAM_STATE">>)

\* Where the main loop serves the link no command stays in the queue: a host
\* that is told BUSY is not told so for ever.
CommandsLeave ==
    \A c \in 1 .. MaxFrames :
        main # "none" /\ c \in ToSet(cmds) ~> c \notin ToSet(cmds)

\* The end of a turn at which the host has read all the device has for it.
Quiet ==
    /\ task = "poll" /\ main = "idle"
    /\ Ready /\ plugged /\ host.opened
    /\ tx = <<>> /\ inbox = <<>>

\* EV_TEAM_STATE is "sent when the link becomes READY and whenever team events
\* update state", and is "the authoritative team snapshot".
HostKnowsTeamState == Quiet => host.team = team
=============================================================================
