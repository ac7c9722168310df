# TLA+ models of trail-mate

trail-mate is the firmware (and a Linux build) of a hand-held LoRa messenger:
chat over the Meshtastic, MeshCore and LXMF protocols, teams that share
positions and messages under a team key, GPS, a phone API, a host link and a
walkie-talkie. This directory holds TLA+ models of its own core logic, the TLC
configurations that check them on small instances, and proofs for every size of
instance. The models follow the ESP-IDF build of the T-Display P4; paths below
are relative to the repository.

Three subsystems are here. **Team**: how devices pair into a team over the radio,
and how a device's page, keys, flash record and event bus follow from that.
**Chat**: how text messages get from the radio into the store and from the
compose screen to the verdict on what was sent, with the packet ids and the
packet filter they rest on. **Host link**: how a PC at the USB line gets its
commands run and hears what happens. `PROJECT.json` lists every component, run,
mutant, mapped definition, finding, hazard and theorem.

## The system

### Modelled

| Component | State | Operations | Talks to |
|---|---|---|---|
| pairing coordinator (`modules/core_team/src/usecase/team_pairing_coordinator.cpp`) | role, state, team, key, nonce, leader, deadline, retry count | startLeader, startMember, stop, handleIncomingPacket, update | its service (calls), the radio (packets), the event sink (callbacks) |
| pairing service (`team_pairing_service_espnow.cpp`, `idf_lora_pairing_service.cpp`) | a coordinator, a transport that is up or down, a buffer of one packet | the same calls, and a receive callback from another task | transport, main loop |
| team page (`modules/ui_shared/src/ui/screens/team/`) | in a team or not, leader or not, team id, key, member list, pairing state, screen, scheduled roster broadcasts | create, join, invite, retry, cancel, leave, transfer, back, open, close; one reducer per event | pairing service and team service (calls), event bus, flash |
| team service (`team_service.cpp`) | the team's keys | setKeysFromPsk, clearKeys, sendStatus, sendStatusPlain, sendTransferLeader, processIncoming | mesh adapter, event bus |
| chat facade and event bus (`idf_chat_facade.cpp`, `sys/event_bus.h`) | a bounded queue of events | the pump of the main loop, routeTeamEvent, heartbeat, system tick, restoring keys at boot | everything above |
| packet ids (`persistent_packet_ids.cpp`, `persistent_packet_id_allocator.h`) | a record on flash (next id, keys older than the counter), the block of ids in use | boot, allocation, configuration of keys | radio adapter, flash |
| Meshtastic radio adapter (`platform/esp/radio/meshtastic_radio_adapter.cpp`) | configured keys, packet filter | processReceivedPacket, sendEncodedPayload, applyConfig | packet ids, event bus, chat service |
| duplicate suppression (`mt_dedup.cpp`) | the packets seen, with their age | isDuplicate, markSeen, cleanup | radio adapter |
| chat service, model and store (`modules/core_chat/src/`) | two logs of messages with unread counts, the texts taken in last | send, result, incoming, read, clear, model on and off | adapter, event bus, page |
| chat page and its event pump (`ui/screens/chat/`, `ui_chat_runtime`) | screen, conversation, the send it is in | open, close, conversation, compose, back, send; events of the bus | chat service, display lock |
| chat delivery (`core_chat/src/delivery/`, `chat_delivery_event_projection_adapter.cpp`) | what became of the last sends, for the screen | one record per result | chat page |
| host link (`modules/core_hostlink/`, `platform/esp/arduino_common/src/hostlink/`) | link state, a queue of events, a queue of commands, the hash of the team state sent last | start and stop with the page, the turn of its task, one handler per frame, process_pending_commands, on_event, on_team_state_changed | USB driver, main loop (two queues), team record, event bus |
| team record on flash (`idf_nvs_team_ui_snapshot_store.cpp`, `platform_ui_team_ui_store_runtime.cpp`) | team id, key, in-team and leader flags | load, save, erase, saveKeysNow | team page, boot |

What makes them hard, and the properties that answer to it:

* The radio loses, repeats, delays and reorders. A member answers beacons of
  any leader, asks again, and starts over with every beacon; keys may answer an
  earlier question. *What it ends with must be one session, whole, of the
  leader it names, and not older than the beacon it answered*
  (`KeyOfNamedLeader`, `OneKeyPerRound`, `NoKeyFromBeforeTheBeacon`,
  `KeepsPromise`).
* Nobody is there at the other end, or somebody who never stops sending: *every
  session ends* (`SessionEnds`)*, no packet prolongs it* (`DeadlineStands`)*, it
  is not given up early* (`MemberScansItsWindow`)*, and the user gets off the
  pairing screen* (`PairingScreenEnds`); a session has its transport up as long
  as it runs, and takes no packet of an earlier one (`TransportFollowsSession`).
* Two tasks of a device, the main loop and the display task, meet in the page
  under a lock that one of them may fail to get; events are queued between
  them, put back, handled late, out of order, or dropped from a full queue.
  *The key is the same in the page, the team service and on flash*
  (`OneKeyInDevice`), *no two keys ever mix, whatever ids the teams have*
  (`NeverTwoKeys`, `KeyInv`)*, and nobody is taken into a team unasked, but by
  an event of before the user took it back* (`NobodyJoinsUnasked`; that there
  are such events is a finding).
* Restarts, one of them between the two flash writes of a key distribution (the
  same properties, and `KeepsTeamPromise`: *a key once given stays until the
  user leaves*).
* Deadlines in a millisecond clock of 32 bits (`MemberScansItsWindow` fails
  when the clock wraps, a finding).

Of chat:

* Two tasks share the chat service without a lock. The result of a send is on
  the bus before the send is recorded, the loop may take it at any point of the
  recording, and it is matched by message id alone. *A stored message is queued
  only while its result is still to come* (`QueuedHasReason`)*, and then it
  comes* (`ResultsArrive`); *a verdict is final* (`VerdictKept`); *model, store
  and screen tell the same* (`SameVerdict`, `ShownVerdict`)*; a result never
  touches a received message of the store* (`ReceivedStaysReceived`).
* The mesh repeats packets, the filter forgets them, and the service remembers
  texts for less than the store may hold others: *within the time-out a packet
  passes once* (`PassedOnce`) *and no text is stored twice* (`StoredOnce`).
* A full log drops its oldest message: *unread counts stay right, but for what
  the code is known to miscount* (`UnreadCounts`).
* Restarts, storage errors and a lost flash record around the reservation of
  packet ids, which are the nonces of private keys: *no id twice with one key*
  (`NonceOnce`), in the composition too (`IdSpec`).

Of the host link:

* Its task and the main loop share session, queues and the hash of the team
  state without a lock, and the host may go and come back, or pipeline frames,
  at any point. *A command is run in the session it came in*
  (`CommandsOfThisLink`)*, in order and once* (`KeepsCommandPromise`)*, and
  leaves the queue* (`CommandsLeave`); *a session
  begins with the configuration and the team, whatever an earlier one left
  behind* (`GreetingInOrder`). That accepted commands are run, requests
  answered and the team state up to date are findings.

### Not modelled

| Component | Why not, and what it would take |
|---|---|
| mesh session, direct messages, identities, the dedup ring (`modules/core_mesh/`) | Used by the shells of the Arduino, Linux and nRF52 programs, not by this build; they would need models of those shells. |
| mesh adapter router (`mesh_adapter_router_core.cpp`) | The Arduino and nRF52 programs switch protocols with it; this build does not contain it. |
| key requests, kick (`team_service.cpp`, team page) | This build refuses both whenever they are asked for (`team_page_kick_confirm_action.cpp:48`, `team_page_request_keys_action.cpp`), and the service ignores a key request that arrives. A kick from older firmware is still obeyed by the page; that is left out. |
| the member list of the team service (`team_service.cpp:1053`) | It decides which nodes a frame is sent to, one by one. In `TeamMembership` a frame reaches any subset of the devices, which covers every list. |
| passphrase pairing (`idf_lora_pairing_service.cpp`) | Nothing in the program calls `setTeamPairingPassphrase` (`idf_chat_facade.cpp:524`), so the mode is never entered. |

Of modelled components, what has no caller in the program is left out:
`resendFailed`, `clearConversation`, explicit packet ids, acknowledgement
time-outs, and cancel, clear and retry of deliveries. `failed_messages_` is
written and never read. A packet that cannot be built after its id was handed
out is, for the ids, another packet (`OtherPacket`).

Protocol codecs and cryptography work on bytes and are tested with vectors. GPS
filtering and time keeping are numeric. The phone protocols are stubs in this
build. Walkie-talkie, C6 companion and radio ownership are I/O around registers
and serial ports; that an exclusive radio mode stops the pump is, in the
models, a loop that takes no step. Contacts and names only label node ids. The
product composition is constant tables. The application shells, the 128x64
screen, the GTK program, boards and vendored code hold no logic of this kind.

## The modules

```
PairingCoordinator      one coordinator: its calls as functions of a record
  TeamPairing           devices with services, and the radio between them
    PairingPromise      what pairing promises (INSTANCE ... WITH)
    MCTeamPairing       instances for TLC
    PairingCoordinatorProofs, TeamPairingProofs
TeamPage                one page: commands and events as functions of a record
  TeamMembership        devices: page, keys, flash, bus, pairing; radio between
    TeamPromise         what a team promises its user (INSTANCE ... WITH)
    MCTeamMembership    instances for TLC
    TeamPageProofs, TeamMembershipProofs
PacketIds               the counter on flash, the allocator, the keys
ChatLog                 one log of messages, as functions of a record
MtDedup                 the packet filter, as functions of a cache
  ChatDelivery          the three with bus, service, page and both tasks
    MCChatDelivery      an instance for TLC
    PacketIdsProofs, ChatLogProofs, ChatDeliveryProofs
HostLink                the task, the main loop, the host
  HostCommands          what the link promises of commands (INSTANCE ... WITH)
  MCHostLink            instances for TLC
  HostLinkProofs
```

**PairingCoordinator** is `TeamPairingCoordinator`. A coordinator is a record
with the fields of the class; every call returns the new record, the packets it
sent and the events it published, in order. `ok` says whether the radio took
what the call sent. Packets are records with the fields of
`team_pairing_wire.cpp`, together with source and destination, the MAC
addresses. Random numbers are counters, since a member only compares its nonce
with the ones it drew before; the MAC address of a device is its node id.

**TeamPairing** puts a coordinator into a service (`co`, `ready`, `slot`) on
every device. `net` keeps every packet ever sent: to deliver is to copy one
into a buffer, so a packet may come late, again, or never. `KeepFirst` chooses
what a full buffer does: ESP-NOW drops the new packet, LoRa overwrites the old
one. `UpdateService` is one turn of the main loop: buffered packet, `update()`,
teardown. `opened`, `adopted` and `known` are histories that only the
properties read.

**PairingPromise** is the abstract specification: roles, sessions opened,
grants held.

**TeamPage** is the page's state and its reducers, the two `reduce...` classes,
the flow controller and the record on flash. The list of members holds rows;
`Self` is the row with node id 0, which is the device itself, while rosters on
the air hold node ids; the difference matters for a bug named under *Findings*.
Unencrypted frames carry no team id; the code leaves sixteen zero bytes in
their context, and the page compares them: that is `ZeroTeam`.

**TeamMembership** composes devices. `page`, `view`, `due` are the page, `svc`
the keys of the team service, `store` the flash record, `bus` the queue of
events, `pair` the pairing service reduced to what it tells the page (what
`TeamPairing` models in detail: a member hears a beacon, a join is answered,
the key arrives, the deadline passes). Every command is one action with
everything its handler does: reducer, calls into services, saving the page,
choice of screen. A start of the pairing service may be refused, if its radio
does not come up: the page is saved all the same. `HandleEvent` is `team_page_handle_event()`: reducer, effects
(keys to flash and to the service, roster to the air), saving, and for an open
page the refresh that reads flash and pairing service back. Team ids and keys
are numbers by creation.

The two tasks of a device are the actions of the service, the radio and
`HandleEvent` on one side and the commands on the other. The main loop takes
the display lock anew for every event, so a command may come at any moment, also
between an event's publication and its handling; and when the loop does not get
the lock in time, `Requeue` puts the event behind the others, as
`routeTeamEvent` does. Two histories keep what the user wants: `wants`, set by
the commands that ask for a team and taken back by a cancel outside a team and
by leaving; and `late`, the events that were on the bus when it was taken back.
What one call of the page does to the pairing service is one step, here and in
`TeamPairing`: a stop in the very middle of a turn of that service is a data
race inside one object and is not modelled.

**TeamPromise** is the abstract specification of the two: who asks to be in a
team, the key each device holds, the teams founded. Every command, event, frame
and restart is `Ask`, `Found`, `Admit`, `GiveUp`, `Forget`, `Lapse` or nothing at all,
with the key of the team service as the key held. `Admit` needs a user who asks,
or one who has stopped asking while a key waited on the bus (`belated`); such
keys are used up or lost, and no new one comes (`Dwindle`). `Forget` stands for
the one case in which a device loses its key unasked, a team with the zero id.

What these modules leave out, and why nothing here depends on it: the key id
is 1 throughout, as rotation and distribution over the team channel are
disabled in this build (`team_service.cpp:427`); messages to the user, names,
colours, times last seen; the key event log, which nothing reads back into the
page; kick and the kicked-out page, and `waiting_new_keys`, which only a key id
other than 1 changes. `Back` without a team stands for the navigation stack of
a page opened from the status screen. `Close` loads the page from the record at
once, the code when the next event or screen needs it; nothing changes the
record in between. A flash write succeeds and is atomic.

**PacketIds** is a specification of its own (`IdSpec`). `flash` is the record:
a counter and the list of keys that were in use before there was a counter,
which are refused for good. `ram` is the allocator: it reserves `Block` ids on
flash before it hands out the first. A storage error is a write that got
through or did not; `Erase` is a flash that lost the record. The histories
`spent`, `air` and `reused` say which keys and ids went out together. Keys
from before a lost record that come back into the configuration are excluded
(`docs/audits/2026-09-07-enterprise/NONCE-MIGRATION.md` asks for new ones).

**ChatLog** is what model and store have in common, a set of numbered messages
with unread counts, and what they do differently: `OnSendResult` of the model
takes the first message with the id, whoever it is from,
`UpdateMessageStatus` of the store all of our own. A message carries a history,
`fresh`, it came in since its conversation was read, and a log the
conversations whose count eviction has lowered for a read message
(`miscounted`).

**MtDedup** is the packet filter: a map from packets to their age, swept when
it is used and `CleanupEvery` has passed, and its smallest key dropped when it
is full.

**ChatDelivery** puts them together. The chat service has no lock, so what it
does is cut between its calls. A text from the radio is
three steps of the main loop: `Hear` (filter, decryption, acknowledgement,
duplicate check, and the text is remembered), `KeepInModel`, `KeepInStore`. A
result is two, `Take` (off the bus, and into the model) and `StoreResult`; then
the event is fed to the page with the display lock (`Feed`), or put back without
it (`GiveBack`). A send is four steps of the display task, `Transmit`,
`RecordInModel`, `RecordInStore`, `ShowSent`, and to clear all messages is
three, `ClearModel`, `ClearStore`, `ClearRecent`. `hand` is what the loop is in
the middle of, `sending` what the display task is. `shown` is what the page
records of its sends, at most `ShownMax`.

What is still one step, and what that leaves out. One call on one log: a data
race inside a container has no outcome the source defines. The duplicate check
with the remembering that follows: both are on `recent`, and a clear between them
is as one before them. A failed send's record with its result in the model: the
record says failed already. The model's half of a read with the store's: nothing reads
the model's counts. The test of `model_enabled_` with the call it guards: what the
loop can slip past it is no more than a received text in a model that is switched
off. The store's append with the publication, and the removal of a result from the
bus with the model's half of it: a step of the display task touches the bus or a
log, never both, so it goes before or after the pair, unless a whole send that
began on the bus falls between the two halves; what is lost then is an order of
two events of different messages, or of a result and the record of another
message, which no property tells apart.

Two things the code does are in the model as they are. The page is looked up
before the lock is taken and used after it; closed in between, it is called
through a null pointer, and the device restarts (`FeedGone`). A text that comes
in on a full bus waits for a place without a time-out, in the only task that
makes places (`stuck`).

The histories, read by properties only: `passed` and `crowded` (the filter),
`fresh` and `miscounted` (the logs), `lost` (sends whose result found no
message or no room), `astray` (results the model took before it had the
message, or gave to a received one), `forgotten` (the texts that were in the
store, or on their way into it, when the memory of texts was cleared).

**HostLink** is both programs that contain these files; which one runs is
chosen at the start. The Arduino one calls the host link from its main loop, the
IDF one leaves the task alone (`main` is "none"). A turn of the task is `PollLost` or `PollConnected`, `Read`, one action
per frame, `Timers`, `Drain` for every event, `EndTurn`; the main loop may come
in between any two. What one call does to one queue is one step. Three calls
are cut further, where the other task can do harm:
`maybe_send_team_state` into load, mark and push, `process_pending_commands`
into the look at the session and what follows, `enqueue_event` of a send result
into the attempt, the eviction and the second attempt. The test of the session in
`enqueue_event` and the write to the queue are one step (`Queued`): an event
that slips in after the session has ended is met by the model too, as one that
was queued just before. The line may be lost within a
frame, which then is dropped with the decoder (`PollLost`), and bytes may
outlive the host or the page in the driver. The Arduino program draws in its
main loop, so `Stop` comes between two calls of the loop into the host link, and
anywhere in a turn of the task, which the page deletes. `host` is what the host
at the line was answered and told.
Commands are numbered when they are accepted; `accepted` is the session of
each, `ran` those that were run, `greeting` the first two events written in a
session.

**HostCommands** is what a PC may rely on: commands accepted, pending and done.
`Run` takes the oldest, `Drop` all, and a session opens when none is pending.

Time is left out of `HostLink`: whether the periodic events are due and whether the handshake
has expired is chosen in every turn. An expired handshake only starts anew in
the next turn, so a deadline that is wrong around the wrap of the clock does no
harm. Not modelled either: sequence numbers, which nothing on the device reads
back, counters and error codes of the status, the contents of the frames, and
what a command does when it runs. Members' times in the team state are no change of
the team here.

## The runs

In a passing run TLC has searched all states.

| Run | Shows | Instance |
|---|---|---|
| `pairing_rotation` | `TypeOK`, `OneKeyPerRound`, `TransportFollowsSession`, `SessionEnds`, `NoKeyFromBeforeTheBeacon`, `MemberScansItsWindow` | a leader that opens two sessions with two keys, a member that searches; 3 ticks, a window of one, a time-out of two, four nonces, under `FairSpec`; 287 000 states |
| `pairing_two_leaders` | `IInv`, `KeyOfNamedLeader`, `KeepsPromise`, `DeadlineStands` | two leaders, one member, the LoRa buffer, crossing offers of two teams; 2 ticks; 463 000 states |
| `team_membership` | `TypeOK`, `OneKeyInDevice`, `NeverTwoKeys`, `KeyInv`, `MInv`, `NobodyJoinsUnasked`, `KeepsTeamPromise` | two devices, two teams, a bus of two events, three of all ten commands; 635 000 states |
| `pairing_screen` | `PairingScreenEnds` | as before, under `FairSpec`, with one team, without team frames (`AirMax` is 0) and without leaving and transfer, which are not commands of that screen; 316 000 states |
| `chat_delivery` | `ChatTypeOK`, `NonceOnce`, `StoredOnce`, `ReceivedStaysReceived`, `UnreadCounts`, `QueuedHasReason`, `SameVerdict`, `ShownVerdict`, `PassedOnce`, `VerdictKept`, `ResultsArrive`, `IdSpec` | four packets of two nodes, two conversations, logs of two, a filter of one, a memory of one, a bus of two, one record on screen, blocks of two ids that run out after three; 1 269 000 states |
| `host_link` | `TypeOK`, `GreetingInOrder`, `CommandsOfThisLink`, `KeepsCommandPromise`, `CommandsLeave` | both programs: queues of two, reads of three frames, three frames, two hosts, one event of team or mesh, the page opened once, under `FairSpec`; 1 046 000 states |

Bounds, and why they are enough. In the pairing runs a rotation takes two
sessions of one leader, a mixture two leaders and a member; a member that
answers three or four beacons can hold answers to two earlier ones; a window
shorter than the time-out and three ticks let a session end and the next begin
while the member still waits, or its search end first. The safety properties
are proved for all sizes; the instances of the runs with liveness are as large
as TLC can search for it. `LastStart`,
`MaxTime` and `MaxNonce` bound sessions, clock and random numbers; the clock
does not wrap in the passing runs (`ClockMod` is larger), and
`pairing_clock_wrap` is there for when it does. In the team runs `MaxActs`
bounds commands and restarts (create, join and cancel, or a restart, fit into three; create, join, leave, create into four), `MaxDraws` teams, `QueueMax` the bus (two in the passing runs, so that the three
events of a key never fit and are dropped, kept or reordered one by one; four in
the runs of findings, where nothing need be lost), and `AirMax` how many frames of other devices
wait. The devices are symmetric, and the team runs without liveness use that. In the chat run every limit is the
smallest at which something is dropped while something else stays; the packets
carry ids that the node hands out too, and each may be heard again; time passes
within the time-out and beyond it (`TickSteps`). `Budgets` bounds what happens:
each mix allows up to so many packets, sends, other uses of ids, restarts,
ticks and commands on the screens. Together they mix texts with sends, with time
and with commands, sends with restarts and texts, and ids with restarts, in every
order; the commands of a mix are enough to open the page, send and see the
result, twice in the mix of two sends, and to clear everything while texts come
in. How the tasks interleave is not bounded.
In the host link runs the queues of twelve are scaled to two, the size of the
greeting, and a read of 128 bytes, which holds up to twelve frames, to three: a HELLO can fill a
queue and be followed by one frame more, as in the code. `host_link_team_state`
uses the real sizes, so that its violation is that of the race alone. Two hosts
are an old and a new session; three frames are a HELLO in each and a command;
one event of the main loop is what a queue filled by a greeting must displace.
The page may be closed for good, and so the whole link may stop.
The system may stop (users may do nothing more, clocks are
bounded), so deadlock is not checked.

Each property of these runs has a mutant: a plausible bug put into one
definition, for which TLC finds the property violated. A mutant stands before
the definition it replaces, under a comment that names it; no other definition
uses it.

### Fairness

`TeamPairing!FairSpec`: the clock goes on and every main loop turns while its
transport is up. Nothing is assumed of the radio or of users. Both follow from
the loop of the firmware, which calls `update()` in each of its turns.

`TeamMembership!FairSpec`: the bus is drained (`HandleEvent`, the same loop), and
a session reaches its deadline (`Expire`), both weakly fair. The latter is what
`SessionEnds` shows of `TeamPairing` (and `PairingSessionEnds` proves). An event
may be put behind others as often as the lock is not had, but not for ever:
while a bus has events, one is handled in the end. That users do finitely many things is a
bound, not an assumption about them: a user who presses Retry for ever stays on
the screen by choice.

`ChatDelivery!FairSpec`: the loop takes events while there are some (`Take`),
and goes on with what it has in hand (`KeepInModel`, `KeepInStore`,
`StoreResult`, `Feed`, `FeedGone` or `GiveBack`), as the attempt to get the lock
has a time-out. Nothing is assumed of the lock: `ResultsArrive` holds
even if the loop never gets it. Nothing is assumed of the display task either.

`HostLink!FairSpec`: the task takes its next step, as it is a FreeRTOS task that
sleeps 10 ms a turn, and so does the main loop, which comes round for ever. The
host owes nothing, and the page may be closed at any time.

## Findings

Six runs are expected to end in a violation. Each checks one statement of the
documents or comments.

1. `pairing_late_key`: a leader answers a join after its window, because the
   buffered packet is handled before the deadline is looked at.
   `docs/team/team_chat_protocol.md:221` says all packets are processed within
   the window only. It goes no further than that one turn: `PairingLateKeyIsLast`
   proves that the turn which sends a late key ends the session.
2. `pairing_clock_wrap`: deadlines are compared as numbers. A member that
   starts just before the millisecond clock wraps fails in its first turn. The
   wrap is all it takes and all there is to it: without one,
   `PairingScansItsWindow` proves the property for any timers.
3. `team_page_closed`: a member closes the page while it waits. An unencrypted
   status of the leader names the team of the blank page: sixteen zero bytes.
   The key that arrives then is of another team and is refused, and the event
   Completed enters the team without a key. `idf_chat_facade.cpp:899` says that
   the handler is safe when the screen is closed.
4. `team_id_reused`: after leaving, the end of the pairing session is told with
   the old team id, which the page takes over. The next team created has this
   id and a new key. `docs/team/uiux.md:319` says an id is generated.
5. `team_cancel`: a user cancels a join while the key, or the event Completed,
   waits on the bus. The reset page takes any team's key, so the device is in the
   team its user cancelled; the same follows leaving. `docs/team/uiux.md:212` has
   cancel lead to the screen of a device that is not in a team. It goes no further
   than events of before the command: that is `NobodyJoinsUnasked`.
6. `host_link_team_state`: task and main loop send the team state at once, the
   older one last; the hash says the newer one was sent
   (`hostlink_protocol.md:436`).

Met while modelling, without a run of its own: the receiver of a transfer
compares the target with 0 (`team_page_event_reducer.cpp:327`), the sender sends
a node id, and nobody leads afterwards (`docs/team/uiux.md:259`); a leader that hands its team
over during its own pairing window is made leader again by the next event; a
leader that closes its page sends a roster of itself alone, which replaces
everybody's; a page with the zero team id and a key erases the record, and the
team is gone after the next restart; a transfer to the row "You" (node id 0)
makes every receiver a leader, while the sender gives up, and from its pairing
screen may then start to search as a member of a team it is already in.

Met in the host link: the IDF program accepts commands to send (ACK OK) and
never runs them, and after twelve it is BUSY until the host goes, although
`hostlink_protocol.md:90` says that commands are accepted; in the Arduino
program the main loop may find the session not ready, the task complete a HELLO
and accept a command, and the main loop then empty the queue; a request for the
configuration is answered OK when its reply found no room, as eleven in one read
with the HELLO do; the IDF program never tells the host of a change of the
team, nor of messages; and the Arduino program tells it after team events, not
after commands of its own page, so a team that its user leaves is known to the
host until the next event.

Met in chat: the dead lock of a text on a full bus, and the closed page called
through a null pointer, both above; a result that overtakes its record leaves
the message queued for good while the page may show it sent; a result that comes
between the record in the model and the one in the store, or between model and
record, leaves one of them with a verdict and the other without; the model gives a
result to a received message with the same id and leaves our own queued; a text
that is stored while all messages are being cleared outlives the memory of
texts, and its repeat is stored again; the
page draws a received message as sent or failed when a send of our own has its
id, as records are kept by message id alone; eviction of a read message lowers
the unread count of its conversation. The properties name these cases as
exceptions, by the histories `lost`, `astray`, `forgotten` and `miscounted`, and
show that there are no others.

## The proofs

All are checked by TLAPS. `PairingCoordinatorProofs` and `TeamPairingProofs` hold for any number of devices, teams and keys, any
timers, either buffer, and an unbounded radio; `TeamPageProofs` and
`TeamMembershipProofs` for any number of devices, teams and commands, any bus,
with and without the display lock;
`PacketIdsProofs`, `ChatLogProofs` and `ChatDeliveryProofs` for any blocks,
keys, packets, limits and number of acts; `HostLinkProofs` for both programs,
queues of any size from two, and any number of hosts, frames and events:

| Theorem | States |
|---|---|
| `PairingInvariant` | `Spec => []IInv`, the inductive invariant |
| `PairingTypes` | `Spec => []TypeOK` |
| `PairingKeyOfNamedLeader` | `Spec => []KeyOfNamedLeader` |
| `PairingOneKeyPerRound` | `Spec => []OneKeyPerRound` |
| `PairingTransportFollowsSession` | `Spec => []TransportFollowsSession` |
| `PairingKeepsPromise` | `Spec => KeepsPromise`: the handshake implements `PairingPromise` |
| `PairingRotation` | `Spec => []RotationInv`, the invariant behind the next one |
| `PairingNoOldKey` | `Spec => NoKeyFromBeforeTheBeacon`, an action property |
| `PairingDeadlineStands` | `Spec => DeadlineStands`, an action property |
| `PairingLateKeyIsLast` | a key sent past the deadline is sent in the session's last turn |
| `PairingScansItsWindow` | `Spec => MemberScansItsWindow`, if the clock does not wrap |
| `PairingSessionEnds` | every session ends, if clock and main loop go on and the clock does not wrap |
| `MembershipInvariant` | `Spec => []MInv`, the inductive invariant |
| `MembershipTypes` | `Spec => []TypeOK` |
| `MembershipOneKey` | `Spec => []OneKeyInDevice` |
| `MembershipNobodyUnasked` | `Spec => NobodyJoinsUnasked`, an action property |
| `MembershipKeys` | `Spec => []KeyInv`, the invariant behind the next two |
| `MembershipNeverTwoKeys` | `Spec => []NeverTwoKeys` |
| `MembershipKeepsPromise` | `Spec => KeepsTeamPromise`: the devices implement `TeamPromise` |
| `IdsAreUsedOnce`, `IdsAreTyped` | `IdSpec => []NonceOnce`, `IdSpec => []IdTypeOK` |
| `ChatUsesPacketIds` | `Spec => IdSpec`: the chat implements `PacketIds` |
| `ChatNonceOnce`, `ChatTypes` | `Spec => []NonceOnce`, `Spec => []ChatTypeOK` |
| `ChatPassedOnce`, `ChatStoredOnce` | the filter and the duplicate check |
| `ChatReceivedStaysReceived`, `ChatUnreadCounts` | the store |
| `ChatQueuedHasReason`, `ChatSameVerdict`, `ChatShownVerdict` | results |
| `ChatVerdictKept` | a verdict is final, as an action property |
| `HostLinkType` | `Spec => []TypeOK` |
| `HostLinkCommands` | `Spec => []CommandsInv`, the invariant behind the next one |
| `HostLinkCommandsOfThisLink` | `Spec => CommandsOfThisLink`, an action property |
| `HostLinkGreeting` | `Spec => []GreetingInOrder`, for the task alone |
| `HostLinkOrder` | `Spec => []OrderInv`, the invariant behind the next one |
| `HostLinkKeepsCommandPromise` | `Spec => KeepsCommandPromise`: the link implements `HostCommands` |

The arguments. `KeyOfNamedLeader` is not inductive: `handleKey` takes the team
and the leader from the coordinator and the key from the packet, without
looking at the sender of the packet. What makes it right is the nonce. A key
packet answers a join that its receiver sent to its sender (`PacketInv`); the
receiver accepts it only with its current nonce; and only joins to the leader
it now awaits carry this nonce, because every beacon draws a new one
(`NonceIsForLeader`). So the sender of the key is the leader the device names
(`AwaitsItsLeader`), and keys are those of a session their sender opened, under
the team it leads (`LeadsOpened`). `IInv` is these parts with `TypeOK`,
`TransportFollowsSession`, the buffer's packet being one that was sent, and
`RoleFitsState`. Because one turn of a service is two calls of its coordinator,
the parts take coordinator, packets, random numbers and sessions as parameters;
the lemmas of `PairingCoordinatorProofs` say of every call that it preserves
them and sends only sound packets, and `TurnSound` puts the two together.

`PairingKeepsPromise` uses the invariant for the one step that matters, a key
taken over: the phase is Member, the grant is of a session opened by another
device, and the search ends with it. Every other step is a step of the promise
or leaves it alone.

`NoKeyFromBeforeTheBeacon` needs more than `IInv`, which says whose key a
device takes but not how old it is. `RotationInv` adds that a leader hands out
the newest key it opened for its team (`LeadsNewest`: it never goes back to a
lower key id, `MayOpen`), that what a device remembers of the beacon are
sessions of the leader it awaits (`KnownInv`), and that a key in the air under
the current nonce of a device is at least as new as those (`AnswerIsNew`). The
last holds when a beacon is accepted, because no packet has the nonce it draws,
and is kept by an answer, because the leader of the beacon sends its newest
key. A turn of a service handles a packet and then updates its coordinator;
`TraceThenUpdate` shows that the second call ends the session or leaves leader
and nonce alone, so it suffices to look at the first.

The deadlines. A turn is two calls of the coordinator: the buffered packet may
end the session or leave its role and deadline alone (`HandledDeadline`: a beacon
renews nonce, leader and retries, not these), and `update()` ends it exactly past the
deadline, or leaves both (`UpdateDeadline`). `TurnDeadline` puts the two
together, and `DeadlineStands` and `PairingLateKeyIsLast` follow, with or
without a wrap. For the length of a session `DeadlineInv` says that a deadline
lies a whole timeout after a start; it holds while no deadline is computed
across the wrap (`NoWrap`). `PairingSessionEnds` has the shape of a fairness
argument without ENABLED: the clock reaches `MaxTime`, no deadline lies beyond
it (`OutlivesSessions`), so a session that is still open is past its deadline
and stays so, until a turn comes (`GetsItsTurn`), which ends it. That the weak
fairness of `FairSpec` gives this turn is what TLC checks of it.

`OneKeyInDevice` is not inductive either. A device has its key in three places
and every command and event writes some of them, but two paths can part them.
Saving a page whose team is missing or the zero team erases the record and
keeps the key in the page; and the guard on incoming keys, `AcceptsTeam`, looks
at the page's team, which statuses, pairing events and the pairing service can
set. So `MInv` adds to it that a page with a key has the id of a real team
(`KeyHasTeam`), that a session names no zero team, and a real one if it leads
or a key is on its way to it (`SessionInv`), and that the same holds of the
pairing events and keys that wait on a bus (`EventInv`). Then an unencrypted
status, which names the zero team, cannot touch a page that has a key; saving
keeps the key; and a key that is taken goes to page, service and record in one
step. All of this is under `NoZeroTeam`: a page that takes the zero team from
such a status while it has no key may go on to create its team under that id
(the end of *Findings*), and then the record is erased.
`TeamPageProofs` says of every reducer what it does to type, team and key;
`DeviceStep` of `TeamMembershipProofs` reduces an action to the page, keys,
record and session it gives one device; there is one lemma per action.

`NobodyJoinsUnasked` is about one step, and `WishInv` says why it happens only
as it says: as long as its user wants no team, a device has no trace of one but on its
bus, or is in the team that an event of there gave it. The pairing service is at
rest with no key on its way, and everything on the bus that could take the device
in, a key or a pairing event of a session that runs, leads or is completed, was there
when the wish was taken back (`Gentle`, relative to `late`); and a page that is in no
team has no record of one, and is closed or shows the screen of a device without
one. The pairing service starts only with a command that asks, and a frame from
the air is always harmless, so nothing new comes onto such a bus; putting an
event behind others or dropping it keeps `Gentle`; and a harmless event leaves a
page that is in no team as it is. Cancelling and leaving stop the session, and
what they find on the bus is `late` by definition. So a step that takes such a
device in handles an event of `late` (`Orderly`).

`NeverTwoKeys` holds without `NoZeroTeam`, and so needs another invariant.
`KeyInv` says that page and record hold the key of the service or none, and
that every key of a device, in its session or on its bus, was drawn by a create
command. The step that could mix two keys is a key distribution: it gives the
key to service, page and record in one step, or is refused and gives it to none.
A command or a restart gives all three what one of them has, or empties them.

`KeepsTeamPromise` puts `MInv`, `KeyInv` and `WishInv` together. The promise
sees the key of the team service, and few steps set it: to create a team draws
a key that no team has, or keeps the one there is; to leave drops it; a restart
gives back what the record has, which is the same key (`MInv`) unless a team has
the zero id (`Forget`); and a key distribution gives a drawn key (`KeyInv`), on a
device whose user asks or has a key waiting of before, which is what
`belated` stands for. That no key joins those on the bus of a device whose user
has stopped asking needs `WishInv`: only its own pairing service puts keys there,
and that is at rest. `ServiceBringsNone`, `UserBringsNone` and `LoopBringsNone`
say so of the actions, `KeysAreLate` of the bus, `Dwindles` of the promise.
Everything else changes nothing the promise sees (`UnseenStep`).

The packet ids: an id that went out with a private key lies below what the
allocator will hand out next, that below the mark on flash, and a key that was
used before a record was made is on the record's list. A lost record starts at
the bottom again, and all keys configured then are on the new list. Every step
of `ChatDelivery` is one of `PacketIds` or leaves its variables alone, so
`NonceOnce` carries over to the composition.

`StoredOnce`: a text the store holds is still remembered, unless `RecentMax`
texts came in after it, and by then the log has dropped it; this is where
`RecentMax + 1 >= LogMax` is assumed (256 and 20 in the code). A text is
remembered before it is stored, so the count of what came in is one ahead of the
store while the loop has a text in hand (`Ahead`), and that text is not in the store yet
(`Awaited`). A clear of the memory leaves the promise to what comes later: what
is stored or in hand then is `forgotten`. `PassedOnce`:
what passed within the time-out is in the cache, as the sweep removes only what
is older, unless there was no room. `UnreadCounts` is carried by lemmas on
`ChatLog`: each call changes the count and the set of fresh messages alike, and
where eviction does not, it marks the conversation.

`DeliveryInv` is behind the properties of results. Its parts: a message of our
own has an id that was handed out, once, and two of them in one log never share
it; all results of one id agree with each other and with what was recorded; a
queued message has its result on the bus or in the hands of the loop, or is
lost; model and store agree but for `lost`, `astray` and the one result that the
loop has given to the model and not yet to the store (`AtHand`), of which the
model says what the result says (`VerdictOK`); what the page was told of a send, or is about to be
told, agrees with the store but for `lost`. `VerdictKept` follows from it: a
result that is applied agrees with the verdict there is, and no other message
has the id.

`CommandsOfThisLink`: every command in the queue was accepted in the session
that is open, and while none is, the queue is empty (`CommandsInv`). A session
ends at the poll or with the page, which empty the queue in the same step; the
handshake that expires is not ready before either, and a HELLO on a ready
session opens none. The main loop only takes commands out, so it does not
matter when it looked at the session.

`KeepsCommandPromise`: numbers are given in order and put at the end, and both
tasks take from the front or empty the queue; so the queue is ascending and
above everything that was run (`OrderInv`), and its head is the command that
`Run` asks for. That a session opens with an empty queue is `CommandsInv`.

`GreetingInOrder` needs to know where the greeting is: unsaid, queued in half,
queued, said in half, or said, which `GreetingInv` ties to the place in the
turn. A session that ends leaves no event, since the task ends a ready session
only at the poll, after it has drained the queue, and nobody else queues; so
there is room for both events, and they stand at the front.

Assumed: that constants are what their `ASSUME`s say (a sentinel is not a
value, a timer is a natural number), that random numbers of a device do not
repeat, and that unicast packets reach only their addressee, as the mesh layer
filters them. `MayOpen` (a leader never lowers its key id) is needed by
`PairingNoOldKey` alone; `NoWrap` (no deadline across the wrap of the clock) by
`PairingScansItsWindow` and `PairingSessionEnds`, and `OutlivesSessions` (the
bound on the clock, which the code does not have, lies past the last deadline)
by the latter alone. Both are stated of the constants, and the instance of
`pairing_rotation` satisfies them.

Every safety property the passing runs check is proved. Liveness stays with
TLC: `SessionEnds`, `PairingScreenEnds`, `ResultsArrive` and `CommandsLeave`
under their `FairSpec`. The prover does not handle ENABLED, which weak and
strong fairness are made of, so of `SessionEnds` only `PairingSessionEnds` is
proved, with the fairness spelt out; for the other three, the argument that an
event comes nearer to the front of its queue with every turn is an induction
over its place, which the provers cannot do either.

## The plan

In this order; what is most important of the system comes first.

1. **Team pairing** (done): coordinator, services, promise, proofs of every
   safety property and of the end of every session.
2. **Team membership** (done): page, devices, promise, proofs of types, keys,
   of `NobodyJoinsUnasked` and of the refinement.
3. **Packet ids and chat** (done): ids, logs, packet filter, both tasks, proofs
   of every safety property.
4. **Host link** (done): both programs, promise, proofs of every safety
   property.
5. **Pairing within membership**: an abstract module that `TeamPairing`
   implements and whose steps are those of `pair` in `TeamMembership`, in place
   of the reduction that is now argued in words.
6. **The other programs**: mesh session, router and dedup ring, with the shells
   that use them.
