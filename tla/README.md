# Verification of the tactical microgrid demo

TLA+ models, TLC runs and TLAPS proofs for the programs under
`src/tactical-microgrid-standard`, a simulated microgrid whose controllers,
power devices and operators talk over OpenDDS topics of the Tactical Microgrid
Standard (MIL-STD-3071), and for the chat under `src/node-websocket-chat`.
`PROJECT.json` lists the parts, runs, sensitivity checks, hazards, findings and
theorems, and maps each definition to the lines it models.

    tlc -config SelectorTiming.cfg SelectorTiming    # a run
    tlapm SelectorTimingProofs.tla                   # a proof

## 1. The system

| Part | State it keeps | Operations |
|---|---|---|
| `common/TimerHandler` | named timers, the active ones by key, `lock_` | schedule, cancel, reschedule, handle_timeout (ACE reactor upcall) |
| `common/ControllerSelector` (in each power device) | `selected_`, last heartbeat per controller, priorities, four one-shot timers | got_heartbeat, got_device_info, timer_fired × 4, select, announcement |
| `common/Handshaking` | participant, writers, heartbeat timer | join_domain, create_*, send_device_info, start/stop_heartbeats, destructor |
| `controller/Controller` | `power_devices_`: level and master of each device | init, device_info_cb, set_active_controller, update_essl, terminate, run |
| `controller/CLIServer` and its five listeners | `essr_seqnum_`, `pending_essr_` | init_tms, init_sim; intents, replies, device-list requests, controller commands, topologies |
| `cli/CLIClient` | `controllers_`, `mc_to_devices_`, `power_devices_`, `power_connections_`, all under `data_m_` | list-mc, list-pd, connect-pd, start, stop, suspend, resume, term; process_device_info, process_heartbeat |
| `power_devices/PowerDevice` | `essl_`, `connected_devices_in_/out_` | init, the start/stop and connection listeners, two condition variables |
| `power_devices/Source`, `Distribution`, `Load` | a source's thread and its copy of its connection | init, simulate_power_flow, current listeners |
| `common/QosHelper` | none | durability, reliability and history of each topic |
| `common/Utils`, `common/Configurable`, IDL | none | set-up, types |
| `node-websocket-chat` | sockets per server instance; a page's socket and messages | connection, message, on_data_available; connect, send, onmessage in the page |

How the parts interact:

* **Selection.** Controllers write a DeviceInfo once (transient local) and a
  Heartbeat every second. A device's selector chooses a controller and writes an
  ActiveMicrogridControllerState, from which every controller learns the
  device's master.
* **Start and stop.** The client writes one OperatorIntentRequest per controller;
  a controller that believes it is the device's master writes an
  EnergyStartStopRequest, which the device obeys if it comes from the controller
  it has selected *now*, and answers with a Reply. Other controllers only note
  the new level.
* **Lists and commands.** The client asks the available controllers one by one for
  their devices and waits for each reply; it tells a controller to suspend or
  resume its heartbeats or to terminate.
* **Power.** The client sends the topology of cables to one controller, which
  writes each device its neighbours; sources write current, distribution devices
  relay it, loads consume it.
* **Chat.** A page sends a message to its server instance, which writes it to a
  topic; every instance that its writer has discovered reads the topic and sends
  to all its pages.

What is hard in it: four timers that race heartbeats and each other's late
upcalls; a timer class that takes its own lock and the reactor's in both orders;
devices that change controllers while a request is on its way; controllers that
are restarted under the same identity; listeners that run while main still
creates the writers they use; topics without an order between them and with a
history of one; a client that waits under a lock for processes that may have
gone; lists replaced while threads send on copies of them; condition variables;
writes that fail and are only logged.
Section 7 lists what we found, and `hazards` in `PROJECT.json` names each hazard
at its line.

What makes each part correct, in one sentence each: the selector drops a
controller only after it has been silent long enough and always gets to a new
one; a timer that was scheduled makes its upcall, and finds itself; a device
obeys only controllers it has chosen, in the order they asked, over restarts; a
controller's heartbeats follow the last command; current follows the cables,
stops and resumes with its source; the client shows what controllers reported
and does not hang unless they have gone; chat messages are shown in order.

## 2. The modules

| Module | Models | Uses |
|---|---|---|
| `Timers` | what the timer class promises: scheduled timers fire, one upcall at a time | |
| `TimerHandler` | `schedule`, `cancel`, `reschedule`, expiry and upcall with `lock_`, the reactor's token and ids that are used again | implements `Timers` |
| `ActiveController` | what a selector promises: searching, watching, suspecting | |
| `ControllerSelector` | `ControllerSelector` with its timers, which may run late | implements `ActiveController` |
| `SelectorTiming` | the same with a reactor that keeps up and steady controllers | EXTENDS `ControllerSelector` |
| `TopicQos` | which profile each topic has, and what a late reader receives | |
| `EnergyStartStop` | intents, requests and replies between clients, controllers and devices | one `ActiveController` per device |
| `ControllerRestart` | the same with controllers that exit or crash and start again with the same id | EXTENDS `EnergyStartStop`, `TopicQos` |
| `PowerFlow` | topology, connections, levels and current | |
| `OperatorCLI` | one client, the controllers' processes, lists and commands | |
| `ConnectDevices` | the dialog of connect-pd over several pairs, with listeners in between | EXTENDS `OperatorCLI` |
| `ControllerLifecycle` | one controller's set-up, with failing calls, its listeners meanwhile, suspend, resume, term, exit | |
| `DeviceLifecycle` | the same of a source, distribution device or load | |
| `Chat` | server instances, their writer and reader and who has discovered whom, sockets, pages | |
| `*Proofs` | theorems about these; `SelectorTimingProofs` covers `ControllerSelector` too, `ControllerRestartProofs` `EnergyStartStop`, `OperatorCLIProofs` `ConnectDevices` | EXTENDS the module, TLAPS |

A definition whose name ends in `_M` is a plausible mistake in the definition
after it; only the sensitivity checks use it.

Refinement links the parts, so that they never have to be explored together:
`ControllerSelector` treats an upcall as one step, and `TimerHandler` is shown to
deliver that; `EnergyStartStop` uses the abstract selector, and
`ControllerSelector` is shown to implement it. Both by TLC and by proof.

**Correspondence.** A handler that runs under one lock throughout is one action
(all of `ControllerSelector`). A handler that lets others in between is cut at
those places: `start_stop_device` into deciding on a copy, writing, updating the
level, and inserting the pending entry; the device's listener into taking the
batch, comparing the selected controller, and carrying out (in `EnergyStartStop`,
and with one sample at a time in `DeviceLifecycle`, where `accepted` stands
between `TakeRequest` and `CarryOut`: the reactor's thread may run
`LostController` there); a source's loop at every read of shared state;
`TimerHandler::schedule` and `cancel` at the call
into the reactor; a set-up after each entity it creates. The client's commands
hold `data_m_`, so `OperatorCLI` lets no listener in while `call # "none"`; only
other processes move. connect-pd gives the lock up while the operator answers,
and there `ConnectDevices` lets them in. Listeners of different readers may run
on different threads; a listener does not run concurrently with itself. Node runs
one callback at a time, so each callback of the chat is one action.

**Topics.** A variable on the wire holds the samples not yet taken. Reliable
topics with a history of one are modelled by replacing the untaken sample of the
same instance; that is where several of the findings come from. The Reply topic
keeps 128, more than the bounds ever write. Current is best effort, so any
sample may be lost. Nothing orders samples of different topics. A write that the
code checks may fail, and so may the chat's, which it catches. `TopicQos` keeps
the profiles; `ControllerRestart` asks it
what a restarted process is told again.

## 3. The runs

| Run | Bounds | States | Shows |
|---|---|---|---|
| `selector_timing` | 3 controllers, one steady, the code's delays (3, 3, 6, 10 s) | 136,428 | no timer scheduled twice; no early drop and no late one; the alarm is neither false nor missing after a long silence; the search goes on until a controller is found; implements `ActiveController` |
| `start_stop` | 2 controllers, 1 device, 1 client, 1 command | 242,766 | only chosen controllers command; a request is not lost in the device and is carried out |
| `restart` | 1 controller, 2 devices, 2 commands, 1 restart | 486,304 | order and replies over a restart; the new process learns again |
| `power_topology` | 1 source, 2 distribution devices, 1 load, 2 topologies, 1 switch | 2,427,481 | current follows cables; both ends agree |
| `power_current` | the same, 1 topology, 2 switches | 160,272 | off goes quiet; wake-ups; current dies out |
| `operator_cli` | 2 controllers, 1 device, 3 process starts in all, 2 commands | 771,812 | lists, last command, reachable controllers, commands return |
| `connect` | 1 controller, 3 devices of which 2 with a single port, 2 commands | 116,758 | ports and cables of the topologies sent |
| `timer_handler` | a periodic and a one-shot timer, 1 listener, 3 ids | 17,833 | an expiry finds its timer; implements `Timers`; timers lead to their state |
| `lifecycle` | 1 failing call | 150,481 | heartbeats follow commands; intents find their writer; a terminate is not lost |
| `device` | each of 3 roles, 1 failing call | 5,292 | no nil writer; nobody obeyed who was not chosen again |
| `chat` | 2 servers, 2 users, 2 messages, 2 connects, 1 failure, any number of failed writes | 527,459 | messages in order, once, and to everyone |
| `alarm` | 1 controller | about 120 | the finding of section 7 (expected to be violated) |

**Why the bounds are enough to be worth running.** Three controllers let one be
selected, one be fresh and one be known but never heard. Delays are the code's
own seconds; silences of `Horizon` (13 s) or more behave alike, because no test
of the code looks beyond `heartbeat_deadline` + `no_controllers_delay`. One
start or stop with two controllers already has every interleaving of a request
with a change of master; two commands with one controller have two requests in
flight, and one restart puts a former process's requests and replies beside the
new one's. Two topologies allow one to overtake the other's distribution. Three
process starts allow a controller to be restarted, with the disposal of its
former process still on the way, while the other one is in its first process;
two commands allow one to follow another that was not taken yet, a terminate
before a list, and two questions to one controller. (That a start meets a listed
controller that has left takes three commands, a list, a term and a start; the
theorems include it, the run does not.) Two connect-pd with
three devices let a port that was used be offered again. Three timer ids for two
timers let an id be used again while a late upcall still has it. One failing call
in a set-up reaches each of its exits. Two connects let one page change servers.
The theorems (section 5) then cover any number of each, and for the selector a
reactor that dispatches as late as it likes (`Spec` of `ControllerSelector`),
which `selector_timing` does not explore.

Deadlock is checked for the selector. The other runs stop when the bounded
commands are used up, or, in `timer_handler`, when the two threads wait for each
other, so their configurations turn the check off; that requests, commands and
timers do not get stuck otherwise is stated by the liveness properties instead.

The properties, by part:

* *Selector.* `NeverThrows`: `assert_inactive` never throws in an upcall.
  `DroppedOnlyAfterSilence`, `NoFalseAlarm`: no drop before 6 s and no alarm
  before 13 s of silence, however late timers are dispatched. `AbstractSpec`: the
  refinement. `LostInTime`: with prompt dispatch, loss by 9 s.
  `AlarmAfterLongSilence`: a device that gives up its last controller after 9 s
  without any heartbeat has the alarm running. `SearchGoesOn` (in `SearchInv`): a
  device without a controller that has heard a steady one has NewController
  running, started by a controller it knows. `EventuallySelects`: while a
  controller stays up, a device without one finds one.
* *Timers.* `ExpiryFindsTimer`: the key an upcall reads is that of a timer in
  `active_timers_`, and of its own. `EntriesMatch`: when no call is under way,
  timers, map and queue agree. `ImplementsTimers`: the refinement.
  `LeadsToItsState`: an active timer fires or is cancelled, unless a listener
  that holds `lock_` waits for the reactor's token while the upcall waits for
  `lock_`.
* *Start and stop.* `CommandsOnlyByChosen`: requests come only from controllers
  the device has chosen at some time. `RequestCarriedOut`: a request is carried
  out, or overtaken by a later one, unless the device leaves that controller.
  `RequestsPassedOn`: from reader to batch to handling no request of the selected
  controller is dropped, whatever others are taken with it.
  `AppliesInOrderR`: never back to an older request of the same controller,
  whichever of its processes sent it. `ReplyErasesOwn`: a reply erases the entry
  of its own request, unless it answers a former process. `LearnsAgain`: a
  controller knows each device or is about to, and its belief of a master is
  outdated only while a newer announcement is on its way.
* *Power.* `FlowFollowsCables`: current only along laid cables, never out of a
  load. `EndsAgree`: when a client's topologies have gone through one controller
  without a failed write, both ends of each cable list each other.
  `OffGoesQuiet`: at most the one sample about to be written follows an off.
  `SourceResumes`: a connected, operational source sends. `CurrentDiesOut`: when
  all sources stay off, no current is left, unless two distribution devices are
  connected.
* *Client.* `ListedWereReported`: a device is listed under a controller only if
  that controller reported it. `LastCommandHolds`: of suspend, resume and term in
  a row the last counts. `ReachableKnown`: a living controller whose DeviceInfo was
  handled is in the table, unless it was started again and the disposal of its
  former process was handled while it lives (`erased`); `starts` is counted for
  each controller, so that the first process of one is covered whatever the others
  do. `CommandReturns`: a command returns unless the question it
  waits on, or the reply, was lost (`lost` is set when the asked controller is
  not serving, exits, crashes or fails to write, and in no other case).
  `PortsUsedOnce`, `CablesHaveTwoEnds`: what connect-pd sends uses each single
  port once and names each cable at both ends.
* *Processes.* `IntentFindsWriter`: in a first process no intent comes before the
  writer of requests. `HeartbeatsFollowCommand`: a suspended controller is not
  woken by what main does next. `TerminateReturns`: an early terminate is not
  lost. `WritersFound` (in `IInv`): no handler of a device uses a writer that does
  not exist. `ObeysAfterChoosing`: a device changes its level only after this
  process of it has chosen a controller. (That the controller is still selected is
  true when the request is compared, not when the level is set.)
* *Chat.* `InOrder` (in `IInv`): no message twice, and those of one sender's socket
  in their order. `NothingVanishes` (in `IInv`): a message due to a page is at one
  of the stages before it, unless lost where the model says so. `MessagesShown`: it
  comes to everyone who stays connected, unless lost on the way to the page's
  server: no writer, a write that throws and is only logged, a server not
  discovered yet or stopped, a sample replaced in the writer or in the reader.

`IInv`, `LInv` and `SearchInv` are the inductive invariants, with the types (that
of `ControllerLifecycle` is proved and not listed in a run). Every property of a
passing run has a mutant under `mutants` that TLC finds to violate it.

## 4. Fairness

* `SelectorTiming`: time passes, the reactor thread dispatches expired timers
  (`PromptTick` lets no second pass over one), steady controllers send their
  DeviceInfo and repeat their heartbeat, which `Handshaking` does every second.
  Best-effort heartbeats of a steady controller may be lost, but not for
  `heartbeat_deadline` at a stretch: that is what steady means.
* `EnergyStartStop`: only that samples delivered to a device are taken and its
  listener's loop runs to its end. Nothing is assumed of clients or controllers.
* `PowerFlow`: a source's thread keeps running, delivered current is taken.
* `OperatorCLI`: the client's command thread goes on when it need not wait, a
  controller that is serving answers a request it has. Nothing forces processes to
  start, or listeners to run.
* `TimerHandler`: threads that are not blocked go on, the reactor dispatches its
  queue, and a listener that takes `lock_` again and again does not keep the
  reactor's thread from it for ever. The last is strong fairness: `lock_` is a
  `std::recursive_mutex`, which promises no turns, and listeners take it only when
  a sample has come.
* `ControllerLifecycle`: main goes on with its set-up and to its end. `Chat`: what
  is on the way between servers and pages is passed on. Nothing is assumed of
  discovery (`Match`), nor that a write succeeds.

All else is weak fairness. No fairness is assumed of lossy steps or of people.

## 5. What is proved

TLAPS checks every theorem to its last leaf, for all values of the constants
that satisfy the `ASSUME`s (delays are positive, `lost_active_controller_delay`
is at least `heartbeat_deadline`, roles are disjoint, ids are not null, bounds
are naturals).

* **Selector** (`SelectorTimingProofs`): `IInv` is inductive. Alone, "no timer is
  scheduled twice" is not: whether MissedHeartbeat may start NoControllers depends
  on why NoControllers was running. `IInv` adds which timers can run in which
  state (`TimersFitSelection`), that a running NoControllers or LostController
  timer and the silence it measures add up to at least its delay
  (`NoControllersFollowsSilence`, `LostFollowsSilence`), and that a MissedHeartbeat
  timer with a real deadline watches a controller that was heard. From it follow
  `NeverThrows`, `DroppedOnlyAfterSilence`, `NoFalseAlarm` and the refinement
  `AbstractSpec`, action by action. These hold however late timers are dispatched.
* **Timing** (`SelectorTimingProofs`): `LostInTime`, from `IInv` and the budget
  that time already silent plus time left on the running timer never exceeds the
  bound. `AlarmAfterLongSilence`, if `no_controllers_delay` is the longer one:
  from an invariant over LostController's time left and the silence of whoever
  kept MissedHeartbeat from starting the alarm. `SearchInv`, the safety half of
  `EventuallySelects`: a steady controller that was heard is recent at all times
  (`SteadyAreRecent`), so NewController and LostController always find a candidate,
  and a device is without one only while NewController runs, with at most its
  delay left.
* **Timers** (`TimerHandlerProofs`): `IInv` (who holds which lock where, what the
  map holds, what the calls under way have done so far, what is in the queue) is
  inductive; `ExpiryFindsTimer`, `EntriesMatch` and the refinement of `Timers`
  follow.
* **Start and stop** (`ControllerRestartProofs`): `IInv` of `EnergyStartStop` is
  inductive. Its two parts: whatever names a master (announcement, belief, decided
  job) was written after the device chose it; and the requests of one controller
  pass through job, reader, batch and handling in the order of their numbers.
  `CommandsOnlyByChosen` and the order of requests follow. `RequestsPassedOn`, the
  safety half of `RequestCarriedOut`, also needs that a reader and a batch hold at
  most one request of each controller (`OnePerController`): the loop ends at the
  first request it accepts, so that of a second one of the same controller nothing
  more would be heard.
* **Restarts** (`ControllerRestartProofs`): the steps of `EnergyStartStop` keep
  that invariant by its own lemmas; a restart keeps it because announcements on
  the wire and retained ones are the devices' last (`Current`). `LearnsAgain`,
  `AppliesInOrderR` and `ReplyErasesOwn` follow; the last from an assignment of
  each number to the device it was given for (`Numbered`), which every step that
  passes a number on respects.
* **Power** (`PowerFlowProofs`): `IInv` in four parts. Whatever tells a device of a
  neighbour, in topology, relay, connection, port list or a source's copy, stems
  from a cable (`FlowInv`): `FlowFollowsCables`. A source's thread waits neither
  for a connection it has nor for a level it is at (`NoLostWakeUp`), and a source
  has written nothing late or its one late sample and then left the write
  (`LateOnce`): `OffGoesQuiet`. On one route (`RouteInv`) topologies only grow, so
  what is nearer to a device never says more than what follows it, and each device
  knows its latest neighbours or is about to hear of them: `EndsAgree`.
* **Client** (`OperatorCLIProofs`): `IInv`: replies on the wire were reported too,
  an untaken command is the last one given, and nothing is waited for outside a
  command: `ListedWereReported` and `LastCommandHolds`. A living
  controller has its DeviceInfo on its way or is in the table, unless a disposal
  of its former process has erased it, and a controller that was never restarted
  has no disposal on the wire while it lives (`KnownUnlessErased`):
  `ReachableKnown`. `WaitsForAnAnswer`, the safety half of
  `CommandReturns`: a client that waits has its question or the answer under way,
  unless one was lost. `IInvC` of `ConnectDevices`: `power_connections_` has both
  ends of each cable at all times and the walk over pairs visits no device twice;
  `PortsUsedOnce` and `CablesHaveTwoEnds` follow.
* **Processes** (`ControllerLifecycleProofs`, `DeviceLifecycleProofs`): a
  controller's `IInv`: commands come only after the announcement, and what leads to
  an intent only after the writer of requests; `IntentFindsWriter` and
  `HeartbeatsFollowCommand` follow. A device's `IInv`: a controller is selected, or
  a request of it accepted, only when the device runs and has chosen it at some
  time (`ChoosesWhenRunning`), and current comes
  only to a reader that exists; so each handler finds its writer (`WritersFound`),
  and `ObeysAfterChoosing` follows.
* **Chat** (`ChatProofs`): `IInv`: the messages of one socket are sorted at each
  stage (`StagesSorted`), and each stage is ahead of those before it, from socket
  to server (`ServersInOrder`) and from server to page (`PagesInOrder`). From it
  `InOrder` for each stay of a page at a server. `NothingVanishes` is the safety half
  of `MessagesShown`.
Only model-checked is liveness under fairness, which is out of the prover's reach:
`EventuallySelects`, `RequestCarriedOut`, `LeadsToItsState`, `SourceResumes`,
`CurrentDiesOut`, `CommandReturns`, `TerminateReturns` and `MessagesShown`. What
the first two, `SourceResumes`, `CommandReturns` and `MessagesShown` rest on is
proved as safety (`SearchInv`, `RequestsPassedOn`, `NoLostWakeUp`,
`WaitsForAnAnswer`, `NothingVanishes`): what somebody waits for is still on its
way, so that fairness is all that is left to assume. The two refinements are of
abstract specifications without fairness, and proved. Every invariant and action
property of a passing run is proved.

## 6. Abstractions, and what is not modelled

* *Timers.* One timer per event type, as the code has; `cancel_all`, which only
  destructors call, `exit_after` and timers with names of their own, which no
  class uses, are left out. ACE is external: any timer in the queue may expire,
  the reactor holds its token during an upcall, schedule_timer does not fail, and
  0 is not an id (the ids of the ACE_Timer_Hash the handler creates are
  addresses). No handler touches its own timer, which the model states as a
  guard.
* *Presence.* In `EnergyStartStop` controllers and devices are there from the
  start; DeviceInfo is sent once. Controllers restart in `ControllerRestart` and
  `OperatorCLI`, devices in `DeviceLifecycle`. A device that leaves stays in its
  controllers' tables (they ignore disposals), which is not modelled.
* *Discovery* takes time in `Chat` only. Elsewhere a writer reaches every reader
  that exists; a volatile sample written before its reader is discovered would be
  one more that is lost.
* *Sequence numbers* go on over restarts in `ControllerRestart` so that order can
  be stated; `Wire` is what the process really sends and compares.
* *connect-pd* in `PowerFlow` is one step whose outcome is any set of cables
  `can_connect` allows; `ConnectDevices` has the dialog in full.
* *Current.* Of the power path only the last hop is kept, which is all its readers
  look at; amperage and a neighbour listed twice are left out, and so are the one
  second of sleep and spurious wake-ups. A load's level has no effect.
* *OperatorCLI.* What a controller knows of devices may change at any time. A
  controller may count as unavailable at any time, since heartbeats are best
  effort. Replies are not disposed of by a leaving controller (CLIServer's
  destructor is empty and nothing deletes `sim_participant_`), so that branch of
  `send_power_devices_request` is never entered. Other operators appear as
  questions to the controllers only. Time-outs of DDS writes are not modelled.
* *Lifecycles.* One device and one client stand for all others; they do what they
  can know to do, of this process or of a former one. A use of a nil writer ends
  the run of the model (`nil`), as it ends the process. The order of destruction
  at exit is left out: listeners may then still run on objects that are gone.
* *QoS.* Deadlines and liveliness are requested but nothing reacts to them;
  ownership is exclusive with equal strengths, which shows only when a restarted
  controller writes into the instance of its former process (`DropRequest`).
* *Not modelled*: configuration, transports, the parser and display of commands,
  the client's own set-up, message formats, the `mc-sel` system test. `Source`
  and `CLIClient` define `handle_signal` but register it nowhere, so that their
  shutdown by signal is never entered.

## 7. What the code does not do as its comments say

`alarm` is a run that TLC finds violated: `ControllerSelector.cpp:142-144` says
that the NoControllers timer will fire when a device is left without a
controller, but it need not be running. `findings` tells the story.

What else the models show, each at the place where it is modelled:

| Where | What happens |
|---|---|
| `ControllerSelector.cpp:170` | the age of a never-heard controller wraps and passes the recency test, so it can be selected (`Available`). This rests on signed overflow, which C++ leaves undefined; the model takes the outcome of a build that wraps |
| `ControllerSelector.cpp:55` | MissedHeartbeat of a controller selected late in its period keeps its shorter delay (`HeartbeatFromSelected`) |
| `TimerHandler.h:229`, `:264` | a listener with `lock_` and an upcall with the token wait for each other (`WaitForEachOther`) |
| `CLIClient.cpp:719-737` | intents for several controllers are one instance and replace each other (`WriteIntent`); at a listed controller that has left, the loop returns (`SendStartStopRequest`) |
| `Controller.cpp:162-169` | an announcement before the DeviceInfo is dropped (`SetActiveController`) |
| `CLIServer.cpp:410`, `:382` | a reply may come before its entry, which then stays; a request the device ignores leaves the level noted by the controller (`InsertPending`, `UpdateAfterWrite`) |
| `CLIServer.cpp:463` | a reply to the former process erases the entry of the same number (`TakeReplyR`) |
| `CLIServer.cpp:199`, `:62` | a question may find no writer of answers; in a second process an intent may find no writer of requests (`TakeQuestion`, `TakeIntent`) |
| `controller/main.cpp:32` | a controller whose set-up failed runs all the same (`AfterFailure`) |
| `CLIClient.cpp:510` | devices that join after the first connect-pd are never offered (`ConsolidatePowerDevices`) |
| `CLIClient.cpp:675`, `:820` | a device that changed controllers stays listed under the former one; a late disposal removes a restarted controller for good (`ReceivePowerDevices`, `ProcessHeartbeatGone`) |
| `Source.cpp:114` | a source goes on sending to the device of an older topology (`target`) |
| `chat.js:28` | a second message replaces one the reader has not taken (`slot`) |
| `chat.js:15`, `server.js:36` | a message whose write throws is logged and dropped; the result of `write_user_message` is not looked at (`WriteUserMessage`) |

## 8. Plan

Done: the selector with its abstract specification, timing and proofs; timers
with locks, and their refinement; start and stop over abstract selectors, with
restarts; power flow; the operator's client with connect-pd; the processes of
controllers and devices; the chat; proofs of every invariant, action property and
refinement of these.

Left:

1. A second or restarted client in `PowerFlow`, with a property over the newest
   topology (a source keeps sending on its old copy).
2. Restarts of devices in `EnergyStartStop`, beyond one device's set-up.
3. The safety halves of `CurrentDiesOut` (a measure of current without a trunk)
   and of `LeadsToItsState` and `TerminateReturns`.

Questions about one specification share a configuration. `power_topology` and
`power_current` are apart because one configuration with both bounds takes too
long to explore.
