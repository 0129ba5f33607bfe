---------------------------- MODULE ControllerLifecycle ----------------------------
(***************************************************************************)
(* One process of a controller (controller/main): the main thread sets up  *)
(* Controller and CLIServer, runs the reactor and exits, while the         *)
(* listeners of the readers created so far already handle samples.         *)
(*                                                                         *)
(* The device and the operator's client stand for all of them.  What they  *)
(* may do is bounded by what they know: the client asks a controller whose *)
(* DeviceInfo it has, and writes intents to one that has answered.         *)
(***************************************************************************)
EXTENDS Naturals, Sequences

CONSTANT MaxFailures    \* bound: calls of the set-up that fail

ASSUME LifecycleAssumption == MaxFailures \in Nat

(***************************************************************************)
(* What main sets up, in order: in Controller::init, then, for each of the *)
(* topics, in CLIServer::init_tms and CLIServer::init_sim.                 *)
(***************************************************************************)
Setup ==
    << "participant", "deviceInfoReader", "heartbeatReader", "deviceInfoWriter",
       "heartbeatWriter", "noticeReader", "announced",
       "intentReader", "requestWriter", "replyReader",
       "simParticipant", "questionReader", "commandReader", "answerWriter",
       "topologyReader", "connectionWriter" >>

InController == 1..7
InTms == 8..10
InSim == 11..16

Entities == {Setup[i] : i \in 1..Len(Setup)}
Writers == {"requestWriter", "answerWriter", "connectionWriter"}

VARIABLES
    \* the main thread
    step,           \* position in Setup; behind it when running, then when main has returned
    made,           \* what has been set up, and "domain" once tms_domain_id_ is known
    failures,       \* calls that failed
    \* shared with the listeners
    device,         \* the device in power_devices_: "unknown", "known", "mine"
    reactor,        \* of "timer": heartbeats scheduled, "ended": loop told to end
    nil,            \* a writer that a listener used and did not exist, or "none"
    command,        \* the last command carried out, or "none"
    \* the others
    inbox,          \* samples in the readers
    earlier,        \* processes of this controller that ran before
    choice,         \* whom the device announced last: "none", "this", "other"
    client          \* what the client has of this controller

mainVars == <<step, made, failures>>
sharedVars == <<device, reactor, nil, command>>
others == <<earlier, choice, client>>
vars == <<mainVars, sharedVars, inbox, others>>

\* The device and the client may have known an earlier process.
Init ==
    /\ step = 1 /\ made = {} /\ failures = 0
    /\ device = "unknown" /\ reactor = {} /\ nil = "none" /\ command = "none"
    /\ inbox = {}
    /\ earlier \in {0, 1}
    /\ choice \in {"none", "other"} \cup IF earlier = 1 THEN {"this"} ELSE {}
    /\ client \in IF earlier = 1 THEN SUBSET {"info", "answer"} ELSE {{}}

Running == step = Len(Setup) + 1
Exited == step = Len(Setup) + 2
Alive == nil = "none" /\ ~Exited

-----------------------------------------------------------------------------
(* The main thread. *)

\* A failure ends the function it is in.  main ignores what Controller::init
\* returns; CLIServer::init skips init_sim when init_tms fails.
AfterFailure_M ==
    IF step \in InController THEN 8 ELSE IF step \in InTms THEN 11 ELSE 17

AfterFailure == IF step \in InController THEN 8 ELSE 17

\* register_type refuses a nil participant.
CanSucceed == step \in InTms => "participant" \in made

\* tms_domain_id_ is set before the announcement, which starts the heartbeats.
BeforeCall == IF Setup[step] = "announced" THEN made \cup {"domain"} ELSE made

\* Starts the heartbeats when all is set up.
Succeed_M ==
    /\ CanSucceed
    /\ made' = BeforeCall \cup {Setup[step]}
    /\ step' = step + 1
    /\ reactor' = IF step = Len(Setup) THEN reactor \cup {"timer"} ELSE reactor
    /\ UNCHANGED failures

Succeed ==
    /\ CanSucceed
    /\ made' = BeforeCall \cup {Setup[step]}
    /\ step' = step + 1
    /\ reactor' = IF Setup[step] = "announced" THEN reactor \cup {"timer"} ELSE reactor
    /\ UNCHANGED failures

Fail ==
    /\ CanSucceed => failures < MaxFailures
    /\ failures' = IF CanSucceed THEN failures + 1 ELSE failures
    /\ made' = BeforeCall
    /\ step' = AfterFailure
    /\ UNCHANGED reactor

SetUp ==
    /\ step \in InController \cup InTms \cup InSim
    /\ Succeed \/ Fail
    /\ UNCHANGED <<device, nil, command, inbox, others>>

\* run_reactor_event_loop returns at once if the loop has been told to end.
Return ==
    /\ Running /\ "ended" \in reactor
    /\ step' = step + 1
    /\ UNCHANGED <<made, failures, sharedVars, inbox, others>>

Main == Alive /\ (SetUp \/ Return)

-----------------------------------------------------------------------------
(* The listeners. *)

\* Uses a writer that may not exist yet.
Use(writer) == nil' = IF writer \in made THEN nil ELSE writer

TakeDeviceInfo ==
    /\ device' = IF device = "unknown" THEN "known" ELSE device
    /\ UNCHANGED <<reactor, nil, command, client>>

\* An announcement of a device that is not known is dropped.
TakeNotice ==
    /\ device' = IF device = "unknown" THEN device
                 ELSE IF choice = "this" THEN "mine" ELSE "known"
    /\ UNCHANGED <<reactor, nil, command, client>>

\* A request is written if the device has this controller as its master and
\* is not at that level.
TakeIntent ==
    /\ \/ device = "mine" /\ Use("requestWriter")
       \/ UNCHANGED nil
    /\ UNCHANGED <<device, reactor, command, client>>

TakeQuestion ==
    /\ Use("answerWriter")
    /\ client' = client \cup IF "answerWriter" \in made THEN {"answer"} ELSE {}
    /\ UNCHANGED <<device, reactor, command>>

TakeTopology ==
    /\ Use("connectionWriter")
    /\ UNCHANGED <<device, reactor, command, client>>

Suspend == reactor' = reactor \ {"timer"}
Resume == reactor' = IF "heartbeatWriter" \in made THEN reactor \cup {"timer"} ELSE reactor

\* A loop that is not running yet is not ended.
Terminate_M == reactor' = IF Running THEN {"ended"} ELSE reactor \ {"timer"}

Terminate == reactor' = {"ended"}

TakeCommand(c) ==
    /\ \/ c = "suspend" /\ Suspend
       \/ c = "resume" /\ Resume
       \/ c = "term" /\ Terminate
    /\ command' = c
    /\ UNCHANGED <<device, nil, client>>

Take ==
    /\ Alive
    /\ \E sample \in inbox :
          /\ inbox' = inbox \ {sample}
          /\ \/ sample = "info" /\ TakeDeviceInfo
             \/ sample = "notice" /\ TakeNotice
             \/ sample = "intent" /\ TakeIntent
             \/ sample = "question" /\ TakeQuestion
             \/ sample = "topology" /\ TakeTopology
             \/ sample \in {"suspend", "resume", "term"} /\ TakeCommand(sample)
    /\ UNCHANGED <<mainVars, earlier, choice>>

-----------------------------------------------------------------------------
(* The others. *)

Arrive(samples) == inbox' = inbox \cup samples

\* The simulation's topics are in the domain next to the controller's own.
InSimDomain(reader) == {reader, "domain"} \subseteq made

DeviceJoins ==
    /\ "deviceInfoReader" \in made
    /\ Arrive({"info"})
    /\ UNCHANGED others

\* A device chooses a controller whose DeviceInfo it has.
DeviceChooses ==
    /\ \/ "announced" \in made /\ choice' = "this"
       \/ choice' = "other"
    /\ Arrive(IF "noticeReader" \in made THEN {"notice"} ELSE {})
    /\ UNCHANGED <<earlier, client>>

\* The announcement is retained for a reader created later.
NoticeArrives ==
    /\ choice # "none" /\ "noticeReader" \in made
    /\ Arrive({"notice"})
    /\ UNCHANGED others

ClientLearns ==
    /\ "announced" \in made
    /\ client' = client \cup {"info"}
    /\ UNCHANGED <<inbox, earlier, choice>>

ClientAsks ==
    /\ "info" \in client
    /\ \/ InSimDomain("questionReader") /\ Arrive({"question"})
       \/ InSimDomain("topologyReader") /\ Arrive({"topology"})
    /\ UNCHANGED others

\* start-pd and stop-pd are written for the controllers that have answered.
ClientIntends ==
    /\ "info" \in client /\ "answer" \in client
    /\ "intentReader" \in made
    /\ Arrive({"intent"})
    /\ UNCHANGED others

\* A command replaces one that has not been taken.
ClientCommands ==
    /\ "info" \in client /\ InSimDomain("commandReader")
    /\ \E c \in {"suspend", "resume", "term"} :
          inbox' = (inbox \ {"suspend", "resume", "term"}) \cup {c}
    /\ UNCHANGED others

Others ==
    /\ Alive
    /\ \/ DeviceJoins \/ DeviceChooses \/ NoticeArrives
       \/ ClientLearns \/ ClientAsks \/ ClientIntends \/ ClientCommands
    /\ UNCHANGED <<mainVars, sharedVars>>

\* The process has returned from main or is gone with a nil writer.
Gone == ~Alive /\ UNCHANGED vars

Next == Main \/ Take \/ Others \/ Gone

Spec == Init /\ [][Next]_vars /\ WF_vars(Main)

-----------------------------------------------------------------------------
\* Types and bounds.
TypeOK ==
    /\ step \in 1..18
    /\ made \subseteq Entities \cup {"domain"}
    /\ failures \in 0..MaxFailures
    /\ device \in {"unknown", "known", "mine"}
    /\ reactor \subseteq {"timer", "ended"}
    /\ earlier \in {0, 1}
    /\ nil \in Writers \cup {"none"}
    /\ command \in {"none", "suspend", "resume", "term"}
    /\ inbox \subseteq {"info", "notice", "intent", "question", "topology",
                        "suspend", "resume", "term"}
    /\ choice \in {"none", "this", "other"}
    /\ client \subseteq {"info", "answer"}

(***************************************************************************)
(* What is set up when: commands are taken only after the announcement,    *)
(* and what leads to an intent only after the writer of requests.          *)
(***************************************************************************)
SetUpInOrder ==
    /\ step <= 7 => /\ "commandReader" \notin made
                    /\ inbox \cap {"suspend", "resume", "term"} = {}
                    /\ command = "none"
    /\ earlier = 0 /\
       (\/ step \in 10..16 \/ "answerWriter" \in made
        \/ "answer" \in client \/ "intent" \in inbox)
          => "requestWriter" \in made

(***************************************************************************)
(* In a first process an intent finds the writer of requests, although its *)
(* reader comes first (CLIServer.cpp:62, 111): intents are written for     *)
(* controllers that have answered, and the writer of answers comes after   *)
(* it, in a part that is skipped when it could not be created.             *)
(***************************************************************************)
IntentFindsWriter == earlier = 0 => nil # "requestWriter"

(***************************************************************************)
(* Heartbeats follow the last command although commands are taken while    *)
(* main still sets up: a suspended controller is not woken by the          *)
(* announcement's start of the heartbeats.                                 *)
(***************************************************************************)
HeartbeatsFollowCommand ==
    /\ command \in {"suspend", "term"} => "timer" \notin reactor
    /\ command = "resume" /\ "heartbeatWriter" \in made => "timer" \in reactor

\* The inductive invariant: the order of the set-up is what the two others rest on.
IInv == TypeOK /\ SetUpInOrder /\ IntentFindsWriter /\ HeartbeatsFollowCommand

(***************************************************************************)
(* A terminate is not lost, whenever it is taken: main returns, or the     *)
(* process is gone.                                                        *)
(***************************************************************************)
TerminateReturns == command = "term" ~> (Exited \/ nil # "none")

=============================================================================
