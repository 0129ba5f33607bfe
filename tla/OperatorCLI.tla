------------------------------- MODULE OperatorCLI -------------------------------
(***************************************************************************)
(* One operator's client (cli/CLIClient) and the controllers it talks to:  *)
(* the table of controllers it keeps from their DeviceInfos and heartbeats,*)
(* list-pd, whom start and stop address, and suspend, resume and term.     *)
(*                                                                         *)
(* A command holds data_m_ until it returns, and so keeps the listeners    *)
(* out.  Requests, replies and commands are reliable, KEEP_LAST(1) per     *)
(* controller, and reach only readers that exist; a reply goes to all      *)
(* clients, so other clients' questions bring replies as well.  What a     *)
(* controller knows of devices (EnergyStartStop) is arbitrary here.  A     *)
(* controller counts as unavailable after 9 s without a heartbeat, which   *)
(* are best effort: that may happen to any of them at any time.            *)
(***************************************************************************)
EXTENDS Naturals, Functions

CONSTANTS
    Controllers,
    Devices,
    MaxStarts,      \* bound: processes started, of all controllers together
    MaxCommands     \* bound: commands given, other operators' list-pd included

ASSUME BoundsAssumption == MaxStarts \in Nat /\ MaxCommands \in Nat

VARIABLES
    (* controllers *)
    phase,      \* "down", "starting", "running", "suspended" or "ending"
    reports,    \* the power devices it would report
    (* what is on the wire: untaken samples *)
    commands,   \* ControllerCommand, per controller
    requests,   \* PowerDevicesRequest: the controllers that have one
    replies,    \* PowerDevicesReply in the client's reader, per controller
    infos,      \* DeviceInfo in the client's reader: "alive" or "gone"
    gone,       \* controllers whose Heartbeat instance is disposed
    (* the client *)
    table,      \* controllers_: "absent", "available" or "unavailable"
    devices,    \* mc_to_devices_: no or one set of devices per controller
    call,       \* the command it is in: "none", "list-pd" or "start-stop"
    todo,       \* controllers it has yet to ask
    waits,      \* the one whose reply it waits for
    (* counters *)
    starts,     \* processes started, per controller
    given,
    (* history *)
    told,       \* last command to each controller
    reported,   \* <<c, d>>: c has reported d at some time
    lost,       \* the question it waits on, or its reply, has been lost
    addressed,  \* controllers the last start or stop was written for
    erased      \* living controllers of which a former process's disposal was handled

controllerVars == <<phase, reports>>
wire == <<commands, requests, replies, infos, gone>>
clientVars == <<table, devices, call, todo, waits>>
counters == <<starts, given>>
history == <<told, reported, lost, addressed, erased>>
vars == <<controllerVars, wire, clientVars, counters, history>>

Init ==
    /\ phase = [c \in Controllers |-> "down"]
    /\ reports = [c \in Controllers |-> {}]
    /\ commands = [c \in Controllers |-> {}]
    /\ requests = {}
    /\ replies = [c \in Controllers |-> {}]
    /\ infos = [c \in Controllers |-> {}]
    /\ gone = {}
    /\ table = [c \in Controllers |-> "absent"]
    /\ devices = [c \in Controllers |-> {}]
    /\ call = "none"
    /\ todo = {}
    /\ waits = {}
    /\ starts = [c \in Controllers |-> 0]
    /\ given = 0
    /\ told = [c \in Controllers |-> "resume"]
    /\ reported = {}
    /\ lost = FALSE
    /\ addressed = {}
    /\ erased = {}

-----------------------------------------------------------------------------
(* The controllers. *)

\* CLIServer's readers exist.
Serving(c) == phase[c] \in {"running", "suspended", "ending"}

\* Processes started so far.
Started == FoldFunction(+, 0, starts)

\* Controller::init announces the controller before main makes its CLIServer.
Start(c) ==
    /\ phase[c] = "down"
    /\ Started < MaxStarts
    /\ starts' = [starts EXCEPT ![c] = @ + 1]
    /\ phase' = [phase EXCEPT ![c] = "starting"]
    /\ infos' = [infos EXCEPT ![c] = {"alive"}]
    /\ told' = [told EXCEPT ![c] = "resume"]
    /\ erased' = erased \ {c}
    /\ UNCHANGED <<reports, commands, requests, replies, gone, clientVars,
                   given, reported, lost, addressed>>

Serve(c) ==
    /\ phase[c] = "starting"
    /\ phase' = [phase EXCEPT ![c] = "running"]
    /\ UNCHANGED <<reports, wire, clientVars, counters, history>>

\* A device joins, or its choice of controller becomes known.
DeviceChanges(c) ==
    \E d \in Devices :
       /\ phase[c] # "down"
       /\ reports' = [reports EXCEPT ![c] = IF d \in @ THEN @ \ {d} ELSE @ \cup {d}]
       /\ UNCHANGED <<phase, wire, clientVars, counters, history>>

Down(c) ==
    /\ phase' = [phase EXCEPT ![c] = "down"]
    /\ reports' = [reports EXCEPT ![c] = {}]
    /\ commands' = [commands EXCEPT ![c] = {}]
    /\ requests' = requests \ {c}
    /\ lost' = (lost \/ c \in waits)
    /\ UNCHANGED <<replies, clientVars, counters, told, reported, addressed, erased>>

\* The participant is deleted, which disposes what it has written in the TMS domain.
Exit(c) ==
    /\ phase[c] = "ending"
    /\ Down(c)
    /\ infos' = [infos EXCEPT ![c] = {"gone"}]
    /\ gone' \in {gone, gone \cup {c}}

Crash(c) ==
    /\ phase[c] # "down"
    /\ Down(c)
    /\ UNCHANGED <<infos, gone>>

\* stop_heartbeats, start_heartbeats and terminate; the loop that has ended stays so.
TakeCommand(c) ==
    \E t \in commands[c] :
       /\ Serving(c)
       /\ commands' = [commands EXCEPT ![c] = {}]
       /\ phase' = [phase EXCEPT ![c] =
                       IF @ = "ending" \/ t = "terminate" THEN "ending"
                       ELSE IF t = "stop" THEN "suspended" ELSE "running"]
       /\ UNCHANGED <<reports, requests, replies, infos, gone, clientVars, counters, history>>

Reply(c) ==
    \/ /\ replies' = [replies EXCEPT ![c] = {reports[c]}]
       /\ reported' = reported \cup ({c} \X reports[c])
       /\ lost' = (lost /\ c \notin waits)
    \/ /\ lost' = (lost \/ c \in waits)
       /\ UNCHANGED <<replies, reported>>

\* A controller that has nothing to report does not reply.
Answer_M(c) ==
    /\ Serving(c) /\ c \in requests
    /\ requests' = requests \ {c}
    /\ IF reports[c] = {} THEN UNCHANGED <<replies, reported, lost>> ELSE Reply(c)
    /\ UNCHANGED <<controllerVars, commands, infos, gone, clientVars, counters, told,
                   addressed, erased>>

\* The write of the reply may fail, which is only logged.
Answer(c) ==
    /\ Serving(c) /\ c \in requests
    /\ requests' = requests \ {c}
    /\ Reply(c)
    /\ UNCHANGED <<controllerVars, commands, infos, gone, clientVars, counters, told,
                   addressed, erased>>

-----------------------------------------------------------------------------
(* The client's listeners. *)

ProcessDeviceInfo(c) ==
    \E i \in infos[c] :
       /\ call = "none"
       /\ infos' = [infos EXCEPT ![c] = {}]
       /\ table' = [table EXCEPT ![c] = IF i = "gone" THEN "absent"
                                        ELSE IF @ = "absent" THEN "available" ELSE @]
       /\ UNCHANGED <<controllerVars, commands, requests, replies, gone,
                      devices, call, todo, waits, counters, history>>

\* Takes the place of a disposal not yet taken.
ProcessHeartbeat(c) ==
    /\ call = "none"
    /\ phase[c] = "running"
    /\ gone' = gone \ {c}
    /\ table' = [table EXCEPT ![c] = IF @ = "absent" THEN @ ELSE "available"]
    /\ UNCHANGED <<controllerVars, commands, requests, replies, infos,
                   devices, call, todo, waits, counters, history>>

ProcessHeartbeatGone(c) ==
    /\ call = "none"
    /\ c \in gone
    /\ gone' = gone \ {c}
    /\ table' = [table EXCEPT ![c] = "absent"]
    /\ erased' = IF phase[c] = "down" THEN erased ELSE erased \cup {c}
    /\ UNCHANGED <<controllerVars, commands, requests, replies, infos, devices, call, todo,
                   waits, counters, told, reported, lost, addressed>>

\* A controller without heartbeats is erased.
NoHeartbeat_M(c) ==
    /\ table[c] = "available"
    /\ table' = [table EXCEPT ![c] = "absent"]
    /\ UNCHANGED <<controllerVars, wire, devices, call, todo, waits, counters, history>>

NoHeartbeat(c) ==
    /\ table[c] = "available"
    /\ table' = [table EXCEPT ![c] = "unavailable"]
    /\ UNCHANGED <<controllerVars, wire, devices, call, todo, waits, counters, history>>

-----------------------------------------------------------------------------
(* The client's commands. *)

Give == given < MaxCommands /\ given' = given + 1

Available == {c \in Controllers : table[c] = "available"}
Listed == {c \in Controllers : devices[c] # {}}

\* Ask the available controllers, forget the devices of the others in the table.
CollectPowerDevices ==
    /\ todo' = Available
    /\ devices' = [c \in Controllers |-> IF table[c] = "unavailable" THEN {} ELSE devices[c]]

ListPowerDevices ==
    /\ call = "none"
    /\ Give
    /\ call' = "list-pd"
    /\ addressed' = {}
    /\ CollectPowerDevices
    /\ UNCHANGED <<controllerVars, wire, table, waits, starts,
                   told, reported, lost, erased>>

StartStop ==
    /\ call = "none"
    /\ Give
    /\ call' = "start-stop"
    /\ addressed' = {}
    /\ IF Listed = {} THEN CollectPowerDevices ELSE UNCHANGED <<todo, devices>>
    /\ UNCHANGED <<controllerVars, wire, table, waits, starts,
                   told, reported, lost, erased>>

\* When the write fails the controller is passed over.
SendPowerDevicesRequest ==
    \E c \in todo :
       /\ waits = {}
       /\ todo' = todo \ {c}
       /\ \/ /\ waits' = {c}
             /\ requests' = IF Serving(c) THEN requests \cup {c} ELSE requests
             /\ lost' = ~Serving(c)
          \/ UNCHANGED <<waits, requests, lost>>
       /\ UNCHANGED <<controllerVars, commands, replies, infos, gone, table, devices, call,
                      counters, told, reported, addressed, erased>>

\* The first sample is taken for the reply, whose controller is not compared.
ReceivePowerDevices_M ==
    \E c \in waits, b \in Controllers : \E ds \in replies[b] :
       /\ replies[c] # {}
       /\ waits' = {}
       /\ replies' = [r \in Controllers |-> {}]
       /\ devices' = [devices EXCEPT ![c] = {ds \cup UNION @}]
       /\ lost' = FALSE
       /\ UNCHANGED <<controllerVars, commands, requests, infos, gone, table, call, todo,
                      counters, told, reported, addressed, erased>>

\* All replies in the reader are taken, and dropped but for the one waited for.
ReceivePowerDevices ==
    \E c \in waits : \E ds \in replies[c] :
       /\ waits' = {}
       /\ replies' = [r \in Controllers |-> {}]
       /\ devices' = [devices EXCEPT ![c] = {ds \cup UNION @}]
       /\ lost' = FALSE
       /\ UNCHANGED <<controllerVars, commands, requests, infos, gone, table, call, todo,
                      counters, told, reported, addressed, erased>>

DisplayPowerDevices ==
    /\ call = "list-pd" /\ todo = {} /\ waits = {}
    /\ call' = "none"
    /\ UNCHANGED <<controllerVars, wire, table, devices, todo, waits, counters, history>>

\* In any order; the loop returns at a controller that is not in the table.
SendStartStopRequest ==
    /\ call = "start-stop" /\ todo = {} /\ waits = {}
    /\ call' = "none"
    /\ \E to \in SUBSET (Listed \cap Available) :
          /\ (\A c \in Listed : table[c] # "absent") => to = Listed \cap Available
          /\ addressed' = to
    /\ UNCHANGED <<controllerVars, wire, table, devices, todo, waits, counters, told,
                   reported, lost, erased>>

\* A command still untaken is not replaced by the next one.
SendControllerCmd_M(c) ==
    \E t \in {"stop", "resume", "terminate"} :
       /\ call = "none"
       /\ Give
       /\ table[c] # "absent"
       /\ IF Serving(c)
          THEN /\ commands' = [commands EXCEPT ![c] = IF @ = {} THEN {t} ELSE @]
               /\ told' = [told EXCEPT ![c] = t]
          ELSE UNCHANGED <<commands, told>>
       /\ UNCHANGED <<controllerVars, requests, replies, infos, gone, clientVars,
                      starts, reported, lost, addressed, erased>>

SendControllerCmd(c) ==
    \E t \in {"stop", "resume", "terminate"} :
       /\ call = "none"
       /\ Give
       /\ table[c] # "absent"
       /\ IF Serving(c)
          THEN /\ commands' = [commands EXCEPT ![c] = {t}]
               /\ told' = [told EXCEPT ![c] = t]
          ELSE UNCHANGED <<commands, told>>
       /\ UNCHANGED <<controllerVars, requests, replies, infos, gone, clientVars,
                      starts, reported, lost, addressed, erased>>

\* Another operator's list-pd.
OtherRequest(c) ==
    /\ Give
    /\ Serving(c)
    /\ requests' = requests \cup {c}
    /\ UNCHANGED <<controllerVars, commands, replies, infos, gone, clientVars, starts, history>>

-----------------------------------------------------------------------------
ControllerStep(c) ==
    \/ Start(c) \/ Serve(c) \/ DeviceChanges(c) \/ Exit(c) \/ Crash(c)
    \/ TakeCommand(c) \/ Answer(c)

ListenerStep(c) ==
    ProcessDeviceInfo(c) \/ ProcessHeartbeat(c) \/ ProcessHeartbeatGone(c) \/ NoHeartbeat(c)

\* What a command goes on to do once it is given.
CommandStep ==
    \/ SendPowerDevicesRequest \/ ReceivePowerDevices
    \/ DisplayPowerDevices \/ SendStartStopRequest

Next ==
    \/ \E c \in Controllers : ControllerStep(c) \/ ListenerStep(c)
    \/ \E c \in Controllers : SendControllerCmd(c) \/ OtherRequest(c)
    \/ ListPowerDevices \/ StartStop \/ CommandStep

(***************************************************************************)
(* Delivered requests are answered while the controller lives, and the     *)
(* thread of the commands goes on when it need not wait.                   *)
(***************************************************************************)
Fairness == WF_vars(CommandStep) /\ \A c \in Controllers : WF_vars(Answer(c))

Spec == Init /\ [][Next]_vars /\ Fairness

-----------------------------------------------------------------------------
TypeOK ==
    /\ phase \in [Controllers -> {"down", "starting", "running", "suspended", "ending"}]
    /\ reports \in [Controllers -> SUBSET Devices]
    /\ commands \in [Controllers -> SUBSET {"stop", "resume", "terminate"}]
    /\ requests \subseteq Controllers
    /\ replies \in [Controllers -> SUBSET SUBSET Devices]
    /\ infos \in [Controllers -> SUBSET {"alive", "gone"}]
    /\ gone \subseteq Controllers
    /\ table \in [Controllers -> {"absent", "available", "unavailable"}]
    /\ devices \in [Controllers -> SUBSET SUBSET Devices]
    /\ call \in {"none", "list-pd", "start-stop"}
    /\ todo \subseteq Controllers
    /\ waits \subseteq Controllers
    /\ starts \in [Controllers -> Nat]
    /\ given \in 0..MaxCommands
    /\ told \in [Controllers -> {"stop", "resume", "terminate"}]
    /\ reported \subseteq Controllers \X Devices
    /\ lost \in BOOLEAN
    /\ addressed \subseteq Controllers
    /\ erased \subseteq Controllers

(***************************************************************************)
(* A device is listed under a controller only if that controller itself    *)
(* has reported it, whatever other replies lie in the reader.              *)
(***************************************************************************)
ListedWereReported ==
    \A c \in Controllers : \A ds \in devices[c] : \A d \in ds : <<c, d>> \in reported

(***************************************************************************)
(* A controller that serves its operators does what it was last told: of   *)
(* suspend, resume and term given in a row the last one counts.            *)
(***************************************************************************)
LastCommandHolds ==
    \A c \in Controllers :
        /\ commands[c] = {} /\ phase[c] = "suspended" => told[c] = "stop"
        /\ commands[c] = {} /\ phase[c] = "running" => told[c] = "resume"

(***************************************************************************)
(* controllers_ holds the controllers "that are (and were) reachable by    *)
(* the CLI": one that lives, and whose DeviceInfo the client has handled,  *)
(* stays in the table however long it is silent or suspended.  Only one    *)
(* that was started again can be missing, when the disposal of its former  *)
(* process was handled too late.                                           *)
(***************************************************************************)
ReachableKnown ==
    \A c \in Controllers :
        phase[c] # "down" /\ infos[c] = {} /\ table[c] = "absent"
            => starts[c] > 1 /\ c \in erased

(***************************************************************************)
(* A command of the operator returns, unless a controller it asks is not   *)
(* serving (yet, or any more) or cannot write its reply: then the client   *)
(* waits with data_m_ locked.                                              *)
(***************************************************************************)
CommandReturns ==
    call # "none" ~> call = "none" \/ lost

(***************************************************************************)
(* The inductive invariant behind ListedWereReported and LastCommandHolds: *)
(* so were the devices in replies, a command not taken is the last one,    *)
(* and nothing is waited for, or lost, outside a command.                  *)
(***************************************************************************)
RepliesWereReported ==
    \A c \in Controllers : \A ds \in replies[c] : \A d \in ds : <<c, d>> \in reported

CommandsAreLast ==
    \A c \in Controllers :
        /\ commands[c] \subseteq {told[c]}
        /\ phase[c] \in {"down", "starting"} => commands[c] = {}
        /\ phase[c] = "starting" => told[c] = "resume"

IdleAsksNobody ==
    /\ call = "none" => todo = {} /\ waits = {}
    /\ waits = {} => ~lost

CommandsInv ==
    /\ TypeOK
    /\ RepliesWereReported /\ ListedWereReported
    /\ CommandsAreLast /\ LastCommandHolds
    /\ IdleAsksNobody

(***************************************************************************)
(* Behind ReachableKnown, for each controller: before its first start, and *)
(* while its first process lives, nothing says that it has gone; a         *)
(* DeviceInfo that says so is replaced by the next process's.              *)
(***************************************************************************)
KnownUnlessErased ==
    \A c \in Controllers :
        /\ starts[c] = 0 => phase[c] = "down"
        /\ starts[c] = 0 \/ (starts[c] = 1 /\ phase[c] # "down") => c \notin gone
        /\ c \in erased => starts[c] > 1
        /\ phase[c] # "down" => "gone" \notin infos[c]
        /\ phase[c] # "down" /\ infos[c] = {} => table[c] # "absent" \/ c \in erased

(***************************************************************************)
(* What CommandReturns rests on: unless the question or its reply is lost, *)
(* the one controller that is waited for has replied, or has the question  *)
(* and serves it.                                                          *)
(***************************************************************************)
WaitsForAnAnswer ==
    \A c \in waits :
        /\ waits = {c}
        /\ lost \/ replies[c] # {} \/ (c \in requests /\ Serving(c))

IInv == CommandsInv /\ KnownUnlessErased /\ WaitsForAnAnswer

=============================================================================
