---------------------------- MODULE OperatorCLIProofs ----------------------------
(***************************************************************************)
(* Proofs about OperatorCLI, for any set of controllers and devices: the   *)
(* client lists only what was reported, and the last command to a          *)
(* controller holds, whatever starts, exits, crashes and other operators   *)
(* come between.                                                           *)
(***************************************************************************)
EXTENDS ConnectDevices, FiniteSetTheorems, TLAPS

(***************************************************************************)
(* What the invariant says of the controllers and of the client's lists.   *)
(***************************************************************************)
ControllersOK == CommandsAreLast /\ LastCommandHolds
ListsOK == RepliesWereReported /\ ListedWereReported

LEMMA InitCommandsInv ==
    ASSUME Init
    PROVE  CommandsInv
<1>1. TypeOK
  <2>1. starts \in [Controllers -> Nat] /\ given \in 0..MaxCommands
    BY BoundsAssumption DEF Init
  <2>2. /\ phase \in [Controllers -> {"down", "starting", "running", "suspended", "ending"}]
        /\ table \in [Controllers -> {"absent", "available", "unavailable"}]
        /\ told \in [Controllers -> {"stop", "resume", "terminate"}]
    BY DEF Init
  <2>3. /\ reports \in [Controllers -> SUBSET Devices]
        /\ commands \in [Controllers -> SUBSET {"stop", "resume", "terminate"}]
        /\ replies \in [Controllers -> SUBSET SUBSET Devices]
        /\ infos \in [Controllers -> SUBSET {"alive", "gone"}]
        /\ devices \in [Controllers -> SUBSET SUBSET Devices]
    BY DEF Init
  <2> QED
    BY <2>1, <2>2, <2>3 DEF Init, TypeOK
<1>2. ControllersOK /\ ListsOK /\ IdleAsksNobody
  BY DEF Init, ControllersOK, CommandsAreLast, LastCommandHolds, ListsOK,
         RepliesWereReported, ListedWereReported, IdleAsksNobody
<1> QED
  BY <1>1, <1>2 DEF CommandsInv, ControllersOK, ListsOK

(***************************************************************************)
(* Steps that touch neither commands, phases nor what was told keep the    *)
(* controllers' part; steps that touch neither replies, lists nor what was *)
(* reported keep the lists' part.                                          *)
(***************************************************************************)
LEMMA ControllersKept ==
    ASSUME ControllersOK, UNCHANGED <<phase, commands, told>>
    PROVE  ControllersOK'
BY DEF ControllersOK, CommandsAreLast, LastCommandHolds

\* Lists stay reported when no reply and no list changes.
LEMMA ListsKept ==
    ASSUME ListsOK, UNCHANGED <<replies, devices, reported>>
    PROVE  ListsOK'
BY DEF ListsOK, RepliesWereReported, ListedWereReported

-----------------------------------------------------------------------------
(* Steps of the controllers. *)

\* Starts, exits and crashes leave only commands that are the last.
LEMMA LifeStep ==
    ASSUME CommandsInv, NEW c \in Controllers,
           Start(c) \/ Serve(c) \/ Exit(c) \/ Crash(c) \/ TakeCommand(c)
    PROVE  CommandsInv'
<1> USE DEF CommandsInv, TypeOK
<1>1. CASE Start(c)
  <2>1. TypeOK'
    BY <1>1, BoundsAssumption DEF Start, counters, clientVars
  <2>2. ControllersOK'
    BY <1>1 DEF Start, ControllersOK, CommandsAreLast, LastCommandHolds
  <2>3. ListsOK' /\ IdleAsksNobody'
    BY <1>1, ListsKept DEF Start, ListsOK, IdleAsksNobody, clientVars
  <2> QED
    BY <2>1, <2>2, <2>3 DEF ControllersOK, ListsOK
<1>2. CASE Serve(c)
  <2>1. TypeOK'
    BY <1>2 DEF Serve, wire, counters, clientVars, history
  <2>2. ControllersOK'
    BY <1>2 DEF Serve, wire, history, ControllersOK, CommandsAreLast, LastCommandHolds
  <2>3. ListsOK' /\ IdleAsksNobody'
    BY <1>2, ListsKept DEF Serve, wire, history, ListsOK, IdleAsksNobody, clientVars
  <2> QED
    BY <2>1, <2>2, <2>3 DEF ControllersOK, ListsOK
<1>3. ASSUME Down(c), infos' \in [Controllers -> SUBSET {"alive", "gone"}],
             gone' \subseteq Controllers
      PROVE  CommandsInv'
  <2>1. TypeOK'
    BY <1>3 DEF Down, counters, clientVars
  <2>2. ControllersOK'
    BY <1>3 DEF Down, ControllersOK, CommandsAreLast, LastCommandHolds
  <2>3. ListsOK' /\ IdleAsksNobody'
    BY <1>3, ListsKept DEF Down, ListsOK, IdleAsksNobody, clientVars
  <2> QED
    BY <2>1, <2>2, <2>3 DEF ControllersOK, ListsOK
<1>4. CASE Exit(c)
  BY <1>3, <1>4 DEF Exit
<1>5. CASE Crash(c)
  BY <1>3, <1>5 DEF Crash
<1>6. CASE TakeCommand(c)
  <2>1. TypeOK'
    BY <1>6 DEF TakeCommand, counters, clientVars, history
  <2>2. ControllersOK'
    BY <1>6 DEF TakeCommand, Serving, history, ControllersOK, CommandsAreLast,
                LastCommandHolds
  <2>3. ListsOK' /\ IdleAsksNobody'
    BY <1>6, ListsKept DEF TakeCommand, history, ListsOK, IdleAsksNobody, clientVars
  <2> QED
    BY <2>1, <2>2, <2>3 DEF ControllersOK, ListsOK
<1> QED
  BY <1>1, <1>2, <1>4, <1>5, <1>6

\* What a controller answers it has reported.
LEMMA ReportStep ==
    ASSUME CommandsInv, NEW c \in Controllers, DeviceChanges(c) \/ Answer(c) \/ OtherRequest(c)
    PROVE  CommandsInv'
<1> USE DEF CommandsInv, TypeOK
<1>1. CASE DeviceChanges(c)
  <2>1. TypeOK'
    BY <1>1 DEF DeviceChanges, wire, clientVars, counters, history
  <2>2. ControllersOK' /\ ListsOK' /\ IdleAsksNobody'
    BY <1>1, ControllersKept, ListsKept
       DEF DeviceChanges, wire, clientVars, history, ControllersOK, ListsOK, IdleAsksNobody
  <2> QED
    BY <2>1, <2>2 DEF ControllersOK, ListsOK
<1>2. CASE Answer(c)
  <2>1. TypeOK'
    <3>1. replies' \in [Controllers -> SUBSET SUBSET Devices]
      BY <1>2 DEF Answer, Reply, controllerVars
    <3>2. reported' \subseteq Controllers \X Devices
      <4>1. reports[c] \subseteq Devices
        OBVIOUS
      <4>2. reported' = reported \cup ({c} \X reports[c]) \/ reported' = reported
        BY <1>2 DEF Answer, Reply
      <4> QED
        BY <4>1, <4>2
    <3>3. lost' \in BOOLEAN
      BY <1>2, Zenon DEF Answer, Reply
    <3> QED
      BY <1>2, <3>1, <3>2, <3>3 DEF Answer, controllerVars, clientVars, counters
  <2>2. ControllersOK' /\ IdleAsksNobody'
    BY <1>2, ControllersKept
       DEF Answer, Reply, controllerVars, clientVars, ControllersOK, IdleAsksNobody
  <2>3. ListsOK'
    BY <1>2 DEF Answer, Reply, controllerVars, clientVars, ListsOK, RepliesWereReported,
                ListedWereReported
  <2> QED
    BY <2>1, <2>2, <2>3 DEF ControllersOK, ListsOK
<1>3. CASE OtherRequest(c)
  <2>1. TypeOK'
    BY <1>3, BoundsAssumption DEF OtherRequest, Give, controllerVars, clientVars, history
  <2>2. ControllersOK' /\ ListsOK' /\ IdleAsksNobody'
    BY <1>3, ControllersKept, ListsKept
       DEF OtherRequest, controllerVars, clientVars, history, ControllersOK, ListsOK,
           IdleAsksNobody
  <2> QED
    BY <2>1, <2>2 DEF ControllersOK, ListsOK
<1> QED
  BY <1>1, <1>2, <1>3

-----------------------------------------------------------------------------
(* Steps of the client. *)

LEMMA ListenerPreserves ==
    ASSUME CommandsInv, NEW c \in Controllers, ListenerStep(c)
    PROVE  CommandsInv'
<1> USE DEF CommandsInv, TypeOK
<1>1. TypeOK'
  <2>1. CASE ProcessDeviceInfo(c)
    BY <2>1 DEF ProcessDeviceInfo, controllerVars, counters, history
  <2>2. CASE ProcessHeartbeat(c)
    BY <2>2 DEF ProcessHeartbeat, controllerVars, counters, history
  <2>3. CASE ProcessHeartbeatGone(c)
    BY <2>3 DEF ProcessHeartbeatGone, controllerVars, counters, history
  <2>4. CASE NoHeartbeat(c)
    BY <2>4 DEF NoHeartbeat, controllerVars, wire, counters, history
  <2> QED
    BY <2>1, <2>2, <2>3, <2>4 DEF ListenerStep
<1>2. UNCHANGED <<phase, commands, told, replies, devices, reported, call, todo, waits, lost>>
  BY DEF ListenerStep, ProcessDeviceInfo, ProcessHeartbeat, ProcessHeartbeatGone,
         NoHeartbeat, controllerVars, wire, history
<1>3. ControllersOK' /\ ListsOK' /\ IdleAsksNobody'
  BY <1>2, ControllersKept, ListsKept DEF ControllersOK, ListsOK, IdleAsksNobody
<1> QED
  BY <1>1, <1>3 DEF ControllersOK, ListsOK

LEMMA GiveStep ==
    ASSUME CommandsInv, ListPowerDevices \/ StartStop
    PROVE  CommandsInv'
<1> USE DEF CommandsInv, TypeOK
<1>1. /\ \/ CollectPowerDevices
         \/ UNCHANGED <<todo, devices>>
      /\ call = "none" /\ call' \in {"list-pd", "start-stop"}
      /\ Give
      /\ addressed' = {}
      /\ UNCHANGED <<controllerVars, wire, table, waits, starts, told, reported, lost, erased>>
  BY DEF ListPowerDevices, StartStop
<1>2. TypeOK'
  BY <1>1, BoundsAssumption DEF CollectPowerDevices, Available, Give, controllerVars, wire
<1>3. ControllersOK' /\ IdleAsksNobody'
  BY <1>1, ControllersKept DEF controllerVars, wire, ControllersOK, IdleAsksNobody
<1>4. ListsOK'
  BY <1>1 DEF CollectPowerDevices, wire, ListsOK, RepliesWereReported, ListedWereReported
<1> QED
  BY <1>2, <1>3, <1>4 DEF ControllersOK, ListsOK

LEMMA CommandPreserves ==
    ASSUME CommandsInv, CommandStep
    PROVE  CommandsInv'
<1> USE DEF CommandsInv, TypeOK
<1>1. CASE SendPowerDevicesRequest
  <2>1. TypeOK'
    BY <1>1 DEF SendPowerDevicesRequest, controllerVars, counters
  <2>2. UNCHANGED <<phase, commands, told, replies, devices, reported>>
    BY <1>1 DEF SendPowerDevicesRequest, controllerVars
  <2>3. ControllersOK' /\ ListsOK'
    BY <2>2, ControllersKept, ListsKept DEF ControllersOK, ListsOK
  <2>4. IdleAsksNobody'
    BY <1>1 DEF SendPowerDevicesRequest, IdleAsksNobody
  <2> QED
    BY <2>1, <2>3, <2>4 DEF ControllersOK, ListsOK
<1>2. CASE ReceivePowerDevices
  <2>1. TypeOK'
    <3>1. PICK c \in waits, ds \in SUBSET Devices :
             devices' = [devices EXCEPT ![c] = {ds \cup UNION @}]
      BY <1>2 DEF ReceivePowerDevices
    <3>2. ds \cup UNION devices[c] \subseteq Devices
      OBVIOUS
    <3>3. devices' \in [Controllers -> SUBSET SUBSET Devices]
      BY <3>1, <3>2
    <3>4. replies' \in [Controllers -> SUBSET SUBSET Devices]
      BY <1>2 DEF ReceivePowerDevices
    <3> QED
      BY <1>2, <3>3, <3>4, ZenonT(30) DEF ReceivePowerDevices, controllerVars, counters
  <2>2. ControllersOK' /\ IdleAsksNobody'
    BY <1>2, ControllersKept
       DEF ReceivePowerDevices, controllerVars, ControllersOK, IdleAsksNobody
  <2>3. ListsOK'
    BY <1>2 DEF ReceivePowerDevices, ListsOK, RepliesWereReported, ListedWereReported
  <2> QED
    BY <2>1, <2>2, <2>3 DEF ControllersOK, ListsOK
<1>3. CASE DisplayPowerDevices \/ SendStartStopRequest
  <2>1. TypeOK'
    BY <1>3 DEF DisplayPowerDevices, SendStartStopRequest, Available, Listed,
                controllerVars, wire, counters, history
  <2>2. ControllersOK' /\ ListsOK' /\ IdleAsksNobody'
    BY <1>3, ControllersKept, ListsKept
       DEF DisplayPowerDevices, SendStartStopRequest, controllerVars, wire, history,
           ControllersOK, ListsOK, IdleAsksNobody
  <2> QED
    BY <2>1, <2>2 DEF ControllersOK, ListsOK
<1> QED
  BY <1>1, <1>2, <1>3 DEF CommandStep

\* A new command replaces the untaken one of its controller.
LEMMA ControllerCmdStep ==
    ASSUME CommandsInv, NEW c \in Controllers, SendControllerCmd(c)
    PROVE  CommandsInv'
<1> USE DEF CommandsInv, TypeOK
<1>1. TypeOK'
  BY BoundsAssumption DEF SendControllerCmd, Give, controllerVars, clientVars
<1>2. ControllersOK'
  BY DEF SendControllerCmd, Serving, controllerVars, ControllersOK, CommandsAreLast,
         LastCommandHolds
<1>3. ListsOK' /\ IdleAsksNobody'
  BY ListsKept DEF SendControllerCmd, clientVars, ListsOK, IdleAsksNobody
<1> QED
  BY <1>1, <1>2, <1>3 DEF ControllersOK, ListsOK

-----------------------------------------------------------------------------
(***************************************************************************)
(* The inductive invariant holds in every reachable state.                 *)
(***************************************************************************)
THEOREM CommandsInductive == Spec => []CommandsInv
<1>1. Init => CommandsInv
  BY InitCommandsInv
<1>2. CommandsInv /\ [Next]_vars => CommandsInv'
  <2> SUFFICES ASSUME CommandsInv, [Next]_vars
               PROVE  CommandsInv'
    OBVIOUS
  <2>1. CASE \E c \in Controllers : ControllerStep(c) \/ ListenerStep(c)
    BY <2>1, LifeStep, ReportStep, ListenerPreserves DEF ControllerStep
  <2>2. CASE \E c \in Controllers : SendControllerCmd(c) \/ OtherRequest(c)
    BY <2>2, ControllerCmdStep, ReportStep
  <2>3. CASE ListPowerDevices \/ StartStop \/ CommandStep
    BY <2>3, GiveStep, CommandPreserves
  <2>4. CASE UNCHANGED vars
    <3>1. TypeOK'
      BY <2>4 DEF CommandsInv, TypeOK, vars, controllerVars, wire, clientVars, counters, history
    <3>2. ControllersOK' /\ ListsOK' /\ IdleAsksNobody'
      BY <2>4, ControllersKept, ListsKept
         DEF CommandsInv, vars, controllerVars, wire, clientVars, history, ControllersOK, ListsOK,
             IdleAsksNobody
    <3> QED
      BY <3>1, <3>2 DEF CommandsInv, ControllersOK, ListsOK
  <2> QED
    BY <2>1, <2>2, <2>3, <2>4 DEF Next
<1> QED
  BY <1>1, <1>2, PTL DEF Spec

(***************************************************************************)
(* A device is listed under a controller only if that controller itself    *)
(* has reported it, whatever other replies lie in the reader.              *)
(***************************************************************************)
THEOREM ListsSafe == Spec => []ListedWereReported
<1>1. CommandsInv => ListedWereReported
  BY DEF CommandsInv
<1> QED
  BY <1>1, CommandsInductive, PTL

(***************************************************************************)
(* Of the commands given to a controller the last one holds.               *)
(***************************************************************************)
THEOREM CommandsHold == Spec => []LastCommandHolds
<1>1. CommandsInv => LastCommandHolds
  BY DEF CommandsInv
<1> QED
  BY <1>1, CommandsInductive, PTL

-----------------------------------------------------------------------------
(* The controllers that are known, and the answer that is waited for. *)

(***************************************************************************)
(* A controller that starts is announced, and what its former process left *)
(* as its DeviceInfo is replaced; before a first process has exited nothing*)
(* says that it has.                                                       *)
(***************************************************************************)
LEMMA LifeKnown ==
    ASSUME TypeOK, KnownUnlessErased, NEW c \in Controllers, Start(c) \/ Exit(c) \/ Crash(c)
    PROVE  KnownUnlessErased'
<1> USE DEF TypeOK, KnownUnlessErased
<1>1. CASE Start(c)
  <2>1. /\ phase[c] = "down"
        /\ starts' = [starts EXCEPT ![c] = @ + 1]
        /\ phase' = [phase EXCEPT ![c] = "starting"]
        /\ infos' = [infos EXCEPT ![c] = {"alive"}]
        /\ erased' = erased \ {c}
        /\ UNCHANGED <<gone, table>>
    BY <1>1 DEF Start, clientVars
  <2>2. starts[c] \in Nat /\ starts'[c] = starts[c] + 1
    BY <2>1
  <2>3. starts'[c] # 0 /\ (starts'[c] = 1 => c \notin gone)
    BY <2>2
  <2>4. infos'[c] = {"alive"} /\ c \notin erased'
    BY <2>1
  <2>5. \A b \in Controllers \ {c} :
           /\ starts'[b] = starts[b] /\ phase'[b] = phase[b] /\ infos'[b] = infos[b]
           /\ b \in erased' <=> b \in erased
    BY <2>1
  <2> QED
    BY <2>1, <2>3, <2>4, <2>5
<1>2. CASE Exit(c) \/ Crash(c)
  <2>1. /\ phase[c] # "down"
        /\ phase' = [phase EXCEPT ![c] = "down"]
        /\ \A b \in Controllers \ {c} : infos'[b] = infos[b] /\ (b \in gone' => b \in gone)
        /\ UNCHANGED <<starts, table, erased>>
    <3>1. CASE Exit(c)
      BY <3>1 DEF Exit, Down, clientVars, counters
    <3>2. CASE Crash(c)
      BY <3>2 DEF Crash, Down, clientVars, counters
    <3> QED
      BY <1>2, <3>1, <3>2
  <2> QED
    BY <2>1
<1> QED
  BY <1>1, <1>2

(***************************************************************************)
(* The client's listeners erase a controller only when it has gone, or one *)
(* that was started again when its former process had.                     *)
(***************************************************************************)
LEMMA ListenerKnown ==
    ASSUME TypeOK, KnownUnlessErased, NEW c \in Controllers, ListenerStep(c)
    PROVE  KnownUnlessErased'
<1> USE DEF TypeOK, KnownUnlessErased
<1>1. CASE ProcessDeviceInfo(c)
  <2>1. PICK i \in infos[c] :
           /\ infos' = [infos EXCEPT ![c] = {}]
           /\ table' = [table EXCEPT ![c] = IF i = "gone" THEN "absent"
                                            ELSE IF @ = "absent" THEN "available" ELSE @]
           /\ UNCHANGED <<phase, gone, starts, erased>>
    BY <1>1 DEF ProcessDeviceInfo, controllerVars, counters, history
  <2> QED
    BY <2>1
<1>2. CASE ProcessHeartbeat(c)
  BY <1>2 DEF ProcessHeartbeat, controllerVars, counters, history
<1>3. CASE ProcessHeartbeatGone(c)
  <2>1. /\ c \in gone /\ gone' = gone \ {c}
        /\ table' = [table EXCEPT ![c] = "absent"]
        /\ erased' = IF phase[c] = "down" THEN erased ELSE erased \cup {c}
        /\ UNCHANGED <<phase, infos, starts>>
    BY <1>3 DEF ProcessHeartbeatGone, controllerVars, counters
  <2>2. phase[c] # "down" => starts[c] > 1
    <3>1. starts[c] \in Nat
      OBVIOUS
    <3> QED
      BY <2>1, <3>1
  <2> QED
    BY <2>1, <2>2
<1>4. CASE NoHeartbeat(c)
  BY <1>4 DEF NoHeartbeat, controllerVars, wire, counters, history
<1> QED
  BY <1>1, <1>2, <1>3, <1>4 DEF ListenerStep

\* A controller that lives is known unless a former process's disposal comes too late.
LEMMA KnownStep ==
    ASSUME TypeOK, KnownUnlessErased, [Next]_vars
    PROVE  KnownUnlessErased'
<1>1. CASE UNCHANGED <<starts, gone, infos, table, erased>> /\ UNCHANGED phase
  BY <1>1 DEF KnownUnlessErased
<1>2. CASE UNCHANGED vars
  BY <1>1, <1>2 DEF vars, controllerVars, wire, clientVars, counters, history
<1>3. ASSUME NEW c \in Controllers, ControllerStep(c)
      PROVE  KnownUnlessErased'
  <2>1. CASE Serve(c) \/ TakeCommand(c)
    <3>1. /\ phase[c] # "down" /\ \A b \in Controllers \ {c} : phase'[b] = phase[b]
          /\ UNCHANGED <<starts, gone, infos, table, erased>>
      BY <2>1 DEF Serve, TakeCommand, Serving, TypeOK, wire, clientVars, counters, history
    <3>2. starts[c] # 0
      BY <3>1 DEF KnownUnlessErased
    <3> QED
      BY <3>1, <3>2 DEF KnownUnlessErased
  <2>2. CASE DeviceChanges(c) \/ Answer(c)
    BY <1>1, <2>2 DEF DeviceChanges, Answer, controllerVars, wire, clientVars, counters, history
  <2> QED
    BY <1>3, <2>1, <2>2, LifeKnown DEF ControllerStep
<1>4. CASE \E c \in Controllers : SendControllerCmd(c) \/ OtherRequest(c)
  BY <1>1, <1>4 DEF SendControllerCmd, OtherRequest, controllerVars, clientVars, history
<1>5. CASE ListPowerDevices \/ StartStop
  BY <1>1, <1>5 DEF ListPowerDevices, StartStop, controllerVars, wire
<1>6. CASE CommandStep
  BY <1>1, <1>6 DEF CommandStep, SendPowerDevicesRequest, ReceivePowerDevices,
                    DisplayPowerDevices, SendStartStopRequest, controllerVars, wire, counters,
                    history
<1> QED
  BY <1>2, <1>3, <1>4, <1>5, <1>6, ListenerKnown DEF Next

(***************************************************************************)
(* The question that is asked reaches a controller that serves it, or is   *)
(* lost at once, and stays with it until it is answered.                   *)
(***************************************************************************)
LEMMA AnswerStep ==
    ASSUME TypeOK, WaitsForAnAnswer, [Next]_vars
    PROVE  WaitsForAnAnswer'
<1> USE DEF TypeOK, WaitsForAnAnswer
<1>1. CASE UNCHANGED <<waits, lost, replies, requests, phase>>
  BY <1>1 DEF Serving
<1>2. CASE UNCHANGED vars
  BY <1>1, <1>2 DEF vars, controllerVars, wire, clientVars, history
<1>3. ASSUME NEW c \in Controllers, ControllerStep(c)
      PROVE  WaitsForAnAnswer'
  <2>1. CASE Start(c) \/ Serve(c) \/ TakeCommand(c)
    <3>1. /\ UNCHANGED <<waits, lost, replies, requests>>
          /\ \A b \in Controllers : Serving(b) => Serving(b)'
      BY <2>1 DEF Start, Serve, TakeCommand, Serving, wire, clientVars, history
    <3> QED
      BY <3>1
  <2>2. CASE Exit(c) \/ Crash(c)
    <3>1. /\ UNCHANGED <<waits, replies>>
          /\ lost' = (lost \/ c \in waits)
          /\ requests' = requests \ {c}
          /\ \A b \in Controllers \ {c} : phase'[b] = phase[b]
      BY <2>2 DEF Exit, Crash, Down, clientVars
    <3>2. CASE c \in waits
      BY <3>1, <3>2
    <3>3. CASE c \notin waits
      BY <3>1, <3>3 DEF Serving
    <3> QED
      BY <3>2, <3>3
  <2>3. CASE Answer(c)
    <3>1. /\ UNCHANGED <<waits, phase>>
          /\ requests' = requests \ {c}
          /\ Reply(c)
      BY <2>3 DEF Answer, controllerVars, clientVars
    <3>2. CASE c \in waits
      <4>1. lost' \/ replies'[c] = {reports[c]}
        BY <3>1, <3>2 DEF Reply
      <4>2. waits' = {c}
        BY <3>1, <3>2
      <4> QED
        BY <4>1, <4>2
    <3>3. CASE c \notin waits
      <4>1. \A b \in Controllers \ {c} : replies'[b] = replies[b]
        BY <3>1 DEF Reply
      <4>2. ASSUME NEW b \in waits
            PROVE  b # c /\ b \in Controllers /\ (lost => lost')
        BY <3>1, <3>3 DEF Reply
      <4> QED
        BY <3>1, <3>3, <4>1, <4>2 DEF Serving
    <3> QED
      BY <3>2, <3>3
  <2>4. CASE DeviceChanges(c)
    BY <1>1, <2>4 DEF DeviceChanges, wire, clientVars, history
  <2> QED
    BY <1>3, <2>1, <2>2, <2>3, <2>4 DEF ControllerStep
<1>4. CASE \E c \in Controllers : ListenerStep(c)
  BY <1>1, <1>4 DEF ListenerStep, ProcessDeviceInfo, ProcessHeartbeat, ProcessHeartbeatGone,
                    NoHeartbeat, controllerVars, wire, history
<1>5. CASE \E c \in Controllers : SendControllerCmd(c)
  BY <1>1, <1>5 DEF SendControllerCmd, controllerVars, clientVars
<1>6. CASE \E c \in Controllers : OtherRequest(c)
  BY <1>6 DEF OtherRequest, Serving, controllerVars, clientVars, history
<1>7. CASE ListPowerDevices \/ StartStop
  BY <1>1, <1>7 DEF ListPowerDevices, StartStop, controllerVars, wire
<1>8. CASE SendPowerDevicesRequest
  <2>1. PICK c \in todo :
           \/ /\ waits' = {c}
              /\ requests' = IF Serving(c) THEN requests \cup {c} ELSE requests
              /\ lost' = ~Serving(c)
           \/ UNCHANGED <<waits, requests, lost>>
    BY <1>8 DEF SendPowerDevicesRequest
  <2>2. UNCHANGED <<phase, replies>>
    BY <1>8 DEF SendPowerDevicesRequest, controllerVars
  <2>3. CASE waits' = {c} /\ lost' = ~Serving(c) /\ requests' = IF Serving(c) THEN requests \cup {c} ELSE requests
    BY <2>2, <2>3 DEF Serving
  <2> QED
    BY <1>1, <2>1, <2>2, <2>3
<1>9. CASE ReceivePowerDevices
  BY <1>9 DEF ReceivePowerDevices
<1>10. CASE DisplayPowerDevices \/ SendStartStopRequest
  BY <1>1, <1>10 DEF DisplayPowerDevices, SendStartStopRequest, controllerVars, wire, history
<1> QED
  BY <1>2, <1>3, <1>4, <1>5, <1>6, <1>7, <1>8, <1>9, <1>10 DEF Next, CommandStep

(***************************************************************************)
(* The whole inductive invariant of the operator's client.                 *)
(***************************************************************************)
THEOREM Inductive == Spec => []IInv
<1>1. Init => KnownUnlessErased /\ WaitsForAnAnswer
  BY DEF Init, KnownUnlessErased, WaitsForAnAnswer
<1>2. /\ CommandsInv /\ KnownUnlessErased /\ [Next]_vars => KnownUnlessErased'
      /\ CommandsInv /\ WaitsForAnAnswer /\ [Next]_vars => WaitsForAnAnswer'
  BY KnownStep, AnswerStep DEF CommandsInv
<1>3. CommandsInv /\ KnownUnlessErased /\ WaitsForAnAnswer => IInv
  BY DEF IInv
<1> QED
  BY <1>1, <1>2, <1>3, CommandsInductive, PTL DEF Spec

(***************************************************************************)
(* A controller that lives, and whose DeviceInfo the client has handled, is*)
(* in the table of controllers; only one that was started again can be     *)
(* missing, when a disposal by its former process was handled too late.    *)
(***************************************************************************)
THEOREM KnownSafe == Spec => []ReachableKnown
<1>1. IInv => ReachableKnown
  <2> SUFFICES ASSUME IInv, NEW c \in Controllers,
                      phase[c] # "down", infos[c] = {}, table[c] = "absent"
               PROVE  starts[c] > 1 /\ c \in erased
    BY DEF ReachableKnown
  <2>1. c \in erased /\ (c \in erased => starts[c] > 1)
    BY DEF IInv, KnownUnlessErased
  <2> QED
    BY <2>1
<1> QED
  BY <1>1, Inductive, PTL

(***************************************************************************)
(* While nothing is lost a command never waits in vain: the controller it  *)
(* waits for has replied, or holds the question and still serves it.       *)
(***************************************************************************)
THEOREM AnswerIsDue == Spec => []WaitsForAnAnswer
<1>1. IInv => WaitsForAnAnswer
  BY DEF IInv
<1> QED
  BY <1>1, Inductive, PTL

-----------------------------------------------------------------------------
(* connect-pd (ConnectDevices), for any devices and any number of calls. *)

LEMMA KnownKept ==
    ASSUME KnownOK, OthersC
    PROVE  KnownOK'
<1> USE DEF KnownOK
<1>1. ASSUME NEW c \in Controllers,
             \/ ControllerStep(c) \/ ListenerStep(c) \/ OtherRequest(c)
             \/ SendControllerCmd(c)
      PROVE  KnownOK'
  <2>1. CASE Start(c) \/ Serve(c) \/ TakeCommand(c)
    BY <2>1 DEF Start, Serve, TakeCommand, clientVars, wire
  <2>2. CASE DeviceChanges(c)
    BY <2>2 DEF DeviceChanges, clientVars, wire
  <2>3. CASE Exit(c) \/ Crash(c)
    BY <2>3 DEF Exit, Crash, Down, clientVars
  <2>4. CASE Answer(c)
    BY <2>4 DEF Answer, Reply, clientVars, controllerVars
  <2>5. CASE ListenerStep(c)
    BY <2>5 DEF ListenerStep, ProcessDeviceInfo, ProcessHeartbeat, ProcessHeartbeatGone,
                NoHeartbeat, controllerVars, wire
  <2>6. CASE OtherRequest(c) \/ SendControllerCmd(c)
    BY <2>6 DEF OtherRequest, SendControllerCmd, controllerVars, clientVars
  <2> QED
    BY <1>1, <2>1, <2>2, <2>3, <2>4, <2>5, <2>6 DEF ControllerStep
<1>2. CASE ListPowerDevices \/ StartStop
  BY <1>2 DEF ListPowerDevices, StartStop, CollectPowerDevices, controllerVars, wire
<1>3. CASE CommandStep
  <2>1. CASE ReceivePowerDevices
    <3>1. PICK b \in waits : \E ds \in replies[b] :
             /\ replies' = [r \in Controllers |-> {}]
             /\ devices' = [devices EXCEPT ![b] = {ds \cup UNION @}]
             /\ reports' = reports
      BY <2>1 DEF ReceivePowerDevices, controllerVars
    <3>2. PICK ds \in replies[b] : devices' = [devices EXCEPT ![b] = {ds \cup UNION @}]
      BY <3>1
    <3>3. CASE b \in Controllers
      <4>1. ds \cup UNION devices[b] \in SUBSET Devices
        BY <3>2, <3>3
      <4> QED
        BY <3>1, <3>2, <4>1
    <3>4. CASE b \notin Controllers
      BY <3>1, <3>2, <3>4
    <3> QED
      BY <3>3, <3>4
  <2>2. CASE SendPowerDevicesRequest \/ DisplayPowerDevices \/ SendStartStopRequest
    BY <2>2 DEF SendPowerDevicesRequest, DisplayPowerDevices, SendStartStopRequest,
                controllerVars, wire
  <2> QED
    BY <1>3, <2>1, <2>2 DEF CommandStep
<1> QED
  BY <1>1, <1>2, <1>3 DEF OthersC, OtherCommand

\* What of IInvC the steps of the walk can disturb, and what they cannot.
CablesOK == ConnectionsFit /\ PortsUsedOnce /\ CablesHaveTwoEnds

\* A cable that can_connect allows fits the ports at both ends.
LEMMA ConnectFits ==
    ASSUME TypeOKC, ConnectionsFit,
           NEW a \in Devices, NEW b \in Devices, a # b, CanConnect(a, b), Connect(a, b)
    PROVE  /\ connections' \in [Devices -> SUBSET Devices]
           /\ ConnectionsFit'
<1>1. connections' \in [Devices -> SUBSET Devices]
  BY DEF TypeOKC, Connect
<1>2. \A d \in Devices :
         connections'[d] = IF d = a THEN connections[d] \cup {b}
                           ELSE IF d = b THEN connections[d] \cup {a} ELSE connections[d]
  BY DEF TypeOKC, Connect
<1>3. ASSUME NEW d \in SinglePort, NEW x \in connections'[d], NEW y \in connections'[d]
      PROVE  x = y
  <2>1. d \in Devices
    BY SinglePortAssumption
  <2>2. CASE d = a
    <3>1. connections[a] = {}
      BY <2>2 DEF CanConnect
    <3>2. connections'[d] = {b}
      BY <1>2, <2>1, <2>2, <3>1
    <3> QED
      BY <1>3, <3>2
  <2>3. CASE d = b
    <3>1. connections[b] = {}
      BY <2>3 DEF CanConnect
    <3>2. connections'[d] = {a}
      BY <1>2, <2>1, <2>3, <3>1
    <3> QED
      BY <1>3, <3>2
  <2>4. CASE d # a /\ d # b
    BY <1>2, <1>3, <2>1, <2>4 DEF ConnectionsFit
  <2> QED
    BY <2>2, <2>3, <2>4
<1>4. ASSUME NEW x \in Devices, NEW y \in Devices, y \in connections'[x]
      PROVE  x # y /\ x \in connections'[y]
  <2>1. \/ y \in connections[x]
        \/ x = a /\ y = b
        \/ x = b /\ y = a
    BY <1>2, <1>4
  <2>2. CASE y \in connections[x]
    <3>1. x # y /\ x \in connections[y]
      BY <2>2 DEF ConnectionsFit
    <3> QED
      BY <1>2, <3>1
  <2> QED
    BY <1>2, <2>1, <2>2
<1> QED
  BY <1>1, <1>3, <1>4 DEF ConnectionsFit

\* The walk over the pairs goes on, whatever the operator answers.
LEMMA AskPreserves ==
    ASSUME IInvC, AskForConnection
    PROVE  IInvC'
<1> DEFINE n == Len(localPds)
<1>1. n \in Nat /\ it1 \in Nat /\ it2 \in Nat /\ it1 < it2 /\ it2 <= n /\ it1 >= 1
  BY DEF IInvC, TypeOKC, AskForConnection, NoMorePairs
<1>2. /\ localPds[it1] \in Devices /\ localPds[it2] \in Devices
      /\ localPds[it1] # localPds[it2]
  <2>1. it1 \in 1..n /\ it2 \in 1..n /\ it1 # it2
    BY <1>1
  <2>2. localPds[it1] \in Devices /\ localPds[it2] \in Devices
    BY <2>1 DEF IInvC, TypeOKC
  <2> QED
    BY <2>1, <2>2 DEF IInvC, WalkedOnce
<1>3. connections' \in [Devices -> SUBSET Devices] /\ ConnectionsFit'
  <2>1. CASE /\ CanConnect(localPds[it1], localPds[it2])
             /\ Connect(localPds[it1], localPds[it2])
    BY <1>2, <2>1, ConnectFits DEF IInvC
  <2>2. CASE UNCHANGED connections
    BY <2>2 DEF IInvC, TypeOKC, ConnectionsFit
  <2> QED
    BY <2>1, <2>2 DEF AskForConnection
<1>4. it1' \in Nat /\ it1' >= 1 /\ it2' \in Nat /\ it1' < it2'
  BY <1>1 DEF AskForConnection
<1>5. UNCHANGED <<reports, replies, devices, powerDevices, dialog, localPds, topologies>>
  BY DEF AskForConnection, vars, controllerVars, wire, clientVars
<1>6. KnownOK' /\ WalkedOnce' /\ PortsUsedOnce' /\ CablesHaveTwoEnds'
  BY <1>5 DEF IInvC, KnownOK, WalkedOnce, PortsUsedOnce, CablesHaveTwoEnds
<1>7. TypeOKC'
  BY <1>3, <1>4, <1>5 DEF IInvC, TypeOKC
<1> QED
  BY <1>3, <1>6, <1>7 DEF IInvC

LEMMA ConsolidatePreserves ==
    ASSUME IInvC, ConsolidatePowerDevices
    PROVE  IInvC'
<1>1. powerDevices' \subseteq Devices
  BY DEF IInvC, KnownOK, TypeOKC, ConsolidatePowerDevices
<1>2. localPds' \in Seq(Devices) /\ WalkedOnce'
  <2>1. PICK s \in Orders(powerDevices') : localPds' = s
    BY DEF ConsolidatePowerDevices
  <2>2. Cardinality(powerDevices') \in Nat
    BY <1>1, DevicesAssumption, FS_Subset, FS_CardinalityType
  <2> QED
    BY <1>1, <2>1, <2>2 DEF Orders, WalkedOnce
<1>3. TypeOKC'
  BY <1>1, <1>2 DEF IInvC, TypeOKC, ConsolidatePowerDevices
<1>4. UNCHANGED <<reports, replies, devices, connections, topologies>>
  BY DEF ConsolidatePowerDevices, controllerVars, wire
<1>5. KnownOK' /\ ConnectionsFit' /\ PortsUsedOnce' /\ CablesHaveTwoEnds'
  BY <1>4 DEF IInvC, KnownOK, ConnectionsFit, PortsUsedOnce, CablesHaveTwoEnds
<1> QED
  BY <1>2, <1>3, <1>5 DEF IInvC

\* A topology has the cables of power_connections_ at that moment.
LEMMA SendPreserves ==
    ASSUME IInvC, SendTopology
    PROVE  IInvC'
<1>1. /\ UNCHANGED <<reports, replies, devices, powerDevices, connections, localPds, it1, it2>>
      /\ dialog' = "no"
  BY DEF SendTopology, vars, controllerVars, wire, clientVars
<1>2. /\ topologies' \in [Controllers -> SUBSET [Devices -> SUBSET Devices]]
      /\ \A c \in Controllers : topologies'[c] \subseteq topologies[c] \cup {connections}
  BY DEF IInvC, TypeOKC, SendTopology
<1>3. PortsUsedOnce' /\ CablesHaveTwoEnds'
  <2>1. ASSUME NEW c \in Controllers, NEW t \in topologies'[c]
        PROVE  /\ \A d \in SinglePort : \A a, b \in t[d] : a = b
               /\ \A a, b \in Devices : b \in t[a] => a # b /\ a \in t[b]
    <3>1. t = connections \/ t \in topologies[c]
      BY <1>2, <2>1
    <3> QED
      BY <3>1 DEF IInvC, ConnectionsFit, PortsUsedOnce, CablesHaveTwoEnds
  <2> QED
    BY <2>1 DEF PortsUsedOnce, CablesHaveTwoEnds
<1>4. KnownOK' /\ TypeOKC' /\ ConnectionsFit' /\ WalkedOnce'
  BY <1>1, <1>2 DEF IInvC, KnownOK, TypeOKC, ConnectionsFit, WalkedOnce
<1> QED
  BY <1>3, <1>4 DEF IInvC

(***************************************************************************)
(* IInvC is inductive: whatever is reported, answered and sent meanwhile,  *)
(* the cables laid fit the ports.                                          *)
(***************************************************************************)
THEOREM InductiveC == SpecC => []IInvC
<1>1. ASSUME InitC
      PROVE  IInvC
  <2>1. KnownOK /\ TypeOKC
    BY <1>1 DEF InitC, Init, KnownOK, TypeOKC
  <2>2. ConnectionsFit /\ WalkedOnce
    BY <1>1, SinglePortAssumption DEF InitC, ConnectionsFit, WalkedOnce
  <2>3. PortsUsedOnce /\ CablesHaveTwoEnds
    BY <1>1 DEF InitC, PortsUsedOnce, CablesHaveTwoEnds
  <2> QED
    BY <2>1, <2>2, <2>3 DEF IInvC
<1>2. ASSUME IInvC, [NextC]_varsC
      PROVE  IInvC'
  <2>1. CASE UNCHANGED connectVars /\ KnownOK'
    BY <1>2, <2>1 DEF connectVars, IInvC, TypeOKC, ConnectionsFit, WalkedOnce, PortsUsedOnce,
                      CablesHaveTwoEnds
  <2>2. CASE OthersC
    BY <1>2, <2>1, <2>2, KnownKept DEF OthersC, IInvC
  <2>3. CASE UNCHANGED varsC
    BY <1>2, <2>1, <2>3 DEF varsC, vars, controllerVars, wire, clientVars, IInvC, KnownOK
  <2>4. CASE StartConnecting
    <3>1. /\ UNCHANGED <<reports, replies>>
          /\ devices' \in [Controllers -> SUBSET SUBSET Devices]
      BY <1>2, <2>4 DEF StartConnecting, CollectPowerDevices, controllerVars, wire, IInvC, KnownOK
    <3>2. /\ UNCHANGED <<powerDevices, connections, localPds, it1, it2, topologies>>
          /\ dialog' = "gather"
      BY <2>4 DEF StartConnecting
    <3> QED
      BY <1>2, <3>1, <3>2 DEF IInvC, KnownOK, TypeOKC, ConnectionsFit, WalkedOnce,
                              PortsUsedOnce, CablesHaveTwoEnds
  <2> QED
    BY <1>2, <2>2, <2>3, <2>4, ConsolidatePreserves, AskPreserves, SendPreserves DEF NextC
<1> QED
  BY <1>1, <1>2, PTL DEF SpecC

(***************************************************************************)
(* No topology sent uses the port of a source or load twice.               *)
(***************************************************************************)
THEOREM PortsSafe == SpecC => []PortsUsedOnce
<1>1. IInvC => PortsUsedOnce
  BY DEF IInvC
<1> QED
  BY <1>1, InductiveC, PTL

(***************************************************************************)
(* Each cable of a topology sent is named at both its ends.                *)
(***************************************************************************)
THEOREM CablesSafe == SpecC => []CablesHaveTwoEnds
<1>1. IInvC => CablesHaveTwoEnds
  BY DEF IInvC
<1> QED
  BY <1>1, InductiveC, PTL

=============================================================================
