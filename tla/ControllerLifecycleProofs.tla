------------------------- MODULE ControllerLifecycleProofs -------------------------
(***************************************************************************)
(* The invariants of a controller's process, for every number of failures. *)
(***************************************************************************)
EXTENDS ControllerLifecycle, TLAPS

(***************************************************************************)
(* Where the entities that matter stand in Setup (the order of main,       *)
(* Controller::init, CLIServer::init_tms and init_sim).                    *)
(***************************************************************************)
LEMMA Order ==
    /\ Len(Setup) = 16
    /\ \A i \in 1..16 :
          /\ Setup[i] \in Entities
          /\ Setup[i] = "announced" <=> i = 7
          /\ Setup[i] = "requestWriter" <=> i = 9
          /\ Setup[i] = "commandReader" => i = 13
          /\ Setup[i] = "answerWriter" => i = 14
          /\ Setup[i] = "heartbeatWriter" => i = 5
<1>1. Len(Setup) = 16
  BY DEF Setup
<1>2. \A i \in 1..16 : Setup[i] \in Entities
  BY <1>1 DEF Entities
<1>3. \A i \in 1..16 : Setup[i] = "announced" <=> i = 7
  BY DEF Setup
<1>4. \A i \in 1..16 : Setup[i] = "requestWriter" <=> i = 9
  BY DEF Setup
<1>5. \A i \in 1..16 : Setup[i] = "commandReader" => i = 13
  BY DEF Setup
<1>6. \A i \in 1..16 : Setup[i] = "answerWriter" => i = 14
  BY DEF Setup
<1>7. \A i \in 1..16 : Setup[i] = "heartbeatWriter" => i = 5
  BY DEF Setup
<1>8. QED  BY <1>1, <1>2, <1>3, <1>4, <1>5, <1>6, <1>7

(***************************************************************************)
(* The invariant holds of a process that starts.                           *)
(***************************************************************************)
LEMMA InitHolds == Init => IInv
<1> SUFFICES ASSUME Init PROVE IInv
  OBVIOUS
<1>1. TypeOK
  BY LifecycleAssumption DEF Init, TypeOK, Writers
<1>2. SetUpInOrder
  BY DEF Init, SetUpInOrder
<1>3. IntentFindsWriter /\ HeartbeatsFollowCommand
  BY DEF Init, IntentFindsWriter, HeartbeatsFollowCommand
<1>4. QED  BY <1>1, <1>2, <1>3 DEF IInv

(***************************************************************************)
(* A successful step of the main thread: the writer of requests is there   *)
(* before anything that leads to an intent, and the announcement is behind *)
(* before the reader of commands is there.                                 *)
(***************************************************************************)
LEMMA SucceedPreserves == IInv /\ SetUp /\ Succeed => IInv'
<1> SUFFICES ASSUME IInv, SetUp, Succeed PROVE IInv'
  OBVIOUS
<1>1. step \in 1..16
  BY Order DEF SetUp, InController, InTms, InSim
<1>2. /\ step' = step + 1 /\ failures' = failures
      /\ made' \in {made \cup {Setup[step]}, made \cup {Setup[step], "domain"}}
      /\ reactor' = IF step = 7 THEN reactor \cup {"timer"} ELSE reactor
      /\ UNCHANGED <<device, nil, command, inbox, earlier, choice, client>>
  BY <1>1, Order DEF SetUp, Succeed, BeforeCall, others
<1>3. TypeOK'
  BY <1>1, <1>2, Order DEF IInv, TypeOK
<1>4. SetUpInOrder'
  BY <1>1, <1>2, Order DEF IInv, SetUpInOrder
<1>5. IntentFindsWriter'
  BY <1>2 DEF IInv, IntentFindsWriter
<1>6. HeartbeatsFollowCommand'
  BY <1>1, <1>2, Order DEF IInv, SetUpInOrder, HeartbeatsFollowCommand
<1>7. QED  BY <1>3, <1>4, <1>5, <1>6 DEF IInv

(***************************************************************************)
(* A failure goes on behind what it skips, and sets nothing up.            *)
(***************************************************************************)
LEMMA FailPreserves == IInv /\ SetUp /\ Fail => IInv'
<1> SUFFICES ASSUME IInv, SetUp, Fail PROVE IInv'
  OBVIOUS
<1>1. step \in 1..16
  BY Order DEF SetUp, InController, InTms, InSim
<1>2. /\ step' = AfterFailure /\ failures' \in 0..MaxFailures
      /\ made' \in {made, made \cup {"domain"}}
      /\ UNCHANGED <<reactor, device, nil, command, inbox, earlier, choice, client>>
  BY LifecycleAssumption DEF SetUp, Fail, BeforeCall, others, IInv, TypeOK
<1>3. step' \in {8, 17}
  BY <1>2 DEF AfterFailure
<1>4. TypeOK'
  BY <1>2, <1>3, Order DEF IInv, TypeOK
<1>5. SetUpInOrder'
  BY <1>2, <1>3 DEF IInv, SetUpInOrder
<1>6. IntentFindsWriter' /\ HeartbeatsFollowCommand'
  BY <1>2 DEF IInv, IntentFindsWriter, HeartbeatsFollowCommand
<1>7. QED  BY <1>4, <1>5, <1>6 DEF IInv

(***************************************************************************)
(* A listener that takes a sample: an intent, in a first process, is there *)
(* only with the writer of requests, a command only after the announcement.*)
(***************************************************************************)
LEMMA TakePreserves == IInv /\ Take => IInv'
<1> SUFFICES ASSUME IInv, Take PROVE IInv'
  OBVIOUS
<1> USE DEF IInv
<1>1. PICK sample \in inbox :
          /\ inbox' = inbox \ {sample}
          /\ \/ sample = "info" /\ TakeDeviceInfo
             \/ sample = "notice" /\ TakeNotice
             \/ sample = "intent" /\ TakeIntent
             \/ sample = "question" /\ TakeQuestion
             \/ sample = "topology" /\ TakeTopology
             \/ sample \in {"suspend", "resume", "term"} /\ TakeCommand(sample)
  BY DEF Take
<1>2. UNCHANGED <<step, made, failures, earlier, choice>>
  BY DEF Take, mainVars
<1>3. CASE sample = "info" /\ TakeDeviceInfo
  BY <1>1, <1>2, <1>3 DEF TakeDeviceInfo, TypeOK, SetUpInOrder, IntentFindsWriter,
     HeartbeatsFollowCommand
<1>4. CASE sample = "notice" /\ TakeNotice
  BY <1>1, <1>2, <1>4 DEF TakeNotice, TypeOK, SetUpInOrder, IntentFindsWriter,
     HeartbeatsFollowCommand
<1>5. CASE sample = "intent" /\ TakeIntent
  <2>1. earlier = 0 => "requestWriter" \in made
    BY <1>5 DEF SetUpInOrder
  <2>2. QED
    BY <1>1, <1>2, <1>5, <2>1 DEF TakeIntent, Use, Writers, TypeOK, SetUpInOrder,
       IntentFindsWriter, HeartbeatsFollowCommand
<1>6. CASE sample = "question" /\ TakeQuestion
  BY <1>1, <1>2, <1>6 DEF TakeQuestion, Use, Writers, TypeOK, SetUpInOrder,
     IntentFindsWriter, HeartbeatsFollowCommand
<1>7. CASE sample = "topology" /\ TakeTopology
  BY <1>1, <1>2, <1>7 DEF TakeTopology, Use, Writers, TypeOK, SetUpInOrder,
     IntentFindsWriter, HeartbeatsFollowCommand
<1>8. CASE sample \in {"suspend", "resume", "term"} /\ TakeCommand(sample)
  <2>1. step > 7
    BY <1>1, <1>8 DEF SetUpInOrder, TypeOK
  <2>2. QED
    BY <1>1, <1>2, <1>8, <2>1 DEF TakeCommand, Suspend, Resume, Terminate, TypeOK, SetUpInOrder, IntentFindsWriter,
       HeartbeatsFollowCommand
<1>9. QED  BY <1>1, <1>3, <1>4, <1>5, <1>6, <1>7, <1>8

(***************************************************************************)
(* What the others do adds intents only for a controller that has answered *)
(* and commands only to a reader that exists.                              *)
(***************************************************************************)
LEMMA OthersPreserve == IInv /\ Others => IInv'
<1> SUFFICES ASSUME IInv, Others PROVE IInv'
  OBVIOUS
<1>1. UNCHANGED <<step, made, failures, device, reactor, nil, command>>
  BY DEF Others, mainVars, sharedVars
<1>2. earlier' = earlier => IntentFindsWriter' /\ HeartbeatsFollowCommand'
  BY <1>1 DEF IInv, IntentFindsWriter, HeartbeatsFollowCommand
<1>3. TypeOK' /\ SetUpInOrder' /\ earlier' = earlier
  <2> USE <1>1 DEF IInv, TypeOK, SetUpInOrder, Arrive, others
  <2>1. CASE DeviceJoins
    BY <2>1 DEF DeviceJoins
  <2>2. CASE DeviceChooses
    BY <2>2 DEF DeviceChooses
  <2>3. CASE NoticeArrives
    BY <2>3 DEF NoticeArrives
  <2>4. CASE ClientLearns
    BY <2>4 DEF ClientLearns
  <2>5. CASE ClientAsks
    BY <2>5 DEF ClientAsks
  <2>6. CASE ClientIntends
    BY <2>6 DEF ClientIntends
  <2>7. CASE ClientCommands
    BY <2>7 DEF ClientCommands, InSimDomain
  <2>8. QED
    BY <2>1, <2>2, <2>3, <2>4, <2>5, <2>6, <2>7 DEF Others
<1>4. QED  BY <1>2, <1>3 DEF IInv

(***************************************************************************)
(* IInv is an invariant of the process: what is set up in order stays so,  *)
(* whatever fails and whatever the listeners are handed meanwhile.         *)
(***************************************************************************)
THEOREM Inductive == Spec => []IInv
<1>1. Init => IInv
  BY InitHolds
<1>2. IInv /\ [Next]_vars => IInv'
  <2> SUFFICES ASSUME IInv, [Next]_vars PROVE IInv'
    OBVIOUS
  <2>1. CASE Main
    <3>1. CASE Return /\ ~SetUp
      BY <3>1, Order DEF Return, Running, IInv, TypeOK, SetUpInOrder, IntentFindsWriter,
         HeartbeatsFollowCommand, sharedVars, others
    <3>2. CASE SetUp
      BY <3>2, SucceedPreserves, FailPreserves DEF SetUp
    <3>3. QED  BY <2>1, <3>1, <3>2 DEF Main
  <2>2. CASE Take
    BY <2>2, TakePreserves
  <2>3. CASE Others
    BY <2>3, OthersPreserve
  <2>4. CASE UNCHANGED vars
    BY <2>4 DEF vars, mainVars, sharedVars, others, IInv, TypeOK, SetUpInOrder,
       IntentFindsWriter, HeartbeatsFollowCommand
  <2>5. QED  BY <2>1, <2>2, <2>3, <2>4 DEF Next, Gone
<1>3. QED  BY <1>1, <1>2, PTL DEF Spec

(***************************************************************************)
(* In a first process no intent meets a writer of requests that does not   *)
(* exist yet, with any number of failures.                                 *)
(***************************************************************************)
THEOREM IntentSafe == Spec => []IntentFindsWriter
<1>1. IInv => IntentFindsWriter
  BY DEF IInv
<1>2. QED  BY <1>1, Inductive, PTL

(***************************************************************************)
(* The heartbeats follow the last command, also when it is taken while     *)
(* main still sets up.                                                     *)
(***************************************************************************)
THEOREM CommandsHold == Spec => []HeartbeatsFollowCommand
<1>1. IInv => HeartbeatsFollowCommand
  BY DEF IInv
<1>2. QED  BY <1>1, Inductive, PTL

=============================================================================
