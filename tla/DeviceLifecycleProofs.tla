------------------------- MODULE DeviceLifecycleProofs -------------------------
(***************************************************************************)
(* Proofs about the process of a power device (DeviceLifecycle), for every *)
(* role and any number of failures: no writer is used before it exists, and*)
(* a device obeys only a controller this process has chosen.               *)
(***************************************************************************)
EXTENDS DeviceLifecycle, SequenceTheorems, TLAPS

\* What the set-up can make.
Entities == {"participant", "deviceInfoReader", "heartbeatReader", "deviceInfoWriter",
             "heartbeatWriter", "requestReader", "replyWriter", "noticeWriter", "simParticipant",
             "connectionReader", "announced", "currentWriter", "currentReader"}

(***************************************************************************)
(* What the role adds follows what all devices have.                       *)
(***************************************************************************)
LEMMA RoleFollows ==
    ASSUME NEW part \in Seq(Entities), Setup = Common \o part
    PROVE  /\ Len(part) = 1 => Len(Setup) = 12
           /\ Len(part) = 2 => Len(Setup) = 13
           /\ Setup[5] = "heartbeatWriter" /\ Setup[7] = "replyWriter" /\ Setup[8] = "noticeWriter"
           /\ \A i \in 1..11 : Setup[i] # "currentReader"
           /\ Len(part) \in {1, 2} => Setup[12] = part[1]
<1>1. Common \in Seq(Entities) /\ Len(Common) = 11
  BY DEF Common, Entities
<1>2. Common[5] = "heartbeatWriter" /\ Common[7] = "replyWriter" /\ Common[8] = "noticeWriter"
  BY DEF Common
<1>3. \A i \in 1..11 : Common[i] # "currentReader"
  BY DEF Common
<1>4. Len(part) \in Nat
  BY LenProperties
<1>5. /\ Len(Setup) = 11 + Len(part)
      /\ \A i \in 1..11 + Len(part) :
            Setup[i] = IF i <= 11 THEN Common[i] ELSE part[i - 11]
  <2>1. /\ Len(Common \o part) = Len(Common) + Len(part)
        /\ \A i \in 1..Len(Common) + Len(part) :
              (Common \o part)[i] = IF i <= Len(Common) THEN Common[i] ELSE part[i - Len(Common)]
    BY <1>1, ConcatProperties, Zenon
  <2> QED
    BY <1>1, <2>1, Zenon
<1>6. \A i \in 1..11 : Setup[i] = Common[i]
  BY <1>4, <1>5
<1>7. Len(part) \in {1, 2} => Setup[12] = part[1]
  <2>1. CASE Len(part) = 1
    BY <1>5, <2>1
  <2>2. CASE Len(part) = 2
    BY <1>5, <2>2, SMTT(20)
  <2> QED
    BY <2>1, <2>2
<1>8. /\ Len(part) = 1 => Len(Setup) = 12
      /\ Len(part) = 2 => Len(Setup) = 13
  <2> DEFINE n == Len(part)
  <2>1. Len(Setup) = 11 + n
    BY <1>5
  <2> HIDE DEF n
  <2>2. (n = 1 => Len(Setup) = 12) /\ (n = 2 => Len(Setup) = 13)
    BY <2>1
  <2> QED
    BY <2>2 DEF n
<1>9. /\ Setup[5] = "heartbeatWriter" /\ Setup[7] = "replyWriter" /\ Setup[8] = "noticeWriter"
      /\ \A i \in 1..11 : Setup[i] # "currentReader"
  <2>1. 5 \in 1..11 /\ 7 \in 1..11 /\ 8 \in 1..11
    OBVIOUS
  <2>2. \A i \in 1..11 : Setup[i] # "currentReader"
    BY <1>3, <1>6, Zenon
  <2> QED
    BY <1>2, <1>6, <2>1, <2>2, Zenon
<1> QED
  BY <1>7, <1>8, <1>9, Zenon

(***************************************************************************)
(* Where in the set-up the writers and the reader of current are made.     *)
(***************************************************************************)
LEMMA SetupEntries ==
    ASSUME role \in Roles
    PROVE  /\ Len(Setup) = 12 \/ Len(Setup) = 13
           /\ Setup[5] = "heartbeatWriter" /\ Setup[7] = "replyWriter" /\ Setup[8] = "noticeWriter"
           /\ \A i \in 1..11 : Setup[i] # "currentReader"
           /\ role # "load" => Setup[12] = "currentWriter"
<1>1. CASE role = "source"
  <2> DEFINE part == << "currentWriter" >>
  <2>1. Setup = Common \o part
    BY <1>1 DEF Setup, OfRole
  <2>2. part \in Seq(Entities) /\ Len(part) = 1 /\ part[1] = "currentWriter"
    BY DEF Entities
  <2> HIDE DEF part
  <2> QED
    BY <1>1, <2>1, <2>2, RoleFollows
<1>2. CASE role = "load"
  <2> DEFINE part == << "currentReader" >>
  <2>1. Setup = Common \o part
    BY <1>2 DEF Setup, OfRole
  <2>2. part \in Seq(Entities) /\ Len(part) = 1 /\ part[1] = "currentReader"
    BY DEF Entities
  <2> HIDE DEF part
  <2> QED
    BY <1>2, <2>1, <2>2, RoleFollows
<1>3. CASE role = "distribution"
  <2> DEFINE part == << "currentWriter", "currentReader" >>
  <2>1. Setup = Common \o part
    BY <1>3 DEF Setup, OfRole
  <2>2. part \in Seq(Entities) /\ Len(part) = 2 /\ part[1] = "currentWriter"
    BY DEF Entities
  <2> HIDE DEF part
  <2> QED
    BY <1>3, <2>1, <2>2, RoleFollows
<1> QED
  BY <1>1, <1>2, <1>3 DEF Roles

(***************************************************************************)
(* In a process that runs, the writers its role has exist; where current is*)
(* relayed, its writer exists before its reader.                           *)
(***************************************************************************)
LEMMA WritersMade ==
    ASSUME TypeOK
    PROVE  /\ Running => /\ {"heartbeatWriter", "replyWriter", "noticeWriter"} \subseteq Made
                         /\ role # "load" => "currentWriter" \in Made
           /\ role = "distribution" /\ "currentReader" \in Made => "currentWriter" \in Made
<1>1. /\ step \in Nat
      /\ Len(Setup) = 12 \/ Len(Setup) = 13
      /\ Setup[5] = "heartbeatWriter" /\ Setup[7] = "replyWriter" /\ Setup[8] = "noticeWriter"
      /\ \A i \in 1..11 : Setup[i] # "currentReader"
      /\ role # "load" => Setup[12] = "currentWriter"
  <2>1. role \in Roles /\ step \in 1..Len(Setup) + 2
    BY DEF TypeOK
  <2> QED
    BY <2>1, SetupEntries
<1>2. \A i \in Nat : 1 <= i /\ i < step /\ i <= Len(Setup) => Setup[i] \in Made
  BY <1>1 DEF Made
<1>3. ASSUME step > 12
      PROVE  /\ {"heartbeatWriter", "replyWriter", "noticeWriter"} \subseteq Made
             /\ role # "load" => "currentWriter" \in Made
  <2>1. Setup[5] \in Made /\ Setup[7] \in Made /\ Setup[8] \in Made /\ Setup[12] \in Made
    BY <1>1, <1>2, <1>3
  <2> QED
    BY <1>1, <2>1
<1>4. Running => step > 12
  <2> DEFINE n == Len(Setup)
  <2>1. (n = 12 \/ n = 13) /\ (Running => step = n + 1)
    BY <1>1 DEF Running
  <2> HIDE DEF n
  <2> QED
    BY <2>1
<1>5. role = "distribution" /\ "currentReader" \in Made => step > 12
  <2> SUFFICES ASSUME role = "distribution", NEW i \in 1..(step - 1), Setup[i] = "currentReader"
               PROVE  step > 12
    BY DEF Made
  <2>1. i # 12
    BY <1>1
  <2> QED
    BY <1>1, <2>1
<1> QED
  BY <1>3, <1>4, <1>5

-----------------------------------------------------------------------------
(* Each kind of step preserves the invariant. *)

LEMMA InitIInv ==
    ASSUME Init
    PROVE  IInv
<1>1. role \in Roles
  BY DEF Init
<1>2. Len(Setup) = 12 \/ Len(Setup) = 13
  BY <1>1, SetupEntries
<1>3. 1 \in 1..Len(Setup) + 2
  <2> DEFINE n == Len(Setup)
  <2>1. n = 12 \/ n = 13
    BY <1>2
  <2> HIDE DEF n
  <2>2. 1 \in 1..n + 2
    BY <2>1
  <2> QED
    BY <2>2 DEF n
<1>4. TypeOK
  <2>1. step \in 1..Len(Setup) + 2 /\ failures \in 0..MaxFailures /\ ~(failures > 0)
    BY <1>3, LifecycleAssumption DEF Init
  <2>2. {known, timer, selected, accepted, connected, sending, master, chosen} \subseteq BOOLEAN
    BY Zenon DEF Init
  <2> QED
    BY <2>1, <2>2, Zenon DEF Init, TypeOK
<1> QED
  BY <1>4 DEF Init, IInv, WritersFound, ChoosesWhenRunning, CurrentNeedsReader

(***************************************************************************)
(* Where main stands in the set-up, as numbers.                            *)
(***************************************************************************)
LEMMA StepRange ==
    ASSUME TypeOK
    PROVE  /\ step \in Nat /\ Len(Setup) \in Nat
           /\ 1 <= step /\ step <= Len(Setup) + 2
<1>1. role \in Roles /\ step \in 1..Len(Setup) + 2
  BY DEF TypeOK
<1>2. Len(Setup) \in Nat
  BY <1>1, SetupEntries
<1> QED
  BY <1>1, <1>2

\* Set-up creates entities in order and runs only at its end.
LEMMA MainStep ==
    ASSUME IInv, Main
    PROVE  IInv'
<1>1. /\ step \in 1..Len(Setup)
      /\ Succeed \/ Fail
      /\ UNCHANGED <<role, selectorVars, accepted, powerVars, nil, inbox, master, chosen>>
  BY DEF Main
<1>2. step \in Nat /\ Len(Setup) \in Nat /\ TypeOK
  BY StepRange DEF IInv
<1>3. Setup' = Setup /\ Roles' = Roles
  BY <1>1 DEF Setup, OfRole
<1>4. step' \in 1..Len(Setup) + 2 /\ step < step'
  BY <1>1, <1>2 DEF Succeed, Fail
<1>5. ~Running /\ ~Failed
  BY <1>1, <1>2 DEF Running, Failed
<1>6. failures' \in 0..MaxFailures /\ (failures' > 0 => Failed')
  BY <1>1, <1>2, <1>3, <1>5, LifecycleAssumption DEF Succeed, Fail, TypeOK, Failed
<1>7. Made \subseteq Made'
  <2>1. step \in Nat /\ step' \in Nat /\ step < step'
    BY <1>2, <1>4
  <2>2. \A m, n \in Nat : m < n => 1..(m - 1) \subseteq 1..(n - 1)
    OBVIOUS
  <2> QED
    BY <1>3, <2>1, <2>2, Zenon DEF Made
<1>8. TypeOK'
  BY <1>1, <1>2, <1>3, <1>4, <1>6 DEF TypeOK, selectorVars, powerVars
<1>9. ~selected /\ ~accepted
  BY <1>5 DEF IInv, ChoosesWhenRunning
<1> QED
  BY <1>1, <1>7, <1>8, <1>9
     DEF IInv, WritersFound, ChoosesWhenRunning, CurrentNeedsReader, selectorVars

(***************************************************************************)
(* What stays as it is while main does.                                    *)
(***************************************************************************)
LEMMA MainKept ==
    ASSUME UNCHANGED mainVars
    PROVE  Setup' = Setup /\ Made' = Made /\ (Running' <=> Running) /\ (Failed' <=> Failed)
BY DEF mainVars, Setup, OfRole, Made, Running, Failed

(***************************************************************************)
(* The listeners: a request is accepted only of a controller that was      *)
(* selected, and current relayed only when the writer for it exists.       *)
(***************************************************************************)
LEMMA TakeStep ==
    ASSUME IInv, Take
    PROVE  IInv' /\ level' = level
<1> USE DEF IInv, WritersFound
<1>1. PICK sample \in inbox :
         /\ inbox' = inbox \ {sample}
         /\ \/ sample = "info" /\ GotDeviceInfo
            \/ sample = "heartbeat" /\ GotHeartbeat
            \/ sample = "request" /\ TakeRequest
            \/ sample = "connection" /\ TakeConnection
            \/ sample = "current" /\ TakeCurrent
  BY DEF Take
<1>2. UNCHANGED mainVars /\ UNCHANGED <<master, chosen>>
  BY DEF Take
<1>3. /\ Setup' = Setup /\ Made' = Made /\ (Running' <=> Running) /\ (Failed' <=> Failed)
  BY <1>2, MainKept
<1>4. nil' = "none"
  <2>1. CASE sample = "current" /\ TakeCurrent
    <3>1. role = "distribution" => "currentWriter" \in Made
      BY <1>1, <2>1, WritersMade DEF CurrentNeedsReader
    <3> QED
      BY <2>1, <3>1 DEF TakeCurrent, Use
  <2>2. CASE GotDeviceInfo \/ GotHeartbeat \/ TakeRequest \/ TakeConnection
    BY <2>2 DEF GotDeviceInfo, GotHeartbeat, TakeRequest, TakeConnection
  <2> QED
    BY <1>1, <2>1, <2>2
<1>5. /\ selected' = selected
      /\ accepted' = accepted \/ accepted' = selected
      /\ {known', timer', connected', sending'} \subseteq BOOLEAN
      /\ level' = level
  BY <1>1 DEF GotDeviceInfo, GotHeartbeat, TakeRequest, TakeConnection, TakeCurrent,
              selectorVars, powerVars, TypeOK
<1>6. {selected', accepted'} \subseteq BOOLEAN
  <2>1. selected \in BOOLEAN /\ accepted \in BOOLEAN
    BY Zenon DEF TypeOK
  <2> QED
    BY <1>5, <2>1, Zenon
<1>7. TypeOK'
  BY <1>1, <1>2, <1>3, <1>4, <1>5, <1>6 DEF TypeOK, mainVars
<1>8. ChoosesWhenRunning'
  BY <1>2, <1>3, <1>5, Zenon DEF ChoosesWhenRunning
<1>9. CurrentNeedsReader'
  BY <1>1, <1>3 DEF CurrentNeedsReader
<1> QED
  BY <1>4, <1>5, <1>7, <1>8, <1>9

(***************************************************************************)
(* A request that was accepted is carried out in a process that runs and   *)
(* has chosen the controller, whether or not it still follows it.          *)
(***************************************************************************)
LEMMA CarryOutStep ==
    ASSUME IInv, CarryOut
    PROVE  IInv' /\ chosen /\ Running
<1> USE DEF IInv, WritersFound
<1>1. /\ accepted /\ accepted' = FALSE
      /\ level' \in {"operational", "off"}
      /\ UNCHANGED <<mainVars, selectorVars, connected, sending, inbox, master, chosen>>
  BY DEF CarryOut
<1>2. /\ Setup' = Setup /\ Made' = Made /\ (Running' <=> Running) /\ (Failed' <=> Failed)
  BY <1>1, MainKept
<1>3. chosen /\ Running
  BY <1>1 DEF ChoosesWhenRunning
<1>4. nil' = "none"
  <2>1. "replyWriter" \in Made
    BY <1>3, WritersMade
  <2> QED
    BY <2>1 DEF CarryOut, Use
<1>5. TypeOK'
  <2>1. {known', timer', selected', accepted', connected', sending', master', chosen'}
           \subseteq BOOLEAN
    <3>1. {known, timer, selected, accepted, connected, sending, master, chosen} \subseteq BOOLEAN
      BY Zenon DEF TypeOK
    <3>2. /\ known' = known /\ timer' = timer /\ selected' = selected
          /\ connected' = connected /\ sending' = sending /\ master' = master /\ chosen' = chosen
      BY <1>1 DEF selectorVars
    <3> QED
      BY <1>1, <3>1, <3>2, Zenon
  <2> QED
    BY <1>1, <1>2, <1>4, <2>1 DEF TypeOK, mainVars
<1>6. ChoosesWhenRunning' /\ CurrentNeedsReader'
  BY <1>1, <1>2, <1>3 DEF ChoosesWhenRunning, CurrentNeedsReader, selectorVars
<1> QED
  BY <1>3, <1>4, <1>5, <1>6

(***************************************************************************)
(* The reactors and the source's thread run when the set-up is complete.   *)
(***************************************************************************)
LEMMA ReactorStep ==
    ASSUME IInv, NewController \/ LostController \/ HeartbeatEvent \/ SimulatePowerFlow
    PROVE  IInv' /\ level' = level
<1> USE DEF IInv, WritersFound, Dispatching
<1>1. UNCHANGED mainVars /\ UNCHANGED <<known, accepted, level, connected, inbox>> /\ Running
  BY DEF NewController, LostController, HeartbeatEvent, SimulatePowerFlow, powerVars, selectorVars
<1>2. /\ Setup' = Setup /\ Made' = Made /\ (Running' <=> Running) /\ (Failed' <=> Failed)
  BY <1>1, MainKept
<1>3. /\ {"heartbeatWriter", "replyWriter", "noticeWriter"} \subseteq Made
      /\ role # "load" => "currentWriter" \in Made
  BY <1>1, WritersMade
<1>4. nil' = "none"
  BY <1>3 DEF NewController, LostController, HeartbeatEvent, SimulatePowerFlow, Use
<1>5. /\ {timer', selected', sending', master', chosen'} \subseteq BOOLEAN
      /\ selected' \/ accepted => chosen'
  <2>1. /\ {timer, selected, accepted, sending, master, chosen} \subseteq BOOLEAN
        /\ selected \/ accepted => chosen
    BY Zenon DEF TypeOK, ChoosesWhenRunning
  <2>2. CASE NewController
    <3>1. /\ timer' = FALSE
          /\ sending' = sending
          /\ \/ selected' = TRUE /\ (master' = master \/ master' = TRUE) /\ chosen' = TRUE
             \/ selected' = selected /\ master' = master /\ chosen' = chosen
      BY <2>2 DEF NewController, powerVars
    <3>2. CASE selected' = TRUE /\ chosen' = TRUE
      <4>1. master' \in BOOLEAN /\ sending \in BOOLEAN
        BY <2>1, <3>1, Zenon
      <4> QED
        BY <3>1, <3>2, <4>1, Zenon
    <3>3. CASE selected' = selected /\ master' = master /\ chosen' = chosen
      BY <2>1, <3>1, <3>3, Zenon
    <3> QED
      BY <3>1, <3>2, <3>3, Zenon
  <2>3. CASE LostController
    <3>1. /\ selected' = FALSE
          /\ timer' = timer /\ sending' = sending /\ master' = master /\ chosen' = chosen
      BY <2>3 DEF LostController, powerVars
    <3> QED
      BY <2>1, <3>1, Zenon
  <2>4. CASE HeartbeatEvent \/ SimulatePowerFlow
    <3>1. /\ sending' = TRUE \/ sending' = sending
          /\ timer' = timer /\ selected' = selected /\ master' = master /\ chosen' = chosen
      BY <2>4 DEF HeartbeatEvent, SimulatePowerFlow, powerVars, selectorVars
    <3> QED
      BY <2>1, <3>1, Zenon
  <2> QED
    BY <2>2, <2>3, <2>4
<1>6. TypeOK'
  BY <1>1, <1>2, <1>4, <1>5 DEF TypeOK, mainVars
<1>7. ChoosesWhenRunning' /\ CurrentNeedsReader'
  <2>1. accepted' = accepted
    BY <1>1
  <2> QED
    BY <1>1, <1>2, <1>5, <2>1 DEF ChoosesWhenRunning, CurrentNeedsReader
<1> QED
  BY <1>1, <1>4, <1>6, <1>7

(***************************************************************************)
(* Samples come only to readers there are.                                 *)
(***************************************************************************)
LEMMA OthersStep ==
    ASSUME IInv, Others
    PROVE  IInv' /\ level' = level
<1> USE DEF IInv
<1>1. /\ UNCHANGED <<mainVars, selectorVars, accepted, powerVars, nil, master, chosen>>
      /\ Controller \/ Neighbour
  BY DEF Others
<1>2. /\ Setup' = Setup /\ Made' = Made /\ (Running' <=> Running) /\ (Failed' <=> Failed)
  BY <1>1, MainKept
<1>3. inbox' \subseteq {"info", "heartbeat", "request", "connection", "current"}
  BY <1>1 DEF Controller, Neighbour, Arrive, TypeOK
<1>4. "current" \in inbox' => "current" \in inbox \/ "currentReader" \in Made
  BY <1>1 DEF Controller, Neighbour, Arrive
<1>5. TypeOK'
  BY <1>1, <1>2, <1>3 DEF TypeOK, mainVars, selectorVars, powerVars
<1> QED
  BY <1>1, <1>2, <1>4, <1>5
     DEF WritersFound, ChoosesWhenRunning, CurrentNeedsReader, selectorVars, powerVars

\* A step keeps the invariant, and changes the level only on the word of a chosen controller.
LEMMA NextIInv ==
    ASSUME IInv, [Next]_vars
    PROVE  IInv' /\ (level' # level => chosen /\ Running)
<1>1. CASE Main
  BY <1>1, MainStep DEF Main, powerVars
<1>2. CASE Take
  BY <1>2, TakeStep
<1>3. CASE UNCHANGED vars
  <2>1. /\ Setup' = Setup /\ Made' = Made /\ (Running' <=> Running) /\ (Failed' <=> Failed)
    BY <1>3, MainKept DEF vars
  <2>2. TypeOK'
    BY <1>3, <2>1 DEF vars, mainVars, selectorVars, powerVars, IInv, TypeOK
  <2> QED
    BY <1>3, <2>1, <2>2 DEF vars, mainVars, selectorVars, powerVars, IInv, WritersFound,
                            ChoosesWhenRunning, CurrentNeedsReader
<1>4. CASE CarryOut
  BY <1>4, CarryOutStep
<1> QED
  BY <1>1, <1>2, <1>3, <1>4, OthersStep, ReactorStep DEF Next

-----------------------------------------------------------------------------
(***************************************************************************)
(* The inductive invariant: a controller is selected, or a request of it   *)
(* about to be carried out, only while the reactors run and when this      *)
(* process has chosen it; current comes only to a reader there is.         *)
(***************************************************************************)
THEOREM Inductive == Spec => []IInv
<1>1. IInv /\ [Next]_vars => IInv'
  BY NextIInv
<1> QED
  BY <1>1, InitIInv, PTL DEF Spec

(***************************************************************************)
(* No writer is used before it exists, although readers with listeners are *)
(* created before the writers their handlers use.                          *)
(***************************************************************************)
THEOREM WritersSafe == Spec => []WritersFound
<1>1. IInv => WritersFound
  BY DEF IInv
<1> QED
  BY <1>1, Inductive, PTL

(***************************************************************************)
(* A restarted device obeys no controller that it has not chosen again,    *)
(* although the selector may give the controller up between the comparison *)
(* and the change of level.                                                *)
(***************************************************************************)
THEOREM Obeys == Spec => ObeysAfterChoosing
<1>1. IInv /\ [Next]_vars => [level' # level => chosen /\ Running]_vars
  BY NextIInv
<1> QED
  BY <1>1, Inductive, PTL DEF Spec, ObeysAfterChoosing

=============================================================================
