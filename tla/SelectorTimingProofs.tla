------------------------- MODULE SelectorTimingProofs -------------------------
(***************************************************************************)
(* Proofs about the selector, for every set of controllers and all delays  *)
(* the assumptions allow.  First ControllerSelector: IInv is inductive, and*)
(* the safety properties and the refinement of ActiveController follow from*)
(* it, with one lemma per action.  Then its timing: the deadline budget a  *)
(* timer still has and the silence of the selected controller never add up *)
(* to more than the bound.                                                 *)
(***************************************************************************)
EXTENDS SelectorTiming, TLAPS

USE ControllersAssumption, DelaysAssumption, HorizonAssumption

LEMMA InitInv == Init => IInv
<1> SUFFICES ASSUME Init PROVE IInv
  OBVIOUS
<1> USE DEF Init, Off, Far, Unknown, Never, TimerNames
<1>1. TypeOK
  BY DEF TypeOK
<1>2. \A t \in TimerNames : ~Active(t)
  BY DEF Active
<1>3. left["MissedHeartbeat"] \notin Nat
  OBVIOUS
<1>4. QED
  BY <1>1, <1>2, <1>3 DEF IInv, NeverThrows, TimersFitSelection, NoControllersFollowsSilence,
                          LostFollowsSilence, WatchedWasHeard

LEMMA DeviceInfoInv ==
  ASSUME IInv, NEW c \in Controllers, GotDeviceInfo(c)
  PROVE  IInv'
  BY DEF GotDeviceInfo, IInv, TypeOK, NeverThrows, TimersFitSelection,
         NoControllersFollowsSilence, LostFollowsSilence, WatchedWasHeard,
         Active, Heard, Off, Far, Unknown, Never, TimerNames

\* A heartbeat stops NoControllers and restarts what watches its sender.
LEMMA HeartbeatInv ==
  ASSUME IInv, NEW c \in Controllers, GotHeartbeat(c)
  PROVE  IInv'
<1> USE DEF IInv, TypeOK, NeverThrows, TimersFitSelection, NoControllersFollowsSilence,
            LostFollowsSilence, WatchedWasHeard, Active, Heard, Known,
            Off, Far, Unknown, Never, TimerNames
<1>1. CASE HeartbeatWhileSearching(c)
  BY <1>1 DEF GotHeartbeat, HeartbeatWhileSearching
<1>2. CASE HeartbeatFromSelected(c)
  BY <1>2 DEF GotHeartbeat, HeartbeatFromSelected
<1>3. CASE HeartbeatFromOther(c)
  BY <1>3 DEF GotHeartbeat, HeartbeatFromOther
<1>4. QED
  BY <1>1, <1>2, <1>3 DEF GotHeartbeat

\* NewController runs only without a selection, so select finds MissedHeartbeat off.
LEMMA NewControllerInv ==
  ASSUME IInv, NewControllerFired
  PROVE  IInv'
<1> USE DEF IInv, TypeOK, NeverThrows, TimersFitSelection, NoControllersFollowsSilence,
            LostFollowsSilence, WatchedWasHeard, Active, Expired, Heard, Known, Available,
            Off, Far, Unknown, Never, TimerNames
<1> DEFINE candidates == IF trigger \in Known THEN Available ELSE {}
           timers == [left EXCEPT !["NewController"] = Off]
<1>1. CASE selected' = selected /\ left' = timers /\ UNCHANGED <<announced, mhDelay, crashed>>
  BY <1>1 DEF NewControllerFired
<1>2. ASSUME NEW c \in Available, Select(c, timers)
      PROVE  IInv'
  BY <1>2 DEF NewControllerFired, Select, SendControllerState
<1>3. QED
  BY <1>1, <1>2 DEF NewControllerFired, SelectController

\* NoControllers runs only beside a MissedHeartbeat far ahead, so not when that one fires.
LEMMA MissedHeartbeatInv ==
  ASSUME IInv, MissedHeartbeatFired
  PROVE  IInv'
  BY DEF MissedHeartbeatFired, IInv, TypeOK, NeverThrows, TimersFitSelection,
         NoControllersFollowsSilence, LostFollowsSilence, WatchedWasHeard,
         Active, Expired, Heard, Known, Available, Off, Far, Unknown, Never, TimerNames

\* LostController replaces MissedHeartbeat, so select may start that again.
LEMMA LostControllerInv ==
  ASSUME IInv, LostControllerFired
  PROVE  IInv'
<1> USE DEF IInv, TypeOK, NeverThrows, TimersFitSelection, NoControllersFollowsSilence,
            LostFollowsSilence, WatchedWasHeard, Active, Expired, Heard, Known, Available,
            Off, Far, Unknown, Never, TimerNames
<1> DEFINE timers == [left EXCEPT !["LostController"] = Off]
<1>1. CASE selected' = NoController /\ left' = timers /\ UNCHANGED <<announced, mhDelay, crashed>>
  BY <1>1 DEF LostControllerFired
<1>2. ASSUME NEW c \in Available, Select(c, timers)
      PROVE  IInv'
  BY <1>2 DEF LostControllerFired, Select, SendControllerState
<1>3. QED
  BY <1>1, <1>2 DEF LostControllerFired, SelectController

LEMMA NoControllersInv ==
  ASSUME IInv, NoControllersFired
  PROVE  IInv'
  BY DEF NoControllersFired, IInv, TypeOK, NeverThrows, TimersFitSelection,
         NoControllersFollowsSilence, LostFollowsSilence, WatchedWasHeard,
         Active, Expired, Heard, Off, Far, Unknown, Never, TimerNames

\* A second of silence is a second less on the timers that measure it.
LEMMA TickInv ==
  ASSUME IInv, Tick
  PROVE  IInv'
<1> USE DEF IInv, TypeOK, NeverThrows, TimersFitSelection, NoControllersFollowsSilence,
            LostFollowsSilence, WatchedWasHeard, Active, Heard,
            Off, Far, Unknown, Never, TimerNames
<1>1. TypeOK' /\ NeverThrows'
  BY DEF Tick
<1>2. TimersFitSelection' /\ WatchedWasHeard'
  BY DEF Tick
<1>3. NoControllersFollowsSilence'
  BY DEF Tick
<1>4. LostFollowsSilence'
  BY DEF Tick
<1>5. QED
  BY <1>1, <1>2, <1>3, <1>4

LEMMA NextInv == IInv /\ [Next]_vars => IInv'
<1> SUFFICES ASSUME IInv, [Next]_vars
             PROVE  IInv'
  OBVIOUS
<1>1. CASE UNCHANGED vars
  BY <1>1 DEF vars, IInv, TypeOK, NeverThrows, TimersFitSelection, NoControllersFollowsSilence,
              LostFollowsSilence, WatchedWasHeard, Active, Heard
<1>2. QED
  BY <1>1, DeviceInfoInv, HeartbeatInv, NewControllerInv, MissedHeartbeatInv,
     LostControllerInv, NoControllersInv, TickInv DEF Next, Event, TimerFired

(***************************************************************************)
(* IInv holds in every reachable state: the invariant every other proof    *)
(* about the selector rests on.                                            *)
(***************************************************************************)
THEOREM Inductive == Spec => []IInv
  BY InitInv, NextInv, PTL DEF Spec

(***************************************************************************)
(* No handler of the selector ever schedules an active timer, so           *)
(* assert_inactive never throws on the reactor thread.                     *)
(***************************************************************************)
THEOREM NoThrow == Spec => []NeverThrows
<1>1. IInv => NeverThrows
  BY DEF IInv
<1>2. QED
  BY <1>1, Inductive, PTL

(***************************************************************************)
(* Every step that gives up or replaces the selected controller finds it   *)
(* silent for lost_active_controller_delay or longer.                      *)
(***************************************************************************)
LEMMA DropStep == IInv /\ [Next]_vars => [DropAfterSilence]_vars
<1> SUFFICES ASSUME IInv, Next, selected # NoController, selected' # selected
             PROVE  Heard(selected) /\ silence[selected] >= LostControllerDelay
  BY DEF DropAfterSilence
<1>1. CASE LostControllerFired
  <2>1. Active("LostController") /\ left["LostController"] = 0
    BY <1>1 DEF LostControllerFired, Expired, Active, Off
  <2>2. QED
    BY <2>1 DEF IInv, TypeOK, LostFollowsSilence, Heard
<1>2. CASE NewControllerFired
  <2>1. Active("NewController")
    BY <1>2 DEF NewControllerFired, Expired, Active, Off
  <2>2. QED
    BY <2>1 DEF IInv, TimersFitSelection
<1>3. QED
  BY <1>1, <1>2 DEF Next, Event, TimerFired, GotDeviceInfo, GotHeartbeat,
                    MissedHeartbeatFired, NoControllersFired, Tick

(***************************************************************************)
(* A selected controller is given up or replaced only after a silence of   *)
(* lost_active_controller_delay.                                           *)
(***************************************************************************)
THEOREM DropSafe == Spec => DroppedOnlyAfterSilence
  BY Inductive, DropStep, PTL DEF Spec, DroppedOnlyAfterSilence

(***************************************************************************)
(* The no-controllers callback is made only after the silence of every     *)
(* controller heard so far.                                                *)
(***************************************************************************)
LEMMA AlarmStep == IInv /\ [Next]_vars => [AlarmAfterSilence]_vars
<1> SUFFICES ASSUME IInv, NoControllersFired, NEW c \in Controllers, Heard(c)
             PROVE  silence[c] >= HeartbeatDeadline + NoControllersDelay
  BY DEF AlarmAfterSilence
<1>1. Active("NoControllers") /\ left["NoControllers"] = 0
  BY DEF NoControllersFired, Expired, Active, Off
<1>2. QED
  BY <1>1 DEF IInv, TypeOK, NoControllersFollowsSilence, Heard

(***************************************************************************)
(* The no-controllers callback is never made while some controller was     *)
(* heard within heartbeat_deadline + no_controllers_delay.                 *)
(***************************************************************************)
THEOREM AlarmSafe == Spec => NoFalseAlarm
  BY Inductive, AlarmStep, PTL DEF Spec, NoFalseAlarm

-----------------------------------------------------------------------------
(* The selector implements ActiveController. *)

LEMMA RefineInit == Init => Abstract!Init
  BY DEF Init, Abstract!Init, Phase

\* A heartbeat ends the abstract selector's suspicion or is a stutter.
LEMMA RefineHeartbeat ==
  ASSUME IInv, NEW c \in Controllers, GotHeartbeat(c)
  PROVE  [Abstract!Next]_(Abstract!vars)
<1> USE DEF GotHeartbeat, Abstract!vars, Phase
<1>1. CASE HeartbeatWhileSearching(c)
  BY <1>1 DEF HeartbeatWhileSearching
<1>2. CASE HeartbeatFromSelected(c)
  <2>1. Phase' = "watching"
    BY <1>2 DEF HeartbeatFromSelected, IInv, TypeOK, Active, TimerNames
  <2>2. CASE Active("LostController")
    BY <2>1, <2>2, <1>2 DEF HeartbeatFromSelected, Abstract!Next, Abstract!HearAgain
  <2>3. CASE ~Active("LostController")
    BY <2>1, <2>3, <1>2 DEF HeartbeatFromSelected
  <2>4. QED
    BY <2>2, <2>3
<1>3. CASE HeartbeatFromOther(c)
  BY <1>3 DEF HeartbeatFromOther, Active, IInv, TypeOK, TimerNames
<1>4. QED
  BY <1>1, <1>2, <1>3

\* NewController takes the abstract selector from searching to watching.
LEMMA RefineNewController ==
  ASSUME IInv, NewControllerFired
  PROVE  [Abstract!Next]_(Abstract!vars)
<1> DEFINE timers == [left EXCEPT !["NewController"] = Off]
<1>1. selected = NoController /\ ~Active("LostController")
  BY DEF NewControllerFired, Expired, Active, Off, IInv, TimersFitSelection
<1>2. CASE selected' = selected /\ left' = timers /\ UNCHANGED announced
  BY <1>1, <1>2 DEF Abstract!vars, Phase
<1>3. ASSUME NEW c \in Available, Select(c, timers)
      PROVE  Abstract!First
  <2>1. c \in Controllers
    BY DEF Available, Known
  <2>2. Phase = "searching" /\ Phase' = "watching"
    BY <1>1, <1>3, <2>1 DEF Phase, Select, Active, IInv, TypeOK, TimerNames, Off
  <2>3. QED
    BY <1>3, <2>1, <2>2 DEF Select, SendControllerState, Abstract!First, Abstract!Choose
<1>4. QED
  BY <1>2, <1>3 DEF NewControllerFired, SelectController, Abstract!Next

\* MissedHeartbeat takes the abstract selector from watching to suspecting.
LEMMA RefineMissedHeartbeat ==
  ASSUME IInv, MissedHeartbeatFired
  PROVE  [Abstract!Next]_(Abstract!vars)
<1>1. Active("MissedHeartbeat")
  BY DEF MissedHeartbeatFired, Expired, Active, Off
<1>2. selected # NoController /\ ~Active("LostController")
  BY <1>1 DEF IInv, TypeOK, TimersFitSelection
<1>3. Phase = "watching" /\ Phase' = "suspecting"
  BY <1>2 DEF Phase, MissedHeartbeatFired, IInv, TypeOK, Active, TimerNames, Off
<1>4. QED
  BY <1>3 DEF MissedHeartbeatFired, Abstract!Next, Abstract!MissHeartbeat

\* LostController replaces or gives up the abstract selection.
LEMMA RefineLostController ==
  ASSUME IInv, LostControllerFired
  PROVE  [Abstract!Next]_(Abstract!vars)
<1> DEFINE timers == [left EXCEPT !["LostController"] = Off]
<1>1. Active("LostController")
  BY DEF LostControllerFired, Expired, Active, Off
<1>2. selected # NoController /\ Phase = "suspecting"
  BY <1>1 DEF IInv, TimersFitSelection, Phase
<1>3. CASE selected' = NoController /\ left' = timers /\ UNCHANGED announced
  BY <1>2, <1>3 DEF Phase, Abstract!Next, Abstract!GiveUp
<1>4. ASSUME NEW c \in Available, Select(c, timers)
      PROVE  Abstract!Replace
  <2>1. c \in Controllers /\ silence[c] < HeartbeatDeadline
    BY DEF Available, Known
  <2>2. silence[selected] >= LostControllerDelay
    BY <1>1 DEF LostControllerFired, Expired, IInv, TypeOK, LostFollowsSilence, Heard
  <2>3. c # selected
    BY <2>1, <2>2, DelaysAssumption DEF IInv, TypeOK, LostFollowsSilence, Heard,
                                        Unknown, Never
  <2>4. Phase' = "watching"
    BY <1>4, <2>1, ControllersAssumption
       DEF Phase, Select, Active, IInv, TypeOK, TimerNames, Off
  <2>5. QED
    BY <1>2, <1>4, <2>1, <2>3, <2>4
       DEF Select, SendControllerState, Abstract!Replace, Abstract!Choose
<1>5. QED
  BY <1>3, <1>4 DEF LostControllerFired, SelectController, Abstract!Next

LEMMA RefineNext == IInv /\ [Next]_vars => [Abstract!Next]_(Abstract!vars)
<1> SUFFICES ASSUME IInv, [Next]_vars
             PROVE  [Abstract!Next]_(Abstract!vars)
  OBVIOUS
<1>1. CASE UNCHANGED vars
  BY <1>1 DEF vars, Abstract!vars, Phase, Active
<1>2. CASE \E c \in Controllers : GotDeviceInfo(c)
  BY <1>2 DEF GotDeviceInfo, Abstract!vars, Phase, Active
<1>3. CASE NoControllersFired
  BY <1>3 DEF NoControllersFired, Abstract!vars, Phase, Active, IInv, TypeOK, TimerNames
<1>4. CASE Tick
  BY <1>4 DEF Tick, Abstract!vars, Phase, Active, IInv, TypeOK, TimerNames, Off
<1>5. QED
  BY <1>1, <1>2, <1>3, <1>4, RefineHeartbeat, RefineNewController, RefineMissedHeartbeat,
     RefineLostController DEF Next, Event, TimerFired

(***************************************************************************)
(* The selector with its timers implements the state machine it documents, *)
(* ActiveController, for all controllers and delays.                       *)
(***************************************************************************)
THEOREM Refinement == Spec => AbstractSpec
  BY RefineInit, RefineNext, Inductive, PTL DEF Spec, AbstractSpec, Abstract!Spec

-----------------------------------------------------------------------------
(* LostInTime: prompt timers. *)

BudgetKept ==
    /\ mhDelay = Far \/ mhDelay <= HeartbeatDeadline
    /\ left["MissedHeartbeat"] \in Nat =>
          silence[selected] + left["MissedHeartbeat"] <= HeartbeatDeadline
    /\ left["LostController"] \in Nat =>
          silence[selected] + left["LostController"] <= HeartbeatDeadline + LostControllerDelay

\* Prompt timers are a special case of late ones, so the invariant carries over.
LEMMA TimingNextIsNext == [TimingNext]_vars => [Next]_vars
  BY DEF TimingNext, PromptTick, Next

LEMMA TimingInductive == TimingSpec => []IInv
  BY InitInv, NextInv, TimingNextIsNext, PTL DEF TimingSpec

LEMMA BudgetInit == Init => BudgetKept
  BY DEF Init, BudgetKept, TimerNames, Off

\* select sets MissedHeartbeat to what is left of the deadline.
LEMMA BudgetSelect ==
  ASSUME IInv, BudgetKept, NEW c \in Available, NEW t \in TimerNames,
         Select(c, [left EXCEPT ![t] = Off]), UNCHANGED silence,
         t = "LostController" \/ ~Active("LostController")
  PROVE  BudgetKept'
  BY DEF IInv, TypeOK, BudgetKept, Select, Available, Known, Active, Off, Far, Unknown, Never,
         TimerNames

LEMMA BudgetHeartbeat ==
  ASSUME IInv, BudgetKept, NEW c \in Controllers, GotHeartbeat(c)
  PROVE  BudgetKept'
<1> USE DEF GotHeartbeat, IInv, TypeOK, TimersFitSelection, BudgetKept, Active, Off, Far,
            TimerNames
<1>1. CASE HeartbeatWhileSearching(c)
  BY <1>1 DEF HeartbeatWhileSearching
<1>2. CASE HeartbeatFromSelected(c)
  BY <1>2 DEF HeartbeatFromSelected
<1>3. CASE HeartbeatFromOther(c)
  BY <1>3 DEF HeartbeatFromOther
<1>4. QED
  BY <1>1, <1>2, <1>3

LEMMA BudgetTimer ==
  ASSUME IInv, BudgetKept, TimerFired
  PROVE  BudgetKept'
<1> USE DEF IInv, TypeOK, TimersFitSelection, BudgetKept, Active, Expired, Off, Far, TimerNames
<1>1. CASE NewControllerFired
  <2>1. selected = NoController /\ ~Active("LostController")
    BY <1>1 DEF NewControllerFired
  <2>2. CASE selected' = selected /\ left' = [left EXCEPT !["NewController"] = Off]
             /\ UNCHANGED mhDelay
    BY <1>1, <2>2 DEF NewControllerFired
  <2>3. QED
    BY <1>1, <2>1, <2>2, BudgetSelect DEF NewControllerFired, SelectController
<1>2. CASE MissedHeartbeatFired
  BY <1>2 DEF MissedHeartbeatFired, WatchedWasHeard, Heard
<1>3. CASE LostControllerFired
  <2>1. ~Active("MissedHeartbeat")
    BY <1>3 DEF LostControllerFired
  <2>2. CASE selected' = NoController /\ left' = [left EXCEPT !["LostController"] = Off]
             /\ UNCHANGED mhDelay
    BY <1>3, <2>1, <2>2 DEF LostControllerFired
  <2>3. QED
    BY <1>3, <2>2, BudgetSelect DEF LostControllerFired, SelectController
<1>4. CASE NoControllersFired
  BY <1>4 DEF NoControllersFired
<1>5. QED
  BY <1>1, <1>2, <1>3, <1>4 DEF TimerFired

\* A prompt second moves one unit from time left to silence.
LEMMA BudgetTick ==
  ASSUME IInv, BudgetKept, PromptTick
  PROVE  BudgetKept'
<1> USE DEF IInv, TypeOK, BudgetKept, Active, Expired, Off, Far, TimerNames
<1>1. left["MissedHeartbeat"] # 0 /\ left["LostController"] # 0
  BY DEF PromptTick
<1>2. mhDelay' = Far \/ mhDelay' <= HeartbeatDeadline
  BY DEF PromptTick, Tick
<1>3. selected' = selected
  BY DEF PromptTick, Tick
<1>4. ASSUME NEW c \in Controllers, Heard(c)
      PROVE  silence[c] \in Nat /\ silence'[c] <= silence[c] + 1 /\ silence'[c] \in Nat
  BY <1>4 DEF PromptTick, Tick, Heard
<1>5. ASSUME NEW t \in TimerNames, left[t] # 0, left'[t] \in Nat
      PROVE  left[t] \in Nat /\ left'[t] = left[t] - 1
  BY <1>5 DEF PromptTick, Tick
<1>6. ASSUME left'["MissedHeartbeat"] \in Nat
      PROVE  silence'[selected'] + left'["MissedHeartbeat"] <= HeartbeatDeadline
  <2>1. left["MissedHeartbeat"] \in Nat
        /\ left'["MissedHeartbeat"] = left["MissedHeartbeat"] - 1
    BY <1>1, <1>5, <1>6
  <2>2. Heard(selected) /\ selected \in Controllers
    BY <2>1 DEF TimersFitSelection, WatchedWasHeard
  <2>3. silence[selected] + left["MissedHeartbeat"] <= HeartbeatDeadline
    BY <2>1
  <2>4. silence[selected] \in Nat /\ silence'[selected] \in Nat
        /\ silence'[selected] <= silence[selected] + 1
    BY <1>4, <2>2
  <2>5. QED
    BY <1>3, <2>1, <2>3, <2>4
<1>7. ASSUME left'["LostController"] \in Nat
      PROVE  silence'[selected'] + left'["LostController"]
                <= HeartbeatDeadline + LostControllerDelay
  <2>1. left["LostController"] \in Nat
        /\ left'["LostController"] = left["LostController"] - 1
    BY <1>1, <1>5, <1>7
  <2>2. Heard(selected) /\ selected \in Controllers
    BY <2>1 DEF TimersFitSelection, LostFollowsSilence
  <2>3. silence[selected] + left["LostController"] <= HeartbeatDeadline + LostControllerDelay
    BY <2>1
  <2>4. silence[selected] \in Nat /\ silence'[selected] \in Nat
        /\ silence'[selected] <= silence[selected] + 1
    BY <1>4, <2>2
  <2>5. QED
    BY <1>3, <2>1, <2>3, <2>4
<1>8. QED
  BY <1>2, <1>6, <1>7

LEMMA BudgetNext == IInv /\ BudgetKept /\ [TimingNext]_vars => BudgetKept'
<1> SUFFICES ASSUME IInv, BudgetKept, [TimingNext]_vars
             PROVE  BudgetKept'
  OBVIOUS
<1>1. CASE UNCHANGED vars
  BY <1>1 DEF vars, BudgetKept
<1>2. CASE \E c \in Controllers : GotDeviceInfo(c)
  BY <1>2 DEF GotDeviceInfo, IInv, TypeOK, BudgetKept, LostFollowsSilence, WatchedWasHeard,
              Heard, Active, Off, Far, Unknown, Never, TimerNames
<1>3. QED
  BY <1>1, <1>2, BudgetHeartbeat, BudgetTimer, BudgetTick DEF TimingNext, Event

(***************************************************************************)
(* With a reactor that keeps up, a selected controller that was heard is   *)
(* given up within heartbeat_deadline + lost_active_controller_delay of    *)
(* its last heartbeat.                                                     *)
(***************************************************************************)
THEOREM LostInTimeHolds == TimingSpec => []LostInTime
<1>1. IInv /\ BudgetKept => LostInTime
  BY DEF IInv, TypeOK, TimersFitSelection, LostFollowsSilence, BudgetKept, LostInTime, Heard,
         Active, Off, Far, Unknown, Never, TimerNames
<1>2. QED
  BY <1>1, BudgetInit, BudgetNext, TimingInductive, PTL DEF TimingSpec

-----------------------------------------------------------------------------
(***************************************************************************)
(* The alarm: while LostController runs, either NoControllers runs with    *)
(* it, or some controller was heard after MissedHeartbeat or not long      *)
(* before it, or has never been heard and will be selected.                *)
(***************************************************************************)
Recent(c) ==
    \/ silence[c] = Never
    \/ Heard(c) /\ silence[c] + left["LostController"] < HeartbeatDeadline + LostControllerDelay

AlarmKept ==
    Active("LostController") =>
        /\ left["LostController"] <= LostControllerDelay
        /\ ~Active("NoControllers") => \E c \in Controllers : Recent(c)
        /\ Active("NoControllers") =>
              left["NoControllers"]
                 = left["LostController"] + (NoControllersDelay - LostControllerDelay)

LEMMA AlarmInit == Init => AlarmKept
  BY DEF Init, AlarmKept, TimerNames, Off, Active

LEMMA AlarmDeviceInfo ==
  ASSUME IInv, AlarmKept, NEW c \in Controllers, GotDeviceInfo(c)
  PROVE  AlarmKept'
<1> USE DEF GotDeviceInfo
<1>1. left' = left
  OBVIOUS
<1>2. ASSUME NEW d \in Controllers, Recent(d)
      PROVE  Recent(d)'
  BY <1>1, <1>2 DEF Recent, Heard, IInv, TypeOK, Unknown, Never
<1>3. QED
  BY <1>1, <1>2 DEF AlarmKept, Active

LEMMA AlarmHeartbeat ==
  ASSUME IInv, AlarmKept, NEW c \in Controllers, GotHeartbeat(c)
  PROVE  AlarmKept'
<1> USE DEF GotHeartbeat, IInv, TypeOK, TimersFitSelection, Active, Off, Far, TimerNames
<1>1. CASE HeartbeatWhileSearching(c)
  <2>1. ~Active("LostController")'
    BY <1>1 DEF HeartbeatWhileSearching
  <2>2. QED
    BY <2>1 DEF AlarmKept
<1>2. CASE HeartbeatFromSelected(c)
  <2>1. ~Active("LostController")'
    BY <1>2 DEF HeartbeatFromSelected
  <2>2. QED
    BY <2>1 DEF AlarmKept
<1>3. CASE HeartbeatFromOther(c)
  <2>1. left'["LostController"] = left["LostController"] /\ ~Active("NoControllers")'
    BY <1>3 DEF HeartbeatFromOther
  <2>2. ASSUME Active("LostController")
        PROVE  Recent(c)' /\ left["LostController"] <= LostControllerDelay
    <3>1. silence'[c] = 0
      OBVIOUS
    <3>2. left["LostController"] <= LostControllerDelay /\ left["LostController"] \in Nat
      BY <2>2 DEF AlarmKept, LostFollowsSilence
    <3>3. QED
      BY <2>1, <3>1, <3>2 DEF Recent, Heard
  <2>3. QED
    BY <2>1, <2>2 DEF AlarmKept
<1>4. QED
  BY <1>1, <1>2, <1>3

\* Either NoControllers starts with LostController or somebody is recent.
LEMMA AlarmMissed ==
  ASSUME IInv, AlarmKept, MissedHeartbeatFired
  PROVE  AlarmKept'
<1> USE DEF MissedHeartbeatFired, IInv, TypeOK, Active, Expired, Off, Far, TimerNames
<1>1. left'["LostController"] = LostControllerDelay /\ ~Active("NoControllers")
  BY DEF NoControllersFollowsSilence
<1>2. CASE Available = {}
  <2>1. left'["NoControllers"] = NoControllersDelay
    BY <1>2
  <2>2. QED
    BY <1>1, <2>1 DEF AlarmKept
<1>3. CASE Available # {}
  <2>1. PICK c \in Controllers : silence[c] # Unknown /\ silence[c] < HeartbeatDeadline
    BY <1>3 DEF Available, Known
  <2>2. silence'[c] = silence[c] /\ left'["NoControllers"] = left["NoControllers"]
    BY <1>3
  <2>3. silence[c] = Never \/ silence[c] \in Nat
    BY <2>1 DEF Unknown
  <2>4. Recent(c)'
    BY <1>1, <2>1, <2>2, <2>3 DEF Recent, Heard
  <2>5. QED
    BY <1>1, <2>2, <2>4 DEF AlarmKept
<1>4. QED
  BY <1>2, <1>3

\* With a selection the timer that fires, or is not there, is LostController.
LEMMA LostNotActive ==
  ASSUME IInv, NewControllerFired \/ LostControllerFired
  PROVE  ~Active("LostController")'
<1> USE DEF IInv, TypeOK, TimersFitSelection, Active, Expired, Off, Far, TimerNames,
            SelectController, Select
<1>1. CASE NewControllerFired
  BY <1>1 DEF NewControllerFired
<1>2. CASE LostControllerFired
  BY <1>2 DEF LostControllerFired
<1>3. QED
  BY <1>1, <1>2

\* NoControllers, if it runs, has longer to run than LostController.
LEMMA AlarmNoControllers ==
  ASSUME IInv, AlarmKept, NoControllersFired, NoControllersDelay > LostControllerDelay
  PROVE  AlarmKept'
<1>1. left["NoControllers"] = 0
  BY DEF NoControllersFired, Expired
<1>2. ASSUME Active("LostController")
      PROVE  FALSE
  <2>1. left["LostController"] \in Nat
    BY <1>2 DEF IInv, TypeOK, LostFollowsSilence, Active, TimerNames, Off, Far
  <2>2. left["NoControllers"]
           = left["LostController"] + (NoControllersDelay - LostControllerDelay)
    BY <1>1, <1>2 DEF AlarmKept, Active, Off
  <2>3. QED
    BY <1>1, <2>1, <2>2
<1>3. ~Active("LostController")'
  BY <1>2 DEF NoControllersFired, IInv, TypeOK, Active, TimerNames, Off
<1>4. QED
  BY <1>3 DEF AlarmKept

\* Both timers run down together.
LEMMA AlarmTick ==
  ASSUME IInv, AlarmKept, PromptTick
  PROVE  AlarmKept'
<1> USE DEF IInv, TypeOK, Active, Expired, Off, Far, TimerNames
<1>1. ASSUME NEW t \in TimerNames
      PROVE  /\ left[t] # 0
             /\ left[t] \in Nat => left'[t] = left[t] - 1 /\ left'[t] \in Nat
             /\ left[t] \notin Nat => left'[t] = left[t]
  BY DEF PromptTick, Tick
<1>2. SUFFICES ASSUME Active("LostController")'
               PROVE  AlarmKept'
  BY DEF AlarmKept
<1>3. left["LostController"] \in Nat /\ Active("LostController")
      /\ left'["LostController"] = left["LostController"] - 1
  BY <1>1, <1>2 DEF LostFollowsSilence
<1>4. ASSUME NEW c \in Controllers, Recent(c)
      PROVE  Recent(c)'
  <2>1. CASE silence[c] = Never
    BY <2>1 DEF Recent, PromptTick, Tick, Never
  <2>2. CASE Heard(c)
    <3>1. silence[c] \in Nat /\ silence'[c] \in Nat /\ silence'[c] <= silence[c] + 1
      BY <2>2 DEF Heard, PromptTick, Tick
    <3>2. silence[c] + left["LostController"] < HeartbeatDeadline + LostControllerDelay
      BY <1>4, <2>2 DEF Recent, Heard, Never
    <3>3. QED
      BY <1>3, <3>1, <3>2 DEF Recent, Heard
  <2>3. QED
    BY <1>4, <2>1, <2>2 DEF Recent
<1>5. Active("NoControllers")' => Active("NoControllers") /\ left["NoControllers"] \in Nat
         /\ left'["NoControllers"] = left["NoControllers"] - 1
  BY <1>1 DEF NoControllersFollowsSilence
<1>6. ~Active("NoControllers")' => ~Active("NoControllers")
  BY <1>1
<1>7. left["LostController"] <= LostControllerDelay
      /\ left'["LostController"] <= LostControllerDelay
  BY <1>3 DEF AlarmKept
<1>8. Active("NoControllers")' => left'["NoControllers"]
          = left'["LostController"] + (NoControllersDelay - LostControllerDelay)
  BY <1>3, <1>5 DEF AlarmKept
<1>9. ~Active("NoControllers")' => \E c \in Controllers : Recent(c)'
  BY <1>3, <1>4, <1>6 DEF AlarmKept
<1>10. QED
  BY <1>7, <1>8, <1>9 DEF AlarmKept

LEMMA AlarmNext ==
  ASSUME NoControllersDelay > LostControllerDelay
  PROVE  IInv /\ AlarmKept /\ [TimingNext]_vars => AlarmKept'
<1> SUFFICES ASSUME IInv, AlarmKept, [TimingNext]_vars
             PROVE  AlarmKept'
  OBVIOUS
<1>1. CASE UNCHANGED vars
  BY <1>1 DEF vars, AlarmKept, Recent, Heard, Active
<1>2. CASE NewControllerFired \/ LostControllerFired
  BY <1>2, LostNotActive DEF AlarmKept
<1>3. QED
  BY <1>1, <1>2, AlarmDeviceInfo, AlarmHeartbeat, AlarmMissed, AlarmNoControllers, AlarmTick
     DEF TimingNext, Event, TimerFired

(***************************************************************************)
(* With a reactor that keeps up and a no-controllers delay longer than the *)
(* lost-controller delay, a device that gives up its controller after      *)
(* hearing nobody for long enough has the alarm running.                   *)
(***************************************************************************)
THEOREM AlarmHolds ==
  ASSUME NoControllersDelay > LostControllerDelay
  PROVE  TimingSpec => AlarmAfterLongSilence
<1> DEFINE Step == GaveUp /\ (\A c \in Controllers :
                        Heard(c) => silence[c] >= HeartbeatDeadline + LostControllerDelay)
                     => left'["NoControllers"] # Off
<1>1. IInv /\ AlarmKept => Step
  <2> SUFFICES ASSUME IInv, AlarmKept, GaveUp,
                      \A c \in Controllers :
                         Heard(c) => silence[c] >= HeartbeatDeadline + LostControllerDelay
               PROVE  left'["NoControllers"] # Off
    OBVIOUS
  <2> USE DEF GaveUp, LostControllerFired, SelectController, IInv, TypeOK, Active, Expired,
              Off, Far, TimerNames
  <2>1. left["LostController"] = 0 /\ Active("LostController")
    OBVIOUS
  <2>2. Available = {}
    BY ControllersAssumption DEF Select, Available, Known
  <2>3. ASSUME NEW c \in Controllers
        PROVE  ~Recent(c)
    BY <2>1, <2>2 DEF Recent, Available, Known, Never, Unknown, Heard
  <2>4. Active("NoControllers")
    BY <2>1, <2>3 DEF AlarmKept
  <2>5. left'["NoControllers"] = left["NoControllers"]
    BY <2>2 DEF Select
  <2>6. QED
    BY <2>4, <2>5
<1>2. IInv /\ AlarmKept => [Step]_vars
  BY <1>1
<1>3. QED
  BY <1>2, AlarmInit, AlarmNext, TimingInductive, PTL DEF TimingSpec, AlarmAfterLongSilence

-----------------------------------------------------------------------------
(***************************************************************************)
(* The search: a steady controller that was heard is recent, so selection  *)
(* finds a candidate whenever it is tried.                                 *)
(***************************************************************************)
LEMMA SearchInit == Init => SteadyAreRecent /\ SearchGoesOn
  BY SteadyAssumption DEF Init, SteadyAreRecent, SearchGoesOn, Heard, Active, TimerNames, Off, Unknown

\* A heartbeat makes its sender recent and starts the search if need be.
LEMMA SearchHeartbeat ==
  ASSUME IInv, SteadyAreRecent, SearchGoesOn, NEW c \in Controllers, GotHeartbeat(c)
  PROVE  (SteadyAreRecent /\ SearchGoesOn)'
<1> USE DEF IInv, TypeOK
<1>1. \A d \in Controllers : silence'[d] = IF d = c THEN 0 ELSE silence[d]
  BY DEF GotHeartbeat
<1>2. SteadyAreRecent'
  BY <1>1, SteadyAssumption, DelaysAssumption DEF SteadyAreRecent, Heard
<1>3. Known' = Known /\ c \in Known /\ selected' = selected
  BY <1>1 DEF GotHeartbeat, Known, Unknown
<1>4. CASE selected = NoController
  <2>1. HeartbeatWhileSearching(c)
    BY <1>4, ControllersAssumption
       DEF GotHeartbeat, HeartbeatFromSelected, HeartbeatFromOther
  <2>2. left'["NewController"] = IF left["NewController"] = Off THEN NewControllerDelay
                                 ELSE left["NewController"]
    BY <2>1 DEF HeartbeatWhileSearching, TimerNames
  <2>3. trigger' = IF Active("NewController") THEN trigger ELSE c
    BY <2>1 DEF HeartbeatWhileSearching
  <2> QED
    BY <1>2, <1>3, <2>2, <2>3, DelaysAssumption DEF SearchGoesOn, Active, Off
<1>5. CASE selected # NoController
  <2>1. left'["NewController"] = left["NewController"] /\ trigger' = trigger
    BY <1>5 DEF GotHeartbeat, HeartbeatWhileSearching, HeartbeatFromSelected, HeartbeatFromOther,
                TimerNames
  <2> QED
    BY <1>2, <1>3, <1>5, <2>1 DEF SearchGoesOn, Active
<1> QED
  BY <1>4, <1>5

\* NewController and LostController select if a steady controller was heard.
LEMMA SearchSelects ==
  ASSUME IInv, SteadyAreRecent, SearchGoesOn, UNCHANGED <<silence, trigger>>,
         NEW t \in {"NewController", "LostController"}, ~Active("NewController") \/ t = "NewController",
         NEW current \in Controllers \cup {NoController},
         SelectController(Available, current, [left EXCEPT ![t] = Off])
  PROVE  (SteadyAreRecent /\ SearchGoesOn)'
<1> USE DEF IInv, TypeOK
<1>1. SteadyAreRecent' /\ ~Active("NewController")'
  BY DEF SteadyAreRecent, Heard, SelectController, Select, Active, TimerNames
<1>2. ASSUME NEW c \in Steady, Heard(c) PROVE c \in Available
  BY <1>2, SteadyAssumption DEF SteadyAreRecent, Heard, Available, Known, Unknown
<1>3. ASSUME NEW c \in Steady, Heard(c) PROVE selected' \in Controllers
  BY <1>2, <1>3 DEF SelectController, Select, Available, Known
<1> QED
  BY <1>1, <1>3, ControllersAssumption DEF SearchGoesOn, Heard

\* A second passes; steady controllers do not become late.
LEMMA SearchTick ==
  ASSUME IInv, SteadyAreRecent, SearchGoesOn, PromptTick
  PROVE  (SteadyAreRecent /\ SearchGoesOn)'
<1> USE DEF IInv, TypeOK
<1>1. Tick
  BY DEF PromptTick
<1>2. ASSUME NEW c \in Controllers
      PROVE  /\ Heard(c)' <=> Heard(c)
             /\ Heard(c) => silence'[c] <= silence[c] + 1
             /\ silence'[c] # Unknown <=> silence[c] # Unknown
  BY <1>1 DEF Tick, Heard, Unknown, Never
<1>3. SteadyAreRecent'
  BY <1>2, SteadyAssumption, HorizonAssumption, DelaysAssumption
     DEF SteadyAreRecent, PromptTick, Heard
<1>4. Known' = Known
  BY <1>2 DEF Known
<1>5. /\ left["NewController"] # 0
      /\ left'["NewController"] = IF left["NewController"] > 0 THEN left["NewController"] - 1
                                  ELSE left["NewController"]
  BY <1>1 DEF PromptTick, Tick, TimerNames, Expired
<1>6. UNCHANGED <<selected, trigger>>
  BY <1>1 DEF Tick
<1> QED
  BY <1>2, <1>3, <1>4, <1>5, <1>6, SteadyAssumption, DelaysAssumption
     DEF SearchGoesOn, Active, Off, Far, TimerNames

LEMMA SearchNext ==
  IInv /\ SteadyAreRecent /\ SearchGoesOn /\ [TimingNext]_vars => (SteadyAreRecent /\ SearchGoesOn)'
<1> SUFFICES ASSUME IInv, SteadyAreRecent, SearchGoesOn, [TimingNext]_vars
             PROVE  (SteadyAreRecent /\ SearchGoesOn)'
  OBVIOUS
<1> USE DEF SteadyAreRecent, SearchGoesOn, Heard, Active, Known
<1>1. CASE UNCHANGED vars
  BY <1>1 DEF vars
<1>2. ASSUME NEW c \in Controllers, GotDeviceInfo(c) PROVE (SteadyAreRecent /\ SearchGoesOn)'
  BY <1>2, SteadyAssumption DEF GotDeviceInfo, IInv, TypeOK, Unknown, Never
<1>3. CASE NewControllerFired
  <2>1. Active("NewController") /\ selected = NoController
    BY <1>3 DEF NewControllerFired, Expired, Off, IInv, TimersFitSelection
  <2>2. SelectController(Available, selected, [left EXCEPT !["NewController"] = Off])
    BY <1>3, <2>1 DEF NewControllerFired
  <2> QED
    BY <1>3, <2>1, <2>2, SearchSelects DEF NewControllerFired
<1>4. CASE MissedHeartbeatFired
  <2>1. left'["NewController"] = left["NewController"]
    BY <1>4 DEF MissedHeartbeatFired, IInv, TypeOK, TimerNames
  <2> QED
    BY <1>4, <2>1 DEF MissedHeartbeatFired
<1>5. CASE LostControllerFired
  <2>1. ~Active("NewController")
    BY <1>5 DEF LostControllerFired, Expired, Off, IInv, TimersFitSelection
  <2> QED
    BY <1>5, <2>1, SearchSelects DEF LostControllerFired
<1>6. CASE NoControllersFired
  <2>1. left'["NewController"] = left["NewController"]
    BY <1>6 DEF NoControllersFired, IInv, TypeOK, TimerNames
  <2> QED
    BY <1>6, <2>1 DEF NoControllersFired
<1> QED
  BY <1>1, <1>2, <1>3, <1>4, <1>5, <1>6, SearchHeartbeat, SearchTick
     DEF TimingNext, Event, TimerFired

(***************************************************************************)
(* With a reactor that keeps up, a device without a controller never stops *)
(* searching once it has heard a controller that stays up: NewController   *)
(* runs, and when it fires there is a controller to select.                *)
(***************************************************************************)
THEOREM SearchHolds == TimingSpec => []SearchInv
  BY SearchInit, SearchNext, TimingInductive, PTL DEF TimingSpec, SearchInv

=============================================================================
