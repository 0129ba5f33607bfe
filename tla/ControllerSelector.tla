--------------------------- MODULE ControllerSelector ---------------------------
(***************************************************************************)
(* How a power device chooses the microgrid controller it obeys            *)
(* (common/ControllerSelector): one selector, the heartbeats and device    *)
(* infos that reach it, and its four one-shot timers.  Every handler runs  *)
(* under the selector's lock_, so a handler is one step.                   *)
(*                                                                         *)
(* Time advances in ticks of one second.  An expired timer is dispatched   *)
(* at any later moment: the reactor thread may be slow or wait for lock_.  *)
(* SelectorTiming adds a reactor that keeps up.  A definition whose name   *)
(* ends in _M is a plausible mistake in the one that follows it; only the  *)
(* sensitivity checks of the runs use it.                                  *)
(***************************************************************************)
EXTENDS Integers

CONSTANTS
    Controllers,         \* each named by its place in prioritized_controllers_
    NoController,        \* the empty identity
    HeartbeatDeadline,
    NewControllerDelay,
    LostControllerDelay,
    NoControllersDelay,
    Horizon              \* bound: silences this long or longer look the same

ASSUME ControllersAssumption == /\ Controllers \subseteq Nat
                                /\ NoController \in Int \ Controllers
ASSUME DelaysAssumption == /\ HeartbeatDeadline \in Nat \ {0}
                           /\ NewControllerDelay \in Nat \ {0}
                           /\ LostControllerDelay \in Nat
                           /\ LostControllerDelay >= HeartbeatDeadline
                           /\ NoControllersDelay \in Nat \ {0}
ASSUME HorizonAssumption == /\ Horizon \in Nat
                            /\ Horizon > HeartbeatDeadline + LostControllerDelay
                            /\ Horizon >= HeartbeatDeadline + NoControllersDelay

VARIABLES
    silence,    \* all_controllers_: time since the last heartbeat, per controller
    selected,   \* selected_
    announced,  \* masterId of the last ActiveMicrogridControllerState written
    left,       \* time each timer has left to run
    trigger,    \* argument of the NewController timer
    mhDelay,    \* delay stored in the MissedHeartbeat timer, which reschedule reuses
    crashed     \* schedule found its timer active and threw

vars == <<silence, selected, announced, left, trigger, mhDelay, crashed>>

TimerNames == {"NewController", "MissedHeartbeat", "LostController", "NoControllers"}

Off == -1       \* the timer is not scheduled
Far == -2       \* scheduled, some 237 years ahead

Unknown == -2   \* no DeviceInfo from this controller yet
Never == -1     \* DeviceInfo but no heartbeat: now - TimePoint::min() wraps below 0

Active(t) == left[t] # Off
Expired(t) == left[t] = 0

Known == {c \in Controllers : silence[c] # Unknown}

\* Only the first controller is looked at, not the first available one.
Available_M == {c \in Known : silence[c] < HeartbeatDeadline /\ \A d \in Known : c <= d}

(***************************************************************************)
(* The controllers the selection loop accepts.  The test is the code's     *)
(* `last_hb < heartbeat_deadline', which a wrapped age passes as well.     *)
(***************************************************************************)
Available == {c \in Known : silence[c] < HeartbeatDeadline}

Heard(c) == silence[c] \in Nat

Init ==
    /\ silence = [c \in Controllers |-> Unknown]
    /\ selected = NoController
    /\ announced = NoController
    /\ left = [t \in TimerNames |-> Off]
    /\ trigger = NoController
    /\ mhDelay = 0
    /\ crashed = FALSE

-----------------------------------------------------------------------------
(* Samples from the DDS topics. *)

GotDeviceInfo(c) ==
    /\ ~crashed
    /\ silence[c] = Unknown
    /\ silence' = [silence EXCEPT ![c] = Never]
    /\ UNCHANGED <<selected, announced, left, trigger, mhDelay, crashed>>

\* NewController is started whether or not a controller is selected.
HeartbeatWhileSearching_M(c) ==
    /\ left' = [left EXCEPT !["NoControllers"] = Off,
                            !["NewController"] = IF @ = Off THEN NewControllerDelay ELSE @]
    /\ trigger' = IF Active("NewController") THEN trigger ELSE c
    /\ UNCHANGED mhDelay

HeartbeatWhileSearching(c) ==
    /\ selected = NoController
    /\ left' = [left EXCEPT !["NoControllers"] = Off,
                            !["NewController"] = IF @ = Off THEN NewControllerDelay ELSE @]
    /\ trigger' = IF Active("NewController") THEN trigger ELSE c
    /\ UNCHANGED mhDelay

\* The LostController timer is not cancelled.
HeartbeatFromSelected_M(c) ==
    /\ selected = c
    /\ mhDelay' = IF Active("MissedHeartbeat") THEN mhDelay ELSE HeartbeatDeadline
    /\ left' = [left EXCEPT !["NoControllers"] = Off, !["MissedHeartbeat"] = mhDelay']
    /\ UNCHANGED trigger

\* MissedHeartbeat is not scheduled again once it has fired.
HeartbeatFromSelected_NotAgain_M(c) ==
    /\ selected = c
    /\ left' = [left EXCEPT !["NoControllers"] = Off,
                            !["LostController"] = Off,
                            !["MissedHeartbeat"] = IF @ = Off THEN Off ELSE mhDelay]
    /\ UNCHANGED <<trigger, mhDelay>>

HeartbeatFromSelected(c) ==
    /\ selected = c
    /\ mhDelay' = IF Active("MissedHeartbeat") THEN mhDelay ELSE HeartbeatDeadline
    /\ left' = [left EXCEPT !["NoControllers"] = Off,
                            !["LostController"] = Off,
                            !["MissedHeartbeat"] = mhDelay']
    /\ UNCHANGED trigger

\* Only the selected controller's heartbeats call off the alarm.
HeartbeatFromOther_M(c) ==
    /\ selected \notin {NoController, c}
    /\ UNCHANGED <<left, trigger, mhDelay>>

HeartbeatFromOther(c) ==
    /\ selected \notin {NoController, c}
    /\ left' = [left EXCEPT !["NoControllers"] = Off]
    /\ UNCHANGED <<trigger, mhDelay>>

\* A heartbeat from a controller without a DeviceInfo changes nothing.
GotHeartbeat(c) ==
    /\ ~crashed
    /\ c \in Known
    /\ silence' = [silence EXCEPT ![c] = 0]
    /\ \/ HeartbeatWhileSearching(c)
       \/ HeartbeatFromSelected(c)
       \/ HeartbeatFromOther(c)
    /\ UNCHANGED <<selected, announced, crashed>>

-----------------------------------------------------------------------------
(* Timers. *)

\* A write that fails is only logged.
SendControllerState(c) == announced' \in {c, announced}

Select(c, timers) ==
    /\ selected' = c
    /\ SendControllerState(c)
    /\ mhDelay' = IF silence[c] = Never THEN Far ELSE HeartbeatDeadline - silence[c]
    /\ left' = [timers EXCEPT !["MissedHeartbeat"] = mhDelay']
    /\ crashed' = Active("MissedHeartbeat")

\* Select the first of the candidates; without one selected_ is left at current.
SelectController(candidates, current, timers) ==
    \/ /\ candidates = {}
       /\ selected' = current
       /\ left' = timers
       /\ UNCHANGED <<announced, mhDelay, crashed>>
    \/ \E c \in candidates :
          /\ \A d \in candidates : c <= d
          /\ Select(c, timers)

\* The handler gives up when the controller that started the timer is unknown.
NewControllerFired ==
    /\ ~crashed
    /\ Expired("NewController")
    /\ SelectController(IF trigger \in Known THEN Available ELSE {},
                        selected, [left EXCEPT !["NewController"] = Off])
    /\ UNCHANGED <<silence, trigger>>

\* NoControllers is left to LostController.
MissedHeartbeatFired_M ==
    /\ ~crashed
    /\ Expired("MissedHeartbeat")
    /\ left' = [left EXCEPT !["MissedHeartbeat"] = Off,
                            !["LostController"] = LostControllerDelay]
    /\ crashed' = Active("LostController")
    /\ UNCHANGED <<silence, selected, announced, trigger, mhDelay>>

MissedHeartbeatFired ==
    /\ ~crashed
    /\ Expired("MissedHeartbeat")
    /\ left' = [left EXCEPT !["MissedHeartbeat"] = Off,
                            !["LostController"] = LostControllerDelay,
                            !["NoControllers"] = IF Available = {} THEN NoControllersDelay ELSE @]
    /\ crashed' = (Active("LostController") \/ (Available = {} /\ Active("NoControllers")))
    /\ UNCHANGED <<silence, selected, announced, trigger, mhDelay>>

LostControllerFired ==
    /\ ~crashed
    /\ Expired("LostController")
    /\ SelectController(Available, NoController, [left EXCEPT !["LostController"] = Off])
    /\ UNCHANGED <<silence, trigger>>

NoControllersFired ==
    /\ ~crashed
    /\ Expired("NoControllers")
    /\ left' = [left EXCEPT !["NoControllers"] = Off]
    /\ UNCHANGED <<silence, selected, announced, trigger, mhDelay, crashed>>

Tick ==
    /\ silence' = [c \in Controllers |->
                      IF silence[c] \in 0..(Horizon - 1) THEN silence[c] + 1 ELSE silence[c]]
    /\ left' = [t \in TimerNames |-> IF left[t] > 0 THEN left[t] - 1 ELSE left[t]]
    /\ UNCHANGED <<selected, announced, trigger, mhDelay, crashed>>

-----------------------------------------------------------------------------
TimerFired ==
    \/ NewControllerFired
    \/ MissedHeartbeatFired
    \/ LostControllerFired
    \/ NoControllersFired

Event ==
    \/ \E c \in Controllers : GotDeviceInfo(c) \/ GotHeartbeat(c)
    \/ TimerFired

Next == Event \/ Tick

Spec == Init /\ [][Next]_vars

-----------------------------------------------------------------------------
TypeOK ==
    /\ silence \in [Controllers -> {Unknown, Never} \cup 0..Horizon]
    /\ selected \in Controllers \cup {NoController}
    /\ announced \in Controllers \cup {NoController}
    /\ left \in [TimerNames -> {Off, Far} \cup Nat]
    /\ trigger \in Controllers \cup {NoController}
    /\ mhDelay \in {Far} \cup Nat
    /\ crashed \in BOOLEAN

(***************************************************************************)
(* No handler schedules a timer that is still active: TimerHandler would   *)
(* throw out of the reactor's upcall (assert_inactive).                    *)
(***************************************************************************)
NeverThrows == ~crashed

(***************************************************************************)
(* The timers fit the selection: without a controller nothing watches      *)
(* heartbeats; with one NewController is off and exactly one of            *)
(* MissedHeartbeat and LostController runs.                                *)
(***************************************************************************)
TimersFitSelection ==
    /\ selected = NoController => ~Active("MissedHeartbeat") /\ ~Active("LostController")
    /\ selected # NoController => /\ ~Active("NewController")
                                  /\ Active("MissedHeartbeat") <=> ~Active("LostController")

(***************************************************************************)
(* The selected controller is given up or replaced only after it has been  *)
(* silent for at least lost_active_controller_delay, however the           *)
(* heartbeats, DeviceInfos and the other timers interleave.                *)
(***************************************************************************)
DropAfterSilence ==
    selected # NoController /\ selected' # selected
        => Heard(selected) /\ silence[selected] >= LostControllerDelay

DroppedOnlyAfterSilence == [][DropAfterSilence]_vars

(***************************************************************************)
(* The no-controllers callback is not made while some controller was heard *)
(* within heartbeat_deadline + no_controllers_delay.                       *)
(***************************************************************************)
AlarmAfterSilence ==
    NoControllersFired
        => \A c \in Controllers :
              Heard(c) => silence[c] >= HeartbeatDeadline + NoControllersDelay

NoFalseAlarm == [][AlarmAfterSilence]_vars

(***************************************************************************)
(* The inductive invariant behind the properties above.  A running         *)
(* NoControllers timer means that every controller heard so far has been   *)
(* silent since it was started, so the MissedHeartbeat timer can only run  *)
(* for a controller never heard; a running LostController means that the   *)
(* selected controller has been silent since it was started.               *)
(***************************************************************************)
NoControllersFollowsSilence ==
    Active("NoControllers") =>
        /\ left["NoControllers"] # Far
        /\ \A c \in Controllers : Heard(c) =>
              silence[c] + left["NoControllers"] >= HeartbeatDeadline + NoControllersDelay
        /\ left["NoControllers"] <= NoControllersDelay
        /\ left["MissedHeartbeat"] \in {Off, Far}

LostFollowsSilence ==
    Active("LostController") =>
        /\ left["LostController"] # Far
        /\ Heard(selected)
        /\ silence[selected] + left["LostController"] >= LostControllerDelay

WatchedWasHeard ==
    left["MissedHeartbeat"] \in Nat => Heard(selected)

IInv ==
    /\ TypeOK
    /\ NeverThrows
    /\ TimersFitSelection
    /\ NoControllersFollowsSilence
    /\ LostFollowsSilence
    /\ WatchedWasHeard

(***************************************************************************)
(* What a selector promises, whatever its timers do (ActiveController).    *)
(***************************************************************************)
Phase ==
    IF selected = NoController THEN "searching"
    ELSE IF Active("LostController") THEN "suspecting" ELSE "watching"

Abstract == INSTANCE ActiveController WITH phase <- Phase

AbstractSpec == Abstract!Spec

=============================================================================
