----------------------------- MODULE SelectorTiming -----------------------------
(***************************************************************************)
(* ControllerSelector in real time: the reactor dispatches an expired      *)
(* timer before a second passes, and some controllers stay up, so that no  *)
(* heartbeat_deadline passes between two of their heartbeats.              *)
(***************************************************************************)
EXTENDS ControllerSelector

CONSTANT Steady     \* the controllers that stay up

ASSUME SteadyAssumption == Steady \subseteq Controllers

PromptTick ==
    /\ \A t \in TimerNames : ~Expired(t)
    /\ \A c \in Steady : Heard(c) => silence[c] + 1 < HeartbeatDeadline
    /\ Tick

TimingNext == Event \/ PromptTick

(***************************************************************************)
(* Time passes, the reactor thread dispatches what is due, and the steady  *)
(* controllers publish: their DeviceInfo is transient-local and their      *)
(* heartbeats are repeated every second.                                   *)
(***************************************************************************)
TimingFairness ==
    /\ WF_vars(PromptTick)
    /\ WF_vars(TimerFired)
    /\ \A c \in Steady : WF_vars(GotDeviceInfo(c)) /\ WF_vars(~crashed /\ silence[c] > 0 /\ GotHeartbeat(c))
    /\ \A c \in Steady : WF_vars(silence[c] = Never /\ GotHeartbeat(c))

TimingSpec == Init /\ [][TimingNext]_vars /\ TimingFairness

(***************************************************************************)
(* A controller that stops is given up within heartbeat_deadline plus      *)
(* lost_active_controller_delay of its last heartbeat (the 9 seconds that  *)
(* tests/mc-sel waits), unless it was selected before it was ever heard.   *)
(***************************************************************************)
LostInTime ==
    selected # NoController /\ left["MissedHeartbeat"] # Far
        => silence[selected] <= HeartbeatDeadline + LostControllerDelay

(***************************************************************************)
(* While one controller stays up, a device without a controller finds one. *)
(***************************************************************************)
EventuallySelects == selected = NoController ~> selected # NoController

(***************************************************************************)
(* What EventuallySelects rests on: a device without a controller that has *)
(* heard one which stays up has the NewController timer running, started   *)
(* by a controller it knows and with no more than its delay left.  So the  *)
(* search is not given up, whichever of the timers fired last and however  *)
(* many other controllers have come and gone.                              *)
(***************************************************************************)
SteadyAreRecent == \A c \in Steady : Heard(c) => silence[c] < HeartbeatDeadline

SearchGoesOn ==
    /\ Active("NewController") => /\ trigger \in Known
                                  /\ left["NewController"] \in 0..NewControllerDelay
    /\ selected = NoController /\ (\E c \in Steady : Heard(c)) => Active("NewController")

\* With the selector's invariant, inductive under prompt timers.
SearchInv == IInv /\ SteadyAreRecent /\ SearchGoesOn

(***************************************************************************)
(* A device that gives up its controller and finds no other has the        *)
(* no-controllers alarm running, if it has heard no controller for         *)
(* heartbeat_deadline plus lost_active_controller_delay.                   *)
(***************************************************************************)
GaveUp == LostControllerFired /\ selected' = NoController

AlarmAfterLongSilence ==
    [][GaveUp /\ (\A c \in Controllers :
                     Heard(c) => silence[c] >= HeartbeatDeadline + LostControllerDelay)
          => left'["NoControllers"] # Off]_vars

-----------------------------------------------------------------------------
(* What a comment of the code says and the code does not do. *)

(***************************************************************************)
(* ControllerSelector.cpp:142: "If there are no recent controllers and we  *)
(* don't hear from another, the NoControllers timer will fire": a device   *)
(* that gives up its controller and finds no other has the timer running.  *)
(***************************************************************************)
AlarmArmedWhenLost == [][GaveUp => left'["NoControllers"] # Off]_vars

=============================================================================
