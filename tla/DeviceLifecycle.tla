----------------------------- MODULE DeviceLifecycle -----------------------------
(***************************************************************************)
(* One process of a power device: main sets up PowerDevice and its role's  *)
(* part, then runs the reactors and, in a source, the simulation's thread, *)
(* while the listeners of the readers created so far already handle        *)
(* samples.                                                                *)
(*                                                                         *)
(* One controller and one neighbour stand for all.  Either may still know  *)
(* a former process of the device: the controller then sends requests and  *)
(* connections, and the neighbour current, before this one has announced   *)
(* itself.                                                                 *)
(***************************************************************************)
EXTENDS Naturals, Sequences

CONSTANT MaxFailures    \* bound: calls of the set-up that fail

ASSUME LifecycleAssumption == MaxFailures \in Nat

Roles == {"source", "distribution", "load"}

\* What PowerDevice::init sets up, in order.
Common ==
    << "participant", "deviceInfoReader", "heartbeatReader", "deviceInfoWriter",
       "heartbeatWriter", "requestReader", "replyWriter", "noticeWriter",
       "simParticipant", "connectionReader", "announced" >>

\* What init of the role adds: a distribution device writes current before it reads it.
OfRole_M(r) ==
    CASE r = "source" -> << "currentWriter" >>
      [] r = "distribution" -> << "currentReader", "currentWriter" >>
      [] r = "load" -> << "currentReader" >>

OfRole(r) ==
    CASE r = "source" -> << "currentWriter" >>
      [] r = "distribution" -> << "currentWriter", "currentReader" >>
      [] r = "load" -> << "currentReader" >>

VARIABLES
    \* the main thread
    role,
    step,           \* position in Setup; behind it when running, then when init has failed
    failures,       \* calls that failed
    \* the device
    known,          \* all_controllers_ has the controller
    timer,          \* NewController is scheduled
    selected,       \* selected_ is the controller
    accepted,       \* the listener has compared the sender of a request and will carry it out
    level,          \* essl_
    connected,      \* connected_devices_in_ or _out_ has the neighbour
    sending,        \* the source's thread has passed wait_for_connections
    nil,            \* a writer that was used and did not exist, or "none"
    \* the others
    inbox,          \* samples in the readers
    master,         \* the controller takes itself for the device's master
    chosen          \* history: this process has chosen the controller at some time

mainVars == <<role, step, failures>>
selectorVars == <<known, timer, selected>>
powerVars == <<level, connected, sending>>
vars == <<mainVars, selectorVars, accepted, powerVars, nil, inbox, master, chosen>>

Setup == Common \o OfRole(role)
Made == {Setup[i] : i \in 1..(step - 1) \cap 1..Len(Setup)}
Writers == {"heartbeatWriter", "replyWriter", "noticeWriter", "currentWriter"}

\* The controller may know a former process.
Init ==
    /\ role \in Roles
    /\ step = 1 /\ failures = 0
    /\ known = FALSE /\ timer = FALSE /\ selected = FALSE
    /\ accepted = FALSE /\ level = "operational" /\ connected = FALSE /\ sending = FALSE
    /\ nil = "none"
    /\ inbox = {}
    /\ master \in BOOLEAN
    /\ chosen = FALSE

Running == step = Len(Setup) + 1
Failed == step = Len(Setup) + 2
Alive == nil = "none" /\ ~Failed

-----------------------------------------------------------------------------
(* The main thread. *)

Succeed == step' = step + 1 /\ UNCHANGED failures

\* Whatever fails ends init, and main.
Fail ==
    /\ failures < MaxFailures
    /\ failures' = failures + 1
    /\ step' = Len(Setup) + 2

Main ==
    /\ Alive /\ step \in 1..Len(Setup)
    /\ Succeed \/ Fail
    /\ UNCHANGED <<role, selectorVars, accepted, powerVars, nil, inbox, master, chosen>>

\* Uses a writer that may not exist yet.
Use(writer) == nil' = IF writer \in Made THEN nil ELSE writer

-----------------------------------------------------------------------------
(* The listeners. *)

GotDeviceInfo ==
    /\ known' = TRUE
    /\ UNCHANGED <<timer, selected, accepted, powerVars, nil>>

\* Schedules NewController for a known controller unless one is selected.
GotHeartbeat ==
    /\ timer' = (timer \/ (known /\ ~selected))
    /\ UNCHANGED <<known, selected, accepted, powerVars, nil>>

\* The sender is not compared with the selected controller.
TakeRequest_M ==
    /\ ~accepted
    /\ accepted' = TRUE
    /\ UNCHANGED <<selectorVars, powerVars, nil>>

\* The listener's thread compares; the reactor may give the controller up before
\* the request is carried out.  One request is handled at a time.
TakeRequest ==
    /\ ~accepted
    /\ accepted' = selected
    /\ UNCHANGED <<selectorVars, powerVars, nil>>

TakeConnection ==
    /\ connected' = TRUE
    /\ UNCHANGED <<selectorVars, accepted, level, sending, nil>>

\* A distribution device that is on relays current from its neighbours.
TakeCurrent ==
    /\ IF role = "distribution" /\ level = "operational" /\ connected
       THEN Use("currentWriter") ELSE UNCHANGED nil
    /\ UNCHANGED <<selectorVars, accepted, powerVars>>

Take ==
    /\ Alive
    /\ \E sample \in inbox :
          /\ inbox' = inbox \ {sample}
          /\ \/ sample = "info" /\ GotDeviceInfo
             \/ sample = "heartbeat" /\ GotHeartbeat
             \/ sample = "request" /\ TakeRequest
             \/ sample = "connection" /\ TakeConnection
             \/ sample = "current" /\ TakeCurrent
    /\ UNCHANGED <<mainVars, master, chosen>>

\* Sets the level asked for and replies.
CarryOut ==
    /\ Alive /\ accepted
    /\ accepted' = FALSE
    /\ level' \in {"operational", "off"}
    /\ Use("replyWriter")
    /\ UNCHANGED <<mainVars, selectorVars, connected, sending, inbox, master, chosen>>

-----------------------------------------------------------------------------
(* The reactors and the source's thread; main starts them after init. *)

Dispatching == Alive /\ Running

\* Selects the controller if it was heard recently and announces it, which may fail.
NewController ==
    /\ Dispatching /\ timer
    /\ timer' = FALSE
    /\ \/ /\ selected' = TRUE /\ chosen' = TRUE
          /\ Use("noticeWriter")
          /\ master' \in {master, TRUE}
       \/ UNCHANGED <<selected, nil, master, chosen>>
    /\ UNCHANGED <<mainVars, known, accepted, powerVars, inbox>>

\* Giving up a controller is not announced.
LostController ==
    /\ Dispatching /\ selected
    /\ selected' = FALSE
    /\ UNCHANGED <<mainVars, known, timer, accepted, powerVars, nil, inbox, master, chosen>>

HeartbeatEvent ==
    /\ Dispatching
    /\ Use("heartbeatWriter")
    /\ UNCHANGED <<mainVars, selectorVars, accepted, powerVars, inbox, master, chosen>>

SimulatePowerFlow ==
    /\ Alive /\ Running /\ role = "source"
    /\ connected /\ (sending => level = "operational")
    /\ sending' = TRUE
    /\ IF level = "operational" THEN Use("currentWriter") ELSE UNCHANGED nil
    /\ UNCHANGED <<mainVars, selectorVars, accepted, level, connected, inbox, master, chosen>>

-----------------------------------------------------------------------------
(* The others. *)

Arrive(sample) == inbox' = inbox \cup {sample}

Controller ==
    \/ "deviceInfoReader" \in Made /\ Arrive("info")
    \/ "heartbeatReader" \in Made /\ Arrive("heartbeat")
    \/ master /\ "requestReader" \in Made /\ Arrive("request")
    \/ "connectionReader" \in Made /\ Arrive("connection")

Neighbour == "currentReader" \in Made /\ Arrive("current")

Others ==
    /\ Alive
    /\ Controller \/ Neighbour
    /\ UNCHANGED <<mainVars, selectorVars, accepted, powerVars, nil, master, chosen>>

Next ==
    \/ Main \/ Take \/ CarryOut \/ Others
    \/ NewController \/ LostController \/ HeartbeatEvent \/ SimulatePowerFlow

Spec == Init /\ [][Next]_vars

-----------------------------------------------------------------------------
(***************************************************************************)
(* Types, and that a process whose set-up failed does not go on.           *)
(***************************************************************************)
TypeOK ==
    /\ role \in Roles
    /\ step \in 1..Len(Setup) + 2
    /\ failures \in 0..MaxFailures
    /\ failures > 0 => Failed
    /\ {known, timer, selected, accepted, connected, sending, master, chosen} \subseteq BOOLEAN
    /\ level \in {"operational", "off"}
    /\ nil \in Writers \cup {"none"}
    /\ inbox \subseteq {"info", "heartbeat", "request", "connection", "current"}

(***************************************************************************)
(* No writer is used before it exists, although readers with listeners are *)
(* created before the writers their handlers use (PowerDevice.cpp:61, 111, *)
(* 154; Distribution.cpp): a request is answered only when a controller was*)
(* selected, which only an upcall does, and main runs the reactors, and    *)
(* the source's thread, only after an init that has succeeded.             *)
(***************************************************************************)
WritersFound == nil = "none"

(***************************************************************************)
(* A restarted device obeys no controller that it has not chosen again,    *)
(* whatever that controller remembers of the former process.  (It may have *)
(* given the controller up between comparing and carrying out.)            *)
(***************************************************************************)
ObeysAfterChoosing == [][level' # level => chosen /\ Running]_vars

(***************************************************************************)
(* The inductive invariant behind both: a controller is selected, or a     *)
(* request of it about to be carried out, only while the reactors run, and *)
(* then this process has chosen it; and current comes only to a reader     *)
(* there is.                                                               *)
(***************************************************************************)
ChoosesWhenRunning == selected \/ accepted => chosen /\ Running
CurrentNeedsReader == "current" \in inbox => "currentReader" \in Made

IInv == TypeOK /\ WritersFound /\ ChoosesWhenRunning /\ CurrentNeedsReader

=============================================================================
