--------------------------- MODULE ActiveController ---------------------------
(***************************************************************************)
(* What a controller selector promises the device it belongs to and the    *)
(* controllers: the state machine drawn above class ControllerSelector,    *)
(* without its timers.  A controller is given up only after a missed       *)
(* heartbeat put it under suspicion, it is not chosen again at the moment  *)
(* it is given up, and only a choice changes the master announced to the   *)
(* controllers.                                                            *)
(***************************************************************************)

CONSTANTS Controllers, NoController

VARIABLES
    selected,   \* the controller obeyed
    announced,  \* the master the controllers were last told
    phase       \* "searching", "watching" or "suspecting"

vars == <<selected, announced, phase>>

Init ==
    /\ selected = NoController
    /\ announced = NoController
    /\ phase = "searching"

\* The announcement is one write, which may fail and is not repeated.
Choose(c) ==
    /\ selected' = c
    /\ announced' \in {c, announced}
    /\ phase' = "watching"

First ==
    /\ phase = "searching"
    /\ \E c \in Controllers : Choose(c)

MissHeartbeat ==
    /\ phase = "watching"
    /\ phase' = "suspecting"
    /\ UNCHANGED <<selected, announced>>

HearAgain ==
    /\ phase = "suspecting"
    /\ phase' = "watching"
    /\ UNCHANGED <<selected, announced>>

GiveUp ==
    /\ phase = "suspecting"
    /\ phase' = "searching"
    /\ selected' = NoController
    /\ UNCHANGED announced

Replace ==
    /\ phase = "suspecting"
    /\ \E c \in Controllers \ {selected} : Choose(c)

Next == First \/ MissHeartbeat \/ HearAgain \/ GiveUp \/ Replace

Spec == Init /\ [][Next]_vars

=============================================================================
