--------------------------------- MODULE Timers ---------------------------------
(***************************************************************************)
(* What TimerHandler promises to the classes built on it: a timer that was *)
(* scheduled and not cancelled makes its upcall, one upcall at a time, and *)
(* a timer that is not running makes none.  ControllerSelector relies on   *)
(* it: there an upcall is one step.                                        *)
(***************************************************************************)
CONSTANTS
    Types,      \* event types; each has one timer
    Periodic,   \* the types whose timer goes on after an upcall
    NoType

VARIABLES
    running,    \* the timers that were scheduled and not cancelled
    upcall      \* the timer whose handler runs, or NoType

vars == <<running, upcall>>

Init == running = {} /\ upcall = NoType

Schedule(t) ==
    /\ t \notin running
    /\ running' = running \cup {t}
    /\ UNCHANGED upcall

Cancel(t) ==
    /\ t \in running \ {upcall}
    /\ running' = running \ {t}
    /\ UNCHANGED upcall

Fire(t) ==
    /\ upcall = NoType /\ t \in running
    /\ upcall' = t
    /\ UNCHANGED running

Done ==
    /\ upcall # NoType
    /\ upcall' = NoType
    /\ running' = IF upcall \in Periodic THEN running ELSE running \ {upcall}

Next == Done \/ \E t \in Types : Schedule(t) \/ Cancel(t) \/ Fire(t)

Spec == Init /\ [][Next]_vars

=============================================================================
