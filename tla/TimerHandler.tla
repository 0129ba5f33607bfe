------------------------------ MODULE TimerHandler ------------------------------
(***************************************************************************)
(* TimerHandler under the threads that use it: listeners schedule, cancel  *)
(* and reschedule timers with lock_ held, the reactor's thread makes the   *)
(* upcalls, which take lock_ as well.                                      *)
(*                                                                         *)
(* ACE is external: its reactor keeps a token while it makes an upcall, a  *)
(* thread needs the token to change the timer queue (the reactor's thread  *)
(* in an upcall has it), and the id of a timer that has left the queue is  *)
(* given to another.  Any timer in the queue may expire at any time.       *)
(***************************************************************************)
EXTENDS Integers, FiniteSets

CONSTANTS
    Types,      \* event types; the code has one timer, named "", of each
    Periodic,   \* types that are scheduled with a period
    Listeners,  \* threads that are not the reactor's
    Reactor,    \* the thread that runs the reactor's event loop
    Ids,        \* timer ids of ACE
    Null        \* no id (null_timer_id), no thread, no type

ASSUME TypesAssumption == Periodic \subseteq Types /\ Null \notin Types
ASSUME ThreadsAssumption == Reactor \notin Listeners /\ Null \notin Listeners \cup {Reactor}
ASSUME IdsAssumption == Null \notin Ids

Threads == Listeners \cup {Reactor}

VARIABLES
    lock,       \* the thread that holds lock_
    token,      \* the thread that holds the reactor's token
    queue,      \* ACE's timer queue: <<id, type>>
    id,         \* Timer::id of each type
    active,     \* active_timers_: the timer under each key
    pc,         \* where each thread is
    arg,        \* the timer each thread schedules or cancels
    again,      \* it schedules the timer after cancelling it (reschedule)
    newId,      \* what schedule_timer returned to it
    firing      \* the timer whose upcall the reactor makes

calls == <<arg, again, newId>>
vars == <<lock, token, queue, id, active, pc, calls, firing>>

Steps == {"idle", "lock", "inside", "enqueue", "activate", "dequeue", "forget"}

\* Timer::key without the type.
Key_M(i, t) == <<i>>

Key(i, t) == <<i, t>>

NoKey == <<>>
KeyOf(t) == IF id[t] = Null THEN NoKey ELSE Key(id[t], t)

\* What assigning and erasing an element of a map do.
Assign(map, k, t) == {e \in map : e.key # k} \cup {[key |-> k, type |-> t]}
Erase(map, k) == {e \in map : e.key # k}

Active(t) == id[t] # Null

Init ==
    /\ lock = Null /\ token = Null
    /\ queue = {} /\ active = {}
    /\ id = [t \in Types |-> Null]
    /\ pc = [p \in Threads |-> "idle"]
    /\ arg = [p \in Threads |-> Null]
    /\ again = [p \in Threads |-> FALSE]
    /\ newId = [p \in Threads |-> Null]
    /\ firing = Null

Goto(p, step) == pc' = [pc EXCEPT ![p] = step]

-----------------------------------------------------------------------------
(* Calls of a thread that holds lock_. *)

\* A listener is called with a sample and takes lock_.
Enter(p) ==
    /\ p \in Listeners
    /\ pc[p] = "idle" /\ lock = Null
    /\ lock' = p
    /\ Goto(p, "inside")
    /\ UNCHANGED <<token, queue, id, active, calls, firing>>

Leave(p) ==
    /\ p \in Listeners
    /\ pc[p] = "inside"
    /\ lock' = Null
    /\ Goto(p, "idle")
    /\ UNCHANGED <<token, queue, id, active, calls, firing>>

\* No handler schedules an active timer (assert_inactive) or touches the
\* timer it is called for.
Schedule(p, t) ==
    /\ pc[p] = "inside"
    /\ ~Active(t) /\ (p = Reactor => t # firing)
    /\ arg' = [arg EXCEPT ![p] = t]
    /\ again' = [again EXCEPT ![p] = FALSE]
    /\ Goto(p, "enqueue")
    /\ UNCHANGED <<lock, token, queue, id, active, newId, firing>>

\* Cancelling a timer that is not active does nothing.
Cancel(p, t, r) ==
    /\ pc[p] = "inside"
    /\ Active(t) /\ (p = Reactor => t # firing)
    /\ arg' = [arg EXCEPT ![p] = t]
    /\ again' = [again EXCEPT ![p] = r]
    /\ Goto(p, "dequeue")
    /\ UNCHANGED <<lock, token, queue, id, active, newId, firing>>

HasToken(p) == token \in {Null, p}

\* The reactor gives the timer an id that is free in its queue.
Enqueue(p) ==
    /\ pc[p] = "enqueue" /\ HasToken(p)
    /\ \E i \in Ids :
          /\ \A q \in queue : q[1] # i
          /\ queue' = queue \cup {<<i, arg[p]>>}
          /\ newId' = [newId EXCEPT ![p] = i]
    /\ Goto(p, "activate")
    /\ UNCHANGED <<lock, token, id, active, arg, again, firing>>

Activate(p) ==
    /\ pc[p] = "activate"
    /\ id' = [id EXCEPT ![arg[p]] = newId[p]]
    /\ active' = Assign(active, Key(newId[p], arg[p]), arg[p])
    /\ Goto(p, "inside")
    /\ UNCHANGED <<lock, token, queue, calls, firing>>

Dequeue(p) ==
    /\ pc[p] = "dequeue" /\ HasToken(p)
    /\ queue' = {q \in queue : q[1] # id[arg[p]]}
    /\ Goto(p, "forget")
    /\ UNCHANGED <<lock, token, id, active, calls, firing>>

\* timer_wont_run
Forget(p) ==
    /\ pc[p] = "forget"
    /\ active' = Erase(active, KeyOf(arg[p]))
    /\ id' = [id EXCEPT ![arg[p]] = Null]
    /\ Goto(p, IF again[p] THEN "enqueue" ELSE "inside")
    /\ UNCHANGED <<lock, token, queue, calls, firing>>

-----------------------------------------------------------------------------
(* The reactor's event loop. *)

\* ACE takes the token; a timer without a period leaves the queue.
Expire(t) ==
    /\ pc[Reactor] = "idle" /\ token = Null
    /\ \E q \in queue :
          /\ q[2] = t
          /\ queue' = IF t \in Periodic THEN queue ELSE queue \ {q}
    /\ token' = Reactor
    /\ firing' = t
    /\ Goto(Reactor, "lock")
    /\ UNCHANGED <<lock, id, active, calls>>

\* handle_timeout: the handler of the timer found under the key runs.
Upcall ==
    /\ pc[Reactor] = "lock" /\ lock = Null
    /\ lock' = Reactor
    /\ Goto(Reactor, "inside")
    /\ UNCHANGED <<token, queue, id, active, calls, firing>>

\* Every timer is forgotten after its handler.
Finish_M ==
    /\ pc[Reactor] = "inside"
    /\ active' = Erase(active, KeyOf(firing))
    /\ id' = [id EXCEPT ![firing] = Null]
    /\ firing' = Null
    /\ lock' = Null /\ token' = Null
    /\ Goto(Reactor, "idle")
    /\ UNCHANGED <<queue, calls>>

\* The timer stays active after its last expiry.
Finish_StaysActive_M ==
    /\ pc[Reactor] = "inside"
    /\ firing' = Null
    /\ lock' = Null /\ token' = Null
    /\ Goto(Reactor, "idle")
    /\ UNCHANGED <<id, active, queue, calls>>

\* A timer without a period is forgotten after its handler.
Finish ==
    /\ pc[Reactor] = "inside"
    /\ IF firing \in Periodic
       THEN UNCHANGED <<id, active>>
       ELSE /\ active' = Erase(active, KeyOf(firing))
            /\ id' = [id EXCEPT ![firing] = Null]
    /\ firing' = Null
    /\ lock' = Null /\ token' = Null
    /\ Goto(Reactor, "idle")
    /\ UNCHANGED <<queue, calls>>

-----------------------------------------------------------------------------
Continue(p) == Enqueue(p) \/ Activate(p) \/ Dequeue(p) \/ Forget(p)

Next ==
    \/ \E p \in Threads :
          \/ Enter(p) \/ Leave(p) \/ Continue(p)
          \/ \E t \in Types : Schedule(p, t) \/ \E r \in BOOLEAN : Cancel(p, t, r)
    \/ \E t \in Types : Expire(t)
    \/ Upcall \/ Finish

(***************************************************************************)
(* Threads run on when they are not blocked, what they do while they hold  *)
(* lock_ comes to an end, the reactor dispatches the timers of its queue,  *)
(* and listeners that take lock_ again and again do not keep it from the   *)
(* reactor for ever.                                                       *)
(***************************************************************************)
Fairness ==
    /\ \A p \in Threads : WF_vars(Continue(p)) /\ SF_vars(Leave(p))
    /\ SF_vars(Upcall) /\ SF_vars(Finish)
    /\ \A t \in Types : SF_vars(Expire(t))

Spec == Init /\ [][Next]_vars

FairSpec == Spec /\ Fairness

-----------------------------------------------------------------------------
TypeOK ==
    /\ lock \in Threads \cup {Null} /\ token \in {Reactor, Null}
    /\ queue \subseteq Ids \X Types
    /\ id \in [Types -> Ids \cup {Null}]
    /\ active \subseteq [key : Ids \X Types, type : Types]
    /\ pc \in [Threads -> Steps]
    /\ arg \in [Threads -> Types \cup {Null}]
    /\ again \in [Threads -> BOOLEAN]
    /\ newId \in [Threads -> Ids \cup {Null}]
    /\ firing \in Types \cup {Null}

(***************************************************************************)
(* handle_timeout finds the timer it is called for under the key it reads  *)
(* through the pointer ACE was given, although the timer may have been     *)
(* cancelled or scheduled again and ids are used again: the case of the    *)
(* warning "timer key does NOT exist" never comes up.                      *)
(***************************************************************************)
ExpiryFindsTimer ==
    pc[Reactor] = "lock" /\ lock = Null
        => [key |-> KeyOf(firing), type |-> firing] \in active

(***************************************************************************)
(* When no thread is at work, the timers' ids, active_timers_ and the      *)
(* reactor's queue agree: a timer that is active is under its own key and  *)
(* will expire, one that is not is nowhere.                                *)
(***************************************************************************)
Queued(t) == <<id[t], t>> \in queue \/ (t = firing /\ t \notin Periodic)

EntriesMatch ==
    lock = Null =>
        /\ active = {[key |-> KeyOf(t), type |-> t] : t \in {u \in Types : Active(u)}}
        /\ \A q \in queue : id[q[2]] = q[1]
        /\ \A t \in Types : Active(t) => Queued(t)

(***************************************************************************)
(* The inductive invariant: who holds lock_ and the token, that the map    *)
(* holds exactly the active timers under their keys at every moment, and   *)
(* how far a call that schedules or cancels a timer has got.               *)
(***************************************************************************)
Held ==
    /\ \A p \in Listeners : pc[p] # "lock" /\ ((pc[p] = "idle") <=> (lock # p))
    /\ (lock = Reactor) <=> (pc[Reactor] \notin {"idle", "lock"})
    /\ (token = Reactor) <=> (pc[Reactor] # "idle")
    /\ (firing = Null) <=> (pc[Reactor] = "idle")

MapHoldsActive ==
    active = {[key |-> KeyOf(t), type |-> t] : t \in {u \in Types : Active(u)}}

InQueue(t) == \E q \in queue : q[2] = t

CallsConsistent ==
    \A p \in Threads :
       /\ pc[p] \in {"enqueue", "activate"} => arg[p] \in Types /\ ~Active(arg[p])
       /\ pc[p] \in {"dequeue", "forget"} => arg[p] \in Types /\ Active(arg[p])
       /\ pc[p] \in {"enqueue", "forget"} => arg[p] # firing /\ ~InQueue(arg[p])
       /\ pc[p] = "activate" =>
             /\ newId[p] \in Ids
             /\ \/ <<newId[p], arg[p]>> \in queue
                \/ arg[p] = firing /\ firing \notin Periodic
       /\ p = Reactor /\ pc[p] \in {"activate", "dequeue"} => arg[p] # firing

QueueConsistent ==
    /\ \A q, r \in queue : q[1] = r[1] => q = r
    /\ \A q \in queue :
          \/ id[q[2]] = q[1]
          \/ \E p \in Threads : pc[p] = "activate" /\ arg[p] = q[2] /\ newId[p] = q[1]
    /\ \A t \in Types : Active(t) =>
          Queued(t) \/ \E p \in Threads : pc[p] = "forget" /\ arg[p] = t
    /\ firing # Null =>
          /\ Active(firing) \/ \E p \in Threads : pc[p] = "activate" /\ arg[p] = firing
          /\ firing \notin Periodic => ~InQueue(firing)

\* The inductive invariant of locks, map, queue and calls under way.
IInv == TypeOK /\ Held /\ MapHoldsActive /\ CallsConsistent /\ QueueConsistent

(***************************************************************************)
(* A timer that is running makes its upcall, and one that is not makes     *)
(* none: the handler implements Timers.                                    *)
(***************************************************************************)
Abstract == INSTANCE Timers WITH
    NoType <- Null,
    running <- {t \in Types : Active(t)},
    upcall <- IF lock = Reactor THEN firing ELSE Null

ImplementsTimers == Abstract!Spec

(***************************************************************************)
(* A timer that is active makes its upcall or is cancelled ("Schedule a    *)
(* timer to this state in <N> seconds", ControllerSelector.h:92), unless   *)
(* the threads wait for each other: a listener has lock_ and waits for the *)
(* reactor's token to schedule or cancel, and the upcall waits for lock_.  *)
(* There is no other way for the timers to stop.                           *)
(***************************************************************************)
WaitForEachOther ==
    \E p \in Listeners :
        lock = p /\ pc[p] \in {"enqueue", "dequeue"} /\ pc[Reactor] = "lock"

LeadsToItsState ==
    \A t \in Types :
        Active(t) ~> (~Active(t) \/ (firing = t /\ lock = Reactor) \/ WaitForEachOther)

=============================================================================
