--------------------------- MODULE TimerHandlerProofs ---------------------------
(***************************************************************************)
(* No interleaving of the threads makes handle_timeout miss its timer or   *)
(* leaves active_timers_ and the reactor's queue at odds, for any number   *)
(* of listeners, types and ids, and the handler implements Timers.         *)
(***************************************************************************)
EXTENDS TimerHandler, TLAPS

LEMMA InitHolds == Init => IInv
<1> SUFFICES ASSUME Init PROVE IInv
  OBVIOUS
<1> USE TypesAssumption, ThreadsAssumption, IdsAssumption DEF Init, Threads
<1>1. TypeOK
  BY DEF TypeOK, Steps
<1>2. Held
  BY DEF Held
<1>3. MapHoldsActive
  BY DEF MapHoldsActive, Active
<1>4. CallsConsistent /\ QueueConsistent
  BY DEF CallsConsistent, QueueConsistent, Active
<1> QED
  BY <1>1, <1>2, <1>3, <1>4 DEF IInv

(***************************************************************************)
(* lock_ makes sure that one thread at a time is in a call.                *)
(***************************************************************************)
LEMMA OneCaller ==
    ASSUME IInv, NEW p \in Threads, NEW q \in Threads,
           pc[p] \notin {"idle", "lock"}, pc[q] \notin {"idle", "lock"}
    PROVE p = q
  BY ThreadsAssumption DEF IInv, Held, Threads

LEMMA TypeStep ==
    ASSUME IInv, [Next]_vars
    PROVE TypeOK'
<1> USE TypesAssumption, ThreadsAssumption, IdsAssumption DEF IInv, Threads, Goto, calls
<1>1. ASSUME NEW p \in Threads, Enter(p) PROVE TypeOK'
  BY <1>1 DEF Enter, TypeOK, Steps, NoKey, KeyOf, Key, Assign, Erase, Active
<1>2. ASSUME NEW p \in Threads, Leave(p) PROVE TypeOK'
  BY <1>2 DEF Leave, TypeOK, Steps, NoKey, KeyOf, Key, Assign, Erase, Active
<1>3. ASSUME NEW p \in Threads, NEW t \in Types, Schedule(p, t) PROVE TypeOK'
  BY <1>3 DEF Schedule, TypeOK, Steps, NoKey, KeyOf, Key, Assign, Erase, Active
<1>4. ASSUME NEW p \in Threads, NEW t \in Types, NEW r \in BOOLEAN, Cancel(p, t, r) PROVE TypeOK'
  BY <1>4 DEF Cancel, TypeOK, Steps, NoKey, KeyOf, Key, Assign, Erase, Active
<1>5. ASSUME NEW p \in Threads, Enqueue(p) PROVE TypeOK'
  <2>1. PICK i \in Ids : queue' = queue \cup {<<i, arg[p]>>} /\ newId' = [newId EXCEPT ![p] = i]
    BY <1>5 DEF Enqueue
  <2>2. arg[p] \in Types
    BY <1>5 DEF Enqueue, CallsConsistent
  <2>3. queue' \subseteq Ids \X Types
    BY <2>1, <2>2 DEF TypeOK
  <2>4. newId' \in [Threads -> Ids \cup {Null}]
    BY <2>1 DEF TypeOK
  <2> QED
    BY <1>5, <2>3, <2>4 DEF Enqueue, TypeOK, Steps
<1>6. ASSUME NEW p \in Threads, Activate(p) PROVE TypeOK'
  <2>1. arg[p] \in Types /\ newId[p] \in Ids
    BY <1>6 DEF Activate, CallsConsistent
  <2>2. active' \subseteq [key : Ids \X Types, type : Types]
    BY <1>6, <2>1 DEF Activate, Assign, Key, TypeOK
  <2> QED
    BY <1>6, <2>1, <2>2 DEF Activate, TypeOK, Steps
<1>7. ASSUME NEW p \in Threads, Dequeue(p) PROVE TypeOK'
  BY <1>7 DEF Dequeue, TypeOK, Steps, NoKey, KeyOf, Key, Assign, Erase, Active
<1>8. ASSUME NEW p \in Threads, Forget(p) PROVE TypeOK'
  BY <1>8 DEF Forget, TypeOK, Steps, NoKey, KeyOf, Key, Assign, Erase, Active
<1>9. ASSUME NEW t \in Types, Expire(t) PROVE TypeOK'
  BY <1>9 DEF Expire, TypeOK, Steps, NoKey, KeyOf, Key, Assign, Erase, Active
<1>10. ASSUME Upcall PROVE TypeOK'
  BY <1>10 DEF Upcall, TypeOK, Steps, NoKey, KeyOf, Key, Assign, Erase, Active
<1>11. ASSUME Finish PROVE TypeOK'
  BY <1>11 DEF Finish, TypeOK, Steps, NoKey, KeyOf, Key, Assign, Erase, Active
<1>12. CASE UNCHANGED vars
  BY <1>12 DEF vars, TypeOK, Steps, NoKey, KeyOf, Key, Assign, Erase, Active
<1> QED
  BY <1>1, <1>2, <1>3, <1>4, <1>5, <1>6, <1>7, <1>8, <1>9, <1>10, <1>11, <1>12 DEF Next, Continue

\* Who is in a call holds the lock and the token that call needs.
LEMMA HeldStep ==
    ASSUME IInv, [Next]_vars
    PROVE Held'
<1> USE TypesAssumption, ThreadsAssumption, IdsAssumption DEF IInv, Threads, Goto, calls
<1>1. ASSUME NEW p \in Threads, Enter(p) PROVE Held'
  BY <1>1 DEF Enter, TypeOK, Held, HasToken
<1>2. ASSUME NEW p \in Threads, Leave(p) PROVE Held'
  BY <1>2 DEF Leave, TypeOK, Held, HasToken
<1>3. ASSUME NEW p \in Threads, NEW t \in Types, Schedule(p, t) PROVE Held'
  BY <1>3 DEF Schedule, TypeOK, Held, HasToken
<1>4. ASSUME NEW p \in Threads, NEW t \in Types, NEW r \in BOOLEAN, Cancel(p, t, r) PROVE Held'
  BY <1>4 DEF Cancel, TypeOK, Held, HasToken
<1>5. ASSUME NEW p \in Threads, Enqueue(p) PROVE Held'
  BY <1>5 DEF Enqueue, TypeOK, Held, HasToken
<1>6. ASSUME NEW p \in Threads, Activate(p) PROVE Held'
  BY <1>6 DEF Activate, TypeOK, Held, HasToken
<1>7. ASSUME NEW p \in Threads, Dequeue(p) PROVE Held'
  BY <1>7 DEF Dequeue, TypeOK, Held, HasToken
<1>8. ASSUME NEW p \in Threads, Forget(p) PROVE Held'
  BY <1>8 DEF Forget, TypeOK, Held, HasToken
<1>9. ASSUME NEW t \in Types, Expire(t) PROVE Held'
  BY <1>9 DEF Expire, TypeOK, Held, HasToken
<1>10. ASSUME Upcall PROVE Held'
  BY <1>10 DEF Upcall, TypeOK, Held, HasToken
<1>11. ASSUME Finish PROVE Held'
  BY <1>11 DEF Finish, TypeOK, Held, HasToken
<1>12. CASE UNCHANGED vars
  BY <1>12 DEF vars, TypeOK, Held, HasToken
<1> QED
  BY <1>1, <1>2, <1>3, <1>4, <1>5, <1>6, <1>7, <1>8, <1>9, <1>10, <1>11, <1>12 DEF Next, Continue

\* active_timers_ has the active timers under their keys, but for calls under way.
LEMMA MapStep ==
    ASSUME IInv, [Next]_vars
    PROVE MapHoldsActive'
<1> USE TypesAssumption, ThreadsAssumption, IdsAssumption DEF IInv, Threads, Goto, calls
<1>1. ASSUME NEW p \in Threads, Enter(p) PROVE MapHoldsActive'
  BY <1>1 DEF Enter, TypeOK, MapHoldsActive, CallsConsistent, Held, Active, KeyOf, Key, NoKey, Assign, Erase, HasToken
<1>2. ASSUME NEW p \in Threads, Leave(p) PROVE MapHoldsActive'
  BY <1>2 DEF Leave, TypeOK, MapHoldsActive, CallsConsistent, Held, Active, KeyOf, Key, NoKey, Assign, Erase, HasToken
<1>3. ASSUME NEW p \in Threads, NEW t \in Types, Schedule(p, t) PROVE MapHoldsActive'
  BY <1>3 DEF Schedule, TypeOK, MapHoldsActive, CallsConsistent, Held, Active, KeyOf, Key, NoKey, Assign, Erase, HasToken
<1>4. ASSUME NEW p \in Threads, NEW t \in Types, NEW r \in BOOLEAN, Cancel(p, t, r) PROVE MapHoldsActive'
  BY <1>4 DEF Cancel, TypeOK, MapHoldsActive, CallsConsistent, Held, Active, KeyOf, Key, NoKey, Assign, Erase, HasToken
<1>5. ASSUME NEW p \in Threads, Enqueue(p) PROVE MapHoldsActive'
  BY <1>5 DEF Enqueue, TypeOK, MapHoldsActive, CallsConsistent, Held, Active, KeyOf, Key, NoKey, Assign, Erase, HasToken
<1>6. ASSUME NEW p \in Threads, Activate(p) PROVE MapHoldsActive'
  <2> DEFINE a == arg[p]
             entry == [key |-> <<newId[p], a>>, type |-> a]
  <2>1. a \in Types /\ ~Active(a) /\ newId[p] \in Ids
    BY <1>6 DEF Activate, CallsConsistent
  <2>2. active' = active \cup {entry}
    BY <1>6, <2>1 DEF Activate, Assign, Key, KeyOf, MapHoldsActive, Active
  <2>3. id' = [id EXCEPT ![a] = newId[p]] /\ arg' = arg
    BY <1>6 DEF Activate
  <2>4. id'[a] = newId[p] /\ \A t \in Types \ {a} : id'[t] = id[t]
    BY <2>1, <2>3 DEF TypeOK
  <2>5. \A t \in Types : Active(t)' <=> (Active(t) \/ t = a)
    BY <2>1, <2>4 DEF Active
  <2>6. \A t \in Types : Active(t) => KeyOf(t)' = KeyOf(t)
    BY <2>1, <2>4 DEF Active, KeyOf, Key
  <2>7. KeyOf(a)' = <<newId[p], a>>
    BY <2>1, <2>3, <2>4 DEF KeyOf, Key
  <2>8. ASSUME NEW e
        PROVE e \in active' <=> \E t \in Types : Active(t)' /\ e = [key |-> KeyOf(t)', type |-> t]
    <3>1. e \in active <=> \E t \in Types : Active(t) /\ e = [key |-> KeyOf(t), type |-> t]
      BY DEF MapHoldsActive
    <3> HIDE DEF entry
    <3>2. e = entry <=> e = [key |-> KeyOf(a)', type |-> a]
      BY <2>7 DEF entry
    <3>3. e \in active' <=> (e \in active \/ e = entry)
      BY <2>2
    <3>4. \A t \in Types : (Active(t)' /\ e = [key |-> KeyOf(t)', type |-> t])
                        <=> \/ Active(t) /\ e = [key |-> KeyOf(t), type |-> t]
                            \/ t = a /\ e = [key |-> KeyOf(a)', type |-> a]
      BY <2>1, <2>3, <2>5, <2>6
    <3> QED
      BY <2>1, <3>1, <3>2, <3>3, <3>4, Zenon
  <2> QED
    BY <2>8, Zenon DEF MapHoldsActive
<1>7. ASSUME NEW p \in Threads, Dequeue(p) PROVE MapHoldsActive'
  BY <1>7 DEF Dequeue, TypeOK, MapHoldsActive, CallsConsistent, Held, Active, KeyOf, Key, NoKey, Assign, Erase, HasToken
<1>8. ASSUME NEW p \in Threads, Forget(p) PROVE MapHoldsActive'
  BY <1>8 DEF Forget, TypeOK, MapHoldsActive, CallsConsistent, Held, Active, KeyOf, Key, NoKey, Assign, Erase, HasToken
<1>9. ASSUME NEW t \in Types, Expire(t) PROVE MapHoldsActive'
  BY <1>9 DEF Expire, TypeOK, MapHoldsActive, CallsConsistent, Held, Active, KeyOf, Key, NoKey, Assign, Erase, HasToken
<1>10. ASSUME Upcall PROVE MapHoldsActive'
  BY <1>10 DEF Upcall, TypeOK, MapHoldsActive, CallsConsistent, Held, Active, KeyOf, Key, NoKey, Assign, Erase, HasToken
<1>11. ASSUME Finish PROVE MapHoldsActive'
  BY <1>11 DEF Finish, TypeOK, MapHoldsActive, CallsConsistent, Held, Active, KeyOf, Key, NoKey, Assign, Erase, HasToken
<1>12. CASE UNCHANGED vars
  BY <1>12 DEF vars, TypeOK, MapHoldsActive, CallsConsistent, Held, Active, KeyOf, Key, NoKey, Assign, Erase, HasToken
<1> QED
  BY <1>1, <1>2, <1>3, <1>4, <1>5, <1>6, <1>7, <1>8, <1>9, <1>10, <1>11, <1>12 DEF Next, Continue

\* A call has done so much as its place in the code says.
LEMMA CallsStep ==
    ASSUME IInv, [Next]_vars
    PROVE CallsConsistent'
<1> USE TypesAssumption, ThreadsAssumption, IdsAssumption DEF IInv, Threads, Goto, calls
<1>1. ASSUME NEW p \in Threads, Enter(p) PROVE CallsConsistent'
  BY <1>1 DEF Enter, TypeOK, Held, CallsConsistent, QueueConsistent, Active, InQueue, Queued, HasToken
<1>2. ASSUME NEW p \in Threads, Leave(p) PROVE CallsConsistent'
  BY <1>2 DEF Leave, TypeOK, Held, CallsConsistent, QueueConsistent, Active, InQueue, Queued, HasToken
<1>3. ASSUME NEW p \in Threads, NEW t \in Types, Schedule(p, t) PROVE CallsConsistent'
  BY <1>3 DEF Schedule, TypeOK, Held, CallsConsistent, QueueConsistent, Active, InQueue, Queued, HasToken
<1>4. ASSUME NEW p \in Threads, NEW t \in Types, NEW r \in BOOLEAN, Cancel(p, t, r) PROVE CallsConsistent'
  BY <1>4 DEF Cancel, TypeOK, Held, CallsConsistent, QueueConsistent, Active, InQueue, Queued, HasToken
<1>5. ASSUME NEW p \in Threads, Enqueue(p) PROVE CallsConsistent'
  <2>1. PICK i \in Ids : queue' = queue \cup {<<i, arg[p]>>} /\ newId' = [newId EXCEPT ![p] = i]
    BY <1>5 DEF Enqueue
  <2>2. pc' = [pc EXCEPT ![p] = "activate"] /\ UNCHANGED <<arg, id, firing>> /\ pc[p] = "enqueue"
    BY <1>5 DEF Enqueue
  <2>3. newId'[p] = i /\ <<i, arg[p]>> \in queue'
    BY <2>1 DEF TypeOK
  <2>4. pc'[p] = "activate" /\ \A q \in Threads \ {p} : pc'[q] = pc[q] /\ pc[q] \in {"idle", "lock"}
    BY <2>2, OneCaller DEF TypeOK, Steps
  <2>5. arg[p] \in Types /\ ~Active(arg[p]) /\ arg[p] # firing
    BY <2>2 DEF CallsConsistent
  <2> QED
    BY <2>2, <2>3, <2>4, <2>5 DEF CallsConsistent, Active
<1>6. ASSUME NEW p \in Threads, Activate(p) PROVE CallsConsistent'
  BY <1>6 DEF Activate, TypeOK, Held, CallsConsistent, QueueConsistent, Active, InQueue, Queued, HasToken
<1>7. ASSUME NEW p \in Threads, Dequeue(p) PROVE CallsConsistent'
  BY <1>7 DEF Dequeue, TypeOK, Held, CallsConsistent, QueueConsistent, Active, InQueue, Queued, HasToken
<1>8. ASSUME NEW p \in Threads, Forget(p) PROVE CallsConsistent'
  BY <1>8 DEF Forget, TypeOK, Held, CallsConsistent, QueueConsistent, Active, InQueue, Queued, HasToken
<1>9. ASSUME NEW t \in Types, Expire(t) PROVE CallsConsistent'
  BY <1>9 DEF Expire, TypeOK, Held, CallsConsistent, QueueConsistent, Active, InQueue, Queued, HasToken
<1>10. ASSUME Upcall PROVE CallsConsistent'
  BY <1>10 DEF Upcall, TypeOK, Held, CallsConsistent, QueueConsistent, Active, InQueue, Queued, HasToken
<1>11. ASSUME Finish PROVE CallsConsistent'
  BY <1>11 DEF Finish, TypeOK, Held, CallsConsistent, QueueConsistent, Active, InQueue, Queued, HasToken
<1>12. CASE UNCHANGED vars
  BY <1>12 DEF vars, TypeOK, Held, CallsConsistent, QueueConsistent, Active, InQueue, Queued, HasToken
<1> QED
  BY <1>1, <1>2, <1>3, <1>4, <1>5, <1>6, <1>7, <1>8, <1>9, <1>10, <1>11, <1>12 DEF Next, Continue

\* The reactor's queue has the timers that are to expire.
LEMMA QueueStep ==
    ASSUME IInv, [Next]_vars
    PROVE QueueConsistent'
<1> USE TypesAssumption, ThreadsAssumption, IdsAssumption DEF IInv, Threads, Goto, calls
<1>1. ASSUME NEW p \in Threads, Enter(p) PROVE QueueConsistent'
  BY <1>1 DEF Enter, TypeOK, Held, CallsConsistent, QueueConsistent, Active, InQueue, Queued, HasToken
<1>2. ASSUME NEW p \in Threads, Leave(p) PROVE QueueConsistent'
  BY <1>2 DEF Leave, TypeOK, Held, CallsConsistent, QueueConsistent, Active, InQueue, Queued, HasToken
<1>3. ASSUME NEW p \in Threads, NEW t \in Types, Schedule(p, t) PROVE QueueConsistent'
  BY <1>3 DEF Schedule, TypeOK, Held, CallsConsistent, QueueConsistent, Active, InQueue, Queued, HasToken
<1>4. ASSUME NEW p \in Threads, NEW t \in Types, NEW r \in BOOLEAN, Cancel(p, t, r) PROVE QueueConsistent'
  BY <1>4 DEF Cancel, TypeOK, Held, CallsConsistent, QueueConsistent, Active, InQueue, Queued, HasToken
<1>5. ASSUME NEW p \in Threads, Enqueue(p) PROVE QueueConsistent'
  <2>1. PICK i \in Ids : /\ \A q \in queue : q[1] # i
                        /\ queue' = queue \cup {<<i, arg[p]>>}
                        /\ newId' = [newId EXCEPT ![p] = i]
    BY <1>5 DEF Enqueue
  <2>2. pc' = [pc EXCEPT ![p] = "activate"] /\ UNCHANGED <<arg, id, firing>> /\ pc[p] = "enqueue"
    BY <1>5 DEF Enqueue
  <2>3. newId'[p] = i /\ pc'[p] = "activate"
    BY <2>1, <2>2 DEF TypeOK
  <2>4. \A q \in Threads \ {p} : pc'[q] = pc[q] /\ pc[q] \in {"idle", "lock"}
    BY <2>2, OneCaller DEF TypeOK, Steps
  <2>5. arg[p] \in Types /\ ~Active(arg[p]) /\ arg[p] # firing
    BY <2>2 DEF CallsConsistent
  <2>6. \A q, r \in queue' : q[1] = r[1] => q = r
    BY <2>1 DEF QueueConsistent
  <2>7. \A q \in queue : id[q[2]] = q[1]
    BY <2>2, <2>4 DEF QueueConsistent
  <2>8. \A q \in queue' : id'[q[2]] = q[1] \/ (q[2] = arg'[p] /\ q[1] = newId'[p])
    BY <2>1, <2>2, <2>3, <2>7
  <2>9. \A t \in Types : Active(t)' => Queued(t)'
    BY <2>1, <2>2, <2>4 DEF QueueConsistent, Active, Queued
  <2>10. firing' # Null => /\ Active(firing)'
                           /\ firing' \notin Periodic => ~InQueue(firing)'
    BY <2>1, <2>2, <2>4, <2>5 DEF QueueConsistent, Active, InQueue
  <2> QED
    BY <2>2, <2>3, <2>6, <2>8, <2>9, <2>10 DEF QueueConsistent
<1>6. ASSUME NEW p \in Threads, Activate(p) PROVE QueueConsistent'
  <2> DEFINE a == arg[p]
  <2>1. /\ pc' = [pc EXCEPT ![p] = "inside"] /\ UNCHANGED <<arg, newId, queue, firing>>
        /\ pc[p] = "activate" /\ id' = [id EXCEPT ![a] = newId[p]]
    BY <1>6 DEF Activate
  <2>2. \A q \in Threads \ {p} : pc'[q] = pc[q] /\ pc[q] \in {"idle", "lock"}
    BY <2>1, OneCaller DEF TypeOK, Steps
  <2>3. a \in Types /\ ~Active(a) /\ newId[p] \in Ids
    BY <2>1 DEF CallsConsistent
  <2>4. id'[a] = newId[p] /\ \A t \in Types \ {a} : id'[t] = id[t]
    BY <2>1, <2>3 DEF TypeOK
  <2>5. \A q \in queue : q[2] \in Types /\ q[1] # Null /\ q = <<q[1], q[2]>>
    BY DEF TypeOK
  <2>6. \A q \in queue : id'[q[2]] = q[1]
    <3> SUFFICES ASSUME NEW q \in queue PROVE id'[q[2]] = q[1]
      OBVIOUS
    <3>1. CASE q[2] = a
      BY <2>1, <2>2, <2>3, <2>4, <2>5, <3>1 DEF QueueConsistent, Active
    <3>2. CASE q[2] # a
      BY <2>1, <2>2, <2>4, <2>5, <3>2 DEF QueueConsistent
    <3> QED
      BY <3>1, <3>2
  <2>7. ASSUME NEW t \in Types, Active(t)' PROVE Queued(t)'
    <3>1. CASE t = a
      BY <2>1, <2>4, <3>1 DEF CallsConsistent, Queued
    <3>2. CASE t # a
      BY <2>1, <2>2, <2>4, <2>7, <3>2 DEF QueueConsistent, Queued, Active
    <3> QED
      BY <3>1, <3>2
  <2>8. firing' # Null => /\ Active(firing)'
                          /\ firing' \notin Periodic => ~InQueue(firing)'
    BY <2>1, <2>2, <2>3, <2>4 DEF QueueConsistent, Active, InQueue, TypeOK
  <2> QED
    BY <2>1, <2>6, <2>7, <2>8 DEF QueueConsistent
<1>7. ASSUME NEW p \in Threads, Dequeue(p) PROVE QueueConsistent'
  <2> DEFINE a == arg[p]
  <2>1. /\ pc' = [pc EXCEPT ![p] = "forget"] /\ UNCHANGED <<arg, newId, id, firing>>
        /\ pc[p] = "dequeue" /\ queue' = {q \in queue : q[1] # id[a]}
    BY <1>7 DEF Dequeue
  <2>2. \A q \in Threads \ {p} : pc'[q] = pc[q] /\ pc[q] \in {"idle", "lock"}
    BY <2>1, OneCaller DEF TypeOK, Steps
  <2>3. a \in Types /\ Active(a) /\ pc'[p] = "forget" /\ (firing = Null \/ a # firing)
    BY <1>7, <2>1 DEF CallsConsistent, Dequeue, HasToken, Held, TypeOK
  <2>4. \A q \in queue : id[q[2]] = q[1] /\ q[2] \in Types
    BY <2>1, <2>2 DEF QueueConsistent, TypeOK
  <2>5. ASSUME NEW t \in Types, Active(t)', t # a PROVE Queued(t)'
    <3>1. Queued(t)
      BY <2>1, <2>2, <2>5 DEF QueueConsistent, Active
    <3>2. <<id[a], a>> \in queue
      BY <2>1, <2>2, <2>3 DEF QueueConsistent, Queued, TypeOK
    <3>3. <<id[t], t>> \in queue => id[t] # id[a]
      BY <3>2, <2>5 DEF QueueConsistent
    <3> QED
      BY <2>1, <3>1, <3>3 DEF Queued
  <2>6. firing' # Null => /\ Active(firing)'
                          /\ firing' \notin Periodic => ~InQueue(firing)'
    BY <2>1, <2>2 DEF QueueConsistent, Active, InQueue
  <2>7. /\ \A q, r \in queue' : q[1] = r[1] => q = r
        /\ \A q \in queue' : id'[q[2]] = q[1]
    BY <2>1, <2>4 DEF QueueConsistent
  <2> QED
    BY <2>1, <2>3, <2>5, <2>6, <2>7 DEF QueueConsistent
<1>8. ASSUME NEW p \in Threads, Forget(p) PROVE QueueConsistent'
  <2> DEFINE a == arg[p]
  <2>1. /\ UNCHANGED <<arg, newId, queue, firing>>
        /\ pc[p] = "forget" /\ id' = [id EXCEPT ![a] = Null]
        /\ pc'[p] \in {"enqueue", "inside"}
        /\ \A q \in Threads \ {p} : pc'[q] = pc[q]
    BY <1>8 DEF Forget, TypeOK, Steps
  <2>2. \A q \in Threads \ {p} : pc[q] \in {"idle", "lock"}
    BY <2>1, OneCaller DEF TypeOK, Steps
  <2>3. a \in Types /\ a # firing /\ ~InQueue(a)
    BY <2>1 DEF CallsConsistent
  <2>4. id'[a] = Null /\ \A t \in Types \ {a} : id'[t] = id[t]
    BY <2>1, <2>3 DEF TypeOK
  <2>5. \A q \in queue : q[2] \in Types \ {a} /\ id[q[2]] = q[1]
    BY <2>1, <2>2, <2>3 DEF QueueConsistent, TypeOK, InQueue
  <2>6. \A t \in Types : Active(t)' => t # a /\ Queued(t)'
    BY <2>1, <2>2, <2>4 DEF QueueConsistent, Active, Queued
  <2>7. firing' # Null => /\ Active(firing)'
                          /\ firing' \notin Periodic => ~InQueue(firing)'
    BY <2>1, <2>2, <2>3, <2>4 DEF QueueConsistent, Active, InQueue, TypeOK
  <2> QED
    BY <2>1, <2>4, <2>5, <2>6, <2>7 DEF QueueConsistent
<1>9. ASSUME NEW t \in Types, Expire(t) PROVE QueueConsistent'
  BY <1>9 DEF Expire, TypeOK, Held, CallsConsistent, QueueConsistent, Active, InQueue, Queued, HasToken
<1>10. ASSUME Upcall PROVE QueueConsistent'
  BY <1>10 DEF Upcall, TypeOK, Held, CallsConsistent, QueueConsistent, Active, InQueue, Queued, HasToken
<1>11. ASSUME Finish PROVE QueueConsistent'
  BY <1>11 DEF Finish, TypeOK, Held, CallsConsistent, QueueConsistent, Active, InQueue, Queued, HasToken
<1>12. CASE UNCHANGED vars
  BY <1>12 DEF vars, TypeOK, Held, CallsConsistent, QueueConsistent, Active, InQueue, Queued, HasToken
<1> QED
  BY <1>1, <1>2, <1>3, <1>4, <1>5, <1>6, <1>7, <1>8, <1>9, <1>10, <1>11, <1>12 DEF Next, Continue

(***************************************************************************)
(* The invariant is inductive.                                             *)
(***************************************************************************)
THEOREM Inductive == Spec => []IInv
<1>1. IInv /\ [Next]_vars => IInv'
  BY TypeStep, HeldStep, MapStep, CallsStep, QueueStep DEF IInv
<1> QED
  BY InitHolds, <1>1, PTL DEF Spec

(***************************************************************************)
(* handle_timeout always finds its timer.                                  *)
(***************************************************************************)
THEOREM FindsTimer == Spec => []ExpiryFindsTimer
<1>1. IInv => ExpiryFindsTimer
  <2> SUFFICES ASSUME IInv, pc[Reactor] = "lock", lock = Null
               PROVE [key |-> KeyOf(firing), type |-> firing] \in active
    BY DEF ExpiryFindsTimer
  <2>1. firing \in Types /\ Active(firing)
    BY ThreadsAssumption DEF IInv, Held, TypeOK, QueueConsistent, Threads
  <2> QED
    BY <2>1 DEF IInv, MapHoldsActive
<1> QED
  BY <1>1, Inductive, PTL

(***************************************************************************)
(* The map, the ids and the reactor's queue agree between calls.           *)
(***************************************************************************)
THEOREM EntriesAgree == Spec => []EntriesMatch
<1>1. IInv => EntriesMatch
  BY ThreadsAssumption DEF IInv, Held, TypeOK, QueueConsistent, MapHoldsActive, EntriesMatch, Threads
<1> QED
  BY <1>1, Inductive, PTL

LEMMA RefineInit == Init => Abstract!Init
  BY ThreadsAssumption DEF Init, Abstract!Init, Active

LEMMA RefineNext ==
    ASSUME IInv, [Next]_vars
    PROVE [Abstract!Next]_(Abstract!vars)
<1> USE TypesAssumption, ThreadsAssumption, IdsAssumption DEF IInv, Threads, Goto, calls
<1> DEFINE running == {t \in Types : Active(t)}
           upcall == IF lock = Reactor THEN firing ELSE Null
<1>1. CASE UNCHANGED vars
  BY <1>1 DEF vars, Abstract!vars, Active
<1>2. ASSUME NEW p \in Threads, Enter(p) \/ Leave(p) PROVE UNCHANGED Abstract!vars
  BY <1>2 DEF Enter, Leave, Held, Abstract!vars, Active
<1>3. ASSUME NEW p \in Threads, Enqueue(p) \/ Dequeue(p) PROVE UNCHANGED Abstract!vars
  BY <1>3 DEF Enqueue, Dequeue, Abstract!vars, Active
<1>4. ASSUME NEW p \in Threads, NEW t \in Types,
             Schedule(p, t) \/ \E r \in BOOLEAN : Cancel(p, t, r)
      PROVE UNCHANGED Abstract!vars
  BY <1>4 DEF Schedule, Cancel, Abstract!vars, Active
<1>5. ASSUME NEW p \in Threads, Activate(p) PROVE Abstract!Next
  <2>1. arg[p] \in Types /\ ~Active(arg[p]) /\ newId[p] \in Ids
    BY <1>5 DEF Activate, CallsConsistent
  <2>2. running' = running \cup {arg[p]} /\ upcall' = upcall
    BY <1>5, <2>1 DEF Activate, Active, TypeOK
  <2>3. Abstract!Schedule(arg[p])
    BY <2>1, <2>2 DEF Abstract!Schedule
  <2> QED
    BY <2>1, <2>3 DEF Abstract!Next
<1>6. ASSUME NEW p \in Threads, Forget(p) PROVE Abstract!Next
  <2>1. arg[p] \in Types /\ Active(arg[p]) /\ arg[p] # firing
    BY <1>6 DEF Forget, CallsConsistent
  <2>2. running' = running \ {arg[p]} /\ upcall' = upcall
    BY <1>6, <2>1 DEF Forget, Active, TypeOK
  <2>3. Abstract!Cancel(arg[p])
    BY <2>1, <2>2 DEF Abstract!Cancel
  <2> QED
    BY <2>1, <2>3 DEF Abstract!Next
<1>7. ASSUME NEW t \in Types, Expire(t) PROVE UNCHANGED Abstract!vars
  BY <1>7 DEF Expire, Abstract!vars, Active, Held
<1>8. CASE Upcall
  <2>1. firing \in Types /\ Active(firing)
    BY <1>8 DEF Upcall, Held, QueueConsistent, TypeOK
  <2>2. running' = running /\ upcall' = firing /\ upcall = Null
    BY <1>8 DEF Upcall, Active
  <2>3. Abstract!Fire(firing)
    BY <2>1, <2>2 DEF Abstract!Fire
  <2> QED
    BY <2>1, <2>3 DEF Abstract!Next
<1>9. CASE Finish
  <2>1. lock = Reactor /\ firing \in Types
    BY <1>9 DEF Finish, Held, TypeOK
  <2>2. upcall = firing /\ upcall' = Null /\ firing # Null
    BY <1>9, <2>1 DEF Finish
  <2>3. running' = IF firing \in Periodic THEN running ELSE running \ {firing}
    BY <1>9, <2>1 DEF Finish, Active, TypeOK
  <2>4. Abstract!Done
    BY <2>2, <2>3 DEF Abstract!Done
  <2> QED
    BY <2>4 DEF Abstract!Next
<1> QED
  BY <1>1, <1>2, <1>3, <1>4, <1>5, <1>6, <1>7, <1>8, <1>9 DEF Next, Continue

(***************************************************************************)
(* Timers scheduled, cancelled and expiring under two locks behave as the  *)
(* timers that Timers describes.                                           *)
(***************************************************************************)
THEOREM Refinement == Spec => ImplementsTimers
  BY RefineInit, RefineNext, Inductive, PTL DEF Spec, ImplementsTimers, Abstract!Spec

=============================================================================
