------------------------- MODULE ControllerRestartProofs -------------------------
(***************************************************************************)
(* Proofs about start and stop commands, for any controllers, devices,     *)
(* clients and number of commands.  First EnergyStartStop: its invariant is*)
(* inductive, and each of its parts has a lemma of its own: types, who may *)
(* command a device, and the order of requests.  Then ControllerRestart:   *)
(* restarts keep that invariant as well, and a new process learns of the   *)
(* devices and of their last choices; only the steps that restarts add are *)
(* new there.                                                              *)
(***************************************************************************)
EXTENDS ControllerRestart, TLAPS

\* The variables the two parts of the invariant that are not types speak about.
chosenVars == <<notices, belief, job, requests, chosen>>
orderVars == <<job, seqnum, requests, batch, handling, applied>>

(***************************************************************************)
(* What a device's selector may change in one step (SelectorStep).         *)
(***************************************************************************)
LEMMA SelectorEffect ==
    ASSUME NEW d \in Devices, TypeOK, SelectorStep(d)
    PROVE /\ selected' \in [Devices -> Controllers \cup {NoController}]
          /\ announced' \in [Devices -> Controllers \cup {NoController}]
          /\ phase' \in [Devices -> {"searching", "watching", "suspecting"}]
          /\ chosen \subseteq chosen' /\ chosen' \subseteq Devices \X Controllers
          /\ \A n \in notices' : n \in notices \/ /\ n \in [reader : Controllers, dev : Devices,
                                                             master : Controllers]
                                                  /\ <<n.dev, n.master>> \in chosen'
<1>1. PICK s \in Controllers \cup {NoController}, a \in Controllers \cup {NoController},
           p \in {"searching", "watching", "suspecting"} :
        /\ selected' = [selected EXCEPT ![d] = s]
        /\ announced' = [announced EXCEPT ![d] = a]
        /\ phase' = [phase EXCEPT ![d] = p]
        /\ chosen' = IF s = NoController THEN chosen ELSE chosen \cup {<<d, s>>}
        /\ notices' = IF s # selected[d] /\ s # NoController /\ s = a
                      THEN {n \in notices : n.dev # d}
                              \cup {[reader |-> c, dev |-> d, master |-> a] : c \in Controllers}
                      ELSE notices
  BY DEF SelectorStep
<1>2. chosen \subseteq chosen' /\ chosen' \subseteq Devices \X Controllers
  BY <1>1 DEF TypeOK
<1>3. CASE s # selected[d] /\ s # NoController /\ s = a
  <2>1. s \in Controllers /\ <<d, s>> \in chosen'
    BY <1>1, <1>3
  <2> QED
    BY <1>1, <1>2, <1>3, <2>1 DEF TypeOK
<1>4. CASE ~(s # selected[d] /\ s # NoController /\ s = a)
  BY <1>1, <1>2, <1>4 DEF TypeOK
<1> QED
  BY <1>3, <1>4

(***************************************************************************)
(* Recording a master or a level of a known device keeps beliefs typed.    *)
(***************************************************************************)
Beliefs == [Controllers -> [Devices -> [level : Levels \cup {"unknown"},
                                        master : Controllers \cup {NoController}]]]

\* What a controller believes of a device stays well typed.
LEMMA BeliefUpdate ==
    ASSUME NEW c \in Controllers, NEW d \in Devices, belief \in Beliefs,
           NEW l \in Levels, NEW m \in Controllers \cup {NoController}
    PROVE /\ UpdateEssl(c, d, l) \in Beliefs
          /\ SetActiveController(c, d, m) \in Beliefs
          /\ [belief EXCEPT ![c][d] = [level |-> l, master |-> m]] \in Beliefs
<1>1. belief[c] \in [Devices -> [level : Levels \cup {"unknown"},
                                master : Controllers \cup {NoController}]]
  BY DEF Beliefs
<1>2. belief[c][d] \in [level : Levels \cup {"unknown"}, master : Controllers \cup {NoController}]
  BY <1>1
<1>3. /\ [belief[c][d] EXCEPT !.level = l] \in [level : Levels \cup {"unknown"},
                                                master : Controllers \cup {NoController}]
      /\ [belief[c][d] EXCEPT !.master = m] \in [level : Levels \cup {"unknown"},
                                                 master : Controllers \cup {NoController}]
  BY <1>2
<1>4. UpdateEssl(c, d, l) \in Beliefs
  BY <1>1, <1>3 DEF UpdateEssl, Beliefs
<1>5. [belief EXCEPT ![c][d].master = m] \in Beliefs
  BY <1>1, <1>3 DEF Beliefs
<1>6. [belief EXCEPT ![c][d] = [level |-> l, master |-> m]] \in Beliefs
  BY <1>1 DEF Beliefs
<1> QED
  BY <1>4, <1>5, <1>6 DEF SetActiveController

(***************************************************************************)
(* The calls under way in the controllers, and what becomes of them.       *)
(***************************************************************************)
LEMMA JobTypes ==
    ASSUME TypeOK, NEW c \in Controllers
    PROVE /\ \A j \in job[c] :
                /\ j \in Job
                /\ j.dev \in Devices /\ j.level \in Levels /\ j.seq \in Nat
                /\ [j EXCEPT !.step = "update"] \in Job
                /\ [j EXCEPT !.step = "insert"] \in Job
          /\ \A new \in SUBSET Job : [job EXCEPT ![c] = new] \in [Controllers -> SUBSET Job]
<1>1. job \in [Controllers -> SUBSET Job]
  BY DEF TypeOK
<1>2. \A j \in job[c] : j \in Job
  BY <1>1
<1>3. \A j \in Job : /\ j.dev \in Devices /\ j.level \in Levels /\ j.seq \in Nat
                     /\ [j EXCEPT !.step = "update"] \in Job
                     /\ [j EXCEPT !.step = "insert"] \in Job
  BY DEF Job
<1>4. \A new \in SUBSET Job : [job EXCEPT ![c] = new] \in [Controllers -> SUBSET Job]
  BY <1>1
<1> QED
  BY <1>2, <1>3, <1>4

(***************************************************************************)
(* A step that leaves a controller's call past its write, or ends it, adds *)
(* no call that is about to write.                                         *)
(***************************************************************************)
LEMMA JobAdvance ==
    ASSUME TypeOK, NEW c \in Controllers, NEW j \in job[c],
           \/ job' = [job EXCEPT ![c] = {}]
           \/ job' = [job EXCEPT ![c] = {[j EXCEPT !.step = "update"]}]
           \/ job' = [job EXCEPT ![c] = {[j EXCEPT !.step = "insert"]}]
    PROVE \A b \in Controllers : \A i \in job'[b] : i.step = "write" => b # c /\ i \in job[b]
<1>1. job \in [Controllers -> SUBSET Job] /\ j \in Job
  BY JobTypes DEF TypeOK
<1>2. [j EXCEPT !.step = "update"].step = "update" /\ [j EXCEPT !.step = "insert"].step = "insert"
  BY <1>1 DEF Job
<1>3. \A b \in Controllers : b # c => job'[b] = job[b]
  BY <1>1
<1>4. \/ job'[c] = {} \/ job'[c] = {[j EXCEPT !.step = "update"]}
      \/ job'[c] = {[j EXCEPT !.step = "insert"]}
  BY <1>1
<1> QED
  BY <1>2, <1>3, <1>4

(***************************************************************************)
(* What writing a request changes (WriteRequest).                          *)
(***************************************************************************)
LEMMA WriteEffect ==
    ASSUME TypeOK, NEW c \in Controllers, WriteRequest(c)
    PROVE \E j \in job[c] :
            /\ j.step = "write" /\ j.dev \in Devices
            /\ seqnum' = [seqnum EXCEPT ![c] = @ + 1]
            /\ \A r \in requests' : r \in requests \/ (r.mc = c /\ r.dev = j.dev /\ r.seq = j.seq)
            /\ \A b \in Controllers : \A i \in job'[b] : i.step = "write" => b # c /\ i \in job[b]
<1>1. PICK j \in job[c] :
         /\ j.step = "write"
         /\ seqnum' = [seqnum EXCEPT ![c] = @ + 1]
         /\ \/ /\ requests' = {r \in requests : r.mc # c \/ r.dev # j.dev}
                             \cup {[mc |-> c, dev |-> j.dev, seq |-> j.seq, level |-> j.level]}
               /\ job' = [job EXCEPT ![c] = {[j EXCEPT !.step = "update"]}]
            \/ /\ job' = [job EXCEPT ![c] = {}]
               /\ UNCHANGED requests
  BY DEF WriteRequest
<1>2. \A r \in requests' : r \in requests \/ (r.mc = c /\ r.dev = j.dev /\ r.seq = j.seq)
  <2>1. CASE UNCHANGED requests
    BY <2>1
  <2>2. CASE requests' = {r \in requests : r.mc # c \/ r.dev # j.dev}
                \cup {[mc |-> c, dev |-> j.dev, seq |-> j.seq, level |-> j.level]}
    BY <2>2
  <2> QED
    BY <1>1, <2>1, <2>2
<1>3. \A b \in Controllers : \A i \in job'[b] : i.step = "write" => b # c /\ i \in job[b]
  BY <1>1, JobAdvance
<1> QED
  BY <1>1, <1>2, <1>3, JobTypes

(***************************************************************************)
(* What a controller decides leaves the other controllers' calls alone     *)
(* (TakeIntents).                                                          *)
(***************************************************************************)
LEMMA DecideEffect ==
    ASSUME TypeOK, NEW c \in Controllers, TakeIntents(c)
    PROVE \A b \in Controllers : \A j \in job'[b] : j.step = "write" =>
             \/ j \in job[b]
             \/ b = c /\ j.seq = seqnum[c] /\ j.dev \in Devices /\ belief[c][j.dev].master = c
<1>1. \A i \in intents : i.intent.dev \in Devices
  BY DEF TypeOK, Intent
<1>2. CASE UNCHANGED job
  BY <1>2
<1>3. ASSUME NEW i \in intents, job' = [job EXCEPT ![c] = Decide(c, i.intent.dev, i.intent.level)]
      PROVE  \A b \in Controllers : \A j \in job'[b] : j.step = "write" =>
             \/ j \in job[b]
             \/ b = c /\ j.seq = seqnum[c] /\ j.dev \in Devices /\ belief[c][j.dev].master = c
  <2>1. \A j \in Decide(c, i.intent.dev, i.intent.level) : j.step = "write" =>
           j.seq = seqnum[c] /\ j.dev \in Devices /\ belief[c][j.dev].master = c
    BY <1>1 DEF Decide
  <2>2. job'[c] = Decide(c, i.intent.dev, i.intent.level)
        /\ \A b \in Controllers : b # c => job'[b] = job[b]
    BY <1>3 DEF TypeOK
  <2> QED
    BY <2>1, <2>2
<1>4. \/ UNCHANGED job
      \/ \E i \in intents : job' = [job EXCEPT ![c] = Decide(c, i.intent.dev, i.intent.level)]
  BY DEF TakeIntents
<1> QED
  BY <1>2, <1>3, <1>4

(***************************************************************************)
(* Every step keeps the types.                                             *)
(***************************************************************************)
LEMMA TypeStep ==
    ASSUME TypeOK, [Next]_vars
    PROVE TypeOK'
<1>. USE BoundAssumption DEF Levels, Intent, Request
<1>1. ASSUME NEW k \in Clients, GiveCommand(k) PROVE TypeOK'
  <2>1. PICK d \in Devices, l \in Levels, to \in SUBSET Controllers \ {{}} :
           sending' = [sending EXCEPT ![k] = [to : to, dev : {d}, level : {l}]]
    BY <1>1 DEF GiveCommand
  <2>2. [to : to, dev : {d}, level : {l}] \in SUBSET Intent
    BY <2>1
  <2>3. sending' \in [Clients -> SUBSET Intent]
    BY <2>1, <2>2 DEF TypeOK
  <2>4. given' \in 0..MaxIntents
    BY <1>1 DEF GiveCommand, TypeOK
  <2> QED
    BY <1>1, <2>3, <2>4 DEF GiveCommand, TypeOK, wire, controllerVars, selectorVars, deviceVars, history
<1>2. ASSUME NEW k \in Clients, WriteIntent(k) PROVE TypeOK'
  <2>1. PICK i \in sending[k] :
           /\ intents' = {j \in intents : j.client # k}
                            \cup {[client |-> k, reader |-> c, intent |-> i] : c \in Controllers}
           /\ sending' = [sending EXCEPT ![k] = @ \ {i}]
    BY <1>2 DEF WriteIntent
  <2>2. i \in Intent
    BY <2>1 DEF TypeOK
  <2>3. intents' \subseteq [client : Clients, reader : Controllers, intent : Intent]
    BY <2>1, <2>2 DEF TypeOK
  <2>4. sending' \in [Clients -> SUBSET Intent]
    BY <2>1 DEF TypeOK
  <2> QED
    BY <1>2, <2>3, <2>4 DEF WriteIntent, TypeOK, controllerVars, selectorVars, deviceVars, history
<1>3. ASSUME NEW d \in Devices, SelectorStep(d) PROVE TypeOK'
  <2>1. notices' \subseteq [reader : Controllers, dev : Devices, master : Controllers]
    BY <1>3, SelectorEffect DEF TypeOK
  <2> QED
    BY <1>3, <2>1, SelectorEffect
    DEF SelectorStep, TypeOK, clientVars, controllerVars, deviceVars
<1>4. ASSUME NEW c \in Controllers, TakeDeviceInfo(c) PROVE TypeOK'
  <2>1. belief' \in Beliefs
    BY <1>4, BeliefUpdate DEF TakeDeviceInfo, TypeOK, Beliefs
  <2> QED
    BY <1>4, <2>1 DEF TakeDeviceInfo, TypeOK, Beliefs, clientVars, selectorVars, deviceVars, history
<1>5. ASSUME NEW c \in Controllers, TakeNotice(c) PROVE TypeOK'
  <2>1. PICK n \in notices : /\ notices' = notices \ {n}
                              /\ belief' = SetActiveController(c, n.dev, n.master)
    BY <1>5 DEF TakeNotice
  <2>2. n.dev \in Devices /\ n.master \in Controllers
    BY <2>1 DEF TypeOK
  <2>3. CASE Levels # {}
    <3>1. belief' \in Beliefs
      BY <2>1, <2>2, <2>3, BeliefUpdate DEF TypeOK, Beliefs
    <3> QED
      BY <1>5, <2>1, <3>1 DEF TakeNotice, TypeOK, Beliefs, clientVars, selectorVars, deviceVars, history
  <2> QED
    BY <2>3
<1>6. ASSUME NEW c \in Controllers, TakeIntents(c) PROVE TypeOK'
  <2>1. \A d \in Devices, l \in Levels : Decide(c, d, l) \subseteq Job
    BY DEF Decide, TypeOK, Job
  <2>2. \A i \in intents : i.intent.dev \in Devices /\ i.intent.level \in Levels
    BY DEF TypeOK
  <2>4. \/ UNCHANGED job
        \/ \E i \in intents : job' = [job EXCEPT ![c] = Decide(c, i.intent.dev, i.intent.level)]
    BY <1>6 DEF TakeIntents
  <2>5. job' \in [Controllers -> SUBSET Job]
    <3>1. CASE UNCHANGED job
      BY <3>1 DEF TypeOK
    <3>2. ASSUME NEW i \in intents, job' = [job EXCEPT ![c] = Decide(c, i.intent.dev, i.intent.level)]
          PROVE  job' \in [Controllers -> SUBSET Job]
      <4>1. Decide(c, i.intent.dev, i.intent.level) \in SUBSET Job
        BY <2>1, <2>2
      <4> QED
        BY <3>2, <4>1, JobTypes
    <3> QED
      BY <2>4, <3>1, <3>2
  <2>3. intents' \subseteq intents
    BY <1>6 DEF TakeIntents
  <2> QED
    BY <1>6, <2>3, <2>5 DEF TakeIntents, TypeOK, clientVars, selectorVars, deviceVars, history
<1>7. ASSUME NEW c \in Controllers, TakeReply(c) PROVE TypeOK'
  BY <1>7 DEF TakeReply, TypeOK, clientVars, selectorVars, deviceVars, history
<1>8. ASSUME NEW c \in Controllers, UpdateLocally(c) PROVE TypeOK'
  <2>1. PICK j \in job[c] : belief' = UpdateEssl(c, j.dev, j.level)
    BY <1>8 DEF UpdateLocally
  <2>2. j.dev \in Devices /\ j.level \in Levels
    BY <2>1, JobTypes
  <2>3. belief' \in Beliefs
    BY <2>1, <2>2, BeliefUpdate DEF TypeOK, Beliefs
  <2> QED
    BY <1>8, <2>3
    DEF UpdateLocally, TypeOK, Beliefs, wire, clientVars, selectorVars, deviceVars, history
<1>9. ASSUME NEW c \in Controllers, WriteRequest(c) PROVE TypeOK'
  <2>1. PICK j \in job[c] :
           /\ seqnum' = [seqnum EXCEPT ![c] = @ + 1]
           /\ \/ /\ requests' = {r \in requests : r.mc # c \/ r.dev # j.dev}
                               \cup {[mc |-> c, dev |-> j.dev, seq |-> j.seq, level |-> j.level]}
                 /\ job' = [job EXCEPT ![c] = {[j EXCEPT !.step = "update"]}]
              \/ /\ job' = [job EXCEPT ![c] = {}]
                 /\ UNCHANGED requests
    BY <1>9 DEF WriteRequest
  <2>2. [mc |-> c, dev |-> j.dev, seq |-> j.seq, level |-> j.level] \in Request
    BY <2>1, JobTypes
  <2>3. requests' \subseteq Request
    BY <2>1, <2>2 DEF TypeOK
  <2>4. job' \in [Controllers -> SUBSET Job]
    <3>1. \E new \in SUBSET Job : job' = [job EXCEPT ![c] = new]
      BY <2>1, JobTypes, ZenonT(30)
    <3> QED
      BY <3>1, JobTypes
  <2> QED
    BY <1>9, <2>1, <2>3, <2>4 DEF WriteRequest, TypeOK, clientVars, selectorVars, deviceVars, history
<1>10. ASSUME NEW c \in Controllers, UpdateAfterWrite(c) PROVE TypeOK'
  <2>1. PICK j \in job[c] :
           /\ belief' = UpdateEssl(c, j.dev, j.level)
           /\ job' = [job EXCEPT ![c] = {[j EXCEPT !.step = "insert"]}]
    BY <1>10 DEF UpdateAfterWrite
  <2>2. j.dev \in Devices /\ j.level \in Levels /\ {[j EXCEPT !.step = "insert"]} \in SUBSET Job
    BY <2>1, JobTypes
  <2>3. belief' \in Beliefs
    BY <2>1, <2>2, BeliefUpdate DEF TypeOK, Beliefs
  <2>4. job' \in [Controllers -> SUBSET Job]
    BY <2>1, <2>2, JobTypes
  <2> QED
    BY <1>10, <2>3, <2>4
    DEF UpdateAfterWrite, TypeOK, Beliefs, wire, clientVars, selectorVars, deviceVars, history
<1>11. ASSUME NEW c \in Controllers, InsertPending(c) PROVE TypeOK'
  <2>1. PICK j \in job[c] : /\ pending' = [pending EXCEPT ![c] = @ \cup {<<j.seq, j.dev>>}]
                             /\ job' = [job EXCEPT ![c] = {}]
    BY <1>11 DEF InsertPending
  <2>2. pending' \in [Controllers -> SUBSET (Nat \X Devices)]
    <3>1. <<j.seq, j.dev>> \in Nat \X Devices
      BY <2>1, JobTypes
    <3>2. pending \in [Controllers -> SUBSET (Nat \X Devices)]
      BY DEF TypeOK
    <3> QED
      BY <2>1, <3>1, <3>2
  <2>3. job' \in [Controllers -> SUBSET Job]
    BY <2>1, JobTypes
  <2> QED
    BY <1>11, <2>2, <2>3
    DEF InsertPending, TypeOK, wire, clientVars, selectorVars, deviceVars, history
<1>12. ASSUME NEW d \in Devices, TakeRequests(d) PROVE TypeOK'
  BY <1>12 DEF TakeRequests, RequestsFor, TypeOK, clientVars, controllerVars, selectorVars, history
<1>13. ASSUME NEW d \in Devices, CheckRequest(d) PROVE TypeOK'
  <2>1. batch' \in [Devices -> SUBSET Request] /\ handling' \in [Devices -> SUBSET Request]
    <3>1. PICK r \in batch[d] : \/ /\ batch' = [batch EXCEPT ![d] = {}]
                                   /\ handling' = [handling EXCEPT ![d] = @ \cup {r}]
                                \/ /\ batch' = [batch EXCEPT ![d] = @ \ {r}]
                                   /\ UNCHANGED handling
      BY <1>13 DEF CheckRequest
    <3>2. batch \in [Devices -> SUBSET Request] /\ handling \in [Devices -> SUBSET Request]
      BY DEF TypeOK
    <3> HIDE DEF Request
    <3> QED
      BY <3>1, <3>2
  <2> QED
    BY <1>13, <2>1 DEF CheckRequest, TypeOK, wire, clientVars, controllerVars, selectorVars, history
<1>14. ASSUME NEW d \in Devices, CarryOut(d) PROVE TypeOK'
  BY <1>14 DEF CarryOut, TypeOK, clientVars, controllerVars, selectorVars
<1>15. CASE UNCHANGED vars
  BY <1>15 DEF TypeOK, vars, wire, clientVars, controllerVars, selectorVars, deviceVars, history
<1> QED
  BY <1>1, <1>2, <1>3, <1>4, <1>5, <1>6, <1>7, <1>8, <1>9, <1>10, <1>11, <1>12, <1>13, <1>14, <1>15
  DEF Next, ControllerStep, DeviceStep

(***************************************************************************)
(* Every step keeps MastersWereChosen: a controller learns that it is a    *)
(* device's master only from what the device wrote after choosing it.      *)
(***************************************************************************)
LEMMA ChosenStep ==
    ASSUME TypeOK, MastersWereChosen, [Next]_vars
    PROVE MastersWereChosen'
<1>. USE DEF MastersWereChosen, CommandsOnlyByChosen
<1>1. CASE UNCHANGED chosenVars
  BY <1>1 DEF chosenVars
<1>2. ASSUME NEW d \in Devices, SelectorStep(d) PROVE MastersWereChosen'
  <2>1. UNCHANGED <<belief, job, requests>>
    BY <1>2 DEF SelectorStep, controllerVars
  <2> QED
    BY <1>2, <2>1, SelectorEffect
<1>3. ASSUME NEW c \in Controllers, TakeDeviceInfo(c) PROVE MastersWereChosen'
  <2>1. UNCHANGED <<notices, job, requests, chosen>>
    BY <1>3 DEF TakeDeviceInfo, history
  <2>2. \A b \in Controllers, d \in Devices :
           belief'[b][d].master \in {belief[b][d].master, NoController}
    BY <1>3 DEF TakeDeviceInfo, TypeOK
  <2> QED
    BY <2>1, <2>2
<1>4. ASSUME NEW c \in Controllers, TakeNotice(c) PROVE MastersWereChosen'
  <2>1. UNCHANGED <<job, requests, chosen>>
    BY <1>4 DEF TakeNotice, history
  <2>2. PICK n \in notices : /\ notices' = notices \ {n}
                              /\ belief' = SetActiveController(c, n.dev, n.master)
    BY <1>4 DEF TakeNotice
  <2>3. \A b \in Controllers, d \in Devices :
           \/ belief'[b][d].master = belief[b][d].master
           \/ d = n.dev /\ belief'[b][d].master = n.master
    BY <2>2 DEF SetActiveController, TypeOK
  <2> QED
    BY <2>1, <2>2, <2>3
<1>5. ASSUME NEW c \in Controllers, TakeIntents(c) PROVE MastersWereChosen'
  <2>1. UNCHANGED <<notices, belief, requests, chosen>>
    BY <1>5 DEF TakeIntents, history
  <2>2. \A b \in Controllers : \A j \in job'[b] : j.step = "write" => <<j.dev, b>> \in chosen
    BY <1>5, DecideEffect, NoControllerAssumption
  <2> QED
    BY <2>1, <2>2
<1>6. ASSUME NEW c \in Controllers, UpdateLocally(c) \/ UpdateAfterWrite(c)
      PROVE  MastersWereChosen'
  <2>1. UNCHANGED <<notices, requests, chosen>>
    BY <1>6 DEF UpdateLocally, UpdateAfterWrite, wire, history
  <2>2. \A b \in Controllers, d \in Devices : belief'[b][d].master = belief[b][d].master
    <3>1. PICK j \in job[c] : belief' = UpdateEssl(c, j.dev, j.level)
      BY <1>6 DEF UpdateLocally, UpdateAfterWrite
    <3>2. belief \in Beliefs
      BY DEF TypeOK, Beliefs
    <3>3. j.dev \in Devices
      BY <3>1, JobTypes
    <3>4. \A b \in Controllers, d \in Devices :
             belief'[b][d] = IF b = c /\ d = j.dev THEN [belief[b][d] EXCEPT !.level = j.level]
                             ELSE belief[b][d]
      <4>1. \A b \in Controllers : belief[b] \in [Devices -> [level : Levels \cup {"unknown"},
                                        master : Controllers \cup {NoController}]]
        BY <3>2 DEF Beliefs
      <4>2. \A b \in Controllers : b # c => belief'[b] = belief[b]
        BY <3>1, <3>2 DEF UpdateEssl, Beliefs
      <4>3. belief'[c] = [belief[c] EXCEPT ![j.dev].level = j.level]
        BY <3>1, <3>2 DEF UpdateEssl, Beliefs
      <4>4. \A d \in Devices : belief'[c][d] = IF d = j.dev
                  THEN [belief[c][d] EXCEPT !.level = j.level] ELSE belief[c][d]
        BY <4>1, <4>3, <3>3
      <4> QED
        BY <4>2, <4>4
    <3>5. \A b \in Controllers, d \in Devices :
             [belief[b][d] EXCEPT !.level = j.level].master = belief[b][d].master
      <4>1. \A b \in Controllers, d \in Devices :
               belief[b][d] \in [level : Levels \cup {"unknown"}, master : Controllers \cup {NoController}]
        BY <3>2 DEF Beliefs
      <4> QED
        BY <4>1
    <3> SUFFICES ASSUME NEW b \in Controllers, NEW d \in Devices
                 PROVE  belief'[b][d].master = belief[b][d].master
      OBVIOUS
    <3>6. CASE b = c /\ d = j.dev
      <4>1. belief'[b][d] = [belief[b][d] EXCEPT !.level = j.level]
        BY <3>4, <3>6
      <4> QED
        BY <3>5, <4>1
    <3>7. CASE ~(b = c /\ d = j.dev)
      BY <3>4, <3>7
    <3> QED
      BY <3>6, <3>7
  <2>3. \A b \in Controllers : \A j \in job'[b] : j.step = "write" => j \in job[b]
    BY <1>6, JobAdvance DEF UpdateLocally, UpdateAfterWrite
  <2> QED
    BY <2>1, <2>2, <2>3
<1>7. ASSUME NEW c \in Controllers, WriteRequest(c) PROVE MastersWereChosen'
  <2>1. UNCHANGED <<notices, belief, chosen>>
    BY <1>7 DEF WriteRequest, history
  <2>2. \A r \in requests' : r \in requests \/ <<r.dev, r.mc>> \in chosen
    <3>1. PICK j \in job[c] :
             /\ j.step = "write"
             /\ \A r \in requests' : r \in requests \/ (r.mc = c /\ r.dev = j.dev /\ r.seq = j.seq)
      BY <1>7, WriteEffect
    <3>2. <<j.dev, c>> \in chosen
      BY <3>1
    <3> QED
      BY <3>1, <3>2
  <2>3. \A b \in Controllers : \A j \in job'[b] : j.step = "write" => j \in job[b]
    BY <1>7, WriteEffect
  <2> QED
    BY <2>1, <2>2, <2>3
<1>8. ASSUME NEW c \in Controllers, InsertPending(c) PROVE MastersWereChosen'
  <2>1. UNCHANGED <<notices, belief, requests, chosen>>
    BY <1>8 DEF InsertPending, wire, history
  <2>2. \A b \in Controllers : job'[b] \subseteq job[b]
    BY <1>8 DEF InsertPending, TypeOK
  <2> QED
    BY <2>1, <2>2
<1>9. ASSUME NEW d \in Devices, TakeRequests(d) PROVE MastersWereChosen'
  BY <1>9 DEF TakeRequests, controllerVars, history
<1>10. ASSUME NEW d \in Devices, CheckRequest(d) \/ CarryOut(d) PROVE UNCHANGED chosenVars
  BY <1>10 DEF CheckRequest, CarryOut, wire, controllerVars, history, chosenVars
<1>11. ASSUME NEW k \in Clients, GiveCommand(k) \/ WriteIntent(k) PROVE UNCHANGED chosenVars
  BY <1>11 DEF GiveCommand, WriteIntent, wire, controllerVars, history, chosenVars
<1>12. ASSUME NEW c \in Controllers, TakeReply(c) PROVE UNCHANGED chosenVars
  BY <1>12 DEF TakeReply, history, chosenVars
<1>13. CASE UNCHANGED vars
  BY <1>1, <1>13 DEF vars, wire, controllerVars, history, chosenVars
<1> QED
  BY <1>1, <1>2, <1>3, <1>4, <1>5, <1>6, <1>7, <1>8, <1>9, <1>10, <1>11, <1>12, <1>13
  DEF Next, ControllerStep, DeviceStep

(***************************************************************************)
(* Every step keeps InOrder.                                               *)
(***************************************************************************)
LEMMA OrderStep ==
    ASSUME TypeOK, InOrder, [Next]_vars
    PROVE InOrder'
<1>. USE DEF InOrder
<1>1. CASE UNCHANGED orderVars
  BY <1>1 DEF orderVars
<1>2. ASSUME NEW c \in Controllers, TakeIntents(c) PROVE InOrder'
  <2>1. UNCHANGED <<seqnum, requests, batch, handling, applied>>
    BY <1>2 DEF TakeIntents, deviceVars, history
  <2>2. \A b \in Controllers : \A j \in job'[b] : j.step = "write" => j.seq = seqnum[b]
    BY <1>2, DecideEffect
  <2> QED
    BY <2>1, <2>2
<1>3. ASSUME NEW c \in Controllers, UpdateLocally(c) \/ UpdateAfterWrite(c) \/ InsertPending(c)
      PROVE  InOrder'
  <2>1. UNCHANGED <<seqnum, requests, batch, handling, applied>>
    BY <1>3 DEF UpdateLocally, UpdateAfterWrite, InsertPending, wire, deviceVars, history
  <2>2. \A b \in Controllers : \A j \in job'[b] : j.step = "write" => j \in job[b]
    BY <1>3, JobAdvance DEF UpdateLocally, UpdateAfterWrite, InsertPending
  <2> QED
    BY <2>1, <2>2
<1>4. ASSUME NEW c \in Controllers, WriteRequest(c) PROVE InOrder'
  <2>1. UNCHANGED <<batch, handling, applied>>
    BY <1>4 DEF WriteRequest, deviceVars, history
  <2>2. PICK j \in job[c] :
           /\ j.step = "write" /\ j.dev \in Devices
           /\ seqnum' = [seqnum EXCEPT ![c] = @ + 1]
           /\ \A r \in requests' : r \in requests \/ (r.mc = c /\ r.dev = j.dev /\ r.seq = j.seq)
           /\ \A b \in Controllers : \A i \in job'[b] : i.step = "write" => b # c /\ i \in job[b]
    BY <1>4, WriteEffect
  <2>3. j.seq = seqnum[c]
    BY <2>2
  <2>4. /\ seqnum'[c] = seqnum[c] + 1
        /\ \A b \in Controllers : /\ seqnum[b] \in Nat /\ seqnum'[b] \in Nat
                                  /\ seqnum'[b] >= seqnum[b]
    BY <2>2 DEF TypeOK
  <2>6. \A r \in requests' : r \in requests \/ (r.mc = c /\ r.dev = j.dev /\ r.seq = seqnum[c])
    <3> HIDE DEF InOrder
    <3> QED
      BY <2>2, <2>3
  <2>7. \A b \in Controllers : b # c => seqnum'[b] = seqnum[b]
    BY <2>2 DEF TypeOK
  <2>8. \A d \in Devices, b \in Controllers : applied[d][b] \in Int
    BY DEF TypeOK
  <2>9. \A r \in requests : r.mc \in Controllers /\ r.seq \in Nat /\ r.dev \in Devices
    BY DEF TypeOK, Request
  <2>10. \A d \in Devices : \A r \in batch[d] \cup handling[d] :
            r.mc \in Controllers /\ r.seq \in Nat
    BY DEF TypeOK, Request
  <2>11. \A b \in Controllers : \A i \in job'[b] : i.step = "write" => i.seq = seqnum'[b]
    BY <2>2, <2>7
  <2>12. \A r \in requests' : r.seq < seqnum'[r.mc] /\ applied[r.dev][r.mc] < r.seq
    <3> SUFFICES ASSUME NEW r \in requests'
                 PROVE  r.seq < seqnum'[r.mc] /\ applied[r.dev][r.mc] < r.seq
      OBVIOUS
    <3>1. CASE r \in requests
      <4>1. r.seq < seqnum[r.mc] /\ applied[r.dev][r.mc] < r.seq
        BY <3>1
      <4> QED
        BY <2>4, <2>9, <3>1, <4>1
    <3>2. CASE r.mc = c /\ r.dev = j.dev /\ r.seq = seqnum[c]
      <4>1. applied[j.dev][c] < seqnum[c]
        BY <2>2
      <4> QED
        BY <2>4, <3>2, <4>1
    <3> QED
      BY <2>6, <3>1, <3>2
  <2>13. \A d \in Devices : \A r \in batch[d] \cup handling[d] :
            /\ r.dev = d
            /\ r.seq < seqnum'[r.mc] /\ applied[d][r.mc] < r.seq
            /\ \A q \in requests' : q.dev = d /\ q.mc = r.mc => r.seq < q.seq
    BY <2>4, <2>6, <2>8, <2>10
  <2>14. \A d \in Devices, b \in Controllers : applied[d][b] < seqnum'[b]
    BY <2>4, <2>8
  <2> QED
    BY <2>1, <2>11, <2>12, <2>13, <2>14
<1>5. ASSUME NEW d \in Devices, TakeRequests(d) PROVE InOrder'
  <2>1. UNCHANGED <<job, seqnum, handling, applied>>
    BY <1>5 DEF TakeRequests, controllerVars, history
  <2>2. /\ handling[d] = {} /\ requests' = requests \ RequestsFor(d)
        /\ batch' = [batch EXCEPT ![d] = RequestsFor(d)]
    BY <1>5 DEF TakeRequests
  <2>3. \A e \in Devices : batch'[e] = IF e = d THEN RequestsFor(d) ELSE batch[e]
    BY <2>2 DEF TypeOK
  <2> QED
    BY <2>1, <2>2, <2>3 DEF RequestsFor
<1>6. ASSUME NEW d \in Devices, CheckRequest(d) PROVE InOrder'
  <2>1. UNCHANGED <<job, seqnum, requests, applied>>
    BY <1>6 DEF CheckRequest, wire, controllerVars, history
  <2>2. PICK r \in batch[d] : \/ /\ batch' = [batch EXCEPT ![d] = {}]
                                 /\ handling' = [handling EXCEPT ![d] = @ \cup {r}]
                              \/ /\ batch' = [batch EXCEPT ![d] = @ \ {r}]
                                 /\ UNCHANGED handling
    BY <1>6 DEF CheckRequest
  <2>3. handling[d] = {}
    BY <2>2
  <2>4. \A e \in Devices : e # d => batch'[e] = batch[e] /\ handling'[e] = handling[e]
    BY <2>2 DEF TypeOK
  <2>5. /\ batch'[d] \cup handling'[d] \subseteq batch[d]
        /\ batch'[d] = {} \/ handling'[d] = {}
        /\ \A p, q \in handling'[d] : p = q
    BY <2>2, <2>3 DEF TypeOK
  <2> QED
    BY <2>1, <2>4, <2>5
<1>7. ASSUME NEW d \in Devices, CarryOut(d) PROVE InOrder'
  <2>1. UNCHANGED <<job, seqnum, requests, batch>>
    BY <1>7 DEF CarryOut, controllerVars
  <2>2. PICK r \in handling[d] : /\ applied' = [applied EXCEPT ![d][r.mc] = r.seq]
                                 /\ handling' = [handling EXCEPT ![d] = @ \ {r}]
    BY <1>7 DEF CarryOut
  <2>3. batch[d] = {} /\ handling'[d] = {}
    BY <2>2 DEF TypeOK
  <2>4. r.mc \in Controllers /\ r.seq \in Nat
    BY <2>2 DEF TypeOK, Request
  <2>5. \A e \in Devices : e # d => handling'[e] = handling[e] /\ applied'[e] = applied[e]
    BY <2>2 DEF TypeOK
  <2>6. \A b \in Controllers : applied'[d][b] = IF b = r.mc THEN r.seq ELSE applied[d][b]
    BY <2>2, <2>4 DEF TypeOK
  <2>7. \A q \in requests : applied'[q.dev][q.mc] < q.seq
    BY <2>2, <2>5, <2>6 DEF TypeOK, Request
  <2>8. \A e \in Devices, b \in Controllers : applied'[e][b] < seqnum[b]
    BY <2>2, <2>5, <2>6
  <2> QED
    BY <2>1, <2>3, <2>5, <2>7, <2>8
<1>8. ASSUME NEW k \in Clients, GiveCommand(k) \/ WriteIntent(k) PROVE UNCHANGED orderVars
  BY <1>8 DEF GiveCommand, WriteIntent, wire, controllerVars, deviceVars, history, orderVars
<1>9. ASSUME NEW d \in Devices, SelectorStep(d) PROVE UNCHANGED orderVars
  BY <1>9 DEF SelectorStep, controllerVars, deviceVars, orderVars
<1>10. ASSUME NEW c \in Controllers, TakeDeviceInfo(c) \/ TakeNotice(c) \/ TakeReply(c)
       PROVE  UNCHANGED orderVars
  BY <1>10 DEF TakeDeviceInfo, TakeNotice, TakeReply, deviceVars, history, orderVars
<1>11. CASE UNCHANGED vars
  BY <1>1, <1>11 DEF vars, wire, controllerVars, deviceVars, history, orderVars
<1> QED
  BY <1>1, <1>2, <1>3, <1>4, <1>5, <1>6, <1>7, <1>8, <1>9, <1>10, <1>11
  DEF Next, ControllerStep, DeviceStep

-----------------------------------------------------------------------------
(***************************************************************************)
(* The invariant holds initially.                                          *)
(***************************************************************************)
LEMMA InitHolds == Init => IInv
<1> SUFFICES ASSUME Init PROVE IInv
  OBVIOUS
<1>1. TypeOK
  BY BoundAssumption
  DEF Init, TypeOK, Unknown, Levels, Intent, Request, Job
<1>2. MastersWereChosen
  BY DEF Init, MastersWereChosen, CommandsOnlyByChosen, Unknown
<1>3. InOrder
  BY DEF Init, InOrder
<1> QED
  BY <1>1, <1>2, <1>3 DEF IInv

(***************************************************************************)
(* The invariant holds of every behaviour: the types, that only what a     *)
(* device wrote after choosing a controller makes it the device's master,  *)
(* and that a controller's requests stay in order on their way.            *)
(***************************************************************************)
THEOREM Inductive == Spec => []IInv
<1>1. IInv /\ [Next]_vars => IInv'
  BY TypeStep, ChosenStep, OrderStep DEF IInv
<1> QED
  BY <1>1, InitHolds, PTL DEF Spec

(***************************************************************************)
(* The requests on their way come from controllers their device has chosen.*)
(***************************************************************************)
THEOREM CommandsSafe == Spec => []CommandsOnlyByChosen
<1>1. IInv => CommandsOnlyByChosen
  BY DEF IInv, MastersWereChosen
<1> QED
  BY <1>1, Inductive, PTL

(***************************************************************************)
(* What a device carries out is newer than what it has carried out before. *)
(***************************************************************************)
LEMMA CarryOutForward ==
    ASSUME IInv, NEW d \in Devices, CarryOut(d)
    PROVE ForwardOnly
<1>1. PICK r \in handling[d] : applied' = [applied EXCEPT ![d][r.mc] = r.seq]
  BY DEF CarryOut
<1>2. applied[d][r.mc] < r.seq /\ r.mc \in Controllers /\ r.seq \in Nat
  BY <1>1 DEF IInv, InOrder, TypeOK, Request
<1>3. \A e \in Devices, c \in Controllers :
         applied'[e][c] = IF e = d /\ c = r.mc THEN r.seq ELSE applied[e][c]
  BY <1>1, <1>2 DEF IInv, TypeOK
<1>4. \A e \in Devices, c \in Controllers : applied[e][c] \in Int
  BY DEF IInv, TypeOK
<1> QED
  BY <1>2, <1>3, <1>4 DEF ForwardOnly

(***************************************************************************)
(* A device carries out the requests of a controller in the order given.   *)
(***************************************************************************)
THEOREM OrderSafe == Spec => AppliesInOrder
<1>1. IInv /\ [Next]_vars => [ForwardOnly]_vars
  <2> SUFFICES ASSUME IInv, Next PROVE ForwardOnly
    BY DEF ForwardOnly
  <2>1. ASSUME NEW d \in Devices, CarryOut(d) PROVE ForwardOnly
    BY <2>1, CarryOutForward
  <2>2. (\A d \in Devices : ~CarryOut(d)) => UNCHANGED applied
    BY ZenonT(30)
       DEF Next, ControllerStep, DeviceStep, GiveCommand, WriteIntent, SelectorStep, TakeDeviceInfo,
           TakeNotice, TakeIntents, TakeReply, UpdateLocally, WriteRequest, UpdateAfterWrite,
           InsertPending, TakeRequests, CheckRequest, history
  <2> QED
    BY <2>1, <2>2 DEF ForwardOnly
<1> QED
  BY <1>1, Inductive, PTL DEF Spec, AppliesInOrder

(***************************************************************************)
(* Every step keeps one request per controller in a reader and in a batch. *)
(***************************************************************************)
LEMMA OnePerControllerStep ==
    ASSUME IInv, OnePerController, [Next]_vars
    PROVE  OnePerController'
<1>1. ASSUME UNCHANGED <<requests, batch>> PROVE OnePerController'
  BY <1>1 DEF OnePerController, RequestsFor
<1>2. ASSUME NEW c \in Controllers, WriteRequest(c) PROVE OnePerController'
  <2>1. UNCHANGED batch
    BY <1>2 DEF WriteRequest, deviceVars
  <2>2. PICK j \in job[c] :
           \/ requests' = {r \in requests : r.mc # c \/ r.dev # j.dev}
                             \cup {[mc |-> c, dev |-> j.dev, seq |-> j.seq, level |-> j.level]}
           \/ UNCHANGED requests
    BY <1>2 DEF WriteRequest
  <2>3. CASE UNCHANGED requests
    BY <1>1, <2>1, <2>3
  <2>4. CASE requests' = {r \in requests : r.mc # c \/ r.dev # j.dev}
                            \cup {[mc |-> c, dev |-> j.dev, seq |-> j.seq, level |-> j.level]}
    <3> SUFFICES ASSUME NEW d \in Devices, NEW q \in requests', NEW r \in requests',
                        q.dev = d, r.dev = d, q.mc = r.mc
                 PROVE  q = r
      BY <2>1 DEF OnePerController, RequestsFor
    <3>1. CASE r.mc = c /\ r.dev = j.dev
      BY <2>4, <3>1
    <3>2. CASE r.mc # c \/ r.dev # j.dev
      <4>1. q \in requests /\ r \in requests
        BY <2>4, <3>2
      <4> QED
        BY <4>1 DEF OnePerController, RequestsFor
    <3> QED
      BY <3>1, <3>2
  <2> QED
    BY <2>2, <2>3, <2>4
<1>3. ASSUME NEW d \in Devices, DeviceStep(d) PROVE OnePerController'
  <2>1. requests' \subseteq requests
    BY <1>3 DEF DeviceStep, TakeRequests, CheckRequest, CarryOut, wire
  <2>2. \A e \in Devices : batch'[e] \subseteq batch[e] \/ batch'[e] \subseteq RequestsFor(e)
    <3>1. CASE TakeRequests(d)
      <4>1. batch' = [batch EXCEPT ![d] = RequestsFor(d)]
        BY <3>1 DEF TakeRequests
      <4> QED
        BY <4>1 DEF IInv, TypeOK
    <3>2. CASE CheckRequest(d)
      <4>1. PICK r \in batch[d] : batch' = [batch EXCEPT ![d] = {}]
                                  \/ batch' = [batch EXCEPT ![d] = @ \ {r}]
        BY <3>2 DEF CheckRequest
      <4> QED
        BY <4>1, ZenonT(30) DEF IInv, TypeOK
    <3>3. CASE CarryOut(d)
      BY <3>3 DEF CarryOut
    <3> QED
      BY <1>3, <3>1, <3>2, <3>3 DEF DeviceStep
  <2> QED
    BY <2>1, <2>2 DEF OnePerController, RequestsFor
<1>4. CASE UNCHANGED vars
  BY <1>1, <1>4 DEF vars, wire, deviceVars
<1>5. ASSUME NEW k \in Clients, GiveCommand(k) \/ WriteIntent(k) PROVE UNCHANGED <<requests, batch>>
  BY <1>5 DEF GiveCommand, WriteIntent, wire, deviceVars
<1>6. ASSUME NEW d \in Devices, SelectorStep(d) PROVE UNCHANGED <<requests, batch>>
  BY <1>6 DEF SelectorStep, deviceVars
<1>7. ASSUME NEW c \in Controllers, ControllerStep(c), ~WriteRequest(c)
      PROVE  UNCHANGED <<requests, batch>>
  BY <1>7 DEF ControllerStep, TakeDeviceInfo, TakeNotice, TakeIntents, TakeReply, UpdateLocally,
      UpdateAfterWrite, InsertPending, wire, deviceVars
<1> QED
  BY <1>1, <1>2, <1>3, <1>4, <1>5, <1>6, <1>7 DEF Next

(***************************************************************************)
(* A new request takes the place of an older one of its controller.        *)
(***************************************************************************)
LEMMA WritePassesOn ==
    ASSUME IInv, NEW c \in Controllers, WriteRequest(c)
    PROVE  PassedOn
<1>1. UNCHANGED <<batch, handling>>
  BY DEF WriteRequest, deviceVars
<1>2. PICK j \in job[c] :
         /\ j.step = "write"
         /\ \/ requests' = {r \in requests : r.mc # c \/ r.dev # j.dev}
                              \cup {[mc |-> c, dev |-> j.dev, seq |-> j.seq, level |-> j.level]}
            \/ UNCHANGED requests
  BY DEF WriteRequest
<1>3. j.seq = seqnum[c]
  BY <1>2 DEF IInv, InOrder
<1>4. ASSUME NEW d \in Devices, NEW r \in Held(d), r \notin Held(d)'
      PROVE  \E q \in Held(d)' : q.mc = r.mc /\ q.seq > r.seq
  <2> DEFINE q == [mc |-> c, dev |-> j.dev, seq |-> j.seq, level |-> j.level]
  <2>1. r \in requests /\ r.dev = d /\ r \notin requests'
    BY <1>1, <1>4 DEF Held, RequestsFor
  <2>2. r.mc = c /\ r.dev = j.dev /\ q \in requests'
    BY <1>2, <2>1
  <2>3. r.seq < seqnum[c] /\ r.seq \in Nat /\ seqnum[c] \in Nat
    BY <2>1, <2>2 DEF IInv, InOrder, TypeOK, Request
  <2>4. q.mc = c /\ q.dev = d /\ q.seq = seqnum[c]
    BY <1>3, <2>1, <2>2
  <2>5. q \in Held(d)'
    BY <2>2, <2>4 DEF Held, RequestsFor
  <2>6. q.seq > r.seq
    BY <2>3, <2>4
  <2> QED
    BY <2>2, <2>4, <2>5, <2>6
<1> QED
  BY <1>4 DEF PassedOn

(***************************************************************************)
(* The device's listener drops only what the device's controller has not   *)
(* sent.                                                                   *)
(***************************************************************************)
LEMMA DevicePassesOn ==
    ASSUME IInv, OnePerController, NEW d \in Devices, DeviceStep(d)
    PROVE  PassedOn
<1> SUFFICES ASSUME NEW e \in Devices, NEW r \in Held(e), r.mc = selected[e]
             PROVE  r \in Held(e)' \/ applied'[e][r.mc] = r.seq
  BY DEF PassedOn
<1>1. r.mc \in Controllers /\ r.dev = e
  BY DEF Held, RequestsFor, IInv, TypeOK, InOrder, Request
<1>2. CASE TakeRequests(d)
  <2>1. /\ requests' = requests \ RequestsFor(d) /\ UNCHANGED handling
        /\ \A f \in Devices : batch'[f] = IF f = d THEN RequestsFor(d) ELSE batch[f]
        /\ batch[d] = {}
    BY <1>2 DEF TakeRequests, IInv, TypeOK
  <2> QED
    BY <1>1, <2>1 DEF Held, RequestsFor
<1>3. CASE CheckRequest(d)
  <2>1. UNCHANGED requests
    BY <1>3 DEF CheckRequest, wire
  <2>2. PICK q \in batch[d] :
           IF q.mc = selected[d]
           THEN /\ batch' = [batch EXCEPT ![d] = {}]
                /\ handling' = [handling EXCEPT ![d] = @ \cup {q}]
           ELSE /\ batch' = [batch EXCEPT ![d] = @ \ {q}]
                /\ UNCHANGED handling
    BY <1>3 DEF CheckRequest
  <2>3. CASE e # d
    <3>1. batch'[e] = batch[e] /\ handling'[e] = handling[e]
      BY <2>2, <2>3 DEF IInv, TypeOK
    <3> QED
      BY <2>1, <3>1 DEF Held, RequestsFor
  <2>4. CASE e = d /\ r \in batch[d]
    <3>1. CASE q.mc = selected[d]
      <4>1. q = r
        BY <2>4, <3>1 DEF OnePerController
      <4>2. r \in handling'[d]
        BY <2>2, <3>1, <4>1 DEF IInv, TypeOK
      <4> QED
        BY <2>4, <4>2 DEF Held
    <3>2. CASE q.mc # selected[d]
      <4>1. r # q
        BY <2>4, <3>2
      <4>2. r \in batch'[d]
        BY <2>2, <2>4, <3>2, <4>1 DEF IInv, TypeOK
      <4> QED
        BY <2>4, <4>2 DEF Held
    <3> QED
      BY <3>1, <3>2
  <2>5. CASE e = d /\ r \notin batch[d]
    <3>1. handling[d] \subseteq handling'[d]
      BY <2>2 DEF IInv, TypeOK
    <3> QED
      BY <2>1, <2>5, <3>1 DEF Held, RequestsFor
  <2> QED
    BY <2>3, <2>4, <2>5
<1>4. CASE CarryOut(d)
  <2>1. UNCHANGED <<requests, batch>>
    BY <1>4 DEF CarryOut
  <2>2. PICK q \in handling[d] : /\ applied' = [applied EXCEPT ![d][q.mc] = q.seq]
                                 /\ handling' = [handling EXCEPT ![d] = @ \ {q}]
    BY <1>4 DEF CarryOut
  <2>3. CASE e = d /\ r = q
    <3>1. applied'[d][q.mc] = q.seq
      BY <1>1, <2>2, <2>3 DEF IInv, TypeOK
    <3> QED
      BY <2>3, <3>1
  <2>4. CASE e # d \/ r # q
    <3>1. r \in handling[e] => r \in handling'[e]
      BY <2>2, <2>4 DEF IInv, TypeOK
    <3> QED
      BY <2>1, <3>1 DEF Held, RequestsFor
  <2> QED
    BY <2>3, <2>4
<1> QED
  BY <1>2, <1>3, <1>4 DEF DeviceStep

(***************************************************************************)
(* A request that has come to a device is not lost while the device follows*)
(* the controller it is from: it is carried out, or a later one of that    *)
(* controller takes its place.                                             *)
(***************************************************************************)
THEOREM PassedOnSafe == Spec => RequestsPassedOn
<1>1. OnePerController /\ IInv /\ [Next]_vars => OnePerController'
  BY OnePerControllerStep
<1>2. Init => OnePerController
  BY DEF Init, OnePerController, RequestsFor
<1>3. OnePerController /\ IInv /\ [Next]_vars => [PassedOn]_vars
  <2> SUFFICES ASSUME OnePerController, IInv, Next PROVE PassedOn
    OBVIOUS
  <2>1. ASSUME UNCHANGED <<requests, batch, handling>> PROVE PassedOn
    BY <2>1 DEF PassedOn, Held, RequestsFor
  <2>2. ASSUME NEW k \in Clients, GiveCommand(k) \/ WriteIntent(k)
        PROVE  UNCHANGED <<requests, batch, handling>>
    BY <2>2 DEF GiveCommand, WriteIntent, wire, deviceVars
  <2>3. ASSUME NEW d \in Devices, SelectorStep(d) PROVE UNCHANGED <<requests, batch, handling>>
    BY <2>3 DEF SelectorStep, deviceVars
  <2>4. ASSUME NEW c \in Controllers, ControllerStep(c), ~WriteRequest(c)
        PROVE  UNCHANGED <<requests, batch, handling>>
    BY <2>4 DEF ControllerStep, TakeDeviceInfo, TakeNotice, TakeIntents, TakeReply, UpdateLocally,
        UpdateAfterWrite, InsertPending, wire, deviceVars
  <2>5. ASSUME NEW c \in Controllers, WriteRequest(c) PROVE PassedOn
    BY <2>5, WritePassesOn
  <2>6. ASSUME NEW d \in Devices, DeviceStep(d) PROVE PassedOn
    BY <2>6, DevicePassesOn
  <2> QED
    BY <2>1, <2>2, <2>3, <2>4, <2>5, <2>6 DEF Next
<1> QED
  BY <1>1, <1>2, <1>3, Inductive, PTL DEF Spec, RequestsPassedOn

-----------------------------------------------------------------------------
(* Restarts (ControllerRestart). *)

(***************************************************************************)
(* A restart keeps the types.                                              *)
(***************************************************************************)
LEMMA RestartType ==
    ASSUME NEW c \in Controllers, TypeOK, Restart(c)
    PROVE TypeOK'
<1>. USE DEF Restart, TypeOK
<1>1. infos' \subseteq Controllers \X Devices
  BY DEF Retained
<1>2. notices' \subseteq [reader : Controllers, dev : Devices, master : Controllers]
  <2> SUFFICES ASSUME NEW n \in notices'
               PROVE n \in [reader : Controllers, dev : Devices, master : Controllers]
    OBVIOUS
  <2>1. CASE n \in notices
    BY <2>1
  <2>2. CASE n \notin notices
    <3>1. PICK d \in Devices : announced[d] # NoController
                               /\ n = [reader |-> c, dev |-> d, master |-> announced[d]]
      BY <2>2 DEF Retained
    <3> QED
      BY <3>1
  <2> QED
    BY <2>1, <2>2
<1>3. intents' \subseteq intents /\ requests' \subseteq requests /\ replies' \subseteq replies
  OBVIOUS
<1>4. belief' \in [Controllers -> [Devices -> [level : Levels \cup {"unknown"},
                                               master : Controllers \cup {NoController}]]]
  BY DEF Unknown
<1>5. /\ job' \in [Controllers -> SUBSET Job]
      /\ pending' \in [Controllers -> SUBSET (Nat \X Devices)]
  OBVIOUS
<1> QED
  BY <1>1, <1>2, <1>3, <1>4, <1>5 DEF clientVars, selectorVars, deviceVars, history

(***************************************************************************)
(* A step of a device's selector: it announces its choice or nothing, and  *)
(* has no controller while it searches.                                    *)
(***************************************************************************)
LEMMA SelectorChoice ==
    ASSUME NEW d \in Devices, TypeOK, Current, SelectorStep(d)
    PROVE \E s, a \in Controllers \cup {NoController} :
            /\ selected'[d] = s /\ announced'[d] = a
            /\ phase'[d] = "searching" => s = NoController
            /\ \A e \in Devices \ {d} : /\ selected'[e] = selected[e]
                                       /\ announced'[e] = announced[e]
                                       /\ phase'[e] = phase[e]
            /\ a \in {s, announced[d]}
            /\ a # announced[d] => s # selected[d] /\ s # NoController
            /\ chosen' = IF s = NoController THEN chosen ELSE chosen \cup {<<d, s>>}
            /\ notices' = IF s # selected[d] /\ s # NoController /\ s = a
                          THEN {n \in notices : n.dev # d}
                                  \cup {[reader |-> c, dev |-> d, master |-> a] : c \in Controllers}
                          ELSE notices
<1>1. PICK s \in Controllers \cup {NoController}, a \in Controllers \cup {NoController},
           p \in {"searching", "watching", "suspecting"} :
        /\ selected' = [selected EXCEPT ![d] = s]
        /\ announced' = [announced EXCEPT ![d] = a]
        /\ phase' = [phase EXCEPT ![d] = p]
        /\ Selector(d)!Next
        /\ chosen' = IF s = NoController THEN chosen ELSE chosen \cup {<<d, s>>}
        /\ notices' = IF s # selected[d] /\ s # NoController /\ s = a
                      THEN {n \in notices : n.dev # d}
                              \cup {[reader |-> c, dev |-> d, master |-> a] : c \in Controllers}
                      ELSE notices
  BY DEF SelectorStep
<1>2. selected'[d] = s /\ announced'[d] = a /\ phase'[d] = p
  BY <1>1 DEF TypeOK
<1>3. /\ phase'[d] = "searching" => selected'[d] = NoController
      /\ announced'[d] \in {selected'[d], announced[d]}
      /\ announced'[d] # announced[d]
            => selected'[d] # selected[d] /\ selected'[d] # NoController
  BY <1>1, NoControllerAssumption
  DEF Selector!Next, Selector!First, Selector!Replace, Selector!GiveUp, Selector!HearAgain,
      Selector!MissHeartbeat, Selector!Choose, Current
<1>4. \A e \in Devices \ {d} :
         selected'[e] = selected[e] /\ announced'[e] = announced[e] /\ phase'[e] = phase[e]
  BY <1>1 DEF TypeOK
<1> QED
  BY <1>1, <1>2, <1>3, <1>4

(***************************************************************************)
(* A restart keeps the rest of EnergyStartStop's invariant: what the new   *)
(* process is told of masters was announced, and it inherits no job.       *)
(***************************************************************************)
LEMMA RestartKeeps ==
    ASSUME NEW c \in Controllers, TypeOK, MastersWereChosen, InOrder, Current, Restart(c)
    PROVE MastersWereChosen' /\ InOrder'
<1>1. /\ requests' \subseteq requests /\ job'[c] = {}
      /\ \A b \in Controllers : job'[b] \subseteq job[b]
      /\ \A b \in Controllers \ {c} : belief'[b] = belief[b]
      /\ \A d \in Devices : belief'[c][d].master = NoController
      /\ UNCHANGED <<seqnum, announced, batch, handling, chosen, applied>>
  BY DEF Restart, TypeOK, Unknown, selectorVars, deviceVars, history
<1>2. \A n \in notices' : <<n.dev, n.master>> \in chosen
  <2> SUFFICES ASSUME NEW n \in notices' PROVE <<n.dev, n.master>> \in chosen
    OBVIOUS
  <2>1. CASE n \in notices
    BY <2>1 DEF MastersWereChosen
  <2>2. CASE n \notin notices
    <3>1. PICK d \in Devices : announced[d] # NoController
                               /\ n = [reader |-> c, dev |-> d, master |-> announced[d]]
      BY <2>2 DEF Restart, Retained
    <3> QED
      BY <3>1 DEF Current
  <2> QED
    BY <2>1, <2>2
<1>3. MastersWereChosen'
  BY <1>1, <1>2 DEF MastersWereChosen, CommandsOnlyByChosen
<1>4. InOrder'
  BY <1>1 DEF InOrder
<1> QED
  BY <1>3, <1>4

(***************************************************************************)
(* Losing a request, and taking a reply by its number, keep the invariant. *)
(***************************************************************************)
LEMMA LossKeeps ==
    ASSUME NEW c \in Controllers, TypeOK, MastersWereChosen, InOrder,
           DropRequest(c) \/ TakeReplyR(c)
    PROVE TypeOK' /\ MastersWereChosen' /\ InOrder'
<1>1. /\ requests' \subseteq requests /\ replies' \subseteq replies
      /\ pending' \in [Controllers -> SUBSET (Nat \X Devices)]
      /\ UNCHANGED <<infos, notices, intents, clientVars, belief, job, seqnum, selectorVars,
                     deviceVars, history>>
  <2>1. CASE DropRequest(c)
    BY <2>1 DEF DropRequest, TypeOK, controllerVars
  <2>2. CASE TakeReplyR(c)
    <3>1. PICK r \in replies :
            pending' = [pending EXCEPT ![c] = {p \in @ : Wire(c, p[1]) # Wire(c, r.seq)}]
      BY <2>2 DEF TakeReplyR
    <3>2. {p \in pending[c] : Wire(c, p[1]) # Wire(c, r.seq)} \in SUBSET (Nat \X Devices)
      BY DEF TypeOK
    <3>3. pending' \in [Controllers -> SUBSET (Nat \X Devices)]
      BY <3>1, <3>2 DEF TypeOK
    <3> QED
      BY <2>2, <3>3 DEF TakeReplyR
  <2> QED
    BY <2>1, <2>2
<1>2. TypeOK'
  BY <1>1 DEF TypeOK, clientVars, selectorVars, deviceVars, history
<1>3. MastersWereChosen'
  BY <1>1 DEF MastersWereChosen, CommandsOnlyByChosen, history
<1>4. InOrder'
  BY <1>1 DEF InOrder, deviceVars, history
<1> QED
  BY <1>2, <1>3, <1>4

\* The variables LearnsAgain and Current speak about.
learnVars == <<infos, notices, belief, selected, announced, phase, chosen>>

(***************************************************************************)
(* No step makes a controller lose a device or believe in an old choice.   *)
(***************************************************************************)
LEMMA LearnStep ==
    ASSUME TypeOK, LearnsAgain, Current, [NextR]_varsR
    PROVE LearnsAgain' /\ Current'
<1>1. CASE UNCHANGED learnVars
  BY <1>1 DEF LearnsAgain, Current, learnVars
<1>2. ASSUME NEW c \in Controllers, TakeDeviceInfo(c) PROVE LearnsAgain' /\ Current'
  <2>1. PICK d \in Devices :
          /\ infos' = infos \ {<<c, d>>}
          /\ belief' = IF belief[c][d] = Unknown
                       THEN [belief EXCEPT ![c][d] = [level |-> "operational",
                                                      master |-> NoController]]
                       ELSE belief
    BY <1>2 DEF TakeDeviceInfo
  <2>2. \A b \in Controllers, e \in Devices :
           belief'[b][e] = IF b = c /\ e = d /\ belief[c][d] = Unknown
                           THEN [level |-> "operational", master |-> NoController]
                           ELSE belief[b][e]
    BY <2>1 DEF TypeOK
  <2>3. UNCHANGED <<notices, selected, announced, phase, chosen>>
    BY <1>2 DEF TakeDeviceInfo, selectorVars, history
  <2>4. [level |-> "operational", master |-> NoController] # Unknown
    BY DEF Unknown
  <2> QED
    BY <2>1, <2>2, <2>3, <2>4 DEF LearnsAgain, Current
<1>3. ASSUME NEW c \in Controllers, TakeNotice(c) PROVE LearnsAgain' /\ Current'
  <2>1. PICK n \in notices : /\ n.reader = c /\ notices' = notices \ {n}
                             /\ belief' = SetActiveController(c, n.dev, n.master)
    BY <1>3 DEF TakeNotice
  <2>2. n.dev \in Devices /\ n.master = announced[n.dev]
    BY DEF TypeOK, Current
  <2>3. \A b \in Controllers, e \in Devices :
           IF b = c /\ e = n.dev /\ belief[c][e] # Unknown
           THEN belief'[b][e].master = n.master
           ELSE belief'[b][e] = belief[b][e]
    BY <2>1, <2>2 DEF SetActiveController, TypeOK
  <2>4. UNCHANGED <<infos, selected, announced, phase, chosen>>
    BY <1>3 DEF TakeNotice, selectorVars, history
  <2>5. \A b \in Controllers, e \in Devices :
           belief'[b][e] = Unknown => belief[b][e] = Unknown
    <3> SUFFICES ASSUME NEW b \in Controllers, NEW e \in Devices, belief'[b][e] = Unknown
                 PROVE belief[b][e] = Unknown
      OBVIOUS
    <3>1. CASE b = c /\ e = n.dev /\ belief[c][e] # Unknown
      <4>1. n.master \in Controllers
        BY DEF TypeOK
      <4>2. belief'[b][e].master = n.master
        BY <2>3, <3>1
      <4> QED
        BY <4>1, <4>2, NoControllerAssumption DEF Unknown
    <3>2. CASE ~(b = c /\ e = n.dev /\ belief[c][e] # Unknown)
      BY <2>3, <3>2
    <3> QED
      BY <3>1, <3>2
  <2>6. \A b \in Controllers, e \in Devices :
           (\A m \in notices' : m.reader # b \/ m.dev # e)
              => belief'[b][e].master \in {NoController, announced[e]}
    <3> SUFFICES ASSUME NEW b \in Controllers, NEW e \in Devices,
                        \A m \in notices' : m.reader # b \/ m.dev # e
                 PROVE belief'[b][e].master \in {NoController, announced[e]}
      OBVIOUS
    <3>1. CASE b = c /\ e = n.dev
      <4>1. CASE belief[c][e] # Unknown
        BY <2>2, <2>3, <3>1, <4>1
      <4>2. CASE belief[c][e] = Unknown
        BY <2>3, <3>1, <4>2, Unknown.master = NoController DEF Unknown
      <4> QED
        BY <4>1, <4>2
    <3>2. CASE ~(b = c /\ e = n.dev)
      BY <2>1, <2>3, <3>2 DEF LearnsAgain
    <3> QED
      BY <3>1, <3>2
  <2> QED
    BY <2>1, <2>4, <2>5, <2>6 DEF LearnsAgain, Current
<1>4. ASSUME NEW c \in Controllers, Restart(c) PROVE LearnsAgain' /\ Current'
  <2>1. UNCHANGED <<selected, announced, phase, chosen>>
    BY <1>4 DEF Restart, selectorVars, history
  <2>2. \A d \in Devices : belief'[c][d] = Unknown /\ <<c, d>> \in infos'
    BY <1>4 DEF Restart, TypeOK, Retained, fn_map, PublishLast, Command, Medium, Reply, Default
  <2>3. \A b \in Controllers \ {c} : belief'[b] = belief[b]
    BY <1>4 DEF Restart, TypeOK
  <2>4. \A i \in infos : i[1] # c => i \in infos'
    BY <1>4 DEF Restart
  <2>5. \A n \in notices : n.reader # c => n \in notices'
    BY <1>4 DEF Restart
  <2>6. \A n \in notices' : n.master = announced[n.dev]
    BY <1>4 DEF Restart, Retained, Current
  <2> QED
    BY <2>1, <2>2, <2>3, <2>4, <2>5, <2>6 DEF LearnsAgain, Current, Unknown
<1>5. ASSUME NEW d \in Devices, SelectorStep(d) PROVE LearnsAgain' /\ Current'
  <2>1. PICK s \in Controllers \cup {NoController}, a \in Controllers \cup {NoController} :
            /\ selected'[d] = s /\ announced'[d] = a
            /\ phase'[d] = "searching" => s = NoController
            /\ \A e \in Devices \ {d} : /\ selected'[e] = selected[e]
                                       /\ announced'[e] = announced[e]
                                       /\ phase'[e] = phase[e]
            /\ a \in {s, announced[d]}
            /\ a # announced[d] => s # selected[d] /\ s # NoController
            /\ chosen' = IF s = NoController THEN chosen ELSE chosen \cup {<<d, s>>}
            /\ notices' = IF s # selected[d] /\ s # NoController /\ s = a
                          THEN {n \in notices : n.dev # d}
                                  \cup {[reader |-> c, dev |-> d, master |-> a] : c \in Controllers}
                          ELSE notices
    BY <1>5, SelectorChoice
  <2>2. UNCHANGED <<infos, belief>>
    BY <1>5 DEF SelectorStep, controllerVars
  <2>3. \A e \in Devices : phase'[e] = "searching" => selected'[e] = NoController
    BY <2>1 DEF Current
  <2>4. CASE s # selected[d] /\ s # NoController /\ s = a
    <3>. DEFINE New == {[reader |-> c, dev |-> d, master |-> a] : c \in Controllers}
    <3>0. notices' = {n \in notices : n.dev # d} \cup New
      BY <2>1, <2>4
    <3>1. /\ \A c \in Controllers :
                [reader |-> c, dev |-> d, master |-> a] \in notices'
          /\ \A n \in notices : n.dev # d => n \in notices'
          /\ \A n \in notices' : (n.dev # d /\ n \in notices) \/ (n.dev = d /\ n.master = a)
      <4>1. \A n \in New : n.dev = d /\ n.master = a
        OBVIOUS
      <4>2. \A c \in Controllers : [reader |-> c, dev |-> d, master |-> a] \in New
        OBVIOUS
      <4> HIDE DEF New
      <4> QED
        BY <3>0, <4>1, <4>2
    <3>2. \A n \in notices : n.dev \in Devices
      BY DEF TypeOK
    <3>3. \A n \in notices' : n.master = announced'[n.dev]
      BY <2>1, <3>1, <3>2 DEF Current
    <3>4. \A e \in Devices : announced'[e] # NoController => <<e, announced'[e]>> \in chosen'
      BY <2>1, <2>4 DEF Current
    <3> HIDE DEF New
    <3>5. \A c \in Controllers, e \in Devices :
             (\A n \in notices' : n.reader # c \/ n.dev # e)
                => e # d /\ \A n \in notices : n.reader # c \/ n.dev # e
      BY <3>1
    <3>6. LearnsAgain'
      BY <2>1, <2>2, <3>5, ZenonT(30) DEF LearnsAgain, Unknown
    <3> QED
      BY <2>3, <3>3, <3>4, <3>6 DEF Current
  <2>5. CASE ~(s # selected[d] /\ s # NoController /\ s = a)
    <3>1. notices' = notices /\ chosen \subseteq chosen'
      BY <2>1, <2>5
    <3>2. \A e \in Devices : announced'[e] = announced[e]
      BY <2>1, <2>5
    <3>3. \A n \in notices : n.dev \in Devices
      BY DEF TypeOK
    <3> QED
      BY <2>2, <2>3, <3>1, <3>2, <3>3 DEF LearnsAgain, Current, Unknown
  <2> QED
    BY <2>4, <2>5
<1>6. ASSUME NEW c \in Controllers, UpdateLocally(c) \/ UpdateAfterWrite(c)
      PROVE LearnsAgain' /\ Current'
  <2>1. PICK j \in job[c] : belief' = UpdateEssl(c, j.dev, j.level)
    BY <1>6 DEF UpdateLocally, UpdateAfterWrite
  <2>2. j.dev \in Devices /\ j.level \in Levels
    BY JobTypes
  <2>3. \A b \in Controllers, e \in Devices :
           /\ belief'[b][e].master = belief[b][e].master
           /\ belief'[b][e].level = IF b = c /\ e = j.dev THEN j.level ELSE belief[b][e].level
           /\ b # c \/ e # j.dev => belief'[b][e] = belief[b][e]
    BY <2>1, <2>2 DEF UpdateEssl, TypeOK
  <2>4. \A b \in Controllers, e \in Devices :
           belief'[b][e] = Unknown => belief[b][e] = Unknown
    BY <2>2, <2>3 DEF Unknown, Levels
  <2>5. UNCHANGED <<infos, notices, selected, announced, phase, chosen>>
    BY <1>6 DEF UpdateLocally, UpdateAfterWrite, wire, selectorVars, history
  <2> QED
    BY <2>3, <2>4, <2>5 DEF LearnsAgain, Current
<1>7. ASSUME NEW c \in Controllers, TakeIntents(c) \/ WriteRequest(c) \/ InsertPending(c)
                                      \/ TakeReplyR(c) \/ DropRequest(c)
      PROVE UNCHANGED learnVars
  BY <1>7 DEF TakeIntents, WriteRequest, InsertPending, TakeReplyR, DropRequest, learnVars, wire,
              controllerVars, selectorVars, history
<1>8. ASSUME NEW k \in Clients, GiveCommand(k) \/ WriteIntent(k) PROVE UNCHANGED learnVars
  BY <1>8 DEF GiveCommand, WriteIntent, learnVars, wire, controllerVars, selectorVars, history
<1>9. ASSUME NEW d \in Devices, DeviceStep(d) PROVE UNCHANGED learnVars
  BY <1>9 DEF DeviceStep, TakeRequests, CheckRequest, CarryOut, learnVars, wire, controllerVars,
              selectorVars, history
<1>10. CASE UNCHANGED varsR
  BY <1>1, <1>10 DEF varsR, vars, learnVars, wire, controllerVars, selectorVars, history
<1> QED
  BY <1>1, <1>2, <1>3, <1>4, <1>5, <1>6, <1>7, <1>8, <1>9, <1>10 DEF NextR, StepR, OthersR

(***************************************************************************)
(* The inductive invariant over restarts.                                  *)
(***************************************************************************)
LEMMA InvStep == LInv /\ [NextR]_varsR => LInv'
<1>. SUFFICES ASSUME LInv, [NextR]_varsR PROVE LInv'
  OBVIOUS
<1>. USE DEF LInv, IInvR, TypeOKR
<1>1. LearnsAgain' /\ Current'
  BY LearnStep
<1>2. ASSUME [Next]_vars, UNCHANGED restartVars PROVE LInv'
  <2>1. TypeOK' /\ MastersWereChosen' /\ InOrder'
    BY <1>2, TypeStep, ChosenStep, OrderStep
  <2> QED
    BY <1>1, <1>2, <2>1 DEF restartVars
<1>3. ASSUME NEW c \in Controllers, Restart(c) PROVE LInv'
  <2>1. TypeOK' /\ MastersWereChosen' /\ InOrder'
    BY <1>3, RestartType, RestartKeeps
  <2>2. restarts' \in 0..MaxRestarts
    BY <1>3, RestartAssumption DEF Restart
  <2>3. bases' \in [Controllers -> SUBSET Nat]
    BY <1>3 DEF Restart, TypeOK
  <2> QED
    BY <1>1, <2>1, <2>2, <2>3
<1>4. ASSUME NEW c \in Controllers, DropRequest(c) \/ TakeReplyR(c) PROVE LInv'
  <2>1. TypeOK' /\ MastersWereChosen' /\ InOrder'
    BY <1>4, LossKeeps
  <2>2. UNCHANGED restartVars
    BY <1>4 DEF DropRequest, TakeReplyR
  <2> QED
    BY <1>1, <2>1, <2>2 DEF restartVars
<1>5. ASSUME NEW c \in Controllers, StepR(c) PROVE [Next]_vars /\ UNCHANGED restartVars
  BY <1>5 DEF StepR, Next, ControllerStep
<1>6. OthersR => [Next]_vars /\ UNCHANGED restartVars
  BY DEF OthersR, Next
<1>7. UNCHANGED varsR => [Next]_vars /\ UNCHANGED restartVars
  BY DEF varsR
<1> QED
  BY <1>2, <1>3, <1>4, <1>5, <1>6, <1>7 DEF NextR

(***************************************************************************)
(* LInv is inductive, over steps and restarts.                             *)
(***************************************************************************)
THEOREM InductiveR == SpecR => []LInv
<1>1. InitR => LInv
  <2> SUFFICES ASSUME InitR PROVE LInv
    OBVIOUS
  <2>1. IInv
    BY InitHolds DEF InitR
  <2>2. bases \in [Controllers -> SUBSET Nat] /\ restarts \in 0..MaxRestarts
    BY RestartAssumption DEF InitR
  <2>3. LearnsAgain /\ Current
    BY DEF InitR, Init, LearnsAgain, Current, Unknown
  <2> QED
    BY <2>1, <2>2, <2>3 DEF LInv, IInvR, TypeOKR, IInv
<1> QED
  BY <1>1, InvStep, PTL DEF SpecR

(***************************************************************************)
(* The invariant of EnergyStartStop holds over restarts.                   *)
(***************************************************************************)
THEOREM RestartSafe == SpecR => []IInvR
<1>1. LInv => IInvR
  BY DEF LInv
<1> QED
  BY <1>1, InductiveR, PTL

(***************************************************************************)
(* A restarted controller is told of every device again, and believes in   *)
(* no outdated choice of a device unless an announcement is on its way.    *)
(***************************************************************************)
THEOREM LearnsAgainHolds == SpecR => []LearnsAgain
<1>1. LInv => LearnsAgain
  BY DEF LInv
<1> QED
  BY <1>1, InductiveR, PTL

(***************************************************************************)
(* A device carries out the requests of a controller in the order given,   *)
(* whichever of the controller's processes gave them.                      *)
(***************************************************************************)
THEOREM OrderOverRestarts == SpecR => AppliesInOrderR
<1>1. LInv /\ [NextR]_varsR => [ForwardOnly]_varsR
  <2> SUFFICES ASSUME LInv, NextR PROVE ForwardOnly
    BY DEF ForwardOnly
  <2>1. ASSUME NEW d \in Devices, CarryOut(d) PROVE ForwardOnly
    BY <2>1, CarryOutForward DEF LInv, IInvR, TypeOKR, IInv
  <2>2. (\A d \in Devices : ~CarryOut(d)) => UNCHANGED applied
    BY ZenonT(30)
       DEF NextR, StepR, OthersR, Restart, DropRequest, TakeReplyR, DeviceStep, GiveCommand,
           WriteIntent, SelectorStep, TakeDeviceInfo, TakeNotice, TakeIntents, UpdateLocally,
           WriteRequest, UpdateAfterWrite, InsertPending, TakeRequests, CheckRequest, history
  <2> QED
    BY <2>1, <2>2 DEF ForwardOnly
<1> QED
  BY <1>1, InductiveR, PTL DEF SpecR, AppliesInOrderR

-----------------------------------------------------------------------------
(* A reply erases the entry of its own request. *)

(***************************************************************************)
(* The devices a controller's requests were numbered for: whatever carries *)
(* a number of a controller, from the call that has written the request to *)
(* the entry it leaves, is about the number's device.  What waits for a    *)
(* reply was written by the controller's last process.                     *)
(***************************************************************************)
RequestsOwned(o) ==
    /\ \A r \in requests : o[r.mc][r.seq] = r.dev
    /\ \A d \in Devices : \A r \in batch[d] \cup handling[d] : o[r.mc][r.seq] = d
    /\ \A r \in replies : r.seq < seqnum[r.mc] /\ o[r.mc][r.seq] = r.dev

WaitsOwned(o) ==
    \A c \in Controllers :
        /\ \A p \in pending[c] : /\ p[1] < seqnum[c] /\ o[c][p[1]] = p[2]
                                 /\ \A b \in bases[c] : b <= p[1]
        /\ \A j \in job[c] : j.step \in {"update", "insert"} =>
              /\ j.seq < seqnum[c] /\ o[c][j.seq] = j.dev
              /\ \A b \in bases[c] : b <= j.seq

LastBase ==
    \A c \in Controllers : \E m \in bases[c] : m <= seqnum[c] /\ \A b \in bases[c] : b <= m

Owners == [Controllers -> [Nat -> Devices \cup {NoController}]]

Numbered == LastBase /\ \E o \in Owners : RequestsOwned(o) /\ WaitsOwned(o)

(***************************************************************************)
(* A number is given away when the request is written: it is new, and from *)
(* then on the device's.                                                   *)
(***************************************************************************)
LEMMA WriteNumbers ==
    ASSUME TypeOKR, InOrder, Numbered, NEW c \in Controllers, WriteRequest(c),
           UNCHANGED restartVars
    PROVE Numbered'
<1>. USE DEF TypeOKR
<1>1. PICK j \in job[c] :
         /\ j.step = "write"
         /\ seqnum' = [seqnum EXCEPT ![c] = @ + 1]
         /\ \/ /\ requests' = {r \in requests : r.mc # c \/ r.dev # j.dev}
                             \cup {[mc |-> c, dev |-> j.dev, seq |-> j.seq, level |-> j.level]}
               /\ job' = [job EXCEPT ![c] = {[j EXCEPT !.step = "update"]}]
            \/ /\ job' = [job EXCEPT ![c] = {}]
               /\ UNCHANGED requests
  BY DEF WriteRequest
<1>2. j \in Job /\ j.seq = seqnum[c] /\ j.dev \in Devices /\ j.seq \in Nat
  BY <1>1 DEF TypeOK, InOrder, Job
<1>3. PICK o \in Owners : RequestsOwned(o) /\ WaitsOwned(o)
  BY DEF Numbered
<1> DEFINE n == [o EXCEPT ![c] = [@ EXCEPT ![j.seq] = j.dev]]
<1>4. /\ n \in Owners
      /\ \A b \in Controllers, s \in Nat :
            n[b][s] = IF b = c /\ s = seqnum[c] THEN j.dev ELSE o[b][s]
  BY <1>2, <1>3 DEF Owners
<1>5. \A b \in Controllers, s \in Nat : s < seqnum[b] => n[b][s] = o[b][s] /\ s < seqnum'[b]
  BY <1>1, <1>4 DEF TypeOK
<1>6. UNCHANGED <<batch, handling, replies, pending, bases, restarts>>
  BY DEF WriteRequest, deviceVars, restartVars
<1>7. RequestsOwned(n)'
  <2>1. \A r \in requests' :
          \/ r \in requests
          \/ r.mc = c /\ r.dev = j.dev /\ r.seq = seqnum[c]
    BY <1>1, <1>2
  <2>2. \A r \in requests' : n[r.mc][r.seq] = r.dev
    BY <2>1, <1>3, <1>4, <1>5, <1>2 DEF RequestsOwned, InOrder, TypeOK, Request
  <2>3. \A d \in Devices : \A r \in batch[d] \cup handling[d] : n[r.mc][r.seq] = d
    BY <1>3, <1>5 DEF RequestsOwned, InOrder, TypeOK, Request
  <2>4. \A r \in replies : r.seq < seqnum'[r.mc] /\ n[r.mc][r.seq] = r.dev
    BY <1>3, <1>5 DEF RequestsOwned, TypeOK
  <2> QED
    BY <2>2, <2>3, <2>4, <1>6 DEF RequestsOwned
<1>8. WaitsOwned(n)'
  <2> SUFFICES ASSUME NEW b \in Controllers
               PROVE  /\ \A p \in pending[b] : /\ p[1] < seqnum'[b] /\ n[b][p[1]] = p[2]
                                               /\ \A a \in bases[b] : a <= p[1]
                      /\ \A i \in job'[b] : i.step \in {"update", "insert"} =>
                            /\ i.seq < seqnum'[b] /\ n[b][i.seq] = i.dev
                            /\ \A a \in bases[b] : a <= i.seq
    BY <1>6 DEF WaitsOwned
  <2>1. \A p \in pending[b] : p[1] \in Nat
    BY DEF TypeOK
  <2>2. \A p \in pending[b] : /\ p[1] < seqnum'[b] /\ n[b][p[1]] = p[2]
                              /\ \A a \in bases[b] : a <= p[1]
    BY <2>1, <1>3, <1>5 DEF WaitsOwned
  <2>3. ASSUME NEW i \in job'[b], i.step \in {"update", "insert"}
        PROVE  /\ i.seq < seqnum'[b] /\ n[b][i.seq] = i.dev
               /\ \A a \in bases[b] : a <= i.seq
    <3>1. CASE b # c
      <4>1. i \in job[b] /\ i.seq \in Nat
        BY <1>1, <3>1 DEF TypeOK, Job
      <4> QED
        BY <4>1, <2>3, <1>3, <1>5 DEF WaitsOwned
    <3>2. CASE b = c
      <4>1. i = [j EXCEPT !.step = "update"]
        BY <1>1, <3>2, <2>3 DEF TypeOK
      <4>2. i.seq = seqnum[c] /\ i.dev = j.dev
        BY <4>1, <1>2 DEF Job
      <4>3. \A a \in bases[c] : a <= seqnum[c]
        BY DEF Numbered, LastBase, TypeOK
      <4> QED
        BY <4>2, <4>3, <3>2, <1>1, <1>2, <1>4 DEF TypeOK
    <3> QED
      BY <3>1, <3>2
  <2> QED
    BY <2>2, <2>3
<1>9. LastBase'
  <2>1. \A b \in Controllers : seqnum[b] \in Nat /\ seqnum'[b] \in Nat /\ seqnum[b] <= seqnum'[b]
    BY <1>1 DEF TypeOK
  <2>2. \A b \in Controllers : bases[b] \subseteq Nat
    OBVIOUS
  <2>3. ASSUME NEW b \in Controllers, NEW m \in bases[b], m <= seqnum[b]
        PROVE  m <= seqnum'[b]
    BY <2>1, <2>2, <2>3
  <2> QED
    BY <1>6, <2>3 DEF Numbered, LastBase
<1> QED
  BY <1>4, <1>7, <1>8, <1>9 DEF Numbered, Owners

(***************************************************************************)
(* What only passes a number on keeps its device: the call that waits for  *)
(* the reply, ...                                                          *)
(***************************************************************************)
LEMMA CallNumbers ==
    ASSUME TypeOKR, Numbered, NEW c \in Controllers, UNCHANGED restartVars,
           TakeIntents(c) \/ UpdateLocally(c) \/ UpdateAfterWrite(c) \/ InsertPending(c)
    PROVE Numbered'
<1>. USE DEF TypeOKR
<1>1. UNCHANGED <<requests, batch, handling, replies, seqnum, bases>>
  BY DEF TakeIntents, UpdateLocally, UpdateAfterWrite, InsertPending, wire, deviceVars, restartVars
<1>2. PICK o \in Owners : RequestsOwned(o) /\ WaitsOwned(o)
  BY DEF Numbered
<1>3. RequestsOwned(o)' /\ LastBase'
  BY <1>1, <1>2 DEF RequestsOwned, Numbered, LastBase
<1>4. ASSUME TakeIntents(c) PROVE WaitsOwned(o)'
  <2>1. \A b \in Controllers : \A i \in job'[b] :
           i \in job[b] \/ i.step \in {"write", "local"}
    <3>1. CASE UNCHANGED job
      BY <3>1
    <3>2. ASSUME NEW d \in Devices, NEW l \in Levels,
                 job' = [job EXCEPT ![c] = Decide(c, d, l)]
          PROVE  \A b \in Controllers : \A i \in job'[b] :
                    i \in job[b] \/ i.step \in {"write", "local"}
      <4>1. \A i \in Decide(c, d, l) : i.step \in {"write", "local"}
        BY DEF Decide
      <4> QED
        BY <3>2, <4>1 DEF TypeOK
    <3>3. \A i \in intents : i.intent.dev \in Devices /\ i.intent.level \in Levels
      BY DEF TypeOK, Intent
    <3> QED
      BY <1>4, <3>1, <3>2, <3>3 DEF TakeIntents
  <2>2. UNCHANGED pending
    BY <1>4 DEF TakeIntents
  <2> QED
    BY <1>1, <1>2, <2>1, <2>2 DEF WaitsOwned
<1>5. ASSUME UpdateLocally(c) PROVE WaitsOwned(o)'
  <2>1. UNCHANGED pending /\ job' = [job EXCEPT ![c] = {}]
    BY <1>5 DEF UpdateLocally
  <2>2. \A b \in Controllers : job'[b] \subseteq job[b]
    BY <2>1 DEF TypeOK
  <2> QED
    BY <1>1, <1>2, <2>1, <2>2 DEF WaitsOwned
<1>6. ASSUME UpdateAfterWrite(c) PROVE WaitsOwned(o)'
  <2>1. PICK j \in job[c] : /\ j.step = "update"
                            /\ job' = [job EXCEPT ![c] = {[j EXCEPT !.step = "insert"]}]
    BY <1>6 DEF UpdateAfterWrite
  <2>2. j \in Job
    BY DEF TypeOK
  <2>3. \A b \in Controllers : \A i \in job'[b] :
           \/ i \in job[b]
           \/ b = c /\ i.seq = j.seq /\ i.dev = j.dev
    BY <2>1, <2>2 DEF TypeOK, Job
  <2>4. UNCHANGED pending
    BY <1>6 DEF UpdateAfterWrite
  <2> QED
    BY <1>1, <1>2, <2>1, <2>3, <2>4 DEF WaitsOwned
<1>7. ASSUME InsertPending(c) PROVE WaitsOwned(o)'
  <2>1. PICK j \in job[c] : /\ j.step = "insert"
                            /\ pending' = [pending EXCEPT ![c] = @ \cup {<<j.seq, j.dev>>}]
                            /\ job' = [job EXCEPT ![c] = {}]
    BY <1>7 DEF InsertPending
  <2>2. \A b \in Controllers : job'[b] \subseteq job[b]
    BY <2>1 DEF TypeOK
  <2>3. \A b \in Controllers : \A p \in pending'[b] :
           p \in pending[b] \/ (b = c /\ p = <<j.seq, j.dev>>)
    BY <2>1 DEF TypeOK
  <2> QED
    BY <1>1, <1>2, <2>1, <2>2, <2>3 DEF WaitsOwned
<1> QED
  BY <1>2, <1>3, <1>4, <1>5, <1>6, <1>7 DEF Numbered, Owners

(***************************************************************************)
(* ... the device that takes the request and replies, ...                  *)
(***************************************************************************)
LEMMA DeviceNumbers ==
    ASSUME TypeOKR, InOrder, Numbered, NEW d \in Devices, UNCHANGED restartVars, DeviceStep(d)
    PROVE Numbered'
<1>. USE DEF TypeOKR
<1>1. UNCHANGED <<seqnum, pending, job, bases>>
  BY DEF DeviceStep, TakeRequests, CheckRequest, CarryOut, controllerVars, restartVars
<1>2. PICK o \in Owners : RequestsOwned(o) /\ WaitsOwned(o)
  BY DEF Numbered
<1>3. WaitsOwned(o)' /\ LastBase'
  BY <1>1, <1>2 DEF WaitsOwned, Numbered, LastBase
<1>4. requests' \subseteq requests
  BY DEF DeviceStep, TakeRequests, CheckRequest, CarryOut, wire
<1>5. \A e \in Devices : \A r \in batch'[e] \cup handling'[e] :
         r \in batch[e] \cup handling[e] \/ (r \in requests /\ r.dev = e)
  <2>1. ASSUME TakeRequests(d)
        PROVE  \A e \in Devices : \A r \in batch'[e] \cup handling'[e] :
                  r \in batch[e] \cup handling[e] \/ (r \in requests /\ r.dev = e)
    BY <2>1 DEF TakeRequests, RequestsFor, TypeOK
  <2>2. ASSUME CheckRequest(d)
        PROVE  \A e \in Devices : \A r \in batch'[e] \cup handling'[e] :
                  r \in batch[e] \cup handling[e]
    <3>1. PICK r \in batch[d] :
            /\ batch' = [batch EXCEPT ![d] = {}] \/ batch' = [batch EXCEPT ![d] = @ \ {r}]
            /\ handling' = [handling EXCEPT ![d] = @ \cup {r}] \/ UNCHANGED handling
      BY <2>2 DEF CheckRequest
    <3>2. \A e \in Devices : batch'[e] \subseteq batch[e]
      BY <3>1 DEF TypeOK
    <3>3. \A e \in Devices : \A q \in handling'[e] :
             q \in handling[e] \/ (q = r /\ e = d)
      BY <3>1 DEF TypeOK
    <3> QED
      BY <3>1, <3>2, <3>3
  <2>3. ASSUME CarryOut(d)
        PROVE  \A e \in Devices : \A r \in batch'[e] \cup handling'[e] :
                  r \in batch[e] \cup handling[e]
    BY <2>3 DEF CarryOut, TypeOK
  <2> QED
    BY <2>1, <2>2, <2>3 DEF DeviceStep
<1>6. \A r \in replies' :
         r \in replies \/ \E q \in handling[d] : r.mc = q.mc /\ r.seq = q.seq /\ r.dev = d
  BY DEF DeviceStep, TakeRequests, CheckRequest, CarryOut, wire
<1>7. \A r \in replies' : r.seq < seqnum[r.mc] /\ o[r.mc][r.seq] = r.dev
  BY <1>2, <1>6 DEF RequestsOwned, InOrder
<1>8. RequestsOwned(o)'
  <2>1. \A r \in requests' : o[r.mc][r.seq] = r.dev
    BY <1>2, <1>4 DEF RequestsOwned
  <2>2. \A e \in Devices : \A r \in batch'[e] \cup handling'[e] : o[r.mc][r.seq] = e
    BY <1>2, <1>5 DEF RequestsOwned
  <2> QED
    BY <2>1, <2>2, <1>1, <1>7 DEF RequestsOwned
<1> QED
  BY <1>3, <1>8 DEF Numbered, Owners

(***************************************************************************)
(* ... and what takes replies away, loses requests or starts a process.    *)
(***************************************************************************)
LEMMA RestartNumbers ==
    ASSUME TypeOKR, InOrder, Numbered, NEW c \in Controllers,
           Restart(c) \/ TakeReplyR(c) \/ DropRequest(c)
    PROVE Numbered'
<1>. USE DEF TypeOKR
<1>1. PICK o \in Owners : RequestsOwned(o) /\ WaitsOwned(o)
  BY DEF Numbered
<1>2. /\ requests' \subseteq requests /\ replies' \subseteq replies
      /\ UNCHANGED <<seqnum, batch, handling>>
  BY DEF Restart, TakeReplyR, DropRequest, controllerVars, deviceVars
<1>3. RequestsOwned(o)'
  BY <1>1, <1>2 DEF RequestsOwned
<1>4. \A b \in Controllers :
        /\ pending'[b] \subseteq pending[b] /\ job'[b] \subseteq job[b]
        /\ bases'[b] = bases[b] \/ (pending'[b] = {} /\ job'[b] = {})
  <2>1. ASSUME Restart(c)
        PROVE  \A b \in Controllers :
                 /\ pending'[b] \subseteq pending[b] /\ job'[b] \subseteq job[b]
                 /\ bases'[b] = bases[b] \/ (pending'[b] = {} /\ job'[b] = {})
    BY <2>1 DEF Restart, TypeOK
  <2>2. ASSUME TakeReplyR(c)
        PROVE  \A b \in Controllers :
                 pending'[b] \subseteq pending[b] /\ job'[b] = job[b] /\ bases'[b] = bases[b]
    BY <2>2 DEF TakeReplyR, TypeOK, restartVars
  <2>3. ASSUME DropRequest(c)
        PROVE  UNCHANGED <<pending, job, bases>>
    BY <2>3 DEF DropRequest, controllerVars, restartVars
  <2> QED
    BY <2>1, <2>2, <2>3
<1>5. WaitsOwned(o)'
  BY <1>1, <1>2, <1>4 DEF WaitsOwned
<1>6. LastBase'
  <2>1. CASE UNCHANGED bases
    BY <2>1, <1>2 DEF Numbered, LastBase
  <2>2. CASE bases' = [bases EXCEPT ![c] = @ \cup {seqnum[c]}]
    <3>1. \A b \in Controllers : b # c => bases'[b] = bases[b]
      BY <2>2
    <3>2. bases'[c] = bases[c] \cup {seqnum[c]} /\ seqnum[c] \in Nat
      BY <2>2 DEF TypeOK
    <3>3. \A a \in bases'[c] : a <= seqnum[c]
      BY <3>2 DEF Numbered, LastBase, TypeOK
    <3> QED
      BY <3>1, <3>2, <3>3, <1>2 DEF Numbered, LastBase
  <2> QED
    BY <2>1, <2>2 DEF Restart, TakeReplyR, DropRequest, restartVars
<1> QED
  BY <1>1, <1>3, <1>5, <1>6 DEF Numbered, Owners

(***************************************************************************)
(* Every step of NextR keeps the numbers.                                  *)
(***************************************************************************)
LEMMA NumberedStep == LInv /\ Numbered /\ [NextR]_varsR => Numbered'
<1>. SUFFICES ASSUME LInv, Numbered, [NextR]_varsR PROVE Numbered'
  OBVIOUS
<1>1. TypeOKR /\ InOrder
  BY DEF LInv, IInvR
<1> DEFINE Same == UNCHANGED <<requests, batch, handling, replies, seqnum, pending, job, bases>>
<1>2. CASE Same
  BY <1>2 DEF Numbered, LastBase, RequestsOwned, WaitsOwned
<1>3. ASSUME NEW c \in Controllers, StepR(c) PROVE Numbered'
  <2>1. CASE TakeDeviceInfo(c) \/ TakeNotice(c)
    BY <1>2, <1>3, <2>1 DEF StepR, TakeDeviceInfo, TakeNotice, deviceVars, restartVars
  <2> QED
    BY <2>1, <1>1, <1>3, WriteNumbers, CallNumbers DEF StepR
<1>4. ASSUME NEW c \in Controllers, Restart(c) \/ TakeReplyR(c) \/ DropRequest(c) PROVE Numbered'
  BY <1>1, <1>4, RestartNumbers
<1>5. ASSUME OthersR PROVE Numbered'
  <2>1. ASSUME NEW k \in Clients, GiveCommand(k) \/ WriteIntent(k) PROVE Same
    BY <2>1, <1>5 DEF OthersR, GiveCommand, WriteIntent, wire, controllerVars, deviceVars, restartVars
  <2>2. ASSUME NEW d \in Devices, SelectorStep(d) PROVE Same
    BY <2>2, <1>5 DEF OthersR, SelectorStep, controllerVars, deviceVars, restartVars
  <2>3. ASSUME NEW d \in Devices, DeviceStep(d) PROVE Numbered'
    BY <2>3, <1>1, <1>5, DeviceNumbers DEF OthersR
  <2> QED
    BY <1>2, <1>5, <2>1, <2>2, <2>3 DEF OthersR
<1>6. CASE UNCHANGED varsR
  BY <1>2, <1>6 DEF varsR, vars, wire, controllerVars, deviceVars, restartVars
<1> QED
  BY <1>3, <1>4, <1>5, <1>6 DEF NextR

(***************************************************************************)
(* A reply to the controller's last process erases the entry of its own    *)
(* request and no other.                                                   *)
(***************************************************************************)
THEOREM RepliesSafe == SpecR => []ReplyErasesOwn
<1>1. InitR => Numbered
  <2> SUFFICES ASSUME InitR PROVE Numbered
    OBVIOUS
  <2>1. [c \in Controllers |-> [s \in Nat |-> NoController]] \in Owners
    BY DEF Owners
  <2>2. LastBase
    BY DEF InitR, Init, LastBase
  <2>3. \A o \in Owners : RequestsOwned(o) /\ WaitsOwned(o)
    BY DEF InitR, Init, RequestsOwned, WaitsOwned
  <2> QED
    BY <2>1, <2>2, <2>3 DEF Numbered
<1>2. LInv /\ Numbered => ReplyErasesOwn
  <2> SUFFICES ASSUME LInv, Numbered, NEW r \in replies, NEW p \in pending[r.mc],
                      r.seq >= Max(bases[r.mc]), Wire(r.mc, p[1]) = Wire(r.mc, r.seq)
               PROVE  p = <<r.seq, r.dev>>
    BY DEF ReplyErasesOwn
  <2> DEFINE c == r.mc
             B == bases[c]
  <2>1. /\ c \in Controllers /\ r.seq \in Nat /\ r.dev \in Devices
        /\ p \in Nat \X Devices /\ B \subseteq Nat
    BY DEF LInv, IInvR, TypeOKR, TypeOK
  <2>2. PICK o \in Owners : RequestsOwned(o) /\ WaitsOwned(o)
    BY DEF Numbered
  <2>3. Max(B) \in B /\ \A b \in B : b <= Max(B)
    <3>1. \E m \in B : \A b \in B : m >= b
      BY <2>1 DEF Numbered, LastBase
    <3>2. Max(B) \in B /\ \A b \in B : Max(B) >= b
      BY <3>1 DEF Max
    <3> QED
      BY <3>2, <2>1
  <2>4. \A b \in B : b <= p[1] /\ b <= r.seq
    BY <2>1, <2>2, <2>3 DEF WaitsOwned
  <2>5. {b \in B : b <= p[1]} = B /\ {b \in B : b <= r.seq} = B
    BY <2>4
  <2>6. p[1] - Max(B) = r.seq - Max(B)
    BY <2>5 DEF Wire
  <2>7. p[1] = r.seq
    BY <2>1, <2>3, <2>6
  <2>8. p[2] = r.dev
    BY <2>1, <2>2, <2>7 DEF WaitsOwned, RequestsOwned
  <2> QED
    BY <2>1, <2>7, <2>8
<1> QED
  BY <1>1, <1>2, InductiveR, InvStep, NumberedStep, PTL DEF SpecR

=============================================================================
