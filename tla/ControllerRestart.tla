---------------------------- MODULE ControllerRestart ----------------------------
(***************************************************************************)
(* EnergyStartStop with controllers that exit or crash and are started     *)
(* again with the same id.  A new process knows no devices, numbers its    *)
(* requests from 0 and waits for no reply; devices still name it as their  *)
(* controller, and its last requests may still be with them.               *)
(*                                                                         *)
(* The numbers in requests, pending entries and replies go on from one     *)
(* process to the next here, so that the order of requests can be stated   *)
(* over restarts; Wire is the number the process really sends.             *)
(***************************************************************************)
EXTENDS EnergyStartStop, FiniteSetsExt, TopicQos

CONSTANT MaxRestarts    \* bound: restarts of controllers

ASSUME RestartAssumption == MaxRestarts \in Nat

VARIABLES
    bases,      \* the numbers at which a process of the controller began
    restarts    \* number of restarts

restartVars == <<bases, restarts>>
varsR == <<vars, restartVars>>

InitR ==
    /\ Init
    /\ bases = [c \in Controllers |-> {0}]
    /\ restarts = 0

\* essr_seqnum_ starts at 0 in each process.
Wire(c, s) == s - Max({b \in bases[c] : b <= s})

(***************************************************************************)
(* The readers of the new process start empty, then receive what           *)
(* transient-local writers retain.  The old process's writer disposes its  *)
(* untaken requests if it still can.                                       *)
(***************************************************************************)
Restart(c) ==
    /\ restarts < MaxRestarts
    /\ restarts' = restarts + 1
    /\ bases' = [bases EXCEPT ![c] = @ \cup {seqnum[c]}]
    /\ belief' = [belief EXCEPT ![c] = [d \in Devices |-> Unknown]]
    /\ job' = [job EXCEPT ![c] = {}]
    /\ pending' = [pending EXCEPT ![c] = {}]
    /\ infos' = {i \in infos : i[1] # c} \cup Retained("DeviceInfo", {c} \X Devices)
    /\ notices' = {n \in notices : n.reader # c} \cup
                     Retained("ActiveMicrogridControllerState",
                        {[reader |-> c, dev |-> d, master |-> announced[d]] :
                            d \in {e \in Devices : announced[e] # NoController}})
    /\ intents' = {i \in intents : i.reader # c}
    /\ replies' = {r \in replies : r.mc # c}
    /\ requests' \in {requests, {r \in requests : r.mc # c}}
    /\ UNCHANGED <<clientVars, seqnum, selectorVars, deviceVars, history>>

\* Until a reader has given up the old process's writer, that one owns the
\* instance and the sample of the new one is dropped.
DropRequest(c) ==
    \E r \in requests :
       /\ r.mc = c /\ bases[c] # {0}
       /\ requests' = requests \ {r}
       /\ UNCHANGED <<infos, notices, intents, replies, clientVars, controllerVars,
                      selectorVars, deviceVars, history, restartVars>>

\* A reply erases the entry of its number, whichever process it answers.
TakeReplyR(c) ==
    \E r \in replies :
       /\ r.mc = c
       /\ replies' = replies \ {r}
       /\ pending' = [pending EXCEPT ![c] = {p \in @ : Wire(c, p[1]) # Wire(c, r.seq)}]
       /\ UNCHANGED <<infos, notices, intents, requests, clientVars, belief, job, seqnum,
                      selectorVars, deviceVars, history, restartVars>>

StepR(c) ==
    /\ \/ TakeDeviceInfo(c) \/ TakeNotice(c) \/ TakeIntents(c)
       \/ UpdateLocally(c) \/ WriteRequest(c) \/ UpdateAfterWrite(c) \/ InsertPending(c)
    /\ UNCHANGED restartVars

OthersR ==
    /\ \/ \E k \in Clients : GiveCommand(k) \/ WriteIntent(k)
       \/ \E d \in Devices : SelectorStep(d) \/ DeviceStep(d)
    /\ UNCHANGED restartVars

NextR ==
    \/ \E c \in Controllers : StepR(c) \/ TakeReplyR(c) \/ Restart(c) \/ DropRequest(c)
    \/ OthersR

SpecR == InitR /\ [][NextR]_varsR

-----------------------------------------------------------------------------
TypeOKR ==
    /\ TypeOK
    /\ bases \in [Controllers -> SUBSET Nat]
    /\ restarts \in 0..MaxRestarts

(***************************************************************************)
(* The invariant of EnergyStartStop survives restarts: what a new process  *)
(* is told of masters was chosen by the devices, and its requests follow   *)
(* those of the old one.                                                   *)
(***************************************************************************)
IInvR == TypeOKR /\ MastersWereChosen /\ InOrder

(***************************************************************************)
(* A controller knows every device or is about to: a restarted one is      *)
(* given the DeviceInfos again.  Its belief of a device's master is never  *)
(* an outdated choice unless an announcement is on its way.                *)
(***************************************************************************)
LearnsAgain ==
    \A c \in Controllers, d \in Devices :
        /\ belief[c][d] = Unknown => <<c, d>> \in infos
        /\ (\A n \in notices : n.reader # c \/ n.dev # d)
              => belief[c][d].master \in {NoController, announced[d]}

(***************************************************************************)
(* What makes both inductive: an announcement on its way is the device's   *)
(* last one, what it announced it has chosen, and a device that searches   *)
(* has no controller.                                                      *)
(***************************************************************************)
Current ==
    /\ \A n \in notices : n.master = announced[n.dev]
    /\ \A d \in Devices : announced[d] # NoController => <<d, announced[d]>> \in chosen
    /\ \A d \in Devices : phase[d] = "searching" => selected[d] = NoController

\* Both, with what makes them inductive.
LInv == IInvR /\ LearnsAgain /\ Current

(***************************************************************************)
(* A device never goes back to an older request of the same controller,    *)
(* whichever of the controller's processes sent it.                        *)
(***************************************************************************)
AppliesInOrderR == [][ForwardOnly]_varsR

(***************************************************************************)
(* "The requestingDeviceId and requestSequenceId uniquely match the reply  *)
(* code to the original request" (Reply in the data model): a reply erases *)
(* the entry of its own request and no other, unless the request is of a   *)
(* former process of the controller.                                       *)
(***************************************************************************)
ReplyErasesOwn ==
    \A r \in replies : \A p \in pending[r.mc] :
        /\ r.seq >= Max(bases[r.mc])
        /\ Wire(r.mc, p[1]) = Wire(r.mc, r.seq)
        => p = <<r.seq, r.dev>>

=============================================================================
