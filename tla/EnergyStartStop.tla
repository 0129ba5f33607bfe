----------------------------- MODULE EnergyStartStop -----------------------------
(***************************************************************************)
(* Starting and stopping power devices: the operator's client writes an    *)
(* intent for each controller, the controller that believes it is the      *)
(* device's master sends it a request, the device obeys the controller it  *)
(* has selected and replies.                                               *)
(*                                                                         *)
(* Each device selects its controller by an ActiveController, which        *)
(* ControllerSelector implements.  The topics are modelled by what their   *)
(* QoS promises (common/QosHelper): reliable, KEEP_LAST(1) per instance,   *)
(* so a sample not yet taken is replaced by the next one of its instance;  *)
(* the Reply topic keeps 128.  A listener takes all there is at once.      *)
(***************************************************************************)
EXTENDS Integers, FiniteSets

CONSTANTS
    Controllers,
    NoController,
    Devices,
    Clients,
    MaxIntents      \* bound: start and stop commands the operators give

ASSUME NoControllerAssumption == NoController \notin Controllers
ASSUME BoundAssumption == MaxIntents \in Nat

Levels == {"operational", "off"}

VARIABLES
    (* what is on the wire: untaken samples in the readers *)
    infos,      \* DeviceInfo, per controller and device
    notices,    \* ActiveMicrogridControllerState, per controller and device
    intents,    \* OperatorIntentRequest, per controller and client
    requests,   \* EnergyStartStopRequest, per device and controller
    replies,    \* Reply
    (* operators' clients *)
    sending,    \* the write loop of send_start_stop_request
    given,      \* number of commands given
    (* controllers *)
    belief,     \* power_devices_: energy level and master of each device
    job,        \* the start_stop_device call the listener thread is in
    seqnum,     \* essr_seqnum_
    pending,    \* pending_essr_
    (* devices *)
    level,      \* essl_
    batch,      \* requests the device's listener has taken and not looked at yet
    handling,   \* the one it has accepted
    selected, announced, phase,    \* the devices' controller selectors
    (* history *)
    chosen,     \* <<d, c>>: device d has chosen controller c at some time
    applied     \* the last request of each controller a device has carried out

wire == <<infos, notices, intents, requests, replies>>
clientVars == <<sending, given>>
controllerVars == <<belief, job, seqnum, pending>>
selectorVars == <<selected, announced, phase>>
deviceVars == <<level, batch, handling>>
history == <<chosen, applied>>
vars == <<wire, clientVars, controllerVars, selectorVars, deviceVars, history>>

Unknown == [level |-> "unknown", master |-> NoController]

Selector(d) == INSTANCE ActiveController WITH
    selected <- selected[d], announced <- announced[d], phase <- phase[d]

Init ==
    /\ infos = Controllers \X Devices
    /\ notices = {} /\ intents = {} /\ requests = {} /\ replies = {}
    /\ sending = [k \in Clients |-> {}]
    /\ given = 0
    /\ belief = [c \in Controllers |-> [d \in Devices |-> Unknown]]
    /\ job = [c \in Controllers |-> {}]
    /\ seqnum = [c \in Controllers |-> 0]
    /\ pending = [c \in Controllers |-> {}]
    /\ level = [d \in Devices |-> "operational"]
    /\ batch = [d \in Devices |-> {}]
    /\ handling = [d \in Devices |-> {}]
    /\ selected = [d \in Devices |-> NoController]
    /\ announced = [d \in Devices |-> NoController]
    /\ phase = [d \in Devices |-> "searching"]
    /\ chosen = {}
    /\ applied = [d \in Devices |-> [c \in Controllers |-> -1]]

-----------------------------------------------------------------------------
(* The operator's client. *)

\* One intent for each controller the client knows and takes for available.
GiveCommand(k) ==
    /\ given < MaxIntents
    /\ sending[k] = {}
    /\ \E d \in Devices, l \in Levels, to \in SUBSET Controllers \ {{}} :
          sending' = [sending EXCEPT ![k] = [to : to, dev : {d}, level : {l}]]
    /\ given' = given + 1
    /\ UNCHANGED <<wire, controllerVars, selectorVars, deviceVars, history>>

\* All the client's intents are one instance of the topic, keyed by the client.
WriteIntent(k) ==
    \E i \in sending[k] :
       /\ intents' = {j \in intents : j.client # k}
                        \cup {[client |-> k, reader |-> c, intent |-> i] : c \in Controllers}
       /\ sending' = [sending EXCEPT ![k] = @ \ {i}]
       /\ UNCHANGED <<infos, notices, requests, replies, given,
                      controllerVars, selectorVars, deviceVars, history>>

-----------------------------------------------------------------------------
(* The device's selector, as the controllers see it. *)

\* The announcement is written when the choice changed what was announced.
SelectorStep(d) ==
    \E s, a \in Controllers \cup {NoController}, p \in {"searching", "watching", "suspecting"} :
       /\ selected' = [selected EXCEPT ![d] = s]
       /\ announced' = [announced EXCEPT ![d] = a]
       /\ phase' = [phase EXCEPT ![d] = p]
       /\ Selector(d)!Next
       /\ chosen' = IF s = NoController THEN chosen ELSE chosen \cup {<<d, s>>}
       /\ notices' = IF s # selected[d] /\ s # NoController /\ s = a
                     THEN {n \in notices : n.dev # d}
                             \cup {[reader |-> c, dev |-> d, master |-> a] : c \in Controllers}
                     ELSE notices
       /\ UNCHANGED <<infos, intents, requests, replies, clientVars, controllerVars,
                      deviceVars, applied>>

-----------------------------------------------------------------------------
(* The controller's listeners. *)

\* insert does not replace an entry.
TakeDeviceInfo(c) ==
    \E d \in Devices :
       /\ <<c, d>> \in infos
       /\ infos' = infos \ {<<c, d>>}
       /\ belief' = IF belief[c][d] = Unknown
                    THEN [belief EXCEPT ![c][d] = [level |-> "operational",
                                                   master |-> NoController]]
                    ELSE belief
       /\ UNCHANGED <<notices, intents, requests, replies, clientVars, job, seqnum, pending,
                      selectorVars, deviceVars, history>>

\* The master of a device without a DeviceInfo is not recorded.
SetActiveController_M(c, d, m) == [belief EXCEPT ![c][d].master = c]

SetActiveController(c, d, m) ==
    IF belief[c][d] = Unknown THEN belief ELSE [belief EXCEPT ![c][d].master = m]

TakeNotice(c) ==
    \E n \in notices :
       /\ n.reader = c
       /\ notices' = notices \ {n}
       /\ belief' = SetActiveController(c, n.dev, n.master)
       /\ UNCHANGED <<infos, intents, requests, replies, clientVars, job, seqnum, pending,
                      selectorVars, deviceVars, history>>

UpdateEssl(c, d, l) == [belief EXCEPT ![c][d].level = l]

\* What start_stop_device decides, on a copy of the controller's devices.
Decide(c, d, l) ==
    IF belief[c][d].level \in {"unknown", l} THEN {}
    ELSE {[dev |-> d, level |-> l, seq |-> seqnum[c],
           step |-> IF belief[c][d].master = c THEN "write" ELSE "local"]}

\* The listener keeps the last intent addressed to it and drops the others.
TakeIntents(c) ==
    LET taken == {i \in intents : i.reader = c}
        mine == {i \in taken : i.intent.to = c}
    IN /\ job[c] = {}
       /\ taken # {}
       /\ intents' = intents \ taken
       /\ \/ mine = {} /\ UNCHANGED job
          \/ \E i \in mine : job' = [job EXCEPT ![c] = Decide(c, i.intent.dev, i.intent.level)]
       /\ UNCHANGED <<infos, notices, requests, replies, clientVars, belief, seqnum, pending,
                      selectorVars, deviceVars, history>>

UpdateLocally(c) ==
    \E j \in job[c] :
       /\ j.step = "local"
       /\ belief' = UpdateEssl(c, j.dev, j.level)
       /\ job' = [job EXCEPT ![c] = {}]
       /\ UNCHANGED <<wire, clientVars, seqnum, pending, selectorVars, deviceVars, history>>

\* The sequence number is that of the request before.
WriteRequest_M(c) ==
    \E j \in job[c] :
       /\ j.step = "write"
       /\ requests' = {r \in requests : r.mc # c \/ r.dev # j.dev}
                          \cup {[mc |-> c, dev |-> j.dev, seq |-> j.seq, level |-> j.level]}
       /\ job' = [job EXCEPT ![c] = {[j EXCEPT !.step = "update"]}]
       /\ UNCHANGED <<infos, notices, intents, replies, clientVars, belief, seqnum, pending,
                      selectorVars, deviceVars, history>>

\* After a write that fails the sequence number is used up and nothing else done.
WriteRequest(c) ==
    \E j \in job[c] :
       /\ j.step = "write"
       /\ seqnum' = [seqnum EXCEPT ![c] = @ + 1]
       /\ \/ /\ requests' = {r \in requests : r.mc # c \/ r.dev # j.dev}
                               \cup {[mc |-> c, dev |-> j.dev, seq |-> j.seq, level |-> j.level]}
             /\ job' = [job EXCEPT ![c] = {[j EXCEPT !.step = "update"]}]
          \/ /\ job' = [job EXCEPT ![c] = {}]
             /\ UNCHANGED requests
       /\ UNCHANGED <<infos, notices, intents, replies, clientVars, belief, pending,
                      selectorVars, deviceVars, history>>

UpdateAfterWrite(c) ==
    \E j \in job[c] :
       /\ j.step = "update"
       /\ belief' = UpdateEssl(c, j.dev, j.level)
       /\ job' = [job EXCEPT ![c] = {[j EXCEPT !.step = "insert"]}]
       /\ UNCHANGED <<wire, clientVars, seqnum, pending, selectorVars, deviceVars, history>>

InsertPending(c) ==
    \E j \in job[c] :
       /\ j.step = "insert"
       /\ pending' = [pending EXCEPT ![c] = @ \cup {<<j.seq, j.dev>>}]
       /\ job' = [job EXCEPT ![c] = {}]
       /\ UNCHANGED <<wire, clientVars, belief, seqnum, selectorVars, deviceVars, history>>

TakeReply(c) ==
    \E r \in replies :
       /\ r.mc = c
       /\ replies' = replies \ {r}
       /\ pending' = [pending EXCEPT ![c] = {p \in @ : p[1] # r.seq}]
       /\ UNCHANGED <<infos, notices, intents, requests, clientVars, belief, job, seqnum,
                      selectorVars, deviceVars, history>>

-----------------------------------------------------------------------------
(* The device's listener. *)

RequestsFor(d) == {r \in requests : r.dev = d}

\* The listener does not wait for the request it has accepted before.
TakeRequests_M(d) ==
    /\ batch[d] = {}
    /\ RequestsFor(d) # {}
    /\ requests' = requests \ RequestsFor(d)
    /\ batch' = [batch EXCEPT ![d] = RequestsFor(d)]
    /\ UNCHANGED <<infos, notices, intents, replies, clientVars, controllerVars, selectorVars,
                   level, handling, history>>

TakeRequests(d) ==
    /\ batch[d] = {} /\ handling[d] = {}
    /\ RequestsFor(d) # {}
    /\ requests' = requests \ RequestsFor(d)
    /\ batch' = [batch EXCEPT ![d] = RequestsFor(d)]
    /\ UNCHANGED <<infos, notices, intents, replies, clientVars, controllerVars, selectorVars,
                   level, handling, history>>

\* A request from another controller ends the loop.
CheckRequest_M(d) ==
    \E r \in batch[d] :
       /\ batch' = [batch EXCEPT ![d] = {}]
       /\ handling' = [handling EXCEPT ![d] = IF r.mc = selected[d] THEN @ \cup {r} ELSE @]
       /\ UNCHANGED <<wire, clientVars, controllerVars, selectorVars, level, history>>

\* The loop ends at the first request whose sender is selected at that moment.
CheckRequest(d) ==
    \E r \in batch[d] :
       /\ IF r.mc = selected[d]
          THEN /\ batch' = [batch EXCEPT ![d] = {}]
               /\ handling' = [handling EXCEPT ![d] = @ \cup {r}]
          ELSE /\ batch' = [batch EXCEPT ![d] = @ \ {r}]
               /\ UNCHANGED handling
       /\ UNCHANGED <<wire, clientVars, controllerVars, selectorVars, level, history>>

\* The new level, then the reply, whose write may fail.
CarryOut(d) ==
    \E r \in handling[d] :
       /\ level' = [level EXCEPT ![d] = r.level]
       /\ applied' = [applied EXCEPT ![d][r.mc] = r.seq]
       /\ replies' \in {replies, replies \cup {[mc |-> r.mc, dev |-> d, seq |-> r.seq]}}
       /\ handling' = [handling EXCEPT ![d] = @ \ {r}]
       /\ UNCHANGED batch
       /\ UNCHANGED <<infos, notices, intents, requests, clientVars, controllerVars,
                      selectorVars, chosen>>

-----------------------------------------------------------------------------
ControllerStep(c) ==
    \/ TakeDeviceInfo(c) \/ TakeNotice(c) \/ TakeIntents(c) \/ TakeReply(c)
    \/ UpdateLocally(c) \/ WriteRequest(c) \/ UpdateAfterWrite(c) \/ InsertPending(c)

DeviceStep(d) == TakeRequests(d) \/ CheckRequest(d) \/ CarryOut(d)

Next ==
    \/ \E k \in Clients : GiveCommand(k) \/ WriteIntent(k)
    \/ \E c \in Controllers : ControllerStep(c)
    \/ \E d \in Devices : SelectorStep(d) \/ DeviceStep(d)

(***************************************************************************)
(* The samples DDS has delivered to a device are taken, and the listener's *)
(* loop goes on to its end.  Nobody else owes anything.                    *)
(***************************************************************************)
Fairness == \A d \in Devices : WF_vars(DeviceStep(d))

Spec == Init /\ [][Next]_vars /\ Fairness

-----------------------------------------------------------------------------
Intent == [to : Controllers, dev : Devices, level : Levels]
Request == [mc : Controllers, dev : Devices, seq : Nat, level : Levels]
Job == [dev : Devices, level : Levels, seq : Nat, step : {"local", "write", "update", "insert"}]

TypeOK ==
    /\ infos \subseteq Controllers \X Devices
    /\ notices \subseteq [reader : Controllers, dev : Devices, master : Controllers]
    /\ intents \subseteq [client : Clients, reader : Controllers, intent : Intent]
    /\ requests \subseteq Request
    /\ replies \subseteq [mc : Controllers, dev : Devices, seq : Nat]
    /\ sending \in [Clients -> SUBSET Intent]
    /\ given \in 0..MaxIntents
    /\ belief \in [Controllers -> [Devices -> [level : Levels \cup {"unknown"},
                                               master : Controllers \cup {NoController}]]]
    /\ job \in [Controllers -> SUBSET Job]
    /\ seqnum \in [Controllers -> Nat]
    /\ pending \in [Controllers -> SUBSET (Nat \X Devices)]
    /\ level \in [Devices -> Levels]
    /\ batch \in [Devices -> SUBSET Request]
    /\ handling \in [Devices -> SUBSET Request]
    /\ selected \in [Devices -> Controllers \cup {NoController}]
    /\ announced \in [Devices -> Controllers \cup {NoController}]
    /\ phase \in [Devices -> {"searching", "watching", "suspecting"}]
    /\ chosen \subseteq Devices \X Controllers
    /\ applied \in [Devices -> [Controllers -> Nat \cup {-1}]]

(***************************************************************************)
(* A controller sends requests only to devices that have chosen it at some *)
(* time, however late and out of order it learns of their choices.         *)
(***************************************************************************)
CommandsOnlyByChosen ==
    \A r \in requests : <<r.dev, r.mc>> \in chosen

(***************************************************************************)
(* A device never goes back to an older request of the same controller:    *)
(* start and stop given in a row leave it in the state asked for last.     *)
(***************************************************************************)
ForwardOnly ==
    \A d \in Devices, c \in Controllers :
        applied'[d][c] # applied[d][c] => applied'[d][c] > applied[d][c]

AppliesInOrder == [][ForwardOnly]_vars

(***************************************************************************)
(* A request of the selected controller is carried out, or a later one of  *)
(* it is, unless the device leaves that controller first.                  *)
(***************************************************************************)
RequestCarriedOut ==
    \A d \in Devices, c \in Controllers, s \in 0..(MaxIntents - 1) :
        (\E r \in requests : r.dev = d /\ r.mc = c /\ r.seq = s)
            ~> (applied[d][c] >= s \/ selected[d] # c)

(***************************************************************************)
(* What RequestCarriedOut rests on: a request that has come to a device is *)
(* with its reader or listener until it is carried out or a later one of   *)
(* its controller takes its place, unless it is looked at while the device *)
(* follows another controller, whatever else is in the batch it is in.     *)
(***************************************************************************)
Held(d) == RequestsFor(d) \cup batch[d] \cup handling[d]

PassedOn ==
    \A d \in Devices : \A r \in Held(d) :
        r.mc = selected[d] =>
            \/ r \in Held(d)'
            \/ applied'[d][r.mc] = r.seq
            \/ \E q \in Held(d)' : q.mc = r.mc /\ q.seq > r.seq

RequestsPassedOn == [][PassedOn]_vars

(***************************************************************************)
(* The inductive invariant behind CommandsOnlyByChosen and AppliesInOrder: *)
(* whatever names a controller as a device's master was written after the  *)
(* device chose it, and the requests of one controller pass through reader,*)
(* batch and handling in the order of their sequence numbers.              *)
(***************************************************************************)
MastersWereChosen ==
    /\ \A n \in notices : <<n.dev, n.master>> \in chosen
    /\ \A c \in Controllers, d \in Devices :
          belief[c][d].master # NoController => <<d, belief[c][d].master>> \in chosen
    /\ \A c \in Controllers : \A j \in job[c] : j.step = "write" => <<j.dev, c>> \in chosen
    /\ CommandsOnlyByChosen

InOrder ==
    /\ \A c \in Controllers : \A j \in job[c] : j.step = "write" => j.seq = seqnum[c]
    /\ \A r \in requests : r.seq < seqnum[r.mc] /\ applied[r.dev][r.mc] < r.seq
    /\ \A d \in Devices : \A r \in batch[d] \cup handling[d] :
          /\ r.dev = d
          /\ r.seq < seqnum[r.mc] /\ applied[d][r.mc] < r.seq
          /\ \A q \in requests : q.dev = d /\ q.mc = r.mc => r.seq < q.seq
    /\ \A d \in Devices : batch[d] = {} \/ handling[d] = {}
    /\ \A d \in Devices : \A q, r \in handling[d] : q = r
    /\ \A d \in Devices, c \in Controllers : applied[d][c] < seqnum[c]

\* The two parts and the types, which are inductive together.
IInv == TypeOK /\ MastersWereChosen /\ InOrder

\* The reader keeps one sample per controller: behind RequestsPassedOn.
OnePerController ==
    \A d \in Devices : /\ \A q, r \in RequestsFor(d) : q.mc = r.mc => q = r
                       /\ \A q, r \in batch[d] : q.mc = r.mc => q = r

=============================================================================
