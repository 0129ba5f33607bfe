---------------------------- MODULE PowerFlowProofs ----------------------------
(***************************************************************************)
(* Proofs about the power flow (PowerFlow), for any number of operators,   *)
(* controllers and devices: current flows only through cables some operator*)
(* has laid, a source that is turned off goes quiet and waits only for what*)
(* has not come, and the two ends of a cable agree.                        *)
(***************************************************************************)
EXTENDS PowerFlow, TLAPS

(***************************************************************************)
(* What a topology says of a device's neighbours is true of its cables.    *)
(***************************************************************************)
LEMMA NeighboursCabled ==
    ASSUME NEW L, L \subseteq cables, NEW d \in Devices
    PROVE  Neighbours(L, d) \subseteq Devices /\ Cabled(d, Neighbours(L, d))
BY DEF Neighbours, Cabled

(***************************************************************************)
(* A sender that is cabled to all it sends to, and is not a load, leaves   *)
(* only current that follows cables.                                       *)
(***************************************************************************)
LEMMA SendEffect ==
    ASSUME NEW from \in Devices \ Loads, NEW to \in SUBSET (Devices \cup {NoDevice}),
           \A d \in to \cap Devices : {from, d} \in cables,
           current \in [Distributions \cup Loads -> SUBSET Devices],
           FlowFollowsCables, Send(from, to, current), cables' = cables
    PROVE  /\ current' \in [Distributions \cup Loads -> SUBSET Devices]
           /\ FlowFollowsCables'
<1>1. PICK received \in SUBSET (to \cap (Distributions \cup Loads)) :
         current' = [d \in Distributions \cup Loads |->
                        IF d \in received THEN {from} ELSE current[d]]
  BY DEF Send
<1>2. current' \in [Distributions \cup Loads -> SUBSET Devices]
  BY <1>1
<1>3. ASSUME NEW d \in Distributions \cup Loads, NEW f \in current'[d]
      PROVE  {f, d} \in cables /\ f \notin Loads
  BY <1>1, <1>3 DEF FlowFollowsCables, Devices
<1> QED
  BY <1>2, <1>3 DEF FlowFollowsCables

LEMMA InitFlowInv ==
    ASSUME Init
    PROVE  FlowInv
<1>1. TypeOK
  <2>1. sent \in 0..MaxTopologies /\ switches \in 0..MaxSwitches
    BY BoundsAssumption DEF Init
  <2>2. /\ links \in [Clients -> SUBSET Cables]
        /\ topology \in [Controllers -> SUBSET SUBSET Cables]
        /\ relaying \in [Controllers -> SUBSET [links : SUBSET Cables, todo : SUBSET Devices]]
    BY DEF Init
  <2>3. /\ connection \in [Devices -> SUBSET SUBSET Devices]
        /\ inPorts \in [Devices -> SUBSET Devices]
        /\ outPorts \in [Devices -> SUBSET Devices]
        /\ current \in [Distributions \cup Loads -> SUBSET Devices]
    BY DEF Init
  <2>4. /\ level \in [Sources \cup Distributions -> {"operational", "off"}]
        /\ thread \in [Sources -> {"connect", "unconnected", "level", "asleep", "check", "write"}]
        /\ target \in [Sources -> Devices \cup {NoDevice}]
        /\ late \in [Sources -> Nat]
    BY DEF Init
  <2> QED
    BY <2>1, <2>2, <2>3, <2>4 DEF Init, TypeOK
<1>2. NeighboursAreCabled
  BY DEF Init, NeighboursAreCabled, Cabled
<1>3. FlowFollowsCables
  BY DEF Init, FlowFollowsCables
<1> QED
  BY <1>1, <1>2, <1>3 DEF FlowInv

-----------------------------------------------------------------------------
(* Each kind of step preserves the invariant. *)

LEMMA ConnectStep ==
    ASSUME FlowInv, NEW k \in Clients, ConnectPowerDevices(k)
    PROVE  FlowInv'
<1> USE DEF FlowInv, TypeOK
<1>1. PICK L \in SUBSET Cables, c \in Controllers :
         /\ sent < MaxTopologies
         /\ links' = [links EXCEPT ![k] = L]
         /\ sent' = sent + 1
         /\ \/ /\ topology' = [topology EXCEPT ![c] = {L}]
               /\ cables' = cables \cup L
            \/ UNCHANGED <<topology, cables>>
         /\ UNCHANGED <<relaying, failed, portVars, levelVars, sourceVars, currentVars>>
  BY DEF ConnectPowerDevices
<1> USE DEF portVars, levelVars, sourceVars, currentVars
<1>2. cables \subseteq cables' /\ cables' \subseteq Cables
  BY <1>1
<1>3. TypeOK'
  BY <1>1, <1>2, BoundsAssumption
<1>4. ASSUME NEW b \in Controllers, NEW M \in topology'[b]
      PROVE  M \subseteq cables'
  BY <1>1, <1>2, <1>4 DEF NeighboursAreCabled
<1>5. NeighboursAreCabled'
  <2>1. \A b \in Controllers : \A r \in relaying'[b] : r.links \subseteq cables'
    BY <1>1, <1>2 DEF NeighboursAreCabled
  <2>2. /\ \A d \in Devices : \A e \in outPorts'[d] : {d, e} \in cables'
        /\ \A s \in Sources : target'[s] # NoDevice => {s, target'[s]} \in cables'
    BY <1>1, <1>2 DEF NeighboursAreCabled, Cabled
  <2>3. \A d \in Devices : \A N \in connection'[d] : \A e \in N : {d, e} \in cables'
    BY <1>1, <1>2 DEF NeighboursAreCabled, Cabled
  <2> QED
    BY <1>4, <2>1, <2>2, <2>3 DEF NeighboursAreCabled, Cabled
<1>6. FlowFollowsCables'
  BY <1>1, <1>2 DEF FlowFollowsCables
<1> QED
  BY <1>3, <1>5, <1>6

\* A controller passes on what the topology says, device by device.
LEMMA ControllerStep ==
    ASSUME FlowInv, NEW c \in Controllers, TakeTopology(c) \/ RelayConnection(c)
    PROVE  FlowInv'
<1> USE DEF FlowInv, TypeOK, levelVars, sourceVars, currentVars, portVars
<1>1. CASE TakeTopology(c)
  <2>1. PICK L \in topology[c] :
           /\ topology' = [topology EXCEPT ![c] = {}]
           /\ relaying' = [relaying EXCEPT ![c] = {[links |-> L, todo |-> UNION L]}]
           /\ UNCHANGED <<links, sent, cables, failed, portVars, levelVars, sourceVars, currentVars>>
    BY <1>1 DEF TakeTopology
  <2>2. L \subseteq cables /\ L \subseteq Cables /\ UNION L \subseteq Devices
    BY <2>1 DEF NeighboursAreCabled, Cables
  <2>3. TypeOK'
    BY <2>1, <2>2
  <2>4. NeighboursAreCabled'
    BY <2>1, <2>2 DEF NeighboursAreCabled, Cabled
  <2>5. FlowFollowsCables'
    BY <2>1 DEF FlowFollowsCables
  <2> QED
    BY <2>3, <2>4, <2>5
<1>2. CASE RelayConnection(c)
  <2>1. PICK r \in relaying[c] :
           /\ \/ /\ r.todo = {}
                 /\ relaying' = [relaying EXCEPT ![c] = {}]
                 /\ UNCHANGED <<connection, failed>>
              \/ \E d \in r.todo :
                    /\ connection' = [connection EXCEPT ![d] = {Neighbours(r.links, d)}]
                    /\ relaying' = [relaying EXCEPT ![c] = {[r EXCEPT !.todo = @ \ {d}]}]
                    /\ UNCHANGED failed
              \/ /\ r.todo # {}
                 /\ relaying' = [relaying EXCEPT ![c] = {}]
                 /\ failed' = TRUE
                 /\ UNCHANGED connection
           /\ UNCHANGED <<links, sent, topology, cables, inPorts, outPorts, levelVars,
                          sourceVars, currentVars>>
    BY <1>2 DEF RelayConnection
  <2>2. r \in [links : SUBSET Cables, todo : SUBSET Devices] /\ r.links \subseteq cables
    BY <2>1 DEF NeighboursAreCabled
  <2>3. FlowFollowsCables'
    BY <2>1 DEF FlowFollowsCables
  <2>4. CASE relaying' = [relaying EXCEPT ![c] = {}] /\ UNCHANGED connection
    BY <2>1, <2>3, <2>4, ZenonT(30) DEF NeighboursAreCabled, Cabled
  <2>5. ASSUME NEW d \in r.todo,
               connection' = [connection EXCEPT ![d] = {Neighbours(r.links, d)}],
               relaying' = [relaying EXCEPT ![c] = {[r EXCEPT !.todo = @ \ {d}]}],
               UNCHANGED failed
        PROVE  FlowInv'
    <3>1. /\ d \in Devices
          /\ Neighbours(r.links, d) \subseteq Devices
          /\ Cabled(d, Neighbours(r.links, d))
      BY <2>2, NeighboursCabled
    <3>2. [r EXCEPT !.todo = @ \ {d}] \in [links : SUBSET Cables, todo : SUBSET Devices]
          /\ [r EXCEPT !.todo = @ \ {d}].links = r.links
      BY <2>2
    <3>3. TypeOK'
      BY <2>1, <2>5, <3>1, <3>2
    <3>4. NeighboursAreCabled'
      <4>1. \A b \in Controllers : \A q \in relaying'[b] : q.links \subseteq cables
        BY <2>2, <2>5, <3>2 DEF NeighboursAreCabled
      <4>2. \A e \in Devices : \A N \in connection'[e] : Cabled(e, N)
        BY <2>5, <3>1 DEF NeighboursAreCabled
      <4> QED
        BY <2>1, <4>1, <4>2 DEF NeighboursAreCabled, Cabled
    <3> QED
      BY <2>3, <3>3, <3>4
  <2> QED
    BY <2>1, <2>4, <2>5
<1> QED
  BY <1>1, <1>2

\* A device replaces its ports by the neighbours it is told of.
LEMMA ConnectionStep ==
    ASSUME FlowInv, NEW d \in Devices, TakeConnection(d)
    PROVE  FlowInv'
<1> USE DEF FlowInv, TypeOK, topologyVars, levelVars, currentVars
<1>1. PICK N \in connection[d] :
         /\ connection' = [connection EXCEPT ![d] = {}]
         /\ ConnectedDevices(d, N)
         /\ UNCHANGED <<topologyVars, levelVars, target, late, currentVars>>
  BY DEF TakeConnection
<1>2. N \subseteq Devices /\ Cabled(d, N)
  BY <1>1 DEF NeighboursAreCabled
<1>3. TypeOK'
  <2>1. inPorts' \in [Devices -> SUBSET Devices] /\ outPorts' \in [Devices -> SUBSET Devices]
    BY <1>1, <1>2 DEF ConnectedDevices
  <2>2. thread' \in [Sources -> {"connect", "unconnected", "level", "asleep", "check", "write"}]
    BY <1>1 DEF ConnectedDevices
  <2> QED
    BY <1>1, <2>1, <2>2
<1>4. ASSUME NEW e \in Devices
      PROVE  Cabled(e, outPorts'[e])
  BY <1>1, <1>2 DEF ConnectedDevices, NeighboursAreCabled, Cabled
<1>5. \A e \in Devices : \A M \in connection'[e] : Cabled(e, M)
  BY <1>1 DEF NeighboursAreCabled
<1>6. NeighboursAreCabled'
  BY <1>1, <1>4, <1>5 DEF NeighboursAreCabled, Cabled
<1>7. FlowFollowsCables'
  BY <1>1 DEF FlowFollowsCables
<1> QED
  BY <1>3, <1>6, <1>7

LEMMA LevelStep ==
    ASSUME FlowInv, NEW d \in Sources \cup Distributions, EnergyLevel(d)
    PROVE  FlowInv'
<1> USE DEF FlowInv, TypeOK, topologyVars, portVars, currentVars
<1>1. TypeOK'
  BY BoundsAssumption DEF EnergyLevel
<1>2. NeighboursAreCabled'
  BY DEF EnergyLevel, NeighboursAreCabled, Cabled
<1>3. FlowFollowsCables'
  BY DEF EnergyLevel, FlowFollowsCables
<1> QED
  BY <1>1, <1>2, <1>3

\* A source sends to a neighbour it has or had.
LEMMA SourceStepInv ==
    ASSUME FlowInv, NEW s \in Sources, SourceStep(s)
    PROVE  FlowInv'
<1> USE DEF FlowInv, TypeOK, topologyVars, portVars, levelVars, currentVars, SourceKeeps
<1>1. CASE WaitForConnections(s)
  <2>1. target' \in [Sources -> Devices \cup {NoDevice}]
    BY <1>1 DEF WaitForConnections, Devices
  <2>2. TypeOK'
    BY <1>1, <2>1 DEF WaitForConnections
  <2>3. \A r \in Sources : target'[r] # NoDevice => {r, target'[r]} \in cables
    BY <1>1 DEF WaitForConnections, NeighboursAreCabled, Cabled, Devices
  <2>4. NeighboursAreCabled'
    BY <1>1, <2>3 DEF WaitForConnections, NeighboursAreCabled, Cabled
  <2> QED
    BY <1>1, <2>2, <2>4 DEF WaitForConnections, FlowFollowsCables
<1>2. CASE WaitForOperational(s) \/ CheckLevel(s)
  <2>1. TypeOK'
    BY <1>2 DEF WaitForOperational, CheckLevel
  <2>2. NeighboursAreCabled' /\ FlowFollowsCables'
    BY <1>2 DEF WaitForOperational, CheckLevel, NeighboursAreCabled, FlowFollowsCables, Cabled
  <2> QED
    BY <2>1, <2>2
<1>3. CASE WriteCurrent(s)
  <2>1. /\ thread' = [thread EXCEPT ![s] = "check"]
        /\ Send(s, {target[s]}, current)
        /\ late' = [late EXCEPT ![s] = IF level[s] = "off" THEN (IF @ < 2 THEN @ + 1 ELSE @) ELSE @]
        /\ UNCHANGED <<target, topologyVars, portVars, levelVars, accepted>>
    BY <1>3 DEF WriteCurrent, WriteThen
  <2>2. s \in Devices \ Loads /\ {target[s]} \in SUBSET (Devices \cup {NoDevice})
    BY RolesAssumption DEF Devices
  <2>3. \A d \in {target[s]} \cap Devices : {s, d} \in cables
    BY RolesAssumption DEF NeighboursAreCabled, Cabled
  <2>4. current' \in [Distributions \cup Loads -> SUBSET Devices] /\ FlowFollowsCables'
    BY <2>1, <2>2, <2>3, SendEffect
  <2>5. late' \in [Sources -> Nat]
    BY <2>1
  <2>6. TypeOK'
    BY <2>1, <2>4, <2>5
  <2>7. NeighboursAreCabled'
    BY <2>1 DEF NeighboursAreCabled, Cabled
  <2> QED
    BY <2>4, <2>6, <2>7
<1> QED
  BY <1>1, <1>2, <1>3 DEF SourceStep

\* A distribution device relays along its out ports.
LEMMA CurrentStepInv ==
    ASSUME FlowInv, NEW d \in Distributions \cup Loads, CurrentStep(d)
    PROVE  FlowInv'
<1> USE DEF FlowInv, TypeOK, topologyVars, portVars, levelVars, sourceVars
<1>1. CASE d \in Distributions /\ TakeCurrent(d)
  <2>1. TypeOK'
    BY <1>1 DEF TakeCurrent
  <2>2. NeighboursAreCabled' /\ FlowFollowsCables'
    BY <1>1 DEF TakeCurrent, NeighboursAreCabled, FlowFollowsCables, Cabled
  <2> QED
    BY <2>1, <2>2
<1>2. CASE d \in Distributions /\ RelayCurrent(d)
  <2>1. d \in Devices \ Loads /\ outPorts[d] \in SUBSET (Devices \cup {NoDevice})
    BY <1>2, RolesAssumption DEF Devices
  <2>2. \A e \in outPorts[d] \cap Devices : {d, e} \in cables
    BY <2>1 DEF NeighboursAreCabled, Cabled
  <2>3. /\ Send(d, outPorts[d], current)
        /\ accepted' = accepted \ {d}
        /\ UNCHANGED <<topologyVars, portVars, levelVars, sourceVars>>
    BY <1>2 DEF RelayCurrent
  <2>4. current' \in [Distributions \cup Loads -> SUBSET Devices] /\ FlowFollowsCables'
    BY <2>1, <2>2, <2>3, SendEffect
  <2>5. TypeOK'
    BY <2>3, <2>4
  <2>6. NeighboursAreCabled'
    BY <2>3 DEF NeighboursAreCabled, Cabled
  <2> QED
    BY <2>4, <2>5, <2>6
<1>3. CASE d \in Loads /\ ConsumeCurrent(d)
  <2>1. TypeOK'
    BY <1>3 DEF ConsumeCurrent
  <2>2. NeighboursAreCabled' /\ FlowFollowsCables'
    BY <1>3 DEF ConsumeCurrent, NeighboursAreCabled, FlowFollowsCables, Cabled
  <2> QED
    BY <2>1, <2>2
<1> QED
  BY <1>1, <1>2, <1>3 DEF CurrentStep

-----------------------------------------------------------------------------
(***************************************************************************)
(* The inductive invariant: everything that tells a device of a neighbour, *)
(* on its way from connect-pd to the device's own lists, stems from a      *)
(* cable.                                                                  *)
(***************************************************************************)
THEOREM FlowInductive == Spec => []FlowInv
<1>1. ASSUME FlowInv, [Next]_vars
      PROVE  FlowInv'
  <2>1. CASE UNCHANGED vars
    BY <1>1, <2>1
       DEF vars, topologyVars, portVars, levelVars, sourceVars, currentVars,
           FlowInv, TypeOK, NeighboursAreCabled, FlowFollowsCables, Cabled
  <2>2. CASE Next
    BY <1>1, <2>2, ConnectStep, ControllerStep, ConnectionStep, LevelStep, SourceStepInv,
       CurrentStepInv DEF Next
  <2> QED
    BY <1>1, <2>1, <2>2
<1> QED
  BY <1>1, InitFlowInv, PTL DEF Spec

(***************************************************************************)
(* Current flows only through cables some operator has laid and never out  *)
(* of a load.                                                              *)
(***************************************************************************)
THEOREM FlowSafe == Spec => []FlowFollowsCables
<1>1. FlowInv => FlowFollowsCables
  BY DEF FlowInv
<1> QED
  BY <1>1, FlowInductive, PTL

-----------------------------------------------------------------------------
(* A source's thread: the wake-ups and the late sample. *)

(***************************************************************************)
(* A device hears of its neighbours: a source that waits for a connection  *)
(* is woken, and a source's late sample stays what it was.                 *)
(***************************************************************************)
LEMMA ConnectionWakes ==
    ASSUME TypeOK, NoLostWakeUp, LateOnce, NEW d \in Devices, TakeConnection(d)
    PROVE  NoLostWakeUp' /\ LateOnce'
<1>1. PICK N \in connection[d] :
         ConnectedDevices(d, N) /\ UNCHANGED <<levelVars, late>>
  BY DEF TakeConnection
<1>2. /\ outPorts' = [outPorts EXCEPT ![d] =
             IF d \in Sources /\ N # {} THEN N
             ELSE IF d \in Distributions THEN @ \cup (N \ Sources) ELSE @]
      /\ thread' = [s \in Sources |->
             IF s = d /\ thread[s] = "unconnected" THEN "connect" ELSE thread[s]]
  BY <1>1 DEF ConnectedDevices
<1>3. NoLostWakeUp'
  BY <1>1, <1>2 DEF TypeOK, NoLostWakeUp, Devices, levelVars
<1>4. LateOnce'
  BY <1>1, <1>2 DEF TypeOK, LateOnce, levelVars
<1> QED
  BY <1>3, <1>4

(***************************************************************************)
(* The level is set: the source that waits for it looks at it again, and   *)
(* what it wrote late is forgotten when the level changes.                 *)
(***************************************************************************)
LEMMA LevelWakes ==
    ASSUME TypeOK, NoLostWakeUp, LateOnce, NEW d \in Sources \cup Distributions, EnergyLevel(d)
    PROVE  NoLostWakeUp' /\ LateOnce'
<1>1. PICK l \in {"operational", "off"} :
         /\ level' = [level EXCEPT ![d] = l]
         /\ late' = [s \in Sources |-> IF s = d /\ l # level[d] THEN 0 ELSE late[s]]
         /\ thread' = [s \in Sources |->
                          IF s = d /\ thread[s] = "asleep" THEN "level" ELSE thread[s]]
         /\ UNCHANGED portVars
  BY DEF EnergyLevel
<1>2. NoLostWakeUp'
  BY <1>1 DEF TypeOK, NoLostWakeUp, portVars
<1>3. LateOnce'
  BY <1>1 DEF TypeOK, LateOnce
<1> QED
  BY <1>2, <1>3

(***************************************************************************)
(* A source's own steps: it goes to sleep only on what it has just read,   *)
(* and returns to the check of its level after each sample.                *)
(***************************************************************************)
LEMMA SourceWakes ==
    ASSUME TypeOK, NoLostWakeUp, LateOnce, NEW s \in Sources, SourceStep(s)
    PROVE  NoLostWakeUp' /\ LateOnce'
<1> USE DEF TypeOK, NoLostWakeUp, LateOnce, portVars, levelVars
<1>1. CASE WaitForConnections(s)
  <2>1. /\ thread[s] = "connect"
        /\ UNCHANGED <<late, portVars, levelVars>>
        /\ \/ outPorts[s] = {} /\ thread' = [thread EXCEPT ![s] = "unconnected"]
           \/ thread' = [thread EXCEPT ![s] = "level"]
    BY <1>1 DEF WaitForConnections, SourceKeeps
  <2> QED
    BY <2>1
<1>2. CASE WaitForOperational(s)
  BY <1>2 DEF WaitForOperational, SourceKeeps
<1>3. CASE CheckLevel(s)
  BY <1>3 DEF CheckLevel, SourceKeeps
<1>4. CASE WriteCurrent(s)
  <2>1. /\ thread[s] = "write"
        /\ thread' = [thread EXCEPT ![s] = "check"]
        /\ late' = [late EXCEPT ![s] = IF level[s] = "off" THEN (IF @ < 2 THEN @ + 1 ELSE @) ELSE @]
        /\ UNCHANGED <<portVars, levelVars>>
    BY <1>4 DEF WriteCurrent, WriteThen
  <2> QED
    BY <2>1
<1> QED
  BY <1>1, <1>2, <1>3, <1>4 DEF SourceStep

\* Switching, connecting and the thread's own steps lose no wake-up.
LEMMA ThreadStep ==
    ASSUME TypeOK, NoLostWakeUp, LateOnce, [Next]_vars
    PROVE  NoLostWakeUp' /\ LateOnce'
<1>1. CASE UNCHANGED <<outPorts, level, thread, late>>
  BY <1>1 DEF NoLostWakeUp, LateOnce
<1>2. CASE UNCHANGED vars
  BY <1>1, <1>2 DEF vars, portVars, levelVars, sourceVars
<1>3. CASE \E k \in Clients : ConnectPowerDevices(k)
  BY <1>1, <1>3 DEF ConnectPowerDevices, portVars, levelVars, sourceVars
<1>4. CASE \E c \in Controllers : TakeTopology(c) \/ RelayConnection(c)
  BY <1>1, <1>4 DEF TakeTopology, RelayConnection, portVars, levelVars, sourceVars
<1>5. CASE \E d \in Distributions \cup Loads : CurrentStep(d)
  BY <1>1, <1>5 DEF CurrentStep, TakeCurrent, RelayCurrent, ConsumeCurrent, portVars, levelVars,
                    sourceVars
<1> QED
  BY <1>2, <1>3, <1>4, <1>5, ConnectionWakes, LevelWakes, SourceWakes DEF Next

(***************************************************************************)
(* Neither wake-up is lost: a source's thread never waits for a connection *)
(* it has, nor for a level it is at.                                       *)
(***************************************************************************)
THEOREM WakeUpsHold == Spec => [](NoLostWakeUp /\ LateOnce)
<1>1. Init => NoLostWakeUp /\ LateOnce
  BY DEF Init, NoLostWakeUp, LateOnce
<1>2. FlowInv /\ (NoLostWakeUp /\ LateOnce) /\ [Next]_vars => (NoLostWakeUp /\ LateOnce)'
  BY ThreadStep DEF FlowInv
<1> QED
  BY <1>1, <1>2, FlowInductive, PTL DEF Spec

(***************************************************************************)
(* A source that is turned off writes at most the one sample it was about  *)
(* to write.                                                               *)
(***************************************************************************)
THEOREM OffSafe == Spec => []OffGoesQuiet
<1>1. LateOnce => OffGoesQuiet
  BY DEF LateOnce, OffGoesQuiet
<1> QED
  BY <1>1, WakeUpsHold, PTL

-----------------------------------------------------------------------------
(* The two ends of a cable: one client, one controller. *)

(***************************************************************************)
(* More cables, more neighbours.                                           *)
(***************************************************************************)
LEMMA NeighboursGrow ==
    ASSUME NEW L, NEW M, L \subseteq M, NEW d
    PROVE  Neighbours(L, d) \subseteq Neighbours(M, d)
BY DEF Neighbours

(***************************************************************************)
(* A device that no cable reaches has no neighbours: the distribution of a *)
(* topology leaves no one out who has any.                                 *)
(***************************************************************************)
LEMMA UncabledAlone ==
    ASSUME NEW L, NEW d \in Devices, d \notin UNION L
    PROVE  Neighbours(L, d) = {}
<1>1. ASSUME NEW e \in Neighbours(L, d)
      PROVE  FALSE
  <2>1. {d, e} \in L /\ d \in {d, e}
    BY <1>1 DEF Neighbours
  <2> QED
    BY <2>1
<1> QED
  BY <1>1

(***************************************************************************)
(* connect-pd gives the controller a topology with all earlier cables, or  *)
(* none at all.                                                            *)
(***************************************************************************)
LEMMA RouteConnect ==
    ASSUME TypeOK, OneRoute, RouteInv, NEW k \in Clients, ConnectPowerDevices(k)
    PROVE  RouteInv'
<1>1. PICK L \in SUBSET Cables, c \in Controllers :
         /\ links[k] \subseteq L
         /\ links' = [links EXCEPT ![k] = L]
         /\ \/ /\ topology' = [topology EXCEPT ![c] = {L}]
               /\ cables' = cables \cup L
            \/ UNCHANGED <<topology, cables>>
         /\ UNCHANGED <<relaying, failed, connection, inPorts, outPorts>>
  BY DEF ConnectPowerDevices, portVars
<1>2. Clients = {k} /\ Controllers = {c}
  BY <1>1 DEF OneRoute
<1>3. GrowsAlongTheRoute /\ \A d \in Devices : Informed(d)
  BY DEF RouteInv
<1>4. cables \subseteq L /\ links'[k] = L
  BY <1>1, <1>3 DEF GrowsAlongTheRoute, TypeOK
<1>5. CASE topology' = [topology EXCEPT ![c] = {L}] /\ cables' = cables \cup L
  <2>1. cables' = L /\ topology'[c] = {L}
    BY <1>2, <1>4, <1>5 DEF TypeOK
  <2>2. \A d \in Devices : Neighbours(cables, d) \subseteq Neighbours(cables', d)
    BY <1>4, <2>1, NeighboursGrow
  <2>3. GrowsAlongTheRoute'
    <3>1. /\ \A j \in Clients : cables' \subseteq links'[j]
          /\ \A b \in Controllers : \A M \in topology'[b] : M = cables'
          /\ \A b \in Controllers : topology'[b] # {}
      BY <1>2, <1>4, <2>1
    <3>2. /\ \A d \in Devices : Known(d)' \subseteq Neighbours(cables', d)
          /\ \A d \in Devices : \A N \in connection'[d] : N \subseteq Neighbours(cables', d)
      BY <1>1, <1>3, <2>2 DEF GrowsAlongTheRoute, Known
    <3> QED
      BY <1>1, <1>3, <3>1, <3>2 DEF GrowsAlongTheRoute, Known
  <2>4. \A d \in Devices : Informed(d)'
    BY <2>1 DEF Informed
  <2> QED
    BY <2>3, <2>4 DEF RouteInv
<1>6. CASE UNCHANGED <<topology, cables>>
  <2>1. GrowsAlongTheRoute'
    BY <1>1, <1>2, <1>3, <1>4, <1>6 DEF GrowsAlongTheRoute, Known
  <2>2. \A d \in Devices : Informed(d)'
    BY <1>1, <1>3, <1>6 DEF Informed, Known
  <2> QED
    BY <2>1, <2>2 DEF RouteInv
<1> QED
  BY <1>1, <1>5, <1>6

(***************************************************************************)
(* The controller takes the latest topology only when it has finished with *)
(* the one before, and from then on owes every cabled device a connection. *)
(***************************************************************************)
LEMMA RouteTopology ==
    ASSUME TypeOK, OneRoute, RouteInv, NEW c \in Controllers, TakeTopology(c)
    PROVE  RouteInv'
<1>1. PICK L \in topology[c] :
         /\ topology' = [topology EXCEPT ![c] = {}]
         /\ relaying' = [relaying EXCEPT ![c] = {[links |-> L, todo |-> UNION L]}]
         /\ UNCHANGED <<links, cables, failed, connection, inPorts, outPorts>>
  BY DEF TakeTopology, portVars
<1>2. GrowsAlongTheRoute
  BY DEF RouteInv
<1>3. L = cables /\ Controllers = {c}
  BY <1>1, <1>2 DEF GrowsAlongTheRoute, OneRoute
<1> DEFINE r == [links |-> cables, todo |-> UNION cables]
<1>4. /\ topology'[c] = {}
      /\ relaying'[c] = {r}
      /\ r.links = cables
      /\ r.todo = UNION cables
  BY <1>1, <1>3 DEF TypeOK
<1>5. GrowsAlongTheRoute'
  <2>1. \A b \in Controllers : \A M \in topology'[b] : M = cables'
    BY <1>3, <1>4
  <2>2. \A b \in Controllers : \A q \in relaying'[b] :
          /\ relaying'[b] = {q}
          /\ q.links = cables'
    BY <1>1, <1>3, <1>4
  <2>3. \A k \in Clients : cables' \subseteq links'[k]
    BY <1>1, <1>2 DEF GrowsAlongTheRoute
  <2>4. \A d \in Devices : \A N \in connection'[d] :
          /\ connection'[d] = {N}
          /\ Known(d)' \subseteq N
          /\ N \subseteq Neighbours(cables', d)
    BY <1>1, <1>2 DEF GrowsAlongTheRoute, Known
  <2>5. \A d \in Devices : Known(d)' \subseteq Neighbours(cables', d)
    BY <1>1, <1>2 DEF GrowsAlongTheRoute, Known
  <2> QED
    BY <2>1, <2>2, <2>3, <2>4, <2>5 DEF GrowsAlongTheRoute
<1>6. ASSUME NEW d \in Devices
      PROVE  Informed(d)'
  <2>1. CASE d \in UNION cables
    BY <1>4, <2>1 DEF Informed
  <2>2. CASE d \notin UNION cables
    <3>1. Neighbours(cables, d) = {} /\ Known(d) \subseteq Neighbours(cables, d)
      BY <1>2, <2>2, UncabledAlone DEF GrowsAlongTheRoute
    <3>2. Known(d)' = Neighbours(cables', d)
      BY <1>1, <3>1 DEF Known
    <3> QED
      BY <3>2 DEF Informed
  <2> QED
    BY <2>1, <2>2
<1> QED
  BY <1>5, <1>6 DEF RouteInv

(***************************************************************************)
(* A connection written to a device replaces one that said no more, and    *)
(* the device written to is informed unless a later topology is to come.   *)
(***************************************************************************)
LEMMA RouteRelay ==
    ASSUME FlowInv, OneRoute, RouteInv, NEW c \in Controllers, RelayConnection(c)
    PROVE  RouteInv'
<1> USE DEF FlowInv
<1>1. PICK r \in relaying[c] :
         /\ \/ /\ r.todo = {}
               /\ relaying' = [relaying EXCEPT ![c] = {}]
               /\ UNCHANGED <<connection, failed>>
            \/ \E d \in r.todo :
                  /\ connection' = [connection EXCEPT ![d] = {Neighbours(r.links, d)}]
                  /\ relaying' = [relaying EXCEPT ![c] = {[r EXCEPT !.todo = @ \ {d}]}]
                  /\ UNCHANGED failed
            \/ /\ r.todo # {}
               /\ relaying' = [relaying EXCEPT ![c] = {}]
               /\ failed' = TRUE
               /\ UNCHANGED connection
         /\ UNCHANGED <<links, topology, cables, inPorts, outPorts>>
  BY DEF RelayConnection
<1>2. GrowsAlongTheRoute /\ \A d \in Devices : Informed(d)
  BY DEF RouteInv
<1>3. /\ Controllers = {c}
      /\ relaying[c] = {r}
      /\ r \in [links : SUBSET Cables, todo : SUBSET Devices]
      /\ topology[c] = {} => r.links = cables
  BY <1>1, <1>2 DEF GrowsAlongTheRoute, OneRoute, TypeOK
<1>4. ASSUME relaying' = [relaying EXCEPT ![c] = {}], UNCHANGED connection,
             (r.todo = {} /\ UNCHANGED failed) \/ failed' = TRUE
      PROVE  RouteInv'
  <2>1. relaying'[c] = {}
    BY <1>4 DEF TypeOK
  <2>2. GrowsAlongTheRoute'
    BY <1>1, <1>2, <1>3, <1>4, <2>1 DEF GrowsAlongTheRoute, Known
  <2>3. \A d \in Devices : Informed(d)'
    BY <1>1, <1>2, <1>3, <1>4, <2>1 DEF Informed, Known
  <2> QED
    BY <2>2, <2>3 DEF RouteInv
<1>5. ASSUME NEW d \in r.todo,
             connection' = [connection EXCEPT ![d] = {Neighbours(r.links, d)}],
             relaying' = [relaying EXCEPT ![c] = {[r EXCEPT !.todo = @ \ {d}]}],
             UNCHANGED failed
      PROVE  RouteInv'
  <2> DEFINE q == [r EXCEPT !.todo = @ \ {d}]
  <2>1. /\ d \in Devices
        /\ relaying'[c] = {q}
        /\ q.links = r.links
        /\ q.todo = r.todo \ {d}
        /\ connection'[d] = {Neighbours(r.links, d)}
        /\ \A e \in Devices \ {d} : connection'[e] = connection[e]
    BY <1>3, <1>5 DEF TypeOK
  <2>2. \A e \in Devices : Neighbours(r.links, e) \subseteq Neighbours(cables, e)
    BY <1>1, NeighboursGrow DEF NeighboursAreCabled
  <2>3. /\ \A e \in Devices : Known(e) \subseteq Neighbours(r.links, e)
        /\ \A e \in Devices : \A N \in connection'[e] :
              /\ connection'[e] = {N}
              /\ Known(e) \subseteq N
              /\ N \subseteq Neighbours(r.links, e)
    BY <1>1, <1>2, <2>1 DEF GrowsAlongTheRoute
  <2>4. GrowsAlongTheRoute'
    <3>1. /\ \A k \in Clients : cables' \subseteq links'[k]
          /\ \A b \in Controllers : \A M \in topology'[b] : M = cables'
      BY <1>1, <1>2 DEF GrowsAlongTheRoute
    <3>2. \A b \in Controllers : \A p \in relaying'[b] :
             /\ relaying'[b] = {p}
             /\ topology'[b] = {} => p.links = cables'
             /\ p.links = r.links
      BY <1>1, <1>3, <2>1
    <3>3. \A e \in Devices : Known(e)' = Known(e)
      BY <1>1 DEF Known
    <3> QED
      BY <1>1, <2>2, <2>3, <3>1, <3>2, <3>3 DEF GrowsAlongTheRoute
  <2>5. ASSUME NEW e \in Devices
        PROVE  Informed(e)'
    <3>1. CASE topology[c] # {}
      BY <1>1, <3>1 DEF Informed
    <3>2. CASE topology[c] = {} /\ e = d
      BY <1>1, <1>3, <2>1, <3>2 DEF Informed
    <3>3. CASE topology[c] = {} /\ e # d
      <4>1. \/ failed
            \/ e \in r.todo
            \/ Neighbours(cables, e) \in connection[e]
            \/ Known(e) = Neighbours(cables, e)
        BY <1>2, <1>3, <3>3 DEF Informed
      <4> QED
        BY <1>1, <1>3, <1>5, <2>1, <3>3, <4>1 DEF Informed, Known
    <3> QED
      BY <3>1, <3>2, <3>3
  <2> QED
    BY <2>4, <2>5 DEF RouteInv
<1> QED
  BY <1>1, <1>4, <1>5

(***************************************************************************)
(* A device that takes a connection knows exactly the neighbours it names, *)
(* those it knew before among them.                                        *)
(***************************************************************************)
LEMMA KnowsWhatItTakes ==
    ASSUME TypeOK, NEW d \in Devices, NEW N, Known(d) \subseteq N, ConnectedDevices(d, N)
    PROVE  \A e \in Devices : Known(e)' = IF e = d THEN N ELSE Known(e)
<1>1. /\ inPorts'[d] = IF d \in Loads /\ N # {} THEN N
                       ELSE IF d \in Distributions THEN inPorts[d] \cup (N \ Loads)
                       ELSE inPorts[d]
      /\ outPorts'[d] = IF d \in Sources /\ N # {} THEN N
                        ELSE IF d \in Distributions THEN outPorts[d] \cup (N \ Sources)
                        ELSE outPorts[d]
  BY DEF ConnectedDevices, TypeOK
<1>2. \A e \in Devices \ {d} : Known(e)' = Known(e)
  BY DEF ConnectedDevices, Known, TypeOK
<1>3. inPorts[d] \subseteq N /\ outPorts[d] \subseteq N
  BY DEF Known
<1>4. inPorts'[d] \cup outPorts'[d] = N
  BY <1>1, <1>3, RolesAssumption DEF Devices
<1> QED
  BY <1>2, <1>4 DEF Known

\* A device that takes its latest neighbours is informed.
LEMMA RouteTake ==
    ASSUME TypeOK, OneRoute, RouteInv, NEW d \in Devices, TakeConnection(d)
    PROVE  RouteInv'
<1>1. PICK N \in connection[d] :
         /\ connection' = [connection EXCEPT ![d] = {}]
         /\ ConnectedDevices(d, N)
         /\ UNCHANGED <<links, topology, relaying, cables, failed>>
  BY DEF TakeConnection, topologyVars
<1>2. GrowsAlongTheRoute /\ \A e \in Devices : Informed(e)
  BY DEF RouteInv
<1>3. connection[d] = {N} /\ Known(d) \subseteq N
  BY <1>1, <1>2 DEF GrowsAlongTheRoute
<1>4. \A e \in Devices : Known(e)' = IF e = d THEN N ELSE Known(e)
  BY <1>1, <1>3, KnowsWhatItTakes
<1>5. connection'[d] = {} /\ \A e \in Devices \ {d} : connection'[e] = connection[e]
  BY <1>1 DEF TypeOK
<1>6. GrowsAlongTheRoute'
  <2>1. /\ \A k \in Clients : cables' \subseteq links'[k]
        /\ \A c \in Controllers : \A L \in topology'[c] : L = cables'
    BY <1>1, <1>2 DEF GrowsAlongTheRoute
  <2>2. ASSUME NEW c \in Controllers, NEW r \in relaying'[c]
        PROVE  /\ relaying'[c] = {r}
               /\ topology'[c] = {} => r.links = cables'
               /\ \A e \in Devices :
                     /\ Known(e)' \subseteq Neighbours(r.links, e)
                     /\ \A M \in connection'[e] : M \subseteq Neighbours(r.links, e)
    BY <1>1, <1>2, <1>4, <1>5, <2>2 DEF GrowsAlongTheRoute
  <2>3. ASSUME NEW e \in Devices
        PROVE  /\ Known(e)' \subseteq Neighbours(cables', e)
               /\ \A M \in connection'[e] :
                     /\ connection'[e] = {M}
                     /\ Known(e)' \subseteq M
                     /\ M \subseteq Neighbours(cables', e)
    BY <1>1, <1>2, <1>4, <1>5 DEF GrowsAlongTheRoute
  <2> QED
    BY <2>1, <2>2, <2>3 DEF GrowsAlongTheRoute
<1>7. ASSUME NEW e \in Devices
      PROVE  Informed(e)'
  <2>1. CASE e = d
    <3>1. N \subseteq Neighbours(cables, d) /\ Known(d) \subseteq N
      BY <1>1, <1>2 DEF GrowsAlongTheRoute
    <3>2. \/ failed
          \/ \E c \in Controllers : topology[c] # {}
          \/ \E c \in Controllers : \E r \in relaying[c] : d \in r.todo
          \/ N = Neighbours(cables, d)
      BY <1>2, <1>3, <3>1 DEF Informed
    <3> QED
      BY <1>1, <1>4, <2>1, <3>2 DEF Informed
  <2>2. CASE e # d
    BY <1>1, <1>2, <1>4, <1>5, <2>2 DEF Informed
  <2> QED
    BY <2>1, <2>2
<1> QED
  BY <1>6, <1>7 DEF RouteInv

LEMMA RouteStep ==
    ASSUME FlowInv, RouteInv, [Next]_vars
    PROVE  RouteInv'
<1> SUFFICES ASSUME OneRoute
             PROVE  RouteInv'
  BY DEF RouteInv, OneRoute
<1>1. CASE UNCHANGED <<links, topology, relaying, cables, failed, connection, inPorts, outPorts>>
  BY <1>1 DEF RouteInv, GrowsAlongTheRoute, Informed, Known
<1>2. CASE UNCHANGED vars
  BY <1>1, <1>2 DEF vars, topologyVars, portVars
<1>3. CASE \E d \in Sources \cup Distributions : EnergyLevel(d)
  BY <1>1, <1>3 DEF EnergyLevel, topologyVars, portVars
<1>4. CASE \E s \in Sources : SourceStep(s)
  BY <1>1, <1>4 DEF SourceStep, WaitForConnections, WaitForOperational, CheckLevel, WriteCurrent,
                    WriteThen, SourceKeeps, topologyVars, portVars
<1>5. CASE \E d \in Distributions \cup Loads : CurrentStep(d)
  BY <1>1, <1>5 DEF CurrentStep, TakeCurrent, RelayCurrent, ConsumeCurrent, topologyVars, portVars
<1> QED
  BY <1>2, <1>3, <1>4, <1>5, RouteConnect, RouteTopology, RouteRelay, RouteTake DEF Next, FlowInv

(***************************************************************************)
(* The whole inductive invariant: current and neighbours stem from cables, *)
(* no wake-up is lost, a source that is off writes one sample at most, and *)
(* what reaches a device over a single route only grows.                   *)
(***************************************************************************)
THEOREM Inductive == Spec => []IInv
<1>1. Init => RouteInv
  <2>1. ASSUME Init, NEW d \in Devices
        PROVE  Known(d) = {} /\ Neighbours(cables, d) = {}
    BY <2>1 DEF Init, Known, Neighbours
  <2>2. ASSUME Init
        PROVE  GrowsAlongTheRoute
    BY <2>1, <2>2 DEF Init, GrowsAlongTheRoute
  <2> QED
    BY <2>1, <2>2 DEF RouteInv, Informed
<1>2. FlowInv /\ RouteInv /\ [Next]_vars => RouteInv'
  BY RouteStep
<1>3. FlowInv /\ (NoLostWakeUp /\ LateOnce) /\ RouteInv => IInv
  BY DEF IInv
<1> QED
  BY <1>1, <1>2, <1>3, FlowInductive, WakeUpsHold, PTL DEF Spec

(***************************************************************************)
(* When one client's topologies have all gone through one controller and   *)
(* been distributed in full, the two ends of every cable agree.            *)
(***************************************************************************)
THEOREM EndsSafe == Spec => []EndsAgree
<1>1. ASSUME RouteInv
      PROVE  EndsAgree
  <2> SUFFICES ASSUME OneRoute, Settled, NEW d \in Devices, NEW e \in Devices
               PROVE  e \in Known(d) <=> d # e /\ {d, e} \in cables
    BY DEF EndsAgree
  <2>1. Known(d) = Neighbours(cables, d)
    BY <1>1 DEF RouteInv, Informed, Settled
  <2> QED
    BY <2>1 DEF Neighbours
<1>2. IInv => EndsAgree
  BY <1>1 DEF IInv
<1> QED
  BY <1>2, Inductive, PTL

=============================================================================
