------------------------------- MODULE PowerFlow -------------------------------
(***************************************************************************)
(* The simulated power cables and the current through them.  An operator's *)
(* client lays cables between devices (connect-pd) and sends the topology  *)
(* to a controller, which tells each device its neighbours; a source       *)
(* writes a current sample every second to the device it is connected to,  *)
(* distribution devices relay it, loads consume it.                        *)
(*                                                                         *)
(* Topology and connection samples are reliable, KEEP_LAST(1) per          *)
(* instance; current samples are best effort, so each may be lost.  Of a   *)
(* sample's power path only the last hop is kept, which is all its readers *)
(* look at; amperage is left out, and so is a neighbour listed twice.      *)
(***************************************************************************)
EXTENDS Naturals, FiniteSets

CONSTANTS
    Controllers,
    Clients,
    Sources, Distributions, Loads,      \* the power devices, by role
    NoDevice,
    MaxTopologies,                      \* bound: times connect-pd is given
    MaxSwitches                         \* bound: start and stop requests carried out

Devices == Sources \cup Distributions \cup Loads

ASSUME RolesAssumption == /\ Sources \cap Distributions = {}
                          /\ Sources \cap Loads = {}
                          /\ Distributions \cap Loads = {}
                          /\ NoDevice \notin Devices
ASSUME BoundsAssumption == MaxTopologies \in Nat /\ MaxSwitches \in Nat

VARIABLES
    links,      \* power_connections_ of each client, as a set of cables
    sent,       \* number of times connect-pd was given
    topology,   \* PowerTopology samples not yet taken, per controller
    relaying,   \* the topology a controller's listener is distributing
    connection, \* PowerConnection samples not yet taken, per device
    inPorts,    \* connected_devices_in_
    outPorts,   \* connected_devices_out_
    level,      \* essl_ of sources and distribution devices
    switches,   \* number of start and stop requests carried out
    thread,     \* where each source's simulate_power_flow is
    target,     \* the device it has read from connected_devices_out_
    current,    \* ElectricCurrent samples not yet taken: sender, per addressee
    accepted,   \* distribution devices that have accepted a sample to relay
    (* history *)
    cables,     \* the cables of all topologies sent
    failed,     \* some PowerConnection could not be written
    late        \* samples a source has written since it was turned off

topologyVars == <<links, sent, topology, relaying, cables, failed>>
portVars == <<connection, inPorts, outPorts>>
levelVars == <<level, switches>>
sourceVars == <<thread, target, late>>
currentVars == <<current, accepted>>
vars == <<topologyVars, portVars, levelVars, sourceVars, currentVars>>

Cables == {c \in SUBSET Devices : Cardinality(c) = 2}

SinglePort == Sources \cup Loads

\* A cable is recorded for the device it was asked for only.
Neighbours_M(L, d) == {e \in Devices \ {d} : {d, e} \in L /\ d \in Distributions}

\* connect records a cable for both its ends.
Neighbours(L, d) == {e \in Devices \ {d} : {d, e} \in L}

Init ==
    /\ links = [k \in Clients |-> {}]
    /\ sent = 0
    /\ topology = [c \in Controllers |-> {}]
    /\ relaying = [c \in Controllers |-> {}]
    /\ connection = [d \in Devices |-> {}]
    /\ inPorts = [d \in Devices |-> {}]
    /\ outPorts = [d \in Devices |-> {}]
    /\ level = [d \in Sources \cup Distributions |-> "operational"]
    /\ switches = 0
    /\ thread = [s \in Sources |-> "connect"]
    /\ target = [s \in Sources |-> NoDevice]
    /\ current = [d \in Distributions \cup Loads |-> {}]
    /\ accepted = {}
    /\ cables = {}
    /\ failed = FALSE
    /\ late = [s \in Sources |-> 0]

-----------------------------------------------------------------------------
(* The topology. *)

\* A device with a single port takes no second cable.
CanConnect(L) == \A d \in SinglePort : Cardinality(Neighbours(L, d)) <= 1

(***************************************************************************)
(* The questions the client asks one by one touch nothing but its own      *)
(* power_connections_: their outcome is any larger set of cables it allows.*)
(* Without an available controller, or when the write fails, none is sent. *)
(***************************************************************************)
ConnectPowerDevices(k) ==
    \E L \in SUBSET Cables, c \in Controllers :
       /\ sent < MaxTopologies
       /\ links[k] \subseteq L
       /\ CanConnect(L)
       /\ links' = [links EXCEPT ![k] = L]
       /\ sent' = sent + 1
       /\ \/ /\ topology' = [topology EXCEPT ![c] = {L}]
             /\ cables' = cables \cup L
          \/ UNCHANGED <<topology, cables>>
       /\ UNCHANGED <<relaying, failed, portVars, levelVars, sourceVars, currentVars>>

TakeTopology(c) ==
    \E L \in topology[c] :
       /\ relaying[c] = {}
       /\ topology' = [topology EXCEPT ![c] = {}]
       /\ relaying' = [relaying EXCEPT ![c] = {[links |-> L, todo |-> UNION L]}]
       /\ UNCHANGED <<links, sent, cables, failed, portVars, levelVars, sourceVars, currentVars>>

\* The first write that fails ends the distribution.
RelayConnection(c) ==
    \E r \in relaying[c] :
       /\ \/ /\ r.todo = {}
             /\ relaying' = [relaying EXCEPT ![c] = {}]
             /\ UNCHANGED <<connection, failed>>
          \/ \E d \in r.todo :
                /\ connection' = [connection EXCEPT ![d] = {Neighbours(r.links, d)}]
                /\ relaying' = [relaying EXCEPT ![c] = {[r EXCEPT !.todo = @ \ {d}]}]
                /\ UNCHANGED failed
          \/ /\ r.todo # {}
             /\ relaying' = [relaying EXCEPT ![c] = {}]
             /\ failed' = TRUE
             /\ UNCHANGED connection
       /\ UNCHANGED <<links, sent, topology, cables, inPorts, outPorts, levelVars,
                      sourceVars, currentVars>>

\* A source or load has one entry, which is replaced; a distribution device adds.
ConnectedDevices(d, N) ==
    /\ inPorts' = [inPorts EXCEPT ![d] =
          IF d \in Loads /\ N # {} THEN N
          ELSE IF d \in Distributions THEN @ \cup (N \ Loads) ELSE @]
    /\ outPorts' = [outPorts EXCEPT ![d] =
          IF d \in Sources /\ N # {} THEN N
          ELSE IF d \in Distributions THEN @ \cup (N \ Sources) ELSE @]
    \* connected_devices_cv_.notify_one
    /\ thread' = [s \in Sources |->
                     IF s = d /\ thread[s] = "unconnected" THEN "connect" ELSE thread[s]]

\* The device takes the connections of another device for its own.
TakeConnection_M(d) ==
    \E p \in Devices : \E N \in connection[p] :
       /\ connection' = [connection EXCEPT ![p] = {}]
       /\ ConnectedDevices(d, N)
       /\ UNCHANGED <<topologyVars, levelVars, target, late, currentVars>>

TakeConnection(d) ==
    \E N \in connection[d] :
       /\ connection' = [connection EXCEPT ![d] = {}]
       /\ ConnectedDevices(d, N)
       /\ UNCHANGED <<topologyVars, levelVars, target, late, currentVars>>

-----------------------------------------------------------------------------
(* The energy level, set by the start and stop listener. *)

\* The level is set without waking the thread that waits for it.
EnergyLevel_M(d) ==
    \E l \in {"operational", "off"} :
       /\ switches < MaxSwitches
       /\ switches' = switches + 1
       /\ level' = [level EXCEPT ![d] = l]
       /\ late' = [s \in Sources |-> IF s = d /\ l # level[d] THEN 0 ELSE late[s]]
       /\ UNCHANGED <<topologyVars, portVars, thread, target, currentVars>>

EnergyLevel(d) ==
    \E l \in {"operational", "off"} :
       /\ switches < MaxSwitches
       /\ switches' = switches + 1
       /\ level' = [level EXCEPT ![d] = l]
       /\ late' = [s \in Sources |-> IF s = d /\ l # level[d] THEN 0 ELSE late[s]]
       /\ thread' = [s \in Sources |->
                        IF s = d /\ thread[s] = "asleep" THEN "level" ELSE thread[s]]
       /\ UNCHANGED <<topologyVars, portVars, target, currentVars>>

-----------------------------------------------------------------------------
(* A source's thread. *)

SourceKeeps == <<topologyVars, portVars, levelVars, currentVars>>

\* The list is copied when the wait ends and not read again.
WaitForConnections(s) ==
    /\ thread[s] = "connect"
    /\ IF outPorts[s] = {}
       THEN /\ thread' = [thread EXCEPT ![s] = "unconnected"]
            /\ UNCHANGED target
       ELSE /\ thread' = [thread EXCEPT ![s] = "level"]
            /\ \E d \in outPorts[s] : target' = [target EXCEPT ![s] = d]
    /\ UNCHANGED <<late, SourceKeeps>>

WaitForOperational(s) ==
    /\ thread[s] = "level"
    /\ thread' = [thread EXCEPT ![s] = IF level[s] = "operational" THEN "check" ELSE "asleep"]
    /\ UNCHANGED <<target, late, SourceKeeps>>

CheckLevel(s) ==
    /\ thread[s] = "check"
    /\ thread' = [thread EXCEPT ![s] = IF level[s] = "operational" THEN "write" ELSE "level"]
    /\ UNCHANGED <<target, late, SourceKeeps>>

\* Samples to each of the devices; any of them may be lost, none has a reader at a source.
Send(from, to, S) ==
    \E received \in SUBSET (to \cap (Distributions \cup Loads)) :
       current' = [d \in Distributions \cup Loads |-> IF d \in received THEN {from} ELSE S[d]]

WriteThen(s, next) ==
    /\ thread[s] = "write"
    /\ thread' = [thread EXCEPT ![s] = next]
    /\ Send(s, {target[s]}, current)
    /\ late' = [late EXCEPT ![s] = IF level[s] = "off" THEN (IF @ < 2 THEN @ + 1 ELSE @) ELSE @]
    /\ UNCHANGED <<target, topologyVars, portVars, levelVars, accepted>>

\* The level is checked once, before the loop.
WriteCurrent_M(s) == WriteThen(s, "write")

WriteCurrent(s) == WriteThen(s, "check")

-----------------------------------------------------------------------------
(* The current's listeners. *)

\* The sample is read and stays in the reader.
TakeCurrent_M(d) ==
    \E from \in current[d] :
       /\ d \notin accepted
       /\ accepted' = IF level[d] = "operational" /\ from \in inPorts[d]
                      THEN accepted \cup {d} ELSE accepted
       /\ UNCHANGED <<current, topologyVars, portVars, levelVars, sourceVars>>

\* Ignored by a device that is not operational or does not know the sender.
TakeCurrent(d) ==
    \E from \in current[d] :
       /\ d \notin accepted
       /\ current' = [current EXCEPT ![d] = {}]
       /\ accepted' = IF level[d] = "operational" /\ from \in inPorts[d]
                      THEN accepted \cup {d} ELSE accepted
       /\ UNCHANGED <<topologyVars, portVars, levelVars, sourceVars>>

RelayCurrent(d) ==
    /\ d \in accepted
    /\ accepted' = accepted \ {d}
    /\ Send(d, outPorts[d], current)
    /\ UNCHANGED <<topologyVars, portVars, levelVars, sourceVars>>

\* A load relays nothing, whatever it is connected to.
ConsumeCurrent(d) ==
    /\ current[d] # {}
    /\ current' = [current EXCEPT ![d] = {}]
    /\ UNCHANGED <<accepted, topologyVars, portVars, levelVars, sourceVars>>

-----------------------------------------------------------------------------
SourceStep(s) ==
    WaitForConnections(s) \/ WaitForOperational(s) \/ CheckLevel(s) \/ WriteCurrent(s)

CurrentStep(d) ==
    \/ d \in Distributions /\ (TakeCurrent(d) \/ RelayCurrent(d))
    \/ d \in Loads /\ ConsumeCurrent(d)

Next ==
    \/ \E k \in Clients : ConnectPowerDevices(k)
    \/ \E c \in Controllers : TakeTopology(c) \/ RelayConnection(c)
    \/ \E d \in Devices : TakeConnection(d)
    \/ \E d \in Sources \cup Distributions : EnergyLevel(d)
    \/ \E s \in Sources : SourceStep(s)
    \/ \E d \in Distributions \cup Loads : CurrentStep(d)

(***************************************************************************)
(* A source's thread keeps running, and a sample that has been delivered   *)
(* is taken by its listener and dealt with.                                *)
(***************************************************************************)
Fairness ==
    /\ \A s \in Sources : WF_vars(SourceStep(s))
    /\ \A d \in Distributions \cup Loads : WF_vars(CurrentStep(d))

Spec == Init /\ [][Next]_vars /\ Fairness

-----------------------------------------------------------------------------
TypeOK ==
    /\ links \in [Clients -> SUBSET Cables]
    /\ sent \in 0..MaxTopologies
    /\ topology \in [Controllers -> SUBSET SUBSET Cables]
    /\ relaying \in [Controllers -> SUBSET [links : SUBSET Cables, todo : SUBSET Devices]]
    /\ connection \in [Devices -> SUBSET SUBSET Devices]
    /\ inPorts \in [Devices -> SUBSET Devices]
    /\ outPorts \in [Devices -> SUBSET Devices]
    /\ level \in [Sources \cup Distributions -> {"operational", "off"}]
    /\ switches \in 0..MaxSwitches
    /\ thread \in [Sources -> {"connect", "unconnected", "level", "asleep", "check", "write"}]
    /\ target \in [Sources -> Devices \cup {NoDevice}]
    /\ current \in [Distributions \cup Loads -> SUBSET Devices]
    /\ accepted \subseteq Distributions
    /\ cables \subseteq Cables
    /\ failed \in BOOLEAN
    /\ late \in [Sources -> Nat]

(***************************************************************************)
(* Current flows only through cables some operator has laid and never out  *)
(* of a load, although the topology reaches the devices one by one and in  *)
(* any order.                                                              *)
(***************************************************************************)
FlowFollowsCables ==
    \A d \in Distributions \cup Loads : \A from \in current[d] :
        {from, d} \in cables /\ from \notin Loads

(***************************************************************************)
(* When one client's topologies have all gone through one controller and   *)
(* been distributed in full, the two ends of every cable agree: the device *)
(* at one end lists the one at the other, and lists no other.              *)
(***************************************************************************)
Settled ==
    /\ ~failed
    /\ \A c \in Controllers : topology[c] = {} /\ relaying[c] = {}
    /\ \A d \in Devices : connection[d] = {}

OneRoute ==
    /\ \A j, k \in Clients : j = k
    /\ \A b, c \in Controllers : b = c

Known(d) == inPorts[d] \cup outPorts[d]

EndsAgree ==
    OneRoute /\ Settled => \A d, e \in Devices :
        e \in Known(d) <=> d # e /\ {d, e} \in cables

(***************************************************************************)
(* A source that is turned off writes at most the one sample it was about  *)
(* to write.                                                               *)
(***************************************************************************)
OffGoesQuiet == \A s \in Sources : late[s] <= 1

(***************************************************************************)
(* A connected source that is turned on, or is on when it is connected,    *)
(* sends current unless it is turned off: neither wake-up is lost.         *)
(***************************************************************************)
SourceResumes ==
    \A s \in Sources :
        (outPorts[s] # {} /\ level[s] = "operational")
            ~> (thread[s] = "write" \/ level[s] = "off")

(***************************************************************************)
(* Once all sources are off for good, no current is left in the microgrid, *)
(* as long as no two distribution devices are connected (two that are send *)
(* it back and forth for ever).                                            *)
(***************************************************************************)
AllOff == \A s \in Sources : level[s] = "off"
Trunk == \E c \in cables : c \subseteq Distributions
NoCurrent == \A d \in Distributions \cup Loads : current[d] = {}

CurrentDiesOut == <>[](AllOff /\ ~Trunk) => <>[]NoCurrent

(***************************************************************************)
(* The inductive invariant behind FlowFollowsCables: whatever tells a      *)
(* device of a neighbour, on its way from the client to the device's own   *)
(* lists, stems from a cable, and a load has no one to send to.            *)
(***************************************************************************)
Cabled(d, N) == \A e \in N : {d, e} \in cables

NeighboursAreCabled ==
    /\ \A c \in Controllers : \A L \in topology[c] : L \subseteq cables
    /\ \A c \in Controllers : \A r \in relaying[c] : r.links \subseteq cables
    /\ \A d \in Devices : \A N \in connection[d] : Cabled(d, N)
    /\ \A d \in Devices : Cabled(d, outPorts[d])
    /\ \A s \in Sources : target[s] # NoDevice => Cabled(s, {target[s]})

FlowInv == TypeOK /\ NeighboursAreCabled /\ FlowFollowsCables

(***************************************************************************)
(* A source's thread waits only for what has not come yet: it is not left  *)
(* waiting for a connection it has, or for a level it is at.               *)
(***************************************************************************)
NoLostWakeUp ==
    \A s \in Sources :
       /\ thread[s] = "unconnected" => outPorts[s] = {}
       /\ thread[s] = "asleep" => level[s] = "off"

(***************************************************************************)
(* Behind OffGoesQuiet: a source has written nothing late, or has written  *)
(* its one late sample and will not write again before it is turned on.    *)
(***************************************************************************)
LateOnce ==
    \A s \in Sources :
        late[s] = 0 \/ (level[s] = "off" /\ late[s] = 1 /\ thread[s] # "write")

(***************************************************************************)
(* Behind EndsAgree: with one client and one controller the topologies only*)
(* grow, so whatever is nearer to a device says no more than what follows  *)
(* it, and a device that does not know its latest neighbours is about to   *)
(* hear of them, unless a write failed.                                    *)
(***************************************************************************)
GrowsAlongTheRoute ==
    /\ \A k \in Clients : cables \subseteq links[k]
    /\ \A c \in Controllers : \A L \in topology[c] : L = cables
    /\ \A c \in Controllers : \A r \in relaying[c] :
          /\ relaying[c] = {r}
          /\ topology[c] = {} => r.links = cables
          /\ \A d \in Devices :
                /\ Known(d) \subseteq Neighbours(r.links, d)
                /\ \A N \in connection[d] : N \subseteq Neighbours(r.links, d)
    /\ \A d \in Devices : \A N \in connection[d] :
          /\ connection[d] = {N}
          /\ Known(d) \subseteq N
          /\ N \subseteq Neighbours(cables, d)
    /\ \A d \in Devices : Known(d) \subseteq Neighbours(cables, d)

Informed(d) ==
    \/ failed
    \/ \E c \in Controllers : topology[c] # {}
    \/ \E c \in Controllers : \E r \in relaying[c] : d \in r.todo
    \/ Neighbours(cables, d) \in connection[d]
    \/ Known(d) = Neighbours(cables, d)

RouteInv == OneRoute => GrowsAlongTheRoute /\ \A d \in Devices : Informed(d)

IInv == FlowInv /\ NoLostWakeUp /\ LateOnce /\ RouteInv

=============================================================================
