------------------------------ MODULE ConnectDevices ------------------------------
(***************************************************************************)
(* OperatorCLI with connect-pd: the client gathers the power devices, asks *)
(* its operator pair by pair which of them a cable connects, and sends the *)
(* topology to a controller.  It holds data_m_ while it gathers and sends, *)
(* not while the operator answers: then its listeners run.                 *)
(***************************************************************************)
EXTENDS OperatorCLI, FiniteSets, Sequences

CONSTANT SinglePort     \* the sources, loads and storages

ASSUME SinglePortAssumption == SinglePort \subseteq Devices
ASSUME DevicesAssumption == IsFiniteSet(Devices)

VARIABLES
    powerDevices,   \* power_devices_
    connections,    \* power_connections_
    dialog,         \* connect-pd: "no", "gather" or "ask"
    localPds,       \* local_pds, in the order it is walked
    it1, it2,       \* the pair to ask for
    topologies      \* PowerTopology: the last one for each controller

connectVars == <<powerDevices, connections, dialog, localPds, it1, it2, topologies>>
varsC == <<vars, connectVars>>

InitC ==
    /\ Init
    /\ powerDevices = {}
    /\ connections = [d \in Devices |-> {}]
    /\ dialog = "no"
    /\ localPds = <<>>
    /\ it1 = 1 /\ it2 = 2
    /\ topologies = [c \in Controllers |-> {}]

\* The orders in which a set may be walked.
Orders(S) ==
    {s \in [1..Cardinality(S) -> S] : \A i, j \in DOMAIN s : s[i] = s[j] => i = j}

StartConnecting ==
    /\ call = "none" /\ dialog = "no"
    /\ Give
    /\ call' = "connect-pd"
    /\ dialog' = "gather"
    /\ IF powerDevices = {} /\ Listed = {} THEN CollectPowerDevices
       ELSE UNCHANGED <<todo, devices>>
    /\ UNCHANGED <<controllerVars, wire, table, waits, starts, history,
                   powerDevices, connections, localPds, it1, it2, topologies>>

\* Devices are consolidated only when there are none yet.
ConsolidatePowerDevices ==
    /\ dialog = "gather" /\ todo = {} /\ waits = {}
    /\ powerDevices' = IF powerDevices = {} THEN UNION UNION {devices[c] : c \in Controllers}
                       ELSE powerDevices
    /\ localPds' \in Orders(powerDevices')
    /\ it1' = 1 /\ it2' = 2
    /\ call' = "none"
    /\ dialog' = "ask"
    /\ UNCHANGED <<controllerVars, wire, table, devices, todo, waits, counters, history,
                   connections, topologies>>

\* The ports of the second device are not looked at.
CanConnect_M(a, b) == connections[a] = {} \/ a \notin SinglePort

CanConnect(a, b) ==
    \A d \in {a, b} : connections[d] = {} \/ d \notin SinglePort

\* The cable is recorded for the first device only.
Connect_M(a, b) ==
    connections' = [connections EXCEPT ![a] = @ \cup {b}]

Connect(a, b) ==
    connections' = [connections EXCEPT ![a] = @ \cup {b}, ![b] = @ \cup {a}]

NoMorePairs == it2 > Len(localPds)

\* The next pair is asked for, unless their ports are taken.
AskForConnection ==
    /\ dialog = "ask" /\ ~NoMorePairs
    /\ LET a == localPds[it1]
           b == localPds[it2]
       IN \/ CanConnect(a, b) /\ Connect(a, b)
          \/ UNCHANGED connections
    /\ IF it2 < Len(localPds)
       THEN it1' = it1 /\ it2' = it2 + 1
       ELSE it1' = it1 + 1 /\ it2' = it1 + 2
    /\ UNCHANGED <<vars, powerDevices, dialog, localPds, topologies>>

\* To one available controller whose write succeeds, or to none.
SendTopology ==
    /\ dialog = "ask" /\ NoMorePairs
    /\ dialog' = "no"
    /\ \/ \E c \in Available : topologies' = [topologies EXCEPT ![c] = {connections}]
       \/ UNCHANGED topologies
    /\ UNCHANGED <<vars, powerDevices, connections, localPds, it1, it2>>

\* The client reads its next command when connect-pd has returned.
OtherCommand ==
    /\ dialog = "no"
    /\ ListPowerDevices \/ StartStop \/ \E c \in Controllers : SendControllerCmd(c)

OthersC ==
    /\ \/ \E c \in Controllers : ControllerStep(c) \/ ListenerStep(c) \/ OtherRequest(c)
       \/ OtherCommand \/ CommandStep
    /\ UNCHANGED connectVars

NextC ==
    \/ StartConnecting \/ ConsolidatePowerDevices \/ AskForConnection \/ SendTopology
    \/ OthersC

SpecC == InitC /\ [][NextC]_varsC

-----------------------------------------------------------------------------
\* What it reads of the state of OperatorCLI.
KnownOK ==
    /\ reports \in [Controllers -> SUBSET Devices]
    /\ replies \in [Controllers -> SUBSET SUBSET Devices]
    /\ devices \in [Controllers -> SUBSET SUBSET Devices]

TypeOKC ==
    /\ powerDevices \subseteq Devices
    /\ connections \in [Devices -> SUBSET Devices]
    /\ dialog \in {"no", "gather", "ask"}
    /\ localPds \in Seq(Devices)
    /\ it1 \in Nat \ {0} /\ it2 \in Nat /\ it1 < it2
    /\ topologies \in [Controllers -> SUBSET [Devices -> SUBSET Devices]]

(***************************************************************************)
(* No topology uses a port twice, however often connect-pd is given: what  *)
(* a controller is sent, a source or load can carry out, which has room    *)
(* for one neighbour (PowerDevice.cpp:257).                                *)
(***************************************************************************)
PortsUsedOnce ==
    \A c \in Controllers : \A t \in topologies[c] :
        \A d \in SinglePort : \A a, b \in t[d] : a = b

(***************************************************************************)
(* A topology names each cable at both its ends and at two devices: that   *)
(* is what the devices rely on, of which each is told its own neighbours.  *)
(***************************************************************************)
CablesHaveTwoEnds ==
    \A c \in Controllers : \A t \in topologies[c] :
        \A a, b \in Devices : b \in t[a] => a # b /\ a \in t[b]

(***************************************************************************)
(* The inductive invariant: power_connections_ has both properties at all  *)
(* times, and the walk visits no device twice.                             *)
(***************************************************************************)
ConnectionsFit ==
    /\ \A d \in SinglePort : \A a, b \in connections[d] : a = b
    /\ \A a, b \in Devices : b \in connections[a] => a # b /\ a \in connections[b]

WalkedOnce == \A i, j \in 1..Len(localPds) : localPds[i] = localPds[j] => i = j

IInvC == KnownOK /\ TypeOKC /\ ConnectionsFit /\ WalkedOnce /\ PortsUsedOnce /\ CablesHaveTwoEnds

=============================================================================
