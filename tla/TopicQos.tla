-------------------------------- MODULE TopicQos --------------------------------
(***************************************************************************)
(* The QoS of the microgrid's topics (common/QosHelper): what a reader     *)
(* that joins late is given, whether samples may be lost, and how many     *)
(* samples of an instance a reader keeps until they are taken.             *)
(*                                                                         *)
(* Readers and writers of a topic use the same profile.  Every profile has *)
(* exclusive ownership and every writer the same strength.                 *)
(***************************************************************************)

\* The policies that none of the profiles below sets: OpenDDS's defaults.
Default == [durability |-> "volatile", reliability |-> "best_effort", depth |-> 1]

PublishLast == [Default EXCEPT !.durability = "transient_local", !.reliability = "reliable"]
Medium == Default       \* its deadline of 3 s is requested, not acted on
Command == [Default EXCEPT !.reliability = "reliable"]
Reply == [Default EXCEPT !.reliability = "reliable", !.depth = 128]

\* DeviceInfo with the profile of the commands.
fn_map_M ==
    [ Heartbeat |-> Medium,
      DeviceInfo |-> Command,
      OperatorIntentRequest |-> Command,
      EnergyStartStopRequest |-> Command,
      Reply |-> Reply,
      ActiveMicrogridControllerState |-> PublishLast ]

fn_map ==
    [ Heartbeat |-> Medium,
      DeviceInfo |-> PublishLast,
      OperatorIntentRequest |-> Command,
      EnergyStartStopRequest |-> Command,
      Reply |-> Reply,
      ActiveMicrogridControllerState |-> PublishLast ]

\* What a reader that joins late receives of the writers' last samples.
Retained(topic, last) ==
    IF fn_map[topic].durability = "transient_local" THEN last ELSE {}

=============================================================================
