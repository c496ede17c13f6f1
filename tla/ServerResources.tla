-------------------------- MODULE ServerResources --------------------------
(***************************************************************************)
(* What provisioning promises about a server's resources, without web,     *)
(* agent, requests or faults: the record comes before everything that is   *)
(* made in docker, its outcome is written once, it says prepared only with *)
(* the server's volume there, a volume that was made stays, and no network *)
(* is made or removed but for a recorded server, nor under a running       *)
(* container.                                                              *)
(*                                                                         *)
(* What is promised of a server's volume is not promised of a server whose *)
(* listings failed and read as empty ones (misled).                        *)
(***************************************************************************)
CONSTANT Servers

VARIABLES
  status,   \* provisioningStatus of each record, "none" without a record
  volume,   \* the volume of each server's name: none, managed or foreign
  network,  \* the network that all servers share: none, managed or foreign
  box,      \* the container of each server: none, stopped or running
  misled

vars == <<status, volume, network, box, misled>>

Init ==
  /\ status = [s \in Servers |-> "none"]
  /\ volume \in [Servers -> {"none", "foreign"}]
  /\ network = "none"
  /\ box = [s \in Servers |-> "none"]
  /\ misled = {}

Recorded == {s \in Servers : status[s] # "none"}

Record(s, from, to) ==
  /\ status[s] = from
  /\ status' = [status EXCEPT ![s] = to]
  /\ UNCHANGED <<volume, network, box, misled>>

Draft(s)    == Record(s, "none", "DRAFT")
Fail(s)     == \E to \in {"RESOURCE_PREPARE_PARTIAL", "RESOURCE_PREPARE_FAILED"} :
                 Record(s, "DRAFT", to)
Prepared(s) == /\ volume[s] = "managed" \/ s \in misled
               /\ Record(s, "DRAFT", "RESOURCES_PREPARED")

CreateVolume(s) ==
  /\ s \in Recorded /\ volume[s] = "none"
  /\ volume' = [volume EXCEPT ![s] = "managed"]
  /\ UNCHANGED <<status, network, box, misled>>

Network(from, to) ==
  network = from /\ network' = to /\ UNCHANGED <<status, volume, box, misled>>

CreateNetwork  == Recorded # {} /\ Network("none", "managed")
ForeignNetwork == Network("none", "foreign")
RemoveNetwork  ==
  /\ Recorded # {} /\ \A s \in Servers : box[s] # "running"
  /\ \E from \in {"managed", "foreign"} : Network(from, "none")

Box(s, from, to) ==
  /\ box[s] = from
  /\ box' = [box EXCEPT ![s] = to]
  /\ UNCHANGED <<status, volume, network, misled>>

Create(s) == status[s] = "RESOURCES_PREPARED" /\ Box(s, "none", "stopped")
Start(s)  == network # "none" /\ Box(s, "stopped", "running")
Stop(s)   == Box(s, "running", "stopped")
Remove(s) == Box(s, "stopped", "none")

Mislead(s) == misled' = misled \cup {s} /\ UNCHANGED <<status, volume, network, box>>

Next ==
  \/ \E s \in Servers :
       \/ Draft(s) \/ Prepared(s) \/ Fail(s)
       \/ CreateVolume(s)
       \/ Create(s) \/ Start(s) \/ Stop(s) \/ Remove(s)
       \/ Mislead(s)
  \/ CreateNetwork \/ ForeignNetwork \/ RemoveNetwork

Spec == Init /\ [][Next]_vars

=============================================================================
