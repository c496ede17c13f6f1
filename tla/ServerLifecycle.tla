-------------------------- MODULE ServerLifecycle --------------------------
(***************************************************************************)
(* What the lifecycle of managed servers promises an owner, without web,   *)
(* agent or faults: docker changes only in the status that allows it, and  *)
(* the status moves only along the documented edges, each time to what     *)
(* docker already is (the transitions in the headers of                    *)
(* apps/web/src/core/container-*.ts and server-archive.ts).                *)
(*                                                                         *)
(*   RESOURCES_PREPARED -> CONTAINER_PENDING -> CONTAINER_CREATED          *)
(*        ^    |                                  |    ^    |              *)
(*        |    +-> archived                       |    |    v              *)
(*        +---------------------------------------+   RUNNING              *)
(***************************************************************************)
CONSTANT Servers

VARIABLES
  status,    \* provisioningStatus of each record
  box,       \* the managed container of each server: none, stopped, running
  archived,  \* archived servers
  licensed   \* servers whose license was accepted

vars == <<status, box, archived, licensed>>

Init ==
  /\ status = [s \in Servers |-> "RESOURCES_PREPARED"]
  /\ box = [s \in Servers |-> "none"]
  /\ archived = {}
  /\ licensed = {}

In(s, allowed) == s \notin archived /\ status[s] \in allowed

\* The owner accepts the license on the way to a start.
AcceptLicense(s) ==
  /\ In(s, {"CONTAINER_CREATED", "RUNNING"})
  /\ licensed' = licensed \cup {s}
  /\ UNCHANGED <<status, box, archived>>

\* Docker changes, where the status allows it.
Docker(s, allowed, from, to) ==
  /\ In(s, allowed)
  /\ box[s] = from
  /\ box' = [box EXCEPT ![s] = to]
  /\ UNCHANGED <<status, archived, licensed>>

ContainerCreated(s) ==
  Docker(s, {"CONTAINER_PENDING", "CONTAINER_CREATED"}, "none", "stopped")
ContainerStarted(s) ==
  s \in licensed /\ Docker(s, {"CONTAINER_CREATED", "RUNNING"}, "stopped", "running")
ContainerStopped(s) ==
  Docker(s, {"CONTAINER_CREATED", "RUNNING"}, "running", "stopped")
ContainerRemoved(s) ==
  Docker(s, {"CONTAINER_CREATED", "RESOURCES_PREPARED"}, "stopped", "none")

\* The status follows, to what docker is.
Status(s, allowed, boxes, to) ==
  /\ In(s, allowed)
  /\ box[s] \in boxes
  /\ status' = [status EXCEPT ![s] = to]
  /\ UNCHANGED <<box, archived, licensed>>

RecordPending(s) ==
  Status(s, {"RESOURCES_PREPARED"}, {"none"}, "CONTAINER_PENDING")
RecordCreated(s) ==
  Status(s, {"CONTAINER_PENDING", "CONTAINER_CREATED"}, {"stopped"}, "CONTAINER_CREATED")
RecordRunning(s) ==
  Status(s, {"CONTAINER_CREATED", "RUNNING"}, {"running"}, "RUNNING")
RecordStopped(s) ==
  Status(s, {"CONTAINER_CREATED", "RUNNING"}, {"stopped"}, "CONTAINER_CREATED")
RecordRemoved(s) ==
  Status(s, {"CONTAINER_CREATED", "RESOURCES_PREPARED"}, {"none"}, "RESOURCES_PREPARED")

Archive(s) ==
  /\ In(s, {"RESOURCES_PREPARED"})
  /\ box[s] = "none"
  /\ archived' = archived \cup {s}
  /\ UNCHANGED <<status, box, licensed>>

Next ==
  \E s \in Servers :
    \/ AcceptLicense(s)
    \/ ContainerCreated(s) \/ ContainerStarted(s) \/ ContainerStopped(s) \/ ContainerRemoved(s)
    \/ RecordPending(s) \/ RecordCreated(s) \/ RecordRunning(s) \/ RecordStopped(s)
    \/ RecordRemoved(s)
    \/ Archive(s)

Spec == Init /\ [][Next]_vars

=============================================================================
