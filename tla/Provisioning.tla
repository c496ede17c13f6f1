---------------------------- MODULE Provisioning ----------------------------
(***************************************************************************)
(* How a managed server gets its docker network and volume, and how the    *)
(* network, which all servers share, is removed: the web services          *)
(* core/provisioning.ts and core/network-remove.ts and the agent handlers  *)
(* docker-write.ts and docker-network-remove.ts behind them.               *)
(*                                                                         *)
(* A job is one OWNER request with its web service and its agent handler,  *)
(* as in ManagedLifecycle: every database access and every docker call is  *)
(* a step, nothing is locked, and a handler whose caller gave up runs on.  *)
(* What a prepared server does afterwards is ManagedLifecycle; here it is  *)
(* four actions on its container, because containers hold the network.     *)
(*                                                                         *)
(* Abstracted: audit entries, names, ports (validated on both sides: an    *)
(* invalid request ends before anything is written), the confirmation of   *)
(* the removal (a request without it ends at once), and                    *)
(* AGENT_DOCKER_WRITE_ENABLED (on; off is an answer like unavailable).     *)
(*                                                                         *)
(* A definition whose name begins with Bug_ is the next definition with a  *)
(* plausible mistake, for showing that a property notices it.              *)
(***************************************************************************)
EXTENDS Naturals

CONSTANTS
  Servers,    \* instanceIds; each provisioning request makes a new one (randomUUID)
  Jobs,       \* requests that can be under way at the same time
  Leftover,   \* servers whose volume name may be taken by another installation
  Faults,     \* the kinds of fault that can happen
  MaxFaults   \* bound on the number of faults of a behaviour

FaultKinds ==
  {"probe",      \* the first docker call of a handler fails
   "list",       \* a later `docker ... ls` fails (reads as an empty list)
   "command",    \* the docker command fails and changes nothing
   "ack",        \* the CLI is killed after 5 s although the command took effect
   "timeout",    \* the web side gives up while the handler still works
   "webCrash", "agentCrash",
   "foreign"}    \* somebody creates an unmanaged network of the same name

ASSUME ProvisioningAssumption ==
  /\ Leftover \subseteq Servers
  /\ Faults \subseteq FaultKinds
  /\ MaxFaults \in Nat

VARIABLES
  provisioningStatus,  \* the server's record: "none" or its provisioningStatus
  network,             \* docker: the network of the shared name
  volume,              \* docker: the volume of each server's name
  container,           \* docker: the container of each server
  web, agent,          \* the two sides of each job
  faults,              \* faults so far
  misled,              \* history: servers whose handler a failed listing misled
  since                \* history of each removal since its submission:
                       \*   containers created, and whether the network was ever absent

docker == <<network, volume, container>>
vars == <<provisioningStatus, docker, web, agent, faults, misled, since>>

Statuses ==
  {"DRAFT", "RESOURCES_PREPARED", "RESOURCE_PREPARE_PARTIAL", "RESOURCE_PREPARE_FAILED"}
ResourceStates == {"none", "managed", "foreign"}
PrepareReplies == {"ok", "partial", "conflict", "unavailable", "unreachable"}
RemoveReplies  ==
  {"removed", "alreadyRemoved", "inUseByManagedContainers", "conflict", "error",
   "unavailable", "unreachable"}
Outcomes == {"created", "exists", "conflict", "error"}

IdleRequest == [pc |-> "idle", op |-> "none", srv |-> "none", reply |-> "none"]
IdleTask    == [pc |-> "idle", op |-> "none", srv |-> "none", kind |-> "none", net |-> "none"]

Request ==
  [pc : {"record", "call", "wait", "save"}, op : {"prepare", "removeNetwork"},
   srv : Servers, reply : {"none"} \cup PrepareReplies \cup RemoveReplies]
Task ==
  [pc : {"probe", "managed", "any", "act"}, op : {"prepare", "removeNetwork"}, srv : Servers,
   kind : {"network", "volume"}, net : {"none"} \cup Outcomes]

TypeOK ==
  /\ provisioningStatus \in [Servers -> Statuses \cup {"none"}]
  /\ network \in ResourceStates
  /\ volume \in [Servers -> ResourceStates]
  /\ container \in [Servers -> {"none", "stopped", "running"}]
  /\ web \in [Jobs -> Request \cup {IdleRequest}]
  /\ agent \in [Jobs -> Task \cup {IdleTask}]
  /\ faults \in 0 .. MaxFaults
  /\ misled \subseteq Servers
  /\ since \in [Jobs -> [created : SUBSET Servers, absent : BOOLEAN]]

Init ==
  /\ provisioningStatus = [s \in Servers |-> "none"]
  /\ network = "none"
  /\ volume \in [Servers -> {"none", "foreign"}]
  /\ \A s \in Servers \ Leftover : volume[s] = "none"
  /\ container = [s \in Servers |-> "none"]
  /\ web = [j \in Jobs |-> IdleRequest]
  /\ agent = [j \in Jobs |-> IdleTask]
  /\ faults = 0
  /\ misled = {}
  /\ since = [j \in Jobs |-> [created |-> {}, absent |-> FALSE]]

Inject(kind) ==
  /\ kind \in Faults /\ faults < MaxFaults
  /\ faults' = faults + 1

-----------------------------------------------------------------------------
(* The web services.                                                       *)

Bug_Submit(j, op, s) ==
  /\ web[j] = IdleRequest /\ agent[j] = IdleTask
  /\ (provisioningStatus[s] = "none") <=> (op = "prepare")
  /\ op = "prepare" => \A i \in Jobs : web[i].srv # s /\ agent[i].srv # s
  /\ web' = [web EXCEPT ![j] = [pc |-> "call", op |-> op, srv |-> s, reply |-> "none"]]
  /\ UNCHANGED <<provisioningStatus, docker, agent, faults, misled>>

\* prepareResourcesAction makes a new instanceId; the network is removed from the
\* page of a server that has a record (network-remove.ts:30).
Submit(j, op, s) ==
  /\ web[j] = IdleRequest /\ agent[j] = IdleTask
  /\ (provisioningStatus[s] = "none") <=> (op = "prepare")
  /\ op = "prepare" => \A i \in Jobs : web[i].srv # s /\ agent[i].srv # s
  /\ web' = [web EXCEPT ![j] = [pc |-> IF op = "prepare" THEN "record" ELSE "call",
                                op |-> op, srv |-> s, reply |-> "none"]]
  /\ UNCHANGED <<provisioningStatus, docker, agent, faults, misled>>

\* The DRAFT record, before the agent is called.
CreateRecord(j) ==
  /\ web[j].pc = "record"
  /\ provisioningStatus' = [provisioningStatus EXCEPT ![web[j].srv] = "DRAFT"]
  /\ web' = [web EXCEPT ![j].pc = "call"]
  /\ UNCHANGED <<docker, agent, faults, misled>>

CallAgent(j) ==
  /\ web[j].pc = "call"
  /\ web' = [web EXCEPT ![j].pc = "wait"]
  /\ agent' = [agent EXCEPT ![j] =
       [pc |-> "probe", op |-> web[j].op, srv |-> web[j].srv, kind |-> "network", net |-> "none"]]
  /\ UNCHANGED <<provisioningStatus, docker, faults, misled>>

\* The answer is null: the abort timer, or a connection that never was or broke.
NoAnswer(j) == web' = [web EXCEPT ![j].pc = "save", ![j].reply = "unreachable"]

Timeout(j) ==
  /\ web[j].pc = "wait" /\ agent[j] # IdleTask
  /\ Inject("timeout")
  /\ NoAnswer(j)
  /\ UNCHANGED <<provisioningStatus, docker, agent, misled>>

ConnectionLost(j) ==
  /\ web[j].pc = "wait" /\ agent[j] = IdleTask
  /\ NoAnswer(j)
  /\ UNCHANGED <<provisioningStatus, docker, agent, faults, misled>>

Bug_ResolveProvisioningStatus(reply) ==
  CASE reply = "ok" -> "RESOURCES_PREPARED"
    [] reply = "conflict" -> "RESOURCE_PREPARE_FAILED"
    [] OTHER -> "DRAFT"

\* writeDisabled, unavailable and unreachable say nothing about the plan.
ResolveProvisioningStatus(reply) ==
  CASE reply = "ok" -> "RESOURCES_PREPARED"
    [] reply = "partial" -> "RESOURCE_PREPARE_PARTIAL"
    [] reply = "conflict" -> "RESOURCE_PREPARE_FAILED"
    [] OTHER -> "DRAFT"

Bug_SaveStatus(j) ==
  /\ web[j].pc = "save" /\ web[j].op = "prepare"
  /\ provisioningStatus' =
       [provisioningStatus EXCEPT ![web[j].srv] =
          IF web[j].reply = "unreachable" THEN "none" ELSE ResolveProvisioningStatus(web[j].reply)]
  /\ web' = [web EXCEPT ![j] = IdleRequest]
  /\ UNCHANGED <<docker, agent, faults, misled>>

SaveStatus(j) ==
  /\ web[j].pc = "save" /\ web[j].op = "prepare"
  /\ provisioningStatus' =
       [provisioningStatus EXCEPT ![web[j].srv] = ResolveProvisioningStatus(web[j].reply)]
  /\ web' = [web EXCEPT ![j] = IdleRequest]
  /\ UNCHANGED <<docker, agent, faults, misled>>

\* The removal of the network leaves no trace in the database (option A).
ReportRemoval(j) ==
  /\ web[j].pc = "save" /\ web[j].op = "removeNetwork"
  /\ web' = [web EXCEPT ![j] = IdleRequest]
  /\ UNCHANGED <<provisioningStatus, docker, agent, faults, misled>>

WebCrash(j) ==
  /\ web[j] # IdleRequest
  /\ Inject("webCrash")
  /\ web' = [web EXCEPT ![j] = IdleRequest]
  /\ UNCHANGED <<provisioningStatus, docker, agent, misled>>

-----------------------------------------------------------------------------
(* The agent handlers.                                                     *)

AgentGoto(j, p) == agent' = [agent EXCEPT ![j].pc = p] /\ UNCHANGED web

\* The reply reaches a web side that still waits for it.
Reply(j, answer) ==
  /\ agent' = [agent EXCEPT ![j] = IdleTask]
  /\ web' = IF web[j].pc = "wait"
            THEN [web EXCEPT ![j].pc = "save", ![j].reply = answer]
            ELSE web

\* The result of one resource; after the volume's the status of the whole.
Outcome(j, o) ==
  IF agent[j].kind = "network"
  THEN /\ agent' = [agent EXCEPT ![j].kind = "volume", ![j].net = o, ![j].pc = "managed"]
       /\ UNCHANGED web
  ELSE Reply(j, CASE "conflict" \in {agent[j].net, o} -> "conflict"
                  [] "error" \in {agent[j].net, o} -> "partial"
                  [] OTHER -> "ok")

\* A listing that succeeds shows the truth; one that fails shows nothing.
Lists(s, truth, seen) ==
  \/ seen = truth /\ UNCHANGED <<faults, misled>>
  \/ ~seen /\ Inject("list") /\ misled' = misled \cup {s}

Bug_Containers == {s \in Servers : container[s] = "running"}

\* `container ls --all`: of every managed server.
Containers == {s \in Servers : container[s] # "none"}

\* The first call: it shows that docker answers; for a removal it lists the containers.
AgentProbe(j) ==
  /\ agent[j].pc = "probe"
  /\ \/ Inject("probe") /\ Reply(j, "unavailable")
     \/ /\ UNCHANGED faults
        /\ IF agent[j].op = "removeNetwork" /\ Containers # {}
           THEN Reply(j, "inUseByManagedContainers")
           ELSE AgentGoto(j, "managed")
  /\ UNCHANGED <<provisioningStatus, docker, misled>>

Resource(j) == IF agent[j].kind = "network" THEN network ELSE volume[agent[j].srv]

IsManaged(j) == Resource(j) = "managed"

\* The listing with the label filter: what exists already is fine, or can be removed.
AgentFindManaged(j) ==
  /\ agent[j].pc = "managed"
  /\ \E seen \in BOOLEAN :
       /\ Lists(agent[j].srv, IsManaged(j), seen)
       /\ IF ~seen THEN AgentGoto(j, "any")
          ELSE IF agent[j].op = "prepare" THEN Outcome(j, "exists") ELSE AgentGoto(j, "act")
  /\ UNCHANGED <<provisioningStatus, docker>>

Bug_AgentFindAny(j) ==
  /\ agent[j].pc = "any"
  /\ IF agent[j].op = "prepare" THEN AgentGoto(j, "act") ELSE Reply(j, "alreadyRemoved")
  /\ UNCHANGED <<provisioningStatus, docker, faults, misled>>

\* The listing without the label filter: what else has the name is not ours.
AgentFindAny(j) ==
  /\ agent[j].pc = "any"
  /\ \E seen \in BOOLEAN :
       /\ Lists(agent[j].srv, Resource(j) # "none", seen)
       /\ IF agent[j].op = "prepare"
          THEN IF seen THEN Outcome(j, "conflict") ELSE AgentGoto(j, "act")
          ELSE Reply(j, IF seen THEN "conflict" ELSE "alreadyRemoved")
  /\ UNCHANGED <<provisioningStatus, docker>>

\* docker refuses a second network of a name and the removal of one with running
\* containers; it takes a second volume of a name for the first.
CommandPossible(j) ==
  IF agent[j].op = "removeNetwork"
  THEN network # "none" /\ \A s \in Servers : container[s] # "running"
  ELSE agent[j].kind = "volume" \/ network = "none"

CommandEffect(j) ==
  IF agent[j].kind = "network"
  THEN /\ network' = IF agent[j].op = "prepare" THEN "managed" ELSE "none"
       /\ UNCHANGED <<volume, container>>
  ELSE /\ volume' = [volume EXCEPT ![agent[j].srv] = IF @ = "none" THEN "managed" ELSE @]
       /\ UNCHANGED <<network, container>>

\* `docker network create`, `docker volume create`, `docker network rm`.
AgentAct(j) ==
  /\ agent[j].pc = "act"
  /\ \E ok \in BOOLEAN :
       /\ \/ CommandPossible(j) /\ ok /\ CommandEffect(j) /\ UNCHANGED faults
          \/ ~CommandPossible(j) /\ ~ok /\ UNCHANGED <<docker, faults>>
          \/ CommandPossible(j) /\ ~ok /\ Inject("ack") /\ CommandEffect(j)
          \/ CommandPossible(j) /\ ~ok /\ Inject("command") /\ UNCHANGED docker
       /\ IF agent[j].op = "prepare"
          THEN Outcome(j, IF ok THEN "created" ELSE "error")
          ELSE Reply(j, IF ok THEN "removed" ELSE "error")
  /\ UNCHANGED <<provisioningStatus, misled>>

AgentCrash(j) ==
  /\ agent[j] # IdleTask
  /\ Inject("agentCrash")
  /\ agent' = [agent EXCEPT ![j] = IdleTask]
  /\ UNCHANGED <<provisioningStatus, docker, web, misled>>

-----------------------------------------------------------------------------
(* The containers of prepared servers (ManagedLifecycle), and others.      *)

ContainerStep(s, from, to) ==
  /\ container[s] = from
  /\ container' = [container EXCEPT ![s] = to]
  /\ UNCHANGED <<provisioningStatus, network, volume, web, agent, faults, misled>>

\* `docker create --network` does not look for the network; `docker start` does.
ContainerCreate(s) ==
  provisioningStatus[s] = "RESOURCES_PREPARED" /\ ContainerStep(s, "none", "stopped")
ContainerStart(s)  == network # "none" /\ ContainerStep(s, "stopped", "running")
ContainerStop(s)   == ContainerStep(s, "running", "stopped")
ContainerRemove(s) == ContainerStep(s, "stopped", "none")

ForeignNetwork ==
  /\ network = "none"
  /\ Inject("foreign")
  /\ network' = "foreign"
  /\ UNCHANGED <<provisioningStatus, volume, container, web, agent, misled>>

-----------------------------------------------------------------------------

WebStep(j) ==
  \/ CreateRecord(j) \/ CallAgent(j) \/ ConnectionLost(j)
  \/ SaveStatus(j) \/ ReportRemoval(j)

AgentStep(j) == AgentProbe(j) \/ AgentFindManaged(j) \/ AgentFindAny(j) \/ AgentAct(j)

Removing(j) == web[j].op = "removeNetwork" \/ agent[j].op = "removeNetwork"
Fresh == [created |-> {}, absent |-> FALSE]

History ==
  since' = [j \in Jobs |->
    IF Removing(j)'
    THEN [created |-> since[j].created
                        \cup {s \in Servers : container[s] = "none" /\ container'[s] # "none"},
          absent  |-> since[j].absent \/ network' = "none"]
    ELSE Fresh]

Next ==
  /\ \/ \E j \in Jobs :
          \/ \E op \in {"prepare", "removeNetwork"}, s \in Servers : Submit(j, op, s)
          \/ WebStep(j) \/ AgentStep(j)
          \/ Timeout(j) \/ WebCrash(j) \/ AgentCrash(j)
     \/ \E s \in Servers :
          ContainerCreate(s) \/ ContainerStart(s) \/ ContainerStop(s) \/ ContainerRemove(s)
     \/ ForeignNetwork
  /\ History

\* A service and a handler that can go on do so.  Nothing is assumed of the owner.
Fairness == \A j \in Jobs :
  WF_vars(WebStep(j) /\ History) /\ WF_vars(AgentStep(j) /\ History)

Spec == Init /\ [][Next]_vars /\ Fairness

-----------------------------------------------------------------------------
(* Properties.                                                             *)

\* "jeder Versuch ist auditierbar" (provisioning.ts:19): whatever fails or crashes, no
\* volume is left that no record leads to; and a record that says prepared has its
\* managed volume, unless a failed listing misled the handler (docker-write.ts:59).
VolumesAreAccountedFor == \A s \in Servers :
  /\ volume[s] = "managed" => provisioningStatus[s] # "none"
  /\ provisioningStatus[s] = "RESOURCES_PREPARED" => volume[s] = "managed" \/ s \in misled

\* What the owner is told of the network is true: it was gone at some time since the
\* request, unless a failed listing misled the handler (docker-network-remove.ts:62-77).
RemovalRepliesAreTrue == \A j \in Jobs :
  web[j].reply \in {"removed", "alreadyRemoved"} => since[j].absent \/ web[j].srv \in misled

\* A container loses the network only if it was created while the removal was under
\* way (docker-network-remove.ts:45), and a network of somebody else is lost only if
\* it took the place of ours meanwhile (docker-network-remove.ts:59).
NetworkOutlivesContainers ==
  [][(network # "none" /\ network' = "none") =>
       \E j \in Jobs :
         /\ agent[j].op = "removeNetwork"
         /\ {s \in Servers : container[s] # "none"} \subseteq since[j].created
         /\ network = "managed" \/ since[j].absent]_vars

\* Only a fault leaves a record in DRAFT, from where no page leads on
\* (provisioning.ts:68, provisioning-helpers.ts:36).
DraftIsLeft == \A s \in Servers :
  (provisioningStatus[s] = "DRAFT") ~> (provisioningStatus[s] # "DRAFT" \/ faults > 0)

-----------------------------------------------------------------------------
(* The contract.                                                           *)

Contract ==
  INSTANCE ServerResources WITH status <- provisioningStatus, box <- container

\* Whatever requests overlap, time out, crash or are answered late: nothing is made
\* in docker before the record is there, the outcome of a DRAFT is written once and
\* only to what docker is, volumes stay, and a network goes only on the request of a
\* recorded server while nothing runs on it (provisioning.ts:68, docker-write.ts:59,
\* docker-network-remove.ts:83).
ImplementsContract == Contract!Spec

=============================================================================
