------------------------- MODULE ManagedLifecycle -------------------------
(***************************************************************************)
(* The lifecycle of a managed TeamSpeak server: the web services of        *)
(* apps/web/src/core (one record per server in the database) and the       *)
(* container handlers of apps/agent/src (one `docker` call after another), *)
(* which share nothing but a request and its reply.                        *)
(*                                                                         *)
(* A job is one OWNER request with its web service and the agent handler   *)
(* the service calls.  Every database access and every docker call is a    *)
(* step of its own, so the steps of several jobs interleave.  No code on   *)
(* either side takes a lock, and no database write is conditional.  When   *)
(* the web side gives up (AbortController timeout) the agent handler runs  *)
(* on; a job is free again when both sides have ended.  With one job the   *)
(* model is therefore an owner who waits for the agent to come to rest,    *)
(* with two it is two requests, or one and the leftover of another.        *)
(*                                                                         *)
(* Abstracted: audit entries, names, ports and plans (static per server),  *)
(* AGENT_DOCKER_WRITE_ENABLED and the encryption key (both configured),    *)
(* timestamps (booleans), and the wording of error keys.                   *)
(*                                                                         *)
(* A definition whose name begins with Bug_ is not part of the model: it   *)
(* is the next definition with a plausible mistake, for showing that a     *)
(* property notices it.                                                    *)
(***************************************************************************)
EXTENDS Naturals

CONSTANTS
  Servers,    \* managed ServerInstance records, each with its instanceId
  Jobs,       \* requests that can be under way at the same time
  Ops,        \* the operations the owner uses in this instance
  StaleTabs,  \* TRUE: the owner may use a page rendered for an older record
  Faults,     \* the kinds of fault that can happen
  MaxFaults   \* bound on the number of faults of a behaviour

AgentOps   == {"create", "start", "stop", "remove", "removeVolume", "health"}
Operations == AgentOps \cup {"prepareContainer", "restart", "archive"}

FaultKinds ==
  {"probe",      \* the first docker call of a handler fails
   "list",       \* a later `docker ... ls` fails (reads as an empty list)
   "command",    \* the docker command fails and changes nothing
   "ack",        \* the CLI is killed after 5 s although the command took effect
   "timeout",    \* the web side aborts while the agent handler still works
   "webCrash",   \* the web process dies between two steps of a service
   "agentCrash", \* the agent process dies between two steps of a handler
   "foreign"}    \* somebody creates an unmanaged container of the same name

ASSUME LifecycleAssumption ==
  /\ Ops \subseteq Operations
  /\ StaleTabs \in BOOLEAN
  /\ Faults \subseteq FaultKinds
  /\ MaxFaults \in Nat

VARIABLES
  rec,            \* the database: one ServerInstance record per server
  container,      \* docker: the container of each server's name
  volume,         \* docker: the volume of each server's name
  web,            \* the web service of each job
  agent,          \* the agent handler of each job
  consented,      \* history: servers for which the license was ever accepted
  lossConfirmed,  \* history: servers for which data loss was ever confirmed
  faults          \* number of faults so far

engine  == <<container, volume>>
history == <<consented, lossConfirmed>>
vars    == <<rec, container, volume, web, agent, consented, lossConfirmed, faults>>

-----------------------------------------------------------------------------
(* State.                                                                  *)

Statuses   == {"RESOURCES_PREPARED", "CONTAINER_PENDING", "CONTAINER_CREATED", "RUNNING"}
RunStates  == {"unknown", "running", "stopped"}
ErrorKeys  == {"none", "unreachable", "failed"}
Forms      == {"plain", "accepted", "refused", "keep", "remove"}
WebPcs     == {"idle", "read", "wait", "refused", "credential", "pending", "archive", "finalize"}
AgentPcs   == {"idle", "probe", "containers", "managed", "foreign", "running", "act"}

\* Replies after which a web service writes its success state.
SuccessReplies ==
  {"created", "exists", "started", "alreadyRunning", "stopped", "alreadyStopped",
   "removed", "alreadyRemoved"}
\* Replies after which it only writes an error key.
ErrorReplies ==
  {"stillRunning", "containerStillExists", "conflict", "notFound", "unavailable", "error"}
\* The runtime states a health check reports.
RuntimeReplies == {"runtimeRunning", "runtimeStopped"}
Replies == SuccessReplies \cup ErrorReplies \cup RuntimeReplies

ServerRecord ==
  [provisioningStatus : Statuses,
   runState           : RunStates,
   managedVolumeState : {"present", "removed"},
   archived           : BOOLEAN,
   credential         : BOOLEAN,
   credentialsRemoved : BOOLEAN,
   errorKey           : ErrorKeys]

ContainerStates == {"none", "stopped", "running", "foreign"}
VolumeStates    == {"none", "managed", "unlabelled"}

IdleRequest ==
  [pc |-> "idle", op |-> "none", srv |-> "none", form |-> "plain",
   chain |-> FALSE, reply |-> "none", hadCredential |-> FALSE]
IdleTask == [pc |-> "idle", op |-> "none", srv |-> "none"]

Request ==
  [pc : WebPcs \ {"idle"}, op : Operations, srv : Servers, form : Forms,
   chain : BOOLEAN, reply : Replies \cup {"none"}, hadCredential : BOOLEAN]
Task == [pc : AgentPcs \ {"idle"}, op : AgentOps, srv : Servers]

TypeOK ==
  /\ rec \in [Servers -> ServerRecord]
  /\ container \in [Servers -> ContainerStates]
  /\ volume \in [Servers -> VolumeStates]
  /\ web \in [Jobs -> Request \cup {IdleRequest}]
  /\ agent \in [Jobs -> Task \cup {IdleTask}]
  /\ consented \subseteq Servers
  /\ lossConfirmed \subseteq Servers
  /\ faults \in 0 .. MaxFaults

\* A record as prepareManagedTs3Resources leaves it when the agent answers ok.
PreparedRecord ==
  [provisioningStatus |-> "RESOURCES_PREPARED", runState |-> "unknown",
   managedVolumeState |-> "present", archived |-> FALSE, credential |-> FALSE,
   credentialsRemoved |-> FALSE, errorKey |-> "none"]

Init ==
  /\ rec = [s \in Servers |-> PreparedRecord]
  /\ container = [s \in Servers |-> "none"]
  /\ volume = [s \in Servers |-> "managed"]
  /\ web = [j \in Jobs |-> IdleRequest]
  /\ agent = [j \in Jobs |-> IdleTask]
  /\ consented = {}
  /\ lossConfirmed = {}
  /\ faults = 0

Inject(kind) ==
  /\ kind \in Faults
  /\ faults < MaxFaults
  /\ faults' = faults + 1

-----------------------------------------------------------------------------
(* The web side: guards.                                                   *)

\* The actions the server page renders for a record; an archived one has none.
PageOffers(r) ==
  CASE r.archived -> {}
    [] ~r.archived /\ r.provisioningStatus = "RESOURCES_PREPARED" ->
         {"prepareContainer", "archive"}
           \cup (IF r.managedVolumeState = "removed" THEN {} ELSE {"removeVolume"})
    [] ~r.archived /\ r.provisioningStatus = "CONTAINER_PENDING" -> {"create"}
    [] ~r.archived /\ r.provisioningStatus = "CONTAINER_CREATED" -> {"start", "remove"}
    [] ~r.archived /\ r.provisioningStatus = "RUNNING" -> {"stop", "restart", "health"}

\* What the form of an operation carries: the license box, the confirmations
\* with the typed phrase, the decision about the credential.
FormsFor(o) ==
  CASE o \in {"start", "restart", "removeVolume"} -> {"accepted", "refused"}
    [] o = "archive" -> {"keep", "remove", "refused"}
    [] OTHER -> {"plain"}

resolveContainerPrepare(r)  == r.provisioningStatus = "RESOURCES_PREPARED"
resolveContainerCreate(r)   == r.provisioningStatus \in {"CONTAINER_PENDING", "CONTAINER_CREATED"}
Bug_StartWithoutLicense(r, f) == r.provisioningStatus \in {"CONTAINER_CREATED", "RUNNING"}
resolveContainerStart(r, f) ==
  /\ r.provisioningStatus \in {"CONTAINER_CREATED", "RUNNING"}
  /\ f = "accepted"
resolveContainerStop(r)     == r.provisioningStatus \in {"RUNNING", "CONTAINER_CREATED"}
resolveRestart(r, f)        == r.provisioningStatus = "RUNNING" /\ f = "accepted"
resolveContainerRemove(r)   == r.provisioningStatus \in {"CONTAINER_CREATED", "RESOURCES_PREPARED"}
Bug_NoConfirmation(r, f) == r.provisioningStatus = "RESOURCES_PREPARED"
mapVolumeConfirmationGuard(r, f) ==
  r.provisioningStatus = "RESOURCES_PREPARED" /\ f = "accepted"
mapArchiveGuard(r, f) ==
  ~r.archived /\ r.provisioningStatus = "RESOURCES_PREPARED" /\ f # "refused"
resolveHealthcheck(r) == r.provisioningStatus = "RUNNING"

Admits(o, r, f) ==
  \/ o = "prepareContainer" /\ resolveContainerPrepare(r)
  \/ o = "create"           /\ resolveContainerCreate(r) /\ r.credential
  \/ o = "start"            /\ resolveContainerStart(r, f)
  \/ o = "stop"             /\ resolveContainerStop(r)
  \/ o = "restart"          /\ resolveRestart(r, f)
  \/ o = "remove"           /\ resolveContainerRemove(r)
  \/ o = "removeVolume"     /\ mapVolumeConfirmationGuard(r, f)
  \/ o = "archive"          /\ mapArchiveGuard(r, f)
  \/ o = "health"           /\ resolveHealthcheck(r)

-----------------------------------------------------------------------------
(* The web side: what a service writes.                                    *)

createSuccess(r) == [r EXCEPT !.provisioningStatus = "CONTAINER_CREATED", !.errorKey = "none"]
startSuccess(r)  == [r EXCEPT !.provisioningStatus = "RUNNING", !.runState = "running",
                              !.errorKey = "none"]
stopSuccess(r)   == [r EXCEPT !.provisioningStatus = "CONTAINER_CREATED",
                              !.runState = "stopped", !.errorKey = "none"]
removeSuccessUpdate(r) == [r EXCEPT !.provisioningStatus = "RESOURCES_PREPARED",
                                    !.runState = "unknown", !.errorKey = "none"]
volumeRemoveSuccessUpdate(r) == [r EXCEPT !.managedVolumeState = "removed", !.errorKey = "none"]

SuccessUpdate(o, r) ==
  CASE o = "create" -> createSuccess(r)
    [] o = "start"  -> startSuccess(r)
    [] o = "stop"   -> stopSuccess(r)
    [] o = "remove" -> removeSuccessUpdate(r)
    [] o = "removeVolume" -> volumeRemoveSuccessUpdate(r)

Bug_RawRuntime(reply) == reply
runStateForRuntime(reply) ==
  CASE reply = "runtimeRunning" -> "running"
    [] reply = "runtimeStopped" -> "stopped"
    [] OTHER -> "unknown"

Bug_AnyReplyIsSuccess(o, reply, r) ==
  IF o = "health" THEN [r EXCEPT !.runState = runStateForRuntime(reply)]
                  ELSE SuccessUpdate(o, r)

\* A health check writes what it saw and never an error key of the lifecycle.
ReplyUpdate(o, reply, r) ==
  IF o = "health" THEN [r EXCEPT !.runState = runStateForRuntime(reply)]
  ELSE IF reply \in SuccessReplies THEN SuccessUpdate(o, r)
  ELSE [r EXCEPT !.errorKey = "failed"]

Bug_NoReplyIsIgnored(o, r) == r

NoReplyUpdate(o, r) ==
  IF o = "health" THEN [r EXCEPT !.runState = "unknown"]
                  ELSE [r EXCEPT !.errorKey = "unreachable"]

-----------------------------------------------------------------------------
(* The web side: steps of a service.                                       *)

\* A service returns to its caller: the form action, or the restart, which goes
\* on with the start service after a successful stop and with its own error key
\* otherwise.
AfterService(w) ==
  IF ~w.chain THEN IdleRequest
  ELSE IF w.op = "stop" /\ w.reply \in SuccessReplies
       THEN [w EXCEPT !.op = "start", !.pc = "read", !.reply = "none"]
       ELSE [w EXCEPT !.pc = "finalize"]

Return(j)     == web' = [web EXCEPT ![j] = AfterService(@)]
WebGoto(j, p) == web' = [web EXCEPT ![j].pc = p]
RecordOf(j)   == rec[web[j].srv]
Write(j, r)   == rec' = [rec EXCEPT ![web[j].srv] = r]

\* The owner sends a form of the page.
Submit(j, s, o, f) ==
  /\ web[j] = IdleRequest /\ agent[j] = IdleTask
  /\ o \in Ops /\ f \in FormsFor(o)
  /\ StaleTabs \/ o \in PageOffers(rec[s])
  /\ web' = [web EXCEPT ![j] = [IdleRequest EXCEPT !.pc = "read", !.op = o,
                                                   !.srv = s, !.form = f]]
  /\ consented' = IF o \in {"start", "restart"} /\ f = "accepted"
                  THEN consented \cup {s} ELSE consented
  /\ lossConfirmed' = IF o = "removeVolume" /\ f = "accepted"
                      THEN lossConfirmed \cup {s} ELSE lossConfirmed
  /\ UNCHANGED <<rec, engine, agent, faults>>

\* The service reads the record and its guard refuses: no write, no agent call.
Refuse(j) ==
  /\ web[j].pc = "read"
  /\ ~Admits(web[j].op, RecordOf(j), web[j].form)
  /\ ~(web[j].op = "remove" /\ RecordOf(j).provisioningStatus = "RUNNING")
  /\ Return(j)
  /\ UNCHANGED <<rec, engine, agent, history, faults>>

\* The remove service refuses a server that runs by its record, and says so there.
RefuseRunning(j) ==
  /\ web[j].pc = "read" /\ web[j].op = "remove"
  /\ RecordOf(j).provisioningStatus = "RUNNING"
  /\ web' = [web EXCEPT ![j].pc = "refused", ![j].reply = "stillRunning"]
  /\ UNCHANGED <<rec, engine, agent, history, faults>>

CallAgent(j) ==
  /\ web[j].pc = "read" /\ web[j].op \in AgentOps
  /\ Admits(web[j].op, RecordOf(j), web[j].form)
  /\ WebGoto(j, "wait")
  /\ agent' = [agent EXCEPT ![j] =
                 [pc |-> IF web[j].op = "health" THEN "managed" ELSE "probe",
                  op |-> web[j].op, srv |-> web[j].srv]]
  /\ UNCHANGED <<rec, engine, history, faults>>

\* The agent's reply arrives and the service writes it, whatever the record
\* has become in the meantime.
SaveReply(j) ==
  /\ web[j].pc \in {"wait", "refused"} /\ web[j].reply # "none"
  /\ Write(j, ReplyUpdate(web[j].op, web[j].reply, RecordOf(j)))
  /\ Return(j)
  /\ UNCHANGED <<engine, agent, history, faults>>

\* The service writes that the agent could not be reached.
SaveNoReply(j) ==
  /\ web[j].pc = "wait"
  /\ Write(j, NoReplyUpdate(web[j].op, RecordOf(j)))
  /\ web' = [web EXCEPT ![j] = AfterService([@ EXCEPT !.reply = "none"])]
  /\ UNCHANGED <<engine, history>>

\* The AbortController fires: the handler runs on, or its answer is lost, or
\* (the request never arrived) it has not made a docker call and never will.
Timeout(j) ==
  /\ agent[j] # IdleTask \/ web[j].reply # "none"
  /\ SaveNoReply(j)
  /\ Inject("timeout")
  /\ \/ agent' = agent
     \/ agent[j].pc = "probe" /\ agent' = [agent EXCEPT ![j] = IdleTask]

\* The agent died and took the connection with it.
ConnectionLost(j) ==
  /\ agent[j] = IdleTask /\ web[j].reply = "none"
  /\ SaveNoReply(j)
  /\ UNCHANGED <<agent, faults>>

Bug_StatusWithoutCredential(j) ==
  /\ web[j].pc = "read" /\ web[j].op = "prepareContainer"
  /\ Admits(web[j].op, RecordOf(j), web[j].form)
  /\ WebGoto(j, "pending")
  /\ UNCHANGED <<rec, engine, agent, history, faults>>

\* prepareManagedContainer, no agent involved: read the record and whether it
\* has a credential, store a credential if it had none, then write the status.
ReadForPrepare(j) ==
  /\ web[j].pc = "read" /\ web[j].op = "prepareContainer"
  /\ Admits(web[j].op, RecordOf(j), web[j].form)
  /\ WebGoto(j, IF RecordOf(j).credential THEN "pending" ELSE "credential")
  /\ UNCHANGED <<rec, engine, agent, history, faults>>

\* serverInstanceId is unique: a second credential is an exception that ends
\* the service.
StoreCredential(j) ==
  /\ web[j].pc = "credential"
  /\ IF RecordOf(j).credential
     THEN Return(j) /\ UNCHANGED rec
     ELSE WebGoto(j, "pending") /\ Write(j, [RecordOf(j) EXCEPT !.credential = TRUE])
  /\ UNCHANGED <<engine, agent, history, faults>>

MarkPending(j) ==
  /\ web[j].pc = "pending"
  /\ Write(j, [RecordOf(j) EXCEPT !.provisioningStatus = "CONTAINER_PENDING",
                                  !.errorKey = "none"])
  /\ Return(j)
  /\ UNCHANGED <<engine, agent, history, faults>>

Bug_ArchiveForgetsCredential(j) ==
  /\ web[j].pc = "read" /\ web[j].op = "archive"
  /\ Admits(web[j].op, RecordOf(j), web[j].form)
  /\ WebGoto(j, "archive")
  /\ UNCHANGED <<rec, engine, agent, history, faults>>

\* archiveManagedServer: the credential is deleted only if the read saw one.
ReadForArchive(j) ==
  /\ web[j].pc = "read" /\ web[j].op = "archive"
  /\ Admits(web[j].op, RecordOf(j), web[j].form)
  /\ web' = [web EXCEPT ![j].pc = "archive", ![j].hadCredential = RecordOf(j).credential]
  /\ UNCHANGED <<rec, engine, agent, history, faults>>

Archive(j) ==
  /\ web[j].pc = "archive"
  /\ Write(j, IF web[j].form = "remove" /\ web[j].hadCredential
              THEN [RecordOf(j) EXCEPT !.archived = TRUE, !.credential = FALSE,
                                       !.credentialsRemoved = TRUE]
              ELSE [RecordOf(j) EXCEPT !.archived = TRUE])
  /\ Return(j)
  /\ UNCHANGED <<engine, agent, history, faults>>

\* Restarts by calling the restart service again.
Bug_RestartCallsItself(j) ==
  /\ web[j].pc = "read" /\ web[j].op = "restart"
  /\ Admits(web[j].op, RecordOf(j), web[j].form)
  /\ web' = [web EXCEPT ![j].chain = TRUE]
  /\ UNCHANGED <<rec, engine, agent, history, faults>>

\* restartManagedContainerForServer: the stop service, then the start service.
BeginRestart(j) ==
  /\ web[j].pc = "read" /\ web[j].op = "restart"
  /\ Admits(web[j].op, RecordOf(j), web[j].form)
  /\ web' = [web EXCEPT ![j].op = "stop", ![j].chain = TRUE]
  /\ UNCHANGED <<rec, engine, agent, history, faults>>

FinishRestart(j) ==
  /\ web[j].pc = "finalize"
  /\ Write(j, [RecordOf(j) EXCEPT !.errorKey =
                 IF web[j].op = "start" /\ web[j].reply \in SuccessReplies
                 THEN "none" ELSE "failed"])
  /\ web' = [web EXCEPT ![j] = IdleRequest]
  /\ UNCHANGED <<engine, agent, history, faults>>

\* The web process restarts; the agent handler of the request runs on.
WebCrash(j) ==
  /\ web[j] # IdleRequest
  /\ Inject("webCrash")
  /\ web' = [web EXCEPT ![j] = IdleRequest]
  /\ UNCHANGED <<rec, engine, agent, history>>

-----------------------------------------------------------------------------
(* Docker, as the handlers use it.                                         *)

ManagedContainer(s) == container[s] \in {"stopped", "running"}

\* Does `docker <command> <name>` succeed?  A name is taken by any container;
\* rm and volume rm carry no force flag.
CommandPossible(o, s) ==
  CASE o = "create" -> container[s] = "none"
    [] o \in {"start", "stop"} -> container[s] # "none"
    [] o = "remove" -> container[s] \in {"stopped", "foreign"}
    [] o = "removeVolume" -> volume[s] # "none" /\ ~ManagedContainer(s)

\* What it does.  `create -v` makes a missing volume, without labels.
CommandEffect(o, s) ==
  /\ container' = [container EXCEPT ![s] =
       CASE o = "create" -> "stopped"
         [] o = "start" /\ @ = "stopped" -> "running"
         [] o = "stop" /\ @ = "running" -> "stopped"
         [] o = "remove" -> "none"
         [] OTHER -> @]
  /\ volume' = [volume EXCEPT ![s] =
       CASE o = "create" /\ @ = "none" -> "unlabelled"
         [] o = "removeVolume" -> "none"
         [] OTHER -> @]

\* The result of a `docker ... ls` that should show `truth`.
Lists(truth, seen) ==
  \/ seen = truth /\ UNCHANGED faults
  \/ truth /\ ~seen /\ Inject("list")

-----------------------------------------------------------------------------
(* The agent: its handlers.                                                *)
(*                                                                         *)
(* All handlers look before they act, and differ only in what follows from *)
(* what they see: another look (a program counter), "act" (the docker      *)
(* command), "inspect" (the state in the list), or a reply.                *)
(*   probed   the first listing worked                                     *)
(*   managed  the name is in the list of managed resources                 *)
(*   free     it is not, nor in the list of all resources                  *)
(*   up, down it is, or is not, in the list of running containers          *)
(*   done     the command succeeded                                        *)

Bug_ExistingIsConflict ==
  [probed |-> "managed", managed |-> "conflict", free |-> "act", done |-> "created"]
createTs3Container ==
  [probed |-> "managed", managed |-> "exists", free |-> "act", done |-> "created"]
startTs3Container ==
  [probed |-> "managed", managed |-> "running", free |-> "notFound",
   up |-> "alreadyRunning", down |-> "act", done |-> "started"]
stopTs3Container ==
  [probed |-> "managed", managed |-> "running", free |-> "notFound",
   up |-> "act", down |-> "alreadyStopped", done |-> "stopped"]
removeTs3Container ==
  [probed |-> "managed", managed |-> "running", free |-> "alreadyRemoved",
   up |-> "stillRunning", down |-> "act", done |-> "removed"]
removeTs3Volume ==
  [probed |-> "containers", managed |-> "act", free |-> "alreadyRemoved", done |-> "removed"]
getManagedContainerStatus ==
  [managed |-> "inspect", free |-> "notFound"]

Handler(o) ==
  CASE o = "create" -> createTs3Container
    [] o = "start"  -> startTs3Container
    [] o = "stop"   -> stopTs3Container
    [] o = "remove" -> removeTs3Container
    [] o = "removeVolume" -> removeTs3Volume
    [] o = "health" -> getManagedContainerStatus

-----------------------------------------------------------------------------
(* The agent: one docker call per step.                                    *)

AgentGoto(j, p) == agent' = [agent EXCEPT ![j].pc = p] /\ UNCHANGED web

\* The handler answers; nobody listens if the service has given up.
Reply(j, answer) ==
  /\ agent' = [agent EXCEPT ![j] = IdleTask]
  /\ web' = IF web[j].pc = "wait" THEN [web EXCEPT ![j].reply = answer] ELSE web

normalizeContainerState(state) ==
  IF state = "running" THEN "runtimeRunning" ELSE "runtimeStopped"

Proceed(j, next) ==
  CASE next = "inspect" -> Reply(j, normalizeContainerState(container[agent[j].srv]))
    [] next \in AgentPcs -> AgentGoto(j, next)
    [] next \in Replies  -> Reply(j, next)

\* The availability probe all writing handlers begin with.
AgentProbe(j) ==
  /\ agent[j].pc = "probe"
  /\ \/ /\ UNCHANGED faults
        /\ Proceed(j, Handler(agent[j].op).probed)
     \/ Inject("probe") /\ Reply(j, "unavailable")
  /\ UNCHANGED <<rec, engine, history>>

\* The volume handler first looks for a container of the instance.
AgentFindContainer(j) ==
  /\ agent[j].pc = "containers"
  /\ \E seen \in BOOLEAN :
       /\ Lists(ManagedContainer(agent[j].srv), seen)
       /\ IF seen THEN Reply(j, "containerStillExists") ELSE AgentGoto(j, "managed")
  /\ UNCHANGED <<rec, engine, history>>

Bug_ListWithoutLabel(o, s) ==
  IF o = "removeVolume" THEN volume[s] # "none" ELSE container[s] # "none"

ManagedTarget(o, s) ==
  IF o = "removeVolume" THEN volume[s] = "managed" ELSE ManagedContainer(s)

AgentFindManaged(j) ==
  /\ agent[j].pc = "managed"
  /\ LET o == agent[j].op
         s == agent[j].srv
     IN  \/ \E seen \in BOOLEAN :
              /\ Lists(ManagedTarget(o, s), seen)
              /\ IF seen THEN Proceed(j, Handler(o).managed)
                 ELSE (o = "health" => ~ManagedTarget(o, s)) /\ AgentGoto(j, "foreign")
         \/ o = "health" /\ Inject("list") /\ Reply(j, "unavailable")
  /\ UNCHANGED <<rec, engine, history>>

AnyTarget(o, s) == IF o = "removeVolume" THEN volume[s] # "none" ELSE container[s] # "none"

\* The name is not managed: somebody else's, or free.
AgentFindForeign(j) ==
  /\ agent[j].pc = "foreign"
  /\ \E seen \in BOOLEAN :
       /\ Lists(AnyTarget(agent[j].op, agent[j].srv), seen)
       /\ Proceed(j, IF seen THEN "conflict" ELSE Handler(agent[j].op).free)
  /\ UNCHANGED <<rec, engine, history>>

AgentFindRunning(j) ==
  /\ agent[j].pc = "running"
  /\ \E seen \in BOOLEAN :
       /\ Lists(container[agent[j].srv] = "running", seen)
       /\ Proceed(j, IF seen THEN Handler(agent[j].op).up ELSE Handler(agent[j].op).down)
  /\ UNCHANGED <<rec, engine, history>>

Bug_FailureIsSuccess(j) ==
  LET o == agent[j].op
      s == agent[j].srv
  IN  /\ agent[j].pc = "act"
      /\ \/ CommandPossible(o, s) /\ CommandEffect(o, s) /\ UNCHANGED faults
         \/ CommandPossible(o, s) /\ UNCHANGED engine /\ Inject("command")
         \/ ~CommandPossible(o, s) /\ UNCHANGED <<engine, faults>>
      /\ Reply(j, Handler(o).done)
      /\ UNCHANGED <<rec, history>>

AgentAct(j) ==
  LET o == agent[j].op
      s == agent[j].srv
  IN  /\ agent[j].pc = "act"
      /\ \/ CommandPossible(o, s) /\ CommandEffect(o, s) /\ UNCHANGED faults
            /\ Reply(j, Handler(o).done)
         \/ CommandPossible(o, s) /\ CommandEffect(o, s) /\ Inject("ack")
            /\ Reply(j, "error")
         \/ CommandPossible(o, s) /\ UNCHANGED engine /\ Inject("command")
            /\ Reply(j, "error")
         \/ ~CommandPossible(o, s) /\ UNCHANGED <<engine, faults>>
            /\ Reply(j, "error")
      /\ UNCHANGED <<rec, history>>

AgentCrash(j) ==
  /\ agent[j] # IdleTask
  /\ Inject("agentCrash")
  /\ agent' = [agent EXCEPT ![j] = IdleTask]
  /\ UNCHANGED <<rec, engine, web, history>>

\* Somebody else creates a container of the server's name.
ForeignContainer(s) ==
  /\ container[s] = "none"
  /\ Inject("foreign")
  /\ container' = [container EXCEPT ![s] = "foreign"]
  /\ UNCHANGED <<rec, volume, web, agent, history>>

-----------------------------------------------------------------------------
(* The specification.                                                      *)

WebStep(j) ==
  \/ Refuse(j) \/ RefuseRunning(j) \/ CallAgent(j) \/ SaveReply(j)
  \/ ConnectionLost(j) \/ ReadForPrepare(j) \/ StoreCredential(j)
  \/ MarkPending(j) \/ ReadForArchive(j) \/ Archive(j)
  \/ BeginRestart(j) \/ FinishRestart(j)

AgentStep(j) ==
  \/ AgentProbe(j) \/ AgentFindContainer(j) \/ AgentFindManaged(j)
  \/ AgentFindForeign(j) \/ AgentFindRunning(j) \/ AgentAct(j)

OwnerStep(j) == \E s \in Servers, o \in Operations, f \in Forms : Submit(j, s, o, f)

Crash(j) == WebCrash(j) \/ AgentCrash(j) \/ Timeout(j)

Next ==
  \/ \E j \in Jobs : OwnerStep(j) \/ WebStep(j) \/ AgentStep(j) \/ Crash(j)
  \/ \E s \in Servers : ForeignContainer(s)

Spec == Init /\ [][Next]_vars

\* Node runs what is runnable: a service or a handler under way goes on.  The
\* owner need not submit anything and no fault need happen.
Fairness == \A j \in Jobs : WF_vars(WebStep(j)) /\ WF_vars(AgentStep(j))

FairSpec == Spec /\ Fairness

-----------------------------------------------------------------------------
(* Properties.                                                             *)

\* The license gate (container-start.ts, docker-start.ts): a server's container
\* runs only if the owner accepted the TS3 license for that server at some time,
\* whatever the requests, crashes and leftovers in between.
OnlyLicensedServersRun ==
  \A s \in Servers : container[s] = "running" => s \in consented

\* The handlers look before they act, so the command must still meet what was
\* seen: a docker command that changes a resource is only ever aimed at one
\* with SpeakCore's labels, never at another owner's of the same name.
ForeignNeverTargeted ==
  \A j \in Jobs : agent[j].pc = "act" =>
    /\ agent[j].op \in {"start", "stop", "remove"} => container[agent[j].srv] # "foreign"
    /\ agent[j].op = "removeVolume" => volume[agent[j].srv] # "unlabelled"

\* A credential is stored before the status that lets a container be made, and
\* create refuses without one: neither a status past the preparation nor a
\* container of ours is without the credential it was created with, whatever
\* crashes between the two writes, until an archive has deleted it on request.
CredentialComesFirst ==
  \A s \in Servers :
    rec[s].provisioningStatus # "RESOURCES_PREPARED" \/ ManagedContainer(s)
      => rec[s].credential \/ rec[s].credentialsRemoved

\* The state a success reply claims for its operation.
Goal(o, s) ==
  CASE o = "create" -> ManagedContainer(s)
    [] o = "start"  -> container[s] = "running"
    [] o = "stop"   -> container[s] # "running"
    [] o = "remove" -> ~ManagedContainer(s)
    [] o = "removeVolume" -> volume[s] = "none"
    [] OTHER -> TRUE

\* A handler reports success only at a moment at which the state it reports is
\* the state docker is in: created/exists, started/running, stopped, removed
\* and their "already" forms (the idempotence comments of the handlers).
SuccessRepliesAreTrue ==
  [][\A j \in Jobs :
       (web[j].pc = "wait" /\ web[j].reply = "none" /\ web'[j].reply \in SuccessReplies)
         => Goal(web[j].op, web[j].srv)']_vars

\* Data is lost only if the owner confirmed it for that server, and never under
\* an existing container of ours.
DataLossIsConfirmed ==
  [][\A s \in Servers : (volume[s] # "none" /\ volume'[s] = "none")
       => s \in lossConfirmed /\ ~ManagedContainer(s)]_vars

\* A record that says the data was removed is right, whoever answered what and
\* whatever was made since: from then on no backup of it can be asked for
\* (volume-remove-helpers.ts:72, volume-backup.ts:38).  What docker makes again
\* for a new container is a volume without labels, not the data.
RemovedDataIsGone ==
  \A s \in Servers : rec[s].managedVolumeState = "removed" => volume[s] # "managed"

\* The record says what docker has.
DbMatchesDocker(s) ==
  CASE rec[s].provisioningStatus \in {"RESOURCES_PREPARED", "CONTAINER_PENDING"} ->
         ~ManagedContainer(s)
    [] rec[s].provisioningStatus = "CONTAINER_CREATED" ->
         container[s] = "stopped" /\ rec[s].runState # "running"
    [] rec[s].provisioningStatus = "RUNNING" -> container[s] = "running"

Settled(s) == \A j \in Jobs : web[j].srv # s /\ agent[j].srv # s

\* When nothing is under way for a server and its record carries no error key,
\* status and run state are what docker has: a difference is never silent.
NoSilentDivergence ==
  \A s \in Servers : Settled(s) /\ rec[s].errorKey = "none" => DbMatchesDocker(s)

\* An owner who archives with the decision to delete the credential has none
\* afterwards.
RemoveDecisionDeletesCredential ==
  [][\A j \in Jobs :
       (web[j].pc = "archive" /\ web[j].form = "remove" /\ web'[j] = IdleRequest
         /\ rec'[web[j].srv].archived)
         => ~rec'[web[j].srv].credential]_vars

\* Every request is answered: no service and no handler goes on for ever, the
\* stop-then-start chain of a restart included.
RequestsEnd ==
  \A j \in Jobs : (web[j] # IdleRequest \/ agent[j] # IdleTask)
                    ~> (web[j] = IdleRequest /\ agent[j] = IdleTask)

\* An owner who uses again and again what the page offers again and again.
\* (An assumption about a person, made only for AlwaysReconciled.)
PersistentOwner ==
  \A o \in {"prepareContainer", "create", "start", "stop", "remove"} :
    SF_vars(\E j \in Jobs, s \in Servers, f \in {"plain", "accepted"} : Submit(j, s, o, f))

RecoverySpec == FairSpec /\ PersistentOwner

\* After finitely many faults the record and docker agree again and again: no
\* sequence of faults, false "already removed" answers included, leaves a
\* server that the actions of its page cannot bring back.
AlwaysReconciled ==
  \A s \in Servers : []<>(Settled(s) /\ DbMatchesDocker(s))

Contract ==
  INSTANCE ServerLifecycle WITH
    status   <- [s \in Servers |-> rec[s].provisioningStatus],
    box      <- [s \in Servers |-> IF ManagedContainer(s) THEN container[s] ELSE "none"],
    archived <- {s \in Servers : rec[s].archived},
    licensed <- consented

\* What a single waiting owner observes is the documented lifecycle.
ImplementsContract == Contract!Spec

=============================================================================
