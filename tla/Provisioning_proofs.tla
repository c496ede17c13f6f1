------------------------ MODULE Provisioning_proofs ------------------------
(***************************************************************************)
(* Theorems about Provisioning, for any number of servers, requests and    *)
(* faults of every kind.                                                   *)
(*                                                                         *)
(* The inductive invariant says of every request and every handler what it *)
(* may rely on, whatever others did since it looked.  It holds because the *)
(* facts they rely on only ever become more true (Steady): a record is     *)
(* never deleted, a managed volume stays, and what happens to network and  *)
(* containers during a removal is remembered in its history.               *)
(***************************************************************************)
EXTENDS Provisioning, TLAPS

Occupied == {s \in Servers : container[s] # "none"}

\* What a web service may rely on.
WebOK(j) ==
  \/ web[j] = IdleRequest
  \/ /\ web[j] \in Request
     /\ web[j].pc = "record" => web[j].op = "prepare"
     /\ web[j].pc # "record" => provisioningStatus[web[j].srv] # "none"
     /\ web[j].pc # "save" => web[j].reply = "none"
     /\ web[j].op = "prepare" =>
          /\ web[j].reply \in {"none"} \cup PrepareReplies
          /\ web[j].reply = "ok" => volume[web[j].srv] = "managed" \/ web[j].srv \in misled
     /\ web[j].reply \in {"removed", "alreadyRemoved"} =>
          web[j].op = "removeNetwork" /\ (since[j].absent \/ web[j].srv \in misled)

\* What a handler may rely on.
AgentOK(j) ==
  \/ agent[j] = IdleTask
  \/ /\ agent[j] \in Task
     /\ provisioningStatus[agent[j].srv] # "none"
     /\ (agent[j].kind = "volume" /\ agent[j].pc = "act") =>
          volume[agent[j].srv] # "foreign" \/ agent[j].srv \in misled
     /\ agent[j].op = "removeNetwork" =>
          /\ agent[j].kind = "network"
          /\ agent[j].pc # "probe" => Occupied \subseteq since[j].created
          /\ agent[j].pc = "act" => network = "managed" \/ since[j].absent

\* A service that waits, waits for its own handler.
PairOK(j) ==
  agent[j] # IdleTask =>
    /\ web[j].pc \notin {"record", "call"}
    /\ web[j].pc = "wait" => web[j].op = agent[j].op /\ web[j].srv = agent[j].srv

Inv ==
  /\ TypeOK
  /\ \A j \in Jobs : WebOK(j) /\ AgentOK(j) /\ PairOK(j)
  /\ VolumesAreAccountedFor

\* What no step takes back.
Steady ==
  /\ \A s \in Servers :
       /\ provisioningStatus[s] # "none" => provisioningStatus'[s] # "none"
       /\ volume[s] = "managed" => volume'[s] = "managed"
       /\ volume[s] # "foreign" => volume'[s] # "foreign"
  /\ misled \subseteq misled'
  /\ network = "managed" => network' \in {"managed", "none"}

USE ProvisioningAssumption

LEMMA InitInv == Init => Inv
<1> SUFFICES ASSUME Init PROVE Inv
  OBVIOUS
<1>1. TypeOK
  BY DEF Init, TypeOK, ResourceStates
<1>2. \A j \in Jobs : WebOK(j) /\ AgentOK(j) /\ PairOK(j)
  BY DEF Init, WebOK, AgentOK, PairOK
<1>3. VolumesAreAccountedFor
  BY DEF Init, VolumesAreAccountedFor
<1> QED BY <1>1, <1>2, <1>3 DEF Inv

-----------------------------------------------------------------------------
(* Requests and handlers that do not move.                                 *)

LEMMA HistoryKeeps ==
  ASSUME TypeOK, History
  PROVE  /\ since' \in [Jobs -> [created : SUBSET Servers, absent : BOOLEAN]]
         /\ \A j \in Jobs : Removing(j)' =>
              /\ Occupied' \subseteq since'[j].created \cup Occupied
              /\ since[j].created \subseteq since'[j].created
              /\ since[j].absent => since'[j].absent
              /\ network' = "none" => since'[j].absent
<1>1. \A j \in Jobs : since[j].created \in SUBSET Servers /\ since[j].absent \in BOOLEAN
  BY DEF TypeOK
<1>2. since' \in [Jobs -> [created : SUBSET Servers, absent : BOOLEAN]]
  BY <1>1 DEF History, Fresh
<1>3. \A j \in Jobs : Removing(j)' =>
        /\ since'[j].created = since[j].created
             \cup {s \in Servers : container[s] = "none" /\ container'[s] # "none"}
        /\ since'[j].absent = (since[j].absent \/ network' = "none")
  BY DEF History
<1> QED BY <1>1, <1>2, <1>3 DEF Occupied

LEMMA WebKept ==
  ASSUME TypeOK, History, Steady, NEW j \in Jobs, WebOK(j), web'[j] = web[j]
  PROVE  WebOK(j)'
<1>1. CASE web[j] = IdleRequest
  BY <1>1 DEF WebOK
<1>2. CASE web[j] # IdleRequest
  <2>1. web[j] \in Request /\ web[j].srv \in Servers
    BY <1>2 DEF WebOK, Request
  <2>2. web[j].op = "removeNetwork" => (since[j].absent => since'[j].absent)
    BY HistoryKeeps DEF Removing
  <2> QED BY <1>2, <2>1, <2>2 DEF WebOK, Steady
<1> QED BY <1>1, <1>2

LEMMA AgentKept ==
  ASSUME TypeOK, History, Steady, NEW j \in Jobs, AgentOK(j), agent'[j] = agent[j]
  PROVE  AgentOK(j)'
<1>1. CASE agent[j] = IdleTask
  BY <1>1 DEF AgentOK
<1>2. CASE agent[j] # IdleTask
  <2>1. agent[j] \in Task /\ agent[j].srv \in Servers
    BY <1>2 DEF AgentOK, Task
  <2>2. agent[j].op = "removeNetwork" =>
          /\ agent[j].pc # "probe" => Occupied' \subseteq since'[j].created
          /\ agent[j].pc = "act" => network' = "managed" \/ since'[j].absent
    <3> SUFFICES ASSUME agent[j].op = "removeNetwork"
                 PROVE  /\ agent[j].pc # "probe" => Occupied' \subseteq since'[j].created
                        /\ agent[j].pc = "act" => network' = "managed" \/ since'[j].absent
      OBVIOUS
    <3>1. Removing(j)'
      BY DEF Removing
    <3>2. /\ Occupied' \subseteq since'[j].created \cup Occupied
          /\ since[j].created \subseteq since'[j].created
          /\ since[j].absent => since'[j].absent
          /\ network' = "none" => since'[j].absent
      BY <3>1, HistoryKeeps
    <3> QED BY <1>2, <3>2 DEF AgentOK, Steady
  <2>3. provisioningStatus'[agent[j].srv] # "none"
    BY <1>2, <2>1 DEF AgentOK, Steady
  <2>4. (agent[j].kind = "volume" /\ agent[j].pc = "act") =>
          volume'[agent[j].srv] # "foreign" \/ agent[j].srv \in misled'
    BY <1>2, <2>1 DEF AgentOK, Steady
  <2> QED BY <1>2, <2>1, <2>2, <2>3, <2>4 DEF AgentOK
<1> QED BY <1>1, <1>2

\* One job moves.
LEMMA JobMoves ==
  ASSUME TypeOK, NEW j \in Jobs, NEW w \in Request \cup {IdleRequest}, NEW t \in Task \cup {IdleTask},
         web' = [web EXCEPT ![j] = w], agent' = [agent EXCEPT ![j] = t]
  PROVE  /\ web' \in [Jobs -> Request \cup {IdleRequest}] /\ web'[j] = w
         /\ agent' \in [Jobs -> Task \cup {IdleTask}] /\ agent'[j] = t
         /\ \A i \in Jobs \ {j} : web'[i] = web[i] /\ agent'[i] = agent[i]
BY DEF TypeOK

LEMMA JobStep ==
  ASSUME Inv, History, Steady, NEW j \in Jobs,
         NEW w \in Request \cup {IdleRequest}, NEW t \in Task \cup {IdleTask},
         web' = [web EXCEPT ![j] = w], agent' = [agent EXCEPT ![j] = t],
         provisioningStatus' \in [Servers -> Statuses \cup {"none"}], network' \in ResourceStates,
         volume' \in [Servers -> ResourceStates],
         container' \in [Servers -> {"none", "stopped", "running"}],
         faults' \in 0 .. MaxFaults, misled' \subseteq Servers,
         WebOK(j)', AgentOK(j)', PairOK(j)', VolumesAreAccountedFor'
  PROVE  Inv'
<1>1. TypeOK
  BY DEF Inv
<1>2. TypeOK'
  BY <1>1, JobMoves, HistoryKeeps DEF TypeOK
<1>3. ASSUME NEW i \in Jobs \ {j} PROVE WebOK(i)' /\ AgentOK(i)' /\ PairOK(i)'
  <2>1. web'[i] = web[i] /\ agent'[i] = agent[i]
    BY <1>1, JobMoves
  <2>2. WebOK(i)' /\ AgentOK(i)'
    BY <1>1, <2>1, WebKept, AgentKept DEF Inv
  <2>3. PairOK(i)'
    BY <2>1 DEF Inv, PairOK
  <2> QED BY <2>2, <2>3
<1> QED BY <1>2, <1>3 DEF Inv

-----------------------------------------------------------------------------
(* The web services.                                                       *)

LEMMA Injected ==
  ASSUME TypeOK, NEW kind, Inject(kind)
  PROVE  faults' \in 0 .. MaxFaults
<1>1. faults \in Nat /\ faults < MaxFaults /\ faults' = faults + 1 /\ MaxFaults \in Nat
  BY DEF TypeOK, Inject
<1> QED BY <1>1

\* The parts of a request and of a handler that are not idle.
LEMMA Parts ==
  ASSUME Inv, NEW j \in Jobs
  PROVE  /\ web[j] # IdleRequest <=> web[j].pc # "idle"
         /\ web[j] # IdleRequest => /\ web[j] \in Request /\ web[j].srv \in Servers
                                    /\ web[j].op \in {"prepare", "removeNetwork"}
         /\ agent[j] # IdleTask <=> agent[j].pc # "idle"
         /\ agent[j] # IdleTask => /\ agent[j] \in Task /\ agent[j].srv \in Servers
                                   /\ agent[j].op \in {"prepare", "removeNetwork"}
                                   /\ agent[j].kind \in {"network", "volume"}
         /\ web[j] \in Request \cup {IdleRequest} /\ agent[j] \in Task \cup {IdleTask}
         /\ WebOK(j) /\ AgentOK(j) /\ PairOK(j)
BY DEF Inv, TypeOK, IdleRequest, IdleTask, Request, Task

\* A step of the web side alone: it keeps docker, and starts no handler.
LEMMA WebStepInv ==
  ASSUME Inv, History, NEW j \in Jobs, NEW w \in Request \cup {IdleRequest},
         web' = [web EXCEPT ![j] = w], UNCHANGED <<docker, agent, misled>>,
         faults' \in 0 .. MaxFaults,
         provisioningStatus' \in [Servers -> Statuses \cup {"none"}],
         \A s \in Servers : provisioningStatus[s] # "none" => provisioningStatus'[s] # "none",
         \A s \in Servers : provisioningStatus'[s] = "RESOURCES_PREPARED" =>
            provisioningStatus[s] = "RESOURCES_PREPARED" \/ volume[s] = "managed" \/ s \in misled,
         WebOK(j)', PairOK(j)'
  PROVE  Inv'
<1>1. TypeOK /\ AgentOK(j)
  BY Parts DEF Inv
<1>2. Steady
  BY DEF Steady, docker
<1>3. agent' = [agent EXCEPT ![j] = agent[j]] /\ agent'[j] = agent[j] /\ agent[j] \in Task \cup {IdleTask}
  BY <1>1 DEF TypeOK, docker
<1>4. AgentOK(j)'
  BY <1>1, <1>2, <1>3, AgentKept
<1>5. VolumesAreAccountedFor'
  BY DEF Inv, VolumesAreAccountedFor, docker
<1>6. /\ network' \in ResourceStates /\ volume' \in [Servers -> ResourceStates]
      /\ container' \in [Servers -> {"none", "stopped", "running"}] /\ misled' \subseteq Servers
  BY <1>1 DEF TypeOK, docker
<1> QED BY <1>2, <1>3, <1>4, <1>5, <1>6, JobStep

LEMMA SubmitInv ==
  ASSUME Inv, History, NEW j \in Jobs, NEW op \in {"prepare", "removeNetwork"}, NEW s \in Servers,
         Submit(j, op, s)
  PROVE  Inv'
<1> DEFINE first == IF op = "prepare" THEN "record" ELSE "call"
           w == [pc |-> first, op |-> op, srv |-> s, reply |-> "none"]
<1>1. /\ agent[j] = IdleTask /\ web' = [web EXCEPT ![j] = w]
      /\ UNCHANGED <<provisioningStatus, docker, agent, faults, misled>>
      /\ op = "removeNetwork" => provisioningStatus[s] # "none"
  BY DEF Submit
<1>2. w \in Request /\ TypeOK
  BY DEF Request, Inv
<1>3. web'[j] = w
  BY <1>1, <1>2 DEF TypeOK
<1>4. WebOK(j)' /\ PairOK(j)'
  BY <1>1, <1>2, <1>3 DEF WebOK, PairOK
<1>5. faults' \in 0 .. MaxFaults /\ provisioningStatus' \in [Servers -> Statuses \cup {"none"}]
  BY <1>1, <1>2 DEF TypeOK
<1> HIDE DEF w
<1> QED BY <1>1, <1>2, <1>4, <1>5, WebStepInv

LEMMA RecordInv ==
  ASSUME Inv, History, NEW j \in Jobs, CreateRecord(j)
  PROVE  Inv'
<1> DEFINE w == [web[j] EXCEPT !.pc = "call"]
<1>1. /\ web[j].pc = "record" /\ web' = [web EXCEPT ![j] = w]
      /\ provisioningStatus' = [provisioningStatus EXCEPT ![web[j].srv] = "DRAFT"]
      /\ UNCHANGED <<docker, agent, faults, misled>>
  BY DEF CreateRecord
<1>2. /\ TypeOK /\ web[j] \in Request /\ web[j].srv \in Servers /\ WebOK(j) /\ PairOK(j)
      /\ web[j] # IdleRequest
  BY <1>1, Parts DEF Inv
<1>3. /\ w \in Request /\ w.pc = "call" /\ w.op = "prepare" /\ w.srv = web[j].srv /\ w.reply = "none"
      /\ agent[j] = IdleTask
  BY <1>1, <1>2 DEF Request, WebOK, PairOK
<1>4. web'[j] = w
  BY <1>1, <1>2 DEF TypeOK
<1> HIDE DEF w
<1>5. /\ provisioningStatus' \in [Servers -> Statuses \cup {"none"}]
      /\ provisioningStatus'[web[j].srv] = "DRAFT"
      /\ \A s \in Servers : provisioningStatus'[s] = provisioningStatus[s] \/ provisioningStatus'[s] = "DRAFT"
  BY <1>1, <1>2 DEF TypeOK, Statuses
<1>6. WebOK(j)' /\ PairOK(j)'
  BY <1>1, <1>3, <1>4, <1>5 DEF WebOK, PairOK
<1>7. faults' \in 0 .. MaxFaults
  BY <1>1, <1>2 DEF TypeOK
<1> QED BY <1>1, <1>3, <1>5, <1>6, <1>7, WebStepInv

LEMMA CallInv ==
  ASSUME Inv, History, NEW j \in Jobs, CallAgent(j)
  PROVE  Inv'
<1> DEFINE w == [web[j] EXCEPT !.pc = "wait"]
           t == [pc |-> "probe", op |-> web[j].op, srv |-> web[j].srv,
                 kind |-> "network", net |-> "none"]
<1>1. /\ web[j].pc = "call" /\ web' = [web EXCEPT ![j] = w] /\ agent' = [agent EXCEPT ![j] = t]
      /\ UNCHANGED <<provisioningStatus, docker, faults, misled>>
  BY DEF CallAgent
<1>2. /\ TypeOK /\ web[j] \in Request /\ web[j].srv \in Servers /\ WebOK(j)
      /\ web[j].op \in {"prepare", "removeNetwork"} /\ web[j] # IdleRequest
  BY <1>1, Parts DEF Inv
<1>3. /\ w \in Request /\ w.pc = "wait" /\ w.op = web[j].op /\ w.srv = web[j].srv
      /\ w.reply = web[j].reply /\ w.reply = "none"
  BY <1>1, <1>2 DEF Request, WebOK
<1>4. /\ t \in Task /\ t.pc = "probe" /\ t.op = web[j].op /\ t.srv = web[j].srv /\ t.kind = "network"
  BY <1>2 DEF Task
<1> HIDE DEF w, t
<1>5. web'[j] = w /\ agent'[j] = t
  BY <1>1, <1>2 DEF TypeOK
<1>6. WebOK(j)'
  BY <1>1, <1>2, <1>3, <1>5 DEF WebOK
<1>7. AgentOK(j)'
  BY <1>1, <1>2, <1>4, <1>5 DEF AgentOK, WebOK
<1>8. PairOK(j)'
  BY <1>3, <1>4, <1>5 DEF PairOK
<1>9. Steady /\ VolumesAreAccountedFor'
  BY <1>1 DEF Steady, docker, VolumesAreAccountedFor, Inv
<1>10. /\ provisioningStatus' \in [Servers -> Statuses \cup {"none"}] /\ network' \in ResourceStates
       /\ volume' \in [Servers -> ResourceStates]
       /\ container' \in [Servers -> {"none", "stopped", "running"}]
       /\ faults' \in 0 .. MaxFaults /\ misled' \subseteq Servers
  BY <1>1, <1>2 DEF TypeOK, docker
<1> QED BY <1>1, <1>3, <1>4, <1>6, <1>7, <1>8, <1>9, <1>10, JobStep

LEMMA NoAnswerInv ==
  ASSUME Inv, History, NEW j \in Jobs, Timeout(j) \/ ConnectionLost(j)
  PROVE  Inv'
<1> DEFINE w == [web[j] EXCEPT !.pc = "save", !.reply = "unreachable"]
<1>1. /\ web[j].pc = "wait" /\ web' = [web EXCEPT ![j] = w]
      /\ UNCHANGED <<provisioningStatus, docker, agent, misled>>
  BY DEF Timeout, ConnectionLost, NoAnswer
<1>2. /\ TypeOK /\ web[j] \in Request /\ WebOK(j) /\ PairOK(j) /\ web[j] # IdleRequest
  BY <1>1, Parts DEF Inv
<1>3. /\ w \in Request /\ w.pc = "save" /\ w.op = web[j].op /\ w.srv = web[j].srv
      /\ w.reply = "unreachable"
  BY <1>2 DEF Request, PrepareReplies
<1> HIDE DEF w
<1>4. web'[j] = w
  BY <1>1, <1>2 DEF TypeOK
<1>5. WebOK(j)' /\ PairOK(j)'
  BY <1>1, <1>2, <1>3, <1>4 DEF WebOK, PairOK, PrepareReplies
<1>6. faults' \in 0 .. MaxFaults /\ provisioningStatus' \in [Servers -> Statuses \cup {"none"}]
  BY <1>1, <1>2, Injected DEF Timeout, ConnectionLost, TypeOK
<1> QED BY <1>1, <1>3, <1>5, <1>6, WebStepInv

\* The service ends: its outcome is saved, or it only answers, or it is killed.
LEMMA EndInv ==
  ASSUME Inv, History, NEW j \in Jobs, SaveStatus(j) \/ ReportRemoval(j) \/ WebCrash(j)
  PROVE  Inv'
<1>1. web' = [web EXCEPT ![j] = IdleRequest] /\ UNCHANGED <<docker, agent, misled>> /\ TypeOK
  BY DEF SaveStatus, ReportRemoval, WebCrash, Inv
<1>2. web'[j] = IdleRequest
  BY <1>1 DEF TypeOK
<1>3. WebOK(j)' /\ PairOK(j)'
  BY <1>2 DEF WebOK, PairOK, IdleRequest
<1>4. faults' \in 0 .. MaxFaults
  BY <1>1, Injected DEF SaveStatus, ReportRemoval, WebCrash, TypeOK
<1>5. /\ provisioningStatus' \in [Servers -> Statuses \cup {"none"}]
      /\ \A s \in Servers : provisioningStatus[s] # "none" => provisioningStatus'[s] # "none"
      /\ \A s \in Servers : provisioningStatus'[s] = "RESOURCES_PREPARED" =>
           provisioningStatus[s] = "RESOURCES_PREPARED" \/ volume[s] = "managed" \/ s \in misled
  <2>1. CASE UNCHANGED provisioningStatus
    BY <1>1, <2>1 DEF TypeOK
  <2>2. CASE SaveStatus(j)
    <3> DEFINE status == ResolveProvisioningStatus(web[j].reply)
    <3>1. /\ web[j].pc = "save" /\ web[j].op = "prepare"
          /\ provisioningStatus' = [provisioningStatus EXCEPT ![web[j].srv] = status]
      BY <2>2 DEF SaveStatus
    <3>2. web[j].srv \in Servers /\ WebOK(j) /\ web[j] # IdleRequest
      BY <3>1, Parts
    <3>3. status \in Statuses /\ (status = "RESOURCES_PREPARED" => web[j].reply = "ok")
      BY DEF ResolveProvisioningStatus, Statuses
    <3>4. status = "RESOURCES_PREPARED" => volume[web[j].srv] = "managed" \/ web[j].srv \in misled
      BY <3>1, <3>2, <3>3 DEF WebOK
    <3>5. status # "none"
      BY <3>3 DEF Statuses
    <3> HIDE DEF status
    <3> QED BY <1>1, <3>1, <3>2, <3>3, <3>4, <3>5 DEF TypeOK
  <2> QED BY <2>1, <2>2 DEF ReportRemoval, WebCrash
<1> QED BY <1>1, <1>3, <1>4, <1>5, WebStepInv

-----------------------------------------------------------------------------
(* The handlers.                                                           *)

\* What is around a handler's step: docker and the history stay well-typed and
\* steady, the record does not change.
Around ==
  /\ Steady /\ UNCHANGED provisioningStatus
  /\ network' \in ResourceStates /\ volume' \in [Servers -> ResourceStates]
  /\ container' \in [Servers -> {"none", "stopped", "running"}]
  /\ faults' \in 0 .. MaxFaults /\ misled' \subseteq Servers
  /\ VolumesAreAccountedFor'

LEMMA DockerKept ==
  ASSUME Inv, UNCHANGED <<provisioningStatus, docker>>, faults' \in 0 .. MaxFaults,
         misled \subseteq misled', misled' \subseteq Servers
  PROVE  Around
BY DEF Around, Steady, Inv, TypeOK, docker, VolumesAreAccountedFor

LEMMA ReplyInv ==
  ASSUME Inv, History, Around, NEW j \in Jobs, agent[j] # IdleTask, NEW answer, Reply(j, answer),
         agent[j].op = "prepare" => answer \in PrepareReplies,
         agent[j].op = "removeNetwork" => answer \in RemoveReplies,
         (agent[j].op = "prepare" /\ answer = "ok")
            => volume'[agent[j].srv] = "managed" \/ agent[j].srv \in misled',
         (agent[j].op = "removeNetwork" /\ answer \in {"removed", "alreadyRemoved"})
            => network' = "none" \/ agent[j].srv \in misled'
  PROVE  Inv'
<1>1. /\ TypeOK /\ WebOK(j) /\ PairOK(j) /\ agent[j].op \in {"prepare", "removeNetwork"}
      /\ web[j] \in Request \cup {IdleRequest} /\ IdleTask \in Task \cup {IdleTask}
  BY Parts DEF Inv
<1>2. agent' = [agent EXCEPT ![j] = IdleTask] /\ agent'[j] = IdleTask
  BY <1>1 DEF Reply, TypeOK
<1>3. AgentOK(j)' /\ PairOK(j)'
  BY <1>2 DEF AgentOK, PairOK
<1>4. CASE web[j].pc = "wait"
  <2> DEFINE w == [web[j] EXCEPT !.pc = "save", !.reply = answer]
  <2>1. web' = [web EXCEPT ![j] = w]
    BY <1>4 DEF Reply
  <2>2. web[j] # IdleRequest /\ web[j] \in Request
    BY <1>4, Parts
  <2>3. web[j].op = agent[j].op /\ web[j].srv = agent[j].srv /\ web[j].srv \in Servers
    BY <1>1, <1>4, <2>2, Parts DEF PairOK
  <2>4. /\ w \in Request /\ w.pc = "save" /\ w.op = agent[j].op /\ w.srv = agent[j].srv /\ w.reply = answer
    BY <1>1, <2>2, <2>3 DEF Request
  <2> HIDE DEF w
  <2>5. web'[j] = w
    BY <1>1, <2>1 DEF TypeOK
  <2>6. agent[j].op = "removeNetwork" => (network' = "none" => since'[j].absent)
    BY <1>1, <2>4, <2>5, HistoryKeeps DEF Removing
  <2>7. provisioningStatus'[agent[j].srv] # "none"
    BY <1>1, <1>4, <2>2, <2>3 DEF WebOK, Around
  <2>8. WebOK(j)'
    BY <1>1, <2>4, <2>5, <2>6, <2>7 DEF WebOK, PrepareReplies, RemoveReplies
  <2>9. /\ provisioningStatus' \in [Servers -> Statuses \cup {"none"}]
    BY <1>1 DEF Around, TypeOK
  <2> QED BY <1>1, <1>2, <1>3, <2>1, <2>4, <2>8, <2>9, JobStep DEF Around
<1>5. CASE web[j].pc # "wait"
  <2>1. web' = [web EXCEPT ![j] = web[j]] /\ web'[j] = web[j]
    BY <1>1, <1>5 DEF Reply, TypeOK
  <2>2. WebOK(j)'
    BY <1>1, <2>1, WebKept DEF Around
  <2>3. /\ provisioningStatus' \in [Servers -> Statuses \cup {"none"}]
    BY <1>1 DEF Around, TypeOK
  <2> QED BY <1>1, <1>2, <1>3, <2>1, <2>2, <2>3, JobStep DEF Around
<1> QED BY <1>4, <1>5

\* The handler goes on to its next docker call.
LEMMA GoesOnInv ==
  ASSUME Inv, History, Around, NEW j \in Jobs, agent[j] # IdleTask, NEW t \in Task,
         agent' = [agent EXCEPT ![j] = t], UNCHANGED web,
         t.op = agent[j].op, t.srv = agent[j].srv,
         t.op = "removeNetwork" => t.kind = "network",
         (t.kind = "volume" /\ t.pc = "act") => volume'[t.srv] # "foreign" \/ t.srv \in misled',
         t.op = "removeNetwork" =>
           /\ t.pc # "probe" => Occupied' \subseteq since'[j].created
           /\ t.pc = "act" => network' = "managed" \/ since'[j].absent
  PROVE  Inv'
<1>1. /\ TypeOK /\ WebOK(j) /\ AgentOK(j) /\ PairOK(j) /\ agent[j].srv \in Servers
      /\ web[j] \in Request \cup {IdleRequest}
  BY Parts DEF Inv
<1>2. agent'[j] = t /\ web'[j] = web[j] /\ web' = [web EXCEPT ![j] = web[j]]
  BY <1>1 DEF TypeOK
<1>3. WebOK(j)'
  BY <1>1, <1>2, WebKept DEF Around
<1>4. AgentOK(j)'
  <2>1. provisioningStatus'[t.srv] # "none"
    BY <1>1 DEF AgentOK, Around
  <2> QED BY <1>2, <2>1 DEF AgentOK
<1>5. PairOK(j)'
  BY <1>1, <1>2 DEF PairOK
<1>6. provisioningStatus' \in [Servers -> Statuses \cup {"none"}]
  BY <1>1 DEF Around, TypeOK
<1> QED BY <1>1, <1>2, <1>3, <1>4, <1>5, <1>6, JobStep DEF Around

LEMMA GotoShape ==
  ASSUME Inv, NEW j \in Jobs, agent[j] # IdleTask, NEW p \in {"managed", "any", "act"}, AgentGoto(j, p)
  PROVE  LET t == [agent[j] EXCEPT !.pc = p]
         IN  /\ agent' = [agent EXCEPT ![j] = t] /\ UNCHANGED web
             /\ t \in Task /\ t.pc = p /\ t.op = agent[j].op /\ t.srv = agent[j].srv
             /\ t.kind = agent[j].kind
             /\ agent'[j] = t
BY Parts DEF AgentGoto, Task, Inv, TypeOK

\* A removal whose handler goes on keeps the containers in its history.
LEMMA RemovalKept ==
  ASSUME Inv, History, NEW j \in Jobs, agent[j] # IdleTask, agent[j].op = "removeNetwork",
         agent[j].pc # "probe" \/ Occupied = {}, agent'[j].op = "removeNetwork"
  PROVE  Occupied' \subseteq since'[j].created
<1>1. Removing(j)' /\ TypeOK /\ AgentOK(j)
  BY Parts DEF Removing, Inv
<1>2. /\ Occupied' \subseteq since'[j].created \cup Occupied
      /\ since[j].created \subseteq since'[j].created
  BY <1>1, HistoryKeeps
<1>3. Occupied \subseteq since[j].created
  BY <1>1 DEF AgentOK
<1> QED BY <1>2, <1>3

LEMMA OutcomeInv ==
  ASSUME Inv, History, Around, NEW j \in Jobs, agent[j] # IdleTask, agent[j].op = "prepare",
         NEW o \in Outcomes, Outcome(j, o),
         (agent[j].kind = "volume" /\ o \in {"created", "exists"})
            => volume'[agent[j].srv] = "managed" \/ agent[j].srv \in misled'
  PROVE  Inv'
<1>1. CASE agent[j].kind = "network"
  <2> DEFINE t == [agent[j] EXCEPT !.kind = "volume", !.net = o, !.pc = "managed"]
  <2>1. agent' = [agent EXCEPT ![j] = t] /\ UNCHANGED web
    BY <1>1 DEF Outcome
  <2>2. t \in Task /\ t.pc = "managed" /\ t.op = agent[j].op /\ t.srv = agent[j].srv
    BY Parts DEF Task
  <2> HIDE DEF t
  <2> QED BY <2>1, <2>2, GoesOnInv
<1>2. CASE agent[j].kind # "network"
  <2> DEFINE answer == CASE "conflict" \in {agent[j].net, o} -> "conflict"
                         [] "error" \in {agent[j].net, o} -> "partial"
                         [] OTHER -> "ok"
  <2>1. Reply(j, answer) /\ agent[j].kind = "volume"
    BY <1>2, Parts DEF Outcome
  <2>2. answer \in PrepareReplies
    BY DEF PrepareReplies
  <2>3. answer = "ok" => o \in {"created", "exists"}
    BY DEF Outcomes
  <2> HIDE DEF answer
  <2> QED BY <2>1, <2>2, <2>3, ReplyInv
<1> QED BY <1>1, <1>2

LEMMA ListingShows ==
  ASSUME Inv, NEW s \in Servers, NEW truth \in BOOLEAN, NEW seen \in BOOLEAN, Lists(s, truth, seen)
  PROVE  /\ faults' \in 0 .. MaxFaults /\ misled \subseteq misled' /\ misled' \subseteq Servers
         /\ seen = truth \/ (~seen /\ s \in misled')
BY Injected DEF Lists, Inv, TypeOK

LEMMA ProbeInv ==
  ASSUME Inv, History, NEW j \in Jobs, AgentProbe(j)
  PROVE  Inv'
<1>1. /\ agent[j].pc = "probe" /\ UNCHANGED <<provisioningStatus, docker, misled>>
      /\ agent[j] # IdleTask /\ TypeOK /\ agent[j].op \in {"prepare", "removeNetwork"}
  BY Parts DEF AgentProbe, Inv, IdleTask
<1>2. faults' \in 0 .. MaxFaults
  BY <1>1, Injected DEF AgentProbe, TypeOK
<1>3. Around
  BY <1>1, <1>2, DockerKept DEF TypeOK
<1>4. CASE Reply(j, "unavailable")
  BY <1>1, <1>3, <1>4, ReplyInv DEF PrepareReplies, RemoveReplies
<1>5. CASE agent[j].op = "removeNetwork" /\ Reply(j, "inUseByManagedContainers")
  BY <1>1, <1>3, <1>5, ReplyInv DEF RemoveReplies
<1>6. CASE /\ AgentGoto(j, "managed")
           /\ ~(agent[j].op = "removeNetwork" /\ Containers # {})
  <2> DEFINE t == [agent[j] EXCEPT !.pc = "managed"]
  <2>1. /\ agent' = [agent EXCEPT ![j] = t] /\ UNCHANGED web
        /\ t \in Task /\ t.pc = "managed" /\ t.op = agent[j].op /\ t.srv = agent[j].srv
        /\ t.kind = agent[j].kind /\ agent'[j] = t
    BY <1>1, <1>6, GotoShape
  <2> HIDE DEF t
  <2>2. t.op = "removeNetwork" => Occupied' \subseteq since'[j].created /\ t.kind = "network"
    BY <1>1, <1>6, <2>1, RemovalKept, Parts DEF Occupied, Containers, AgentOK
  <2> QED BY <1>1, <1>3, <2>1, <2>2, GoesOnInv
<1> QED BY <1>1, <1>4, <1>5, <1>6 DEF AgentProbe

LEMMA FindManagedInv ==
  ASSUME Inv, History, NEW j \in Jobs, AgentFindManaged(j)
  PROVE  Inv'
<1>1. /\ agent[j].pc = "managed" /\ UNCHANGED <<provisioningStatus, docker>>
      /\ agent[j] # IdleTask /\ TypeOK /\ agent[j].op \in {"prepare", "removeNetwork"}
      /\ agent[j].srv \in Servers /\ agent[j].kind \in {"network", "volume"} /\ AgentOK(j)
  BY Parts DEF AgentFindManaged, Inv, IdleTask
<1>2. PICK seen \in BOOLEAN :
        /\ Lists(agent[j].srv, IsManaged(j), seen)
        /\ IF ~seen THEN AgentGoto(j, "any")
           ELSE IF agent[j].op = "prepare" THEN Outcome(j, "exists") ELSE AgentGoto(j, "act")
  BY DEF AgentFindManaged
<1>3. /\ faults' \in 0 .. MaxFaults /\ misled \subseteq misled' /\ misled' \subseteq Servers
      /\ seen => IsManaged(j)
  BY <1>1, <1>2, ListingShows DEF IsManaged
<1>4. Around
  BY <1>1, <1>3, DockerKept
<1>5. ASSUME NEW p \in {"any", "act"}, AgentGoto(j, p),
             p = "act" => seen /\ agent[j].op = "removeNetwork"
      PROVE  Inv'
  <2> DEFINE t == [agent[j] EXCEPT !.pc = p]
  <2>1. /\ agent' = [agent EXCEPT ![j] = t] /\ UNCHANGED web
        /\ t \in Task /\ t.pc = p /\ t.op = agent[j].op /\ t.srv = agent[j].srv
        /\ t.kind = agent[j].kind /\ agent'[j] = t
    BY <1>1, <1>5, GotoShape
  <2> HIDE DEF t
  <2>2. t.op = "removeNetwork" => Occupied' \subseteq since'[j].created /\ t.kind = "network"
    BY <1>1, <2>1, RemovalKept DEF AgentOK
  <2>3. t.pc = "act" => network' = "managed" /\ t.kind # "volume"
    BY <1>1, <1>3, <1>5, <2>1, <2>2 DEF IsManaged, Resource, docker
  <2> QED BY <1>1, <1>4, <2>1, <2>2, <2>3, GoesOnInv
<1>6. CASE seen /\ agent[j].op = "prepare"
  <2>1. Outcome(j, "exists") /\ "exists" \in Outcomes
    BY <1>2, <1>6 DEF Outcomes
  <2>2. agent[j].kind = "volume" => volume'[agent[j].srv] = "managed"
    BY <1>1, <1>3, <1>6 DEF IsManaged, Resource, docker
  <2> QED BY <1>1, <1>4, <1>6, <2>1, <2>2, OutcomeInv
<1> QED BY <1>1, <1>2, <1>5, <1>6

LEMMA FindAnyInv ==
  ASSUME Inv, History, NEW j \in Jobs, AgentFindAny(j)
  PROVE  Inv'
<1> DEFINE s == agent[j].srv
<1>1. /\ agent[j].pc = "any" /\ UNCHANGED <<provisioningStatus, docker>>
      /\ agent[j] # IdleTask /\ TypeOK /\ agent[j].op \in {"prepare", "removeNetwork"}
      /\ s \in Servers /\ agent[j].kind \in {"network", "volume"} /\ AgentOK(j)
  BY Parts DEF AgentFindAny, Inv, IdleTask
<1>2. PICK seen \in BOOLEAN :
        /\ Lists(s, Resource(j) # "none", seen)
        /\ IF agent[j].op = "prepare"
           THEN IF seen THEN Outcome(j, "conflict") ELSE AgentGoto(j, "act")
           ELSE Reply(j, IF seen THEN "conflict" ELSE "alreadyRemoved")
  BY DEF AgentFindAny
<1>3. /\ faults' \in 0 .. MaxFaults /\ misled \subseteq misled' /\ misled' \subseteq Servers
      /\ ~seen => Resource(j) = "none" \/ s \in misled'
  <2>1. (Resource(j) # "none") \in BOOLEAN
    OBVIOUS
  <2> QED BY <1>1, <1>2, <2>1, ListingShows
<1>4. Around
  BY <1>1, <1>3, DockerKept
<1>5. CASE agent[j].op = "prepare" /\ seen
  <2>1. Outcome(j, "conflict") /\ "conflict" \in Outcomes
    BY <1>2, <1>5 DEF Outcomes
  <2> QED BY <1>1, <1>4, <1>5, <2>1, OutcomeInv
<1>6. CASE agent[j].op = "prepare" /\ ~seen
  <2> DEFINE t == [agent[j] EXCEPT !.pc = "act"]
  <2>1. /\ agent' = [agent EXCEPT ![j] = t] /\ UNCHANGED web
        /\ t \in Task /\ t.pc = "act" /\ t.op = "prepare" /\ t.srv = s
        /\ t.kind = agent[j].kind /\ agent'[j] = t
    BY <1>1, <1>2, <1>6, GotoShape
  <2> HIDE DEF t
  <2>2. t.kind = "volume" => volume'[s] # "foreign" \/ s \in misled'
    BY <1>1, <1>3, <1>6, <2>1 DEF Resource, docker
  <2> QED BY <1>1, <1>4, <1>6, <2>1, <2>2, GoesOnInv
<1>7. CASE agent[j].op = "removeNetwork"
  <2> DEFINE answer == IF seen THEN "conflict" ELSE "alreadyRemoved"
  <2>1. Reply(j, answer)
    BY <1>2, <1>7
  <2>2. answer \in RemoveReplies
    BY DEF RemoveReplies
  <2>3. answer \in {"removed", "alreadyRemoved"} => network' = "none" \/ s \in misled'
    BY <1>1, <1>3, <1>7 DEF Resource, docker, AgentOK
  <2> HIDE DEF answer
  <2> QED BY <1>1, <1>4, <1>7, <2>1, <2>2, <2>3, ReplyInv
<1> QED BY <1>1, <1>5, <1>6, <1>7

LEMMA ActInv ==
  ASSUME Inv, History, NEW j \in Jobs, AgentAct(j)
  PROVE  Inv'
<1> DEFINE s == agent[j].srv
<1>1. /\ agent[j].pc = "act" /\ UNCHANGED <<provisioningStatus, misled>>
      /\ agent[j] # IdleTask /\ TypeOK /\ agent[j].op \in {"prepare", "removeNetwork"}
      /\ s \in Servers /\ agent[j].kind \in {"network", "volume"} /\ AgentOK(j)
      /\ misled' \subseteq Servers
  BY Parts DEF AgentAct, Inv, IdleTask, TypeOK
<1>2. PICK ok \in BOOLEAN :
        /\ \/ CommandPossible(j) /\ ok /\ CommandEffect(j) /\ UNCHANGED faults
           \/ ~CommandPossible(j) /\ ~ok /\ UNCHANGED <<docker, faults>>
           \/ CommandPossible(j) /\ ~ok /\ Inject("ack") /\ CommandEffect(j)
           \/ CommandPossible(j) /\ ~ok /\ Inject("command") /\ UNCHANGED docker
        /\ IF agent[j].op = "prepare"
           THEN Outcome(j, IF ok THEN "created" ELSE "error")
           ELSE Reply(j, IF ok THEN "removed" ELSE "error")
  BY DEF AgentAct
<1>3. faults' \in 0 .. MaxFaults /\ (CommandEffect(j) \/ UNCHANGED docker) /\ (ok => CommandEffect(j))
  BY <1>1, <1>2, Injected DEF TypeOK
<1>4. agent[j].op = "removeNetwork" => agent[j].kind = "network"
  BY <1>1 DEF AgentOK
<1>5. Around /\ (CommandEffect(j) /\ agent[j].kind = "volume"
                   => volume'[s] = "managed" \/ s \in misled')
  <2>1. CASE UNCHANGED docker /\ ~CommandEffect(j)
    BY <1>1, <1>3, <2>1, DockerKept
  <2>2. CASE CommandEffect(j) /\ agent[j].kind = "network"
    <3>1. UNCHANGED <<volume, container>> /\ network' \in {"managed", "none"}
      BY <2>2 DEF CommandEffect
    <3> QED BY <1>1, <1>3, <2>2, <3>1
            DEF Around, Steady, Inv, TypeOK, ResourceStates, VolumesAreAccountedFor
  <2>3. CASE CommandEffect(j) /\ agent[j].kind = "volume"
    <3>1. /\ volume' = [volume EXCEPT ![s] = IF @ = "none" THEN "managed" ELSE @]
          /\ UNCHANGED <<network, container>>
      BY <2>3 DEF CommandEffect
    <3>2. /\ volume' \in [Servers -> ResourceStates]
          /\ \A r \in Servers \ {s} : volume'[r] = volume[r]
          /\ volume'[s] = IF volume[s] = "none" THEN "managed" ELSE volume[s]
      BY <1>1, <3>1 DEF TypeOK, ResourceStates
    <3>3. agent[j].op = "prepare" /\ provisioningStatus[s] # "none"
      BY <1>1, <1>4, <2>3 DEF AgentOK
    <3>4. volume[s] \in {"none", "managed"} \/ s \in misled
      BY <1>1, <2>3 DEF AgentOK, TypeOK, ResourceStates
    <3>5. Steady
      BY <1>1, <3>1, <3>2 DEF Steady
    <3>6. VolumesAreAccountedFor'
      BY <1>1, <3>2, <3>3 DEF Inv, VolumesAreAccountedFor
    <3> QED BY <1>1, <1>3, <3>1, <3>2, <3>4, <3>5, <3>6 DEF Around, TypeOK
  <2> QED BY <1>1, <1>3, <2>1, <2>2, <2>3
<1>6. CASE agent[j].op = "prepare"
  <2> DEFINE o == IF ok THEN "created" ELSE "error"
  <2>1. Outcome(j, o) /\ o \in Outcomes /\ (o = "created" => ok) /\ o # "exists"
    BY <1>2, <1>6 DEF Outcomes
  <2> HIDE DEF o
  <2> QED BY <1>1, <1>3, <1>5, <1>6, <2>1, OutcomeInv
<1>7. CASE agent[j].op = "removeNetwork"
  <2> DEFINE answer == IF ok THEN "removed" ELSE "error"
  <2>1. Reply(j, answer) /\ answer \in RemoveReplies /\ (answer = "removed" => ok)
        /\ answer # "alreadyRemoved"
    BY <1>2, <1>7 DEF RemoveReplies
  <2>2. ok => network' = "none"
    BY <1>3, <1>4, <1>7 DEF CommandEffect
  <2> HIDE DEF answer
  <2> QED BY <1>1, <1>5, <1>7, <2>1, <2>2, ReplyInv
<1> QED BY <1>1, <1>6, <1>7

LEMMA CrashInv ==
  ASSUME Inv, History, NEW j \in Jobs, AgentCrash(j)
  PROVE  Inv'
<1>1. /\ agent' = [agent EXCEPT ![j] = IdleTask]
      /\ UNCHANGED <<provisioningStatus, docker, web, misled>>
      /\ TypeOK /\ WebOK(j) /\ web[j] \in Request \cup {IdleRequest}
      /\ IdleTask \in Task \cup {IdleTask}
  BY Parts DEF AgentCrash, Inv
<1>2. agent'[j] = IdleTask /\ web'[j] = web[j] /\ web' = [web EXCEPT ![j] = web[j]]
  BY <1>1 DEF TypeOK
<1>3. faults' \in 0 .. MaxFaults
  BY <1>1, Injected DEF AgentCrash
<1>4. Around
  BY <1>1, <1>3, DockerKept DEF TypeOK
<1>5. WebOK(j)' /\ AgentOK(j)' /\ PairOK(j)'
  BY <1>1, <1>2, <1>4, WebKept DEF Around, AgentOK, PairOK
<1>6. provisioningStatus' \in [Servers -> Statuses \cup {"none"}]
  BY <1>1 DEF TypeOK
<1> QED BY <1>1, <1>2, <1>4, <1>5, <1>6, JobStep DEF Around

-----------------------------------------------------------------------------
(* Containers and networks of others.                                      *)

LEMMA OutsideInv ==
  ASSUME Inv, History,
         (\E s \in Servers : ContainerCreate(s) \/ ContainerStart(s)
                               \/ ContainerStop(s) \/ ContainerRemove(s)) \/ ForeignNetwork
  PROVE  Inv'
<1>1. TypeOK /\ UNCHANGED <<provisioningStatus, volume, web, agent, misled>>
  BY DEF Inv, ContainerCreate, ContainerStart, ContainerStop, ContainerRemove, ContainerStep,
         ForeignNetwork
<1>2. /\ network' \in ResourceStates
      /\ container' \in [Servers -> {"none", "stopped", "running"}]
      /\ faults' \in 0 .. MaxFaults
      /\ network = "managed" => network' = "managed"
  <2>1. CASE ForeignNetwork
    BY <1>1, <2>1, Injected DEF ForeignNetwork, TypeOK, ResourceStates
  <2>2. CASE ~ForeignNetwork
    <3>1. PICK s \in Servers : \E to \in {"none", "stopped", "running"} :
            /\ container' = [container EXCEPT ![s] = to] /\ UNCHANGED <<network, faults>>
      BY <2>2 DEF ContainerCreate, ContainerStart, ContainerStop, ContainerRemove, ContainerStep
    <3> QED BY <1>1, <3>1 DEF TypeOK
  <2> QED BY <2>1, <2>2
<1>3. Steady /\ VolumesAreAccountedFor'
  BY <1>1, <1>2 DEF Steady, Inv, VolumesAreAccountedFor
<1>4. \A j \in Jobs : WebOK(j)' /\ AgentOK(j)' /\ PairOK(j)'
  BY <1>1, <1>3, WebKept, AgentKept DEF Inv, PairOK
<1>5. TypeOK'
  BY <1>1, <1>2, HistoryKeeps DEF TypeOK
<1> QED BY <1>3, <1>4, <1>5 DEF Inv

LEMMA StepInv == Inv /\ [Next]_vars => Inv'
<1>1. ASSUME Inv, UNCHANGED vars PROVE Inv'
  <2>1. TypeOK' /\ VolumesAreAccountedFor'
    BY <1>1 DEF vars, docker, Inv, TypeOK, VolumesAreAccountedFor
  <2>2. \A j \in Jobs : WebOK(j)' /\ AgentOK(j)' /\ PairOK(j)'
    BY <1>1 DEF vars, docker, Inv, WebOK, AgentOK, PairOK, Occupied
  <2> QED BY <2>1, <2>2 DEF Inv
<1>2. ASSUME Inv, History, NEW j \in Jobs,
             \/ \E op \in {"prepare", "removeNetwork"}, s \in Servers : Submit(j, op, s)
             \/ WebStep(j) \/ AgentStep(j)
             \/ Timeout(j) \/ WebCrash(j) \/ AgentCrash(j)
      PROVE  Inv'
  <2>1. CASE \E op \in {"prepare", "removeNetwork"}, s \in Servers : Submit(j, op, s)
    BY <1>2, <2>1, SubmitInv
  <2>2. CASE WebStep(j) \/ Timeout(j) \/ WebCrash(j)
    BY <1>2, <2>2, RecordInv, CallInv, NoAnswerInv, EndInv DEF WebStep
  <2>3. CASE AgentStep(j) \/ AgentCrash(j)
    BY <1>2, <2>3, ProbeInv, FindManagedInv, FindAnyInv, ActInv, CrashInv DEF AgentStep
  <2> QED BY <1>2, <2>1, <2>2, <2>3
<1> QED BY <1>1, <1>2, OutsideInv DEF Next

LEMMA Invariance == Spec => []Inv
<1> QED BY InitInv, StepInv, PTL DEF Spec

-----------------------------------------------------------------------------

\* The variables keep their types: what a handler answers is an answer of the service
\* that called it (docker-write.ts, docker-network-remove.ts).
THEOREM TypeCorrect == Spec => []TypeOK
<1>1. Inv => TypeOK
  BY DEF Inv
<1> QED BY Invariance, <1>1, PTL

\* No volume without a record, and no record says prepared without its volume, unless
\* a failed listing misled the handler (provisioning.ts:68, docker-write.ts:59).
THEOREM VolumeSafety == Spec => []VolumesAreAccountedFor
<1>1. Inv => VolumesAreAccountedFor
  BY DEF Inv
<1> QED BY Invariance, <1>1, PTL

\* A removal is reported only if the network was gone since the request, unless a
\* failed listing misled the handler (docker-network-remove.ts:62-77).
THEOREM RemovalReplySafety == Spec => []RemovalRepliesAreTrue
<1>1. Inv => RemovalRepliesAreTrue
  BY DEF Inv, WebOK, RemovalRepliesAreTrue, IdleRequest
<1> QED BY Invariance, <1>1, PTL

\* Only containers created during the removal can lose the network, and a network of
\* somebody else only if it took the place of ours (docker-network-remove.ts:45, 59).
THEOREM NetworkSafety == Spec => NetworkOutlivesContainers
<1> DEFINE Outlives ==
      (network # "none" /\ network' = "none") =>
         \E j \in Jobs :
           /\ agent[j].op = "removeNetwork"
           /\ {s \in Servers : container[s] # "none"} \subseteq since[j].created
           /\ network = "managed" \/ since[j].absent
<1>1. Inv /\ [Next]_vars => [Outlives]_vars
  <2> SUFFICES ASSUME Inv, Next, network # "none", network' = "none" PROVE Outlives
    OBVIOUS
  <2>1. PICK j \in Jobs : AgentAct(j)
    BY DEF Next, Submit, WebStep, CreateRecord, CallAgent, ConnectionLost, SaveStatus, ReportRemoval,
           Timeout, WebCrash, AgentCrash, AgentStep, AgentProbe, AgentFindManaged, AgentFindAny,
           ContainerCreate, ContainerStart, ContainerStop, ContainerRemove, ContainerStep,
           ForeignNetwork, docker
  <2>2. agent[j].pc = "act" /\ CommandEffect(j)
    BY <2>1 DEF AgentAct, docker
  <2>3. agent[j] # IdleTask /\ AgentOK(j) /\ agent[j].op \in {"prepare", "removeNetwork"}
    BY <2>2, Parts DEF IdleTask
  <2>4. agent[j].op = "removeNetwork"
    BY <2>2, <2>3 DEF CommandEffect
  <2> QED BY <2>2, <2>3, <2>4 DEF AgentOK, Occupied
<1> QED BY Invariance, <1>1, PTL DEF Spec, NetworkOutlivesContainers

-----------------------------------------------------------------------------
(* The contract.  An outcome is written once because a server is prepared  *)
(* by one request at most, which finds the record as it left it.           *)

\* What the request that prepares a server may rely on.
DraftOK(j) ==
  web[j].op = "prepare" =>
    provisioningStatus[web[j].srv] = IF web[j].pc = "record" THEN "none" ELSE "DRAFT"

PreparedByOne(i, j) ==
  (web[i].op = "prepare" /\ web[j].op = "prepare" /\ web[i].srv = web[j].srv) => i = j

OnceInv == \A i, j \in Jobs : DraftOK(j) /\ PreparedByOne(i, j)

\* One request moves; the records that others prepare stay.
LEMMA OnceStep ==
  ASSUME OnceInv, NEW j \in Jobs,
         \A i \in Jobs \ {j} :
           /\ web'[i] = web[i]
           /\ web[i].op = "prepare" => provisioningStatus'[web[i].srv] = provisioningStatus[web[i].srv],
         web'[j].op = "prepare" =>
           /\ DraftOK(j)'
           /\ \A i \in Jobs \ {j} : web[i].op = "prepare" => web[i].srv # web'[j].srv
  PROVE  OnceInv'
<1>1. \A i \in Jobs : DraftOK(i)'
  BY DEF OnceInv, DraftOK
<1>2. ASSUME NEW i \in Jobs, NEW k \in Jobs PROVE PreparedByOne(i, k)'
  <2>1. CASE i = j \/ k = j
    BY <2>1 DEF OnceInv, PreparedByOne
  <2>2. CASE i # j /\ k # j
    BY <2>2 DEF OnceInv, PreparedByOne
  <2> QED BY <2>1, <2>2
<1> QED BY <1>1, <1>2 DEF OnceInv

\* The request goes on or ends, and keeps what it relies on.
LEMMA OnceGoesOn ==
  ASSUME OnceInv, NEW j \in Jobs, UNCHANGED provisioningStatus,
         \A i \in Jobs \ {j} : web'[i] = web[i],
         \/ web'[j] = IdleRequest
         \/ /\ web'[j].op = web[j].op /\ web'[j].srv = web[j].srv
            /\ web'[j].pc = "record" <=> web[j].pc = "record"
  PROVE  OnceInv'
<1>1. web'[j].op = "prepare" =>
        /\ DraftOK(j)'
        /\ \A i \in Jobs \ {j} : web[i].op = "prepare" => web[i].srv # web'[j].srv
  BY DEF OnceInv, DraftOK, PreparedByOne, IdleRequest
<1> QED BY <1>1, OnceStep

LEMMA OnceInit == Init => OnceInv
BY DEF Init, OnceInv, DraftOK, PreparedByOne, IdleRequest

\* What a step of a handler can do to its request.
LEMMA HandlerAnswers ==
  ASSUME NEW j \in Jobs, AgentStep(j) \/ AgentCrash(j)
  PROVE  /\ UNCHANGED provisioningStatus
         /\ \/ UNCHANGED web
            \/ /\ web[j].pc = "wait"
               /\ \E answer : web' = [web EXCEPT ![j].pc = "save", ![j].reply = answer]
<1>1. CASE AgentProbe(j)
  BY <1>1 DEF AgentProbe, Reply, AgentGoto
<1>2. CASE AgentFindManaged(j)
  BY <1>2 DEF AgentFindManaged, Outcome, Reply, AgentGoto
<1>3. CASE AgentFindAny(j)
  BY <1>3 DEF AgentFindAny, Outcome, Reply, AgentGoto
<1>4. CASE AgentAct(j)
  BY <1>4 DEF AgentAct, Outcome, Reply
<1> QED BY <1>1, <1>2, <1>3, <1>4 DEF AgentStep, AgentCrash

LEMMA OnceNext == Inv /\ OnceInv /\ [Next]_vars => OnceInv'
<1> SUFFICES ASSUME Inv, OnceInv, [Next]_vars PROVE OnceInv'
  OBVIOUS
<1>0. TypeOK
  BY DEF Inv
<1>1. CASE UNCHANGED <<web, provisioningStatus>>
  BY <1>1 DEF OnceInv, DraftOK, PreparedByOne
<1>2. ASSUME NEW j \in Jobs, NEW op \in {"prepare", "removeNetwork"}, NEW s \in Servers, Submit(j, op, s)
      PROVE  OnceInv'
  <2> DEFINE first == IF op = "prepare" THEN "record" ELSE "call"
             w == [pc |-> first, op |-> op, srv |-> s, reply |-> "none"]
  <2>1. /\ web' = [web EXCEPT ![j] = w] /\ UNCHANGED provisioningStatus
        /\ op = "prepare" => provisioningStatus[s] = "none" /\ \A i \in Jobs : web[i].srv # s
    BY <1>2 DEF Submit
  <2>2. web'[j] = w /\ \A i \in Jobs \ {j} : web'[i] = web[i]
    BY <1>0, <2>1 DEF TypeOK
  <2>3. w.op = op /\ w.srv = s /\ (op = "prepare" => w.pc = "record")
    OBVIOUS
  <2> HIDE DEF w
  <2>4. web'[j].op = "prepare" =>
          /\ DraftOK(j)'
          /\ \A i \in Jobs \ {j} : web[i].op = "prepare" => web[i].srv # web'[j].srv
    BY <2>1, <2>2, <2>3 DEF DraftOK
  <2> QED BY <2>1, <2>2, <2>4, OnceStep
<1>3. ASSUME NEW j \in Jobs, CreateRecord(j) PROVE OnceInv'
  <2> DEFINE s == web[j].srv
  <2>1. /\ web[j].pc = "record" /\ web' = [web EXCEPT ![j].pc = "call"]
        /\ provisioningStatus' = [provisioningStatus EXCEPT ![s] = "DRAFT"]
    BY <1>3 DEF CreateRecord
  <2>2. web[j] # IdleRequest /\ web[j] \in Request /\ s \in Servers /\ WebOK(j)
    BY <2>1, Parts DEF IdleRequest
  <2>3. /\ web'[j].pc = "call" /\ web'[j].op = "prepare" /\ web[j].op = "prepare" /\ web'[j].srv = s
        /\ \A i \in Jobs \ {j} : web'[i] = web[i]
    BY <1>0, <2>1, <2>2 DEF TypeOK, WebOK, Request
  <2>4. provisioningStatus'[s] = "DRAFT"
    BY <1>0, <2>1, <2>2 DEF TypeOK
  <2>5. \A i \in Jobs \ {j} : web[i].op = "prepare" =>
          web[i].srv # s /\ provisioningStatus'[web[i].srv] = provisioningStatus[web[i].srv]
    <3> SUFFICES ASSUME NEW i \in Jobs \ {j}, web[i].op = "prepare"
                 PROVE  web[i].srv # s
                        /\ provisioningStatus'[web[i].srv] = provisioningStatus[web[i].srv]
      OBVIOUS
    <3>1. web[i].srv # s
      BY <2>3 DEF OnceInv, PreparedByOne
    <3>2. web[i].srv \in Servers
      BY Parts DEF IdleRequest
    <3> QED BY <1>0, <2>1, <3>1, <3>2 DEF TypeOK
  <2>6. DraftOK(j)'
    BY <2>3, <2>4 DEF DraftOK
  <2> HIDE DEF s
  <2> QED BY <2>3, <2>5, <2>6, OnceStep
<1>4. ASSUME NEW j \in Jobs, SaveStatus(j) PROVE OnceInv'
  <2> DEFINE s == web[j].srv  to == ResolveProvisioningStatus(web[j].reply)
  <2>1. /\ web[j].pc = "save" /\ web[j].op = "prepare" /\ web' = [web EXCEPT ![j] = IdleRequest]
        /\ provisioningStatus' = [provisioningStatus EXCEPT ![s] = to]
    BY <1>4 DEF SaveStatus
  <2> HIDE DEF to
  <2>2. s \in Servers
    BY <2>1, Parts DEF IdleRequest
  <2>3. web'[j] = IdleRequest /\ \A i \in Jobs \ {j} : web'[i] = web[i]
    BY <1>0, <2>1 DEF TypeOK
  <2>4. \A i \in Jobs \ {j} : web[i].op = "prepare" =>
          provisioningStatus'[web[i].srv] = provisioningStatus[web[i].srv]
    <3> SUFFICES ASSUME NEW i \in Jobs \ {j}, web[i].op = "prepare"
                 PROVE  provisioningStatus'[web[i].srv] = provisioningStatus[web[i].srv]
      OBVIOUS
    <3>1. web[i].srv # s
      BY <2>1 DEF OnceInv, PreparedByOne
    <3>2. web[i].srv \in Servers
      BY Parts DEF IdleRequest
    <3> QED BY <1>0, <2>1, <3>1, <3>2 DEF TypeOK
  <2>5. web'[j].op # "prepare"
    BY <2>3 DEF IdleRequest
  <2> QED BY <2>3, <2>4, <2>5, OnceStep
<1>5. ASSUME NEW j \in Jobs, CallAgent(j) \/ Timeout(j) \/ ConnectionLost(j) PROVE OnceInv'
  <2>1. /\ web[j].pc \in {"call", "wait"} /\ UNCHANGED provisioningStatus
        /\ \/ web' = [web EXCEPT ![j].pc = "wait"]
           \/ web' = [web EXCEPT ![j].pc = "save", ![j].reply = "unreachable"]
    BY <1>5 DEF CallAgent, Timeout, ConnectionLost, NoAnswer
  <2>2. web[j] \in Request
    BY <2>1, Parts DEF IdleRequest
  <2>3. /\ web'[j].pc # "record" /\ web'[j].op = web[j].op /\ web'[j].srv = web[j].srv
        /\ \A i \in Jobs \ {j} : web'[i] = web[i]
    BY <1>0, <2>1, <2>2 DEF TypeOK, Request
  <2> QED BY <2>1, <2>3, OnceGoesOn
<1>6. ASSUME NEW j \in Jobs, ReportRemoval(j) \/ WebCrash(j) PROVE OnceInv'
  <2>1. UNCHANGED provisioningStatus /\ web' = [web EXCEPT ![j] = IdleRequest]
    BY <1>6 DEF ReportRemoval, WebCrash
  <2>2. web'[j] = IdleRequest /\ \A i \in Jobs \ {j} : web'[i] = web[i]
    BY <1>0, <2>1 DEF TypeOK
  <2> QED BY <2>1, <2>2, OnceGoesOn
<1>7. ASSUME NEW j \in Jobs, AgentStep(j) \/ AgentCrash(j) PROVE OnceInv'
  <2>1. CASE UNCHANGED web
    BY <1>1, <1>7, <2>1, HandlerAnswers
  <2>2. CASE web' # web
    <3>1. PICK answer : web' = [web EXCEPT ![j].pc = "save", ![j].reply = answer]
      BY <1>7, <2>2, HandlerAnswers
    <3>2. web[j].pc = "wait" /\ UNCHANGED provisioningStatus
      BY <1>7, <2>2, HandlerAnswers
    <3>3. web[j] \in Request
      BY <3>2, Parts DEF IdleRequest
    <3>4. /\ web'[j].pc # "record" /\ web'[j].op = web[j].op /\ web'[j].srv = web[j].srv
          /\ \A i \in Jobs \ {j} : web'[i] = web[i]
      BY <1>0, <3>1, <3>3 DEF TypeOK, Request
    <3> QED BY <3>2, <3>4, OnceGoesOn
  <2> QED BY <2>1, <2>2
<1>8. CASE \/ \E s \in Servers :
                ContainerCreate(s) \/ ContainerStart(s) \/ ContainerStop(s) \/ ContainerRemove(s)
           \/ ForeignNetwork
  BY <1>1, <1>8 DEF ContainerCreate, ContainerStart, ContainerStop, ContainerRemove, ContainerStep,
                    ForeignNetwork
<1> QED BY <1>1, <1>2, <1>3, <1>4, <1>5, <1>6, <1>7, <1>8 DEF Next, WebStep, vars

\* What the contract sees.
View == <<provisioningStatus, volume, network, container, misled>>

LEMMA ContractInit == Init => Contract!Init
BY DEF Init, Contract!Init

\* A DRAFT gets its outcome, or stays one.
LEMMA ContractSave ==
  ASSUME Inv, OnceInv, NEW j \in Jobs, SaveStatus(j)
  PROVE  [Contract!Next]_View
<1> DEFINE reply == web[j].reply  to == ResolveProvisioningStatus(reply)
<1>1. PICK s \in Servers : s = web[j].srv
  BY Parts DEF SaveStatus, IdleRequest
<1>2. /\ web[j].pc = "save" /\ web[j].op = "prepare"
      /\ provisioningStatus' = [provisioningStatus EXCEPT ![s] = to]
      /\ UNCHANGED <<volume, network, container, misled>>
  BY <1>1 DEF SaveStatus, docker
<1>3. provisioningStatus[s] = "DRAFT"
  BY <1>1, <1>2 DEF OnceInv, DraftOK
<1>4. reply = "ok" => volume[s] = "managed" \/ s \in misled
  BY <1>1, <1>2, Parts DEF WebOK, IdleRequest
<1>5. CASE reply = "ok"
  <2>1. to = "RESOURCES_PREPARED"
    BY <1>5 DEF ResolveProvisioningStatus
  <2>2. Contract!Prepared(s)
    BY <1>2, <1>3, <1>4, <1>5, <2>1 DEF Contract!Prepared, Contract!Record
  <2> QED BY <2>2 DEF Contract!Next
<1>6. CASE reply \in {"partial", "conflict"}
  <2>1. to \in {"RESOURCE_PREPARE_PARTIAL", "RESOURCE_PREPARE_FAILED"}
    BY <1>6 DEF ResolveProvisioningStatus
  <2> HIDE DEF to
  <2>2. Contract!Fail(s)
    BY <1>2, <1>3, <2>1 DEF Contract!Fail, Contract!Record
  <2> QED BY <2>2 DEF Contract!Next
<1>7. CASE reply \notin {"ok", "partial", "conflict"}
  <2>1. to = "DRAFT"
    BY <1>7 DEF ResolveProvisioningStatus
  <2>2. provisioningStatus' = provisioningStatus
    BY <1>2, <1>3, <2>1 DEF Inv, TypeOK
  <2> QED BY <1>2, <2>2 DEF View
<1> QED BY <1>5, <1>6, <1>7

LEMMA ContractWeb ==
  ASSUME Inv, OnceInv, NEW j \in Jobs,
         \/ \E op \in {"prepare", "removeNetwork"}, s \in Servers : Submit(j, op, s)
         \/ WebStep(j) \/ Timeout(j) \/ WebCrash(j)
  PROVE  [Contract!Next]_View
<1>1. CASE CreateRecord(j)
  <2>1. PICK s \in Servers : s = web[j].srv
    BY <1>1, Parts DEF CreateRecord, IdleRequest
  <2>2. web[j].pc = "record" /\ web[j].op = "prepare"
    BY <1>1, Parts DEF CreateRecord, WebOK, IdleRequest
  <2>3. provisioningStatus[s] = "none"
    BY <2>1, <2>2 DEF OnceInv, DraftOK
  <2>4. Contract!Draft(s)
    BY <1>1, <2>1, <2>3 DEF CreateRecord, docker, Contract!Draft, Contract!Record
  <2> QED BY <2>4 DEF Contract!Next
<1>2. CASE SaveStatus(j)
  BY <1>2, ContractSave
<1>3. CASE ~CreateRecord(j) /\ ~SaveStatus(j)
  BY <1>3 DEF WebStep, Submit, CallAgent, ConnectionLost, ReportRemoval, Timeout, WebCrash,
              docker, View
<1> QED BY <1>1, <1>2, <1>3

\* A listing misleads, or changes nothing.
LEMMA ContractLists ==
  ASSUME Inv, NEW j \in Jobs, AgentFindManaged(j) \/ AgentFindAny(j)
  PROVE  [Contract!Next]_View
<1>1. PICK s \in Servers : s = agent[j].srv
  BY Parts DEF AgentFindManaged, AgentFindAny, IdleTask
<1>2. UNCHANGED <<provisioningStatus, docker>>
  BY DEF AgentFindManaged, AgentFindAny
<1>3. misled' = misled \/ misled' = misled \cup {s}
  BY <1>1 DEF AgentFindManaged, AgentFindAny, Lists
<1>4. CASE misled' = misled \cup {s}
  <2>1. Contract!Mislead(s)
    BY <1>2, <1>4 DEF docker, Contract!Mislead
  <2> QED BY <2>1 DEF Contract!Next
<1>5. CASE misled' = misled
  BY <1>2, <1>5 DEF docker, View
<1> QED BY <1>3, <1>4, <1>5

\* A docker command takes effect, or does not.
LEMMA ContractAct ==
  ASSUME Inv, NEW j \in Jobs, AgentAct(j)
  PROVE  [Contract!Next]_View
<1>1. PICK s \in Servers : s = agent[j].srv
  BY Parts DEF AgentAct, IdleTask
<1>2. /\ agent[j].pc = "act" /\ UNCHANGED <<provisioningStatus, misled>>
      /\ UNCHANGED docker \/ (CommandPossible(j) /\ CommandEffect(j))
  BY DEF AgentAct
<1>3. /\ AgentOK(j) /\ agent[j] # IdleTask /\ agent[j].op \in {"prepare", "removeNetwork"}
      /\ agent[j].kind \in {"network", "volume"} /\ TypeOK
  BY <1>2, Parts DEF Inv, IdleTask
<1>4. s \in Contract!Recorded
  BY <1>1, <1>3 DEF AgentOK, Contract!Recorded
<1>5. CASE UNCHANGED docker
  BY <1>2, <1>5 DEF docker, View
<1>6. CASE CommandPossible(j) /\ CommandEffect(j) /\ agent[j].op = "removeNetwork"
  <2>1. agent[j].kind = "network"
    BY <1>3, <1>6 DEF AgentOK
  <2>2. /\ network # "none" /\ \A r \in Servers : container[r] # "running"
        /\ network' = "none" /\ UNCHANGED <<volume, container>>
    BY <1>6, <2>1 DEF CommandPossible, CommandEffect
  <2>3. network \in {"managed", "foreign"}
    BY <1>3, <2>2 DEF TypeOK, ResourceStates
  <2>4. Contract!RemoveNetwork
    BY <1>2, <1>4, <2>2, <2>3 DEF Contract!RemoveNetwork, Contract!Network
  <2> QED BY <2>4 DEF Contract!Next
<1>7. CASE CommandPossible(j) /\ CommandEffect(j) /\ agent[j].op = "prepare"
           /\ agent[j].kind = "network"
  <2>1. network = "none" /\ network' = "managed" /\ UNCHANGED <<volume, container>>
    BY <1>7 DEF CommandPossible, CommandEffect
  <2>2. Contract!CreateNetwork
    BY <1>2, <1>4, <2>1 DEF Contract!CreateNetwork, Contract!Network
  <2> QED BY <2>2 DEF Contract!Next
<1>8. CASE CommandEffect(j) /\ agent[j].kind = "volume"
  <2>1. /\ volume' = [volume EXCEPT ![s] = IF @ = "none" THEN "managed" ELSE @]
        /\ UNCHANGED <<network, container>>
    BY <1>1, <1>8 DEF CommandEffect
  <2>2. CASE volume[s] = "none"
    <3>1. volume' = [volume EXCEPT ![s] = "managed"]
      BY <2>1, <2>2
    <3>2. Contract!CreateVolume(s)
      BY <1>2, <1>4, <2>1, <2>2, <3>1 DEF Contract!CreateVolume
    <3> QED BY <3>2 DEF Contract!Next
  <2>3. CASE volume[s] # "none"
    <3>1. volume' = volume
      BY <1>3, <2>1, <2>3 DEF TypeOK
    <3> QED BY <1>2, <2>1, <3>1 DEF View
  <2> QED BY <2>2, <2>3
<1> QED BY <1>2, <1>3, <1>5, <1>6, <1>7, <1>8

LEMMA ContractStep == Inv /\ OnceInv /\ [Next]_vars => [Contract!Next]_View
<1> SUFFICES ASSUME Inv, OnceInv, [Next]_vars PROVE [Contract!Next]_View
  OBVIOUS
<1>1. CASE UNCHANGED vars
  BY <1>1 DEF vars, docker, View
<1>2. ASSUME NEW j \in Jobs,
             \/ \E op \in {"prepare", "removeNetwork"}, s \in Servers : Submit(j, op, s)
             \/ WebStep(j) \/ Timeout(j) \/ WebCrash(j)
      PROVE  [Contract!Next]_View
  BY <1>2, ContractWeb
<1>3. ASSUME NEW j \in Jobs, AgentStep(j) \/ AgentCrash(j) PROVE [Contract!Next]_View
  <2>1. CASE AgentFindManaged(j) \/ AgentFindAny(j)
    BY <2>1, ContractLists
  <2>2. CASE AgentAct(j)
    BY <2>2, ContractAct
  <2>3. CASE AgentProbe(j) \/ AgentCrash(j)
    BY <2>3 DEF AgentProbe, AgentCrash, docker, View
  <2> QED BY <1>3, <2>1, <2>2, <2>3 DEF AgentStep
<1>4. ASSUME NEW s \in Servers,
             ContainerCreate(s) \/ ContainerStart(s) \/ ContainerStop(s) \/ ContainerRemove(s)
      PROVE  [Contract!Next]_View
  <2>1. Contract!Create(s) \/ Contract!Start(s) \/ Contract!Stop(s) \/ Contract!Remove(s)
    BY <1>4 DEF ContainerCreate, ContainerStart, ContainerStop, ContainerRemove, ContainerStep,
                Contract!Create, Contract!Start, Contract!Stop, Contract!Remove, Contract!Box
  <2> QED BY <2>1 DEF Contract!Next
<1>5. CASE ForeignNetwork
  <2>1. Contract!ForeignNetwork
    BY <1>5 DEF ForeignNetwork, Contract!ForeignNetwork, Contract!Network
  <2> QED BY <2>1 DEF Contract!Next
<1> QED BY <1>1, <1>2, <1>3, <1>4, <1>5 DEF Next

\* However requests overlap, time out, crash or are answered late, provisioning keeps
\* what ServerResources promises: record first, one outcome, volumes that stay, no
\* network removed under a running container (provisioning.ts:68, docker-write.ts:59,
\* docker-network-remove.ts:83).
THEOREM ProvisioningImplementsResources == Spec => ImplementsContract
<1>1. Init /\ [][Next]_vars => Contract!Init /\ [][Contract!Next]_View
  BY InitInv, StepInv, OnceInit, OnceNext, ContractInit, ContractStep, PTL
<1> QED BY <1>1, PTL DEF Spec, ImplementsContract, Contract!Spec, Contract!vars, View

=============================================================================
