---------------------- MODULE ManagedLifecycle_proofs ----------------------
(***************************************************************************)
(* Theorems about ManagedLifecycle, for every set of servers and jobs,     *)
(* every choice of operations and faults, with or without stale pages.     *)
(***************************************************************************)
EXTENDS ManagedLifecycle, TLAPS

-----------------------------------------------------------------------------
(* Stages: what the program counters of a job say about its operation.     *)

\* A service that waits for the agent runs an operation the agent knows, and
\* its handler works on the same request until it has replied; a service at
\* any other step has no handler (only one that has given up leaves one).
Stages(j) ==
  /\ web[j].pc = "wait" => web[j].op \in AgentOps
  /\ web[j].pc = "read" => web[j].reply = "none"
  /\ web[j].pc = "refused" => web[j].op = "remove" /\ web[j].reply = "stillRunning"
  /\ web[j].pc = "wait" /\ agent[j] # IdleTask =>
       agent[j].op = web[j].op /\ agent[j].srv = web[j].srv /\ web[j].reply = "none"
  /\ web[j].pc \notin {"idle", "wait", "finalize"} => agent[j] = IdleTask
  /\ agent[j].pc = "probe" => agent[j].op # "health"
  /\ agent[j].pc = "containers" => agent[j].op = "removeVolume"
  /\ agent[j].pc = "running" => agent[j].op \in {"start", "stop", "remove"}
  /\ agent[j].pc = "act" => agent[j].op # "health"

TypeInv == TypeOK /\ \A j \in Jobs : Stages(j)

-----------------------------------------------------------------------------
(* Lemmas about the helpers.                                               *)

LEMMA BusyRequest ==
  ASSUME TypeOK, NEW j \in Jobs, web[j].pc # "idle"
  PROVE  web[j] \in Request
BY DEF TypeOK, IdleRequest

LEMMA BusyTask ==
  ASSUME TypeOK, NEW j \in Jobs, agent[j].pc # "idle"
  PROVE  agent[j] \in Task
BY DEF TypeOK, IdleTask

LEMMA AfterServiceType ==
  ASSUME NEW w \in Request
  PROVE  AfterService(w) \in Request \cup {IdleRequest}
BY DEF AfterService, Request, WebPcs, Operations, AgentOps, Replies

LEMMA UpdateTypes ==
  ASSUME NEW r \in ServerRecord, NEW o \in AgentOps, NEW a \in Replies
  PROVE  ReplyUpdate(o, a, r) \in ServerRecord /\ NoReplyUpdate(o, r) \in ServerRecord
<1>1. a \in SuccessReplies /\ o # "health" => SuccessUpdate(o, r) \in ServerRecord
  BY DEF SuccessUpdate, createSuccess, startSuccess, stopSuccess, removeSuccessUpdate,
         volumeRemoveSuccessUpdate,
         ServerRecord, AgentOps, Statuses, RunStates, ErrorKeys
<1>2. runStateForRuntime(a) \in RunStates
  BY DEF runStateForRuntime, RunStates
<1>3. ReplyUpdate(o, a, r) \in ServerRecord
  BY <1>1, <1>2 DEF ReplyUpdate, ServerRecord, ErrorKeys
<1>4. NoReplyUpdate(o, r) \in ServerRecord
  BY DEF NoReplyUpdate, ServerRecord, RunStates, ErrorKeys
<1> QED BY <1>3, <1>4

\* A step of job j leaves the stages of the other jobs alone.
LEMMA OtherJobs ==
  ASSUME TypeInv, NEW j \in Jobs, Stages(j)',
         \A k \in Jobs \ {j} : web'[k] = web[k] /\ agent'[k] = agent[k]
  PROVE  \A k \in Jobs : Stages(k)'
BY DEF TypeInv, Stages

LEMMA WebUpdate ==
  ASSUME TypeOK, NEW j \in Jobs, NEW w \in Request \cup {IdleRequest},
         web' = [web EXCEPT ![j] = w]
  PROVE  /\ web' \in [Jobs -> Request \cup {IdleRequest}]
         /\ web'[j] = w
         /\ \A k \in Jobs \ {j} : web'[k] = web[k]
BY DEF TypeOK

LEMMA AgentUpdate ==
  ASSUME TypeOK, NEW j \in Jobs, NEW a \in Task \cup {IdleTask},
         agent' = [agent EXCEPT ![j] = a]
  PROVE  /\ agent' \in [Jobs -> Task \cup {IdleTask}]
         /\ agent'[j] = a
         /\ \A k \in Jobs \ {j} : agent'[k] = agent[k]
BY DEF TypeOK

LEMMA RecUpdate ==
  ASSUME TypeOK, NEW s \in Servers, NEW r \in ServerRecord,
         rec' = [rec EXCEPT ![s] = r]
  PROVE  /\ rec' \in [Servers -> ServerRecord]
         /\ rec'[s] = r
         /\ \A u \in Servers \ {s} : rec'[u] = rec[u]
BY DEF TypeOK

\* What the handlers' tables lead to.
LEMMA HandlerTables ==
  ASSUME NEW o \in AgentOps
  PROVE  /\ Handler(o).managed \in {"exists", "conflict", "running", "act", "inspect"}
         /\ Handler(o).free \in {"act", "notFound", "alreadyRemoved"}
         /\ o # "health" => Handler(o).probed \in {"managed", "containers"}
         /\ o \in {"start", "stop", "remove"} =>
              /\ Handler(o).up \in {"alreadyRunning", "act", "stillRunning"}
              /\ Handler(o).down \in {"alreadyStopped", "act"}
         /\ o # "health" => Handler(o).done \in SuccessReplies
         /\ Handler(o).probed = "containers" /\ o # "health" => o = "removeVolume"
         /\ Handler(o).managed = "running" => o \in {"start", "stop", "remove"}
         /\ Handler(o).managed = "act" \/ Handler(o).free = "act" => o # "health"
BY DEF AgentOps, Handler, createTs3Container, startTs3Container, stopTs3Container,
       removeTs3Container, removeTs3Volume, getManagedContainerStatus, SuccessReplies

\* A step of a handler goes on or answers.
LEMMA ProceedSplit ==
  ASSUME NEW j, NEW next \in (AgentPcs \ {"idle", "probe"}) \cup Replies \cup {"inspect"}, Proceed(j, next)
  PROVE  \/ next \in AgentPcs \ {"idle", "probe"} /\ AgentGoto(j, next)
         \/ next \in Replies /\ Reply(j, next)
         \/ next = "inspect" /\ \E a \in RuntimeReplies : Reply(j, a)
BY DEF Proceed, normalizeContainerState, AgentPcs, Replies, SuccessReplies, ErrorReplies,
       RuntimeReplies

\* A handler that goes on, or answers.
LEMMA AgentMoves ==
  ASSUME TypeInv, NEW j \in Jobs, agent[j].pc # "idle",
         \/ /\ \E p \in AgentPcs \ {"idle", "probe"} : AgentGoto(j, p)
            /\ agent'[j].pc = "containers" => agent[j].op = "removeVolume"
            /\ agent'[j].pc = "running" => agent[j].op \in {"start", "stop", "remove"}
            /\ agent'[j].pc = "act" => agent[j].op # "health"
         \/ \E a \in Replies : Reply(j, a)
  PROVE  /\ web' \in [Jobs -> Request \cup {IdleRequest}]
         /\ agent' \in [Jobs -> Task \cup {IdleTask}]
         /\ \A k \in Jobs : Stages(k)'
<1>1. TypeOK /\ agent[j] \in Task /\ agent[j] # IdleTask
  BY BusyTask DEF TypeInv, IdleTask
<1>2. CASE \E a \in Replies : Reply(j, a)
  <2>1. PICK a \in Replies : Reply(j, a)
    BY <1>2
  <2>2. agent' = [agent EXCEPT ![j] = IdleTask]
    BY <2>1 DEF Reply
  <2>3. /\ agent' \in [Jobs -> Task \cup {IdleTask}]
        /\ agent'[j] = IdleTask
        /\ \A k \in Jobs \ {j} : agent'[k] = agent[k]
    BY <1>1, <2>2, AgentUpdate
  <2>4. CASE web[j].pc = "wait"
    <3>1. web[j] \in Request
      BY <1>1, <2>4, BusyRequest
    <3>2. web' = [web EXCEPT ![j] = [web[j] EXCEPT !.reply = a]]
      BY <1>1, <2>1, <2>4 DEF Reply, TypeOK
    <3>3. [web[j] EXCEPT !.reply = a] \in Request
      BY <3>1 DEF Request
    <3>4. /\ web' \in [Jobs -> Request \cup {IdleRequest}]
          /\ web'[j] = [web[j] EXCEPT !.reply = a]
          /\ \A k \in Jobs \ {j} : web'[k] = web[k]
      BY <1>1, <3>2, <3>3, WebUpdate
    <3>5. Stages(j)'
      BY <2>3, <2>4, <3>1, <3>4 DEF TypeInv, Stages, IdleTask, Request
    <3> QED BY <2>3, <3>4, <3>5, OtherJobs
  <2>5. CASE web[j].pc # "wait"
    <3>1. web' = web
      BY <2>1, <2>5 DEF Reply
    <3>2. Stages(j)'
      BY <2>3, <2>5, <3>1 DEF TypeInv, Stages, IdleTask
    <3> QED BY <1>1, <2>3, <3>1, <3>2, OtherJobs DEF TypeOK
  <2> QED BY <2>4, <2>5
<1>3. CASE /\ \E p \in AgentPcs \ {"idle", "probe"} : AgentGoto(j, p)
           /\ agent'[j].pc = "containers" => agent[j].op = "removeVolume"
           /\ agent'[j].pc = "running" => agent[j].op \in {"start", "stop", "remove"}
           /\ agent'[j].pc = "act" => agent[j].op # "health"
  <2>1. PICK p \in AgentPcs \ {"idle", "probe"} : AgentGoto(j, p)
    BY <1>3
  <2>2. agent' = [agent EXCEPT ![j] = [agent[j] EXCEPT !.pc = p]]
    BY <1>1, <2>1 DEF AgentGoto, TypeOK
  <2>3. [agent[j] EXCEPT !.pc = p] \in Task
    BY <1>1 DEF Task
  <2>4. /\ agent' \in [Jobs -> Task \cup {IdleTask}]
        /\ agent'[j] = [agent[j] EXCEPT !.pc = p]
        /\ \A k \in Jobs \ {j} : agent'[k] = agent[k]
    BY <1>1, <2>2, <2>3, AgentUpdate
  <2>5. web' = web
    BY <2>1 DEF AgentGoto
  <2>6. agent'[j].op = agent[j].op /\ agent'[j].srv = agent[j].srv /\ agent'[j].pc # "probe"
    BY <1>1, <2>4 DEF Task
  <2>7. Stages(j)'
    BY <1>1, <1>3, <2>5, <2>6 DEF TypeInv, Stages
  <2> QED BY <1>1, <2>4, <2>5, <2>7, OtherJobs DEF TypeOK
<1> QED BY <1>2, <1>3

\* A service that goes on while its handler is at rest: any step of the web
\* side but a call of the agent and a service that gives up.
LEMMA WebMoves ==
  ASSUME TypeInv, NEW j \in Jobs, NEW w \in Request \cup {IdleRequest},
         web' = [web EXCEPT ![j] = w], agent' = agent,
         agent[j] = IdleTask \/ w.pc \in {"idle", "finalize"},
         w.pc = "wait" => w.op \in AgentOps,
         w.pc = "read" => w.reply = "none",
         w.pc = "refused" => w.op = "remove" /\ w.reply = "stillRunning"
  PROVE  /\ web' \in [Jobs -> Request \cup {IdleRequest}]
         /\ agent' \in [Jobs -> Task \cup {IdleTask}]
         /\ \A k \in Jobs : Stages(k)'
<1>1. /\ web' \in [Jobs -> Request \cup {IdleRequest}]
      /\ web'[j] = w
      /\ \A k \in Jobs \ {j} : web'[k] = web[k]
  BY WebUpdate DEF TypeInv
<1>2. Stages(j)'
  BY <1>1 DEF TypeInv, Stages, IdleTask
<1> QED BY <1>1, <1>2, OtherJobs DEF TypeInv, TypeOK

\* Where a service returns to.
LEMMA AfterServiceStages ==
  ASSUME NEW w \in Request
  PROVE  /\ AfterService(w).pc \in {"idle", "read", "finalize"}
         /\ AfterService(w).pc = "read" => AfterService(w).reply = "none"
         /\ w.reply \notin SuccessReplies => AfterService(w).pc \in {"idle", "finalize"}
BY DEF AfterService, Request, IdleRequest

-----------------------------------------------------------------------------
(* Type correctness, one lemma per side.                                   *)

LEMMA FaultTypes ==
  ASSUME TypeOK, NEW kind, Inject(kind)
  PROVE  faults' \in 0 .. MaxFaults
BY LifecycleAssumption DEF TypeOK, Inject

LEMMA WebStepTypes ==
  ASSUME TypeInv, NEW j \in Jobs, WebStep(j)
  PROVE  TypeInv'
<1>1. TypeOK /\ Stages(j) /\ web[j] \in Request /\ rec[web[j].srv] \in ServerRecord
        /\ web[j].srv \in Servers
  <2>1. web[j].pc # "idle"
    BY DEF WebStep, Refuse, RefuseRunning, CallAgent, SaveReply, ConnectionLost, SaveNoReply,
           ReadForPrepare, StoreCredential, MarkPending, ReadForArchive, Archive,
           BeginRestart, FinishRestart
  <2>2. web[j] \in Request
    BY <2>1, BusyRequest DEF TypeInv
  <2> QED BY <2>2 DEF TypeInv, TypeOK, Request
<1> DEFINE Others == /\ container' = container /\ volume' = volume
                     /\ consented' = consented /\ lossConfirmed' = lossConfirmed
                     /\ faults' = faults
<1>2. Others
  BY DEF WebStep, Refuse, RefuseRunning, CallAgent, SaveReply, ConnectionLost, SaveNoReply,
         ReadForPrepare, StoreCredential, MarkPending, ReadForArchive, Archive,
         BeginRestart, FinishRestart, engine, history
<1> DEFINE Jobwise == /\ web' \in [Jobs -> Request \cup {IdleRequest}]
                      /\ agent' \in [Jobs -> Task \cup {IdleTask}]
                      /\ \A k \in Jobs : Stages(k)'
<1>3. SUFFICES rec' \in [Servers -> ServerRecord] /\ Jobwise
  BY <1>1, <1>2 DEF TypeInv, TypeOK
<1> DEFINE w == AfterService(web[j])
<1>4. w \in Request \cup {IdleRequest} /\ w.pc \in {"idle", "read", "finalize"}
        /\ (w.pc = "read" => w.reply = "none")
  BY <1>1, AfterServiceType, AfterServiceStages
<1>5. ASSUME Return(j), agent' = agent, agent[j] = IdleTask
      PROVE  Jobwise
  <2>1. web' = [web EXCEPT ![j] = w]
    BY <1>1, <1>5 DEF Return, TypeOK
  <2> HIDE DEF w
  <2> QED BY <1>4, <1>5, <2>1, WebMoves
<1>6. ASSUME NEW r \in ServerRecord, Write(j, r)
      PROVE  rec' \in [Servers -> ServerRecord]
  BY <1>1, <1>6, RecUpdate DEF Write
<1>7. ASSUME NEW p \in {"credential", "pending"}, WebGoto(j, p), agent' = agent,
             agent[j] = IdleTask
      PROVE  Jobwise
  <2>1. web' = [web EXCEPT ![j] = [web[j] EXCEPT !.pc = p]]
    BY <1>1, <1>7 DEF WebGoto, TypeOK
  <2>2. [web[j] EXCEPT !.pc = p] \in Request /\ [web[j] EXCEPT !.pc = p].pc = p
    BY <1>1 DEF Request, WebPcs
  <2> HIDE DEF Jobwise
  <2>3. QED
    BY <1>7, <2>1, <2>2, WebMoves DEF Jobwise
<1>8. CASE Refuse(j)
  <2>1. agent[j] = IdleTask
    BY <1>1, <1>8 DEF Refuse, Stages
  <2> QED BY <1>1, <1>5, <1>8, <2>1 DEF Refuse, TypeOK
<1>9. CASE RefuseRunning(j)
  <2> DEFINE v == [web[j] EXCEPT !.pc = "refused", !.reply = "stillRunning"]
  <2>1. agent[j] = IdleTask /\ web[j].op = "remove"
    BY <1>1, <1>9 DEF RefuseRunning, Stages
  <2>2. web' = [web EXCEPT ![j] = v] /\ agent' = agent /\ rec' = rec
    BY <1>1, <1>9 DEF RefuseRunning, TypeOK
  <2>3. v \in Request /\ v.pc = "refused" /\ v.op = "remove" /\ v.reply = "stillRunning"
    BY <1>1, <2>1 DEF Request, WebPcs, Replies, ErrorReplies
  <2> HIDE DEF v
  <2> QED BY <1>1, <2>1, <2>2, <2>3, WebMoves DEF TypeOK
<1>10. CASE CallAgent(j)
  <2> DEFINE v == [web[j] EXCEPT !.pc = "wait"]
             a == [pc |-> IF web[j].op = "health" THEN "managed" ELSE "probe",
                   op |-> web[j].op, srv |-> web[j].srv]
  <2>1. web' = [web EXCEPT ![j] = v] /\ agent' = [agent EXCEPT ![j] = a] /\ rec' = rec
    BY <1>1, <1>10 DEF CallAgent, WebGoto, TypeOK
  <2>2. v \in Request /\ v.pc = "wait" /\ v.op = web[j].op /\ v.srv = web[j].srv
          /\ v.reply = web[j].reply
    BY <1>1 DEF Request, WebPcs
  <2>3. a \in Task /\ web[j].op \in AgentOps
    BY <1>1, <1>10 DEF CallAgent, Task, AgentPcs
  <2>4. a.pc \in {"managed", "probe"} /\ a.op = v.op /\ a.srv = v.srv
    BY <2>2
  <2> HIDE DEF v, a
  <2>5. /\ web' \in [Jobs -> Request \cup {IdleRequest}]
        /\ web'[j] = v
        /\ \A k \in Jobs \ {j} : web'[k] = web[k]
    BY <1>1, <2>1, <2>2, WebUpdate
  <2>6. /\ agent' \in [Jobs -> Task \cup {IdleTask}]
        /\ agent'[j] = a
        /\ \A k \in Jobs \ {j} : agent'[k] = agent[k]
    BY <1>1, <2>1, <2>3, AgentUpdate
  <2>7. Stages(j)'
    BY <1>1, <1>10, <2>2, <2>3, <2>4, <2>5, <2>6 DEF Stages, CallAgent
  <2> QED BY <1>1, <2>1, <2>5, <2>6, <2>7, OtherJobs DEF TypeOK
<1>11. CASE SaveReply(j)
  <2>1. /\ web[j].pc \in {"wait", "refused"} /\ web[j].reply \in Replies
        /\ web[j].op \in AgentOps /\ agent[j] = IdleTask
    BY <1>1, <1>11 DEF SaveReply, Stages, Request, AgentOps
  <2>2. ReplyUpdate(web[j].op, web[j].reply, rec[web[j].srv]) \in ServerRecord
    BY <1>1, <2>1, UpdateTypes
  <2> QED BY <1>5, <1>6, <1>11, <2>1, <2>2 DEF SaveReply, RecordOf
<1>12. CASE ConnectionLost(j)
  <2> DEFINE u == [web[j] EXCEPT !.reply = "none"]
             v == AfterService(u)
  <2>1. web[j].op \in AgentOps /\ agent[j] = IdleTask /\ agent' = agent
    BY <1>1, <1>12 DEF ConnectionLost, SaveNoReply, Stages
  <2>2. web' = [web EXCEPT ![j] = v]
    BY <1>1, <1>12 DEF ConnectionLost, SaveNoReply, TypeOK
  <2>3. u \in Request
    BY <1>1 DEF Request
  <2> HIDE DEF u
  <2>4. v \in Request \cup {IdleRequest} /\ v.pc \in {"idle", "read", "finalize"}
          /\ (v.pc = "read" => v.reply = "none")
    BY <2>3, AfterServiceType, AfterServiceStages
  <2> HIDE DEF v
  <2>5. Jobwise
    BY <2>1, <2>2, <2>4, WebMoves
  <2>6. NoReplyUpdate(web[j].op, rec[web[j].srv]) \in ServerRecord
    BY <1>1, <2>1, UpdateTypes DEF Replies, SuccessReplies
  <2> QED BY <1>6, <1>12, <2>5, <2>6 DEF ConnectionLost, SaveNoReply, RecordOf
<1>13. CASE ReadForPrepare(j)
  <2>1. agent[j] = IdleTask /\ rec' = rec /\ agent' = agent
    BY <1>1, <1>13 DEF ReadForPrepare, Stages
  <2>2. \E p \in {"credential", "pending"} : WebGoto(j, p)
    BY <1>13 DEF ReadForPrepare
  <2> QED BY <1>1, <1>7, <2>1, <2>2 DEF TypeOK
<1>14. CASE StoreCredential(j)
  <2>1. agent[j] = IdleTask /\ agent' = agent
    BY <1>1, <1>14 DEF StoreCredential, Stages
  <2>2. CASE RecordOf(j).credential
    BY <1>1, <1>5, <1>14, <2>1, <2>2 DEF StoreCredential, TypeOK
  <2>3. CASE ~RecordOf(j).credential
    <3>1. [RecordOf(j) EXCEPT !.credential = TRUE] \in ServerRecord
      BY <1>1 DEF RecordOf, ServerRecord
    <3> QED BY <1>6, <1>7, <1>14, <2>1, <2>3, <3>1 DEF StoreCredential
  <2> QED BY <2>2, <2>3
<1>15. CASE MarkPending(j)
  <2>1. agent[j] = IdleTask /\ agent' = agent
    BY <1>1, <1>15 DEF MarkPending, Stages
  <2>2. [RecordOf(j) EXCEPT !.provisioningStatus = "CONTAINER_PENDING", !.errorKey = "none"]
          \in ServerRecord
    BY <1>1 DEF RecordOf, ServerRecord, Statuses, ErrorKeys
  <2> QED BY <1>5, <1>6, <1>15, <2>1, <2>2 DEF MarkPending
<1>16. CASE ReadForArchive(j)
  <2> DEFINE v == [web[j] EXCEPT !.pc = "archive", !.hadCredential = RecordOf(j).credential]
  <2>1. agent[j] = IdleTask /\ rec' = rec /\ agent' = agent
    BY <1>1, <1>16 DEF ReadForArchive, Stages
  <2>2. web' = [web EXCEPT ![j] = v]
    BY <1>1, <1>16 DEF ReadForArchive, TypeOK
  <2>3. v \in Request /\ v.pc = "archive"
    BY <1>1 DEF Request, WebPcs, RecordOf, ServerRecord
  <2> HIDE DEF v
  <2> QED BY <1>1, <2>1, <2>2, <2>3, WebMoves DEF TypeOK
<1>17. CASE Archive(j)
  <2>1. agent[j] = IdleTask /\ agent' = agent
    BY <1>1, <1>17 DEF Archive, Stages
  <2>2. /\ [RecordOf(j) EXCEPT !.archived = TRUE, !.credential = FALSE,
                              !.credentialsRemoved = TRUE] \in ServerRecord
        /\ [RecordOf(j) EXCEPT !.archived = TRUE] \in ServerRecord
    BY <1>1 DEF RecordOf, ServerRecord
  <2> QED BY <1>5, <1>6, <1>17, <2>1, <2>2 DEF Archive
<1>18. CASE BeginRestart(j)
  <2> DEFINE v == [web[j] EXCEPT !.op = "stop", !.chain = TRUE]
  <2>1. agent[j] = IdleTask /\ rec' = rec /\ agent' = agent
    BY <1>1, <1>18 DEF BeginRestart, Stages
  <2>2. web' = [web EXCEPT ![j] = v] /\ web[j].pc = "read" /\ web[j].reply = "none"
    BY <1>1, <1>18 DEF BeginRestart, TypeOK, Stages
  <2>3. v \in Request /\ v.pc = "read" /\ v.reply = "none"
    BY <1>1, <2>2 DEF Request, Operations, AgentOps
  <2> HIDE DEF v
  <2> QED BY <1>1, <2>1, <2>2, <2>3, WebMoves DEF TypeOK
<1>19. CASE FinishRestart(j)
  <2>1. [RecordOf(j) EXCEPT !.errorKey =
           IF web[j].op = "start" /\ web[j].reply \in SuccessReplies
           THEN "none" ELSE "failed"] \in ServerRecord
    BY <1>1 DEF RecordOf, ServerRecord, ErrorKeys
  <2>2. web' = [web EXCEPT ![j] = IdleRequest] /\ agent' = agent
    BY <1>19 DEF FinishRestart
  <2>3. Jobwise
    BY <2>2, WebMoves DEF IdleRequest
  <2> QED BY <1>6, <1>19, <2>1, <2>3 DEF FinishRestart
<1> QED
  BY <1>8, <1>9, <1>10, <1>11, <1>12, <1>13, <1>14, <1>15, <1>16, <1>17, <1>18, <1>19
  DEF WebStep

LEMMA AgentStepTypes ==
  ASSUME TypeInv, NEW j \in Jobs, AgentStep(j)
  PROVE  TypeInv'
<1> DEFINE o == agent[j].op
           s == agent[j].srv
<1>1. TypeOK /\ Stages(j) /\ agent[j].pc # "idle" /\ agent[j] \in Task
  <2>1. agent[j].pc # "idle"
    BY DEF AgentStep, AgentProbe, AgentFindContainer, AgentFindManaged, AgentFindForeign,
           AgentFindRunning, AgentAct
  <2> QED BY <2>1, BusyTask DEF TypeInv
<1>2. o \in AgentOps /\ s \in Servers
  BY <1>1 DEF Task
<1>3. rec' = rec /\ consented' = consented /\ lossConfirmed' = lossConfirmed
  BY DEF AgentStep, AgentProbe, AgentFindContainer, AgentFindManaged, AgentFindForeign,
         AgentFindRunning, AgentAct, history
<1> DEFINE Engine == /\ container' \in [Servers -> ContainerStates]
                     /\ volume' \in [Servers -> VolumeStates]
                     /\ faults' \in 0 .. MaxFaults
           Moves == \/ /\ \E p \in AgentPcs \ {"idle", "probe"} : AgentGoto(j, p)
                       /\ agent'[j].pc = "containers" => o = "removeVolume"
                       /\ agent'[j].pc = "running" => o \in {"start", "stop", "remove"}
                       /\ agent'[j].pc = "act" => o # "health"
                    \/ \E a \in Replies : Reply(j, a)
<1>4. SUFFICES Engine /\ Moves
  <2>1. /\ web' \in [Jobs -> Request \cup {IdleRequest}]
        /\ agent' \in [Jobs -> Task \cup {IdleTask}]
        /\ \A k \in Jobs : Stages(k)'
    BY <1>1, <1>4, AgentMoves
  <2> QED BY <1>1, <1>3, <1>4, <2>1 DEF TypeInv, TypeOK
<1>5. ASSUME NEW p \in AgentPcs \ {"idle", "probe"}, AgentGoto(j, p),
             p = "containers" => o = "removeVolume",
             p = "running" => o \in {"start", "stop", "remove"},
             p = "act" => o # "health"
      PROVE  Moves
  <2>1. agent'[j].pc = p
    BY <1>1, <1>5 DEF AgentGoto, TypeOK, Task
  <2> QED BY <1>5, <2>1
<1>6. ASSUME NEW truth, NEW seen, Lists(truth, seen)
      PROVE  faults' \in 0 .. MaxFaults
  BY <1>1, <1>6, FaultTypes DEF Lists, TypeOK
<1>7. ASSUME UNCHANGED engine
      PROVE  container' \in [Servers -> ContainerStates] /\ volume' \in [Servers -> VolumeStates]
  BY <1>1, <1>7 DEF engine, TypeOK
<1>8. /\ SuccessReplies \subseteq Replies /\ ErrorReplies \subseteq Replies
      /\ RuntimeReplies \subseteq Replies
      /\ {"exists", "alreadyRemoved", "alreadyRunning", "alreadyStopped"} \subseteq SuccessReplies
      /\ {"unavailable", "containerStillExists", "notFound", "conflict", "stillRunning", "error"}
           \subseteq ErrorReplies
  BY DEF Replies, SuccessReplies, ErrorReplies
<1>9. {"containers", "managed", "foreign", "running", "act"} \subseteq AgentPcs \ {"idle", "probe"}
  BY DEF AgentPcs
<1> HIDE DEF Moves, o, s
<1>10. ASSUME NEW next \in (AgentPcs \ {"idle", "probe"}) \cup Replies \cup {"inspect"}, Proceed(j, next),
              next = "containers" => o = "removeVolume",
              next = "running" => o \in {"start", "stop", "remove"},
              next = "act" => o # "health"
       PROVE  Moves
  <2>1. CASE next \in AgentPcs \ {"idle", "probe"} /\ AgentGoto(j, next)
    BY <1>5, <1>10, <2>1
  <2>2. CASE \E a \in Replies : Reply(j, a)
    BY <2>2 DEF Moves
  <2> QED BY <1>8, <1>10, <2>1, <2>2, ProceedSplit
<1>11. CASE AgentProbe(j)
  <2>1. faults' \in 0 .. MaxFaults
    BY <1>1, <1>11, FaultTypes DEF AgentProbe, TypeOK
  <2>2. o # "health"
    BY <1>1, <1>11 DEF AgentProbe, Stages, o
  <2>3. Proceed(j, Handler(o).probed) => Moves
    BY <1>2, <1>9, <1>10, <2>2, HandlerTables
  <2>4. Reply(j, "unavailable") => Moves
    BY <1>8 DEF Moves
  <2> QED BY <1>7, <1>11, <2>1, <2>3, <2>4 DEF AgentProbe, o
<1>12. CASE AgentFindContainer(j)
  <2>1. PICK seen \in BOOLEAN :
          /\ Lists(ManagedContainer(s), seen)
          /\ IF seen THEN Reply(j, "containerStillExists") ELSE AgentGoto(j, "managed")
    BY <1>12 DEF AgentFindContainer, s
  <2>2. Moves
    BY <1>5, <1>8, <1>9, <2>1 DEF Moves
  <2> QED BY <1>6, <1>7, <1>12, <2>1, <2>2 DEF AgentFindContainer
<1>13. Proceed(j, Handler(o).managed) => Moves
  BY <1>2, <1>8, <1>9, <1>10, HandlerTables
<1>14. CASE AgentFindManaged(j)
  <2>1. CASE o = "health" /\ Inject("list") /\ Reply(j, "unavailable")
    BY <1>1, <1>7, <1>8, <1>14, <2>1, FaultTypes DEF AgentFindManaged, Moves
  <2>2. CASE \E seen \in BOOLEAN :
               /\ Lists(ManagedTarget(o, s), seen)
               /\ IF seen THEN Proceed(j, Handler(o).managed)
                  ELSE (o = "health" => ~ManagedTarget(o, s)) /\ AgentGoto(j, "foreign")
    <3>1. PICK seen \in BOOLEAN :
               /\ Lists(ManagedTarget(o, s), seen)
               /\ IF seen THEN Proceed(j, Handler(o).managed) ELSE AgentGoto(j, "foreign")
      BY <2>2
    <3>2. Moves
      BY <1>5, <1>9, <1>13, <3>1
    <3> QED BY <1>6, <1>7, <1>14, <3>1, <3>2 DEF AgentFindManaged
  <2> QED BY <1>14, <2>1, <2>2 DEF AgentFindManaged, o, s
<1>15. Proceed(j, Handler(o).free) \/ Proceed(j, "conflict") => Moves
  BY <1>2, <1>8, <1>9, <1>10, HandlerTables
<1>16. CASE AgentFindForeign(j)
  <2>1. PICK seen \in BOOLEAN :
          /\ Lists(AnyTarget(o, s), seen)
          /\ Proceed(j, IF seen THEN "conflict" ELSE Handler(o).free)
    BY <1>16 DEF AgentFindForeign, o, s
  <2>2. Moves
    BY <1>15, <2>1
  <2> QED BY <1>6, <1>7, <1>16, <2>1, <2>2 DEF AgentFindForeign
<1>17. CASE AgentFindRunning(j)
  <2>1. o \in {"start", "stop", "remove"}
    BY <1>1, <1>17 DEF AgentFindRunning, Stages, o
  <2>2. PICK seen \in BOOLEAN :
          /\ Lists(container[s] = "running", seen)
          /\ Proceed(j, IF seen THEN Handler(o).up ELSE Handler(o).down)
    BY <1>17 DEF AgentFindRunning, o, s
  <2>3. Proceed(j, Handler(o).up) \/ Proceed(j, Handler(o).down) => Moves
    BY <1>2, <1>8, <1>9, <1>10, <2>1, HandlerTables
  <2>4. Moves
    BY <2>2, <2>3
  <2> QED BY <1>6, <1>7, <1>17, <2>2, <2>4 DEF AgentFindRunning
<1>18. CASE AgentAct(j)
  <2>1. o # "health"
    BY <1>1, <1>18 DEF AgentAct, Stages, o
  <2>2. Handler(o).done \in Replies
    BY <1>2, <1>8, <2>1, HandlerTables
  <2>3. Moves
    BY <1>8, <1>18, <2>2 DEF AgentAct, Moves, o
  <2>4. faults' \in 0 .. MaxFaults
    BY <1>1, <1>18, FaultTypes DEF AgentAct, TypeOK
  <2>5. CommandEffect(o, s) => container' \in [Servers -> ContainerStates]
    BY <1>1 DEF CommandEffect, TypeOK, ContainerStates
  <2>6. CommandEffect(o, s) => volume' \in [Servers -> VolumeStates]
    BY <1>1 DEF CommandEffect, TypeOK, VolumeStates
  <2>7. CommandEffect(o, s) \/ UNCHANGED engine
    BY <1>18 DEF AgentAct, o, s
  <2> QED BY <1>7, <2>3, <2>4, <2>5, <2>6, <2>7
<1> QED
  BY <1>11, <1>12, <1>14, <1>16, <1>17, <1>18 DEF AgentStep

LEMMA SubmitTypes ==
  ASSUME TypeInv, NEW j \in Jobs, OwnerStep(j)
  PROVE  TypeInv'
<1>1. PICK s \in Servers, o \in Operations, f \in Forms : Submit(j, s, o, f)
  BY DEF OwnerStep
<1> DEFINE v == [IdleRequest EXCEPT !.pc = "read", !.op = o, !.srv = s, !.form = f]
<1>2. v \in Request /\ v.pc = "read" /\ v.reply = "none"
  BY DEF IdleRequest, Request, WebPcs
<1>3. web' = [web EXCEPT ![j] = v] /\ agent[j] = IdleTask /\ agent' = agent
  BY <1>1 DEF Submit
<1> HIDE DEF v
<1>4. /\ web' \in [Jobs -> Request \cup {IdleRequest}]
      /\ agent' \in [Jobs -> Task \cup {IdleTask}]
      /\ \A k \in Jobs : Stages(k)'
  BY <1>2, <1>3, WebMoves
<1>5. consented' \subseteq Servers /\ lossConfirmed' \subseteq Servers
  BY <1>1 DEF TypeInv, TypeOK, Submit
<1> QED BY <1>1, <1>4, <1>5 DEF TypeInv, TypeOK, Submit, engine

LEMMA CrashTypes ==
  ASSUME TypeInv, NEW j \in Jobs, Crash(j)
  PROVE  TypeInv'
<1>1. TypeOK /\ Stages(j) /\ faults' \in 0 .. MaxFaults
  BY FaultTypes DEF TypeInv, Crash, WebCrash, AgentCrash, Timeout
<1>2. container' = container /\ volume' = volume
        /\ consented' = consented /\ lossConfirmed' = lossConfirmed
  BY DEF Crash, WebCrash, AgentCrash, Timeout, SaveNoReply, engine, history
<1>3. CASE WebCrash(j)
  <2>1. web' = [web EXCEPT ![j] = IdleRequest] /\ agent' = agent /\ rec' = rec
    BY <1>3 DEF WebCrash
  <2>2. /\ web' \in [Jobs -> Request \cup {IdleRequest}]
        /\ agent' \in [Jobs -> Task \cup {IdleTask}]
        /\ \A k \in Jobs : Stages(k)'
    BY <2>1, WebMoves DEF IdleRequest
  <2> QED BY <1>1, <1>2, <2>1, <2>2 DEF TypeInv, TypeOK
<1>4. CASE AgentCrash(j)
  <2>1. agent' = [agent EXCEPT ![j] = IdleTask] /\ web' = web /\ rec' = rec
    BY <1>4 DEF AgentCrash
  <2>2. /\ agent' \in [Jobs -> Task \cup {IdleTask}]
        /\ agent'[j] = IdleTask
        /\ \A k \in Jobs \ {j} : agent'[k] = agent[k]
    BY <1>1, <2>1, AgentUpdate
  <2>3. Stages(j)'
    BY <1>1, <2>1, <2>2 DEF Stages, IdleTask
  <2>4. \A k \in Jobs : Stages(k)'
    BY <2>1, <2>2, <2>3, OtherJobs
  <2> QED BY <1>1, <1>2, <2>1, <2>2, <2>4 DEF TypeInv, TypeOK
<1>5. CASE Timeout(j)
  <2> DEFINE u == [web[j] EXCEPT !.reply = "none"]
             v == AfterService(u)
             a == IF agent' = agent THEN agent[j] ELSE IdleTask
  <2>1. web[j].pc = "wait" /\ web[j].op \in AgentOps /\ web[j] \in Request
    BY <1>1, <1>5, BusyRequest DEF Timeout, SaveNoReply, Stages
  <2>2. web' = [web EXCEPT ![j] = v]
    BY <1>1, <1>5 DEF Timeout, SaveNoReply, TypeOK
  <2>3. u \in Request /\ u.reply = "none" /\ "none" \notin SuccessReplies
    BY <2>1 DEF Request, SuccessReplies
  <2> HIDE DEF u
  <2>4. v \in Request \cup {IdleRequest} /\ v.pc \in {"idle", "finalize"}
    BY <2>3, AfterServiceType, AfterServiceStages
  <2> HIDE DEF v
  <2>5. /\ web' \in [Jobs -> Request \cup {IdleRequest}]
        /\ web'[j] = v
        /\ \A k \in Jobs \ {j} : web'[k] = web[k]
    BY <1>1, <2>2, <2>4, WebUpdate
  <2>6. agent' = [agent EXCEPT ![j] = a] /\ a \in Task \cup {IdleTask}
    BY <1>1, <1>5 DEF Timeout, TypeOK
  <2>7. /\ agent' \in [Jobs -> Task \cup {IdleTask}]
        /\ agent'[j] = a
        /\ \A k \in Jobs \ {j} : agent'[k] = agent[k]
    <3> HIDE DEF a
    <3> QED BY <1>1, <2>6, AgentUpdate
  <2>8. Stages(j)'
    BY <1>1, <2>4, <2>5, <2>7 DEF Stages, IdleTask
  <2>9. \A k \in Jobs : Stages(k)'
    BY <2>5, <2>7, <2>8, OtherJobs
  <2>10. rec' \in [Servers -> ServerRecord]
    <3>1. web[j].srv \in Servers /\ rec[web[j].srv] \in ServerRecord
      BY <1>1, <2>1 DEF Request, TypeOK
    <3>2. NoReplyUpdate(web[j].op, rec[web[j].srv]) \in ServerRecord
      BY <2>1, <3>1, UpdateTypes DEF Replies, SuccessReplies
    <3> QED BY <1>1, <1>5, <3>1, <3>2, RecUpdate DEF Timeout, SaveNoReply, Write, RecordOf
  <2> QED BY <1>1, <1>2, <2>5, <2>7, <2>9, <2>10 DEF TypeInv, TypeOK
<1> QED BY <1>3, <1>4, <1>5 DEF Crash

LEMMA TypeInvInit == Init => TypeInv
<1> SUFFICES ASSUME Init PROVE TypeInv
  OBVIOUS
<1>1. PreparedRecord \in ServerRecord
  BY DEF PreparedRecord, ServerRecord, Statuses, RunStates, ErrorKeys
<1>2. TypeOK
  BY <1>1, LifecycleAssumption DEF Init, TypeOK, ContainerStates, VolumeStates
<1>3. \A j \in Jobs : Stages(j)
  BY DEF Init, Stages, IdleRequest, IdleTask
<1> QED BY <1>2, <1>3 DEF TypeInv

LEMMA TypeInvNext == TypeInv /\ [Next]_vars => TypeInv'
<1> SUFFICES ASSUME TypeInv, [Next]_vars PROVE TypeInv'
  OBVIOUS
<1>1. ASSUME NEW j \in Jobs, OwnerStep(j) \/ WebStep(j) \/ AgentStep(j) \/ Crash(j)
      PROVE  TypeInv'
  BY <1>1, SubmitTypes, WebStepTypes, AgentStepTypes, CrashTypes
<1>2. ASSUME NEW s \in Servers, ForeignContainer(s)
      PROVE  TypeInv'
  <2>1. faults' \in 0 .. MaxFaults
    BY <1>2, FaultTypes DEF ForeignContainer, TypeInv
  <2>2. container' \in [Servers -> ContainerStates]
    BY <1>2 DEF ForeignContainer, TypeInv, TypeOK, ContainerStates
  <2> QED BY <1>2, <2>1, <2>2 DEF ForeignContainer, TypeInv, TypeOK, Stages, history
<1>3. CASE UNCHANGED vars
  BY <1>3 DEF vars, TypeInv, TypeOK, Stages
<1> QED BY <1>1, <1>2, <1>3 DEF Next

\* Type correctness: whatever is interleaved and whatever fails, records,
\* requests and handlers stay well formed, and no handler is left on a request
\* whose service is at work on something else.
THEOREM TypeCorrect == Spec => []TypeOK
<1>1. TypeInv => TypeOK
  BY DEF TypeInv
<1> QED BY <1>1, TypeInvInit, TypeInvNext, PTL DEF Spec

-----------------------------------------------------------------------------
(* The shape of a step: what it may change of the requests, the handlers   *)
(* and docker.                                                             *)

\* A request keeps its server and its form, and its operation except where a
\* restart becomes a stop and then a start.
SameRequest(v, w) ==
  /\ w.srv = v.srv
  /\ w.form = v.form
  /\ \/ w.op = v.op /\ w.chain = v.chain
     \/ v.op = "restart" /\ v.form = "accepted" /\ w.op = "stop" /\ w.chain
     \/ v.op = "stop" /\ v.chain /\ w.op = "start" /\ w.chain

LEMMA AfterServiceShape ==
  ASSUME NEW w \in Request
  PROVE  AfterService(w) = IdleRequest \/ SameRequest(w, AfterService(w))
BY DEF AfterService, SameRequest, Request

LEMMA WebShape ==
  ASSUME TypeInv, NEW j \in Jobs, WebStep(j) \/ Timeout(j) \/ WebCrash(j)
  PROVE  /\ \A k \in Jobs \ {j} : web'[k] = web[k] /\ agent'[k] = agent[k]
         /\ web'[j] = IdleRequest \/ SameRequest(web[j], web'[j])
         /\ \/ agent'[j] \in {agent[j], IdleTask}
            \/ /\ web[j].op \in AgentOps
               /\ Admits(web[j].op, rec[web[j].srv], web[j].form)
               /\ agent'[j].op = web[j].op /\ agent'[j].srv = web[j].srv
               /\ rec' = rec /\ web'[j].op = web[j].op
         /\ UNCHANGED <<engine, history>>
<1>1. TypeOK /\ web \in [Jobs -> Request \cup {IdleRequest}]
  BY DEF TypeInv, TypeOK
<1>2. CASE WebCrash(j)
  BY <1>1, <1>2 DEF WebCrash, TypeOK
<1>3. CASE Timeout(j) \/ ConnectionLost(j)
  <2> DEFINE u == [web[j] EXCEPT !.reply = "none"]
  <2>1. SaveNoReply(j) /\ (agent' = agent \/ agent' = [agent EXCEPT ![j] = IdleTask])
    BY <1>3 DEF Timeout, ConnectionLost
  <2>2. web[j] \in Request
    BY <1>1, <2>1, BusyRequest DEF SaveNoReply
  <2>3. u \in Request /\ u.srv = web[j].srv /\ u.form = web[j].form /\ u.op = web[j].op
          /\ u.chain = web[j].chain
    BY <2>2 DEF Request
  <2>4. web' = [web EXCEPT ![j] = AfterService(u)]
    BY <1>1, <2>1 DEF SaveNoReply
  <2> HIDE DEF u
  <2>5. AfterService(u) = IdleRequest \/ SameRequest(u, AfterService(u))
    BY <2>3, AfterServiceShape
  <2>6. web'[j] = IdleRequest \/ SameRequest(web[j], web'[j])
    BY <1>1, <2>3, <2>4, <2>5 DEF SameRequest
  <2>7. UNCHANGED <<engine, history>>
    BY <2>1 DEF SaveNoReply
  <2>8. \A k \in Jobs \ {j} : web'[k] = web[k] /\ agent'[k] = agent[k]
    BY <1>1, <2>1, <2>4 DEF TypeOK
  <2>9. agent'[j] \in {agent[j], IdleTask}
    BY <1>1, <2>1 DEF TypeOK
  <2> QED BY <2>6, <2>7, <2>8, <2>9
<1>4. CASE Refuse(j) \/ SaveReply(j) \/ MarkPending(j) \/ Archive(j)
           \/ (StoreCredential(j) /\ Return(j))
  <2>1. Return(j) /\ agent' = agent /\ UNCHANGED <<engine, history>>
    BY <1>4 DEF Refuse, SaveReply, MarkPending, Archive, StoreCredential
  <2>2. web[j] \in Request
    BY <1>1, <1>4, BusyRequest DEF Refuse, SaveReply, MarkPending, Archive, StoreCredential
  <2> QED BY <1>1, <2>1, <2>2, AfterServiceShape DEF Return
<1>5. CASE CallAgent(j)
  <2>1. web[j] \in Request
    BY <1>1, <1>5, BusyRequest DEF CallAgent
  <2>2. web'[j] = [web[j] EXCEPT !.pc = "wait"]
    BY <1>1, <1>5 DEF CallAgent, WebGoto
  <2>3. SameRequest(web[j], web'[j]) /\ web'[j].op = web[j].op
    BY <2>1, <2>2 DEF SameRequest, Request
  <2>4. agent'[j].op = web[j].op /\ agent'[j].srv = web[j].srv
    BY <1>1, <1>5 DEF CallAgent, TypeOK
  <2> QED BY <1>1, <1>5, <2>3, <2>4 DEF CallAgent, WebGoto, RecordOf, TypeOK
<1>6. CASE BeginRestart(j)
  <2>1. web[j] \in Request
    BY <1>1, <1>6, BusyRequest DEF BeginRestart
  <2>2. web'[j] = [web[j] EXCEPT !.op = "stop", !.chain = TRUE]
    BY <1>1, <1>6 DEF BeginRestart
  <2>3. web[j].op = "restart" /\ web[j].form = "accepted"
    BY <1>6 DEF BeginRestart, Admits, resolveRestart
  <2>4. SameRequest(web[j], web'[j])
    BY <2>1, <2>2, <2>3 DEF SameRequest, Request
  <2> QED BY <1>1, <1>6, <2>4 DEF BeginRestart
<1>7. CASE RefuseRunning(j) \/ ReadForPrepare(j) \/ ReadForArchive(j) \/ FinishRestart(j)
           \/ (StoreCredential(j) /\ WebGoto(j, "pending"))
  <2>1. web[j] \in Request
    BY <1>1, <1>7, BusyRequest
    DEF RefuseRunning, ReadForPrepare, ReadForArchive, FinishRestart, StoreCredential
  <2>2. /\ web'[j] = IdleRequest \/ SameRequest(web[j], web'[j])
        /\ \A k \in Jobs \ {j} : web'[k] = web[k]
    BY <1>1, <1>7, <2>1
    DEF RefuseRunning, ReadForPrepare, ReadForArchive, FinishRestart, StoreCredential,
        WebGoto, SameRequest, Request
  <2>3. agent' = agent /\ UNCHANGED <<engine, history>>
    BY <1>7 DEF RefuseRunning, ReadForPrepare, ReadForArchive, FinishRestart, StoreCredential
  <2> QED BY <2>2, <2>3
<1> QED
  BY <1>2, <1>3, <1>4, <1>5, <1>6, <1>7 DEF WebStep, StoreCredential

\* Every step of a handler ends with going on or with an answer.
LEMMA GoesOrReplies ==
  ASSUME TypeInv, NEW j \in Jobs, AgentStep(j)
  PROVE  /\ agent[j] \in Task /\ agent[j].pc # "idle"
         /\ (\E p : AgentGoto(j, p)) \/ (\E a : Reply(j, a))
<1>1. agent[j] \in Task /\ agent[j].pc # "idle" /\ Stages(j)
  <2>1. agent[j].pc # "idle"
    BY DEF AgentStep, AgentProbe, AgentFindContainer, AgentFindManaged, AgentFindForeign,
           AgentFindRunning, AgentAct
  <2> QED BY <2>1, BusyTask DEF TypeInv
<1>2. agent[j].op \in AgentOps
  BY <1>1 DEF Task
<1>3. ASSUME NEW next \in (AgentPcs \ {"idle", "probe"}) \cup Replies \cup {"inspect"},
             Proceed(j, next)
      PROVE  (\E p : AgentGoto(j, p)) \/ (\E a : Reply(j, a))
  BY <1>3, ProceedSplit
<1>4. /\ agent[j].pc = "probe" => agent[j].op # "health"
      /\ agent[j].pc = "running" => agent[j].op \in {"start", "stop", "remove"}
      /\ SuccessReplies \subseteq Replies /\ "conflict" \in Replies
      /\ {"containers", "managed", "running", "act"} \subseteq AgentPcs \ {"idle", "probe"}
      /\ {"exists", "alreadyRemoved", "alreadyRunning", "alreadyStopped", "stillRunning",
           "notFound"} \subseteq Replies
  BY <1>1 DEF Stages, Replies, SuccessReplies, ErrorReplies, AgentPcs
<1>5. (\E p : AgentGoto(j, p)) \/ (\E a : Reply(j, a))
  <2>1. CASE AgentProbe(j)
    BY <1>2, <1>3, <1>4, <2>1, HandlerTables DEF AgentProbe
  <2>2. CASE AgentFindManaged(j)
    BY <1>2, <1>3, <1>4, <2>2, HandlerTables DEF AgentFindManaged
  <2>3. CASE AgentFindForeign(j)
    BY <1>2, <1>3, <1>4, <2>3, HandlerTables DEF AgentFindForeign
  <2>4. CASE AgentFindRunning(j)
    BY <1>2, <1>3, <1>4, <2>4, HandlerTables DEF AgentFindRunning
  <2> QED
    BY <2>1, <2>2, <2>3, <2>4 DEF AgentStep, AgentFindContainer, AgentAct
<1> QED BY <1>1, <1>5

LEMMA AgentShape ==
  ASSUME TypeInv, NEW j \in Jobs, AgentStep(j) \/ AgentCrash(j)
  PROVE  /\ \A k \in Jobs : SameRequest(web[k], web'[k]) /\ web'[k].op = web[k].op
                              /\ web'[k].pc = web[k].pc /\ web'[k].chain = web[k].chain
                              /\ (k # j => web'[k] = web[k])
         /\ \A k \in Jobs : agent'[k] = IdleTask
              \/ (agent'[k].op = agent[k].op /\ agent'[k].srv = agent[k].srv)
         /\ rec' = rec /\ UNCHANGED history
         /\ \/ UNCHANGED engine
            \/ agent[j].pc = "act" /\ CommandPossible(agent[j].op, agent[j].srv)
                 /\ CommandEffect(agent[j].op, agent[j].srv)
<1>1. TypeOK
  BY DEF TypeInv
<1>2. rec' = rec /\ UNCHANGED history
  BY DEF AgentStep, AgentProbe, AgentFindContainer, AgentFindManaged, AgentFindForeign,
         AgentFindRunning, AgentAct, AgentCrash
<1>3. \/ UNCHANGED engine
      \/ agent[j].pc = "act" /\ CommandPossible(agent[j].op, agent[j].srv)
           /\ CommandEffect(agent[j].op, agent[j].srv)
  BY DEF AgentStep, AgentProbe, AgentFindContainer, AgentFindManaged, AgentFindForeign,
         AgentFindRunning, AgentAct, AgentCrash
<1> DEFINE Requests == \A k \in Jobs : SameRequest(web[k], web'[k]) /\ web'[k].op = web[k].op
                              /\ web'[k].pc = web[k].pc /\ web'[k].chain = web[k].chain
                              /\ (k # j => web'[k] = web[k])
           Tasks == \A k \in Jobs : agent'[k] = IdleTask
                      \/ (agent'[k].op = agent[k].op /\ agent'[k].srv = agent[k].srv)
<1>4. web' = web => Requests
  BY DEF SameRequest
<1>5. ASSUME NEW p, AgentGoto(j, p), agent[j].pc # "idle"
      PROVE  Requests /\ Tasks
  <2>1. agent[j] \in Task
    BY <1>1, <1>5, BusyTask
  <2> QED BY <1>1, <1>4, <1>5, <2>1 DEF AgentGoto, TypeOK, Task
<1>6. ASSUME NEW a, Reply(j, a)
      PROVE  Requests /\ Tasks
  <2>1. Tasks
    BY <1>1, <1>6 DEF Reply, TypeOK
  <2>2. web[j].pc = "wait" => web[j] \in Request
    BY <1>1, BusyRequest
  <2>3. Requests
    BY <1>1, <1>4, <1>6, <2>2 DEF Reply, TypeOK, SameRequest, Request
  <2> QED BY <2>1, <2>3
<1> HIDE DEF Requests, Tasks
<1>7. CASE AgentStep(j)
  <2>5. agent[j].pc # "idle" /\ ((\E p : AgentGoto(j, p)) \/ (\E a : Reply(j, a)))
    BY <1>7, GoesOrReplies
  <2>6. Requests /\ Tasks
    BY <1>5, <1>6, <2>5
  <2> QED BY <1>2, <1>3, <2>6 DEF Requests, Tasks
<1>8. CASE AgentCrash(j)
  <2>1. Requests
    BY <1>4, <1>8 DEF AgentCrash
  <2>2. Tasks
    BY <1>1, <1>8 DEF AgentCrash, TypeOK, Tasks
  <2> QED BY <1>2, <1>3, <2>1, <2>2 DEF Requests, Tasks
<1> QED BY <1>7, <1>8

-----------------------------------------------------------------------------
(* Consent.                                                                *)

\* A request that may start a server, and a handler that will, go back to a
\* form with the license box; likewise for the confirmation of a data loss.
Consented(j) ==
  /\ web[j].op \in {"start", "restart"} /\ web[j].form = "accepted" =>
       web[j].srv \in consented
  /\ web[j].chain => web[j].srv \in consented
  /\ web[j].op = "removeVolume" /\ web[j].form = "accepted" =>
       web[j].srv \in lossConfirmed
  /\ agent[j].op = "start" => agent[j].srv \in consented
  /\ agent[j].op = "removeVolume" => agent[j].srv \in lossConfirmed

ConsentInv == TypeInv /\ (\A j \in Jobs : Consented(j)) /\ OnlyLicensedServersRun

LEMMA ConsentInit == Init => ConsentInv
<1> SUFFICES ASSUME Init PROVE ConsentInv
  OBVIOUS
<1>1. \A j \in Jobs : Consented(j)
  BY DEF Init, Consented, IdleRequest, IdleTask
<1> QED BY <1>1, TypeInvInit DEF ConsentInv, Init, OnlyLicensedServersRun

LEMMA ConsentNext == ConsentInv /\ [Next]_vars => ConsentInv'
<1> SUFFICES ASSUME ConsentInv, [Next]_vars PROVE ConsentInv'
  OBVIOUS
<1>1. TypeInv /\ TypeOK /\ TypeInv'
  BY TypeInvNext DEF ConsentInv, TypeInv
<1>2. SUFFICES (\A j \in Jobs : Consented(j)') /\ OnlyLicensedServersRun'
  BY <1>1 DEF ConsentInv
<1>3. ASSUME NEW j \in Jobs, WebStep(j) \/ Timeout(j) \/ WebCrash(j)
      PROVE  (\A k \in Jobs : Consented(k)') /\ OnlyLicensedServersRun'
  <2>1. /\ \A k \in Jobs \ {j} : web'[k] = web[k] /\ agent'[k] = agent[k]
        /\ web'[j] = IdleRequest \/ SameRequest(web[j], web'[j])
        /\ \/ agent'[j] \in {agent[j], IdleTask}
           \/ /\ Admits(web[j].op, rec[web[j].srv], web[j].form)
              /\ agent'[j].op = web[j].op /\ agent'[j].srv = web[j].srv
        /\ UNCHANGED <<engine, history>>
    BY <1>1, <1>3, WebShape
  <2>2. Consented(j)
    BY DEF ConsentInv
  <2>3. Admits(web[j].op, rec[web[j].srv], web[j].form) /\ web[j].op \in {"start", "removeVolume"}
          => web[j].form = "accepted"
    BY DEF Admits, resolveContainerStart, mapVolumeConfirmationGuard
  <2>4. consented' = consented /\ lossConfirmed' = lossConfirmed /\ container' = container
    BY <2>1 DEF engine, history
  <2>5. \A k \in Jobs \ {j} : Consented(k)'
    BY <2>1, <2>4 DEF ConsentInv, Consented
  <2>6. Consented(j)'
    BY <2>1, <2>2, <2>3, <2>4 DEF Consented, SameRequest, IdleRequest, IdleTask
  <2> QED BY <2>4, <2>5, <2>6 DEF ConsentInv, OnlyLicensedServersRun
<1>4. ASSUME NEW j \in Jobs, AgentStep(j) \/ AgentCrash(j)
      PROVE  (\A k \in Jobs : Consented(k)') /\ OnlyLicensedServersRun'
  <2>1. /\ \A k \in Jobs : SameRequest(web[k], web'[k]) /\ web'[k].op = web[k].op
                             /\ web'[k].chain = web[k].chain
        /\ \A k \in Jobs : agent'[k] = IdleTask
             \/ (agent'[k].op = agent[k].op /\ agent'[k].srv = agent[k].srv)
        /\ consented' = consented /\ lossConfirmed' = lossConfirmed
        /\ \/ UNCHANGED engine
           \/ CommandPossible(agent[j].op, agent[j].srv) /\ CommandEffect(agent[j].op, agent[j].srv)
    BY <1>1, <1>4, AgentShape DEF history
  <2>2. \A k \in Jobs : Consented(k)'
    BY <2>1 DEF ConsentInv, Consented, SameRequest, IdleTask
  <2>3. CommandEffect(agent[j].op, agent[j].srv) => OnlyLicensedServersRun'
    BY <1>1, <2>1
    DEF CommandEffect, OnlyLicensedServersRun, ConsentInv, Consented, TypeOK
  <2>4. UNCHANGED engine => OnlyLicensedServersRun'
    BY <2>1 DEF engine, OnlyLicensedServersRun, ConsentInv
  <2> QED BY <2>1, <2>2, <2>3, <2>4
<1>5. ASSUME NEW j \in Jobs, OwnerStep(j)
      PROVE  (\A k \in Jobs : Consented(k)') /\ OnlyLicensedServersRun'
  <2>1. PICK s \in Servers, o \in Operations, f \in Forms : Submit(j, s, o, f)
    BY <1>5 DEF OwnerStep
  <2>2. web'[j].op = o /\ web'[j].srv = s /\ web'[j].form = f /\ web'[j].chain = FALSE
          /\ agent[j] = IdleTask
    BY <1>1, <2>1 DEF Submit, TypeOK, IdleRequest
  <2>3. agent' = agent /\ container' = container /\ \A k \in Jobs \ {j} : web'[k] = web[k]
    BY <1>1, <2>1 DEF Submit, engine, TypeOK
  <2>4. consented \subseteq consented' /\ lossConfirmed \subseteq lossConfirmed'
    BY <2>1 DEF Submit
  <2>5. Consented(j)'
    BY <2>1, <2>2, <2>3 DEF Submit, Consented, IdleTask
  <2>6. \A k \in Jobs \ {j} : Consented(k)'
    BY <2>3, <2>4 DEF ConsentInv, Consented
  <2> QED BY <2>3, <2>4, <2>5, <2>6 DEF ConsentInv, OnlyLicensedServersRun
<1>6. ASSUME NEW s \in Servers, ForeignContainer(s)
      PROVE  (\A k \in Jobs : Consented(k)') /\ OnlyLicensedServersRun'
  BY <1>1, <1>6
  DEF ForeignContainer, history, ConsentInv, Consented, OnlyLicensedServersRun, TypeOK
<1>7. CASE UNCHANGED vars
  BY <1>7 DEF vars, ConsentInv, Consented, OnlyLicensedServersRun
<1> QED BY <1>3, <1>4, <1>5, <1>6, <1>7 DEF Next, Crash

\* No license, no running server: whatever the owner submits in whatever tabs,
\* and whatever is left over from requests that were given up, a managed
\* container runs only if the owner accepted the license for that server.
THEOREM LicenseSafety == Spec => []OnlyLicensedServersRun
<1>1. ConsentInv => OnlyLicensedServersRun
  BY DEF ConsentInv
<1> QED BY <1>1, ConsentInit, ConsentNext, PTL DEF Spec

\* A volume disappears only after the owner confirmed the data loss for that
\* server, and only while no managed container of it exists.
THEOREM DataLossSafety == Spec => DataLossIsConfirmed
<1> DEFINE Step == \A s \in Servers : (volume[s] # "none" /\ volume'[s] = "none")
                     => s \in lossConfirmed /\ ~ManagedContainer(s)
<1>1. ConsentInv /\ [Next]_vars => [Step]_vars
  <2> SUFFICES ASSUME ConsentInv, Next PROVE Step
    OBVIOUS
  <2>1. TypeInv /\ TypeOK
    BY DEF ConsentInv, TypeInv
  <2>2. ASSUME NEW j \in Jobs, AgentStep(j)
        PROVE  Step
    <3>1. CASE UNCHANGED engine
      BY <3>1 DEF engine
    <3>2. CASE CommandPossible(agent[j].op, agent[j].srv)
                 /\ CommandEffect(agent[j].op, agent[j].srv)
      <4>1. SUFFICES ASSUME NEW s \in Servers, volume[s] # "none", volume'[s] = "none"
                     PROVE  s \in lossConfirmed /\ ~ManagedContainer(s)
        OBVIOUS
      <4>2. agent[j].op = "removeVolume" /\ agent[j].srv = s
        BY <2>1, <3>2, <4>1 DEF CommandEffect, TypeOK
      <4> QED BY <3>2, <4>2 DEF CommandPossible, ConsentInv, Consented
    <3> QED BY <2>1, <2>2, <3>1, <3>2, AgentShape
  <2>3. ASSUME NEW j \in Jobs, OwnerStep(j) \/ WebStep(j) \/ Crash(j)
        PROVE  volume' = volume
    <3>1. CASE WebStep(j) \/ Timeout(j) \/ WebCrash(j)
      BY <2>1, <3>1, WebShape DEF engine
    <3>2. CASE AgentCrash(j) \/ OwnerStep(j)
      BY <3>2 DEF AgentCrash, OwnerStep, Submit, engine
    <3> QED BY <2>3, <3>1, <3>2 DEF Crash
  <2>4. ASSUME NEW s \in Servers, ForeignContainer(s)
        PROVE  volume' = volume
    BY <2>4 DEF ForeignContainer
  <2> QED BY <2>2, <2>3, <2>4 DEF Next
<1> QED BY <1>1, ConsentInit, ConsentNext, PTL DEF Spec, DataLossIsConfirmed

-----------------------------------------------------------------------------
(* Credentials.                                                            *)

\* The server has its credential, or an archive has deleted it on request.
Keyed(s) == rec[s].credential \/ rec[s].credentialsRemoved

\* A service about to write a status past the preparation, and a handler about
\* to make a container, work on a server with a credential.
WorksWithKey(j) ==
  /\ web[j].pc = "pending" => Keyed(web[j].srv)
  /\ web[j].pc = "wait" /\ web[j].op \in {"create", "start", "stop"} => Keyed(web[j].srv)
  /\ agent[j].op = "create" => Keyed(agent[j].srv)

CredentialInv == TypeInv /\ (\A j \in Jobs : WorksWithKey(j)) /\ CredentialComesFirst

\* What a step of the web side may do to a record: nothing takes the credential
\* away silently, and only two kinds of step raise the status.
LEMMA RecShape ==
  ASSUME TypeInv, NEW j \in Jobs, WebStep(j) \/ Timeout(j) \/ WebCrash(j), NEW s \in Servers
  PROVE  /\ Keyed(s) => Keyed(s)'
         /\ \/ rec'[s].provisioningStatus \in {rec[s].provisioningStatus, "RESOURCES_PREPARED"}
            \/ /\ s = web[j].srv
               /\ \/ web[j].pc = "pending"
                  \/ web[j].pc = "wait" /\ web[j].op \in {"create", "start", "stop"}
<1>1. TypeOK /\ Stages(j) /\ rec[s] \in ServerRecord
  BY DEF TypeInv, TypeOK
<1>2. CASE rec' = rec
  BY <1>2 DEF Keyed
<1>3. ASSUME NEW r, Write(j, r),
             s = web[j].srv =>
               /\ rec[s].credential \/ rec[s].credentialsRemoved =>
                    r.credential \/ r.credentialsRemoved
               /\ \/ r.provisioningStatus \in {rec[s].provisioningStatus, "RESOURCES_PREPARED"}
                  \/ web[j].pc = "pending"
                  \/ web[j].pc = "wait" /\ web[j].op \in {"create", "start", "stop"}
      PROVE  /\ Keyed(s) => Keyed(s)'
             /\ \/ rec'[s].provisioningStatus \in
                     {rec[s].provisioningStatus, "RESOURCES_PREPARED"}
                \/ /\ s = web[j].srv
                   /\ \/ web[j].pc = "pending"
                      \/ web[j].pc = "wait" /\ web[j].op \in {"create", "start", "stop"}
  <2>1. CASE s = web[j].srv
    BY <1>1, <1>3, <2>1 DEF Write, Keyed, TypeOK
  <2>2. CASE s # web[j].srv
    BY <1>1, <1>3, <2>2 DEF Write, Keyed, TypeOK
  <2> QED BY <2>1, <2>2
<1>4. CASE SaveReply(j)
  <2> DEFINE r == ReplyUpdate(web[j].op, web[j].reply, RecordOf(j))
  <2>1. Write(j, r) /\ web[j].op \in AgentOps
    BY <1>1, <1>4 DEF SaveReply, Stages, AgentOps
  <2>2. web[j].pc = "refused" => web[j].op = "remove" /\ web[j].reply = "stillRunning"
    BY <1>1 DEF Stages
  <2>3. ASSUME s = web[j].srv
        PROVE  /\ r.credential = rec[s].credential
               /\ r.credentialsRemoved = rec[s].credentialsRemoved
               /\ \/ r.provisioningStatus \in {rec[s].provisioningStatus, "RESOURCES_PREPARED"}
                  \/ web[j].pc = "wait" /\ web[j].op \in {"create", "start", "stop"}
    <3>1. web[j].pc \in {"wait", "refused"}
      BY <1>4 DEF SaveReply
    <3>2. CASE web[j].op \in {"create", "start", "stop"}
      BY <1>1, <2>1, <2>2, <2>3, <3>1, <3>2
      DEF ReplyUpdate, SuccessUpdate, createSuccess, startSuccess, stopSuccess, RecordOf,
          ServerRecord
    <3>3. CASE web[j].op \in {"remove", "removeVolume", "health"}
      BY <1>1, <2>1, <2>3, <3>3
      DEF ReplyUpdate, SuccessUpdate, removeSuccessUpdate, volumeRemoveSuccessUpdate, RecordOf,
          ServerRecord
    <3> QED BY <2>1, <3>2, <3>3 DEF AgentOps
  <2> HIDE DEF r
  <2> QED BY <1>3, <2>1, <2>3
<1>5. CASE Timeout(j) \/ ConnectionLost(j)
  <2> DEFINE r == NoReplyUpdate(web[j].op, RecordOf(j))
  <2>1. Write(j, r)
    BY <1>5 DEF Timeout, ConnectionLost, SaveNoReply
  <2>2. s = web[j].srv => /\ r.credential = rec[s].credential
                          /\ r.credentialsRemoved = rec[s].credentialsRemoved
                          /\ r.provisioningStatus = rec[s].provisioningStatus
    BY <1>1 DEF NoReplyUpdate, RecordOf, ServerRecord
  <2> HIDE DEF r
  <2> QED BY <1>3, <2>1, <2>2
<1>6. CASE StoreCredential(j) \/ MarkPending(j) \/ Archive(j) \/ FinishRestart(j)
  <2>1. \/ rec' = rec
        \/ Write(j, [RecordOf(j) EXCEPT !.credential = TRUE])
        \/ web[j].pc = "pending"
             /\ Write(j, [RecordOf(j) EXCEPT !.provisioningStatus = "CONTAINER_PENDING",
                                             !.errorKey = "none"])
        \/ Write(j, [RecordOf(j) EXCEPT !.archived = TRUE, !.credential = FALSE,
                                        !.credentialsRemoved = TRUE])
        \/ Write(j, [RecordOf(j) EXCEPT !.archived = TRUE])
        \/ \E e : Write(j, [RecordOf(j) EXCEPT !.errorKey = e])
    BY <1>6 DEF StoreCredential, MarkPending, Archive, FinishRestart
  <2>2. s = web[j].srv => RecordOf(j) \in ServerRecord /\ RecordOf(j) = rec[s]
    BY <1>1 DEF RecordOf
  <2> QED BY <1>2, <1>3, <2>1, <2>2 DEF ServerRecord
<1> QED
  BY <1>2, <1>4, <1>5, <1>6
  DEF WebStep, WebCrash, Refuse, RefuseRunning, CallAgent, ReadForPrepare, ReadForArchive,
      BeginRestart

LEMMA CredentialInit == Init => CredentialInv
<1> SUFFICES ASSUME Init PROVE CredentialInv
  OBVIOUS
<1>1. \A j \in Jobs : WorksWithKey(j)
  BY DEF Init, WorksWithKey, IdleRequest, IdleTask
<1>2. CredentialComesFirst
  BY DEF Init, CredentialComesFirst, ManagedContainer, PreparedRecord
<1> QED BY <1>1, <1>2, TypeInvInit DEF CredentialInv

\* How a job comes to wait, or to write the pending status.
LEMMA KeyedPhases ==
  ASSUME TypeInv, CredentialComesFirst, NEW j \in Jobs, WebStep(j) \/ Timeout(j) \/ WebCrash(j)
  PROVE  /\ web'[j].pc = "pending" => Keyed(web[j].srv)'
         /\ web'[j].pc = "wait" /\ web'[j].op \in {"create", "start", "stop"} =>
              Keyed(web[j].srv)'
<1>1. TypeOK /\ web \in [Jobs -> Request \cup {IdleRequest}]
  BY DEF TypeInv, TypeOK
<1>2. CASE CallAgent(j)
  <2>1. web'[j] = [web[j] EXCEPT !.pc = "wait"] /\ rec' = rec
    BY <1>1, <1>2 DEF CallAgent, WebGoto
  <2>2. web[j] \in Request
    BY <1>1, <1>2, BusyRequest DEF CallAgent
  <2>3. web'[j].pc = "wait" /\ web'[j].op = web[j].op /\ web'[j].srv = web[j].srv
          /\ web[j].srv \in Servers
    BY <2>1, <2>2 DEF Request
  <2>4. Admits(web[j].op, rec[web[j].srv], web[j].form)
    BY <1>2 DEF CallAgent, RecordOf
  <2>5. web[j].op \in {"create", "start", "stop"} => Keyed(web[j].srv)
    BY <2>3, <2>4
    DEF Admits, resolveContainerStart, resolveContainerStop, CredentialComesFirst, Keyed
  <2> QED BY <2>1, <2>3, <2>5 DEF Keyed
<1>3. CASE ReadForPrepare(j)
  <2>1. web[j] \in Request
    BY <1>1, <1>3, BusyRequest DEF ReadForPrepare
  <2>2. /\ web'[j].srv = web[j].srv /\ rec' = rec
        /\ web'[j].pc = IF rec[web[j].srv].credential THEN "pending" ELSE "credential"
    BY <1>1, <1>3, <2>1 DEF ReadForPrepare, WebGoto, RecordOf, Request
  <2> QED BY <2>2 DEF Keyed
<1>4. CASE StoreCredential(j)
  <2>1. web[j] \in Request /\ web[j].srv \in Servers /\ rec[web[j].srv] \in ServerRecord
    BY <1>1, <1>4, BusyRequest DEF StoreCredential, TypeOK, Request
  <2>2. CASE RecordOf(j).credential
    <3>1. web'[j] = AfterService(web[j])
      BY <1>1, <1>4, <2>2 DEF StoreCredential, Return
    <3> QED BY <2>1, <3>1, AfterServiceStages
  <2>3. CASE ~RecordOf(j).credential
    <3>1. web'[j] = [web[j] EXCEPT !.pc = "pending"]
      BY <1>1, <1>4, <2>3 DEF StoreCredential, WebGoto
    <3>2. rec'[web[j].srv] = [rec[web[j].srv] EXCEPT !.credential = TRUE]
      BY <1>1, <1>4, <2>1, <2>3 DEF StoreCredential, Write, RecordOf, TypeOK
    <3>3. web'[j].srv = web[j].srv /\ rec'[web[j].srv].credential /\ web'[j].pc = "pending"
      BY <2>1, <3>1, <3>2 DEF Request, ServerRecord
    <3> QED BY <3>3 DEF Keyed
  <2> QED BY <2>2, <2>3
<1>5. CASE Refuse(j) \/ SaveReply(j) \/ MarkPending(j) \/ Archive(j)
  <2>1. web'[j] = AfterService(web[j]) /\ web[j] \in Request
    BY <1>1, <1>5, BusyRequest DEF Refuse, SaveReply, MarkPending, Archive, Return
  <2> QED BY <2>1, AfterServiceStages
<1>6. CASE Timeout(j) \/ ConnectionLost(j)
  <2> DEFINE u == [web[j] EXCEPT !.reply = "none"]
  <2>1. web'[j] = AfterService(u) /\ u \in Request
    BY <1>1, <1>6, BusyRequest DEF Timeout, ConnectionLost, SaveNoReply, Request
  <2> HIDE DEF u
  <2> QED BY <2>1, AfterServiceStages
<1>7. CASE RefuseRunning(j) \/ ReadForArchive(j) \/ BeginRestart(j) \/ FinishRestart(j)
           \/ WebCrash(j)
  <2>1. web[j] \in Request \/ FinishRestart(j) \/ WebCrash(j)
    BY <1>1, <1>7, BusyRequest DEF RefuseRunning, ReadForArchive, BeginRestart
  <2>2. web'[j].pc \in {"idle", "read", "refused", "archive"}
    BY <1>1, <1>7, <2>1
    DEF RefuseRunning, ReadForArchive, BeginRestart, FinishRestart, WebCrash, Request, IdleRequest
  <2> QED BY <2>2
<1> QED BY <1>2, <1>3, <1>4, <1>5, <1>6, <1>7 DEF WebStep

LEMMA CredentialNext == CredentialInv /\ [Next]_vars => CredentialInv'
<1> SUFFICES ASSUME CredentialInv, [Next]_vars PROVE CredentialInv'
  OBVIOUS
<1>1. TypeInv /\ TypeOK /\ TypeInv' /\ CredentialComesFirst
  BY TypeInvNext DEF CredentialInv, TypeInv
<1>2. SUFFICES (\A j \in Jobs : WorksWithKey(j)') /\ CredentialComesFirst'
  BY <1>1 DEF CredentialInv
<1>3. ASSUME NEW k \in Jobs
      PROVE  /\ WorksWithKey(k)
             /\ web[k].pc # "idle" => web[k].srv \in Servers
             /\ agent[k].op = "create" => agent[k].srv \in Servers
  BY <1>1 DEF CredentialInv, TypeOK, Request, Task, IdleRequest, IdleTask
<1>4. ASSUME NEW j \in Jobs, WebStep(j) \/ Timeout(j) \/ WebCrash(j)
      PROVE  (\A k \in Jobs : WorksWithKey(k)') /\ CredentialComesFirst'
  <2>1. /\ \A k \in Jobs \ {j} : web'[k] = web[k] /\ agent'[k] = agent[k]
        /\ \/ agent'[j] \in {agent[j], IdleTask}
           \/ /\ Admits(web[j].op, rec[web[j].srv], web[j].form)
              /\ agent'[j].op = web[j].op /\ agent'[j].srv = web[j].srv
              /\ rec' = rec
        /\ container' = container
    BY <1>1, <1>4, WebShape DEF engine
  <2>2. \A s \in Servers : Keyed(s) => Keyed(s)'
    BY <1>1, <1>4, RecShape
  <2>3. \A k \in Jobs \ {j} : WorksWithKey(k)'
    BY <1>3, <2>1, <2>2 DEF WorksWithKey
  <2>4. /\ web'[j].pc = "pending" => Keyed(web[j].srv)'
        /\ web'[j].pc = "wait" /\ web'[j].op \in {"create", "start", "stop"} =>
             Keyed(web[j].srv)'
    BY <1>1, <1>4, KeyedPhases
  <2>5. agent'[j].op = "create" => Keyed(agent[j].srv)'
    <3>1. CASE agent'[j] \in {agent[j], IdleTask}
      BY <1>3, <2>2, <3>1 DEF WorksWithKey, IdleTask
    <3>2. CASE /\ Admits(web[j].op, rec[web[j].srv], web[j].form)
               /\ agent'[j].op = web[j].op /\ agent'[j].srv = web[j].srv /\ rec' = rec
      BY <3>2 DEF Admits, Keyed
    <3> QED BY <2>1, <3>1, <3>2
  <2>6. WorksWithKey(j)'
    BY <2>4, <2>5 DEF WorksWithKey, Keyed
  <2>7. ASSUME NEW s \in Servers,
               rec'[s].provisioningStatus # "RESOURCES_PREPARED" \/ ManagedContainer(s)'
        PROVE  Keyed(s)'
    <3>1. rec[s].provisioningStatus # "RESOURCES_PREPARED" \/ ManagedContainer(s) => Keyed(s)
      BY <1>1 DEF CredentialComesFirst, Keyed
    <3>2. Keyed(s)
      <4>1. ManagedContainer(s)' => ManagedContainer(s)
        BY <2>1 DEF ManagedContainer
      <4>2. \/ rec'[s].provisioningStatus \in {rec[s].provisioningStatus, "RESOURCES_PREPARED"}
            \/ /\ s = web[j].srv
               /\ \/ web[j].pc = "pending"
                  \/ web[j].pc = "wait" /\ web[j].op \in {"create", "start", "stop"}
        BY <1>1, <1>4, RecShape
      <4> QED BY <1>3, <2>7, <3>1, <4>1, <4>2 DEF WorksWithKey
    <3> QED BY <2>2, <3>2
  <2> QED BY <2>3, <2>6, <2>7 DEF CredentialComesFirst, Keyed
<1>5. ASSUME NEW j \in Jobs, AgentStep(j) \/ AgentCrash(j)
      PROVE  (\A k \in Jobs : WorksWithKey(k)') /\ CredentialComesFirst'
  <2>1. /\ \A k \in Jobs : SameRequest(web[k], web'[k]) /\ web'[k].op = web[k].op
                             /\ web'[k].pc = web[k].pc
        /\ \A k \in Jobs : agent'[k] = IdleTask
             \/ (agent'[k].op = agent[k].op /\ agent'[k].srv = agent[k].srv)
        /\ rec' = rec
        /\ \/ UNCHANGED engine
           \/ CommandEffect(agent[j].op, agent[j].srv)
    BY <1>1, <1>5, AgentShape
  <2>2. \A k \in Jobs : WorksWithKey(k)'
    BY <1>3, <2>1 DEF WorksWithKey, SameRequest, IdleTask, Keyed
  <2>3. ASSUME NEW s \in Servers, ManagedContainer(s)', ~ManagedContainer(s)
        PROVE  Keyed(s)
    <3>1. agent[j].op = "create" /\ agent[j].srv = s
      BY <1>1, <2>1, <2>3 DEF engine, CommandEffect, ManagedContainer, TypeOK
    <3> QED BY <1>3, <3>1 DEF WorksWithKey
  <2> QED BY <1>1, <2>1, <2>2, <2>3 DEF CredentialComesFirst, Keyed
<1>6. ASSUME NEW j \in Jobs, OwnerStep(j)
      PROVE  (\A k \in Jobs : WorksWithKey(k)') /\ CredentialComesFirst'
  <2>1. PICK s \in Servers, o \in Operations, f \in Forms : Submit(j, s, o, f)
    BY <1>6 DEF OwnerStep
  <2>2. web'[j].pc = "read" /\ \A k \in Jobs \ {j} : web'[k] = web[k]
    BY <1>1, <2>1 DEF Submit, TypeOK, IdleRequest
  <2>3. agent' = agent /\ rec' = rec /\ container' = container
    BY <2>1 DEF Submit, engine
  <2> QED BY <1>1, <1>3, <2>2, <2>3
          DEF WorksWithKey, Keyed, CredentialComesFirst, ManagedContainer
<1>7. ASSUME NEW s \in Servers, ForeignContainer(s)
      PROVE  (\A k \in Jobs : WorksWithKey(k)') /\ CredentialComesFirst'
  <2>1. \A u \in Servers : ManagedContainer(u)' => ManagedContainer(u)
    BY <1>1, <1>7 DEF ForeignContainer, ManagedContainer, TypeOK
  <2> QED BY <1>1, <1>3, <1>7, <2>1
          DEF ForeignContainer, WorksWithKey, Keyed, CredentialComesFirst
<1>8. CASE UNCHANGED vars
  BY <1>1, <1>3, <1>8 DEF vars, WorksWithKey, Keyed, CredentialComesFirst, ManagedContainer
<1> QED BY <1>4, <1>5, <1>6, <1>7, <1>8 DEF Next, Crash

\* No status past the preparation and no managed container without the
\* credential it was given, in every interleaving and after every crash, except
\* where an archive has deleted the credential on request.
THEOREM CredentialSafety == Spec => []CredentialComesFirst
<1>1. CredentialInv => CredentialComesFirst
  BY DEF CredentialInv
<1> QED BY <1>1, CredentialInit, CredentialNext, PTL DEF Spec

-----------------------------------------------------------------------------
(* Replies.                                                                *)

NoOutsiders == \A s \in Servers : container[s] # "foreign"

ReplyInv == TypeInv /\ ("foreign" \notin Faults => NoOutsiders)

LEMMA ReplyInvInit == Init => ReplyInv
BY TypeInvInit DEF ReplyInv, Init, NoOutsiders

LEMMA ReplyInvNext == ReplyInv /\ [Next]_vars => ReplyInv'
<1> SUFFICES ASSUME ReplyInv, [Next]_vars, "foreign" \notin Faults PROVE NoOutsiders'
  BY TypeInvNext DEF ReplyInv
<1>1. TypeInv /\ TypeOK /\ NoOutsiders
  BY DEF ReplyInv, TypeInv
<1>2. ASSUME NEW j \in Jobs, WebStep(j) \/ Timeout(j) \/ WebCrash(j)
      PROVE  NoOutsiders'
  BY <1>1, <1>2, WebShape DEF engine, NoOutsiders
<1>3. ASSUME NEW j \in Jobs, AgentStep(j) \/ AgentCrash(j)
      PROVE  NoOutsiders'
  <2>1. UNCHANGED engine \/ CommandEffect(agent[j].op, agent[j].srv)
    BY <1>1, <1>3, AgentShape
  <2> QED BY <1>1, <2>1 DEF engine, CommandEffect, NoOutsiders, TypeOK
<1>4. ASSUME NEW j \in Jobs, OwnerStep(j)
      PROVE  NoOutsiders'
  BY <1>1, <1>4 DEF OwnerStep, Submit, engine, NoOutsiders
<1>5. ASSUME NEW s \in Servers, ForeignContainer(s)
      PROVE  FALSE
  BY <1>5 DEF ForeignContainer, Inject
<1>6. CASE UNCHANGED vars
  BY <1>1, <1>6 DEF vars, NoOutsiders
<1> QED BY <1>2, <1>3, <1>4, <1>5, <1>6 DEF Next, Crash

\* When no listing fails and nobody else uses the names (of containers), a handler
\* that reports success has docker in the state it reports at that very step,
\* although other handlers change docker between its listings and its command.
LEMMA TruthfulReply ==
  ASSUME ReplyInv, "list" \notin Faults, NEW j \in Jobs, AgentStep(j),
         "foreign" \notin Faults \/ web[j].op = "removeVolume",
         web[j].pc = "wait", web[j].reply = "none", web'[j].reply \in SuccessReplies
  PROVE  Goal(web[j].op, web[j].srv)'
<1> DEFINE o == agent[j].op
           s == agent[j].srv
<1>1. TypeInv /\ TypeOK /\ Stages(j) /\ (NoOutsiders \/ web[j].op = "removeVolume")
  BY DEF ReplyInv, TypeInv
<1>2. agent[j].pc # "idle" /\ agent[j] \in Task /\ o \in AgentOps /\ s \in Servers
  <2>1. agent[j].pc # "idle"
    BY DEF AgentStep, AgentProbe, AgentFindContainer, AgentFindManaged, AgentFindForeign,
           AgentFindRunning, AgentAct
  <2> QED BY <1>1, <2>1, BusyTask DEF Task
<1>3. web'[j].op = o /\ web'[j].srv = s /\ web[j].op = o
  <2>1. web[j].op = o /\ web[j].srv = s
    BY <1>1, <1>2 DEF Stages, IdleTask
  <2> QED BY <1>1, <2>1, AgentShape DEF SameRequest
<1>4. "none" \notin SuccessReplies
  BY DEF SuccessReplies
<1>5. ASSUME NEW p PROVE ~AgentGoto(j, p)
  BY <1>4 DEF AgentGoto
<1>6. ASSUME NEW a, Reply(j, a) PROVE a \in SuccessReplies
  <2>1. web[j] \in Request
    BY <1>1, BusyRequest
  <2> QED BY <1>1, <1>6, <2>1 DEF Reply, TypeOK, Request
<1>7. ASSUME NEW truth, NEW seen \in BOOLEAN, Lists(truth, seen)
      PROVE  (seen => truth) /\ (~seen => ~truth)
  BY <1>7 DEF Lists, Inject
<1>8. SuccessReplies \cap (ErrorReplies \cup RuntimeReplies) = {}
        /\ {"unavailable", "containerStillExists", "conflict", "notFound", "stillRunning", "error"}
             \subseteq ErrorReplies
  BY DEF SuccessReplies, ErrorReplies, RuntimeReplies
<1>9. SUFFICES /\ o = "create" => container'[s] \in {"stopped", "running"}
               /\ o = "start" => container'[s] = "running"
               /\ o = "stop" => container'[s] # "running"
               /\ o = "remove" => container'[s] \notin {"stopped", "running"}
               /\ o = "removeVolume" => volume'[s] = "none"
  BY <1>2, <1>3 DEF Goal, ManagedContainer, AgentOps
<1> HIDE DEF o, s
<1>10. ASSUME NEW next \in (AgentPcs \ {"idle", "probe"}) \cup Replies \cup {"inspect"},
              Proceed(j, next)
       PROVE  next \in SuccessReplies
  BY <1>5, <1>6, <1>8, <1>10, ProceedSplit
<1>11. /\ SuccessReplies \subseteq Replies /\ ErrorReplies \subseteq Replies
       /\ {"containers", "managed", "running", "act", "inspect"} \cap SuccessReplies = {}
       /\ {"exists", "alreadyRunning", "alreadyStopped", "alreadyRemoved"} \subseteq SuccessReplies
       /\ {"containers", "managed", "running", "act"} \subseteq AgentPcs \ {"idle", "probe"}
  BY DEF Replies, SuccessReplies, AgentPcs
<1>12. ~AgentProbe(j)
  <2>1. agent[j].pc = "probe" => o # "health"
    BY <1>1 DEF Stages, o
  <2>2. o # "health" => ~Proceed(j, Handler(o).probed)
    BY <1>2, <1>10, <1>11, HandlerTables
  <2> QED BY <1>6, <1>8, <2>1, <2>2 DEF AgentProbe, o
<1>13. ~AgentFindContainer(j)
  BY <1>5, <1>6, <1>8 DEF AgentFindContainer
<1>14. CASE AgentFindManaged(j)
  <2>1. PICK seen \in BOOLEAN :
          Lists(ManagedTarget(o, s), seen) /\ seen /\ Proceed(j, Handler(o).managed)
    BY <1>5, <1>6, <1>8, <1>14 DEF AgentFindManaged, o, s
  <2>2. o = "create"
    <3>1. Handler(o).managed \in SuccessReplies
      BY <1>2, <1>8, <1>10, <1>11, <2>1, HandlerTables
    <3> QED BY <1>2, <1>11, <3>1
            DEF AgentOps, Handler, startTs3Container, stopTs3Container, removeTs3Container,
                removeTs3Volume, getManagedContainerStatus
  <2>3. ManagedTarget(o, s)
    BY <1>7, <2>1
  <2>4. ManagedContainer(s)
    BY <2>2, <2>3 DEF ManagedTarget
  <2> QED BY <1>14, <2>2, <2>4 DEF AgentFindManaged, ManagedContainer, engine
<1>15. CASE AgentFindForeign(j)
  <2>1. PICK seen \in BOOLEAN :
          /\ Lists(AnyTarget(o, s), seen)
          /\ Proceed(j, IF seen THEN "conflict" ELSE Handler(o).free)
    BY <1>15 DEF AgentFindForeign, o, s
  <2>2. ~seen
    BY <1>8, <1>10, <1>11, <2>1
  <2>3. o \in {"remove", "removeVolume"}
    <3>1. Handler(o).free \in SuccessReplies
      BY <1>2, <1>8, <1>10, <1>11, <2>1, <2>2, HandlerTables
    <3> QED BY <1>2, <1>8, <1>11, <3>1
            DEF AgentOps, Handler, createTs3Container, startTs3Container, stopTs3Container,
                getManagedContainerStatus
  <2>4. ~AnyTarget(o, s)
    BY <1>7, <2>1, <2>2
  <2> QED BY <1>15, <2>3, <2>4 DEF AgentFindForeign, AnyTarget, engine
<1>16. CASE AgentFindRunning(j)
  <2>1. PICK seen \in BOOLEAN :
          /\ Lists(container[s] = "running", seen)
          /\ Proceed(j, IF seen THEN Handler(o).up ELSE Handler(o).down)
    BY <1>16 DEF AgentFindRunning, o, s
  <2>2. (o = "start" /\ seen) \/ (o = "stop" /\ ~seen)
    <3>1. o \in {"start", "stop", "remove"}
      BY <1>1, <1>16 DEF AgentFindRunning, Stages, o
    <3>2. CASE seen
      <4>1. Handler(o).up \in SuccessReplies
        BY <1>2, <1>8, <1>10, <1>11, <2>1, <3>1, <3>2, HandlerTables
      <4> QED BY <1>8, <1>11, <3>1, <3>2, <4>1
              DEF Handler, stopTs3Container, removeTs3Container
    <3>3. CASE ~seen
      <4>1. Handler(o).down \in SuccessReplies
        BY <1>2, <1>8, <1>10, <1>11, <2>1, <3>1, <3>3, HandlerTables
      <4> QED BY <1>11, <3>1, <3>3, <4>1
              DEF Handler, startTs3Container, removeTs3Container
    <3> QED BY <3>2, <3>3
  <2>3. (seen => container[s] = "running") /\ (~seen => container[s] # "running")
    BY <1>7, <2>1
  <2> QED BY <1>16, <2>2, <2>3 DEF AgentFindRunning, engine
<1>17. CASE AgentAct(j)
  <2>1. CommandPossible(o, s) /\ CommandEffect(o, s)
    BY <1>6, <1>8, <1>17 DEF AgentAct, o, s
  <2>2. container[s] \in ContainerStates /\ (container[s] # "foreign" \/ o = "removeVolume")
    BY <1>1, <1>2, <1>3 DEF TypeOK, NoOutsiders, s
  <2>3. o = "start" => container[s] # "none"
    BY <2>1 DEF CommandPossible
  <2>4. s \in Servers /\ container \in [Servers -> ContainerStates]
          /\ volume \in [Servers -> VolumeStates]
    BY <1>1, <1>2 DEF TypeOK, s
  <2> QED BY <2>1, <2>2, <2>3, <2>4 DEF CommandEffect, ContainerStates
<1> QED
  BY <1>12, <1>13, <1>14, <1>15, <1>16, <1>17 DEF AgentStep

\* Success replies are true, however many handlers interleave, if no listing
\* fails and nobody else uses the names.  (The first assumption is needed: a
\* listing that fails reads as an empty one.)
THEOREM ReplySafety ==
  ASSUME "list" \notin Faults, "foreign" \notin Faults
  PROVE  Spec => SuccessRepliesAreTrue
<1> DEFINE Step == \A j \in Jobs :
       (web[j].pc = "wait" /\ web[j].reply = "none" /\ web'[j].reply \in SuccessReplies)
         => Goal(web[j].op, web[j].srv)'
<1>1. ReplyInv /\ [Next]_vars => [Step]_vars
  <2> SUFFICES ASSUME ReplyInv, Next, NEW j \in Jobs,
                      web[j].pc = "wait", web[j].reply = "none",
                      web'[j].reply \in SuccessReplies
               PROVE  Goal(web[j].op, web[j].srv)'
    OBVIOUS
  <2>1. TypeInv /\ TypeOK
    BY DEF ReplyInv, TypeInv
  <2>2. CASE AgentStep(j)
    BY <2>2, TruthfulReply
  <2>3. ASSUME NEW k \in Jobs, k # j, OwnerStep(k) \/ WebStep(k) \/ AgentStep(k) \/ Crash(k)
        PROVE  web'[j] = web[j]
    <3>1. CASE WebStep(k) \/ Timeout(k) \/ WebCrash(k)
      BY <2>1, <2>3, <3>1, WebShape
    <3>2. CASE AgentStep(k) \/ AgentCrash(k)
      BY <2>1, <2>3, <3>2, AgentShape
    <3>3. CASE OwnerStep(k)
      BY <2>1, <2>3, <3>3 DEF OwnerStep, Submit, TypeOK
    <3> QED BY <2>3, <3>1, <3>2, <3>3 DEF Crash
  <2>4. "none" \notin SuccessReplies
    BY DEF SuccessReplies
  <2>5. CASE WebStep(j) \/ Timeout(j) \/ WebCrash(j)
    <3>1. CASE ConnectionLost(j) \/ Timeout(j)
      <4> DEFINE u == [web[j] EXCEPT !.reply = "none"]
      <4>1. web'[j] = AfterService(u) /\ u \in Request /\ u.reply = "none"
        BY <2>1, <3>1, BusyRequest DEF Timeout, ConnectionLost, SaveNoReply, Request, TypeOK
      <4>2. AfterService(u).reply = "none"
        <5> HIDE DEF u
        <5> QED BY <2>4, <4>1 DEF AfterService, IdleRequest, Request
      <4> QED BY <2>4, <4>1, <4>2
    <3>2. CASE WebCrash(j)
      BY <2>1, <2>4, <3>2 DEF WebCrash, TypeOK, IdleRequest
    <3> QED
      BY <2>5, <3>1, <3>2
      DEF WebStep, Refuse, RefuseRunning, CallAgent, SaveReply, ReadForPrepare, StoreCredential,
          MarkPending, ReadForArchive, Archive, BeginRestart, FinishRestart
  <2>6. CASE OwnerStep(j)
    BY <2>6 DEF OwnerStep, Submit, IdleRequest
  <2>7. CASE AgentCrash(j)
    BY <2>4, <2>7 DEF AgentCrash
  <2>8. ASSUME NEW s \in Servers, ForeignContainer(s)
        PROVE  FALSE
    BY <2>4, <2>8 DEF ForeignContainer
  <2> QED BY <2>2, <2>3, <2>4, <2>5, <2>6, <2>7, <2>8 DEF Next, Crash
<1> QED BY <1>1, ReplyInvInit, ReplyInvNext, PTL DEF Spec, SuccessRepliesAreTrue

\* What a removal of a volume has answered stays true until it is written, and
\* then for ever: no step makes a volume of ours again.
RemovedInv ==
  /\ ReplyInv /\ RemovedDataIsGone
  /\ \A j \in Jobs :
       (web[j].pc = "wait" /\ web[j].op = "removeVolume" /\ web[j].reply \in SuccessReplies)
         => volume[web[j].srv] # "managed"

LEMMA RemovedInit == Init => RemovedInv
BY ReplyInvInit DEF Init, RemovedInv, RemovedDataIsGone, PreparedRecord, IdleRequest

\* No step makes a volume of ours.
LEMMA VolumesFade ==
  ASSUME TypeInv, [Next]_vars, NEW s \in Servers, volume[s] # "managed"
  PROVE  volume'[s] # "managed"
<1>1. TypeOK
  BY DEF TypeInv
<1>2. ASSUME NEW j \in Jobs, WebStep(j) \/ Timeout(j) \/ WebCrash(j) PROVE volume' = volume
  BY <1>2, WebShape DEF engine
<1>3. ASSUME NEW j \in Jobs, AgentStep(j) \/ AgentCrash(j) PROVE volume'[s] # "managed"
  <2>1. UNCHANGED engine \/ CommandEffect(agent[j].op, agent[j].srv)
    BY <1>3, AgentShape
  <2> QED BY <1>1, <2>1 DEF engine, CommandEffect, TypeOK
<1> QED BY <1>2, <1>3 DEF Next, Crash, OwnerStep, Submit, ForeignContainer, engine, vars

\* Only the write of a removal that has answered marks the record.
LEMMA MarksRemoved ==
  ASSUME TypeInv, NEW j \in Jobs, WebStep(j) \/ Timeout(j) \/ WebCrash(j), NEW s \in Servers,
         rec'[s].managedVolumeState = "removed"
  PROVE  \/ rec[s].managedVolumeState = "removed"
         \/ /\ s = web[j].srv /\ web[j].pc = "wait" /\ web[j].op = "removeVolume"
            /\ web[j].reply \in SuccessReplies
<1>1. TypeOK /\ Stages(j) /\ rec[s] \in ServerRecord
  BY DEF TypeInv, TypeOK
<1>2. ASSUME NEW r, Write(j, r) PROVE rec'[s] = IF s = web[j].srv THEN r ELSE rec[s]
  BY <1>1, <1>2 DEF Write, TypeOK
<1>3. CASE SaveReply(j)
  <2> DEFINE r == ReplyUpdate(web[j].op, web[j].reply, RecordOf(j))
  <2>1. Write(j, r) /\ web[j].op \in AgentOps /\ web[j].pc \in {"wait", "refused"}
    BY <1>1, <1>3 DEF SaveReply, Stages, AgentOps
  <2>2. SUFFICES ASSUME s = web[j].srv, rec[s].managedVolumeState # "removed",
                        r.managedVolumeState = "removed"
                 PROVE  /\ web[j].pc = "wait" /\ web[j].op = "removeVolume"
                        /\ web[j].reply \in SuccessReplies
    <3> HIDE DEF r
    <3> QED BY <1>2, <2>1
  <2>3. RecordOf(j) = rec[s]
    BY <2>2 DEF RecordOf
  <2>4. web[j].op # "health" /\ web[j].reply \in SuccessReplies
    BY <1>1, <2>2, <2>3 DEF ReplyUpdate, ServerRecord
  <2>5. r = SuccessUpdate(web[j].op, rec[s])
    BY <2>3, <2>4 DEF ReplyUpdate
  <2>6. web[j].op = "removeVolume"
    BY <1>1, <2>1, <2>2, <2>4, <2>5
    DEF SuccessUpdate, createSuccess, startSuccess, stopSuccess, removeSuccessUpdate, ServerRecord,
        AgentOps
  <2>7. web[j].pc # "refused"
    BY <1>1, <2>6 DEF Stages
  <2> QED BY <2>1, <2>4, <2>6, <2>7
<1>4. ASSUME NEW r, Write(j, r),
             s = web[j].srv => r.managedVolumeState = rec[s].managedVolumeState
      PROVE  rec[s].managedVolumeState = "removed"
  BY <1>2, <1>4
<1>5. CASE Timeout(j) \/ ConnectionLost(j)
  <2>1. Write(j, NoReplyUpdate(web[j].op, RecordOf(j)))
    BY <1>5 DEF Timeout, ConnectionLost, SaveNoReply
  <2>2. s = web[j].srv => NoReplyUpdate(web[j].op, RecordOf(j)).managedVolumeState
                            = rec[s].managedVolumeState
    BY <1>1 DEF NoReplyUpdate, RecordOf, ServerRecord
  <2> QED BY <1>4, <2>1, <2>2
<1>6. CASE StoreCredential(j) \/ MarkPending(j) \/ Archive(j) \/ FinishRestart(j)
  <2>1. \/ rec' = rec
        \/ Write(j, [RecordOf(j) EXCEPT !.credential = TRUE])
        \/ Write(j, [RecordOf(j) EXCEPT !.provisioningStatus = "CONTAINER_PENDING",
                                        !.errorKey = "none"])
        \/ Write(j, [RecordOf(j) EXCEPT !.archived = TRUE, !.credential = FALSE,
                                        !.credentialsRemoved = TRUE])
        \/ Write(j, [RecordOf(j) EXCEPT !.archived = TRUE])
        \/ \E e : Write(j, [RecordOf(j) EXCEPT !.errorKey = e])
    BY <1>6 DEF StoreCredential, MarkPending, Archive, FinishRestart
  <2>2. s = web[j].srv => RecordOf(j) \in ServerRecord /\ RecordOf(j) = rec[s]
    BY <1>1 DEF RecordOf
  <2> QED BY <1>4, <2>1, <2>2 DEF ServerRecord
<1> QED
  BY <1>3, <1>5, <1>6
  DEF WebStep, WebCrash, Refuse, RefuseRunning, CallAgent, ReadForPrepare, ReadForArchive,
      BeginRestart

\* Who waits after a step of its own has just called, and has no answer yet.
LEMMA CallsWithoutAnswer ==
  ASSUME TypeInv, NEW j \in Jobs, WebStep(j) \/ Timeout(j) \/ WebCrash(j), web'[j].pc = "wait"
  PROVE  web'[j].reply = "none"
<1>1. TypeOK /\ Stages(j)
  BY DEF TypeInv
<1>2. CASE CallAgent(j)
  <2>1. web[j] \in Request /\ web[j].reply = "none"
    BY <1>1, <1>2, BusyRequest DEF CallAgent, Stages
  <2> QED BY <1>1, <1>2, <2>1 DEF CallAgent, WebGoto, TypeOK, Request
<1>3. CASE Refuse(j) \/ SaveReply(j) \/ MarkPending(j) \/ Archive(j)
           \/ (StoreCredential(j) /\ Return(j))
  <2>1. web'[j] = AfterService(web[j]) /\ web[j] \in Request
    BY <1>1, <1>3, BusyRequest DEF Refuse, SaveReply, MarkPending, Archive, StoreCredential, Return, TypeOK
  <2> QED BY <2>1, AfterServiceStages
<1>4. CASE Timeout(j) \/ ConnectionLost(j)
  <2> DEFINE u == [web[j] EXCEPT !.reply = "none"]
  <2>1. web'[j] = AfterService(u) /\ u \in Request
    BY <1>1, <1>4, BusyRequest DEF Timeout, ConnectionLost, SaveNoReply, Request, TypeOK
  <2> HIDE DEF u
  <2> QED BY <2>1, AfterServiceStages
<1>5. CASE RefuseRunning(j) \/ ReadForPrepare(j) \/ ReadForArchive(j) \/ BeginRestart(j)
           \/ FinishRestart(j) \/ WebCrash(j) \/ (StoreCredential(j) /\ WebGoto(j, "pending"))
  <2>1. web[j] \in Request \/ FinishRestart(j) \/ WebCrash(j)
    BY <1>1, <1>5, BusyRequest
    DEF RefuseRunning, ReadForPrepare, ReadForArchive, BeginRestart, StoreCredential
  <2>2. web'[j].pc \in {"idle", "read", "refused", "archive", "pending", "credential"}
    BY <1>1, <1>5, <2>1
    DEF RefuseRunning, ReadForPrepare, ReadForArchive, BeginRestart, FinishRestart, WebCrash,
        StoreCredential, WebGoto, Request, IdleRequest, TypeOK
  <2> QED BY <2>2
<1> QED BY <1>2, <1>3, <1>4, <1>5 DEF WebStep, StoreCredential

LEMMA RemovedNext ==
  ASSUME "list" \notin Faults
  PROVE  RemovedInv /\ [Next]_vars => RemovedInv'
<1> SUFFICES ASSUME RemovedInv, [Next]_vars PROVE RemovedInv'
  OBVIOUS
<1> DEFINE Answered(j) == web[j].pc = "wait" /\ web[j].op = "removeVolume"
                            /\ web[j].reply \in SuccessReplies
<1>1. ReplyInv /\ ReplyInv' /\ TypeInv /\ TypeOK
  BY ReplyInvNext DEF RemovedInv, ReplyInv, TypeInv
<1>2. \A s \in Servers : volume[s] # "managed" => volume'[s] # "managed"
  BY <1>1, VolumesFade
<1>3. \A j \in Jobs : Answered(j) => web[j].srv \in Servers /\ volume[web[j].srv] # "managed"
  BY <1>1, BusyRequest DEF RemovedInv, Request
<1>4. ASSUME NEW j \in Jobs, web'[j] = web[j], Answered(j)'
      PROVE  volume'[web'[j].srv] # "managed"
  BY <1>2, <1>3, <1>4
<1>5. "none" \notin SuccessReplies
  BY DEF SuccessReplies
<1>6. ASSUME NEW s \in Servers, rec'[s].managedVolumeState = "removed"
      PROVE  volume'[s] # "managed"
  <2>1. CASE rec[s].managedVolumeState = "removed"
    BY <1>2, <2>1 DEF RemovedInv, RemovedDataIsGone
  <2>2. CASE rec[s].managedVolumeState # "removed"
    <3>1. PICK j \in Jobs : WebStep(j) \/ Timeout(j) \/ WebCrash(j)
      <4>1. rec' # rec
        BY <1>6, <2>2
      <4>2. ASSUME NEW j \in Jobs, AgentStep(j) \/ AgentCrash(j) PROVE FALSE
        BY <1>1, <4>1, <4>2, AgentShape
      <4> QED BY <4>1, <4>2 DEF Next, Crash, OwnerStep, Submit, ForeignContainer, vars
    <3>2. Answered(j) /\ s = web[j].srv
      BY <1>1, <1>6, <2>2, <3>1, MarksRemoved
    <3> QED BY <1>2, <1>3, <3>2
  <2> QED BY <2>1, <2>2
<1>7. ASSUME NEW j \in Jobs, Answered(j)' PROVE volume'[web'[j].srv] # "managed"
  <2>1. CASE web'[j] = web[j]
    BY <1>4, <1>7, <2>1
  <2>2. ASSUME NEW k \in Jobs, k # j, OwnerStep(k) \/ WebStep(k) \/ AgentStep(k) \/ Crash(k)
        PROVE  web'[j] = web[j]
    <3>1. CASE WebStep(k) \/ Timeout(k) \/ WebCrash(k)
      BY <1>1, <2>2, <3>1, WebShape
    <3>2. CASE AgentStep(k) \/ AgentCrash(k)
      BY <1>1, <2>2, <3>2, AgentShape
    <3>3. CASE OwnerStep(k)
      BY <1>1, <2>2, <3>3 DEF OwnerStep, Submit, TypeOK
    <3> QED BY <2>2, <3>1, <3>2, <3>3 DEF Crash
  <2>3. ASSUME WebStep(j) \/ Timeout(j) \/ WebCrash(j) PROVE FALSE
    BY <1>1, <1>5, <1>7, <2>3, CallsWithoutAnswer
  <2>4. ASSUME OwnerStep(j) PROVE FALSE
    BY <1>1, <1>7, <2>4 DEF OwnerStep, Submit, IdleRequest, TypeOK
  <2>5. ASSUME AgentCrash(j) PROVE web'[j] = web[j]
    BY <2>5 DEF AgentCrash
  <2>6. CASE AgentStep(j) /\ web'[j] # web[j]
    <3>1. /\ web'[j].op = web[j].op /\ web'[j].pc = web[j].pc /\ web'[j].srv = web[j].srv
      BY <1>1, <2>6, AgentShape DEF SameRequest
    <3>2. web[j].pc = "wait" /\ web[j].op = "removeVolume"
      BY <1>7, <3>1
    <3>3. web[j].reply = "none"
      <4>1. agent[j] # IdleTask
        BY <1>1, <2>6, GoesOrReplies DEF IdleTask
      <4> QED BY <1>1, <3>2, <4>1 DEF TypeInv, Stages
    <3>4. Goal(web[j].op, web[j].srv)'
      BY <1>1, <1>7, <2>6, <3>2, <3>3, TruthfulReply
    <3> QED BY <3>1, <3>2, <3>4 DEF Goal
  <2> QED BY <2>1, <2>2, <2>3, <2>4, <2>5, <2>6 DEF Next, Crash, ForeignContainer, vars
<1> QED BY <1>1, <1>6, <1>7 DEF RemovedInv, RemovedDataIsGone

\* However requests and handlers overlap, time out or crash: a record never says
\* removed while the data is there, so no backup of existing data is refused as
\* one of removed data (volume-remove-helpers.ts:72, volume-backup.ts:38).  A
\* listing that fails reads as an empty one, hence the assumption.
THEOREM RemovedDataSafety ==
  ASSUME "list" \notin Faults
  PROVE  Spec => []RemovedDataIsGone
<1>1. RemovedInv => RemovedDataIsGone
  BY DEF RemovedInv
<1> QED BY <1>1, RemovedInit, RemovedNext, PTL DEF Spec

-----------------------------------------------------------------------------
(* One request at a time: the owner waits until service and handler are at *)
(* rest.  First: what a handler has seen still holds when it acts.         *)

OneAtATime == \A j, k \in Jobs : j = k

Target(j) ==
  /\ agent[j].pc = "running" => ManagedContainer(agent[j].srv)
  /\ agent[j].pc = "act" =>
       /\ agent[j].op \in {"start", "stop", "remove"} => ManagedContainer(agent[j].srv)
       /\ agent[j].op = "removeVolume" => volume[agent[j].srv] = "managed"

TargetInv == TypeInv /\ \A j \in Jobs : Target(j)

LEMMA ProceedPc ==
  ASSUME TypeInv, NEW j \in Jobs, agent[j].pc # "idle",
         NEW next \in (AgentPcs \ {"idle", "probe"}) \cup Replies \cup {"inspect"},
         Proceed(j, next)
  PROVE  agent'[j].pc \in {"idle", next}
<1>1. TypeOK /\ agent[j] \in Task
  BY BusyTask DEF TypeInv
<1>2. CASE AgentGoto(j, next)
  BY <1>1, <1>2 DEF AgentGoto, TypeOK, Task
<1>3. CASE \E a : Reply(j, a)
  BY <1>1, <1>3 DEF Reply, TypeOK, IdleTask
<1> QED BY <1>2, <1>3, ProceedSplit

\* What a handler has just seen when it is about to look for a running
\* container, or to act.
LEMMA NextLook ==
  ASSUME TypeInv, NEW j \in Jobs, AgentStep(j)
  PROVE  /\ agent'[j].pc = "running" =>
              UNCHANGED engine /\ ManagedContainer(agent[j].srv)
         /\ agent'[j].pc = "act" =>
              /\ UNCHANGED engine
              /\ agent[j].op \in {"start", "stop", "remove"} =>
                   /\ agent[j].pc = "running"
                   /\ "list" \notin Faults =>
                        (container[agent[j].srv] = "running" <=> agent[j].op = "stop")
              /\ agent[j].op = "removeVolume" => volume[agent[j].srv] = "managed"
<1> DEFINE o == agent[j].op
           s == agent[j].srv
<1>1. TypeOK /\ Stages(j)
  BY DEF TypeInv
<1>2. agent[j].pc # "idle" /\ agent[j] \in Task /\ o \in AgentOps /\ s \in Servers
  <2>1. agent[j].pc # "idle"
    BY DEF AgentStep, AgentProbe, AgentFindContainer, AgentFindManaged, AgentFindForeign,
           AgentFindRunning, AgentAct
  <2> QED BY <1>1, <2>1, BusyTask DEF Task
<1>3. ASSUME NEW a, Reply(j, a) PROVE agent'[j].pc = "idle"
  BY <1>1, <1>3 DEF Reply, TypeOK, IdleTask
<1>4. /\ SuccessReplies \subseteq Replies /\ ErrorReplies \subseteq Replies
      /\ {"containers", "managed", "foreign", "running", "act"} \subseteq AgentPcs \ {"idle", "probe"}
      /\ {"running", "act"} \cap Replies = {}
      /\ {"exists", "alreadyRunning", "alreadyStopped", "alreadyRemoved", "conflict",
           "notFound", "stillRunning"} \subseteq Replies
  BY DEF Replies, SuccessReplies, ErrorReplies, RuntimeReplies, AgentPcs
<1>5. ASSUME NEW truth, NEW seen \in BOOLEAN, Lists(truth, seen)
      PROVE  (seen => truth) /\ ("list" \notin Faults => (~seen => ~truth))
  BY <1>5 DEF Lists, Inject
<1>6. CASE AgentProbe(j)
  <2>1. o # "health"
    BY <1>1, <1>6 DEF AgentProbe, Stages
  <2>2. Handler(o).probed \in {"managed", "containers"}
    BY <1>2, <2>1, HandlerTables
  <2> QED BY <1>2, <1>3, <1>4, <1>6, <2>2, ProceedPc DEF AgentProbe
<1>7. CASE AgentFindContainer(j)
  BY <1>1, <1>2, <1>3, <1>7 DEF AgentFindContainer, AgentGoto, TypeOK, Task
<1>8. CASE AgentFindManaged(j)
  <2>1. CASE AgentGoto(j, "foreign") \/ \E a : Reply(j, a)
    BY <1>1, <1>2, <1>3, <2>1 DEF AgentGoto, TypeOK, Task
  <2>2. CASE \E seen \in BOOLEAN :
               Lists(ManagedTarget(o, s), seen) /\ seen /\ Proceed(j, Handler(o).managed)
    <3>1. ManagedTarget(o, s) /\ Proceed(j, Handler(o).managed)
      BY <1>5, <2>2
    <3>2. Handler(o).managed \in {"exists", "conflict", "running", "act", "inspect"}
      BY <1>2, HandlerTables
    <3>3. agent'[j].pc \in {"idle", Handler(o).managed}
      BY <1>2, <1>4, <3>1, <3>2, ProceedPc
    <3>4. Handler(o).managed = "running" => ManagedContainer(s)
      BY <1>2, <3>1, HandlerTables DEF ManagedTarget
    <3>5. Handler(o).managed = "act" => o = "removeVolume" /\ volume[s] = "managed"
      BY <1>2, <3>1 DEF Handler, AgentOps, createTs3Container, startTs3Container,
         stopTs3Container, removeTs3Container, removeTs3Volume, getManagedContainerStatus,
         ManagedTarget
    <3>6. UNCHANGED engine
      BY <1>8 DEF AgentFindManaged
    <3> QED BY <3>3, <3>4, <3>5, <3>6
  <2> QED BY <1>8, <2>1, <2>2 DEF AgentFindManaged
<1>9. CASE AgentFindForeign(j)
  <2>1. PICK seen \in BOOLEAN : Proceed(j, IF seen THEN "conflict" ELSE Handler(o).free)
    BY <1>9 DEF AgentFindForeign
  <2>2. Handler(o).free \in {"act", "notFound", "alreadyRemoved"}
    BY <1>2, HandlerTables
  <2>3. agent'[j].pc \in {"idle", "conflict", Handler(o).free}
    BY <1>2, <1>4, <2>1, <2>2, ProceedPc
  <2>4. Handler(o).free = "act" => o = "create"
    BY <1>2 DEF Handler, AgentOps, startTs3Container,
       stopTs3Container, removeTs3Container, removeTs3Volume, getManagedContainerStatus
  <2>5. UNCHANGED engine
    BY <1>9 DEF AgentFindForeign
  <2> QED BY <2>2, <2>3, <2>4, <2>5
<1>10. CASE AgentFindRunning(j)
  <2>1. PICK seen \in BOOLEAN :
          /\ Lists(container[s] = "running", seen)
          /\ Proceed(j, IF seen THEN Handler(o).up ELSE Handler(o).down)
    BY <1>10 DEF AgentFindRunning
  <2>2. agent[j].pc = "running" /\ o \in {"start", "stop", "remove"} /\ UNCHANGED engine
    BY <1>1, <1>10 DEF AgentFindRunning, Stages
  <2>3. /\ Handler(o).up \in {"alreadyRunning", "act", "stillRunning"}
        /\ Handler(o).down \in {"alreadyStopped", "act"}
    BY <1>2, <2>2, HandlerTables
  <2>4. agent'[j].pc \in {"idle", IF seen THEN Handler(o).up ELSE Handler(o).down}
    BY <1>2, <1>4, <2>1, <2>3, ProceedPc
  <2>5. /\ Handler(o).up = "act" <=> o = "stop"
        /\ Handler(o).down = "act" <=> o \in {"start", "remove"}
    BY <2>2 DEF Handler, startTs3Container, stopTs3Container, removeTs3Container
  <2>6. (seen => container[s] = "running")
          /\ ("list" \notin Faults => (~seen => container[s] # "running"))
    BY <1>5, <2>1
  <2> QED BY <2>2, <2>3, <2>4, <2>5, <2>6
<1>11. CASE AgentAct(j)
  BY <1>3, <1>11 DEF AgentAct
<1> QED
  BY <1>6, <1>7, <1>8, <1>9, <1>10, <1>11 DEF AgentStep

LEMMA TargetInit == Init => TargetInv
BY TypeInvInit DEF TargetInv, Target, Init, IdleTask

LEMMA TargetNext ==
  ASSUME OneAtATime
  PROVE  TargetInv /\ [Next]_vars => TargetInv'
<1> SUFFICES ASSUME TargetInv, [Next]_vars, NEW j \in Jobs PROVE Target(j)'
  BY TypeInvNext DEF TargetInv
<1>1. TypeInv /\ TypeOK /\ Target(j) /\ \A k \in Jobs : k = j
  BY DEF TargetInv, TypeInv, OneAtATime
<1>2. CASE UNCHANGED engine /\ agent'[j] \in {agent[j], IdleTask}
  BY <1>1, <1>2 DEF engine, Target, ManagedContainer, IdleTask
<1>3. CASE AgentStep(j)
  <2>1. agent'[j] = IdleTask \/ (agent'[j].op = agent[j].op /\ agent'[j].srv = agent[j].srv)
    BY <1>1, <1>3, AgentShape
  <2>2. CASE agent'[j].pc \notin {"running", "act"}
    BY <2>2 DEF Target
  <2>3. CASE agent'[j].pc \in {"running", "act"}
    <3>1. agent'[j].op = agent[j].op /\ agent'[j].srv = agent[j].srv
      BY <2>1, <2>3 DEF IdleTask
    <3>2. container' = container /\ volume' = volume
      BY <1>1, <1>3, <2>3, NextLook DEF engine
    <3> QED BY <1>1, <1>3, <3>1, <3>2, NextLook DEF Target, ManagedContainer
  <2> QED BY <2>2, <2>3
<1>4. CASE WebStep(j) \/ Timeout(j) \/ WebCrash(j)
  <2>1. CASE CallAgent(j)
    BY <1>1, <2>1 DEF CallAgent, Target, TypeOK
  <2>2. CASE ~CallAgent(j)
    <3>1. agent' \in {agent, [agent EXCEPT ![j] = IdleTask]}
      BY <1>4, <2>2
      DEF WebStep, Timeout, WebCrash, Refuse, RefuseRunning, SaveReply, ConnectionLost,
          ReadForPrepare, StoreCredential, MarkPending, ReadForArchive, Archive,
          BeginRestart, FinishRestart
    <3>2. UNCHANGED engine
      BY <1>1, <1>4, WebShape
    <3> QED BY <1>1, <1>2, <3>1, <3>2 DEF TypeOK
  <2> QED BY <2>1, <2>2
<1>5. CASE AgentCrash(j) \/ OwnerStep(j) \/ UNCHANGED vars
  <2>1. UNCHANGED engine /\ agent' \in {agent, [agent EXCEPT ![j] = IdleTask]}
    BY <1>5 DEF AgentCrash, OwnerStep, Submit, vars, engine
  <2> QED BY <1>1, <1>2, <2>1 DEF TypeOK
<1>6. ASSUME NEW s \in Servers, ForeignContainer(s)
      PROVE  Target(j)'
  BY <1>1, <1>6 DEF ForeignContainer, Target, ManagedContainer, TypeOK
<1> QED BY <1>1, <1>3, <1>4, <1>5, <1>6 DEF Next, Crash

\* While one request is under way at a time, no docker command is ever aimed at
\* somebody else's container or volume of the same name, whatever fails, and
\* although others create theirs at any moment.
THEOREM ForeignSafety ==
  ASSUME OneAtATime
  PROVE  Spec => []ForeignNeverTargeted
<1>1. TargetInv => ForeignNeverTargeted
  BY DEF TargetInv, Target, ForeignNeverTargeted, ManagedContainer
<1> QED BY <1>1, TargetInit, TargetNext, PTL DEF Spec

\* The service that archives still knows the record as it read it.
ArchiveInv ==
  /\ TypeInv
  /\ \A j \in Jobs : web[j].pc = "archive" =>
       LET r == rec[web[j].srv] IN web[j].hadCredential = r.credential /\ ~r.archived

LEMMA ArchiveInit == Init => ArchiveInv
BY TypeInvInit DEF ArchiveInv, Init, IdleRequest

LEMMA ArchiveNext ==
  ASSUME OneAtATime
  PROVE  ArchiveInv /\ [Next]_vars => ArchiveInv'
<1> SUFFICES ASSUME ArchiveInv, [Next]_vars, NEW j \in Jobs, web'[j].pc = "archive"
             PROVE  /\ web'[j].hadCredential = rec'[web'[j].srv].credential
                    /\ ~rec'[web'[j].srv].archived
  BY TypeInvNext DEF ArchiveInv
<1>1. TypeInv /\ TypeOK /\ \A k \in Jobs : k = j
  BY DEF ArchiveInv, TypeInv, OneAtATime
<1>2. CASE UNCHANGED <<rec, web>>
  BY <1>2 DEF ArchiveInv
<1>3. CASE ReadForArchive(j)
  <2>1. web[j] \in Request /\ web[j].op = "archive"
    BY <1>1, <1>3, BusyRequest DEF ReadForArchive
  <2>2. web'[j] = [web[j] EXCEPT !.pc = "archive", !.hadCredential = RecordOf(j).credential]
    BY <1>1, <1>3 DEF ReadForArchive, TypeOK
  <2>3. web'[j].srv = web[j].srv /\ web'[j].hadCredential = rec[web[j].srv].credential
    BY <2>1, <2>2 DEF Request, RecordOf
  <2>4. ~rec[web[j].srv].archived /\ rec' = rec
    BY <1>3, <2>1 DEF ReadForArchive, Admits, mapArchiveGuard, RecordOf
  <2> QED BY <2>3, <2>4
<1>4. CASE (WebStep(j) \/ Timeout(j) \/ WebCrash(j)) /\ ~ReadForArchive(j)
  <2>1. CASE Refuse(j) \/ SaveReply(j) \/ MarkPending(j) \/ Archive(j)
             \/ (StoreCredential(j) /\ Return(j))
    <3>1. web'[j] = AfterService(web[j]) /\ web[j] \in Request
      BY <1>1, <2>1, BusyRequest
      DEF Refuse, SaveReply, MarkPending, Archive, StoreCredential, Return, TypeOK
    <3> QED BY <3>1, AfterServiceStages
  <2>2. CASE Timeout(j) \/ ConnectionLost(j)
    <3> DEFINE u == [web[j] EXCEPT !.reply = "none"]
    <3>1. web'[j] = AfterService(u) /\ u \in Request
      BY <1>1, <2>2, BusyRequest DEF Timeout, ConnectionLost, SaveNoReply, Request, TypeOK
    <3> HIDE DEF u
    <3> QED BY <3>1, AfterServiceStages
  <2>3. CASE RefuseRunning(j) \/ CallAgent(j) \/ ReadForPrepare(j) \/ BeginRestart(j)
             \/ FinishRestart(j) \/ WebCrash(j) \/ (StoreCredential(j) /\ WebGoto(j, "pending"))
    <3>1. web[j] \in Request
      BY <1>1, <2>3, BusyRequest
      DEF RefuseRunning, CallAgent, ReadForPrepare, BeginRestart, FinishRestart, WebCrash,
          StoreCredential, TypeOK
    <3>2. web'[j].pc \in {"refused", "wait", "pending", "credential", "read", "idle"}
      BY <1>1, <2>3, <3>1
      DEF RefuseRunning, CallAgent, ReadForPrepare, BeginRestart, FinishRestart, WebCrash,
          StoreCredential, WebGoto, TypeOK, IdleRequest, Request
    <3> QED BY <3>2
  <2> QED BY <1>4, <2>1, <2>2, <2>3 DEF WebStep, StoreCredential
<1>5. CASE AgentStep(j) \/ AgentCrash(j)
  <2>1. rec' = rec /\ web'[j].pc = web[j].pc
    BY <1>1, <1>5, AgentShape
  <2>2. agent[j] = IdleTask
    BY <1>1, <2>1 DEF TypeInv, Stages
  <2> QED
    BY <1>5, <2>2
    DEF AgentStep, AgentCrash, AgentProbe, AgentFindContainer, AgentFindManaged,
        AgentFindForeign, AgentFindRunning, AgentAct, IdleTask
<1>6. CASE OwnerStep(j)
  BY <1>1, <1>6 DEF OwnerStep, Submit, TypeOK, IdleRequest
<1>7. CASE \E s \in Servers : ForeignContainer(s)
  BY <1>2, <1>7 DEF ForeignContainer
<1> QED BY <1>1, <1>2, <1>3, <1>4, <1>5, <1>6, <1>7 DEF Next, Crash, vars

\* While one request is under way at a time, an archive with the decision to
\* delete the credential leaves none, also from a page rendered long ago.
THEOREM ArchiveSafety ==
  ASSUME OneAtATime
  PROVE  Spec => RemoveDecisionDeletesCredential
<1> DEFINE Step == \A j \in Jobs :
       (web[j].pc = "archive" /\ web[j].form = "remove" /\ web'[j] = IdleRequest
         /\ rec'[web[j].srv].archived)
         => ~rec'[web[j].srv].credential
<1>1. ArchiveInv /\ [Next]_vars => [Step]_vars
  <2> SUFFICES ASSUME ArchiveInv, Next, NEW j \in Jobs,
                      web[j].pc = "archive", web[j].form = "remove", web'[j] = IdleRequest,
                      rec'[web[j].srv].archived
               PROVE  ~rec'[web[j].srv].credential
    OBVIOUS
  <2>1. TypeInv /\ TypeOK /\ \A k \in Jobs : k = j
    BY DEF ArchiveInv, TypeInv, OneAtATime
  <2>2. /\ web[j] \in Request /\ rec[web[j].srv] \in ServerRecord /\ web[j].srv \in Servers
        /\ web[j].hadCredential = rec[web[j].srv].credential /\ ~rec[web[j].srv].archived
    BY <2>1, BusyRequest DEF ArchiveInv, TypeOK, Request
  <2>3. ~UNCHANGED rec
    BY <2>2
  <2>4. Archive(j)
    BY <2>1, <2>3
    DEF Next, OwnerStep, Submit, ForeignContainer, Crash, WebCrash, AgentCrash, Timeout,
        SaveNoReply, WebStep, Refuse, RefuseRunning, CallAgent, SaveReply, ConnectionLost,
        ReadForPrepare, StoreCredential, MarkPending, ReadForArchive, BeginRestart,
        FinishRestart, AgentStep, AgentProbe, AgentFindContainer, AgentFindManaged,
        AgentFindForeign, AgentFindRunning, AgentAct
  <2>5. rec'[web[j].srv] = IF web[j].hadCredential
          THEN [rec[web[j].srv] EXCEPT !.archived = TRUE, !.credential = FALSE,
                                       !.credentialsRemoved = TRUE]
          ELSE [rec[web[j].srv] EXCEPT !.archived = TRUE]
    BY <2>1, <2>2, <2>4 DEF Archive, Write, RecordOf, TypeOK
  <2> QED BY <2>2, <2>5 DEF ServerRecord
<1> QED BY <1>1, ArchiveInit, ArchiveNext, PTL DEF Spec, RemoveDecisionDeletesCredential

-----------------------------------------------------------------------------
(* An owner who waits and uses fresh pages: the record follows docker.     *)

\* The web process goes on, and no docker listing fails.  (Both are needed: a
\* failed listing reads as an empty one, and a service that dies with its
\* process leaves no error key.)
WaitingOwner ==
  OneAtATime /\ ~StaleTabs /\ "list" \notin Faults /\ "webCrash" \notin Faults

\* The status at which the page offers an operation.
StatusOf(o) ==
  CASE o \in {"prepareContainer", "removeVolume", "archive"} -> "RESOURCES_PREPARED"
    [] o = "create"                        -> "CONTAINER_PENDING"
    [] o \in {"start", "remove"}           -> "CONTAINER_CREATED"
    [] o \in {"stop", "restart", "health"} -> "RUNNING"

\* What a successful operation leaves, and what a handler about to act has seen.
Reached(o, s) ==
  /\ o \in {"create", "stop"} => container[s] = "stopped"
  /\ o = "start"  => container[s] = "running"
  /\ o = "remove" => ~ManagedContainer(s)

Seen(o, s) ==
  /\ o \in {"start", "remove"} => container[s] = "stopped"
  /\ o = "stop" => container[s] = "running"

Acting(j, s) == web[j].pc = "wait" /\ web[j].srv = s /\ web[j].op # "health"

RecordInv(s) ==
  LET r == rec[s]
  IN  /\ r.provisioningStatus = "RESOURCES_PREPARED" =>
           ~ManagedContainer(s) /\ r.runState # "running"
      /\ r.provisioningStatus = "CONTAINER_PENDING" =>
           container[s] # "running" /\ r.runState # "running"
      /\ r.errorKey = "none" /\ (\A j \in Jobs : ~Acting(j, s)) => DbMatchesDocker(s)

ServiceInv(j) ==
  LET w == web[j]
      r == rec[w.srv]
  IN  w.pc # "idle" =>
        /\ w.pc # "refused" /\ ~r.archived
        /\ w.pc # "finalize" => r.provisioningStatus = StatusOf(w.op)
        /\ w.pc \in {"credential", "pending"} => w.op = "prepareContainer"
        /\ w.pc = "archive" => w.op = "archive"
        /\ w.chain => w.op \in {"stop", "start"}
        /\ w.pc = "wait" /\ w.reply \in SuccessReplies => Reached(w.op, w.srv)
        /\ w.pc = "finalize" /\ w.op = "start" /\ w.reply \in SuccessReplies =>
             /\ r.provisioningStatus = "RUNNING" /\ container[w.srv] = "running"
             /\ agent[j] = IdleTask

\* A handler whose service has given up is known by the error key.
HandlerInv(j) ==
  LET a == agent[j]
      r == rec[a.srv]
  IN  a.pc # "idle" =>
        /\ r.provisioningStatus = StatusOf(a.op) /\ ~r.archived
        /\ web[j].pc # "wait" => a.op = "health" \/ r.errorKey # "none"
        /\ a.pc = "act" => Seen(a.op, a.srv)

OwnerInv ==
  /\ TargetInv
  /\ \A s \in Servers : RecordInv(s)
  /\ \A j \in Jobs : ServiceInv(j) /\ HandlerInv(j)

LEMMA OwnerInit == Init => OwnerInv
<1> SUFFICES ASSUME Init PROVE OwnerInv
  OBVIOUS
<1>1. ASSUME NEW s \in Servers PROVE RecordInv(s)
  BY DEF Init, PreparedRecord, RecordInv, DbMatchesDocker, ManagedContainer
<1>2. ASSUME NEW j \in Jobs PROVE ServiceInv(j) /\ HandlerInv(j)
  BY DEF Init, ServiceInv, HandlerInv, IdleRequest, IdleTask
<1> QED BY <1>1, <1>2, TargetInit DEF OwnerInv

\* A record whose status, run state and error key stay.
LEMMA RecordKept ==
  ASSUME NEW s \in Servers, RecordInv(s), container'[s] = container[s],
         rec'[s].provisioningStatus = rec[s].provisioningStatus,
         rec'[s].runState = rec[s].runState, rec'[s].errorKey = rec[s].errorKey,
         \A j \in Jobs : Acting(j, s) => Acting(j, s)'
  PROVE  RecordInv(s)'
BY DEF RecordInv, DbMatchesDocker, ManagedContainer

\* A step of the only service, which may write its record.
LEMMA ServiceStep ==
  ASSUME OneAtATime, OwnerInv, TargetInv', NEW j \in Jobs, UNCHANGED engine,
         NEW s \in Servers, s = web[j].srv, \A u \in Servers \ {s} : rec'[u] = rec[u],
         RecordInv(s)', ServiceInv(j)', HandlerInv(j)'
  PROVE  OwnerInv'
<1>1. \A k \in Jobs : k = j
  BY DEF OneAtATime
<1>2. ASSUME NEW u \in Servers, u # s PROVE RecordInv(u)'
  <2>1. RecordInv(u) /\ container'[u] = container[u] /\ rec'[u] = rec[u]
    BY <1>2 DEF OwnerInv, engine
  <2>2. \A k \in Jobs : ~Acting(k, u)
    BY <1>1, <1>2 DEF Acting
  <2> QED BY <2>1, <2>2, RecordKept
<1> QED BY <1>1, <1>2 DEF OwnerInv

LEMMA BusyService ==
  ASSUME OneAtATime, OwnerInv, NEW j \in Jobs, web[j].pc # "idle"
  PROVE  /\ TypeInv /\ TypeOK /\ Stages(j) /\ ServiceInv(j) /\ HandlerInv(j)
         /\ web[j] \in Request /\ web[j].srv \in Servers
         /\ rec[web[j].srv] \in ServerRecord /\ RecordInv(web[j].srv)
         /\ \A k \in Jobs : k = j
<1>1. TypeInv /\ TypeOK
  BY DEF OwnerInv, TargetInv, TypeInv
<1>2. web[j] \in Request
  BY <1>1, BusyRequest
<1> QED BY <1>1, <1>2 DEF OwnerInv, TypeInv, TypeOK, OneAtATime, Request

\* Steps of a service without an agent that leave status and error key alone.
LEMMA OwnerPlain ==
  ASSUME WaitingOwner, OwnerInv, TypeInv, TargetInv', NEW j \in Jobs,
         \/ Refuse(j) \/ RefuseRunning(j) \/ ReadForPrepare(j) \/ StoreCredential(j)
         \/ ReadForArchive(j) \/ Archive(j) \/ BeginRestart(j)
  PROVE  OwnerInv'
<1> DEFINE w == web[j]
<1> PICK s \in Servers : s = w.srv
  <2>1. w.pc # "idle"
    BY DEF Refuse, RefuseRunning, ReadForPrepare, StoreCredential, ReadForArchive, Archive,
           BeginRestart
  <2> QED BY <2>1, BusyService DEF WaitingOwner
<1>1. w.pc \in {"read", "credential", "archive"}
  BY DEF Refuse, RefuseRunning, ReadForPrepare, StoreCredential, ReadForArchive, Archive,
         BeginRestart
<1>2. /\ TypeOK /\ Stages(j) /\ ServiceInv(j) /\ w \in Request /\ OneAtATime
      /\ rec[s] \in ServerRecord /\ RecordInv(s) /\ \A k \in Jobs : k = j
  BY <1>1, BusyService DEF WaitingOwner
<1>3. /\ agent[j] = IdleTask
      /\ w.pc = "read" => w.reply = "none"
      /\ ~rec[s].archived /\ rec[s].provisioningStatus = StatusOf(w.op)
      /\ w.chain => w.op \in {"stop", "start"}
      /\ w.pc = "credential" => w.op = "prepareContainer"
      /\ w.pc = "archive" => w.op = "archive"
  BY <1>1, <1>2 DEF Stages, ServiceInv
<1>4. UNCHANGED engine /\ agent' = agent
  BY DEF Refuse, RefuseRunning, ReadForPrepare, StoreCredential, ReadForArchive, Archive,
         BeginRestart
<1>5. HandlerInv(j)'
  BY <1>3, <1>4 DEF HandlerInv, IdleTask
<1>6. ~Acting(j, s)
  BY <1>1 DEF Acting
<1>7. ASSUME NEW r \in ServerRecord, rec' = [rec EXCEPT ![s] = r],
             r.provisioningStatus = rec[s].provisioningStatus,
             r.runState = rec[s].runState, r.errorKey = rec[s].errorKey,
             ServiceInv(j)'
      PROVE  OwnerInv'
  <2>1. rec'[s] = r /\ \A u \in Servers \ {s} : rec'[u] = rec[u]
    BY <1>2, <1>7, RecUpdate
  <2>2. RecordInv(s)'
    BY <1>2, <1>4, <1>6, <1>7, <2>1, RecordKept DEF engine
  <2> QED BY <1>2, <1>4, <1>5, <1>7, <2>1, <2>2, ServiceStep
<1>8. ASSUME rec' = rec, ServiceInv(j)' PROVE OwnerInv'
  <2>1. RecordInv(s)'
    BY <1>2, <1>4, <1>6, <1>8, RecordKept DEF engine
  <2> QED BY <1>2, <1>4, <1>5, <1>8, <2>1, ServiceStep
<1>9. CASE Refuse(j)
  <2>1. /\ rec' = rec /\ w.pc = "read" /\ web'[j] = AfterService(w)
    BY <1>2, <1>9 DEF Refuse, Return, TypeOK
  <2>2. web'[j] = IdleRequest \/ web'[j] = [w EXCEPT !.pc = "finalize"]
    BY <1>3, <2>1 DEF AfterService, SuccessReplies
  <2>3. ServiceInv(j)'
    BY <1>2, <1>3, <2>1, <2>2 DEF ServiceInv, IdleRequest, Request, SuccessReplies
  <2> QED BY <1>8, <2>1, <2>3
<1>10. CASE RefuseRunning(j)
  BY <1>3, <1>10 DEF RefuseRunning, RecordOf, StatusOf
<1>11. CASE ReadForPrepare(j)
  <2>1. /\ rec' = rec /\ w.pc = "read" /\ w.op = "prepareContainer"
        /\ \E p \in {"pending", "credential"} : web'[j] = [w EXCEPT !.pc = p]
    BY <1>2, <1>11 DEF ReadForPrepare, WebGoto, TypeOK
  <2>2. ServiceInv(j)'
    BY <1>2, <1>3, <2>1 DEF ServiceInv, Request
  <2> QED BY <1>8, <2>1, <2>2
<1>12. CASE ReadForArchive(j)
  <2>1. /\ rec' = rec /\ w.op = "archive"
        /\ \E b \in BOOLEAN : web'[j] = [w EXCEPT !.pc = "archive", !.hadCredential = b]
    BY <1>2, <1>12 DEF ReadForArchive, TypeOK, RecordOf, ServerRecord
  <2>2. ServiceInv(j)'
    BY <1>2, <1>3, <2>1 DEF ServiceInv, Request
  <2> QED BY <1>8, <2>1, <2>2
<1>13. CASE BeginRestart(j)
  <2>1. /\ rec' = rec /\ w.op = "restart" /\ w.pc = "read"
        /\ web'[j] = [w EXCEPT !.op = "stop", !.chain = TRUE]
    BY <1>2, <1>13 DEF BeginRestart, TypeOK
  <2>2. StatusOf("stop") = StatusOf("restart")
    BY DEF StatusOf
  <2>3. ServiceInv(j)'
    BY <1>2, <1>3, <2>1, <2>2 DEF ServiceInv, Request, SuccessReplies
  <2> QED BY <1>8, <2>1, <2>3
<1>14. CASE StoreCredential(j)
  <2>1. CASE rec' = rec /\ Return(j)
    <3>1. web'[j] = AfterService(w) /\ w.pc = "credential"
      BY <1>2, <1>14, <2>1 DEF StoreCredential, Return, TypeOK
    <3>2. web'[j] = IdleRequest
      BY <1>3, <3>1 DEF AfterService
    <3>3. ServiceInv(j)'
      BY <3>2 DEF ServiceInv, IdleRequest
    <3> QED BY <1>8, <2>1, <3>3
  <2>2. CASE WebGoto(j, "pending") /\ Write(j, [RecordOf(j) EXCEPT !.credential = TRUE])
    <3> DEFINE r == [rec[s] EXCEPT !.credential = TRUE]
    <3>1. r \in ServerRecord /\ r.provisioningStatus = rec[s].provisioningStatus
            /\ r.runState = rec[s].runState /\ r.errorKey = rec[s].errorKey
            /\ r.archived = rec[s].archived
      BY <1>2 DEF ServerRecord
    <3>2. rec' = [rec EXCEPT ![s] = r]
      BY <2>2 DEF Write, RecordOf
    <3> HIDE DEF r
    <3>3. web'[j] = [w EXCEPT !.pc = "pending"] /\ rec'[s] = r /\ w.pc = "credential"
      BY <1>2, <1>14, <2>2, <3>2 DEF WebGoto, TypeOK, StoreCredential
    <3>4. ServiceInv(j)'
      BY <1>2, <1>3, <3>1, <3>3 DEF ServiceInv, Request
    <3> QED BY <1>7, <3>1, <3>2, <3>4
  <2> QED BY <1>14, <2>1, <2>2 DEF StoreCredential
<1>15. CASE Archive(j)
  <2>1. web'[j] = AfterService(w) /\ w.pc = "archive"
    BY <1>2, <1>15 DEF Archive, Return, TypeOK
  <2>2. web'[j] = IdleRequest
    BY <1>3, <2>1 DEF AfterService
  <2>3. ServiceInv(j)'
    BY <2>2 DEF ServiceInv, IdleRequest
  <2>4. PICK r \in {[rec[s] EXCEPT !.archived = TRUE, !.credential = FALSE,
                                  !.credentialsRemoved = TRUE],
                    [rec[s] EXCEPT !.archived = TRUE]} : rec' = [rec EXCEPT ![s] = r]
    BY <1>15 DEF Archive, Write, RecordOf
  <2>5. r \in ServerRecord /\ r.provisioningStatus = rec[s].provisioningStatus
          /\ r.runState = rec[s].runState /\ r.errorKey = rec[s].errorKey
    BY <1>2, <2>4 DEF ServerRecord
  <2> QED BY <1>7, <2>3, <2>4, <2>5
<1> QED
  BY <1>9, <1>10, <1>11, <1>12, <1>13, <1>14, <1>15

LEMMA OwnerCall ==
  ASSUME WaitingOwner, OwnerInv, TargetInv', NEW j \in Jobs, CallAgent(j)
  PROVE  OwnerInv'
<1> DEFINE w == web[j]
<1> PICK s \in Servers : s = w.srv
  BY BusyService DEF CallAgent, WaitingOwner
<1>1. /\ TypeOK /\ Stages(j) /\ ServiceInv(j) /\ w \in Request /\ OneAtATime
      /\ RecordInv(s) /\ \A k \in Jobs : k = j
  BY BusyService DEF CallAgent, WaitingOwner
<1>2. /\ w.reply = "none" /\ ~rec[s].archived
      /\ rec[s].provisioningStatus = StatusOf(w.op) /\ (w.chain => w.op \in {"stop", "start"})
  BY <1>1 DEF CallAgent, Stages, ServiceInv
<1>3. /\ web'[j] = [w EXCEPT !.pc = "wait"] /\ rec' = rec /\ UNCHANGED engine
      /\ agent'[j].pc \in {"managed", "probe"} /\ agent'[j].op = w.op /\ agent'[j].srv = s
  BY <1>1 DEF CallAgent, WebGoto, TypeOK
<1>4. web'[j].pc = "wait" /\ web'[j].op = w.op /\ web'[j].srv = s /\ web'[j].reply = "none"
        /\ web'[j].chain = w.chain
  BY <1>1, <1>2, <1>3 DEF Request
<1>5. ServiceInv(j)'
  BY <1>2, <1>3, <1>4 DEF ServiceInv, SuccessReplies
<1>6. HandlerInv(j)'
  BY <1>2, <1>3, <1>4 DEF HandlerInv
<1>7. \A k \in Jobs : ~Acting(k, s)
  BY <1>1 DEF CallAgent, Acting
<1>8. RecordInv(s)'
  BY <1>1, <1>3, <1>7, RecordKept DEF engine
<1> QED BY <1>1, <1>3, <1>5, <1>6, <1>8, ServiceStep

LEMMA OwnerPending ==
  ASSUME WaitingOwner, OwnerInv, TargetInv', NEW j \in Jobs, MarkPending(j)
  PROVE  OwnerInv'
<1> DEFINE w == web[j]
           r == [rec[w.srv] EXCEPT !.provisioningStatus = "CONTAINER_PENDING",
                                   !.errorKey = "none"]
<1> PICK s \in Servers : s = w.srv
  BY BusyService DEF MarkPending, WaitingOwner
<1>1. /\ TypeOK /\ Stages(j) /\ ServiceInv(j) /\ w \in Request /\ OneAtATime
      /\ rec[s] \in ServerRecord /\ RecordInv(s) /\ \A k \in Jobs : k = j
  BY BusyService DEF MarkPending, WaitingOwner
<1>2. /\ agent[j] = IdleTask /\ w.op = "prepareContainer" /\ ~w.chain
      /\ rec[s].provisioningStatus = "RESOURCES_PREPARED"
  BY <1>1 DEF MarkPending, Stages, ServiceInv, StatusOf
<1>3. /\ web'[j] = IdleRequest /\ agent' = agent /\ UNCHANGED engine
      /\ rec' = [rec EXCEPT ![s] = r]
  BY <1>1, <1>2 DEF MarkPending, Return, AfterService, Write, RecordOf, TypeOK
<1>4. /\ r \in ServerRecord /\ r.provisioningStatus = "CONTAINER_PENDING"
      /\ r.runState = rec[s].runState
  BY <1>1 DEF ServerRecord, Statuses, ErrorKeys
<1> HIDE DEF r
<1>5. rec'[s] = r /\ \A u \in Servers \ {s} : rec'[u] = rec[u]
  BY <1>1, <1>3, <1>4, RecUpdate
<1>6. RecordInv(s)'
  BY <1>1, <1>2, <1>3, <1>4, <1>5 DEF RecordInv, DbMatchesDocker, ManagedContainer, engine
<1>7. ServiceInv(j)' /\ HandlerInv(j)'
  BY <1>2, <1>3 DEF ServiceInv, HandlerInv, IdleRequest, IdleTask
<1> QED BY <1>1, <1>3, <1>5, <1>6, <1>7, ServiceStep

LEMMA OwnerFinish ==
  ASSUME WaitingOwner, OwnerInv, TargetInv', NEW j \in Jobs, FinishRestart(j)
  PROVE  OwnerInv'
<1> DEFINE w == web[j]
           e == IF w.op = "start" /\ w.reply \in SuccessReplies THEN "none" ELSE "failed"
           r == [rec[w.srv] EXCEPT !.errorKey = e]
<1> PICK s \in Servers : s = w.srv
  BY BusyService DEF FinishRestart, WaitingOwner
<1>1. /\ TypeOK /\ ServiceInv(j) /\ HandlerInv(j) /\ w \in Request /\ OneAtATime
      /\ rec[s] \in ServerRecord /\ RecordInv(s) /\ \A k \in Jobs : k = j /\ TypeInv
  BY BusyService DEF FinishRestart, WaitingOwner
<1>2. /\ web'[j] = IdleRequest /\ agent' = agent /\ UNCHANGED engine
      /\ rec' = [rec EXCEPT ![s] = r]
  BY <1>1 DEF FinishRestart, Write, RecordOf, TypeOK
<1>3. /\ e = "none" => /\ rec[s].provisioningStatus = "RUNNING"
                       /\ container[s] = "running" /\ agent[j] = IdleTask
      /\ e \in {"none", "failed"}
  BY <1>1 DEF FinishRestart, ServiceInv
<1>4. /\ r \in ServerRecord /\ r.provisioningStatus = rec[s].provisioningStatus
      /\ r.runState = rec[s].runState /\ r.errorKey = e /\ r.archived = rec[s].archived
  BY <1>1, <1>3 DEF ServerRecord, ErrorKeys
<1> HIDE DEF r, e
<1>5. rec'[s] = r /\ \A u \in Servers \ {s} : rec'[u] = rec[u]
  BY <1>1, <1>2, <1>4, RecUpdate
<1>6. RecordInv(s)'
  BY <1>1, <1>2, <1>3, <1>4, <1>5 DEF RecordInv, DbMatchesDocker, ManagedContainer, engine
<1>7. ServiceInv(j)'
  BY <1>2 DEF ServiceInv, IdleRequest
<1>8. HandlerInv(j)'
  <2>1. agent[j].pc # "idle" => agent[j].srv \in Servers
    BY <1>1, BusyTask DEF Task
  <2>2. rec'[agent[j].srv].provisioningStatus = rec[agent[j].srv].provisioningStatus
          \/ agent[j].pc = "idle"
    BY <1>4, <1>5, <2>1
  <2>3. agent[j].pc # "idle" =>
          /\ rec'[agent[j].srv].archived = rec[agent[j].srv].archived
          /\ rec[agent[j].srv].errorKey # "none" => rec'[agent[j].srv].errorKey # "none"
    BY <1>3, <1>4, <1>5, <2>1 DEF IdleTask
  <2>4. web[j].pc = "finalize" /\ UNCHANGED container
    BY <1>2 DEF FinishRestart, engine
  <2> QED BY <1>1, <1>2, <2>2, <2>3, <2>4 DEF HandlerInv, Seen, IdleRequest
<1> QED BY <1>1, <1>2, <1>5, <1>6, <1>7, <1>8, ServiceStep

\* What a reply makes of a record at the status of its operation.
LEMMA ReplyWrites ==
  ASSUME NEW o \in AgentOps, NEW a \in Replies, NEW r \in ServerRecord,
         r.provisioningStatus = StatusOf(o), NEW v, v = ReplyUpdate(o, a, r)
  PROVE  /\ v \in ServerRecord /\ v.archived = r.archived
         /\ o = "health" =>
              v.provisioningStatus = r.provisioningStatus /\ v.errorKey = r.errorKey
         /\ o # "health" /\ a \notin SuccessReplies =>
              /\ v.provisioningStatus = r.provisioningStatus
              /\ v.runState = r.runState /\ v.errorKey = "failed"
         /\ a \in SuccessReplies /\ o \in {"create", "start", "stop", "remove"} =>
              /\ v.provisioningStatus =
                   CASE o \in {"create", "stop"} -> "CONTAINER_CREATED"
                     [] o = "start" -> "RUNNING"
                     [] o = "remove" -> "RESOURCES_PREPARED"
              /\ v.runState = CASE o = "create" -> r.runState
                                [] o = "stop" -> "stopped"
                                [] o = "start" -> "running"
                                [] o = "remove" -> "unknown"
         /\ a \in SuccessReplies /\ o = "removeVolume" =>
              v.provisioningStatus = r.provisioningStatus /\ v.runState = r.runState
<1>1. v \in ServerRecord
  BY UpdateTypes
<1>2. CASE o = "health" \/ a \notin SuccessReplies
  BY <1>1, <1>2 DEF ReplyUpdate, ServerRecord
<1>3. CASE o = "create" /\ a \in SuccessReplies
  BY <1>1, <1>3 DEF ReplyUpdate, SuccessUpdate, createSuccess, ServerRecord
<1>4. CASE o = "start" /\ a \in SuccessReplies
  BY <1>1, <1>4 DEF ReplyUpdate, SuccessUpdate, startSuccess, ServerRecord
<1>5. CASE o = "stop" /\ a \in SuccessReplies
  BY <1>1, <1>5 DEF ReplyUpdate, SuccessUpdate, stopSuccess, ServerRecord
<1>6. CASE o = "remove" /\ a \in SuccessReplies
  BY <1>1, <1>6 DEF ReplyUpdate, SuccessUpdate, removeSuccessUpdate, ServerRecord
<1>7. CASE o = "removeVolume" /\ a \in SuccessReplies
  BY <1>1, <1>7 DEF ReplyUpdate, SuccessUpdate, volumeRemoveSuccessUpdate, ServerRecord
<1> QED BY <1>2, <1>3, <1>4, <1>5, <1>6, <1>7 DEF AgentOps

LEMMA OwnerReply ==
  ASSUME WaitingOwner, OwnerInv, TargetInv', NEW j \in Jobs, SaveReply(j)
  PROVE  OwnerInv'
<1> DEFINE w == web[j]
           o == w.op
           r == ReplyUpdate(w.op, w.reply, rec[w.srv])
<1> PICK s \in Servers : s = w.srv
  BY BusyService DEF SaveReply, WaitingOwner
<1>1. /\ TypeOK /\ Stages(j) /\ ServiceInv(j) /\ w \in Request /\ OneAtATime
      /\ rec[s] \in ServerRecord /\ RecordInv(s) /\ \A k \in Jobs : k = j
  BY BusyService DEF SaveReply, WaitingOwner
<1>2. /\ w.pc = "wait" /\ w.reply \in Replies /\ agent[j] = IdleTask /\ o \in AgentOps
      /\ rec[s].provisioningStatus = StatusOf(o) /\ ~rec[s].archived
      /\ w.reply \in SuccessReplies => Reached(o, s)
      /\ w.chain => o \in {"stop", "start"}
  BY <1>1 DEF SaveReply, Stages, ServiceInv, Request
<1>3. /\ web'[j] = AfterService(w) /\ agent' = agent /\ container' = container
      /\ rec' = [rec EXCEPT ![s] = r] /\ UNCHANGED engine
  BY <1>1 DEF SaveReply, Return, Write, RecordOf, TypeOK, engine
<1>4. /\ r \in ServerRecord /\ r.archived = rec[s].archived
      /\ o = "health" =>
           r.provisioningStatus = rec[s].provisioningStatus /\ r.errorKey = rec[s].errorKey
      /\ o # "health" /\ w.reply \notin SuccessReplies =>
           /\ r.provisioningStatus = rec[s].provisioningStatus
           /\ r.runState = rec[s].runState /\ r.errorKey = "failed"
      /\ w.reply \in SuccessReplies /\ o \in {"create", "start", "stop", "remove"} =>
           /\ r.provisioningStatus =
                CASE o \in {"create", "stop"} -> "CONTAINER_CREATED"
                  [] o = "start" -> "RUNNING"
                  [] o = "remove" -> "RESOURCES_PREPARED"
           /\ r.runState = CASE o = "create" -> rec[s].runState
                             [] o = "stop" -> "stopped"
                             [] o = "start" -> "running"
                             [] o = "remove" -> "unknown"
      /\ w.reply \in SuccessReplies /\ o = "removeVolume" =>
           r.provisioningStatus = rec[s].provisioningStatus /\ r.runState = rec[s].runState
  BY <1>1, <1>2, ReplyWrites
<1> HIDE DEF r
<1>5. rec'[s] = r /\ \A u \in Servers \ {s} : rec'[u] = rec[u]
  BY <1>1, <1>3, <1>4, RecUpdate
<1>6. RecordInv(s)'
  <2>1. CASE o = "health"
    <3>1. \A k \in Jobs : ~Acting(k, s)
      BY <1>1, <2>1 DEF Acting
    <3>2. rec[s].provisioningStatus = "RUNNING"
      BY <1>2, <2>1 DEF StatusOf
    <3> QED BY <1>1, <1>3, <1>4, <1>5, <2>1, <3>1, <3>2
            DEF RecordInv, DbMatchesDocker, ManagedContainer
  <2>2. CASE o # "health" /\ w.reply \notin SuccessReplies
    BY <1>1, <1>3, <1>4, <1>5, <2>2 DEF RecordInv, ManagedContainer
  <2>3. CASE o = "create" /\ w.reply \in SuccessReplies
    <3>1. rec[s].runState # "running"
      BY <1>1, <1>2, <2>3 DEF RecordInv, StatusOf
    <3>2. rec'[s].provisioningStatus = "CONTAINER_CREATED" /\ rec'[s].runState # "running"
      BY <1>4, <1>5, <2>3, <3>1
    <3>3. container'[s] = "stopped"
      BY <1>2, <1>3, <2>3 DEF Reached
    <3> QED BY <3>2, <3>3 DEF RecordInv, DbMatchesDocker
  <2>4. CASE o \in {"start", "stop", "remove"} /\ w.reply \in SuccessReplies
    BY <1>2, <1>3, <1>4, <1>5, <2>4 DEF RecordInv, DbMatchesDocker, ManagedContainer, Reached
  <2>5. CASE o = "removeVolume" /\ w.reply \in SuccessReplies
    BY <1>1, <1>2, <1>3, <1>4, <1>5, <2>5
    DEF RecordInv, DbMatchesDocker, ManagedContainer, StatusOf
  <2> QED BY <1>2, <2>1, <2>2, <2>3, <2>4, <2>5 DEF AgentOps
<1>7. ServiceInv(j)'
  <2>1. CASE web'[j] = IdleRequest
    BY <2>1 DEF ServiceInv, IdleRequest
  <2>2. CASE /\ w.chain /\ o = "stop" /\ w.reply \in SuccessReplies
             /\ web'[j] = [w EXCEPT !.op = "start", !.pc = "read", !.reply = "none"]
    <3>1. /\ web'[j].op = "start" /\ web'[j].pc = "read" /\ web'[j].srv = s
          /\ web'[j].reply = "none"
      BY <1>1, <2>2 DEF Request
    <3>2. r.provisioningStatus = StatusOf("start")
      BY <1>4, <2>2 DEF StatusOf
    <3> QED BY <1>2, <1>4, <1>5, <3>1, <3>2 DEF ServiceInv
  <2>3. CASE w.chain /\ web'[j] = [w EXCEPT !.pc = "finalize"]
    <3>1. /\ web'[j].op = o /\ web'[j].pc = "finalize" /\ web'[j].srv = s
          /\ web'[j].reply = w.reply
      BY <1>1, <2>3 DEF Request
    <3>2. o = "start" /\ w.reply \in SuccessReplies =>
            r.provisioningStatus = "RUNNING" /\ container[s] = "running"
      BY <1>2, <1>4 DEF Reached
    <3> QED BY <1>2, <1>3, <1>4, <1>5, <2>3, <3>1, <3>2 DEF ServiceInv
  <2> QED BY <1>3, <2>1, <2>2, <2>3 DEF AfterService
<1>8. HandlerInv(j)'
  BY <1>2, <1>3 DEF HandlerInv, IdleTask
<1> QED BY <1>1, <1>3, <1>5, <1>6, <1>7, <1>8, ServiceStep

\* The service gives up; its handler, if it still works, is left over.
LEMMA OwnerNoReply ==
  ASSUME WaitingOwner, OwnerInv, TargetInv', NEW j \in Jobs, Timeout(j) \/ ConnectionLost(j)
  PROVE  OwnerInv'
<1> DEFINE w == web[j]
           u == [web[j] EXCEPT !.reply = "none"]
           o == w.op
           r == NoReplyUpdate(w.op, rec[w.srv])
<1>1. w.pc = "wait" /\ SaveNoReply(j)
  BY DEF Timeout, ConnectionLost, SaveNoReply
<1> PICK s \in Servers : s = w.srv
  BY <1>1, BusyService DEF WaitingOwner
<1>2. /\ TypeOK /\ Stages(j) /\ ServiceInv(j) /\ HandlerInv(j) /\ w \in Request /\ OneAtATime
      /\ rec[s] \in ServerRecord /\ RecordInv(s) /\ \A k \in Jobs : k = j
  BY <1>1, BusyService DEF WaitingOwner
<1>3. /\ o \in AgentOps /\ ~rec[s].archived /\ rec[s].provisioningStatus = StatusOf(o)
      /\ w.chain => o \in {"stop", "start"}
      /\ agent[j] # IdleTask => agent[j].op = o /\ agent[j].srv = s
  BY <1>1, <1>2 DEF Stages, ServiceInv
<1>4. /\ web'[j] = AfterService(u) /\ UNCHANGED engine /\ container' = container
      /\ rec' = [rec EXCEPT ![s] = r] /\ agent'[j] \in {agent[j], IdleTask}
  BY <1>1, <1>2
  DEF SaveNoReply, Write, RecordOf, TypeOK, engine, Timeout, ConnectionLost
<1>5. /\ r \in ServerRecord /\ r.archived = rec[s].archived
      /\ r.provisioningStatus = rec[s].provisioningStatus
      /\ o = "health" => r.errorKey = rec[s].errorKey
      /\ o # "health" => r.errorKey = "unreachable" /\ r.runState = rec[s].runState
  BY <1>2 DEF NoReplyUpdate, ServerRecord, RunStates, ErrorKeys
<1>6. /\ u \in Request /\ u.srv = s /\ u.op = o /\ u.chain = w.chain /\ u.reply = "none"
  BY <1>2 DEF Request
<1> HIDE DEF r, u
<1>7. rec'[s] = r /\ \A v \in Servers \ {s} : rec'[v] = rec[v]
  BY <1>2, <1>4, <1>5, RecUpdate
<1>8. RecordInv(s)'
  <2>1. CASE o = "health"
    <3>1. \A k \in Jobs : ~Acting(k, s)
      BY <1>2, <2>1 DEF Acting
    <3>2. rec[s].provisioningStatus = "RUNNING"
      BY <1>3, <2>1 DEF StatusOf
    <3> QED BY <1>2, <1>4, <1>5, <1>7, <2>1, <3>1, <3>2
            DEF RecordInv, DbMatchesDocker, ManagedContainer
  <2>2. CASE o # "health"
    BY <1>2, <1>4, <1>5, <1>7, <2>2 DEF RecordInv, ManagedContainer
  <2> QED BY <2>1, <2>2
<1>9. web'[j] = IdleRequest \/ (w.chain /\ web'[j] = [u EXCEPT !.pc = "finalize"])
  BY <1>4, <1>6 DEF AfterService, SuccessReplies
<1>10. ServiceInv(j)'
  <2>1. CASE web'[j] = IdleRequest
    BY <2>1 DEF ServiceInv, IdleRequest
  <2>2. CASE w.chain /\ web'[j] = [u EXCEPT !.pc = "finalize"]
    <3>1. /\ web'[j].op = o /\ web'[j].pc = "finalize" /\ web'[j].srv = s
          /\ web'[j].reply = "none"
      BY <1>6, <2>2 DEF Request
    <3> QED BY <1>3, <1>5, <1>7, <2>2, <3>1 DEF ServiceInv, SuccessReplies
  <2> QED BY <1>9, <2>1, <2>2
<1>11. HandlerInv(j)'
  <2>1. CASE agent'[j] = IdleTask
    BY <2>1 DEF HandlerInv, IdleTask
  <2>2. CASE agent'[j] = agent[j] /\ agent[j] # IdleTask
    <3>1. agent[j].op = o /\ agent[j].srv = s
      BY <1>3, <2>2
    <3> QED BY <1>2, <1>3, <1>4, <1>5, <1>7, <2>2, <3>1 DEF HandlerInv, Seen
  <2> QED BY <1>4, <2>1, <2>2
<1> QED BY <1>2, <1>4, <1>7, <1>8, <1>10, <1>11, ServiceStep


\* What a handler of a waiting service reports is what the operation leaves.
LEMMA ReachedReply ==
  ASSUME WaitingOwner, OwnerInv, NEW j \in Jobs, AgentStep(j),
         web[j].pc = "wait", web'[j].reply \in SuccessReplies,
         NEW o, NEW s, o = agent[j].op, s = agent[j].srv
  PROVE  Reached(o, s)'
<1>1. /\ TypeInv /\ TypeOK /\ Stages(j) /\ ServiceInv(j) /\ HandlerInv(j)
      /\ "list" \notin Faults
  BY BusyService DEF WaitingOwner
<1>2. agent[j].pc # "idle" /\ agent[j] \in Task /\ o \in AgentOps /\ s \in Servers
  BY <1>1, GoesOrReplies DEF Task
<1>3. web[j].reply = "none" /\ web[j].op = o /\ web[j].srv = s
  BY <1>1, <1>2 DEF Stages, IdleTask
<1>4. rec[s].provisioningStatus = StatusOf(o) /\ RecordInv(s)
  BY <1>1, <1>2, <1>3 DEF ServiceInv, OwnerInv
<1>5. /\ "none" \notin SuccessReplies
      /\ SuccessReplies \cap (ErrorReplies \cup RuntimeReplies) = {}
      /\ {"unavailable", "containerStillExists", "conflict", "notFound", "stillRunning", "error"}
           \subseteq ErrorReplies
      /\ SuccessReplies \subseteq Replies /\ ErrorReplies \subseteq Replies
      /\ {"containers", "managed", "running", "act", "inspect"} \cap SuccessReplies = {}
      /\ {"exists", "alreadyRunning", "alreadyStopped", "alreadyRemoved"} \subseteq SuccessReplies
      /\ {"containers", "managed", "running", "act"} \subseteq AgentPcs \ {"idle", "probe"}
  BY DEF SuccessReplies, ErrorReplies, RuntimeReplies, Replies, AgentPcs
<1>6. ASSUME NEW p PROVE ~AgentGoto(j, p)
  BY <1>3, <1>5 DEF AgentGoto
<1>7. ASSUME NEW a, Reply(j, a) PROVE a \in SuccessReplies
  <2>1. web[j] \in Request
    BY <1>1, BusyRequest
  <2> QED BY <1>1, <1>7, <2>1 DEF Reply, TypeOK, Request
<1>8. ASSUME NEW truth, NEW seen \in BOOLEAN, Lists(truth, seen)
      PROVE  (seen => truth) /\ (~seen => ~truth)
  BY <1>1, <1>8 DEF Lists, Inject
<1>9. ASSUME NEW next \in (AgentPcs \ {"idle", "probe"}) \cup Replies \cup {"inspect"},
             Proceed(j, next)
      PROVE  next \in SuccessReplies
  BY <1>5, <1>6, <1>7, <1>9, ProceedSplit
<1>10. ~AgentProbe(j)
  <2>1. agent[j].pc = "probe" => o # "health"
    BY <1>1 DEF Stages
  <2>2. o # "health" => ~Proceed(j, Handler(o).probed)
    BY <1>2, <1>5, <1>9, HandlerTables
  <2> QED BY <1>5, <1>7, <2>1, <2>2 DEF AgentProbe
<1>11. ~AgentFindContainer(j)
  BY <1>5, <1>6, <1>7 DEF AgentFindContainer
<1>12. CASE AgentFindManaged(j)
  <2>1. PICK seen \in BOOLEAN :
          Lists(ManagedTarget(o, s), seen) /\ seen /\ Proceed(j, Handler(o).managed)
    BY <1>5, <1>6, <1>7, <1>12 DEF AgentFindManaged
  <2>2. o = "create"
    <3>1. Handler(o).managed \in SuccessReplies
      BY <1>2, <1>5, <1>9, <2>1, HandlerTables
    <3> QED BY <1>2, <1>5, <3>1
            DEF AgentOps, Handler, startTs3Container, stopTs3Container, removeTs3Container,
                removeTs3Volume, getManagedContainerStatus
  <2>3. ManagedContainer(s)
    BY <1>8, <2>1, <2>2 DEF ManagedTarget
  <2>4. container[s] = "stopped"
    BY <1>4, <2>2, <2>3 DEF RecordInv, StatusOf, ManagedContainer
  <2> QED BY <1>12, <2>2, <2>4 DEF AgentFindManaged, Reached, engine
<1>13. CASE AgentFindForeign(j)
  <2>1. PICK seen \in BOOLEAN :
          /\ Lists(AnyTarget(o, s), seen)
          /\ Proceed(j, IF seen THEN "conflict" ELSE Handler(o).free)
    BY <1>13 DEF AgentFindForeign
  <2>2. ~seen
    BY <1>5, <1>9, <2>1
  <2>3. o \in {"remove", "removeVolume"}
    <3>1. Handler(o).free \in SuccessReplies
      BY <1>2, <1>5, <1>9, <2>1, <2>2, HandlerTables
    <3> QED BY <1>2, <1>5, <3>1
            DEF AgentOps, Handler, createTs3Container, startTs3Container, stopTs3Container,
                getManagedContainerStatus
  <2>4. ~AnyTarget(o, s)
    BY <1>8, <2>1, <2>2
  <2> QED BY <1>13, <2>3, <2>4
          DEF AgentFindForeign, AnyTarget, engine, Reached, ManagedContainer
<1>14. CASE AgentFindRunning(j)
  <2>1. PICK seen \in BOOLEAN :
          /\ Lists(container[s] = "running", seen)
          /\ Proceed(j, IF seen THEN Handler(o).up ELSE Handler(o).down)
    BY <1>14 DEF AgentFindRunning
  <2>2. o \in {"start", "stop", "remove"} /\ agent[j].pc = "running"
    BY <1>1, <1>14 DEF AgentFindRunning, Stages
  <2>3. (o = "start" /\ seen) \/ (o = "stop" /\ ~seen)
    <3>1. CASE seen
      <4>1. Handler(o).up \in SuccessReplies
        BY <1>2, <1>5, <1>9, <2>1, <2>2, <3>1, HandlerTables
      <4> QED BY <1>5, <2>2, <3>1, <4>1 DEF Handler, stopTs3Container, removeTs3Container
    <3>2. CASE ~seen
      <4>1. Handler(o).down \in SuccessReplies
        BY <1>2, <1>5, <1>9, <2>1, <2>2, <3>2, HandlerTables
      <4> QED BY <1>5, <2>2, <3>2, <4>1 DEF Handler, startTs3Container, removeTs3Container
    <3> QED BY <3>1, <3>2
  <2>4. (seen => container[s] = "running") /\ (~seen => container[s] # "running")
    BY <1>8, <2>1
  <2>5. ManagedContainer(s)
    BY <2>2 DEF OwnerInv, TargetInv, Target
  <2> QED BY <1>14, <2>3, <2>4, <2>5 DEF AgentFindRunning, engine, Reached, ManagedContainer
<1>15. CASE AgentAct(j)
  <2>1. CommandPossible(o, s) /\ CommandEffect(o, s) /\ agent[j].pc = "act"
    BY <1>5, <1>7, <1>15 DEF AgentAct
  <2>2. Seen(o, s)
    BY <1>1, <2>1 DEF HandlerInv
  <2>3. container \in [Servers -> ContainerStates] /\ s \in Servers
    BY <1>1, <1>2 DEF TypeOK
  <2> QED BY <2>1, <2>2, <2>3 DEF CommandEffect, Reached, Seen, ManagedContainer
<1> QED BY <1>10, <1>11, <1>12, <1>13, <1>14, <1>15 DEF AgentStep


\* What a docker command may do to the container of its server.
LEMMA ActOutcome ==
  ASSUME OneAtATime, OwnerInv, NEW j \in Jobs, AgentStep(j),
         NEW o, NEW s, o = agent[j].op, s = agent[j].srv
  PROVE  /\ \A u \in Servers \ {s} : container'[u] = container[u]
         /\ \/ container'[s] = container[s]
            \/ /\ o = "create" /\ container'[s] = "stopped"
            \/ /\ o \in {"start", "stop", "remove"}
               /\ agent[j].pc = "act"
<1>1. TypeInv /\ TypeOK
  BY DEF OwnerInv, TargetInv, TypeInv
<1>2. \/ UNCHANGED engine
      \/ agent[j].pc = "act" /\ CommandPossible(o, s) /\ CommandEffect(o, s)
  BY <1>1, AgentShape
<1>3. CASE UNCHANGED engine
  BY <1>3 DEF engine
<1>4. CASE agent[j].pc = "act" /\ CommandEffect(o, s)
  <2>1. agent[j] \in Task /\ o \in AgentOps /\ s \in Servers
    BY <1>1, GoesOrReplies DEF Task
  <2> QED BY <1>1, <1>4, <2>1 DEF CommandEffect, TypeOK, AgentOps
<1> QED BY <1>2, <1>3, <1>4

LEMMA OwnerHandler ==
  ASSUME WaitingOwner, OwnerInv, TargetInv', NEW j \in Jobs, AgentStep(j)
  PROVE  OwnerInv'
<1> PICK o, s : o = agent[j].op /\ s = agent[j].srv
  OBVIOUS
<1>1. /\ TypeInv /\ TypeOK /\ Stages(j) /\ ServiceInv(j) /\ HandlerInv(j)
      /\ OneAtATime /\ "list" \notin Faults /\ \A k \in Jobs : k = j
  BY DEF OwnerInv, TargetInv, TypeInv, WaitingOwner, OneAtATime
<1>2. agent[j].pc # "idle" /\ agent[j] \in Task /\ o \in AgentOps /\ s \in Servers
  BY <1>1, GoesOrReplies DEF Task
<1>3. /\ SameRequest(web[j], web'[j]) /\ web'[j].op = web[j].op
      /\ web'[j].pc = web[j].pc /\ web'[j].chain = web[j].chain
      /\ agent'[j] = IdleTask \/ (agent'[j].op = o /\ agent'[j].srv = s)
      /\ rec' = rec
  BY <1>1, AgentShape
<1>4. web'[j].srv = web[j].srv
  BY <1>3 DEF SameRequest
<1>5. /\ rec[s].provisioningStatus = StatusOf(o) /\ ~rec[s].archived
      /\ web[j].pc # "wait" => o = "health" \/ rec[s].errorKey # "none"
      /\ web[j].pc = "wait" => web[j].op = o /\ web[j].srv = s
  BY <1>1, <1>2 DEF HandlerInv, Stages, IdleTask
<1>6. web[j].pc # "wait" => web' = web
  BY <1>1, GoesOrReplies DEF AgentGoto, Reply
<1>7. web[j].pc \in {"idle", "wait", "finalize"}
  BY <1>1, <1>2 DEF Stages, IdleTask
<1>8. ServiceInv(j)'
  <2>1. CASE web[j].pc = "wait"
    <3>1. web'[j].reply \in SuccessReplies => Reached(o, s)'
      BY <2>1, ReachedReply
    <3> QED BY <1>1, <1>3, <1>4, <1>5, <2>1, <3>1 DEF ServiceInv, Reached, ManagedContainer
  <2>2. CASE web[j].pc = "finalize"
    BY <1>1, <1>2, <1>3, <1>6, <2>2 DEF ServiceInv, IdleTask
  <2>3. CASE web[j].pc = "idle"
    BY <1>3, <2>3 DEF ServiceInv
  <2> QED BY <1>7, <2>1, <2>2, <2>3
<1>9. HandlerInv(j)'
  <2>1. CASE agent'[j] = IdleTask
    BY <2>1 DEF HandlerInv, IdleTask
  <2>2. CASE agent'[j].op = o /\ agent'[j].srv = s
    <3>1. agent'[j].pc = "act" => Seen(o, s)'
      <4> SUFFICES ASSUME agent'[j].pc = "act" PROVE Seen(o, s)'
        OBVIOUS
      <4>1. /\ UNCHANGED engine
            /\ o \in {"start", "stop", "remove"} =>
                 /\ agent[j].pc = "running"
                 /\ container[s] = "running" <=> o = "stop"
        BY <1>1, NextLook
      <4>2. o \in {"start", "stop", "remove"} => ManagedContainer(s)
        BY <4>1 DEF OwnerInv, TargetInv, Target
      <4> QED BY <4>1, <4>2 DEF Seen, ManagedContainer, engine
    <3> QED BY <1>3, <1>5, <2>2, <3>1 DEF HandlerInv, Seen
  <2> QED BY <1>3, <2>1, <2>2
<1>10. ASSUME NEW u \in Servers PROVE RecordInv(u)'
  <2>1. RecordInv(u)
    BY DEF OwnerInv
  <2>2. \A k \in Jobs : Acting(k, u)' <=> Acting(k, u)
    BY <1>1, <1>3, <1>4 DEF Acting
  <2>3. CASE container'[u] = container[u]
    BY <1>3, <2>1, <2>2, <2>3, RecordKept
  <2>4. CASE container'[u] # container[u]
    <3>1. /\ u = s
          /\ \/ o = "create" /\ container'[s] = "stopped"
             \/ o \in {"start", "stop", "remove"}
      BY <1>1, <2>4, ActOutcome
    <3>2. Acting(j, s) \/ rec[s].errorKey # "none"
      BY <1>5, <3>1 DEF Acting
    <3>3. rec[s].provisioningStatus # "RESOURCES_PREPARED"
            /\ (rec[s].provisioningStatus = "CONTAINER_PENDING" => o = "create")
      BY <1>5, <3>1 DEF StatusOf
    <3> QED BY <1>3, <2>1, <2>2, <3>1, <3>2, <3>3 DEF RecordInv
  <2> QED BY <2>3, <2>4
<1> QED BY <1>1, <1>8, <1>9, <1>10 DEF OwnerInv

\* The owner uses an operation the page offers; nobody else does anything.
LEMMA OwnerSubmit ==
  ASSUME WaitingOwner, OwnerInv, TargetInv', NEW j \in Jobs, OwnerStep(j)
  PROVE  OwnerInv'
<1>1. PICK s \in Servers, o \in Operations, f \in Forms : Submit(j, s, o, f)
  BY DEF OwnerStep
<1>2. /\ TypeOK /\ OneAtATime /\ ~StaleTabs /\ \A k \in Jobs : k = j
      /\ rec[s] \in ServerRecord
  BY DEF OwnerInv, TargetInv, TypeInv, TypeOK, WaitingOwner, OneAtATime
<1>3. /\ web[j] = IdleRequest /\ agent[j] = IdleTask /\ agent' = agent /\ rec' = rec
      /\ UNCHANGED engine /\ o \in PageOffers(rec[s])
      /\ web'[j] = [IdleRequest EXCEPT !.pc = "read", !.op = o, !.srv = s, !.form = f]
  BY <1>1, <1>2 DEF Submit, TypeOK
<1>4. /\ web'[j].pc = "read" /\ web'[j].op = o /\ web'[j].srv = s /\ ~web'[j].chain
  BY <1>3 DEF IdleRequest
<1>5. ~rec[s].archived /\ rec[s].provisioningStatus = StatusOf(o)
  BY <1>2, <1>3 DEF PageOffers, StatusOf, ServerRecord, Statuses
<1>6. ServiceInv(j)' /\ HandlerInv(j)'
  BY <1>3, <1>4, <1>5 DEF ServiceInv, HandlerInv, IdleTask
<1>7. ASSUME NEW u \in Servers PROVE RecordInv(u)'
  <2>1. \A k \in Jobs : ~Acting(k, u)
    BY <1>2, <1>3 DEF Acting, IdleRequest
  <2> QED BY <1>3, <2>1, RecordKept DEF OwnerInv, engine
<1> QED BY <1>2, <1>6, <1>7 DEF OwnerInv

\* The agent dies: its service, if it still waits, will find the connection lost.
LEMMA OwnerAgentCrash ==
  ASSUME WaitingOwner, OwnerInv, TargetInv', NEW j \in Jobs, AgentCrash(j)
  PROVE  OwnerInv'
<1>1. /\ TypeOK /\ ServiceInv(j) /\ \A k \in Jobs : k = j
  BY DEF OwnerInv, TargetInv, TypeInv, WaitingOwner, OneAtATime
<1>2. web' = web /\ rec' = rec /\ UNCHANGED engine /\ agent'[j] = IdleTask
  BY <1>1 DEF AgentCrash, TypeOK
<1>3. ServiceInv(j)' /\ HandlerInv(j)'
  BY <1>1, <1>2 DEF ServiceInv, HandlerInv, IdleTask, Reached, ManagedContainer, engine
<1>4. ASSUME NEW u \in Servers PROVE RecordInv(u)'
  BY <1>2, RecordKept DEF OwnerInv, engine, Acting
<1> QED BY <1>1, <1>3, <1>4 DEF OwnerInv

\* A name somebody else takes was free.
LEMMA OwnerForeign ==
  ASSUME OwnerInv, TargetInv', NEW s \in Servers, ForeignContainer(s)
  PROVE  OwnerInv'
<1>1. TypeOK
  BY DEF OwnerInv, TargetInv, TypeInv
<1>2. /\ web' = web /\ rec' = rec /\ agent' = agent
      /\ container[s] = "none" /\ container'[s] = "foreign"
      /\ \A u \in Servers \ {s} : container'[u] = container[u]
  BY <1>1 DEF ForeignContainer, TypeOK
<1>3. ASSUME NEW u \in Servers PROVE RecordInv(u)'
  BY <1>2 DEF OwnerInv, RecordInv, DbMatchesDocker, ManagedContainer, Acting
<1>4. ASSUME NEW j \in Jobs PROVE ServiceInv(j)' /\ HandlerInv(j)'
  <2>1. ServiceInv(j) /\ HandlerInv(j)
    BY DEF OwnerInv
  <2>2. /\ web[j].pc # "idle" => web[j].srv \in Servers
        /\ agent[j].pc # "idle" => agent[j].srv \in Servers
    BY <1>1, BusyRequest, BusyTask DEF Request, Task
  <2> QED BY <1>2, <2>1, <2>2 DEF ServiceInv, HandlerInv, Reached, Seen, ManagedContainer
<1> QED BY <1>3, <1>4 DEF OwnerInv

LEMMA OwnerNext ==
  ASSUME WaitingOwner
  PROVE  OwnerInv /\ [Next]_vars => OwnerInv'
<1> SUFFICES ASSUME OwnerInv, [Next]_vars PROVE OwnerInv'
  OBVIOUS
<1>1. OneAtATime /\ "webCrash" \notin Faults /\ TypeInv
  BY DEF WaitingOwner, OwnerInv, TargetInv
<1>2. TargetInv'
  BY <1>1, TargetNext DEF OwnerInv
<1>3. ASSUME NEW j \in Jobs, WebStep(j)
      PROVE  OwnerInv'
  BY <1>1, <1>2, <1>3, OwnerPlain, OwnerCall, OwnerPending, OwnerFinish, OwnerReply,
     OwnerNoReply
  DEF WebStep
<1>4. ASSUME NEW j \in Jobs, Crash(j)
      PROVE  OwnerInv'
  BY <1>1, <1>2, <1>4, OwnerAgentCrash, OwnerNoReply DEF Crash, WebCrash, Inject
<1>5. CASE UNCHANGED vars
  <2>1. \A s \in Servers : RecordInv(s)'
    BY <1>5 DEF vars, OwnerInv, RecordInv, DbMatchesDocker, ManagedContainer, Acting
  <2>2. \A j \in Jobs : ServiceInv(j)' /\ HandlerInv(j)'
    BY <1>5
    DEF vars, OwnerInv, ServiceInv, HandlerInv, Reached, Seen, ManagedContainer
  <2> QED BY <1>2, <2>1, <2>2 DEF OwnerInv
<1> QED
  BY <1>2, <1>3, <1>4, <1>5, OwnerHandler, OwnerSubmit, OwnerForeign DEF Next

\* A difference between record and docker is never silent: while one request is
\* under way at a time, from fresh pages, and the web process lives and listings
\* work, a server at rest whose record has no error key is what its record says,
\* whatever commands, acknowledgements, connections and agents fail.
THEOREM DivergenceSafety ==
  ASSUME WaitingOwner
  PROVE  Spec => []NoSilentDivergence
<1>1. OwnerInv => NoSilentDivergence
  <2> SUFFICES ASSUME OwnerInv, NEW s \in Servers, Settled(s), rec[s].errorKey = "none"
               PROVE  DbMatchesDocker(s)
    BY DEF NoSilentDivergence
  <2> QED BY DEF OwnerInv, RecordInv, Acting, Settled
<1> QED BY <1>1, OwnerInit, OwnerNext, PTL DEF Spec


-----------------------------------------------------------------------------
(* The waiting owner sees the documented lifecycle.                        *)

Box(s) == IF ManagedContainer(s) THEN container[s] ELSE "none"

View == << [s \in Servers |-> rec[s].provisioningStatus],
           [s \in Servers |-> Box(s)],
           {s \in Servers : rec[s].archived},
           consented >>

SameRecord(s) == /\ rec'[s].provisioningStatus = rec[s].provisioningStatus
                 /\ rec'[s].archived = rec[s].archived

\* A step of the implementation is a stutter of the contract,
LEMMA NothingSeen ==
  ASSUME \A s \in Servers : SameRecord(s) /\ Box(s)' = Box(s), consented' = consented
  PROVE  UNCHANGED View
BY DEF View, SameRecord

\* or docker changes one box,
LEMMA DockerSeen ==
  ASSUME NEW s \in Servers, NEW allowed, NEW from, NEW to,
         ~rec[s].archived, rec[s].provisioningStatus \in allowed,
         Box(s) = from, Box(s)' = to, \A u \in Servers \ {s} : Box(u)' = Box(u),
         rec' = rec, consented' = consented
  PROVE  Contract!Docker(s, allowed, from, to)
BY DEF Contract!Docker, Contract!In, Box

\* or the status of one record moves,
LEMMA StatusSeen ==
  ASSUME NEW s \in Servers, NEW allowed, NEW boxes, NEW to,
         ~rec[s].archived, rec[s].provisioningStatus \in allowed, Box(s) \in boxes,
         rec'[s].provisioningStatus = to, ~rec'[s].archived,
         \A u \in Servers \ {s} : rec'[u] = rec[u],
         container' = container, consented' = consented
  PROVE  Contract!Status(s, allowed, boxes, to)
BY DEF Contract!Status, Contract!In, Box, ManagedContainer

\* or one license is accepted,
LEMMA LicenseSeen ==
  ASSUME NEW s \in Servers, ~rec[s].archived,
         rec[s].provisioningStatus \in {"CONTAINER_CREATED", "RUNNING"},
         consented' = consented \cup {s}, rec' = rec, container' = container
  PROVE  Contract!AcceptLicense(s)
BY DEF Contract!AcceptLicense, Contract!In, ManagedContainer

\* or one record is archived.
LEMMA ArchiveSeen ==
  ASSUME NEW s \in Servers, ~rec[s].archived,
         rec[s].provisioningStatus = "RESOURCES_PREPARED", Box(s) = "none",
         rec'[s].archived, rec'[s].provisioningStatus = rec[s].provisioningStatus,
         \A u \in Servers \ {s} : rec'[u] = rec[u],
         container' = container, consented' = consented
  PROVE  Contract!Archive(s)
BY DEF Contract!Archive, Contract!In, Box, ManagedContainer


LEMMA ContractReply ==
  ASSUME WaitingOwner, OwnerInv, NEW j \in Jobs, SaveReply(j)
  PROVE  [Contract!Next]_View
<1> DEFINE w == web[j]
           o == w.op
           r == ReplyUpdate(w.op, w.reply, rec[w.srv])
<1> PICK s \in Servers : s = w.srv
  BY BusyService DEF SaveReply, WaitingOwner
<1>1. /\ TypeOK /\ Stages(j) /\ ServiceInv(j) /\ w \in Request
      /\ rec[s] \in ServerRecord
  BY BusyService DEF SaveReply, WaitingOwner
<1>2. /\ w.pc = "wait" /\ w.reply \in Replies /\ o \in AgentOps
      /\ rec[s].provisioningStatus = StatusOf(o) /\ ~rec[s].archived
      /\ w.reply \in SuccessReplies => Reached(o, s)
  BY <1>1 DEF SaveReply, Stages, ServiceInv, Request
<1>3. container' = container /\ consented' = consented /\ rec' = [rec EXCEPT ![s] = r]
  BY DEF SaveReply, Write, RecordOf, engine, history
<1>4. /\ r \in ServerRecord /\ r.archived = rec[s].archived
      /\ \/ r.provisioningStatus = rec[s].provisioningStatus
         \/ /\ w.reply \in SuccessReplies /\ o \in {"create", "start", "stop", "remove"}
            /\ r.provisioningStatus =
                 CASE o \in {"create", "stop"} -> "CONTAINER_CREATED"
                   [] o = "start" -> "RUNNING"
                   [] o = "remove" -> "RESOURCES_PREPARED"
  BY <1>1, <1>2, ReplyWrites DEF AgentOps
<1> HIDE DEF r
<1>5. rec'[s] = r /\ \A u \in Servers \ {s} : rec'[u] = rec[u]
  BY <1>1, <1>3, <1>4, RecUpdate
<1>6. CASE r.provisioningStatus = rec[s].provisioningStatus
  BY <1>3, <1>4, <1>5, <1>6, NothingSeen DEF SameRecord, Box, ManagedContainer
<1>7. CASE w.reply \in SuccessReplies /\ o = "create"
             /\ r.provisioningStatus = "CONTAINER_CREATED"
  <2>1. Box(s) \in {"stopped"} /\ rec[s].provisioningStatus \in {"CONTAINER_PENDING", "CONTAINER_CREATED"}
    BY <1>2, <1>7 DEF Box, Reached, ManagedContainer, StatusOf
  <2>2. Contract!RecordCreated(s)
    BY <1>2, <1>3, <1>4, <1>5, <1>7, <2>1, StatusSeen DEF Contract!RecordCreated
  <2> QED BY <2>2 DEF Contract!Next
<1>8. CASE w.reply \in SuccessReplies /\ o = "start" /\ r.provisioningStatus = "RUNNING"
  <2>1. Box(s) \in {"running"} /\ rec[s].provisioningStatus \in {"CONTAINER_CREATED", "RUNNING"}
    BY <1>2, <1>8 DEF Box, Reached, ManagedContainer, StatusOf
  <2>2. Contract!RecordRunning(s)
    BY <1>2, <1>3, <1>4, <1>5, <1>8, <2>1, StatusSeen DEF Contract!RecordRunning
  <2> QED BY <2>2 DEF Contract!Next
<1>9. CASE w.reply \in SuccessReplies /\ o = "stop"
             /\ r.provisioningStatus = "CONTAINER_CREATED"
  <2>1. Box(s) \in {"stopped"} /\ rec[s].provisioningStatus \in {"CONTAINER_CREATED", "RUNNING"}
    BY <1>2, <1>9 DEF Box, Reached, ManagedContainer, StatusOf
  <2>2. Contract!RecordStopped(s)
    BY <1>2, <1>3, <1>4, <1>5, <1>9, <2>1, StatusSeen DEF Contract!RecordStopped
  <2> QED BY <2>2 DEF Contract!Next
<1>10. CASE w.reply \in SuccessReplies /\ o = "remove"
              /\ r.provisioningStatus = "RESOURCES_PREPARED"
  <2>1. Box(s) \in {"none"} /\ rec[s].provisioningStatus \in {"CONTAINER_CREATED", "RESOURCES_PREPARED"}
    BY <1>2, <1>10 DEF Box, Reached, ManagedContainer, StatusOf
  <2>2. Contract!RecordRemoved(s)
    BY <1>2, <1>3, <1>4, <1>5, <1>10, <2>1, StatusSeen DEF Contract!RecordRemoved
  <2> QED BY <2>2 DEF Contract!Next
<1> QED BY <1>4, <1>6, <1>7, <1>8, <1>9, <1>10

LEMMA ContractService ==
  ASSUME WaitingOwner, OwnerInv, NEW j \in Jobs, WebStep(j) \/ Timeout(j)
  PROVE  [Contract!Next]_View
<1> DEFINE w == web[j]
<1>1. w.pc # "idle"
  BY DEF WebStep, Timeout, Refuse, RefuseRunning, CallAgent, SaveReply, ConnectionLost,
         SaveNoReply, ReadForPrepare, StoreCredential, MarkPending, ReadForArchive, Archive,
         BeginRestart, FinishRestart
<1> PICK s \in Servers : s = w.srv
  BY <1>1, BusyService DEF WaitingOwner
<1>2. /\ TypeOK /\ ServiceInv(j) /\ rec[s] \in ServerRecord /\ RecordInv(s)
      /\ ~rec[s].archived
  BY <1>1, BusyService DEF WaitingOwner, ServiceInv
<1>3. container' = container /\ consented' = consented
  BY WebShape DEF OwnerInv, TargetInv, engine, history
<1>4. CASE \A u \in Servers : SameRecord(u)
  BY <1>3, <1>4, NothingSeen DEF Box, ManagedContainer
<1>5. ASSUME NEW r \in ServerRecord, rec' = [rec EXCEPT ![s] = r],
             r.provisioningStatus = rec[s].provisioningStatus, r.archived = rec[s].archived
      PROVE  [Contract!Next]_View
  BY <1>2, <1>4, <1>5, RecUpdate DEF SameRecord
<1>6. CASE Timeout(j) \/ ConnectionLost(j)
  <2> DEFINE r == NoReplyUpdate(w.op, rec[w.srv])
  <2>1. rec' = [rec EXCEPT ![s] = r]
    BY <1>6 DEF Timeout, ConnectionLost, SaveNoReply, Write, RecordOf
  <2>2. /\ r \in ServerRecord /\ r.archived = rec[s].archived
        /\ r.provisioningStatus = rec[s].provisioningStatus
    BY <1>2 DEF NoReplyUpdate, ServerRecord, RunStates, ErrorKeys
  <2> HIDE DEF r
  <2> QED BY <1>5, <2>1, <2>2
<1>7. CASE StoreCredential(j)
  <2>1. CASE rec' = rec
    BY <1>4, <2>1 DEF SameRecord
  <2>2. CASE Write(j, [RecordOf(j) EXCEPT !.credential = TRUE])
    BY <1>2, <1>5, <2>2 DEF Write, RecordOf, ServerRecord
  <2> QED BY <1>7, <2>1, <2>2 DEF StoreCredential
<1>8. CASE FinishRestart(j)
  <2>1. PICK e \in {"none", "failed"} : rec' = [rec EXCEPT ![s] = [rec[s] EXCEPT !.errorKey = e]]
    BY <1>8 DEF FinishRestart, Write, RecordOf
  <2> QED BY <1>2, <1>5, <2>1 DEF ServerRecord, ErrorKeys
<1>9. CASE MarkPending(j)
  <2> DEFINE r == [rec[s] EXCEPT !.provisioningStatus = "CONTAINER_PENDING", !.errorKey = "none"]
  <2>1. rec' = [rec EXCEPT ![s] = r]
    BY <1>9 DEF MarkPending, Write, RecordOf
  <2>2. r \in ServerRecord /\ r.provisioningStatus = "CONTAINER_PENDING" /\ ~r.archived
    BY <1>2 DEF ServerRecord, Statuses, ErrorKeys
  <2> HIDE DEF r
  <2>3. rec'[s] = r /\ \A u \in Servers \ {s} : rec'[u] = rec[u]
    BY <1>2, <2>1, <2>2, RecUpdate
  <2>4. rec[s].provisioningStatus \in {"RESOURCES_PREPARED"} /\ Box(s) \in {"none"}
    BY <1>2, <1>9 DEF MarkPending, ServiceInv, StatusOf, RecordInv, Box
  <2>5. Contract!RecordPending(s)
    BY <1>2, <1>3, <2>2, <2>3, <2>4, StatusSeen DEF Contract!RecordPending
  <2> QED BY <2>5 DEF Contract!Next
<1>10. CASE Archive(j)
  <2>1. PICK r \in {[rec[s] EXCEPT !.archived = TRUE, !.credential = FALSE,
                                  !.credentialsRemoved = TRUE],
                    [rec[s] EXCEPT !.archived = TRUE]} : rec' = [rec EXCEPT ![s] = r]
    BY <1>10 DEF Archive, Write, RecordOf
  <2>2. r \in ServerRecord /\ r.provisioningStatus = rec[s].provisioningStatus /\ r.archived
    BY <1>2, <2>1 DEF ServerRecord
  <2>3. rec'[s] = r /\ \A u \in Servers \ {s} : rec'[u] = rec[u]
    BY <1>2, <2>1, <2>2, RecUpdate
  <2>4. rec[s].provisioningStatus = "RESOURCES_PREPARED" /\ Box(s) = "none"
    BY <1>2, <1>10 DEF Archive, ServiceInv, StatusOf, RecordInv, Box
  <2>5. Contract!Archive(s)
    BY <1>2, <1>3, <2>2, <2>3, <2>4, ArchiveSeen
  <2> QED BY <2>5 DEF Contract!Next
<1>11. CASE rec' = rec
  BY <1>4, <1>11 DEF SameRecord
<1> QED
  BY <1>6, <1>7, <1>8, <1>9, <1>10, <1>11, ContractReply
  DEF WebStep, Refuse, RefuseRunning, CallAgent, ReadForPrepare, ReadForArchive, BeginRestart

\* A handler's command changes the box as the status allows.
LEMMA ContractHandler ==
  ASSUME WaitingOwner, OwnerInv, ConsentInv, NEW j \in Jobs, AgentStep(j)
  PROVE  [Contract!Next]_View
<1> PICK o, s : o = agent[j].op /\ s = agent[j].srv
  OBVIOUS
<1>1. /\ TypeInv /\ TypeOK /\ HandlerInv(j) /\ Consented(j)
  BY DEF OwnerInv, TargetInv, TypeInv, ConsentInv
<1>2. agent[j].pc # "idle" /\ agent[j] \in Task /\ o \in AgentOps /\ s \in Servers
  BY <1>1, GoesOrReplies DEF Task
<1>3. /\ rec' = rec /\ consented' = consented
      /\ \/ UNCHANGED engine
         \/ agent[j].pc = "act" /\ CommandPossible(o, s) /\ CommandEffect(o, s)
  BY <1>1, AgentShape DEF history
<1>4. /\ rec[s].provisioningStatus = StatusOf(o) /\ ~rec[s].archived
      /\ agent[j].pc = "act" => Seen(o, s)
      /\ o = "start" => s \in consented
  BY <1>1, <1>2 DEF HandlerInv, Consented
<1>5. CASE container' = container
  BY <1>3, <1>5, NothingSeen DEF SameRecord, Box, ManagedContainer
<1>6. CASE agent[j].pc = "act" /\ CommandPossible(o, s) /\ CommandEffect(o, s)
  <2>1. /\ Seen(o, s) /\ \A u \in Servers \ {s} : Box(u)' = Box(u)
    BY <1>1, <1>2, <1>4, <1>6 DEF CommandEffect, TypeOK, Box, ManagedContainer
  <2>2. CASE o = "create"
    <3>1. Box(s) = "none" /\ Box(s)' = "stopped"
      BY <1>1, <1>2, <1>6, <2>2
      DEF CommandPossible, CommandEffect, TypeOK, Box, ManagedContainer
    <3>2. rec[s].provisioningStatus \in {"CONTAINER_PENDING", "CONTAINER_CREATED"}
      BY <1>4, <2>2 DEF StatusOf
    <3>3. Contract!ContainerCreated(s)
      BY <1>2, <1>3, <1>4, <2>1, <3>1, <3>2, DockerSeen DEF Contract!ContainerCreated
    <3> QED BY <1>2, <3>3 DEF Contract!Next
  <2>3. CASE o = "start"
    <3>1. Box(s) = "stopped" /\ Box(s)' = "running"
      BY <1>1, <1>2, <1>6, <2>1, <2>3
      DEF Seen, CommandEffect, TypeOK, Box, ManagedContainer
    <3>2. rec[s].provisioningStatus \in {"CONTAINER_CREATED", "RUNNING"}
      BY <1>4, <2>3 DEF StatusOf
    <3>3. Contract!ContainerStarted(s)
      BY <1>2, <1>3, <1>4, <2>1, <2>3, <3>1, <3>2, DockerSeen DEF Contract!ContainerStarted
    <3> QED BY <1>2, <3>3 DEF Contract!Next
  <2>4. CASE o = "stop"
    <3>1. Box(s) = "running" /\ Box(s)' = "stopped"
      BY <1>1, <1>2, <1>6, <2>1, <2>4
      DEF Seen, CommandEffect, TypeOK, Box, ManagedContainer
    <3>2. rec[s].provisioningStatus \in {"CONTAINER_CREATED", "RUNNING"}
      BY <1>4, <2>4 DEF StatusOf
    <3>3. Contract!ContainerStopped(s)
      BY <1>2, <1>3, <1>4, <2>1, <3>1, <3>2, DockerSeen DEF Contract!ContainerStopped
    <3> QED BY <1>2, <3>3 DEF Contract!Next
  <2>5. CASE o = "remove"
    <3>1. Box(s) = "stopped" /\ Box(s)' = "none"
      BY <1>1, <1>2, <1>6, <2>1, <2>5
      DEF Seen, CommandEffect, TypeOK, Box, ManagedContainer
    <3>2. rec[s].provisioningStatus \in {"CONTAINER_CREATED", "RESOURCES_PREPARED"}
      BY <1>4, <2>5 DEF StatusOf
    <3>3. Contract!ContainerRemoved(s)
      BY <1>2, <1>3, <1>4, <2>1, <3>1, <3>2, DockerSeen DEF Contract!ContainerRemoved
    <3> QED BY <1>2, <3>3 DEF Contract!Next
  <2>6. CASE o \in {"removeVolume", "health"}
    BY <1>1, <1>2, <1>5, <1>6, <2>6 DEF CommandEffect, TypeOK
  <2> QED BY <1>2, <2>2, <2>3, <2>4, <2>5, <2>6 DEF AgentOps
<1> QED BY <1>3, <1>5, <1>6 DEF engine

LEMMA ContractOwner ==
  ASSUME WaitingOwner, OwnerInv, NEW j \in Jobs, OwnerStep(j)
  PROVE  [Contract!Next]_View
<1>1. PICK s \in Servers, o \in Operations, f \in Forms : Submit(j, s, o, f)
  BY DEF OwnerStep
<1>2. /\ rec[s] \in ServerRecord /\ o \in PageOffers(rec[s])
  BY <1>1 DEF OwnerInv, TargetInv, TypeInv, TypeOK, WaitingOwner, Submit
<1>3. rec' = rec /\ container' = container
  BY <1>1 DEF Submit, engine
<1>4. ~rec[s].archived /\ rec[s].provisioningStatus = StatusOf(o)
  BY <1>2 DEF PageOffers, StatusOf, ServerRecord, Statuses
<1>5. CASE consented' = consented
  BY <1>3, <1>5, NothingSeen DEF SameRecord, Box, ManagedContainer
<1>6. CASE o \in {"start", "restart"} /\ consented' = consented \cup {s}
  <2>1. rec[s].provisioningStatus \in {"CONTAINER_CREATED", "RUNNING"}
    BY <1>4, <1>6 DEF StatusOf
  <2>2. Contract!AcceptLicense(s)
    BY <1>3, <1>4, <1>6, <2>1, LicenseSeen
  <2> QED BY <2>2 DEF Contract!Next
<1> QED BY <1>1, <1>5, <1>6 DEF Submit

LEMMA LifecycleContractInit == Init => Contract!Init
BY DEF Init, Contract!Init, PreparedRecord, ManagedContainer

LEMMA LifecycleContractStep ==
  ASSUME WaitingOwner
  PROVE  OwnerInv /\ ConsentInv /\ [Next]_vars => [Contract!Next]_View
<1> SUFFICES ASSUME OwnerInv, ConsentInv, [Next]_vars PROVE [Contract!Next]_View
  OBVIOUS
<1>1. TypeOK
  BY DEF OwnerInv, TargetInv, TypeInv
<1>2. CASE rec' = rec /\ consented' = consented /\ \A s \in Servers : Box(s)' = Box(s)
  BY <1>2, NothingSeen DEF SameRecord
<1>3. ASSUME NEW j \in Jobs, AgentCrash(j) \/ WebCrash(j)
      PROVE  [Contract!Next]_View
  BY <1>2, <1>3 DEF AgentCrash, WebCrash, engine, history, Box, ManagedContainer
<1>4. ASSUME NEW s \in Servers, ForeignContainer(s)
      PROVE  [Contract!Next]_View
  BY <1>1, <1>2, <1>4 DEF ForeignContainer, history, Box, ManagedContainer, TypeOK
<1>5. CASE UNCHANGED vars
  BY <1>2, <1>5 DEF vars, Box, ManagedContainer
<1> QED
  BY <1>3, <1>4, <1>5, ContractService, ContractHandler, ContractOwner DEF Next, Crash

\* To an owner who waits the system is the documented lifecycle: docker changes
\* only in a status that allows it, a server starts only with its license, and
\* the status moves only along the documented edges, to what docker already is.
THEOREM LifecycleImplementsContract ==
  ASSUME WaitingOwner
  PROVE  Spec => ImplementsContract
<1>1. Spec => Contract!Init /\ [][Contract!Next]_View
  BY LifecycleContractInit, LifecycleContractStep, OwnerInit, OwnerNext, ConsentInit,
     ConsentNext, PTL DEF Spec
<1>2. ImplementsContract <=> (Contract!Init /\ [][Contract!Next]_View)
  BY DEF ImplementsContract, Contract!Spec, View, Contract!vars, Box
<1> QED BY <1>1, <1>2

\* What the contract makes of an archived server: it is in the first status and
\* without a container of ours.
Archived == {s \in Servers : rec[s].archived}

AtRest(s) == rec[s].provisioningStatus = "RESOURCES_PREPARED" /\ Box(s) = "none"

LEMMA ContractRests ==
  ASSUME \A s \in Archived : AtRest(s), [Contract!Next]_View
  PROVE  /\ \A s \in Archived' : AtRest(s)'
         /\ Archived \subseteq Archived'
<1> DEFINE Good == /\ \A s \in Archived' : AtRest(s)'
                   /\ Archived \subseteq Archived'
           status == [s \in Servers |-> rec[s].provisioningStatus]
           box == [s \in Servers |-> Box(s)]
<1>1. ASSUME NEW s \in Servers \ Archived, Archived' = Archived,
             \A u \in Servers \ {s} : status'[u] = status[u] /\ box'[u] = box[u]
      PROVE  Good
  BY <1>1 DEF Archived, AtRest
<1>2. CASE UNCHANGED View
  <2>1. /\ Archived' = Archived
        /\ \A u \in Servers : status'[u] = status[u] /\ box'[u] = box[u]
    BY <1>2 DEF View, Archived
  <2> QED BY <2>1 DEF Archived, AtRest
<1>3. ASSUME NEW s \in Servers, NEW allowed, NEW from, NEW to, Contract!Docker(s, allowed, from, to)
      PROVE  Good
  <2>1. status' = status /\ Archived' = Archived /\ s \notin Archived
    BY <1>3 DEF Contract!Docker, Contract!In, Archived
  <2>2. box' = [box EXCEPT ![s] = to]
    BY <1>3 DEF Contract!Docker, Box
  <2> QED BY <1>1, <2>1, <2>2
<1>4. ASSUME NEW s \in Servers, NEW allowed, NEW boxes, NEW to, Contract!Status(s, allowed, boxes, to)
      PROVE  Good
  <2>1. box' = box /\ Archived' = Archived /\ s \notin Archived
    BY <1>4 DEF Contract!Status, Contract!In, Archived, Box
  <2>2. status' = [status EXCEPT ![s] = to]
    BY <1>4 DEF Contract!Status
  <2> QED BY <1>1, <2>1, <2>2
<1>5. ASSUME NEW s \in Servers, Contract!AcceptLicense(s)
      PROVE  Good
  BY <1>1, <1>5 DEF Contract!AcceptLicense, Contract!In, Archived, Box
<1>6. ASSUME NEW s \in Servers, Contract!Archive(s)
      PROVE  Good
  <2>1. /\ status' = status /\ box' = box /\ Archived' = Archived \cup {s}
        /\ status[s] = "RESOURCES_PREPARED" /\ box[s] = "none"
    BY <1>6 DEF Contract!Archive, Contract!In, Archived, Box
  <2>2. \A u \in Servers : status'[u] = status[u] /\ box'[u] = box[u]
    BY <2>1
  <2> QED BY <2>1, <2>2 DEF Archived, AtRest
<1>7. ASSUME Contract!Next
      PROVE  Good
  <2> HIDE DEF Good
  <2> QED
    BY <1>3, <1>4, <1>5, <1>6, <1>7
       DEF Contract!Next, Contract!ContainerCreated, Contract!ContainerStarted,
           Contract!ContainerStopped, Contract!ContainerRemoved, Contract!RecordPending,
           Contract!RecordCreated, Contract!RecordRunning, Contract!RecordStopped,
           Contract!RecordRemoved
<1> QED BY <1>2, <1>7

\* To an owner who waits, archiving is the end: an archived server stays archived,
\* in its status and without a container of ours, although the services do not look
\* at archivedAt (server-archive.ts:42).
THEOREM ArchivedIsAtRest ==
  ASSUME WaitingOwner
  PROVE  Spec => /\ [](\A s \in Archived : AtRest(s))
                 /\ [][Archived \subseteq Archived']_vars
<1> DEFINE Rest == \A s \in Archived : AtRest(s)
           Kept == Archived \subseteq Archived'
<1>1. Spec => Contract!Init /\ [][Contract!Next]_View
  BY LifecycleContractInit, LifecycleContractStep, OwnerInit, OwnerNext, ConsentInit,
     ConsentNext, PTL DEF Spec
<1>2. Contract!Init => Rest
  BY DEF Contract!Init, Archived
<1>3. Rest /\ [Contract!Next]_View => Rest' /\ Kept
  BY ContractRests
<1>4. Kept => [Kept]_vars
  OBVIOUS
<1> HIDE DEF Rest, Kept
<1>5. Spec => []Rest /\ [][Kept]_vars
  BY <1>1, <1>2, <1>3, <1>4, PTL
<1> QED BY <1>5 DEF Rest, Kept

=============================================================================
