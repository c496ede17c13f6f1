------------------------- MODULE BackupStore_proofs -------------------------
(***************************************************************************)
(* Theorems about BackupStore, for any number of jobs, backups and faults. *)
(***************************************************************************)
EXTENDS BackupStore, TLAPS

-----------------------------------------------------------------------------
(* Type correctness.                                                       *)

LEMMA TypeInit == Init => TypeOK
  <1> USE BackupAssumption
  <1>1. NewJob("verify", 0, "done") \in Job
    BY DEF NewJob, Job, Operations, Pcs, Files, Replies
  <1> SUFFICES ASSUME Init PROVE TypeOK
    OBVIOUS
  <1>2. 0 \in Files /\ 1 \in Files
    BY DEF Files
  <1>3. PICK old \in {"noSum", "data"} :
          /\ metadata = [f \in Files |-> IF f = 0 THEN old ELSE "absent"]
          /\ sealed = [f \in Files |-> IF f = 0 /\ old = "data" THEN old ELSE "none"]
    BY DEF Init
  <1>4. /\ metadata \in [Files -> Metadata]
        /\ sealed \in [Files -> Sums \cup {"none"}]
    BY <1>3 DEF Metadata, Sums, Captures
  <1>5. /\ helper \in [Files -> Captures \cup {"none"}]
        /\ archive \in [Files -> Archives]
    BY DEF Init, Captures, Archives
  <1>6. faults \in 0 .. MaxFaults /\ naming \in [Files -> Namings]
    BY DEF Init, Namings
  <1> QED
    BY <1>1, <1>2, <1>4, <1>5, <1>6 DEF Init, TypeOK

LEMMA NewJobType ==
  ASSUME NEW o \in Operations, NEW f \in Files, NEW p \in Pcs
  PROVE  NewJob(o, f, p) \in Job
  BY DEF NewJob, Job, Replies

\* Ending a handler keeps the type.
LEMMA EndType ==
  ASSUME TypeOK, NEW j \in Jobs, NEW r \in Replies, End(j, r)
  PROVE  job' \in [Jobs -> Job]
  <1>1. [NewJob(job[j].op, job[j].file, "done") EXCEPT !.reply = r] \in Job
    BY DEF TypeOK, NewJob, Job, Pcs
  <1> QED
    BY <1>1 DEF End, TypeOK

LEMMA GotoType ==
  ASSUME TypeOK, NEW j \in Jobs, NEW p \in Pcs, Goto(j, p)
  PROVE  job' \in [Jobs -> Job]
  BY DEF Goto, TypeOK, Job

\* So does noting what a first stat returned.
LEMMA NoteSizeType ==
  ASSUME TypeOK, NEW j \in Jobs, NEW v \in Sums, NEW p \in Pcs,
         job' = [job EXCEPT ![j].size = v, ![j].pc = p]
  PROVE  job' \in [Jobs -> Job]
  <1>1. [job[j] EXCEPT !.size = v, !.pc = p] \in Job
    BY DEF TypeOK, Job
  <1>2. job' = [job EXCEPT ![j] = [job[j] EXCEPT !.size = v, !.pc = p]]
    BY DEF TypeOK
  <1> QED
    BY <1>1, <1>2 DEF TypeOK

\* And what a hash returned.
LEMMA NoteSumType ==
  ASSUME TypeOK, NEW j \in Jobs, NEW v \in Sums, NEW p \in Pcs,
         job' = [job EXCEPT ![j].sum = v, ![j].pc = p]
  PROVE  job' \in [Jobs -> Job]
  <1>1. [job[j] EXCEPT !.sum = v, !.pc = p] \in Job
    BY DEF TypeOK, Job
  <1>2. job' = [job EXCEPT ![j] = [job[j] EXCEPT !.sum = v, !.pc = p]]
    BY DEF TypeOK
  <1> QED
    BY <1>1, <1>2 DEF TypeOK

LEMMA InjectType ==
  ASSUME TypeOK, NEW k, Inject(k)
  PROVE  faults' \in 0 .. MaxFaults
  BY BackupAssumption DEF Inject, TypeOK

LEMMA TypeStep == TypeOK /\ [Next]_vars => TypeOK'
  <1> SUFFICES ASSUME TypeOK, [Next]_vars PROVE TypeOK'
    OBVIOUS
  <1> USE BackupAssumption
  <1>1. ASSUME NEW j \in Jobs, NEW o \in Operations, NEW f \in Files, Submit(j, o, f)
        PROVE  TypeOK'
    <2>1. FirstStep(o) \in Pcs
      BY DEF FirstStep, Pcs, Operations
    <2>2. job' \in [Jobs -> Job]
      BY <1>1, <2>1, NewJobType DEF Submit, TypeOK
    <2> QED
      BY <1>1, <2>2 DEF Submit, TypeOK, server, directory, history
  <1>2. ASSUME NEW j \in Jobs, backupTs3Volume(j) PROVE TypeOK'
    <2>1. CASE Probe(j)
      <3>1. job' \in [Jobs -> Job]
        BY <2>1, EndType, GotoType DEF Probe, Pcs, Replies
      <3>2. faults' \in 0 .. MaxFaults
        BY <2>1, InjectType DEF Probe, TypeOK
      <3> QED
        BY <2>1, <3>1, <3>2 DEF Probe, TypeOK, server, directory, history
    <2>2. CASE FindContainer(j)
      <3>1. job' \in [Jobs -> Job]
        BY <2>2, EndType, GotoType DEF FindContainer, Pcs, Replies
      <3>2. faults' \in 0 .. MaxFaults
        BY <2>2, InjectType DEF FindContainer, Sees, TypeOK
      <3> QED
        BY <2>2, <3>1, <3>2 DEF FindContainer, TypeOK, server, directory, history
    <2>3. CASE FindManagedVolume(j)
      <3>1. job' \in [Jobs -> Job]
        BY <2>3, GotoType DEF FindManagedVolume, Pcs, Replies
      <3>2. faults' \in 0 .. MaxFaults
        BY <2>3, InjectType DEF FindManagedVolume, Sees, TypeOK
      <3> QED
        BY <2>3, <3>1, <3>2 DEF FindManagedVolume, TypeOK, server, directory, history
    <2>4. CASE FindAnyVolume(j)
      <3>1. job' \in [Jobs -> Job]
        BY <2>4, EndType DEF FindAnyVolume, Pcs, Replies
      <3>2. faults' \in 0 .. MaxFaults
        BY <2>4, InjectType DEF FindAnyVolume, Sees, TypeOK
      <3> QED
        BY <2>4, <3>1, <3>2 DEF FindAnyVolume, TypeOK, server, directory, history
    <2>5. CASE FindImage(j)
      <3>1. clock \in Files /\ safeTimestamp = clock
        BY DEF TypeOK, safeTimestamp
      <3>2. CASE End(j, "imageUnavailable") /\ UNCHANGED naming
        <4>1. job' \in [Jobs -> Job]
          BY <3>2, EndType DEF Replies
        <4>2. faults' \in 0 .. MaxFaults
          BY <2>5, InjectType DEF FindImage, Sees, TypeOK
        <4> QED
          BY <2>5, <3>2, <4>1, <4>2 DEF FindImage, TypeOK, server, directory
      <3>3. CASE /\ job' = [job EXCEPT ![j].file = safeTimestamp, ![j].pc = "run"]
                 /\ naming' = [naming EXCEPT ![safeTimestamp] =
                                 IF @ = "free" THEN "given" ELSE "shared"]
        <4>1. [job[j] EXCEPT !.file = clock, !.pc = "run"] \in Job
          BY <3>1 DEF TypeOK, Job, Pcs
        <4>2. job' = [job EXCEPT ![j] = [job[j] EXCEPT !.file = clock, !.pc = "run"]]
          BY <3>1, <3>3 DEF TypeOK
        <4>3. naming' \in [Files -> Namings]
          BY <3>1, <3>3 DEF TypeOK, Namings
        <4>4. faults' \in 0 .. MaxFaults
          BY <2>5, InjectType DEF FindImage, Sees, TypeOK
        <4> QED
          BY <2>5, <4>1, <4>2, <4>3, <4>4 DEF FindImage, TypeOK, server, directory
      <3> QED
        BY <2>5, <3>2, <3>3 DEF FindImage
    <2>6. CASE StartHelper(j)
      <3>1. job' \in [Jobs -> Job]
        BY <2>6, EndType, GotoType DEF StartHelper, AfterStart, Pcs, Replies
      <3>2. faults' \in 0 .. MaxFaults
        BY <2>6, InjectType DEF StartHelper, TypeOK
      <3>3. Captured \in Captures /\ FileOf(j) \in Files
        BY DEF Captured, Captures, TypeOK, Job, FileOf
      <3>4. /\ helper' \in [Files -> Captures \cup {"none"}]
            /\ archive' \in [Files -> Archives]
            /\ volume' \in {"none", "managed", "unlabelled"}
            /\ naming' \in [Files -> Namings]
        BY <2>6, <3>3 DEF StartHelper, TypeOK, Archives, Namings
      <3> QED
        BY <2>6, <3>1, <3>2, <3>4 DEF StartHelper, TypeOK
    <2>7. CASE RunTimeout(j)
      <3>1. job' \in [Jobs -> Job]
        BY <2>7, EndType DEF RunTimeout, Pcs, Replies
      <3>2. faults' \in 0 .. MaxFaults
        BY <2>7, InjectType DEF RunTimeout
      <3> QED
        BY <2>7, <3>1, <3>2 DEF RunTimeout, TypeOK, server, directory, history
    <2> QED
      BY <1>2, <2>1, <2>2, <2>3, <2>4, <2>5, <2>6, <2>7 DEF backupTs3Volume
  <1>3. ASSUME NEW j \in Jobs, writeMetadata(j) PROVE TypeOK'
    <2>1. CASE HashForMetadata(j)
      <3>1. job' \in [Jobs -> Job]
        BY <2>1, EndType DEF HashForMetadata, TypeOK, Job, Pcs, Replies
      <3>2. faults' \in 0 .. MaxFaults
        BY <2>1, InjectType DEF HashForMetadata, Reads, TypeOK
      <3> QED
        BY <2>1, <3>1, <3>2 DEF HashForMetadata, TypeOK, server, directory, history
    <2>2. CASE Truncate(j)
      <3>1. job' \in [Jobs -> Job]
        BY <2>2, EndType, GotoType DEF Truncate, Pcs, Replies
      <3>2. faults' \in 0 .. MaxFaults
        BY <2>2, InjectType DEF Truncate, TypeOK
      <3>3. metadata' \in [Files -> Metadata]
        BY <2>2 DEF Truncate, TypeOK, Metadata
      <3> QED
        BY <2>2, <3>1, <3>2, <3>3 DEF Truncate, TypeOK, server, history
    <2>3. CASE WriteMetadata(j)
      <3>1. job' \in [Jobs -> Job]
        BY <2>3, EndType DEF WriteMetadata, Pcs, Replies
      <3>2. faults' \in 0 .. MaxFaults
        BY <2>3, InjectType DEF WriteMetadata, TypeOK
      <3>3. job[j].sum \in Sums \cup {"none"}
        BY DEF TypeOK, Job
      <3>4. /\ metadata' \in [Files -> Metadata]
            /\ sealed' \in [Files -> Sums \cup {"none"}]
        BY <2>3, <3>3 DEF WriteMetadata, MetadataOf, TypeOK, Metadata, FileOf
      <3> QED
        BY <2>3, <3>1, <3>2, <3>4 DEF WriteMetadata, TypeOK, server
    <2> QED
      BY <1>3, <2>1, <2>2, <2>3 DEF writeMetadata
  <1>4. ASSUME NEW j \in Jobs, verifyOrBackfill(j) PROVE TypeOK'
    <2>1. job' \in [Jobs -> Job]
      <3>1. CASE Exists(j)
        BY <3>1, EndType, GotoType DEF Exists, Pcs, Replies
      <3>2. CASE ReadForVerify(j)
        BY <3>2, EndType DEF ReadForVerify, TypeOK, Job, Pcs, Replies
      <3>3. CASE ReadForBackfill(j)
        BY <3>3, EndType, GotoType DEF ReadForBackfill, Pcs, Replies
      <3>4. CASE HashForVerify(j)
        BY <3>4, EndType DEF HashForVerify, Compare, TypeOK, Job, Pcs, Replies
      <3> QED
        BY <1>4, <3>1, <3>2, <3>3, <3>4 DEF verifyOrBackfill
    <2>2. faults' \in 0 .. MaxFaults
      BY <1>4, InjectType DEF verifyOrBackfill, Exists, ReadForVerify, ReadForBackfill,
         HashForVerify, Sees, ReadsMetadata, Reads, TypeOK
    <2>3. UNCHANGED <<server, helper, directory, clock, history>>
      BY <1>4 DEF verifyOrBackfill, Exists, ReadForVerify, ReadForBackfill, HashForVerify
    <2> QED
      BY <2>1, <2>2, <2>3 DEF TypeOK, server, directory, history
  <1>5. ASSUME NEW j \in Jobs, download(j) PROVE TypeOK'
    <2>1. job' \in [Jobs -> Job]
      <3>1. CASE StatForDownload(j)
        BY <3>1, EndType, NoteSizeType DEF StatForDownload, Pcs, Replies
      <3>2. CASE OpenStream(j)
        <4>1. PICK value \in Sums \cup {"none"} :
                IF value = "none" THEN End(j, "error")
                ELSE job' = [job EXCEPT ![j].sent = value, ![j].pc = "done",
                                        ![j].reply = "streamed"]
          BY <3>2 DEF OpenStream
        <4>2. CASE value = "none"
          BY <4>1, <4>2, EndType DEF Replies
        <4>3. CASE value \in Sums
          BY <4>1, <4>3 DEF TypeOK, Job, Pcs, Replies, Sums, Captures
        <4> QED
          BY <4>2, <4>3
      <3> QED
        BY <1>5, <3>1, <3>2 DEF download
    <2>2. faults' \in 0 .. MaxFaults
      BY <1>5, InjectType DEF download, StatForDownload, OpenStream, Reads, TypeOK
    <2>3. UNCHANGED <<server, helper, directory, clock, history>>
      BY <1>5 DEF download, StatForDownload, OpenStream
    <2> QED
      BY <2>1, <2>2, <2>3 DEF TypeOK, server, directory, history
  <1>6. ASSUME NEW j \in Jobs, inspectBackup(j) PROVE TypeOK'
    <2>1. job' \in [Jobs -> Job]
      <3>1. CASE Lstat(j)
        BY <3>1, EndType, NoteSizeType DEF Lstat, Pcs, Replies
      <3>2. CASE HashForInspect(j)
        BY <3>2, EndType, NoteSumType DEF HashForInspect, Pcs, Replies
      <3>3. CASE Restat(j)
        BY <3>3, EndType, GotoType DEF Restat, Pcs, Replies
      <3>4. CASE ReadForInspect(j)
        <4>1. PICK r \in {"fingerprint", "fingerprintMismatch"} :
                job' = [job EXCEPT ![j].pc = "done", ![j].reply = r]
          BY <3>4 DEF ReadForInspect
        <4>2. [job[j] EXCEPT !.pc = "done", !.reply = r] \in Job
          <5>1. job[j] \in Job /\ r \in Replies /\ "done" \in Pcs
            BY DEF TypeOK, Pcs, Replies
          <5> QED
            BY <5>1 DEF Job
        <4>3. job' = [job EXCEPT ![j] = [job[j] EXCEPT !.pc = "done", !.reply = r]]
          BY <4>1 DEF TypeOK
        <4> QED
          BY <4>2, <4>3 DEF TypeOK
      <3> QED
        BY <1>6, <3>1, <3>2, <3>3, <3>4 DEF inspectBackup
    <2>2. faults' \in 0 .. MaxFaults
      BY <1>6, InjectType DEF inspectBackup, Lstat, HashForInspect, Restat, ReadForInspect,
         ReadsMetadata, Reads, TypeOK
    <2>3. UNCHANGED <<server, helper, directory, clock, history>>
      BY <1>6 DEF inspectBackup, Lstat, HashForInspect, Restat, ReadForInspect
    <2> QED
      BY <2>1, <2>2, <2>3 DEF TypeOK, server, directory, history
  <1>7. ASSUME NEW j \in Jobs, deleteTs3BackupFile(j) PROVE TypeOK'
    <2>1. job' \in [Jobs -> Job]
      BY <1>7, EndType, GotoType
         DEF deleteTs3BackupFile, Unlink, MetadataExists, UnlinkMetadata, Pcs, Replies
    <2>2. faults' \in 0 .. MaxFaults
      BY <1>7, InjectType
         DEF deleteTs3BackupFile, Unlink, MetadataExists, UnlinkMetadata, Sees, TypeOK
    <2>3. FileOf(j) \in Files
      BY DEF TypeOK, Job, FileOf
    <2>4. /\ archive' \in [Files -> Archives]
          /\ metadata' \in [Files -> Metadata]
          /\ deleted' \subseteq Files
      BY <1>7, <2>3 DEF deleteTs3BackupFile, Unlink, MetadataExists, UnlinkMetadata,
         directory, history, TypeOK, Archives, Metadata
    <2>5. UNCHANGED <<server, helper, clock, naming, damaged, sealed>>
      BY <1>7 DEF deleteTs3BackupFile, Unlink, MetadataExists, UnlinkMetadata, history
    <2> QED
      BY <2>1, <2>2, <2>4, <2>5 DEF TypeOK, server
  <1>8. ASSUME NEW f \in Files, HelperDone(f) PROVE TypeOK'
    <2>1. job' \in [Jobs -> Job]
      BY <1>8 DEF HelperDone, TypeOK, Job, Pcs
    <2>2. archive' \in [Files -> Archives] /\ helper' \in [Files -> Captures \cup {"none"}]
      BY <1>8 DEF HelperDone, TypeOK, Archives
    <2> QED
      BY <1>8, <2>1, <2>2 DEF HelperDone, TypeOK, server, history
  <1>9. ASSUME NEW f \in Files, HelperFails(f) PROVE TypeOK'
    <2>1. [NewJob("backup", f, "done") EXCEPT !.reply = "error"] \in Job
      BY <1>9 DEF NewJob, Job, Operations, Pcs, Replies
    <2>2. job' \in [Jobs -> Job]
      BY <1>9, <2>1 DEF HelperFails, TypeOK
    <2>3. faults' \in 0 .. MaxFaults
      BY <1>9, InjectType DEF HelperFails
    <2> QED
      BY <1>9, <2>2, <2>3 DEF HelperFails, TypeOK, server, directory, history
  <1>10. ASSUME NEW f \in Files, Damage(f) PROVE TypeOK'
    BY <1>10, InjectType DEF Damage, TypeOK, server, directory
  <1>11. CASE ServerStep
    BY <1>11 DEF ServerStep, TakeIntoUse, CreateContainer, StartContainer, StopContainer,
       RemoveContainer, RemoveVolume, TypeOK, directory, history, Captures
  <1>12. CASE Tick
    BY <1>12 DEF Tick, TypeOK, server, directory, history, Files
  <1>13. CASE AgentCrash
    <2>1. Dead \in Job
      BY DEF Dead, NewJob, Job, Operations, Pcs, Files, Replies
    <2>2. job' \in [Jobs -> Job]
      BY <1>13, <2>1 DEF AgentCrash, TypeOK
    <2> QED
      BY <1>13, <2>2, InjectType DEF AgentCrash, TypeOK, server, directory, history
  <1>14. CASE UNCHANGED vars
    BY <1>14 DEF vars, TypeOK
  <1> QED
    BY <1>1, <1>2, <1>3, <1>4, <1>5, <1>6, <1>7, <1>8, <1>9, <1>10, <1>11, <1>12, <1>13, <1>14
       DEF Next, JobStep

\* Every variable keeps its type: every reply, file and checksum a handler works
\* with is one the directory can hold.
THEOREM TypeCorrect == Spec => []TypeOK
  BY TypeInit, TypeStep, PTL DEF Spec

-----------------------------------------------------------------------------
(* Names: which are new, and which handler may have which.                 *)

\* No helper was ever started under this name.
Fresh(f) == naming[f] \in {"free", "given"}

FileName(f) ==
  /\ Fresh(f) =>
       /\ archive[f] = "none" /\ metadata[f] = "absent" /\ helper[f] = "none"
       /\ f \notin deleted /\ f \notin damaged
  /\ helper[f] # "none" => archive[f] = "part" \/ (archive[f] = "none" /\ f \in deleted)
  /\ naming[f] = "used" /\ f >= clock => helper[f] # "none"
  /\ f > clock => naming[f] = "free"

JobName(j) ==
  /\ naming[FileOf(j)] # "free"
  /\ naming[FileOf(j)] = "given" =>
       job[j].pc = "run" \/ (job[j].pc = "done" /\ job[j].reply = "error")
  /\ job[j].pc # "done" => job[j].reply = "none"
  /\ job[j].pc = "wait" => job[j].op = "backup"
  /\ job[j].pc = "run" => naming[FileOf(j)] \in {"given", "shared"}

\* Two backups about to run have different names, unless the name is shared.
RunsApart ==
  \A j, k \in Jobs : job[j].pc = "run" /\ job[k].pc = "run" /\ FileOf(j) = FileOf(k)
    => j = k \/ naming[FileOf(j)] = "shared"

NameInv ==
  /\ TypeOK
  /\ clock >= 1 /\ naming[0] = "used"
  /\ \A f \in Files : FileName(f)
  /\ \A j \in Jobs : JobName(j)
  /\ RunsApart

Quiet == UNCHANGED <<helper, archive, metadata, clock, naming, damaged, deleted>>

LEMMA FileOfType ==
  ASSUME TypeOK, NEW j \in Jobs
  PROVE  FileOf(j) \in Files
  BY DEF TypeOK, Job, FileOf

LEMMA GotoFields ==
  ASSUME TypeOK, NEW j \in Jobs, NEW p, Goto(j, p)
  PROVE  /\ job'[j] = [job[j] EXCEPT !.pc = p]
         /\ job'[j].pc = p /\ FileOf(j)' = FileOf(j)
         /\ job'[j].op = job[j].op /\ job'[j].reply = job[j].reply
         /\ job'[j].seen = job[j].seen /\ job'[j].sum = job[j].sum
         /\ job'[j].size = job[j].size /\ job'[j].sent = job[j].sent
         /\ \A k \in Jobs \ {j} : job'[k] = job[k]
  BY DEF Goto, TypeOK, Job, FileOf

LEMMA EndFields ==
  ASSUME TypeOK, NEW j \in Jobs, NEW r, End(j, r)
  PROVE  job'[j].pc = "done" /\ job'[j].reply = r /\ FileOf(j)' = FileOf(j)
  <1>1. job'[j] = [NewJob(job[j].op, FileOf(j), "done") EXCEPT !.reply = r]
    BY DEF End, TypeOK, FileOf
  <1> QED
    BY <1>1 DEF NewJob, FileOf

LEMMA EndOthers ==
  ASSUME TypeOK, NEW j \in Jobs, NEW r, End(j, r)
  PROVE  \A k \in Jobs \ {j} : job'[k] = job[k]
  BY DEF End, TypeOK

\* A handler's step between naming and docker's run, and a return from `run`,
\* are the only ones that concern a name nothing was written under.
Ordinary(j) ==
  \/ Probe(j) \/ FindContainer(j) \/ FindManagedVolume(j) \/ FindAnyVolume(j) \/ RunTimeout(j)
  \/ writeMetadata(j) \/ verifyOrBackfill(j) \/ download(j) \/ inspectBackup(j)
  \/ deleteTs3BackupFile(j)

LEMMA OrdinaryShape ==
  ASSUME TypeOK, NEW j \in Jobs, Ordinary(j)
  PROVE  /\ job[j].pc \notin {"done", "run"}
         /\ job'[j].pc \notin {"run", "wait"}
         /\ job'[j].pc # "done" => job'[j].reply = job[j].reply
         /\ FileOf(j)' = FileOf(j)
         /\ \A k \in Jobs \ {j} : job'[k] = job[k]
         /\ UNCHANGED <<helper, clock, naming, damaged>>
  <1> DEFINE Moves(p) == Goto(j, p) /\ p \notin {"run", "wait", "done"}
             Notes == \E v \in Sums \cup {"none"} :
                        \/ job' = [job EXCEPT ![j].seen = v, ![j].pc = "hash"]
                        \/ job' = [job EXCEPT ![j].sum = v, ![j].pc = "trunc"]
                        \/ job' = [job EXCEPT ![j].sum = v, ![j].pc = "stat"]
                        \/ job' = [job EXCEPT ![j].sum = v, ![j].pc = "restat"]
                        \/ job' = [job EXCEPT ![j].size = v, ![j].pc = "open"]
                        \/ job' = [job EXCEPT ![j].size = v, ![j].pc = "hash"]
             Answers == \/ \E v \in Sums \cup {"none"} :
                             job' = [job EXCEPT ![j].sent = v, ![j].pc = "done",
                                                ![j].reply = "streamed"]
                        \/ \E r \in Replies :
                             job' = [job EXCEPT ![j].pc = "done", ![j].reply = r]
  <1>1. /\ job[j].pc \notin {"done", "run"}
        /\ UNCHANGED <<helper, clock, naming, damaged>>
    BY DEF Ordinary, Probe, FindContainer, FindManagedVolume, FindAnyVolume, RunTimeout,
       writeMetadata, HashForMetadata, Truncate, WriteMetadata, verifyOrBackfill, Exists,
       ReadForVerify, ReadForBackfill, HashForVerify, download, StatForDownload, OpenStream,
       inspectBackup, Lstat, HashForInspect, Restat, ReadForInspect, deleteTs3BackupFile,
       Unlink, MetadataExists, UnlinkMetadata, At, directory, history
  <1>2. (\E p \in Pcs : Moves(p)) \/ (\E r \in Replies : End(j, r)) \/ Notes \/ Answers
    <2>1. CASE Probe(j) \/ FindContainer(j) \/ FindManagedVolume(j) \/ FindAnyVolume(j)
               \/ RunTimeout(j)
      BY <2>1 DEF Probe, FindContainer, FindManagedVolume, FindAnyVolume, RunTimeout,
         Pcs, Replies
    <2>2. CASE writeMetadata(j)
      BY <2>2 DEF writeMetadata, HashForMetadata, Truncate, WriteMetadata, Pcs, Replies
    <2>3. CASE verifyOrBackfill(j)
      BY <2>3 DEF verifyOrBackfill, Exists, ReadForVerify, ReadForBackfill, HashForVerify,
         Compare, Pcs, Replies
    <2>4. CASE download(j)
      BY <2>4 DEF download, StatForDownload, OpenStream, Replies
    <2>5. CASE inspectBackup(j)
      BY <2>5 DEF inspectBackup, Lstat, HashForInspect, Restat, ReadForInspect, Pcs, Replies
    <2>6. CASE deleteTs3BackupFile(j)
      BY <2>6 DEF deleteTs3BackupFile, Unlink, MetadataExists, UnlinkMetadata, Pcs, Replies
    <2> QED
      BY <2>1, <2>2, <2>3, <2>4, <2>5, <2>6 DEF Ordinary
  <1>3. CASE \E p \in Pcs : Moves(p)
    BY <1>1, <1>3, GotoFields
  <1>4. CASE \E r \in Replies : End(j, r)
    BY <1>1, <1>4, EndFields, EndOthers
  <1>5. CASE Notes
    BY <1>1, <1>5 DEF TypeOK, Job, FileOf
  <1>6. CASE Answers
    <2>1. job[j] \in Job /\ job \in [Jobs -> Job]
      BY DEF TypeOK
    <2>2. CASE \E v \in Sums \cup {"none"} :
                 job' = [job EXCEPT ![j].sent = v, ![j].pc = "done", ![j].reply = "streamed"]
      BY <1>1, <2>1, <2>2 DEF Job, FileOf
    <2>3. CASE \E r \in Replies : job' = [job EXCEPT ![j].pc = "done", ![j].reply = r]
      <3>1. PICK r \in Replies : job' = [job EXCEPT ![j].pc = "done", ![j].reply = r]
        BY <2>3
      <3>2. job'[j].pc = "done" /\ job'[j].file = job[j].file
            /\ \A k \in Jobs \ {j} : job'[k] = job[k]
        BY <2>1, <3>1 DEF Job
      <3> QED
        BY <1>1, <3>2 DEF FileOf
    <2> QED
      BY <1>6, <2>2, <2>3
  <1> QED
    BY <1>2, <1>3, <1>4, <1>5, <1>6

LEMMA NameInit == Init => NameInv
  <1> SUFFICES ASSUME Init PROVE NameInv
    OBVIOUS
  <1>1. TypeOK /\ 0 \in Files
    BY TypeInit, BackupAssumption DEF Files
  <1>2. ASSUME NEW f \in Files PROVE FileName(f)
    <2>1. /\ helper[f] = "none" /\ clock = 1 /\ damaged = {} /\ deleted = {}
          /\ archive[f] = IF f = 0 THEN "data" ELSE "none"
          /\ naming[f] = IF f = 0 THEN "used" ELSE "free"
          /\ f # 0 => metadata[f] = "absent"
      BY DEF Init
    <2> QED
      BY <2>1 DEF FileName, Fresh, Files
  <1>3. \A j \in Jobs : JobName(j) /\ job[j].pc = "done"
    BY <1>1 DEF Init, JobName, NewJob, FileOf
  <1> QED
    BY <1>1, <1>2, <1>3 DEF NameInv, RunsApart, Init

\* Steps that give no name: only a handler that moves is at stake.
LEMMA NameKept ==
  ASSUME NameInv, TypeOK', UNCHANGED naming, clock' >= 1,
         \A f \in Files : FileName(f)',
         \A k \in Jobs : job'[k] = job[k] \/ (JobName(k)' /\ job'[k].pc # "run")
  PROVE  NameInv'
  <1>1. \A k \in Jobs : JobName(k)'
    BY DEF NameInv, JobName, FileOf
  <1>2. RunsApart'
    BY DEF NameInv, RunsApart, FileOf
  <1> QED
    BY <1>1, <1>2 DEF NameInv

\* What such a handler does to the directory concerns its own file, which was begun.
LEMMA OrdinaryFiles ==
  ASSUME TypeOK, NEW j \in Jobs, Ordinary(j)
  PROVE  /\ \A f \in Files \ {FileOf(j)} :
              /\ archive'[f] = archive[f] /\ metadata'[f] = metadata[f]
              /\ f \in deleted' <=> f \in deleted
         /\ \/ archive' = archive /\ deleted' = deleted
            \/ archive'[FileOf(j)] = "none" /\ FileOf(j) \in deleted'
  <1>1. FileOf(j) \in Files
    BY FileOfType
  <1>2. CASE writeMetadata(j)
    BY <1>1, <1>2 DEF writeMetadata, HashForMetadata, Truncate, WriteMetadata, directory,
       history, TypeOK
  <1>3. CASE deleteTs3BackupFile(j)
    BY <1>1, <1>3 DEF deleteTs3BackupFile, Unlink, MetadataExists, UnlinkMetadata, directory,
       history, TypeOK
  <1>4. CASE ~writeMetadata(j) /\ ~deleteTs3BackupFile(j)
    BY <1>4 DEF Ordinary, Probe, FindContainer, FindManagedVolume, FindAnyVolume, RunTimeout,
       verifyOrBackfill, Exists, ReadForVerify, ReadForBackfill, HashForVerify, download,
       StatForDownload, OpenStream, inspectBackup, Lstat, HashForInspect, Restat,
       ReadForInspect, directory, history
  <1> QED
    BY <1>2, <1>3, <1>4

LEMMA NameOrdinary ==
  ASSUME NameInv, TypeOK', NEW j \in Jobs, Ordinary(j)
  PROVE  NameInv'
  <1> DEFINE f == FileOf(j)
  <1>1. TypeOK /\ f \in Files /\ JobName(j) /\ f' = f
    BY FileOfType, OrdinaryShape DEF NameInv
  <1>2. ~Fresh(f) /\ naming' = naming /\ helper' = helper /\ clock' = clock /\ damaged' = damaged
    BY <1>1, OrdinaryShape DEF Fresh, JobName
  <1>3. ASSUME NEW g \in Files PROVE FileName(g)'
    <2>1. FileName(g)
      BY DEF NameInv
    <2>2. CASE g = f
      BY <1>1, <1>2, <2>1, <2>2, OrdinaryFiles DEF FileName, Fresh
    <2>3. CASE g # f
      BY <1>1, <1>2, <2>1, <2>3, OrdinaryFiles DEF FileName, Fresh
    <2> QED
      BY <2>2, <2>3
  <1>4. JobName(j)' /\ job'[j].pc # "run"
    BY <1>1, <1>2, OrdinaryShape DEF JobName, Fresh
  <1>9. UNCHANGED naming /\ clock' >= 1
    BY <1>1, <1>2 DEF NameInv
  <1> QED
    BY <1>9, <1>1, <1>2, <1>3, <1>4, OrdinaryShape, NameKept

LEMMA NameSubmit ==
  ASSUME NameInv, TypeOK', NEW j \in Jobs, NEW o \in Operations, NEW f \in Files,
         Submit(j, o, f)
  PROVE  NameInv'
  <1>1. /\ job'[j] = NewJob(o, f, FirstStep(o))
        /\ \A k \in Jobs \ {j} : job'[k] = job[k]
        /\ UNCHANGED <<helper, archive, metadata, clock, naming, damaged, deleted>>
    BY DEF Submit, NameInv, TypeOK, directory, history
  <1>2. FirstStep(o) \in {"probe", "lstat", "exists"}
    BY DEF FirstStep, Operations
  <1>3. ~Fresh(f)
    <2>1. CASE f = 0
      BY <2>1 DEF Fresh, NameInv
    <2>2. CASE archive[f] # "none" \/ f \in deleted
      BY <2>2 DEF NameInv, FileName
    <2> QED
      BY <2>1, <2>2 DEF Submit
  <1>4. JobName(j)' /\ job'[j].pc # "run"
    BY <1>1, <1>2, <1>3 DEF JobName, NewJob, FileOf, Fresh
  <1>5. \A g \in Files : FileName(g)'
    BY <1>1 DEF NameInv, FileName, Fresh
  <1>9. UNCHANGED naming /\ clock' >= 1
    BY <1>1 DEF NameInv
  <1> QED
    BY <1>9, <1>1, <1>4, <1>5, NameKept

\* The clock's name: new, or shared from now on.
LEMMA NameFindImage ==
  ASSUME NameInv, TypeOK', NEW j \in Jobs, FindImage(j)
  PROVE  NameInv'
  <1> DEFINE c == clock
  <1>1. /\ TypeOK /\ c \in Files /\ JobName(j) /\ job[j].pc = "image"
        /\ UNCHANGED <<helper, archive, metadata, clock, damaged, deleted>>
    BY DEF NameInv, TypeOK, FindImage, At, directory
  <1>2. CASE End(j, "imageUnavailable") /\ UNCHANGED naming
    <2>1. \A g \in Files : FileName(g)'
      BY <1>1, <1>2 DEF NameInv, FileName, Fresh
    <2>2. JobName(j)' /\ job'[j].pc # "run"
      BY <1>1, <1>2, EndFields DEF JobName
    <2>9. UNCHANGED naming /\ clock' >= 1
      BY <1>1, <1>2, <2>1 DEF NameInv
    <2> QED
      BY <2>9, <1>1, <1>2, <2>1, <2>2, EndOthers, NameKept
  <1>3. CASE /\ job' = [job EXCEPT ![j].file = safeTimestamp, ![j].pc = "run"]
             /\ naming' = [naming EXCEPT ![safeTimestamp] =
                             IF @ = "free" THEN "given" ELSE "shared"]
    <2>1. /\ naming'[c] = IF naming[c] = "free" THEN "given" ELSE "shared"
          /\ \A g \in Files \ {c} : naming'[g] = naming[g]
      BY <1>1, <1>3 DEF safeTimestamp, TypeOK
    <2>2. /\ job'[j].pc = "run" /\ FileOf(j)' = c /\ job'[j].reply = job[j].reply
          /\ \A k \in Jobs \ {j} : job'[k] = job[k]
      BY <1>1, <1>3 DEF safeTimestamp, TypeOK, Job, FileOf
    <2>3. ASSUME NEW g \in Files PROVE FileName(g)'
      <3>1. FileName(g)
        BY DEF NameInv
      <3>2. CASE g = c
        BY <1>1, <2>1, <3>1, <3>2 DEF FileName, Fresh, Files
      <3>3. CASE g # c
        BY <1>1, <2>1, <3>1, <3>3 DEF FileName, Fresh
      <3> QED
        BY <3>2, <3>3
    <2>4. JobName(j)'
      <3>1. job[j].reply = "none" /\ naming'[c] \in {"given", "shared"}
        BY <1>1, <2>1 DEF JobName
      <3> QED
        BY <2>2, <3>1 DEF JobName
    <2>5. ASSUME NEW k \in Jobs \ {j}
          PROVE  /\ JobName(k)' /\ FileOf(k)' = FileOf(k)
                 /\ FileOf(k) = c => naming'[c] = "shared"
                 /\ naming[FileOf(k)] = "shared" => naming'[FileOf(k)] = "shared"
      <3>1. JobName(k) /\ FileOf(k) \in Files /\ FileOf(k)' = FileOf(k)
        BY <1>1, <2>2, FileOfType DEF NameInv, FileOf
      <3>2. CASE FileOf(k) = c
        BY <2>1, <2>2, <3>1, <3>2 DEF JobName
      <3>3. CASE FileOf(k) # c
        BY <2>1, <2>2, <3>1, <3>3 DEF JobName
      <3> QED
        BY <3>1, <3>2, <3>3
    <2>6. RunsApart'
      <3> SUFFICES ASSUME NEW k \in Jobs, NEW l \in Jobs, job'[k].pc = "run",
                          job'[l].pc = "run", FileOf(k)' = FileOf(l)', k # l
                   PROVE  naming'[FileOf(k)'] = "shared"
        BY DEF RunsApart
      <3>1. CASE k = j \/ l = j
        BY <2>2, <2>5, <3>1
      <3>2. CASE k # j /\ l # j
        BY <2>2, <2>5, <3>2 DEF NameInv, RunsApart
      <3> QED
        BY <3>1, <3>2
    <2>7. naming'[0] = "used" /\ clock' >= 1
      BY <1>1, <2>1, BackupAssumption DEF NameInv, Files
    <2> QED
      BY <2>3, <2>4, <2>5, <2>6, <2>7 DEF NameInv
  <1> QED
    BY <1>2, <1>3 DEF FindImage

LEMMA NameStartHelper ==
  ASSUME NameInv, TypeOK', NEW j \in Jobs, StartHelper(j)
  PROVE  NameInv'
  <1> DEFINE f == FileOf(j)
  <1>1. /\ TypeOK /\ f \in Files /\ JobName(j) /\ FileName(f)
        /\ job[j].pc = "run" /\ job[j].op = "backup"
        /\ UNCHANGED <<metadata, clock, damaged, deleted>>
    BY FileOfType DEF NameInv, StartHelper, At
  <1>2. CASE End(j, "error") /\ UNCHANGED <<helper, archive, naming>>
    <2>1. \A g \in Files : FileName(g)'
      BY <1>1, <1>2 DEF NameInv, FileName, Fresh
    <2>2. JobName(j)' /\ job'[j].pc # "run"
      BY <1>1, <1>2, EndFields DEF JobName
    <2>9. UNCHANGED naming /\ clock' >= 1
      BY <1>1, <1>2, <2>1 DEF NameInv
    <2> QED
      BY <2>9, <1>1, <1>2, <2>1, <2>2, EndOthers, NameKept
  <1>3. CASE /\ helper' = [helper EXCEPT ![f] = Captured]
             /\ archive' = [archive EXCEPT ![f] = "part"]
             /\ naming' = [naming EXCEPT ![f] = IF @ = "given" THEN "used" ELSE @]
             /\ Goto(j, AfterStart)
    <2>1. /\ helper'[f] # "none" /\ archive'[f] = "part"
          /\ naming'[f] = IF naming[f] = "given" THEN "used" ELSE naming[f]
          /\ \A g \in Files \ {f} :
               UNCHANGED <<helper[g], archive[g], naming[g]>>
      <3>1. Captured # "none"
        BY DEF Captured
      <3> QED
        BY <1>1, <1>3, <3>1 DEF TypeOK
    <2>2. /\ job'[j].pc = "wait" /\ f' = f /\ job'[j].reply = job[j].reply
          /\ job'[j].op = "backup" /\ \A k \in Jobs \ {j} : job'[k] = job[k]
      BY <1>1, <1>3, GotoFields DEF AfterStart
    <2>3. naming[f] \in {"given", "shared"} /\ f # 0 /\ ~(f > clock)
      BY <1>1 DEF JobName, FileName, NameInv
    <2>4. ASSUME NEW g \in Files PROVE FileName(g)'
      <3>1. FileName(g)
        BY DEF NameInv
      <3>2. CASE g = f
        BY <1>1, <2>1, <2>3, <3>2 DEF FileName, Fresh
      <3>3. CASE g # f
        <4>1. /\ helper'[g] = helper[g] /\ archive'[g] = archive[g] /\ naming'[g] = naming[g]
              /\ metadata' = metadata /\ clock' = clock
              /\ damaged' = damaged /\ deleted' = deleted
          BY <1>1, <2>1, <3>3
        <4> QED
          BY <3>1, <4>1 DEF FileName, Fresh
      <3> QED
        BY <3>2, <3>3
    <2>5. JobName(j)'
      BY <1>1, <2>1, <2>2, <2>3 DEF JobName
    <2>6. ASSUME NEW k \in Jobs \ {j}
          PROVE  /\ JobName(k)' /\ FileOf(k)' = FileOf(k)
                 /\ naming[FileOf(k)] = "shared" => naming'[FileOf(k)] = "shared"
      <3>1. JobName(k) /\ FileOf(k) \in Files /\ FileOf(k)' = FileOf(k)
        BY <1>1, <2>2, FileOfType DEF NameInv, FileOf
      <3>2. CASE FileOf(k) = f
        <4>1. job[k].pc = "run" => naming[f] = "shared"
          BY <1>1, <3>2 DEF NameInv, RunsApart
        <4> QED
          BY <2>1, <2>2, <2>3, <3>1, <3>2, <4>1 DEF JobName
      <3>3. CASE FileOf(k) # f
        BY <2>1, <2>2, <3>1, <3>3 DEF JobName
      <3> QED
        BY <3>1, <3>2, <3>3
    <2>7. RunsApart'
      BY <2>2, <2>6 DEF NameInv, RunsApart
    <2>8. naming'[0] = "used" /\ clock' >= 1
      BY <1>1, <2>1, <2>3, BackupAssumption DEF NameInv, Files
    <2> QED
      BY <2>4, <2>5, <2>6, <2>7, <2>8 DEF NameInv
  <1> QED
    BY <1>2, <1>3 DEF StartHelper

\* A helper ends, and with it the wait of its handler.
LEMMA NameHelper ==
  ASSUME NameInv, TypeOK', NEW f \in Files, HelperDone(f) \/ HelperFails(f)
  PROVE  NameInv'
  <1>1. /\ TypeOK /\ FileName(f) /\ f < clock /\ helper[f] # "none" /\ f \in Nat /\ clock \in Nat
        /\ UNCHANGED <<metadata, clock, naming, damaged, deleted>>
        /\ helper'[f] = "none" /\ \A g \in Files \ {f} : UNCHANGED <<helper[g], archive[g]>>
    BY BackupAssumption DEF NameInv, HelperDone, HelperFails, TypeOK, Files, history, directory
  <1>2. ASSUME NEW g \in Files PROVE FileName(g)'
    <2>1. FileName(g)
      BY DEF NameInv
    <2>2. CASE g = f
      BY <1>1, <2>1, <2>2 DEF FileName, Fresh
    <2>3. CASE g # f
      BY <1>1, <2>1, <2>3 DEF FileName, Fresh
    <2> QED
      BY <2>2, <2>3
  <1>3. ASSUME NEW k \in Jobs PROVE job'[k] = job[k] \/ (JobName(k)' /\ job'[k].pc # "run")
    <2>1. CASE ~Waits(k, f)
      <3>1. HelperDone(f) => job'[k] = job[k]
        BY <2>1 DEF HelperDone
      <3>2. HelperFails(f) => job'[k] = job[k]
        BY <2>1 DEF HelperFails
      <3> QED
        BY <3>1, <3>2
    <2>2. CASE Waits(k, f)
      <3>1. /\ JobName(k) /\ job[k].pc = "wait" /\ FileOf(k) = f
            /\ naming[f] \notin {"free", "given"}
        BY <2>2 DEF NameInv, Waits, FileOf, JobName
      <3>2. CASE job'[k] = [job[k] EXCEPT !.pc = "hash"]
        <4>1. job'[k].pc = "hash" /\ job'[k].reply = "none" /\ FileOf(k)' = f
          BY <1>1, <3>1, <3>2 DEF TypeOK, Job, FileOf, JobName
        <4> QED
          BY <1>1, <3>1, <4>1 DEF JobName
      <3>3. CASE job'[k] = [NewJob("backup", f, "done") EXCEPT !.reply = "error"]
        <4>1. job'[k].pc = "done" /\ FileOf(k)' = f
          BY <3>3 DEF NewJob, FileOf
        <4> QED
          BY <1>1, <3>1, <4>1 DEF JobName
      <3> QED
        BY <2>2, <3>2, <3>3 DEF HelperDone, HelperFails
    <2> QED
      BY <2>1, <2>2
  <1>9. UNCHANGED naming /\ clock' >= 1
    BY <1>1, <1>2 DEF NameInv
  <1> QED
    BY <1>9, <1>1, <1>2, <1>3, NameKept

LEMMA NameWorld ==
  ASSUME NameInv, TypeOK', ServerStep \/ Tick \/ AgentCrash \/ \E f \in Files : Damage(f)
  PROVE  NameInv'
  <1>1. TypeOK /\ UNCHANGED <<archive, metadata, naming, deleted>>
    BY DEF NameInv, ServerStep, TakeIntoUse, CreateContainer, StartContainer, StopContainer,
       RemoveContainer, RemoveVolume, Tick, AgentCrash, Damage, directory, history
  <1>2. CASE ServerStep
    <2>1. /\ UNCHANGED <<clock, job, damaged>>
          /\ \A f \in Files : helper'[f] = "none" <=> helper[f] = "none"
      BY <1>2 DEF ServerStep, TakeIntoUse, CreateContainer, StartContainer, StopContainer,
         RemoveContainer, RemoveVolume, history
    <2>2. \A f \in Files : FileName(f)'
      BY <1>1, <2>1 DEF NameInv, FileName, Fresh
    <2>9. UNCHANGED naming /\ clock' >= 1
      BY <1>1, <2>1 DEF NameInv
    <2> QED
      BY <2>9, <1>1, <2>1, <2>2, NameKept
  <1>3. CASE Tick
    <2>1. UNCHANGED <<helper, job, damaged>> /\ clock' = clock + 1
      BY <1>3 DEF Tick, history
    <2>2. ASSUME NEW f \in Files PROVE FileName(f)'
      <3>1. FileName(f) /\ (f >= clock' => f >= clock) /\ (f > clock' => f > clock)
        BY <1>1, <2>1, BackupAssumption DEF NameInv, TypeOK, Files
      <3> QED
        BY <1>1, <2>1, <3>1 DEF FileName, Fresh
    <2>3. clock' >= 1
      BY <1>1, <2>1, BackupAssumption DEF NameInv, TypeOK, Files
    <2> QED
      BY <1>1, <2>1, <2>2, <2>3, NameKept
  <1>4. CASE AgentCrash
    <2>1. UNCHANGED <<helper, clock, damaged>>
      BY <1>4 DEF AgentCrash, history
    <2>2. \A f \in Files : FileName(f)'
      BY <1>1, <2>1 DEF NameInv, FileName, Fresh
    <2>3. ASSUME NEW k \in Jobs PROVE job'[k] = job[k] \/ (JobName(k)' /\ job'[k].pc # "run")
      <3>1. CASE job'[k] = Dead
        <4>1. job'[k].pc = "done" /\ FileOf(k)' = 0
          BY <3>1 DEF Dead, NewJob, FileOf
        <4> QED
          BY <1>1, <4>1 DEF NameInv, JobName
      <3> QED
        BY <1>4, <3>1 DEF AgentCrash
    <2>9. UNCHANGED naming /\ clock' >= 1
      BY <1>1, <2>1 DEF NameInv
    <2> QED
      BY <2>9, <1>1, <2>1, <2>2, <2>3, NameKept
  <1>5. ASSUME NEW f \in Files, Damage(f) PROVE NameInv'
    <2>1. /\ UNCHANGED <<helper, clock, job>>
          /\ damaged' = damaged \cup {f} /\ archive[f] # "none"
      BY <1>5 DEF Damage
    <2>2. \A g \in Files : FileName(g)'
      BY <1>1, <2>1 DEF NameInv, FileName, Fresh
    <2>9. UNCHANGED naming /\ clock' >= 1
      BY <1>1, <2>1 DEF NameInv
    <2> QED
      BY <2>9, <1>1, <2>1, <2>2, NameKept
  <1> QED
    BY <1>2, <1>3, <1>4, <1>5

LEMMA NameStep == NameInv /\ [Next]_vars => NameInv'
  <1> SUFFICES ASSUME NameInv, [Next]_vars PROVE NameInv'
    OBVIOUS
  <1>1. TypeOK'
    BY TypeStep DEF NameInv
  <1>2. ASSUME NEW j \in Jobs, JobStep(j) PROVE NameInv'
    <2>1. Ordinary(j) \/ FindImage(j) \/ StartHelper(j)
          \/ \E o \in Operations, f \in Files : Submit(j, o, f)
      BY <1>2 DEF JobStep, backupTs3Volume, Ordinary
    <2> QED
      BY <1>1, <2>1, NameOrdinary, NameFindImage, NameStartHelper, NameSubmit
  <1>3. CASE UNCHANGED vars
    BY <1>3 DEF vars, NameInv, TypeOK, FileName, Fresh, JobName, RunsApart, FileOf
  <1> QED
    BY <1>1, <1>2, <1>3, NameHelper, NameWorld DEF Next

-----------------------------------------------------------------------------
(* The invariant behind the safety properties.                             *)

\* Nothing will write this archive any more, and it is not half an archive.
Finished(f) == helper[f] = "none" /\ archive[f] # "part"

\* v is the checksum of the finished archive, unless that was damaged or deleted.
Vouched(v, f) ==
  /\ Finished(f)
  /\ archive[f] # "none" /\ f \notin damaged => v = archive[f]

\* What a file looks like only ever moves up in this order.
Before(v, w) ==
  \/ v = w
  \/ v = "part"
  \/ v \in Captures /\ w \in {"rot", "none"}
  \/ v = "rot" /\ w = "none"

FileInv(f) ==
  naming[f] = "used" =>
    /\ metadata[f] # "absent" => Finished(f)
    /\ metadata[f] \in Sums => Vouched(metadata[f], f)

SumsAgree(j) ==
  /\ job[j].op = "download" /\ job[j].pc \in {"stat", "open"} => job[j].sum = job[j].seen
  /\ job[j].reply = "streamed" => job[j].sum = job[j].seen

\* What a handler still knows of its own file after it let other handlers run.
Knows(j) ==
  LET f == FileOf(j)
  IN  /\ job[j].op \in {"backup", "backfill"} =>
           /\ job[j].pc \in {"hash", "trunc", "write"} => Finished(f)
           /\ job[j].pc \in {"trunc", "write"} /\ job[j].sum # "none" => Vouched(job[j].sum, f)
      /\ job[j].op \in {"verify", "download"} /\ job[j].pc = "hash" => Vouched(job[j].seen, f)
      /\ job[j].op = "download" /\ job[j].pc \in {"stat", "open"} =>
           /\ Vouched(job[j].sum, f)
           /\ f \notin damaged => job[j].sum \in Captures
      /\ job[j].pc = "open" /\ f \notin damaged => job[j].size = job[j].sum
      /\ job[j].op = "inspect" /\ job[j].pc = "hash" => Before(job[j].size, Digest(f))
      /\ job[j].op = "inspect" /\ job[j].pc = "restat" =>
           Before(job[j].size, job[j].sum) /\ Before(job[j].sum, Digest(f))
      /\ job[j].op = "inspect" /\ job[j].pc = "meta" => job[j].sum = job[j].size
      /\ job[j].reply = "mismatch" => f \in damaged
      /\ job[j].reply = "streamed" /\ f \notin damaged =>
           job[j].sent = job[j].sum /\ job[j].sent = job[j].size /\ job[j].sent \in Captures
      /\ job[j].reply \in {"fingerprint", "fingerprintMismatch"} => job[j].sum = job[j].size

\* It knows nothing of a file whose name is shared.
JobInv(j) == SumsAgree(j) /\ (naming[FileOf(j)] = "used" => Knows(j))

StoreInv ==
  /\ NameInv
  /\ \A f \in Files : FileInv(f)
  /\ \A j \in Jobs : JobInv(j)

-----------------------------------------------------------------------------
(* Files only move forward, whichever handler or helper takes a step.      *)

Steady ==
  \A f \in Files : naming'[f] = "used" =>
    \/ naming[f] = "given"
    \/ /\ naming[f] = "used"
       /\ Finished(f) => Finished(f)' /\ archive'[f] \in {archive[f], "none"}
       /\ f \in damaged => f \in damaged'
       /\ Before(Digest(f), Digest(f)')

LEMMA DigestType ==
  ASSUME TypeOK, NEW f \in Files
  PROVE  /\ Digest(f) \in Sums \cup {"none"}
         /\ Digest(f) # "none" => archive[f] # "none"
         /\ f \notin damaged => Digest(f) = archive[f]
  BY DEF TypeOK, Digest, Archives, Sums, Captures

LEMMA BeforeTransitive ==
  ASSUME NEW u \in Sums \cup {"none"}, NEW v \in Sums \cup {"none"},
         NEW w \in Sums \cup {"none"}, Before(u, v), Before(v, w)
  PROVE  Before(u, w)
  BY DEF Before, Sums, Captures

LEMMA BeforeBack ==
  ASSUME NEW u \in Sums \cup {"none"}, NEW v \in Sums \cup {"none"},
         Before(u, v), Before(v, u)
  PROVE  u = v
  BY DEF Before, Sums, Captures

LEMMA QuietIsSteady == ASSUME TypeOK, Quiet PROVE Steady
  BY DEF Quiet, Steady, Finished, Digest, Before

\* A handler that did not move still knows what it knew.
LEMMA KeptJob ==
  ASSUME NameInv, NameInv', NEW j \in Jobs, JobInv(j), Steady, job'[j] = job[j]
  PROVE  JobInv(j)'
  <1> DEFINE f == FileOf(j)
  <1>1. TypeOK /\ TypeOK' /\ f \in Files /\ FileOf(j)' = f /\ JobName(j)
    BY FileOfType DEF NameInv, FileOf
  <1>2. SumsAgree(j)'
    BY DEF JobInv, SumsAgree
  <1>3. CASE naming[f] = "given"
    <2>1. job[j].pc = "run" \/ job[j].pc = "done"
      BY <1>1, <1>3 DEF JobName
    <2>2. job[j].reply \in {"none", "error"}
      BY <1>1, <1>3 DEF JobName
    <2>3. Knows(j)'
      BY <2>1, <2>2 DEF Knows
    <2> QED
      BY <1>2, <2>3 DEF JobInv
  <1>4. CASE naming'[f] # "used"
    BY <1>1, <1>2, <1>4 DEF JobInv
  <1>5. CASE naming'[f] = "used" /\ naming[f] # "given"
    <2>1. /\ naming[f] = "used"
          /\ Finished(f) => Finished(f)' /\ archive'[f] \in {archive[f], "none"}
          /\ f \in damaged => f \in damaged'
          /\ Before(Digest(f), Digest(f)')
      BY <1>1, <1>5 DEF Steady
    <2>2. ASSUME NEW v, Vouched(v, f) PROVE Vouched(v, f)'
      BY <1>1, <2>1, <2>2 DEF Vouched
    <2>3. /\ Digest(f) \in Sums \cup {"none"}
          /\ Digest(f)' \in Sums \cup {"none"}
      BY <1>1, DigestType DEF TypeOK, Digest, Archives, Sums, Captures
    <2>4. Knows(j)
      BY <2>1 DEF JobInv
    <2>5. /\ job[j].op = "inspect" /\ job[j].pc = "hash" => Before(job[j].size, Digest(f)')
          /\ job[j].op = "inspect" /\ job[j].pc = "restat" => Before(job[j].sum, Digest(f)')
      BY <1>1, <2>1, <2>3, <2>4, BeforeTransitive DEF Knows, TypeOK, Job
    <2>6. Knows(j)'
      BY <1>1, <2>1, <2>2, <2>4, <2>5 DEF Knows, FileOf
    <2> QED
      BY <1>2, <2>6 DEF JobInv
  <1> QED
    BY <1>3, <1>4, <1>5

\* One that returned has nothing left to know, if its reply accuses and
\* promises nothing.
LEMMA EndedJob ==
  ASSUME TypeOK, NEW j \in Jobs, JobInv(j), Quiet, NEW r, End(j, r),
         r \notin {"streamed", "fingerprint", "fingerprintMismatch"},
         r = "mismatch" => FileOf(j) \in damaged
  PROVE  JobInv(j)'
  <1>1. /\ job'[j].pc = "done" /\ job'[j].reply = r /\ FileOf(j)' = FileOf(j)
    BY EndFields
  <1> QED
    BY <1>1 DEF JobInv, SumsAgree, Knows, Quiet

\* Steps that leave docker and the directory alone.
LEMMA QuietStep ==
  ASSUME StoreInv, NameInv', Quiet, NEW j \in Jobs, JobInv(j)',
         \A k \in Jobs \ {j} : job'[k] = job[k]
  PROVE  StoreInv'
  <1>1. \A k \in Jobs : JobInv(k)'
    BY KeptJob, QuietIsSteady DEF StoreInv, NameInv
  <1>2. \A f \in Files : FileInv(f)'
    BY DEF StoreInv, FileInv, Finished, Vouched, Quiet
  <1> QED
    BY <1>1, <1>2 DEF StoreInv

LEMMA EndStep ==
  ASSUME StoreInv, NameInv', Quiet, NEW j \in Jobs, NEW r, End(j, r),
         r \notin {"streamed", "fingerprint", "fingerprintMismatch"},
         r = "mismatch" => FileOf(j) \in damaged
  PROVE  StoreInv'
  <1>1. TypeOK /\ JobInv(j)
    BY DEF StoreInv, NameInv
  <1>2. JobInv(j)'
    BY <1>1, EndedJob
  <1> QED
    BY <1>1, <1>2, EndOthers, QuietStep

\* Steps after which the handler holds nothing in its variables.
LEMMA GotoStep ==
  ASSUME StoreInv, NameInv', Quiet, NEW j \in Jobs, NEW p, Goto(j, p),
         job[j].pc # "done",
         p \in {"containers", "managed", "any", "image", "run", "exists", "meta",
                "unlink", "metaExists", "metaUnlink"},
         job[j].op = "inspect" => p # "meta"
  PROVE  StoreInv'
  <1>1. TypeOK /\ JobInv(j) /\ job[j].reply = "none"
    BY DEF StoreInv, NameInv, JobName
  <1>2. JobInv(j)'
    BY <1>1, GotoFields DEF JobInv, SumsAgree, Knows
  <1> QED
    BY <1>1, <1>2, GotoFields, QuietStep

-----------------------------------------------------------------------------
(* The invariant holds.                                                    *)

LEMMA StoreInit == Init => StoreInv
  <1> SUFFICES ASSUME Init PROVE StoreInv
    OBVIOUS
  <1>1. NameInv
    BY NameInit
  <1>2. ASSUME NEW f \in Files PROVE FileInv(f)
    <2>1. /\ helper[f] = "none" /\ damaged = {}
          /\ archive[f] = IF f = 0 THEN "data" ELSE "none"
      BY DEF Init
    <2>2. PICK old \in {"noSum", "data"} : metadata[f] = IF f = 0 THEN old ELSE "absent"
      BY DEF Init
    <2> QED
      BY <2>1, <2>2 DEF FileInv, Finished, Vouched, Files, Sums, Captures
  <1>3. ASSUME NEW j \in Jobs PROVE JobInv(j)
    BY DEF Init, JobInv, SumsAgree, Knows, NewJob
  <1> QED
    BY <1>1, <1>2, <1>3 DEF StoreInv

LEMMA SubmitStep ==
  ASSUME StoreInv, NameInv', NEW j \in Jobs, NEW o \in Operations, NEW f \in Files,
         Submit(j, o, f)
  PROVE  StoreInv'
  <1>1. Quiet
    BY DEF Submit, Quiet, directory, history
  <1>2. /\ job'[j] = NewJob(o, f, FirstStep(o))
        /\ \A k \in Jobs \ {j} : job'[k] = job[k]
    BY DEF Submit, StoreInv, NameInv, TypeOK
  <1>3. FirstStep(o) \in {"probe", "lstat", "exists"}
    BY DEF FirstStep, Operations
  <1>4. JobInv(j)'
    BY <1>2, <1>3 DEF JobInv, SumsAgree, Knows, NewJob
  <1> QED
    BY <1>1, <1>2, <1>4, QuietStep

LEMMA BackupQuietStep ==
  ASSUME StoreInv, NameInv', NEW j \in Jobs,
         \/ Probe(j) \/ FindContainer(j) \/ FindManagedVolume(j) \/ FindAnyVolume(j)
         \/ RunTimeout(j)
  PROVE  StoreInv'
  <1>1. Quiet
    BY DEF Probe, FindContainer, FindManagedVolume, FindAnyVolume, RunTimeout,
       Quiet, directory, history
  <1>2. \/ \E p \in {"containers", "managed", "any", "image"} :
              Goto(j, p) /\ job[j].op = "backup" /\ job[j].pc # "done"
        \/ \E r \in {"unavailable", "containerStillExists", "volumeNotManaged",
                     "volumeNotFound", "error"} : End(j, r)
    BY DEF Probe, FindContainer, FindManagedVolume, FindAnyVolume, RunTimeout, At
  <1> QED
    BY <1>1, <1>2, EndStep, GotoStep

\* A handler agrees with itself about the checksum, whatever it knows of the file.
LEMMA AgreeStep ==
  ASSUME StoreInv, NEW j \in Jobs, Ordinary(j)
  PROVE  SumsAgree(j)'
  <1>1. TypeOK /\ JobName(j) /\ JobInv(j) /\ job[j].pc # "done" /\ job[j].reply = "none"
    BY OrdinaryShape DEF StoreInv, NameInv, JobName
  <1>2. CASE download(j)
    <2>1. job[j].sum = job[j].seen
      BY <1>1, <1>2 DEF download, StatForDownload, OpenStream, At, JobInv, SumsAgree
    <2>2. CASE \E r \in {"backupNotFound", "error"} : End(j, r)
      BY <1>1, <2>2, EndFields DEF SumsAgree
    <2>3. CASE \E v \in Sums : \/ job' = [job EXCEPT ![j].size = v, ![j].pc = "open"]
                               \/ job' = [job EXCEPT ![j].sent = v, ![j].pc = "done",
                                                     ![j].reply = "streamed"]
      <3>1. job'[j].sum = job[j].sum /\ job'[j].seen = job[j].seen
        BY <1>1, <2>3 DEF TypeOK, Job
      <3> QED
        BY <2>1, <3>1 DEF SumsAgree
    <2> QED
      BY <1>2, <2>2, <2>3 DEF download, StatForDownload, OpenStream
  <1>3. CASE HashForVerify(j)
    <2>1. CASE \E r \in {"error", "mismatch", "valid"} : End(j, r)
      BY <1>1, <2>1, EndFields DEF SumsAgree
    <2>2. CASE job' = [job EXCEPT ![j].sum = job[j].seen, ![j].pc = "stat"]
      <3>1. job'[j].sum = job'[j].seen
        BY <1>1, <2>2 DEF TypeOK, Job
      <3> QED
        BY <3>1 DEF SumsAgree
    <2> QED
      BY <1>3, <2>1, <2>2 DEF HashForVerify, Compare
  <1>4. CASE \E r \in Replies \ {"streamed"} : End(j, r)
    BY <1>1, <1>4, EndFields DEF SumsAgree
  <1>5. CASE \E p \in Pcs \ {"stat", "open", "done"} : Goto(j, p)
    BY <1>1, <1>5, GotoFields DEF SumsAgree
  <1>6. CASE \E v \in Sums \cup {"none"} :
               \/ job' = [job EXCEPT ![j].seen = v, ![j].pc = "hash"]
               \/ job' = [job EXCEPT ![j].sum = v, ![j].pc = "trunc"]
               \/ job' = [job EXCEPT ![j].sum = v, ![j].pc = "restat"]
               \/ job' = [job EXCEPT ![j].size = v, ![j].pc = "hash"]
    <2>1. job'[j].pc \in {"hash", "trunc", "restat"} /\ job'[j].reply = "none"
      BY <1>1, <1>6 DEF TypeOK, Job
    <2> QED
      BY <2>1 DEF SumsAgree
  <1>7. CASE \E r \in {"fingerprint", "fingerprintMismatch"} :
               job' = [job EXCEPT ![j].pc = "done", ![j].reply = r]
    <2>1. job'[j].pc = "done" /\ job'[j].reply # "streamed"
      BY <1>1, <1>7 DEF TypeOK, Job
    <2> QED
      BY <2>1 DEF SumsAgree
  <1>8. CASE Probe(j) \/ FindContainer(j) \/ FindManagedVolume(j) \/ FindAnyVolume(j)
             \/ RunTimeout(j)
    BY <1>4, <1>5, <1>8 DEF Probe, FindContainer, FindManagedVolume, FindAnyVolume, RunTimeout,
       Pcs, Replies
  <1>9. CASE writeMetadata(j)
    BY <1>4, <1>5, <1>6, <1>9 DEF writeMetadata, HashForMetadata, Truncate, WriteMetadata,
       Pcs, Replies
  <1>10. CASE Exists(j) \/ ReadForVerify(j) \/ ReadForBackfill(j)
    BY <1>4, <1>5, <1>6, <1>10 DEF Exists, ReadForVerify, ReadForBackfill, Pcs, Replies
  <1>11. CASE inspectBackup(j)
    BY <1>4, <1>5, <1>6, <1>7, <1>11 DEF inspectBackup, Lstat, HashForInspect, Restat,
       ReadForInspect, Pcs, Replies
  <1>12. CASE deleteTs3BackupFile(j)
    BY <1>4, <1>5, <1>12 DEF deleteTs3BackupFile, Unlink, MetadataExists, UnlinkMetadata,
       Pcs, Replies
  <1> QED
    BY <1>2, <1>3, <1>8, <1>9, <1>10, <1>11, <1>12 DEF Ordinary, verifyOrBackfill

\* Steps that change names, the directory or docker keep every handler's knowledge
\* if they are steady, and then only the files and the moving handler are at stake.
LEMMA SteadyStep ==
  ASSUME StoreInv, NameInv', Steady,
         \A f \in Files : FileInv(f)',
         \A k \in Jobs : job'[k] = job[k] \/ JobInv(k)'
  PROVE  StoreInv'
  <1>1. ASSUME NEW k \in Jobs PROVE JobInv(k)'
    BY KeptJob DEF StoreInv
  <1> QED
    BY <1>1 DEF StoreInv

\* A handler that returned with a reply that promises nothing.
LEMMA ReturnedJob ==
  ASSUME NEW j \in Jobs, job'[j].pc = "done",
         job'[j].reply \notin {"mismatch", "streamed", "fingerprint", "fingerprintMismatch"}
  PROVE  JobInv(j)'
  BY DEF JobInv, SumsAgree, Knows

\* Writing or removing metadata disturbs no archive.
LEMMA MetadataOnlyIsSteady ==
  ASSUME TypeOK, UNCHANGED <<helper, archive, naming, damaged>>
  PROVE  Steady
  BY DEF Steady, Finished, Digest, Before

\* On a file whose name is shared a handler can do what it likes.
LEMMA UnknownStep ==
  ASSUME StoreInv, NameInv', NEW j \in Jobs, Ordinary(j), naming[FileOf(j)] # "used"
  PROVE  StoreInv'
  <1> DEFINE f == FileOf(j)
  <1>1. /\ TypeOK /\ f' = f /\ UNCHANGED <<helper, naming, damaged>>
        /\ \A k \in Jobs \ {j} : job'[k] = job[k]
        /\ \A g \in Files \ {f} : archive'[g] = archive[g] /\ metadata'[g] = metadata[g]
    BY OrdinaryShape, OrdinaryFiles DEF StoreInv, NameInv
  <1>2. Steady
    BY <1>1 DEF Steady, Finished, Digest, Before
  <1>3. ASSUME NEW g \in Files PROVE FileInv(g)'
    BY <1>1 DEF StoreInv, FileInv, Finished, Vouched
  <1>4. JobInv(j)'
    BY <1>1, AgreeStep DEF JobInv
  <1> QED
    BY <1>1, <1>2, <1>3, <1>4, SteadyStep

\* Giving a name keeps what is known of the others.
LEMMA FindImageStep ==
  ASSUME StoreInv, NameInv', NEW j \in Jobs, FindImage(j)
  PROVE  StoreInv'
  <1>1. /\ TypeOK /\ clock \in Files /\ job[j].reply = "none"
        /\ UNCHANGED <<helper, archive, metadata, damaged>>
    BY DEF StoreInv, NameInv, TypeOK, FindImage, At, JobName, directory
  <1>2. ASSUME NEW f \in Files, naming'[f] = "used" PROVE naming[f] = "used"
    <2>1. \/ naming' = naming
          \/ naming' = [naming EXCEPT ![clock] = IF @ = "free" THEN "given" ELSE "shared"]
      BY DEF FindImage, safeTimestamp
    <2> QED
      BY <1>1, <1>2, <2>1 DEF TypeOK
  <1>3. Steady
    BY <1>1, <1>2 DEF Steady, Finished, Digest, Before
  <1>4. ASSUME NEW f \in Files PROVE FileInv(f)'
    BY <1>1, <1>2 DEF StoreInv, FileInv, Finished, Vouched
  <1>5. JobInv(j)' /\ \A k \in Jobs \ {j} : job'[k] = job[k]
    <2>1. CASE End(j, "imageUnavailable")
      BY <1>1, <2>1, EndFields, EndOthers, ReturnedJob
    <2>2. CASE job' = [job EXCEPT ![j].file = safeTimestamp, ![j].pc = "run"]
      <3>1. job'[j].pc = "run" /\ job'[j].reply = "none" /\ \A k \in Jobs \ {j} : job'[k] = job[k]
        BY <1>1, <2>2 DEF TypeOK, Job
      <3> QED
        BY <3>1 DEF JobInv, SumsAgree, Knows
    <2> QED
      BY <2>1, <2>2 DEF FindImage
  <1> QED
    BY <1>3, <1>4, <1>5, SteadyStep

\* The first helper of a name finds nothing there.
LEMMA StartHelperStep ==
  ASSUME StoreInv, NameInv', NEW j \in Jobs, StartHelper(j)
  PROVE  StoreInv'
  <1> DEFINE f == FileOf(j)
  <1>1. /\ TypeOK /\ f \in Files /\ FileName(f) /\ job[j].pc = "run" /\ job[j].reply = "none"
        /\ naming[f] \in {"given", "shared"} /\ UNCHANGED <<metadata, damaged, clock, deleted>>
    BY FileOfType DEF StoreInv, NameInv, JobName, StartHelper, At
  <1>2. CASE End(j, "error") /\ UNCHANGED <<helper, archive, naming>>
    <2>1. Quiet
      BY <1>1, <1>2 DEF Quiet
    <2> QED
      BY <1>2, <2>1, EndStep
  <1>3. CASE /\ helper' = [helper EXCEPT ![f] = Captured]
             /\ archive' = [archive EXCEPT ![f] = "part"]
             /\ naming' = [naming EXCEPT ![f] = IF @ = "given" THEN "used" ELSE @]
             /\ Goto(j, AfterStart)
    <2>1. \A g \in Files \ {f} :
            helper'[g] = helper[g] /\ archive'[g] = archive[g] /\ naming'[g] = naming[g]
      BY <1>1, <1>3 DEF TypeOK
    <2>2. naming'[f] = "used" => naming[f] = "given"
      BY <1>1, <1>3 DEF TypeOK
    <2>3. Steady
      BY <1>1, <2>1, <2>2 DEF Steady, Finished, Digest, Before
    <2>4. ASSUME NEW g \in Files PROVE FileInv(g)'
      <3>1. CASE g = f
        <4>1. naming'[f] = "used" => metadata'[f] = "absent"
          BY <1>1, <2>2 DEF FileName, Fresh
        <4> QED
          BY <3>1, <4>1 DEF FileInv, Sums, Captures
      <3>2. CASE g # f
        BY <1>1, <2>1, <3>2 DEF StoreInv, FileInv, Finished, Vouched
      <3> QED
        BY <3>1, <3>2
    <2>5. /\ job'[j].pc = "wait" /\ job'[j].reply = "none"
          /\ \A k \in Jobs \ {j} : job'[k] = job[k]
      BY <1>1, <1>3, GotoFields DEF AfterStart
    <2>6. JobInv(j)'
      BY <2>5 DEF JobInv, SumsAgree, Knows
    <2> QED
      BY <2>3, <2>4, <2>5, <2>6, SteadyStep
  <1> QED
    BY <1>2, <1>3 DEF StartHelper

LEMMA VerifyStep ==
  ASSUME StoreInv, NameInv', NEW j \in Jobs, verifyOrBackfill(j), naming[FileOf(j)] = "used"
  PROVE  StoreInv'
  <1>1. Quiet
    BY DEF verifyOrBackfill, Exists, ReadForVerify, ReadForBackfill, HashForVerify,
       Quiet, directory, history
  <1> DEFINE f == FileOf(j)
  <1>2. f \in Files /\ FileInv(f) /\ JobInv(j) /\ JobName(j) /\ TypeOK
    BY FileOfType DEF StoreInv, NameInv
  <1>3. CASE Exists(j)
    <2>1. \/ \E p \in {"unlink", "meta"} : Goto(j, p) /\ job[j].op # "inspect" /\ job[j].pc # "done"
          \/ \E r \in {"alreadyRemoved", "backupNotFound"} : End(j, r)
      BY <1>3 DEF Exists, At
    <2> QED
      BY <1>1, <2>1, EndStep, GotoStep
  <1>4. CASE ReadForVerify(j)
    <2>1. CASE \E r \in {"metadataMissing", "metadataInvalid", "checksumMissing"} : End(j, r)
      BY <1>1, <2>1, EndStep
    <2>2. CASE \E value \in Sums : /\ ReadsMetadata(value, f)
                                   /\ job' = [job EXCEPT ![j].seen = value, ![j].pc = "hash"]
      <3>1. PICK value \in Sums : /\ ReadsMetadata(value, f)
                                  /\ job' = [job EXCEPT ![j].seen = value, ![j].pc = "hash"]
        BY <2>2
      <3>2. value = metadata[f]
        BY <3>1 DEF ReadsMetadata, Sums, Captures
      <3>3. Vouched(value, f)
        BY <1>2, <3>2 DEF FileInv
      <3>4. /\ job'[j].pc = "hash" /\ job'[j].seen = value /\ job'[j].op = job[j].op
            /\ job'[j].reply = job[j].reply /\ FileOf(j)' = f
            /\ \A k \in Jobs \ {j} : job'[k] = job[k]
        BY <1>2, <3>1 DEF TypeOK, Job, FileOf
      <3>5. job[j].op \in {"verify", "download"} /\ job[j].reply = "none"
        BY <1>2, <1>4 DEF ReadForVerify, At, JobInv, SumsAgree, Knows, JobName
      <3>6. Vouched(value, f)'
        BY <1>1, <1>2, <3>3, <3>4 DEF Vouched, Finished, Quiet, JobInv, SumsAgree, Knows, JobName
      <3>7. JobInv(j)'
        BY <3>4, <3>5, <3>6 DEF JobInv, SumsAgree, Knows, JobName
      <3> QED
        BY <1>1, <3>4, <3>7, QuietStep
    <2> QED
      BY <1>4, <2>1, <2>2 DEF ReadForVerify
  <1>5. CASE ReadForBackfill(j)
    <2>1. CASE \E r \in {"metadataMissing", "metadataInvalid", "alreadyPresent"} : End(j, r)
      BY <1>1, <2>1, EndStep
    <2>2. CASE ReadsMetadata("noSum", f) /\ Goto(j, "hash")
      <3>1. Finished(f)
        BY <1>2, <2>2 DEF ReadsMetadata, FileInv
      <3>2. job[j].op = "backfill" /\ job[j].reply = "none"
        BY <1>2, <1>5 DEF ReadForBackfill, At, JobInv, SumsAgree, Knows, JobName
      <3>3. /\ job'[j].pc = "hash" /\ job'[j].op = "backfill" /\ job'[j].reply = "none"
            /\ FileOf(j)' = f
        BY <1>2, <2>2, <3>2, GotoFields
      <3>4. Finished(f)'
        BY <1>1, <1>2, <3>1, <3>3 DEF Finished, Quiet, JobInv, SumsAgree, Knows, JobName
      <3>5. JobInv(j)'
        BY <3>3, <3>4 DEF JobInv, SumsAgree, Knows, JobName
      <3> QED
        BY <1>1, <1>2, <2>2, <3>5, GotoFields, QuietStep
    <2> QED
      BY <1>5, <2>1, <2>2 DEF ReadForBackfill
  <1>6. CASE HashForVerify(j)
    <2>1. PICK value \in Sums \cup {"none"} : Reads(value, f) /\ Compare(j, value)
      BY <1>6 DEF HashForVerify
    <2>2. /\ job[j].op \in {"verify", "download"} /\ job[j].pc = "hash"
          /\ Vouched(job[j].seen, f) /\ job[j].reply = "none"
      BY <1>2, <1>6 DEF HashForVerify, At, JobInv, SumsAgree, Knows, JobName
    <2>3. CASE value = "none"
      BY <1>1, <2>1, <2>3, EndStep DEF Compare
    <2>4. CASE value # "none"
      <3>1. value = Digest(f) /\ archive[f] # "none" /\ archive[f] # "part"
        BY <1>2, <2>1, <2>2, <2>4, DigestType DEF Reads, Vouched, Finished
      <3>2. f \notin damaged => value = job[j].seen /\ value \in Captures
        BY <1>2, <2>2, <3>1, DigestType DEF Vouched, TypeOK, Archives
      <3>3. CASE value # job[j].seen
        BY <1>1, <2>1, <2>4, <3>2, <3>3, EndStep DEF Compare
      <3>4. CASE value = job[j].seen /\ job[j].op # "download"
        BY <1>1, <2>1, <2>4, <3>4, EndStep DEF Compare
      <3>5. CASE value = job[j].seen /\ job[j].op = "download"
        <4>1. job' = [job EXCEPT ![j].sum = value, ![j].pc = "stat"]
          BY <2>1, <2>4, <3>5 DEF Compare
        <4>2. /\ job'[j].pc = "stat" /\ job'[j].sum = value /\ job'[j].seen = value
              /\ job'[j].op = "download" /\ job'[j].reply = "none" /\ FileOf(j)' = f
              /\ \A k \in Jobs \ {j} : job'[k] = job[k]
          BY <1>2, <2>2, <3>5, <4>1 DEF TypeOK, Job, FileOf
        <4>3. Vouched(value, f)'
          BY <1>1, <1>2, <2>2, <3>5, <4>2 DEF Vouched, Finished, Quiet, JobInv, SumsAgree, Knows, JobName
        <4>4. JobInv(j)'
          BY <1>1, <3>2, <4>2, <4>3 DEF JobInv, SumsAgree, Knows, JobName, Quiet
        <4> QED
          BY <1>1, <4>2, <4>4, QuietStep
      <3> QED
        BY <3>3, <3>4, <3>5
    <2> QED
      BY <2>3, <2>4
  <1> QED
    BY <1>3, <1>4, <1>5, <1>6 DEF verifyOrBackfill

LEMMA DownloadStep ==
  ASSUME StoreInv, NameInv', NEW j \in Jobs, download(j), naming[FileOf(j)] = "used"
  PROVE  StoreInv'
  <1>1. Quiet
    BY DEF download, StatForDownload, OpenStream, Quiet, directory, history
  <1> DEFINE f == FileOf(j)
  <1>2. f \in Files /\ JobInv(j) /\ JobName(j) /\ TypeOK
    BY FileOfType DEF StoreInv, NameInv
  <1>3. /\ job[j].op = "download" /\ job[j].pc \in {"stat", "open"}
        /\ job[j].sum = job[j].seen /\ Vouched(job[j].sum, f) /\ job[j].reply = "none"
        /\ f \notin damaged => job[j].sum \in Captures
    BY <1>2 DEF download, StatForDownload, OpenStream, At, JobInv, SumsAgree, Knows, JobName
  <1>4. ASSUME NEW value \in Sums, Reads(value, f)
        PROVE  f \notin damaged => value = job[j].sum
    <2>1. value = Digest(f)
      BY <1>4 DEF Reads, Sums, Captures
    <2>2. Digest(f) # "none"
      BY <2>1 DEF Sums, Captures
    <2> QED
      BY <1>2, <1>3, <2>1, <2>2, DigestType DEF Vouched
  <1>5. ASSUME FileOf(j)' = f PROVE Vouched(job[j].sum, f)' <=> Vouched(job'[j].sum, f)
    BY <1>1, <1>5 DEF Vouched, Finished, Quiet
  <1>7. CASE StatForDownload(j)
    <2>1. PICK value \in Sums \cup {"none"} :
            /\ Reads(value, f)
            /\ IF value = "none" THEN End(j, "backupNotFound")
               ELSE job' = [job EXCEPT ![j].size = value, ![j].pc = "open"]
      BY <1>7 DEF StatForDownload
    <2>2. CASE value = "none"
      BY <1>1, <2>1, <2>2, EndStep
    <2>3. CASE value # "none"
      <3>1. /\ job'[j].pc = "open" /\ job'[j].size = value /\ job'[j].op = job[j].op
            /\ job'[j].sum = job[j].sum /\ job'[j].seen = job[j].seen
            /\ job'[j].reply = job[j].reply /\ FileOf(j)' = f
            /\ \A k \in Jobs \ {j} : job'[k] = job[k]
        BY <1>2, <2>1, <2>3 DEF TypeOK, Job, FileOf
      <3>2. f \notin damaged => value = job[j].sum
        BY <1>4, <2>1, <2>3
      <3>3. Vouched(job[j].sum, f)'
        BY <1>3, <1>5, <3>1
      <3>4. JobInv(j)'
        BY <1>1, <1>3, <3>1, <3>2, <3>3 DEF JobInv, SumsAgree, Knows, JobName, Quiet
      <3> QED
        BY <1>1, <3>1, <3>4, QuietStep
    <2> QED
      BY <2>2, <2>3
  <1>8. CASE OpenStream(j)
    <2>1. PICK value \in Sums \cup {"none"} :
            /\ Reads(value, f)
            /\ IF value = "none" THEN End(j, "error")
               ELSE job' = [job EXCEPT ![j].sent = value, ![j].pc = "done",
                                       ![j].reply = "streamed"]
      BY <1>8 DEF OpenStream
    <2>2. CASE value = "none"
      BY <1>1, <2>1, <2>2, EndStep
    <2>3. CASE value # "none"
      <3>1. /\ job'[j].pc = "done" /\ job'[j].size = job[j].size /\ job'[j].sent = value
            /\ job'[j].sum = job[j].sum /\ job'[j].seen = job[j].seen
            /\ job'[j].reply = "streamed" /\ FileOf(j)' = f
            /\ \A k \in Jobs \ {j} : job'[k] = job[k]
        BY <1>2, <2>1, <2>3 DEF TypeOK, Job, FileOf
      <3>2. f \notin damaged => value = job[j].sum
        BY <1>4, <2>1, <2>3
      <3>3. f \notin damaged => job[j].size = job[j].sum
        BY <1>2, <1>8 DEF OpenStream, At, JobInv, SumsAgree, Knows, JobName
      <3>4. JobInv(j)'
        BY <1>1, <1>3, <3>1, <3>2, <3>3 DEF JobInv, SumsAgree, Knows, JobName, Quiet
      <3> QED
        BY <1>1, <3>1, <3>4, QuietStep
    <2> QED
      BY <2>2, <2>3
  <1> QED
    BY <1>7, <1>8 DEF download

LEMMA InspectStep ==
  ASSUME StoreInv, NameInv', NEW j \in Jobs, inspectBackup(j), naming[FileOf(j)] = "used"
  PROVE  StoreInv'
  <1>1. Quiet
    BY DEF inspectBackup, Lstat, HashForInspect, Restat, ReadForInspect,
       Quiet, directory, history
  <1> DEFINE f == FileOf(j)
  <1>2. f \in Files /\ JobInv(j) /\ JobName(j) /\ TypeOK
    BY FileOfType DEF StoreInv, NameInv
  <1>3. job[j].op = "inspect" /\ job[j].reply = "none"
    BY <1>2 DEF inspectBackup, Lstat, HashForInspect, Restat, ReadForInspect, At, JobInv, SumsAgree, Knows, JobName
  <1>4. ASSUME NEW value \in Sums, Reads(value, f)
        PROVE  value = Digest(f)
    BY <1>4 DEF Reads, Sums, Captures
  <1>5. ASSUME FileOf(j)' = f
        PROVE  Digest(FileOf(j))' = Digest(f)
    BY <1>1, <1>5 DEF Quiet, Digest
  <1>6. CASE Lstat(j)
    <2>1. PICK value \in Sums \cup {"none"} :
            /\ Reads(value, f)
            /\ IF value = "none" THEN End(j, "backupNotFound")
               ELSE job' = [job EXCEPT ![j].size = value, ![j].pc = "hash"]
      BY <1>6 DEF Lstat
    <2>2. CASE value = "none"
      BY <1>1, <2>1, <2>2, EndStep
    <2>3. CASE value # "none"
      <3>1. /\ job'[j].pc = "hash" /\ job'[j].size = value /\ job'[j].op = "inspect"
            /\ job'[j].reply = "none" /\ FileOf(j)' = f
            /\ \A k \in Jobs \ {j} : job'[k] = job[k]
        BY <1>2, <1>3, <2>1, <2>3 DEF TypeOK, Job, FileOf
      <3>2. Before(job'[j].size, Digest(f))
        BY <1>4, <2>1, <2>3, <3>1 DEF Before
      <3>3. JobInv(j)'
        BY <1>5, <3>1, <3>2 DEF JobInv, SumsAgree, Knows, JobName
      <3> QED
        BY <1>1, <3>1, <3>3, QuietStep
    <2> QED
      BY <2>2, <2>3
  <1>7. CASE HashForInspect(j)
    <2>1. PICK value \in Sums \cup {"none"} :
            /\ Reads(value, f)
            /\ IF value = "none" THEN End(j, "readFailed")
               ELSE job' = [job EXCEPT ![j].sum = value, ![j].pc = "restat"]
      BY <1>7 DEF HashForInspect
    <2>2. CASE value = "none"
      BY <1>1, <2>1, <2>2, EndStep
    <2>3. CASE value # "none"
      <3>1. /\ job'[j].pc = "restat" /\ job'[j].sum = value /\ job'[j].op = "inspect"
            /\ job'[j].size = job[j].size /\ job'[j].reply = "none" /\ FileOf(j)' = f
            /\ \A k \in Jobs \ {j} : job'[k] = job[k]
        BY <1>2, <1>3, <2>1, <2>3 DEF TypeOK, Job, FileOf
      <3>2. Before(job[j].size, Digest(f))
        BY <1>2, <1>3, <1>7 DEF HashForInspect, At, JobInv, SumsAgree, Knows, JobName
      <3>3. value = Digest(f)
        BY <1>4, <2>1, <2>3
      <3>4. JobInv(j)'
        BY <1>5, <3>1, <3>2, <3>3 DEF JobInv, SumsAgree, Knows, JobName, Before
      <3> QED
        BY <1>1, <3>1, <3>4, QuietStep
    <2> QED
      BY <2>2, <2>3
  <1>8. CASE Restat(j)
    <2>1. CASE End(j, "changed")
      BY <1>1, <2>1, EndStep
    <2>2. CASE ~End(j, "changed")
      <3>0. PICK value \in Sums \cup {"none"} :
            Reads(value, f) /\ value = job[j].size /\ Goto(j, "meta")
        BY <1>8, <2>2 DEF Restat, ChangedMeanwhile
      <3>1. Before(job[j].size, job[j].sum) /\ Before(job[j].sum, Digest(f))
        BY <1>2, <1>3, <1>8 DEF Restat, At, JobInv, SumsAgree, Knows, JobName
      <3>2. /\ job[j].size \in Sums \cup {"none"} /\ job[j].sum \in Sums \cup {"none"}
            /\ Digest(f) \in Sums \cup {"none"}
        BY <1>2, DigestType DEF TypeOK, Job
      <3>3. job[j].sum = job[j].size
        <4>1. CASE value = Digest(f)
          BY <3>0, <3>1, <3>2, <4>1, BeforeBack
        <4>2. CASE value = "none"
          BY <3>0, <3>1, <4>2 DEF Before, Captures
        <4> QED
          BY <3>0, <4>1, <4>2 DEF Reads
      <3>4. /\ job'[j].pc = "meta" /\ job'[j].op = "inspect" /\ job'[j].reply = "none"
            /\ job'[j].sum = job'[j].size /\ FileOf(j)' = f
        BY <1>2, <1>3, <3>0, <3>3, GotoFields
      <3>5. JobInv(j)'
        BY <1>5, <3>4 DEF JobInv, SumsAgree, Knows, JobName
      <3> QED
        BY <1>1, <1>2, <3>0, <3>5, GotoFields, QuietStep
    <2> QED
      BY <2>1, <2>2
  <1>9. CASE ReadForInspect(j)
    <2>1. PICK r \in {"fingerprint", "fingerprintMismatch"} :
            job' = [job EXCEPT ![j].pc = "done", ![j].reply = r]
      BY <1>9 DEF ReadForInspect
    <2>2. /\ job'[j].pc = "done" /\ job'[j].reply = r
          /\ job'[j].sum = job[j].sum /\ job'[j].size = job[j].size /\ FileOf(j)' = f
          /\ \A k \in Jobs \ {j} : job'[k] = job[k]
      BY <1>2, <2>1 DEF TypeOK, Job, FileOf
    <2>3. job[j].sum = job[j].size
      BY <1>2, <1>3, <1>9 DEF ReadForInspect, At, JobInv, SumsAgree, Knows, JobName
    <2>4. JobInv(j)'
      BY <1>5, <2>2, <2>3 DEF JobInv, SumsAgree, Knows, JobName
    <2> QED
      BY <1>1, <2>2, <2>4, QuietStep
  <1> QED
    BY <1>6, <1>7, <1>8, <1>9 DEF inspectBackup

LEMMA WriteStep ==
  ASSUME StoreInv, NameInv', NEW j \in Jobs, writeMetadata(j), naming[FileOf(j)] = "used"
  PROVE  StoreInv'
  <1> DEFINE f == FileOf(j)
  <1>1. f \in Files /\ JobInv(j) /\ JobName(j) /\ FileInv(f) /\ TypeOK
    BY FileOfType DEF StoreInv, NameInv
  <1>2. /\ job[j].op \in {"backup", "backfill"} /\ job[j].reply = "none"
        /\ Finished(f)
    BY <1>1 DEF writeMetadata, HashForMetadata, Truncate, WriteMetadata, At, JobInv, SumsAgree, Knows, JobName
  <1>3. UNCHANGED <<helper, archive, clock, naming, damaged, deleted>>
    BY DEF writeMetadata, HashForMetadata, Truncate, WriteMetadata, directory, history
  <1>4. Steady
    BY <1>1, <1>3, MetadataOnlyIsSteady
  <1>5. ASSUME FileOf(j)' = f PROVE Finished(FileOf(j))'
    BY <1>2, <1>3, <1>5 DEF Finished
  <1>7. CASE HashForMetadata(j)
    <2>1. PICK value \in Sums \cup {"none"} :
            /\ Reads(value, f)
            /\ IF value = "none" /\ job[j].op = "backfill"
               THEN End(j, "error")
               ELSE job' = [job EXCEPT ![j].sum = value, ![j].pc = "trunc"]
      BY <1>7 DEF HashForMetadata
    <2>2. Quiet
      BY <1>7 DEF HashForMetadata, Quiet, directory, history
    <2>3. CASE End(j, "error")
      BY <2>2, <2>3, EndStep
    <2>4. CASE job' = [job EXCEPT ![j].sum = value, ![j].pc = "trunc"]
      <3>1. /\ job'[j].pc = "trunc" /\ job'[j].sum = value /\ job'[j].op = job[j].op
            /\ job'[j].reply = "none" /\ FileOf(j)' = f
            /\ \A k \in Jobs \ {j} : job'[k] = job[k]
        BY <1>1, <1>2, <2>4 DEF TypeOK, Job, FileOf
      <3>2. value # "none" => Vouched(value, f)
        BY <1>1, <1>2, <2>1, DigestType DEF Reads, Vouched
      <3>3. value # "none" => Vouched(value, FileOf(j))'
        BY <1>3, <3>1, <3>2 DEF Vouched, Finished
      <3>4. JobInv(j)'
        BY <1>2, <1>5, <3>1, <3>3 DEF JobInv, SumsAgree, Knows, JobName
      <3> QED
        BY <2>2, <3>1, <3>4, QuietStep
    <2> QED
      BY <2>1, <2>3, <2>4
  <1>8. ASSUME \/ metadata'[f] = "absent" \/ metadata'[f] = "torn" \/ metadata'[f] = "noSum"
               \/ metadata'[f] = metadata[f]
               \/ job[j].sum # "none" /\ metadata'[f] = job[j].sum /\ Vouched(job[j].sum, f),
               \A g \in Files \ {f} : metadata'[g] = metadata[g]
        PROVE  \A g \in Files : FileInv(g)'
    <2> SUFFICES ASSUME NEW g \in Files PROVE FileInv(g)'
      OBVIOUS
    <2>1. CASE g # f
      BY <1>3, <1>8, <2>1 DEF StoreInv, FileInv, Finished, Vouched
    <2>2. CASE g = f
      <3>1. metadata'[g] \in Sums => Vouched(metadata'[g], g)
        BY <1>1, <1>8, <2>2 DEF FileInv, Sums, Captures
      <3>2. Finished(g)'
        BY <1>2, <1>3, <2>2 DEF Finished
      <3> QED
        BY <1>3, <3>1, <3>2 DEF FileInv, Vouched, Finished
    <2> QED
      BY <2>1, <2>2
  <1>9. CASE Truncate(j)
    <2>1. CASE End(j, "error") /\ UNCHANGED metadata
      <3>1. Quiet
        BY <1>3, <2>1 DEF Quiet
      <3> QED
        BY <2>1, <3>1, EndStep
    <2>2. CASE metadata' = [metadata EXCEPT ![f] = "torn"] /\ Goto(j, "write")
      <3>1. metadata'[f] = "torn" /\ \A g \in Files \ {f} : metadata'[g] = metadata[g]
        BY <1>1, <2>2 DEF TypeOK
      <3>2. /\ job'[j].pc = "write" /\ job'[j].sum = job[j].sum /\ job'[j].op = job[j].op
            /\ job'[j].reply = "none" /\ FileOf(j)' = f
            /\ \A k \in Jobs \ {j} : job'[k] = job[k]
        BY <1>1, <1>2, <2>2, GotoFields
      <3>3. job[j].sum # "none" => Vouched(job[j].sum, f)
        BY <1>1, <1>2, <1>9 DEF Truncate, At, JobInv, SumsAgree, Knows, JobName
      <3>5. job'[j].sum # "none" => Vouched(job[j].sum, FileOf(j))'
        BY <1>3, <3>2, <3>3 DEF Vouched, Finished
      <3>6. JobInv(j)'
        BY <1>2, <1>5, <3>2, <3>5 DEF JobInv, SumsAgree, Knows, JobName
      <3> QED
        BY <1>4, <1>8, <3>1, <3>2, <3>6, SteadyStep
    <2> QED
      BY <1>9, <2>1, <2>2 DEF Truncate
  <1>10. CASE WriteMetadata(j)
    <2>1. PICK r \in {"created", "updated", "error"} : End(j, r)
      BY <1>10 DEF WriteMetadata
    <2>2. job[j].sum # "none" => Vouched(job[j].sum, f)
      BY <1>1, <1>2, <1>10 DEF WriteMetadata, At, JobInv, SumsAgree, Knows, JobName
    <2>3. /\ \/ metadata'[f] = metadata[f] \/ metadata'[f] = "noSum"
             \/ job[j].sum # "none" /\ metadata'[f] = job[j].sum
          /\ \A g \in Files \ {f} : metadata'[g] = metadata[g]
      <3>1. CASE UNCHANGED metadata
        BY <3>1
      <3>2. CASE metadata' = [metadata EXCEPT ![f] =
                   IF @ = "absent" THEN @ ELSE MetadataOf(job[j].sum)]
        BY <1>1, <3>2 DEF TypeOK, MetadataOf
      <3> QED
        BY <1>10, <3>1, <3>2 DEF WriteMetadata
    <2>4. \A g \in Files : FileInv(g)'
      BY <1>8, <2>2, <2>3
    <2>5. JobInv(j)'
      BY <1>1, <1>5, <2>1, EndFields, ReturnedJob
    <2> QED
      BY <1>1, <1>4, <2>1, <2>4, <2>5, EndOthers, SteadyStep
  <1> QED
    BY <1>7, <1>9, <1>10 DEF writeMetadata

LEMMA DeleteStep ==
  ASSUME StoreInv, NameInv', NEW j \in Jobs, deleteTs3BackupFile(j), naming[FileOf(j)] = "used"
  PROVE  StoreInv'
  <1> DEFINE f == FileOf(j)
  <1>1. f \in Files /\ JobInv(j) /\ JobName(j) /\ FileInv(f) /\ TypeOK
    BY FileOfType DEF StoreInv, NameInv
  <1>2. job[j].op = "delete" /\ job[j].reply = "none" /\ job[j].pc # "done"
    BY <1>1 DEF deleteTs3BackupFile, Unlink, MetadataExists, UnlinkMetadata, At, JobInv, SumsAgree, Knows, JobName
  <1>3. CASE MetadataExists(j)
    <2>1. Quiet
      BY <1>3 DEF MetadataExists, Quiet, directory, history
    <2>2. Goto(j, "metaUnlink") \/ End(j, "deleted")
      BY <1>3 DEF MetadataExists
    <2> QED
      BY <1>2, <2>1, <2>2, EndStep, GotoStep
  <1>4. CASE Unlink(j)
    <2>1. CASE End(j, "error") /\ UNCHANGED <<archive, deleted>>
      <3>1. Quiet
        BY <1>4, <2>1 DEF Unlink, Quiet
      <3> QED
        BY <2>1, <3>1, EndStep
    <2>2. CASE /\ archive' = [archive EXCEPT ![f] = "none"]
               /\ deleted' = deleted \cup {f}
               /\ Goto(j, "metaExists")
      <3>1. UNCHANGED <<helper, metadata, naming, damaged>>
        BY <1>4 DEF Unlink
      <3>2. archive'[f] = "none" /\ \A g \in Files \ {f} : archive'[g] = archive[g]
        BY <1>1, <2>2 DEF TypeOK
      <3>3. ASSUME NEW g \in Files PROVE Before(Digest(g), Digest(g)')
        BY <3>1, <3>2, DigestType, <1>1 DEF Digest, Before, Sums, Captures
      <3>4. Steady
        BY <1>1, <3>1, <3>2, <3>3 DEF Steady, Finished
      <3>5. ASSUME NEW g \in Files PROVE FileInv(g)'
        <4>1. CASE g = f
          BY <1>1, <3>1, <3>2, <4>1 DEF FileInv, Finished, Vouched
        <4>2. CASE g # f
          BY <2>2, <3>1, <3>2, <4>2 DEF StoreInv, FileInv, Finished, Vouched
        <4> QED
          BY <4>1, <4>2
      <3>6. /\ job'[j].pc = "metaExists" /\ job'[j].op = "delete" /\ job'[j].reply = "none"
            /\ FileOf(j)' = f /\ \A k \in Jobs \ {j} : job'[k] = job[k]
        BY <1>1, <1>2, <2>2, GotoFields
      <3>7. JobInv(j)'
        BY <3>6 DEF JobInv, SumsAgree, Knows
      <3> QED
        BY <3>4, <3>5, <3>6, <3>7, SteadyStep
    <2> QED
      BY <1>4, <2>1, <2>2 DEF Unlink
  <1>5. CASE UnlinkMetadata(j)
    <2>1. UNCHANGED <<helper, archive, naming, damaged, deleted>>
      BY <1>5 DEF UnlinkMetadata, history
    <2>2. PICK r \in {"deletedWithMetadata", "metadataDeleteFailed"} : End(j, r)
      BY <1>5 DEF UnlinkMetadata
    <2>3. /\ metadata'[f] = "absent" \/ metadata'[f] = metadata[f]
          /\ \A g \in Files \ {f} : metadata'[g] = metadata[g]
      <3>1. CASE UNCHANGED metadata
        BY <3>1
      <3>2. CASE metadata' = [metadata EXCEPT ![f] = "absent"]
        BY <1>1, <3>2 DEF TypeOK
      <3> QED
        BY <1>5, <3>1, <3>2 DEF UnlinkMetadata
    <2>4. ASSUME NEW g \in Files PROVE FileInv(g)'
      <3>1. FileInv(g)
        BY DEF StoreInv, NameInv
      <3>2. metadata'[g] = metadata[g] \/ metadata'[g] = "absent"
        BY <2>3
      <3> QED
        BY <2>1, <3>1, <3>2 DEF FileInv, Finished, Vouched, Sums, Captures
    <2>5. JobInv(j)'
      BY <1>1, <2>2, EndFields, ReturnedJob
    <2>6. Steady
      BY <1>1, <2>1, MetadataOnlyIsSteady
    <2> QED
      BY <1>1, <2>2, <2>4, <2>5, <2>6, EndOthers, SteadyStep
  <1> QED
    BY <1>3, <1>4, <1>5 DEF deleteTs3BackupFile

\* A handler that waited for the helper of f learns how it ended; no other
\* handler moves.
LEMMA HelperDoneStep ==
  ASSUME StoreInv, NameInv', NEW f \in Files, HelperDone(f)
  PROVE  StoreInv'
  <1>1. TypeOK /\ FileName(f) /\ FileInv(f) /\ helper[f] \in Captures /\ ~Finished(f)
    BY DEF StoreInv, NameInv, TypeOK, HelperDone, Finished, Captures
  <1>2. /\ UNCHANGED <<metadata, naming, damaged>>
        /\ helper'[f] = "none"
        /\ archive'[f] = IF archive[f] = "none" THEN "none" ELSE helper[f]
        /\ \A g \in Files \ {f} : helper'[g] = helper[g] /\ archive'[g] = archive[g]
    BY <1>1 DEF HelperDone, TypeOK, history
  <1>3. /\ archive[f] \in {"part", "none"}
        /\ naming[f] = "used" => metadata[f] = "absent"
    BY <1>1 DEF FileName, FileInv, Captures
  <1>4. Finished(f)'
    BY <1>1, <1>2 DEF Finished, Captures
  <1>5. ASSUME NEW g \in Files PROVE Before(Digest(g), Digest(g)')
    <2>1. CASE g = f
      BY <1>1, <1>2, <1>3, <2>1 DEF Digest, Before
    <2>2. CASE g # f
      BY <1>2, <2>2 DEF Digest, Before
    <2> QED
      BY <2>1, <2>2
  <1>6. Steady
    <2> SUFFICES ASSUME NEW g \in Files
                 PROVE  /\ Finished(g) => Finished(g)' /\ archive'[g] \in {archive[g], "none"}
                        /\ g \in damaged => g \in damaged'
      BY <1>2, <1>5 DEF Steady
    <2>1. CASE g = f
      BY <1>1, <1>2, <2>1
    <2>2. CASE g # f
      BY <1>2, <2>2 DEF Finished
    <2> QED
      BY <2>1, <2>2
  <1>7. ASSUME NEW g \in Files PROVE FileInv(g)'
    <2>1. CASE g = f
      BY <1>2, <1>3, <2>1 DEF FileInv, Sums, Captures
    <2>2. CASE g # f
      BY <1>2, <2>2 DEF StoreInv, FileInv, Finished, Vouched
    <2> QED
      BY <2>1, <2>2
  <1>8. ASSUME NEW k \in Jobs PROVE job'[k] = job[k] \/ JobInv(k)'
    <2>1. CASE ~Waits(k, f)
      BY <2>1 DEF HelperDone
    <2>2. CASE Waits(k, f)
      <3>1. /\ job'[k].pc = "hash" /\ job'[k].op = "backup" /\ job'[k].reply = "none"
            /\ FileOf(k)' = f
        <4>1. job'[k] = [job[k] EXCEPT !.pc = "hash"]
          BY <2>2 DEF HelperDone
        <4>2. job[k].pc = "wait" /\ JobName(k) /\ FileOf(k) = f
          BY <2>2 DEF Waits, StoreInv, NameInv, FileOf
        <4> QED
          BY <1>1, <4>1, <4>2 DEF TypeOK, Job, FileOf, JobName
      <3>2. Finished(FileOf(k))'
        BY <1>4, <3>1 DEF Finished
      <3> QED
        BY <3>1, <3>2 DEF JobInv, SumsAgree, Knows
    <2> QED
      BY <2>1, <2>2
  <1> QED
    BY <1>6, <1>7, <1>8, SteadyStep

LEMMA HelperFailsStep ==
  ASSUME StoreInv, NameInv', NEW f \in Files, HelperFails(f)
  PROVE  StoreInv'
  <1>1. TypeOK /\ FileInv(f) /\ ~Finished(f)
    BY DEF StoreInv, NameInv, HelperFails, Finished
  <1>2. /\ UNCHANGED <<archive, metadata, naming, damaged>>
        /\ helper'[f] = "none"
        /\ \A g \in Files \ {f} : helper'[g] = helper[g]
    BY <1>1 DEF HelperFails, TypeOK, directory, history
  <1>3. naming[f] = "used" => metadata[f] = "absent"
    BY <1>1 DEF FileInv
  <1>4. Steady
    BY <1>1, <1>2 DEF Steady, Finished, Digest, Before
  <1>5. ASSUME NEW g \in Files PROVE FileInv(g)'
    <2>1. CASE g = f
      BY <1>2, <1>3, <2>1 DEF FileInv, Sums, Captures
    <2>2. CASE g # f
      BY <1>2, <2>2 DEF StoreInv, FileInv, Finished, Vouched
    <2> QED
      BY <2>1, <2>2
  <1>6. ASSUME NEW k \in Jobs PROVE job'[k] = job[k] \/ JobInv(k)'
    <2>1. CASE ~Waits(k, f)
      BY <2>1 DEF HelperFails
    <2>2. CASE Waits(k, f)
      <3>1. job'[k].pc = "done" /\ job'[k].reply = "error"
        BY <2>2 DEF HelperFails, NewJob
      <3> QED
        BY <3>1, ReturnedJob
    <2> QED
      BY <2>1, <2>2
  <1> QED
    BY <1>4, <1>5, <1>6, SteadyStep

LEMMA WorldStep ==
  ASSUME StoreInv, NameInv', ServerStep \/ Tick \/ AgentCrash \/ \E f \in Files : Damage(f)
  PROVE  StoreInv'
  <1>1. TypeOK /\ UNCHANGED <<archive, metadata, naming, deleted>>
    BY DEF StoreInv, NameInv, ServerStep, TakeIntoUse, CreateContainer, StartContainer,
       StopContainer, RemoveContainer, RemoveVolume, Tick, AgentCrash, Damage, directory, history
  <1>2. CASE ServerStep
    <2>1. UNCHANGED <<job, damaged>>
      BY <1>2 DEF ServerStep, TakeIntoUse, CreateContainer, StartContainer, StopContainer,
         RemoveContainer, RemoveVolume, history
    <2>2. \A f \in Files : helper'[f] = "none" <=> helper[f] = "none"
      BY <1>2 DEF ServerStep, TakeIntoUse, CreateContainer, StartContainer, StopContainer,
         RemoveContainer, RemoveVolume
    <2>3. Steady
      BY <1>1, <2>1, <2>2 DEF Steady, Finished, Digest, Before, TypeOK, Namings
    <2>4. \A f \in Files : FileInv(f)'
      BY <1>1, <2>1, <2>2 DEF StoreInv, FileInv, Finished, Vouched
    <2> QED
      BY <2>1, <2>3, <2>4, SteadyStep
  <1>3. CASE Tick \/ AgentCrash
    <2>1. UNCHANGED <<helper, damaged>>
      BY <1>3 DEF Tick, AgentCrash, history
    <2>2. Steady
      BY <1>1, <2>1 DEF Steady, Finished, Digest, Before
    <2>3. \A f \in Files : FileInv(f)'
      BY <1>1, <2>1 DEF StoreInv, FileInv, Finished, Vouched
    <2>4. ASSUME NEW k \in Jobs PROVE job'[k] = job[k] \/ JobInv(k)'
      <3>1. CASE job'[k] = Dead
        <4>1. job'[k].pc = "done" /\ job'[k].reply = "lost"
          BY <3>1 DEF Dead, NewJob
        <4> QED
          BY <4>1, ReturnedJob
      <3>2. CASE job'[k] # Dead
        BY <1>3, <3>2 DEF Tick, AgentCrash
      <3> QED
        BY <3>1, <3>2
    <2> QED
      BY <2>2, <2>3, <2>4, SteadyStep
  <1>4. ASSUME NEW f \in Files, Damage(f) PROVE StoreInv'
    <2>1. /\ UNCHANGED <<helper, job>>
          /\ damaged' = damaged \cup {f} /\ archive[f] # "none" /\ f \notin damaged
      BY <1>4 DEF Damage
    <2>2. ASSUME NEW g \in Files PROVE Before(Digest(g), Digest(g)')
      <3>1. archive[f] \in Captures \cup {"part"}
        BY <1>1, <2>1 DEF TypeOK, Archives
      <3> QED
        BY <1>1, <2>1, <3>1 DEF Digest, Before
    <2>3. Steady
      BY <1>1, <2>1, <2>2 DEF Steady, Finished
    <2>4. ASSUME NEW g \in Files PROVE FileInv(g)'
      BY <1>1, <2>1 DEF StoreInv, FileInv, Finished, Vouched
    <2> QED
      BY <2>1, <2>3, <2>4, SteadyStep
  <1> QED
    BY <1>2, <1>3, <1>4

LEMMA StoreStep == StoreInv /\ [Next]_vars => StoreInv'
  <1> SUFFICES ASSUME StoreInv, [Next]_vars PROVE StoreInv'
    OBVIOUS
  <1>1. NameInv'
    BY NameStep DEF StoreInv
  <1>2. ASSUME NEW j \in Jobs, Ordinary(j) PROVE StoreInv'
    <2>1. CASE naming[FileOf(j)] = "used"
      BY <1>1, <1>2, <2>1, BackupQuietStep, WriteStep, VerifyStep, DownloadStep, InspectStep,
         DeleteStep DEF Ordinary
    <2> QED
      BY <1>1, <1>2, <2>1, UnknownStep
  <1>3. ASSUME NEW j \in Jobs, JobStep(j) PROVE StoreInv'
    <2>1. Ordinary(j) \/ FindImage(j) \/ StartHelper(j)
          \/ \E o \in Operations, f \in Files : Submit(j, o, f)
      BY <1>3 DEF JobStep, backupTs3Volume, Ordinary
    <2> QED
      BY <1>1, <1>2, <2>1, FindImageStep, StartHelperStep, SubmitStep
  <1>4. CASE UNCHANGED vars
    <2>1. NameInv' /\ UNCHANGED <<helper, archive, metadata, naming, damaged, job>>
      BY <1>1, <1>4 DEF vars
    <2> QED
      BY <2>1 DEF StoreInv, FileInv, JobInv, SumsAgree, Knows, FileOf, Finished, Vouched,
         Digest, Before
  <1> QED
    BY <1>1, <1>3, <1>4, HelperDoneStep, HelperFailsStep, WorldStep DEF Next

LEMMA StoreInvariant == Spec => []StoreInv
  BY StoreInit, StoreStep, PTL DEF Spec

-----------------------------------------------------------------------------
(* What follows from it.                                                   *)

\* A recorded checksum is that of the finished archive beside it: no handler
\* ever vouches for an archive a helper still writes or failed to finish, unless
\* the archive's name was given to two backups.
THEOREM ChecksumCorrect == Spec => []ChecksumVouchesForArchive
  <1>1. ASSUME StoreInv PROVE ChecksumVouchesForArchive
    <2> SUFFICES ASSUME NEW f \in Files, metadata[f] \in Sums, archive[f] # "none",
                        f \notin Rewritable
                 PROVE  metadata[f] = archive[f] /\ archive[f] # "part" /\ helper[f] = "none"
      BY DEF ChecksumVouchesForArchive
    <2>1. metadata[f] # "absent" /\ FileName(f) /\ FileInv(f) /\ naming[f] \in Namings
      BY <1>1 DEF StoreInv, NameInv, TypeOK, Sums, Captures
    <2>2. naming[f] = "used"
      BY <2>1 DEF FileName, Fresh, Namings, Rewritable, Shared
    <2> QED
      BY <2>1, <2>2 DEF FileInv, Vouched, Finished, Rewritable
  <1> QED
    BY <1>1, StoreInvariant, PTL

\* What a handler knows of its file, once it answered.
LEMMA Answered ==
  ASSUME StoreInv, NEW j \in Jobs, job[j].reply \notin {"none", "error"}, FileOf(j) \notin Shared
  PROVE  Knows(j)
  <1>1. FileOf(j) \in Files /\ naming[FileOf(j)] \in Namings /\ JobName(j) /\ JobInv(j)
    BY FileOfType DEF StoreInv, NameInv, TypeOK
  <1>2. naming[FileOf(j)] \notin {"free", "given", "shared"}
    BY <1>1 DEF JobName, Shared
  <1> QED
    BY <1>1, <1>2 DEF JobInv, Namings

\* A verification that answers "mismatch" is about an archive somebody changed, or
\* one of a shared name.
THEOREM MismatchCorrect == Spec => []MismatchMeansDamage
  <1>1. ASSUME StoreInv PROVE MismatchMeansDamage
    BY <1>1, Answered DEF Knows, MismatchMeansDamage, Rewritable
  <1> QED
    BY <1>1, StoreInvariant, PTL

\* A download streams the finished archive it verified, with its length, unless
\* that was changed in between or its name is shared.
THEOREM DownloadCorrect == Spec => []DownloadIsVerified
  <1>1. ASSUME StoreInv PROVE DownloadIsVerified
    BY <1>1, Answered DEF StoreInv, JobInv, SumsAgree, Knows, DownloadIsVerified, Rewritable
  <1> QED
    BY <1>1, StoreInvariant, PTL

\* A fingerprint and the size reported with it are of the same archive, unless
\* the archive's name is shared.
THEOREM FingerprintCorrect == Spec => []FingerprintIsOfOneArchive
  <1>1. ASSUME StoreInv PROVE FingerprintIsOfOneArchive
    BY <1>1, Answered DEF Knows, FingerprintIsOfOneArchive
  <1> QED
    BY <1>1, StoreInvariant, PTL

-----------------------------------------------------------------------------
(* BackupStore implements BackupArchive.                                   *)

Stages == [f \in Files |-> Stage(f)]
promise == <<Stages, Shared>>

\* One file moves, the others stay where they are.
LEMMA OneMove ==
  ASSUME NEW f \in Files, NEW from, NEW to, Stage(f) \in from, Stage(f)' = to,
         \A g \in Files \ {f} : Stage(g)' = Stage(g), Shared' = Shared
  PROVE  Contract!Move(f, from, to)
  BY DEF Contract!Move

LEMMA NoMove ==
  ASSUME \A g \in Files : Stage(g)' = Stage(g), Shared' = Shared
  PROVE  UNCHANGED promise
  BY DEF Stages, promise

LEMMA ContractInit == Init => Contract!Init
  <1> SUFFICES ASSUME Init PROVE Contract!Init
    OBVIOUS
  <1>1. Shared = {}
    BY DEF Init, Shared
  <1>2. ASSUME NEW f \in Files PROVE Stage(f) \in {"free", "whole"}
    BY DEF Init, Stage
  <1> QED
    BY <1>1, <1>2 DEF Contract!Init

\* A name becomes shared before its first archive is finished.
LEMMA ContractFindImage ==
  ASSUME StoreInv, NEW j \in Jobs, FindImage(j)
  PROVE  [Contract!Next]_promise
  <1>1. /\ TypeOK /\ clock \in Files /\ FileName(clock) /\ naming[clock] \in Namings
        /\ UNCHANGED <<helper, archive, deleted>>
    BY DEF StoreInv, NameInv, TypeOK, FindImage, directory
  <1>2. \A g \in Files : Stage(g)' = Stage(g)
    BY <1>1 DEF Stage
  <1>3. CASE naming' = naming
    BY <1>2, <1>3, NoMove DEF Shared
  <1>4. CASE naming' = [naming EXCEPT ![clock] = IF @ = "free" THEN "given" ELSE "shared"]
    <2>1. CASE naming[clock] \in {"free", "shared"}
      <3>1. Shared' = Shared
        BY <1>1, <1>4, <2>1 DEF Shared, TypeOK
      <3> QED
        BY <1>2, <3>1, NoMove
    <2>2. CASE naming[clock] \in {"given", "used"}
      <3>1. Shared' = Shared \cup {clock}
        BY <1>1, <1>4, <2>2 DEF Shared, TypeOK
      <3>2. Stage(clock) \in {"free", "writing", "gone"}
        BY <1>1, <2>2 DEF FileName, Fresh, Stage, Files
      <3>3. Contract!Share(clock)
        BY <1>1, <1>2, <3>1, <3>2 DEF Contract!Share, Stages
      <3> QED
        BY <1>1, <3>3 DEF Contract!Next
    <2> QED
      BY <1>1, <2>1, <2>2 DEF Namings
  <1> QED
    BY <1>3, <1>4 DEF FindImage, safeTimestamp

\* A helper begins a new archive, or again one of a shared name.
LEMMA ContractStartHelper ==
  ASSUME StoreInv, NEW j \in Jobs, StartHelper(j)
  PROVE  [Contract!Next]_promise
  <1>1. TypeOK /\ FileOf(j) \in Files /\ deleted' = deleted
    BY FileOfType DEF StoreInv, NameInv, StartHelper
  <1>2. CASE UNCHANGED <<helper, archive, naming>>
    <2>1. (\A g \in Files : Stage(g)' = Stage(g)) /\ Shared' = Shared
      BY <1>1, <1>2 DEF Stage, Shared
    <2> QED
      BY <2>1, NoMove
  <1>3. CASE /\ helper[FileOf(j)] = "none"
             /\ helper' = [helper EXCEPT ![FileOf(j)] = Captured]
             /\ archive' = [archive EXCEPT ![FileOf(j)] = "part"]
             /\ naming' = [naming EXCEPT ![FileOf(j)] = IF @ = "given" THEN "used" ELSE @]
    <2> SUFFICES ASSUME NEW f \in Files, f = FileOf(j) PROVE Contract!Begin(f) \/ Contract!Again(f)
      BY <1>1 DEF Contract!Next
    <2>1. Captured # "none"
      BY DEF Captured
    <2>2. Stage(f)' = "writing" /\ \A g \in Files \ {f} : Stage(g)' = Stage(g)
      BY <1>1, <1>3, <2>1 DEF Stage, TypeOK
    <2>3. Shared' = Shared
      BY <1>1, <1>3 DEF Shared, TypeOK
    <2>4. FileName(f) /\ naming[f] \in {"given", "shared"}
      BY DEF StoreInv, NameInv, JobName, StartHelper, At
    <2>5. CASE Stage(f) = "free"
      BY <2>2, <2>3, <2>5, OneMove DEF Contract!Begin
    <2>6. CASE Stage(f) # "free"
      <3>1. f \in Shared
        BY <2>4, <2>6 DEF FileName, Fresh, Stage, Shared
      <3>2. Stage(f) \in {"left", "whole", "gone"}
        BY <1>3, <2>6 DEF Stage
      <3> QED
        BY <2>2, <2>3, <3>1, <3>2, OneMove DEF Contract!Again
    <2> QED
      BY <2>5, <2>6
  <1> QED
    BY <1>2, <1>3 DEF StartHelper

LEMMA ContractUnlink ==
  ASSUME StoreInv, NEW j \in Jobs, Unlink(j)
  PROVE  [Contract!Next]_promise
  <1>1. TypeOK /\ FileOf(j) \in Files /\ helper' = helper /\ Shared' = Shared
    BY FileOfType DEF StoreInv, NameInv, Unlink, Shared
  <1>2. CASE UNCHANGED <<archive, deleted>>
    BY <1>1, <1>2, NoMove DEF Stage
  <1>3. CASE /\ archive[FileOf(j)] # "none"
             /\ archive' = [archive EXCEPT ![FileOf(j)] = "none"]
             /\ deleted' = deleted \cup {FileOf(j)}
    <2> SUFFICES ASSUME NEW f \in Files, f = FileOf(j) PROVE Contract!Delete(f)
      BY <1>1 DEF Contract!Next
    <2>1. Stage(f) \in {"writing", "left", "whole"} /\ Stage(f)' = "gone"
      BY <1>1, <1>3 DEF Stage, TypeOK
    <2>2. \A g \in Files \ {f} : Stage(g)' = Stage(g)
      BY <1>1, <1>3 DEF Stage, TypeOK
    <2> QED
      BY <1>1, <2>1, <2>2, OneMove DEF Contract!Delete
  <1> QED
    BY <1>2, <1>3 DEF Unlink

\* A helper ends.
LEMMA ContractHelper ==
  ASSUME StoreInv, NEW f \in Files, HelperDone(f) \/ HelperFails(f)
  PROVE  [Contract!Next]_promise
  <1>1. /\ TypeOK /\ archive[f] \in {"part", "none"} /\ helper[f] \in Captures
        /\ helper'[f] = "none" /\ deleted' = deleted /\ Shared' = Shared
        /\ \A g \in Files \ {f} : helper'[g] = helper[g] /\ archive'[g] = archive[g]
    BY DEF StoreInv, NameInv, FileName, HelperDone, HelperFails, TypeOK, directory, history, Shared
  <1>2. archive'[f] = archive[f] \/ (archive[f] = "part" /\ archive'[f] = helper[f])
    BY <1>1 DEF HelperDone, HelperFails, TypeOK, directory
  <1>3. \A g \in Files \ {f} : Stage(g)' = Stage(g)
    BY <1>1 DEF Stage
  <1>4. CASE archive[f] = "none"
    BY <1>1, <1>2, <1>3, <1>4, NoMove DEF Stage
  <1>5. CASE archive[f] = "part"
    <2>1. Stage(f) = "writing" /\ Stage(f)' \in {"left", "whole"}
      BY <1>1, <1>2, <1>5 DEF Stage, Captures
    <2> QED
      BY <1>1, <1>3, <2>1, OneMove DEF Contract!Abandon, Contract!Finish, Contract!Next
  <1> QED
    BY <1>1, <1>4, <1>5

LEMMA ContractStep == StoreInv /\ [Next]_vars => [Contract!Next]_promise
  <1> SUFFICES ASSUME StoreInv, [Next]_vars PROVE [Contract!Next]_promise
    OBVIOUS
  <1>1. CASE UNCHANGED <<archive, deleted, naming>>
             /\ \A g \in Files : helper'[g] = "none" <=> helper[g] = "none"
    BY <1>1, NoMove DEF Stage, Shared
  <1>2. ASSUME NEW j \in Jobs, JobStep(j) PROVE [Contract!Next]_promise
    <2>1. \/ UNCHANGED <<helper, archive, deleted, naming>>
          \/ FindImage(j) \/ StartHelper(j) \/ Unlink(j)
      BY <1>2 DEF JobStep, Submit, backupTs3Volume, Probe, FindContainer, FindManagedVolume,
         FindAnyVolume, RunTimeout, writeMetadata, HashForMetadata, Truncate,
         WriteMetadata, verifyOrBackfill, Exists, ReadForVerify, ReadForBackfill,
         HashForVerify, download, StatForDownload, OpenStream, inspectBackup, Lstat,
         HashForInspect, Restat, ReadForInspect, deleteTs3BackupFile, MetadataExists,
         UnlinkMetadata, directory, history
    <2> QED
      BY <1>1, <2>1, ContractFindImage, ContractStartHelper, ContractUnlink
  <1>3. CASE ServerStep \/ Tick \/ AgentCrash \/ (\E f \in Files : Damage(f)) \/ UNCHANGED vars
    BY <1>1, <1>3 DEF ServerStep, TakeIntoUse, CreateContainer, StartContainer, StopContainer,
       RemoveContainer, RemoveVolume, Tick, AgentCrash, Damage, directory, history, vars
  <1> QED
    BY <1>2, <1>3, ContractHelper DEF Next

\* A finished archive is begun again, and a deleted one comes back, only under a
\* name that two backups were given before the first was finished; every other
\* name is used for one archive.
THEOREM StoreImplementsArchive == Spec => ImplementsContract
  <1>1. Spec => Contract!Init /\ [][Contract!Next]_promise
    BY ContractInit, ContractStep, StoreInvariant, PTL DEF Spec
  <1> QED
    BY <1>1, PTL DEF ImplementsContract, Contract!Spec, Stages, promise

-----------------------------------------------------------------------------
(* What holds as long as requests do not overlap.                          *)

OneAtATime == \A j, k \in Jobs : j = k

SerialFile(f) ==
  /\ metadata[f] = "noSum" => sealed[f] = "none"
  /\ metadata[f] \in Sums => metadata[f] = sealed[f]
  /\ f >= clock => metadata[f] = "absent" /\ sealed[f] = "none"

\* Only a file without a recorded checksum is given one.
SerialJob(j) ==
  LET f == FileOf(j)
  IN  job[j].op \in {"backup", "backfill"} =>
        /\ job[j].pc \in {"run", "wait", "hash", "trunc", "write"} => sealed[f] = "none"
        /\ job[j].pc \in {"hash", "trunc", "write"} => f < clock

SerialInv ==
  /\ StoreInv
  /\ \A f \in Files : SerialFile(f)
  /\ \A j \in Jobs : SerialJob(j)

LEMMA SerialInit == Init => SerialInv
  <1> SUFFICES ASSUME Init PROVE SerialInv
    OBVIOUS
  <1>1. StoreInv
    BY StoreInit
  <1>2. ASSUME NEW f \in Files PROVE SerialFile(f)
    <2>1. PICK old \in {"noSum", "data"} :
            /\ metadata[f] = IF f = 0 THEN old ELSE "absent"
            /\ sealed[f] = IF f = 0 /\ old = "data" THEN old ELSE "none"
      BY DEF Init
    <2> QED
      BY <2>1 DEF SerialFile, Init, Files, Sums, Captures
  <1>3. ASSUME NEW j \in Jobs PROVE SerialJob(j)
    BY DEF Init, SerialJob, NewJob
  <1> QED
    BY <1>1, <1>2, <1>3 DEF SerialInv

\* Steps that leave the metadata alone.
LEMMA SerialKept ==
  ASSUME SerialInv, StoreInv', UNCHANGED <<metadata, sealed>>,
         clock' \in {clock, clock + 1}, \A j \in Jobs : SerialJob(j)'
  PROVE  SerialInv'
  <1>1. ASSUME NEW f \in Files PROVE SerialFile(f)'
    <2>1. SerialFile(f) /\ f \in Nat /\ clock \in Nat
      BY BackupAssumption DEF SerialInv, StoreInv, NameInv, TypeOK, Files
    <2>2. f >= clock' => f >= clock
      BY <2>1
    <2> QED
      BY <2>1, <2>2 DEF SerialFile
  <1> QED
    BY <1>1 DEF SerialInv

LEMMA SerialJobKept ==
  ASSUME SerialInv, UNCHANGED <<metadata, sealed>>, clock' \in {clock, clock + 1},
         NEW j \in Jobs, job'[j] = job[j]
  PROVE  SerialJob(j)'
  <1>1. SerialJob(j) /\ FileOf(j) \in Nat /\ clock \in Nat /\ FileOf(j)' = FileOf(j)
    BY FileOfType, BackupAssumption DEF SerialInv, StoreInv, NameInv, TypeOK, Files, FileOf
  <1> QED
    BY <1>1 DEF SerialJob

\* A handler that returns, or goes on without having learnt anything.
LEMMA SerialEnd ==
  ASSUME SerialInv, StoreInv', NEW j \in Jobs, NEW r, End(j, r),
         UNCHANGED <<metadata, sealed, clock>>
  PROVE  SerialInv'
  <1>1. SerialJob(j)'
    BY EndFields DEF SerialInv, StoreInv, NameInv, SerialJob
  <1>2. ASSUME NEW k \in Jobs \ {j} PROVE SerialJob(k)'
    BY EndOthers, SerialJobKept DEF SerialInv, StoreInv, NameInv
  <1> QED
    BY <1>1, <1>2, SerialKept

LEMMA SerialGoto ==
  ASSUME SerialInv, StoreInv', NEW j \in Jobs, NEW p, Goto(j, p),
         p \in {"containers", "managed", "any", "image", "exists", "meta",
                "unlink", "metaExists", "metaUnlink", "done"},
         UNCHANGED <<metadata, sealed, clock>>
  PROVE  SerialInv'
  <1>1. /\ job'[j].pc = p /\ job'[j].reply = job[j].reply /\ FileOf(j)' = FileOf(j)
        /\ \A k \in Jobs \ {j} : job'[k] = job[k]
    BY GotoFields DEF SerialInv, StoreInv, NameInv
  <1>2. SerialJob(j)'
    BY <1>1 DEF SerialInv, SerialJob
  <1>3. ASSUME NEW k \in Jobs \ {j} PROVE SerialJob(k)'
    BY <1>1, SerialJobKept
  <1> QED
    BY <1>2, <1>3, SerialKept

\* A handler of an operation that does not write metadata.
LEMMA SerialOther ==
  ASSUME SerialInv, StoreInv', NEW j \in Jobs,
         job'[j].op \notin {"backup", "backfill"},
         \A k \in Jobs \ {j} : job'[k] = job[k], UNCHANGED <<metadata, sealed, clock>>
  PROVE  SerialInv'
  <1>1. SerialJob(j)'
    BY DEF SerialJob
  <1>2. ASSUME NEW k \in Jobs \ {j} PROVE SerialJob(k)'
    BY SerialJobKept
  <1> QED
    BY <1>1, <1>2, SerialKept

LEMMA SerialSubmit ==
  ASSUME SerialInv, StoreInv', NEW j \in Jobs, NEW o \in Operations, NEW f \in Files,
         Submit(j, o, f)
  PROVE  SerialInv'
  <1>1. /\ job'[j] = NewJob(o, f, FirstStep(o))
        /\ \A k \in Jobs \ {j} : job'[k] = job[k]
        /\ UNCHANGED <<metadata, sealed, clock>>
    BY DEF Submit, SerialInv, StoreInv, NameInv, TypeOK, directory, history
  <1>2. FirstStep(o) \in {"probe", "lstat", "exists"}
    BY DEF FirstStep, Operations
  <1>3. SerialJob(j)'
    BY <1>1, <1>2 DEF SerialJob, NewJob
  <1>4. ASSUME NEW k \in Jobs \ {j} PROVE SerialJob(k)'
    BY <1>1, SerialJobKept
  <1> QED
    BY <1>1, <1>3, <1>4, SerialKept

LEMMA SerialBackup ==
  ASSUME SerialInv, StoreInv', NEW j \in Jobs, backupTs3Volume(j)
  PROVE  SerialInv'
  <1>1. UNCHANGED <<metadata, sealed, clock>>
    BY DEF backupTs3Volume, Probe, FindContainer, FindManagedVolume, FindAnyVolume,
       FindImage, StartHelper, RunTimeout, directory, history
  <1>2. CASE \E r \in {"unavailable", "containerStillExists", "volumeNotManaged",
                       "volumeNotFound", "imageUnavailable", "error"} : End(j, r)
    BY <1>1, <1>2, SerialEnd
  <1>3. CASE \E p \in {"containers", "managed", "any", "image"} : Goto(j, p)
    BY <1>1, <1>3, SerialGoto
  <1>4. TypeOK /\ JobName(j) /\ SerialJob(j) /\ clock \in Files /\ SerialFile(clock)
    BY DEF SerialInv, StoreInv, NameInv, TypeOK
  <1>5. CASE job' = [job EXCEPT ![j].file = clock, ![j].pc = "run"]
    <2>1. /\ job'[j].pc = "run" /\ FileOf(j)' = clock
          /\ \A k \in Jobs \ {j} : job'[k] = job[k]
      BY <1>4, <1>5 DEF TypeOK, Job, FileOf
    <2>2. sealed[clock] = "none"
      BY <1>4, BackupAssumption DEF SerialFile, Files
    <2>3. SerialJob(j)'
      BY <1>1, <2>1, <2>2 DEF SerialJob
    <2>4. ASSUME NEW k \in Jobs \ {j} PROVE SerialJob(k)'
      BY <1>1, <2>1, SerialJobKept
    <2> QED
      BY <1>1, <2>3, <2>4, SerialKept
  <1>6. CASE job[j].op = "backup" /\ job[j].pc = "run" /\ Goto(j, "wait")
    <2>1. /\ job'[j].pc = "wait" /\ FileOf(j)' = FileOf(j)
          /\ \A k \in Jobs \ {j} : job'[k] = job[k]
      BY <1>4, <1>6, GotoFields
    <2>2. SerialJob(j)'
      BY <1>1, <1>4, <1>6, <2>1 DEF SerialJob
    <2>3. ASSUME NEW k \in Jobs \ {j} PROVE SerialJob(k)'
      BY <1>1, <2>1, SerialJobKept
    <2> QED
      BY <1>1, <2>2, <2>3, SerialKept
  <1> QED
    BY <1>2, <1>3, <1>5, <1>6
       DEF backupTs3Volume, Probe, FindContainer, FindManagedVolume, FindAnyVolume,
           FindImage, StartHelper, RunTimeout, AfterStart, At, safeTimestamp

\* The only steps that touch metadata find the checksum still missing.
LEMMA SerialWrite ==
  ASSUME OneAtATime, SerialInv, StoreInv', NEW j \in Jobs, writeMetadata(j)
  PROVE  SerialInv'
  <1> DEFINE f == FileOf(j)
  <1>1. /\ f \in Files /\ f \in Nat /\ clock \in Nat /\ clock' = clock
        /\ TypeOK /\ JobName(j) /\ SerialJob(j) /\ SerialFile(f)
    BY FileOfType, BackupAssumption
       DEF SerialInv, StoreInv, NameInv, TypeOK, Files, writeMetadata, HashForMetadata, Truncate,
           WriteMetadata
  <1>2. \A k \in Jobs : k = j
    BY DEF OneAtATime
  <1>3. /\ job[j].op \in {"backup", "backfill"} /\ job[j].pc \in {"hash", "trunc", "write"}
        /\ sealed[f] = "none" /\ f < clock /\ job[j].reply = "none"
    BY <1>1 DEF writeMetadata, HashForMetadata, Truncate, WriteMetadata, At, SerialJob, JobName
  <1>4. CASE HashForMetadata(j)
    <2>1. UNCHANGED <<metadata, sealed, clock>>
      BY <1>4 DEF HashForMetadata, directory, history
    <2>2. CASE End(j, "error")
      BY <2>1, <2>2, SerialEnd
    <2>3. CASE \E v \in Sums \cup {"none"} :
                  job' = [job EXCEPT ![j].sum = v, ![j].pc = "trunc"]
      <3>1. /\ job'[j].op = job[j].op /\ job'[j].reply = "none" /\ f' = f
        BY <1>1, <1>3, <2>3 DEF TypeOK, Job, FileOf
      <3>2. SerialJob(j)'
        BY <1>3, <2>1, <3>1 DEF SerialJob
      <3> QED
        BY <1>2, <2>1, <3>2, SerialKept
    <2> QED
      BY <1>4, <2>2, <2>3 DEF HashForMetadata
  <1>5. CASE Truncate(j)
    <2>1. CASE End(j, "error") /\ UNCHANGED metadata
      BY <1>5, <2>1, SerialEnd DEF Truncate, history
    <2>2. CASE metadata' = [metadata EXCEPT ![f] = "torn"] /\ Goto(j, "write")
      <3>1. /\ job'[j].op = job[j].op /\ job'[j].reply = "none" /\ f' = f
        BY <1>1, <1>3, <2>2, GotoFields
      <3>2. sealed' = sealed /\ metadata'[f] = "torn"
            /\ \A g \in Files \ {f} : metadata'[g] = metadata[g]
        BY <1>1, <1>5, <2>2 DEF Truncate, history, TypeOK
      <3>3. SerialJob(j)'
        BY <1>1, <1>3, <3>1, <3>2 DEF SerialJob
      <3>4. ASSUME NEW g \in Files PROVE SerialFile(g)'
        <4>1. SerialFile(g)
          BY DEF SerialInv
        <4> QED
          BY <1>1, <1>3, <3>2, <4>1 DEF SerialFile, Sums, Captures
      <3> QED
        BY <1>2, <3>3, <3>4 DEF SerialInv
    <2> QED
      BY <1>5, <2>1, <2>2 DEF Truncate
  <1>6. CASE WriteMetadata(j)
    <2>1. CASE End(j, "error") /\ UNCHANGED <<metadata, sealed>>
      BY <1>1, <2>1, SerialEnd
    <2>2. CASE /\ metadata' = [metadata EXCEPT ![f] =
                     IF @ = "absent" THEN @ ELSE MetadataOf(job[j].sum)]
               /\ sealed' = [sealed EXCEPT ![f] =
                     IF @ = "none" /\ metadata[f] # "absent" THEN job[j].sum ELSE @]
               /\ \E r \in {"created", "updated"} : End(j, r)
      <3>1. job'[j].pc = "done"
        BY <1>1, <2>2, EndFields
      <3>2. /\ \A g \in Files \ {f} : metadata'[g] = metadata[g] /\ sealed'[g] = sealed[g]
            /\ metadata[f] = "absent" => metadata'[f] = "absent" /\ sealed'[f] = "none"
            /\ metadata[f] # "absent" =>
                 metadata'[f] = MetadataOf(job[j].sum) /\ sealed'[f] = job[j].sum
        BY <1>1, <1>3, <2>2 DEF TypeOK
      <3>3. SerialJob(j)'
        BY <3>1 DEF SerialJob
      <3>4. ASSUME NEW g \in Files PROVE SerialFile(g)'
        <4>1. SerialFile(g) /\ job[j].sum \in Sums \cup {"none"}
          BY <1>1 DEF SerialInv, TypeOK, Job
        <4> QED
          BY <1>1, <1>3, <3>2, <4>1 DEF SerialFile, MetadataOf, Sums, Captures
      <3> QED
        BY <1>2, <3>3, <3>4 DEF SerialInv
    <2> QED
      BY <1>6, <2>1, <2>2 DEF WriteMetadata
  <1> QED
    BY <1>4, <1>5, <1>6 DEF writeMetadata

LEMMA SerialVerify ==
  ASSUME SerialInv, StoreInv', NEW j \in Jobs, verifyOrBackfill(j)
  PROVE  SerialInv'
  <1> DEFINE f == FileOf(j)
  <1>1. UNCHANGED <<metadata, sealed, clock>>
    BY DEF verifyOrBackfill, Exists, ReadForVerify, ReadForBackfill, HashForVerify,
       directory, history
  <1>2. f \in Files /\ TypeOK /\ JobName(j) /\ SerialFile(f)
    BY FileOfType DEF SerialInv, StoreInv, NameInv
  <1>3. CASE Exists(j)
    <2>1. \/ \E p \in {"unlink", "meta"} : Goto(j, p)
          \/ \E r \in {"alreadyRemoved", "backupNotFound"} : End(j, r)
      BY <1>3 DEF Exists
    <2> QED
      BY <1>1, <2>1, SerialEnd, SerialGoto
  <1>4. CASE ReadForVerify(j)
    <2>1. job[j].op \in {"verify", "download"} /\ job[j].reply = "none"
      BY <1>2, <1>4 DEF ReadForVerify, At, JobName
    <2>2. CASE \E r \in {"metadataMissing", "metadataInvalid", "checksumMissing"} : End(j, r)
      BY <1>1, <2>2, SerialEnd
    <2>3. CASE \E v \in Sums : job' = [job EXCEPT ![j].seen = v, ![j].pc = "hash"]
      <3>1. /\ job'[j].op = job[j].op /\ job'[j].reply = "none"
            /\ \A k \in Jobs \ {j} : job'[k] = job[k]
        BY <1>2, <2>1, <2>3 DEF TypeOK, Job
      <3> QED
        BY <1>1, <2>1, <3>1, SerialOther
    <2> QED
      BY <1>4, <2>2, <2>3 DEF ReadForVerify
  <1>5. CASE ReadForBackfill(j)
    <2>1. CASE \E r \in {"metadataMissing", "metadataInvalid", "alreadyPresent"} : End(j, r)
      BY <1>1, <2>1, SerialEnd
    <2>2. CASE ReadsMetadata("noSum", f) /\ Goto(j, "hash")
      <3>1. metadata[f] = "noSum" /\ f \in Nat /\ clock \in Nat
        BY <1>2, <2>2, BackupAssumption DEF ReadsMetadata, TypeOK, Files
      <3>2. sealed[f] = "none" /\ f < clock
        BY <1>2, <3>1 DEF SerialFile
      <3>3. job[j].op = "backfill" /\ job[j].reply = "none"
        BY <1>2, <1>5 DEF ReadForBackfill, At, JobName
      <3>4. /\ job'[j].pc = "hash" /\ job'[j].op = "backfill" /\ job'[j].reply = "none"
            /\ FileOf(j)' = f /\ \A k \in Jobs \ {j} : job'[k] = job[k]
        BY <1>2, <2>2, <3>3, GotoFields
      <3>5. SerialJob(j)'
        BY <1>1, <3>2, <3>4 DEF SerialJob
      <3>6. ASSUME NEW k \in Jobs \ {j} PROVE SerialJob(k)'
        BY <1>1, <3>4, SerialJobKept
      <3> QED
        BY <1>1, <3>5, <3>6, SerialKept
    <2> QED
      BY <1>5, <2>1, <2>2 DEF ReadForBackfill
  <1>6. CASE HashForVerify(j)
    <2>1. job[j].op \in {"verify", "download"} /\ job[j].reply = "none"
      BY <1>2, <1>6 DEF HashForVerify, At, JobName
    <2>2. CASE \E r \in {"error", "mismatch", "valid"} : End(j, r)
      BY <1>1, <2>2, SerialEnd
    <2>3. CASE \E v \in Sums : job' = [job EXCEPT ![j].sum = v, ![j].pc = "stat"]
      <3>1. /\ job'[j].op = job[j].op /\ job'[j].reply = "none"
            /\ \A k \in Jobs \ {j} : job'[k] = job[k]
        BY <1>2, <2>1, <2>3 DEF TypeOK, Job
      <3> QED
        BY <1>1, <2>1, <3>1, SerialOther
    <2> QED
      BY <1>6, <2>2, <2>3 DEF HashForVerify, Compare
  <1> QED
    BY <1>3, <1>4, <1>5, <1>6 DEF verifyOrBackfill

LEMMA SerialDownload ==
  ASSUME SerialInv, StoreInv', NEW j \in Jobs, download(j)
  PROVE  SerialInv'
  <1>1. /\ UNCHANGED <<metadata, sealed, clock>> /\ TypeOK /\ JobName(j)
        /\ job[j].op = "download" /\ job[j].pc # "done"
    BY DEF download, StatForDownload, OpenStream, directory, history, At, SerialInv, StoreInv, NameInv
  <1>2. CASE \E r \in {"error", "backupNotFound"} : End(j, r)
    BY <1>1, <1>2, SerialEnd
  <1>3. CASE \E v \in Sums : \/ job' = [job EXCEPT ![j].size = v, ![j].pc = "open"]
                             \/ job' = [job EXCEPT ![j].sent = v, ![j].pc = "done",
                                                   ![j].reply = "streamed"]
    <2>1. job'[j].op = "download" /\ job'[j].reply \in {"none", "streamed"}
          /\ \A k \in Jobs \ {j} : job'[k] = job[k]
      BY <1>1, <1>3 DEF TypeOK, Job, JobName
    <2> QED
      BY <1>1, <2>1, SerialOther
  <1> QED
    BY <1>2, <1>3 DEF download, StatForDownload, OpenStream

LEMMA SerialInspect ==
  ASSUME SerialInv, StoreInv', NEW j \in Jobs, inspectBackup(j)
  PROVE  SerialInv'
  <1> DEFINE Fails  == \E r \in {"readFailed", "backupNotFound", "changed"} : End(j, r)
             Notes  == \E v \in Sums : \/ job' = [job EXCEPT ![j].size = v, ![j].pc = "hash"]
                                       \/ job' = [job EXCEPT ![j].sum = v, ![j].pc = "restat"]
             Answers == \E r \in {"fingerprint", "fingerprintMismatch"} :
                           job' = [job EXCEPT ![j].pc = "done", ![j].reply = r]
  <1>1. /\ UNCHANGED <<metadata, sealed, clock>> /\ TypeOK /\ JobName(j)
        /\ job[j].op = "inspect" /\ job[j].reply = "none"
    BY DEF inspectBackup, Lstat, HashForInspect, Restat, ReadForInspect, directory, history,
       At, SerialInv, StoreInv, NameInv, JobName
  <1>2. CASE Fails
    BY <1>1, <1>2, SerialEnd
  <1>3. CASE Goto(j, "meta")
    BY <1>1, <1>3, SerialGoto
  <1>4. CASE Notes
    <2>1. /\ job'[j].op = "inspect" /\ job'[j].reply = "none"
          /\ \A k \in Jobs \ {j} : job'[k] = job[k]
      BY <1>1, <1>4 DEF TypeOK, Job
    <2> QED
      BY <1>1, <2>1, SerialOther
  <1>5. CASE Answers
    <2>1. PICK r \in {"fingerprint", "fingerprintMismatch"} :
            job' = [job EXCEPT ![j].pc = "done", ![j].reply = r]
      BY <1>5
    <2>2. /\ job'[j].op = "inspect" /\ job'[j].reply = r
          /\ \A k \in Jobs \ {j} : job'[k] = job[k]
      BY <1>1, <2>1 DEF TypeOK, Job
    <2> QED
      BY <1>1, <2>2, SerialOther
  <1>6. Lstat(j) \/ HashForInspect(j) => Fails \/ Notes
    BY DEF Lstat, HashForInspect
  <1>7. Restat(j) => Fails \/ Goto(j, "meta")
    BY DEF Restat
  <1>8. ReadForInspect(j) => Answers
    BY DEF ReadForInspect
  <1> QED
    BY <1>2, <1>3, <1>4, <1>5, <1>6, <1>7, <1>8 DEF inspectBackup

LEMMA SerialDelete ==
  ASSUME OneAtATime, SerialInv, StoreInv', NEW j \in Jobs, deleteTs3BackupFile(j)
  PROVE  SerialInv'
  <1> DEFINE f == FileOf(j)
  <1>1. /\ f \in Files /\ TypeOK /\ \A k \in Jobs : k = j
        /\ UNCHANGED <<sealed, clock>>
    BY FileOfType DEF SerialInv, StoreInv, NameInv, OneAtATime, deleteTs3BackupFile, Unlink,
       MetadataExists, UnlinkMetadata, directory, history
  <1>2. CASE metadata' = metadata /\ \E r \in {"error", "deleted", "metadataDeleteFailed"} : End(j, r)
    BY <1>1, <1>2, SerialEnd
  <1>3. CASE metadata' = metadata /\ \E p \in {"metaExists", "metaUnlink"} : Goto(j, p)
    BY <1>1, <1>3, SerialGoto
  <1>4. CASE metadata' = [metadata EXCEPT ![f] = "absent"] /\ End(j, "deletedWithMetadata")
    <2>1. /\ metadata'[f] = "absent" /\ \A g \in Files \ {f} : metadata'[g] = metadata[g]
          /\ job'[j].pc = "done" /\ f' = f
      BY <1>1, <1>4, EndFields DEF TypeOK
    <2>2. SerialJob(j)'
      BY <2>1 DEF SerialJob
    <2>3. ASSUME NEW g \in Files PROVE SerialFile(g)'
      <3>1. SerialFile(g)
        BY DEF SerialInv
      <3>2. CASE g = f
        <4>1. f >= clock => sealed[f] = "none"
          BY <3>1, <3>2 DEF SerialFile
        <4> QED
          BY <1>1, <2>1, <3>2, <4>1 DEF SerialFile, Sums, Captures
      <3>3. CASE g # f
        BY <1>1, <2>1, <3>1, <3>3 DEF SerialFile
      <3> QED
        BY <3>2, <3>3
    <2> QED
      BY <1>1, <2>2, <2>3 DEF SerialInv
  <1> QED
    BY <1>2, <1>3, <1>4 DEF deleteTs3BackupFile, Unlink, MetadataExists, UnlinkMetadata, directory

\* Helpers, the server, time, crashes and other users of the directory.
LEMMA SerialWorld ==
  ASSUME SerialInv, StoreInv',
         \/ \E f \in Files : HelperDone(f) \/ HelperFails(f) \/ Damage(f)
         \/ ServerStep \/ Tick \/ AgentCrash
  PROVE  SerialInv'
  <1>1. UNCHANGED <<metadata, sealed>> /\ clock' \in {clock, clock + 1} /\ TypeOK
    BY DEF HelperDone, HelperFails, Damage, ServerStep, TakeIntoUse, CreateContainer,
       StartContainer, StopContainer, RemoveContainer, RemoveVolume, Tick, AgentCrash,
       directory, history, SerialInv, StoreInv, NameInv
  <1>2. CASE UNCHANGED job
    BY <1>1, <1>2, SerialJobKept, SerialKept
  <1>3. ASSUME NEW f \in Files, HelperDone(f) PROVE SerialInv'
    <2>1. ASSUME NEW j \in Jobs PROVE SerialJob(j)'
      <3>1. CASE Waits(j, f)
        <4>1. /\ job[j].op = "backup" /\ job[j].reply = "none" /\ FileOf(j) = f
              /\ sealed[f] = "none"
          BY <3>1 DEF Waits, SerialInv, StoreInv, NameInv, JobName, SerialJob, FileOf
        <4>2. job'[j] = [job[j] EXCEPT !.pc = "hash"]
          BY <1>3, <3>1 DEF HelperDone
        <4>3. /\ job'[j].op = "backup" /\ job'[j].reply = "none" /\ FileOf(j)' = f
          BY <1>1, <4>1, <4>2 DEF TypeOK, Job, FileOf
        <4>4. f < clock /\ clock' = clock
          BY <1>3 DEF HelperDone
        <4> QED
          BY <1>1, <4>1, <4>3, <4>4 DEF SerialJob
      <3>2. CASE ~Waits(j, f)
        <4>1. job'[j] = job[j]
          BY <1>3, <3>2 DEF HelperDone
        <4> QED
          BY <1>1, <4>1, SerialJobKept
      <3> QED
        BY <3>1, <3>2
    <2> QED
      BY <1>1, <2>1, SerialKept
  <1>4. ASSUME NEW f \in Files, HelperFails(f) PROVE SerialInv'
    <2>1. ASSUME NEW j \in Jobs PROVE SerialJob(j)'
      <3>1. CASE Waits(j, f)
        <4>1. job'[j] = [NewJob("backup", f, "done") EXCEPT !.reply = "error"]
          BY <1>4, <3>1 DEF HelperFails
        <4> QED
          BY <4>1 DEF SerialJob, NewJob
      <3>2. CASE ~Waits(j, f)
        <4>1. job'[j] = job[j]
          BY <1>4, <3>2 DEF HelperFails
        <4> QED
          BY <1>1, <4>1, SerialJobKept
      <3> QED
        BY <3>1, <3>2
    <2> QED
      BY <1>1, <2>1, SerialKept
  <1>5. CASE AgentCrash
    <2>1. ASSUME NEW j \in Jobs PROVE SerialJob(j)'
      <3>1. CASE job[j].pc = "done"
        <4>1. job'[j] = job[j]
          BY <1>5, <3>1 DEF AgentCrash
        <4> QED
          BY <1>1, <4>1, SerialJobKept
      <3>2. CASE job[j].pc # "done"
        <4>1. job'[j] = Dead
          BY <1>5, <3>2 DEF AgentCrash
        <4> QED
          BY <4>1 DEF SerialJob, Dead, NewJob
      <3> QED
        BY <3>1, <3>2
    <2> QED
      BY <1>1, <2>1, SerialKept
  <1>6. ServerStep \/ Tick \/ (\E f \in Files : Damage(f)) => UNCHANGED job
    BY DEF Damage, ServerStep, TakeIntoUse, CreateContainer, StartContainer, StopContainer,
       RemoveContainer, RemoveVolume, Tick
  <1> QED
    BY <1>2, <1>3, <1>4, <1>5, <1>6

LEMMA SerialStep ==
  ASSUME OneAtATime
  PROVE  SerialInv /\ [Next]_vars => SerialInv'
  <1> SUFFICES ASSUME SerialInv, [Next]_vars PROVE SerialInv'
    OBVIOUS
  <1>1. StoreInv'
    BY StoreStep DEF SerialInv
  <1>2. CASE UNCHANGED vars
    BY <1>1, <1>2 DEF vars, SerialInv, SerialFile, SerialJob, FileOf
  <1>3. ASSUME NEW j \in Jobs, JobStep(j) PROVE SerialInv'
    BY <1>1, <1>3, SerialSubmit, SerialBackup, SerialWrite, SerialVerify, SerialDownload,
       SerialInspect, SerialDelete DEF JobStep
  <1> QED
    BY <1>1, <1>2, <1>3, SerialWorld DEF Next

LEMMA SerialInvariant ==
  ASSUME OneAtATime
  PROVE  Spec => []SerialInv
  BY SerialInit, SerialStep, PTL DEF Spec

\* While requests do not overlap, a recorded checksum is never replaced by
\* another, however often backups and backfills fail half-way.
THEOREM ChecksumStays ==
  ASSUME OneAtATime
  PROVE  Spec => []ChecksumIsNeverReplaced
  <1>1. SerialInv => ChecksumIsNeverReplaced
    BY DEF SerialInv, SerialFile, ChecksumIsNeverReplaced
  <1> QED
    BY <1>1, SerialInvariant, PTL

-----------------------------------------------------------------------------
(* What a delete leaves, as long as requests do not overlap.               *)

Success == {"deleted", "deletedWithMetadata"}

\* Once unlinked the archive stays away, and so does unlinked metadata.
Gone(j) ==
  LET f == FileOf(j)
  IN  /\ job[j].pc \in {"metaExists", "metaUnlink"} => archive[f] = "none"
      /\ job[j].reply \in Success =>
           /\ archive[f] = "none"
           /\ metadata[f] = "absent"
              \/ (job[j].reply = "deleted" /\ "disk" \in Faults /\ faults > 0)

DeleteInv == NameInv /\ \A j \in Jobs : Gone(j)

\* The handlers of the other operations give no such answer.
LEMMA OtherAnswers ==
  ASSUME NameInv, NEW j \in Jobs, JobStep(j), ~deleteTs3BackupFile(j)
  PROVE  job'[j].pc \notin {"metaExists", "metaUnlink"} /\ job'[j].reply \notin Success
  <1>1. TypeOK /\ JobName(j)
    BY DEF NameInv
  <1>2. CASE \E o \in Operations, f \in Files : Submit(j, o, f)
    <2>1. PICK o \in Operations, f \in Files : job' = [job EXCEPT ![j] = NewJob(o, f, FirstStep(o))]
      BY <1>2 DEF Submit
    <2>2. FirstStep(o) \in {"probe", "lstat", "exists"}
      BY DEF FirstStep, Operations
    <2>3. job'[j] = NewJob(o, f, FirstStep(o))
      BY <1>1, <2>1 DEF TypeOK
    <2> QED
      BY <2>2, <2>3 DEF NewJob, Success
  <1>3. CASE ~\E o \in Operations, f \in Files : Submit(j, o, f)
    <2>1. job[j].reply = "none"
      <3>1. job[j].pc # "done"
        BY <1>1, <1>3, OrdinaryShape DEF JobStep, Ordinary, backupTs3Volume, FindImage,
           StartHelper, At
      <3> QED
        BY <1>1, <3>1 DEF JobName
    <2>2. CASE \E r \in Replies \ Success : End(j, r)
      BY <1>1, <2>2, EndFields
    <2>3. CASE \E p \in Pcs \ {"metaExists", "metaUnlink"} : Goto(j, p)
      BY <1>1, <2>1, <2>3, GotoFields DEF Success
    <2>4. CASE \E v \in Sums \cup {"none"} :
                 \/ job' = [job EXCEPT ![j].seen = v, ![j].pc = "hash"]
                 \/ job' = [job EXCEPT ![j].sum = v, ![j].pc = "trunc"]
                 \/ job' = [job EXCEPT ![j].sum = v, ![j].pc = "stat"]
                 \/ job' = [job EXCEPT ![j].sum = v, ![j].pc = "restat"]
                 \/ job' = [job EXCEPT ![j].size = v, ![j].pc = "open"]
                 \/ job' = [job EXCEPT ![j].size = v, ![j].pc = "hash"]
                 \/ job' = [job EXCEPT ![j].sent = v, ![j].pc = "done", ![j].reply = "streamed"]
      <3>1. /\ job'[j].pc \in {"hash", "trunc", "stat", "restat", "open", "done"}
            /\ job'[j].reply \in {"none", "streamed"}
        BY <1>1, <2>1, <2>4 DEF TypeOK, Job
      <3> QED
        BY <3>1 DEF Success
    <2>5. CASE \E r \in {"fingerprint", "fingerprintMismatch"} :
                 job' = [job EXCEPT ![j].pc = "done", ![j].reply = r]
      <3>1. job'[j].pc = "done" /\ job'[j].reply \in {"fingerprint", "fingerprintMismatch"}
        BY <1>1, <2>5 DEF TypeOK, Job
      <3> QED
        BY <3>1 DEF Success
    <2>6. CASE job' = [job EXCEPT ![j].file = safeTimestamp, ![j].pc = "run"]
      <3>1. job'[j].pc = "run" /\ job'[j].reply = "none"
        BY <1>1, <2>1, <2>6 DEF TypeOK, Job
      <3> QED
        BY <3>1 DEF Success
    <2>7. CASE backupTs3Volume(j)
      BY <2>2, <2>3, <2>6, <2>7 DEF backupTs3Volume, Probe, FindContainer, FindManagedVolume,
         FindAnyVolume, FindImage, StartHelper, RunTimeout, AfterStart, Pcs, Replies, Success
    <2>8. CASE writeMetadata(j)
      BY <2>2, <2>3, <2>4, <2>8 DEF writeMetadata, HashForMetadata, Truncate, WriteMetadata,
         Pcs, Replies, Success
    <2>9. CASE Exists(j) \/ ReadForVerify(j) \/ ReadForBackfill(j)
      BY <2>2, <2>3, <2>4, <2>9 DEF Exists, ReadForVerify, ReadForBackfill, Pcs, Replies,
         Success
    <2>10. CASE HashForVerify(j)
      BY <2>2, <2>4, <2>10 DEF HashForVerify, Compare, Replies, Success
    <2>11. CASE download(j)
      BY <2>2, <2>4, <2>11 DEF download, StatForDownload, OpenStream, Replies, Success
    <2>12. CASE inspectBackup(j)
      BY <2>2, <2>3, <2>4, <2>5, <2>12 DEF inspectBackup, Lstat, HashForInspect, Restat,
         ReadForInspect, Pcs, Replies, Success
    <2> QED
      BY <1>3, <2>7, <2>8, <2>9, <2>10, <2>11, <2>12 DEF JobStep, verifyOrBackfill
  <1> QED
    BY <1>2, <1>3

LEMMA DeleteAnswers ==
  ASSUME NameInv, NEW j \in Jobs, Gone(j), deleteTs3BackupFile(j)
  PROVE  Gone(j)'
  <1> DEFINE f == FileOf(j)
  <1>1. TypeOK /\ f \in Files /\ JobName(j) /\ faults \in Nat
    BY FileOfType, BackupAssumption DEF NameInv, TypeOK
  <1>2. job[j].reply = "none"
    BY <1>1 DEF JobName, deleteTs3BackupFile, Unlink, MetadataExists, UnlinkMetadata, At
  <1>3. CASE \E r \in {"error", "metadataDeleteFailed"} : End(j, r)
    BY <1>1, <1>3, EndFields DEF Gone, Success
  <1>4. CASE Unlink(j) /\ Goto(j, "metaExists") /\ archive' = [archive EXCEPT ![f] = "none"]
    BY <1>1, <1>2, <1>4, GotoFields DEF Gone, Success, TypeOK
  <1>5. CASE MetadataExists(j)
    <2>1. archive' = archive /\ metadata' = metadata /\ archive[f] = "none"
      BY <1>5 DEF MetadataExists, At, Gone, directory
    <2>2. CASE Goto(j, "metaUnlink")
      BY <1>1, <1>2, <2>1, <2>2, GotoFields DEF Gone, Success
    <2>3. CASE End(j, "deleted") /\ Sees(metadata[f] # "absent", FALSE, "disk")
      <3>1. metadata[f] = "absent" \/ ("disk" \in Faults /\ faults' > 0)
        BY <1>1, <2>3 DEF Sees, Inject
      <3>2. job'[j].pc = "done" /\ job'[j].reply = "deleted" /\ f' = f
        BY <1>1, <2>3, EndFields
      <3> QED
        BY <2>1, <3>1, <3>2 DEF Gone
    <2> QED
      BY <1>5, <2>2, <2>3 DEF MetadataExists
  <1>6. CASE UnlinkMetadata(j) /\ End(j, "deletedWithMetadata")
             /\ metadata' = [metadata EXCEPT ![f] = "absent"]
    <2>1. archive' = archive /\ archive[f] = "none" /\ metadata'[f] = "absent"
      BY <1>1, <1>6 DEF UnlinkMetadata, At, Gone, TypeOK
    <2>2. job'[j].pc = "done" /\ f' = f
      BY <1>1, <1>6, EndFields
    <2> QED
      BY <2>1, <2>2 DEF Gone
  <1> QED
    BY <1>3, <1>4, <1>5, <1>6 DEF deleteTs3BackupFile, Unlink, UnlinkMetadata

LEMMA DeleteStays ==
  ASSUME OneAtATime
  PROVE  DeleteInv /\ [Next]_vars => DeleteInv'
  <1> SUFFICES ASSUME DeleteInv, [Next]_vars PROVE DeleteInv'
    OBVIOUS
  <1>1. NameInv' /\ TypeOK /\ NameInv
    BY NameStep DEF DeleteInv, NameInv
  <1> SUFFICES ASSUME NEW j \in Jobs PROVE Gone(j)'
    BY <1>1 DEF DeleteInv
  <1>2. CASE JobStep(j)
    <2>1. CASE deleteTs3BackupFile(j)
      BY <1>1, <2>1, DeleteAnswers DEF DeleteInv
    <2>2. CASE ~deleteTs3BackupFile(j)
      BY <1>1, <1>2, <2>2, OtherAnswers DEF Gone
    <2> QED
      BY <2>1, <2>2
  <1>3. ASSUME job'[j] = job[j], metadata' = metadata, faults' >= faults,
               \A f \in Files : archive[f] = "none" => archive'[f] = "none"
        PROVE  Gone(j)'
    <2>1. Gone(j) /\ FileOf(j) \in Files /\ FileOf(j)' = FileOf(j)
          /\ faults \in Nat /\ faults' \in Nat
      BY <1>1, <1>3, FileOfType, BackupAssumption DEF DeleteInv, NameInv, TypeOK, FileOf
    <2> QED
      BY <1>3, <2>1 DEF Gone
  <1>4. faults \in Nat
    BY <1>1, BackupAssumption DEF TypeOK
  <1>5. ASSUME NEW f \in Files, HelperDone(f) \/ HelperFails(f) PROVE Gone(j)'
    <2>1. /\ metadata' = metadata /\ faults' >= faults
          /\ \A g \in Files : archive[g] = "none" => archive'[g] = "none"
      BY <1>1, <1>4, <1>5 DEF HelperDone, HelperFails, Inject, directory, TypeOK
    <2>2. CASE job'[j] = [job[j] EXCEPT !.pc = "hash"] /\ job[j].pc = "wait"
      <3>1. job'[j].pc = "hash" /\ job'[j].reply = "none"
        BY <1>1, <2>2 DEF NameInv, JobName, TypeOK, Job
      <3> QED
        BY <3>1 DEF Gone, Success
    <2>3. CASE job'[j] = [NewJob("backup", f, "done") EXCEPT !.reply = "error"]
      BY <2>3 DEF NewJob, Gone, Success
    <2>4. CASE job'[j] = job[j]
      BY <1>3, <2>1, <2>4
    <2> QED
      BY <1>5, <2>2, <2>3, <2>4 DEF HelperDone, HelperFails, Waits
  <1>6. CASE \/ ServerStep \/ Tick \/ AgentCrash \/ (\E f \in Files : Damage(f))
             \/ UNCHANGED vars
    <2>1. UNCHANGED <<metadata, archive>> /\ faults' >= faults
      BY <1>4, <1>6 DEF ServerStep, TakeIntoUse, CreateContainer, StartContainer,
         StopContainer, RemoveContainer, RemoveVolume, Tick, AgentCrash, Damage, Inject,
         directory, vars
    <2>2. CASE job'[j] = Dead
      BY <2>2 DEF Dead, NewJob, Gone, Success
    <2>3. CASE job'[j] = job[j]
      BY <1>3, <2>1, <2>3
    <2> QED
      BY <1>6, <2>2, <2>3 DEF ServerStep, TakeIntoUse, CreateContainer, StartContainer,
         StopContainer, RemoveContainer, RemoveVolume, Tick, AgentCrash, Damage, vars
  <1> QED
    BY <1>2, <1>5, <1>6 DEF Next, OneAtATime

LEMMA DeleteInit == Init => DeleteInv
  BY NameInit DEF Init, DeleteInv, Gone, NewJob, Success

\* While requests do not overlap, a delete that answers success has removed the
\* archive, and its metadata unless it did not say so and a file access failed,
\* whatever else fails, times out or dies.
THEOREM DeleteCorrect ==
  ASSUME OneAtATime
  PROVE  Spec => []DeletedLeavesNothing
  <1>1. DeleteInv => DeletedLeavesNothing
    BY DEF DeleteInv, Gone, Success, DeletedLeavesNothing
  <1> QED
    BY <1>1, DeleteInit, DeleteStays, PTL DEF Spec

=============================================================================
