---------------------------- MODULE BackupStore ----------------------------
(***************************************************************************)
(* The backups of one managed server: the handlers of apps/agent/src that  *)
(* make, verify, inspect, complete, stream and delete a backup, with the   *)
(* web services that call them, on one directory of archives (tar.gz) and  *)
(* metadata files.                                                         *)
(*                                                                         *)
(* A job is one request.  Every docker call, every file access and every   *)
(* hash of a file is a step of its own; nothing locks the directory, so    *)
(* jobs interleave.  The archive itself is written by a helper container   *)
(* that docker runs and that outlives the handler which started it.        *)
(*                                                                         *)
(* An archive is abstracted to what it captured, a SHA-256 to the content  *)
(* it was computed from, a file name to its time stamp, and metadata to    *)
(* the checksum in it.  Name checks, confirmations, audit entries and rate *)
(* limits refuse a request before it touches anything and are left out.    *)
(*                                                                         *)
(* A definition whose name begins with Bug_ is not part of the model: it   *)
(* is the next definition with a plausible mistake.                        *)
(***************************************************************************)
EXTENDS Naturals

CONSTANTS
  Jobs,       \* requests that can be under way at the same time
  Ops,        \* the operations the owner uses in this instance
  Lifecycle,  \* TRUE: the server's container and volume change meanwhile
  LastStamp,  \* bound on the clock, and so on the number of backups
  Faults,     \* the kinds of fault that can happen
  MaxFaults   \* bound on the number of faults of a behaviour

Operations == {"backup", "verify", "download", "backfill", "inspect", "delete"}

FaultKinds ==
  {"probe",    \* the first docker call fails
   "list",     \* a later docker listing fails, which reads as an empty list
   "command",  \* `docker run` fails at once
   "helper",   \* the helper container fails and leaves what it wrote
   "timeout",  \* `docker run` is killed after 300 s, the helper goes on
   "disk",     \* a file access fails
   "crash",    \* the agent process dies, its helpers go on
   "damage"}   \* somebody changes an archive outside SpeakCore

ASSUME BackupAssumption ==
  /\ Ops \subseteq Operations
  /\ Lifecycle \in BOOLEAN
  /\ LastStamp \in Nat \ {0}
  /\ Faults \subseteq FaultKinds
  /\ MaxFaults \in Nat

VARIABLES
  inUse,          \* database: the server is past RESOURCES_PREPARED
  volumeRemoved,  \* database: managedVolumeState is "removed"
  container,      \* docker: the server's container
  volume,         \* docker: the server's volume
  helper,         \* docker: what the helper writing a file captures, if it runs
  archive,        \* directory: the archive of each file name
  metadata,       \* directory: the metadata of each file name
  clock,          \* the agent's clock in milliseconds
  job,            \* the handler of each job
  naming,         \* history: what became of each file name
  damaged,        \* history: files somebody damaged
  deleted,        \* history: files whose archive was deleted
  sealed,         \* history: the first checksum recorded for each file
  faults          \* number of faults so far

server    == <<inUse, volumeRemoved, container, volume>>
directory == <<archive, metadata>>
history   == <<naming, damaged, deleted, sealed>>
vars == <<inUse, volumeRemoved, container, volume, helper, archive, metadata,
          clock, job, naming, damaged, deleted, sealed, faults>>

-----------------------------------------------------------------------------
(* State.                                                                  *)

\* A file is named by the time it was started at; file 0 is an older backup.
Files == 0 .. LastStamp

\* A name is free, given to one backup, used by its helper, or shared by two.
Namings == {"free", "given", "used", "shared"}
Shared  == {f \in Files : naming[f] = "shared"}

\* What a helper captures: the managed volume at rest, the managed volume while
\* the server runs, or a volume that is not SpeakCore's.
Captures == {"data", "hot", "other"}
Archives == Captures \cup {"none", "part"}
Sums     == Captures \cup {"part", "rot"}
Metadata == Sums \cup {"absent", "torn", "noSum"}

Pcs ==
  {"done", "probe", "containers", "managed", "any", "image", "run", "wait",
   "exists", "meta", "hash", "trunc", "write", "stat", "open", "lstat", "restat",
   "unlink", "metaExists", "metaUnlink"}

Replies ==
  {"none", "lost", "unavailable", "containerStillExists", "volumeNotManaged",
   "volumeNotFound", "imageUnavailable", "created", "error", "backupNotFound",
   "metadataMissing", "metadataInvalid", "checksumMissing", "alreadyPresent",
   "updated", "valid", "mismatch", "streamed", "readFailed", "changed",
   "fingerprint", "fingerprintMismatch", "alreadyRemoved", "deleted",
   "deletedWithMetadata", "metadataDeleteFailed"}

Job ==
  [op    : Operations,
   pc    : Pcs,
   file  : Files,
   seen  : Sums \cup {"none"},  \* the checksum the metadata had
   sum   : Sums \cup {"none"},  \* the checksum the handler computed
   size  : Sums \cup {"none"},  \* size and mtime the first stat returned
   sent  : Sums \cup {"none"},  \* the content that was streamed
   reply : Replies]

NewJob(o, f, p) ==
  [op |-> o, pc |-> p, file |-> f, seen |-> "none", sum |-> "none",
   size |-> "none", sent |-> "none", reply |-> "none"]

TypeOK ==
  /\ inUse \in BOOLEAN /\ volumeRemoved \in BOOLEAN
  /\ container \in {"none", "stopped", "running"}
  /\ volume \in {"none", "managed", "unlabelled"}
  /\ helper \in [Files -> Captures \cup {"none"}]
  /\ archive \in [Files -> Archives]
  /\ metadata \in [Files -> Metadata]
  /\ clock \in Files
  /\ job \in [Jobs -> Job]
  /\ naming \in [Files -> Namings]
  /\ damaged \subseteq Files /\ deleted \subseteq Files
  /\ sealed \in [Files -> Sums \cup {"none"}]
  /\ faults \in 0 .. MaxFaults

\* A prepared server with one backup, made before or after checksums existed.
Init ==
  /\ inUse = FALSE /\ volumeRemoved = FALSE
  /\ container = "none" /\ volume = "managed"
  /\ helper = [f \in Files |-> "none"]
  /\ archive = [f \in Files |-> IF f = 0 THEN "data" ELSE "none"]
  /\ \E old \in {"noSum", "data"} :
       /\ metadata = [f \in Files |-> IF f = 0 THEN old ELSE "absent"]
       /\ sealed = [f \in Files |-> IF f = 0 /\ old = "data" THEN old ELSE "none"]
  /\ clock = 1
  /\ job = [j \in Jobs |-> NewJob("verify", 0, "done")]
  /\ naming = [f \in Files |-> IF f = 0 THEN "used" ELSE "free"]
  /\ damaged = {} /\ deleted = {}
  /\ faults = 0

Inject(kind) ==
  /\ kind \in Faults
  /\ faults < MaxFaults
  /\ faults' = faults + 1

\* The result of a look that should show `truth`; a failed one shows nothing.
Sees(truth, seen, kind) ==
  \/ seen = truth /\ UNCHANGED faults
  \/ truth /\ ~seen /\ Inject(kind)

\* SHA-256, and equally size and mtime, of a file; "none" if it cannot be read.
Digest(f) ==
  IF archive[f] = "none" THEN "none" ELSE IF f \in damaged THEN "rot" ELSE archive[f]

\* A handler's read of it; every reader catches its errors.
Reads(value, f) ==
  \/ value = Digest(f) /\ UNCHANGED faults
  \/ value = "none" /\ Digest(f) # "none" /\ Inject("disk")

FileOf(j)  == job[j].file
At(j, os, p) == job[j].pc = p /\ job[j].op \in os
Goto(j, p) == job' = [job EXCEPT ![j].pc = p]
\* A handler returns; its variables die with it unless the reply reports them.
End(j, r)  == job' = [job EXCEPT ![j] = [NewJob(@.op, @.file, "done") EXCEPT !.reply = r]]

-----------------------------------------------------------------------------
(* Requests.                                                               *)

FirstStep(o) ==
  CASE o = "backup"  -> "probe"
    [] o = "inspect" -> "lstat"
    [] OTHER         -> "exists"

\* The owner asks for an operation on a file some page has listed.  The backup
\* service reads the record; the others do not depend on it.
Submit(j, o, f) ==
  /\ job[j].pc = "done" /\ o \in Ops
  /\ IF o = "backup" THEN ~inUse /\ ~volumeRemoved /\ f = 0
                     ELSE archive[f] # "none" \/ f \in deleted
  /\ job' = [job EXCEPT ![j] = NewJob(o, f, FirstStep(o))]
  /\ UNCHANGED <<server, helper, directory, clock, history, faults>>

-----------------------------------------------------------------------------
(* backupTs3Volume.                                                        *)

Probe(j) ==
  /\ At(j, {"backup"}, "probe")
  /\ \/ Goto(j, "containers") /\ UNCHANGED faults
     \/ End(j, "unavailable") /\ Inject("probe")
  /\ UNCHANGED <<server, helper, directory, clock, history>>

FindContainer(j) ==
  /\ At(j, {"backup"}, "containers")
  /\ \E seen \in BOOLEAN :
       /\ Sees(container # "none", seen, "list")
       /\ IF seen THEN End(j, "containerStillExists") ELSE Goto(j, "managed")
  /\ UNCHANGED <<server, helper, directory, clock, history>>

FindManagedVolume(j) ==
  /\ At(j, {"backup"}, "managed")
  /\ \E seen \in BOOLEAN :
       /\ Sees(volume = "managed", seen, "list")
       /\ Goto(j, IF seen THEN "image" ELSE "any")
  /\ UNCHANGED <<server, helper, directory, clock, history>>

FindAnyVolume(j) ==
  /\ At(j, {"backup"}, "any")
  /\ \E seen \in BOOLEAN :
       /\ Sees(volume # "none", seen, "list")
       /\ End(j, IF seen THEN "volumeNotManaged" ELSE "volumeNotFound")
  /\ UNCHANGED <<server, helper, directory, clock, history>>

Bug_Seconds == clock - (clock % 2)
\* A file, and the helper that writes it, is named by the clock.
safeTimestamp == clock

\* The name is taken as soon as the image is found, in the same turn of the
\* event loop.  Nothing reserves it until docker carries out the run.
FindImage(j) ==
  /\ At(j, {"backup"}, "image")
  /\ \E seen \in BOOLEAN :
       /\ Sees(TRUE, seen, "list")
       /\ IF seen
          THEN /\ job' = [job EXCEPT ![j].file = safeTimestamp, ![j].pc = "run"]
               /\ naming' = [naming EXCEPT ![safeTimestamp] =
                               IF @ = "free" THEN "given" ELSE "shared"]
          ELSE End(j, "imageUnavailable") /\ UNCHANGED naming
  /\ UNCHANGED <<server, helper, directory, clock, damaged, deleted, sealed>>

Captured ==
  IF volume # "managed" THEN "other" ELSE IF container = "running" THEN "hot" ELSE "data"

Bug_NotAwaited == "hash"
\* The handler waits for the end of `docker run`.
AfterStart == "wait"

\* Docker refuses a helper while one of the same name runs; one that has ended is
\* gone (--rm), and tar truncates the archive that is there.  `-v` makes a
\* missing volume, without labels.
StartHelper(j) ==
  LET f == FileOf(j)
  IN  /\ At(j, {"backup"}, "run")
      /\ \/ /\ helper[f] = "none"
            /\ helper' = [helper EXCEPT ![f] = Captured]
            /\ archive' = [archive EXCEPT ![f] = "part"]
            /\ volume' = IF volume = "none" THEN "unlabelled" ELSE volume
            /\ naming' = [naming EXCEPT ![f] = IF @ = "given" THEN "used" ELSE @]
            /\ Goto(j, AfterStart) /\ UNCHANGED faults
         \/ /\ helper[f] # "none" /\ UNCHANGED faults
            /\ End(j, "error") /\ UNCHANGED <<helper, archive, volume, naming>>
         \/ /\ Inject("command")
            /\ End(j, "error") /\ UNCHANGED <<helper, archive, volume, naming>>
      /\ UNCHANGED <<inUse, volumeRemoved, container, metadata, clock,
                     damaged, deleted, sealed>>

Waits(j, f) == job[j].pc = "wait" /\ job[j].file = f

\* The helper ends, which takes longer than a millisecond, and tells the handler
\* if it still waits.  A file unlinked meanwhile stays away.
HelperDone(f) ==
  /\ helper[f] # "none" /\ f < clock
  /\ helper' = [helper EXCEPT ![f] = "none"]
  /\ archive' = [archive EXCEPT ![f] = IF @ = "none" THEN "none" ELSE helper[f]]
  /\ job' = [j \in Jobs |-> IF Waits(j, f) THEN [job[j] EXCEPT !.pc = "hash"] ELSE job[j]]
  /\ UNCHANGED <<server, metadata, clock, history, faults>>

Bug_FailedRunIsUsed(f) ==
  /\ helper[f] # "none" /\ f < clock
  /\ Inject("helper")
  /\ helper' = [helper EXCEPT ![f] = "none"]
  /\ job' = [j \in Jobs |-> IF Waits(j, f) THEN [job[j] EXCEPT !.pc = "hash"] ELSE job[j]]
  /\ UNCHANGED <<server, directory, clock, history>>

\* What the helper had written stays: nothing cleans up.
HelperFails(f) ==
  /\ helper[f] # "none" /\ f < clock
  /\ Inject("helper")
  /\ helper' = [helper EXCEPT ![f] = "none"]
  /\ job' = [j \in Jobs |->
       IF Waits(j, f) THEN [NewJob("backup", f, "done") EXCEPT !.reply = "error"] ELSE job[j]]
  /\ UNCHANGED <<server, directory, clock, history>>

RunTimeout(j) ==
  /\ At(j, {"backup"}, "wait") /\ FileOf(j) < clock
  /\ Inject("timeout")
  /\ End(j, "error")
  /\ UNCHANGED <<server, helper, directory, clock, history>>

-----------------------------------------------------------------------------
(* Metadata is written by a backup and by a backfill.                      *)

\* A backup without a readable archive gets metadata without a checksum.
HashForMetadata(j) ==
  /\ At(j, {"backup", "backfill"}, "hash")
  /\ \E value \in Sums \cup {"none"} :
       /\ Reads(value, FileOf(j))
       /\ IF value = "none" /\ job[j].op = "backfill"
          THEN End(j, "error")
          ELSE job' = [job EXCEPT ![j].sum = value, ![j].pc = "trunc"]
  /\ UNCHANGED <<server, helper, directory, clock, history>>

\* writeFile opens and truncates the file, and then writes it.
Truncate(j) ==
  /\ At(j, {"backup", "backfill"}, "trunc")
  /\ \/ /\ metadata' = [metadata EXCEPT ![FileOf(j)] = "torn"]
        /\ Goto(j, "write") /\ UNCHANGED faults
     \/ Inject("disk") /\ End(j, "error") /\ UNCHANGED metadata
  /\ UNCHANGED <<server, helper, archive, clock, history>>

Bug_NullChecksum(sum) == sum
\* Without a checksum the field is left out.
MetadataOf(sum) == IF sum = "none" THEN "noSum" ELSE sum

\* A file unlinked since it was opened does not come back by writing to it.
WriteMetadata(j) ==
  LET f == FileOf(j)
  IN  /\ At(j, {"backup", "backfill"}, "write")
      /\ \/ /\ UNCHANGED faults
            /\ metadata' = [metadata EXCEPT ![f] =
                 IF @ = "absent" THEN @ ELSE MetadataOf(job[j].sum)]
            /\ sealed' = [sealed EXCEPT ![f] =
                 IF @ = "none" /\ metadata[f] # "absent" THEN job[j].sum ELSE @]
            /\ End(j, IF job[j].op = "backup" THEN "created" ELSE "updated")
         \/ Inject("disk") /\ End(j, "error") /\ UNCHANGED <<metadata, sealed>>
      /\ UNCHANGED <<server, helper, archive, clock, naming, damaged, deleted>>

-----------------------------------------------------------------------------
(* verifyTs3VolumeBackup, on its own and as the first half of a download,  *)
(* and backfillBackupChecksum.                                             *)

\* stat of the archive; an error reads as a missing file.
Exists(j) ==
  /\ At(j, {"verify", "download", "backfill", "delete"}, "exists")
  /\ \E seen \in BOOLEAN :
       /\ Sees(archive[FileOf(j)] # "none", seen, "disk")
       /\ IF seen THEN Goto(j, IF job[j].op = "delete" THEN "unlink" ELSE "meta")
                  ELSE End(j, IF job[j].op = "delete" THEN "alreadyRemoved" ELSE "backupNotFound")
  /\ UNCHANGED <<server, helper, directory, clock, history>>

\* What readMetadataFile and the sanitizer make of a metadata file.
ReadsMetadata(value, f) ==
  \/ value = metadata[f] /\ UNCHANGED faults
  \/ value = "absent" /\ metadata[f] # "absent" /\ Inject("disk")

ReadForVerify(j) ==
  /\ At(j, {"verify", "download"}, "meta")
  /\ \E value \in Metadata :
       /\ ReadsMetadata(value, FileOf(j))
       /\ \/ value = "absent" /\ End(j, "metadataMissing")
          \/ value = "torn"   /\ End(j, "metadataInvalid")
          \/ value = "noSum"  /\ End(j, "checksumMissing")
          \/ value \in Sums   /\ job' = [job EXCEPT ![j].seen = value, ![j].pc = "hash"]
  /\ UNCHANGED <<server, helper, directory, clock, history>>

Bug_PresentIsReplaced(j) ==
  /\ At(j, {"backfill"}, "meta")
  /\ \E value \in Metadata :
       /\ ReadsMetadata(value, FileOf(j))
       /\ \/ value = "absent" /\ End(j, "metadataMissing")
          \/ value = "torn"   /\ End(j, "metadataInvalid")
          \/ value \notin {"absent", "torn"} /\ Goto(j, "hash")
  /\ UNCHANGED <<server, helper, directory, clock, history>>

ReadForBackfill(j) ==
  /\ At(j, {"backfill"}, "meta")
  /\ \E value \in Metadata :
       /\ ReadsMetadata(value, FileOf(j))
       /\ \/ value = "absent" /\ End(j, "metadataMissing")
          \/ value = "torn"   /\ End(j, "metadataInvalid")
          \/ value = "noSum"  /\ Goto(j, "hash")
          \/ value \in Sums   /\ End(j, "alreadyPresent")
  /\ UNCHANGED <<server, helper, directory, clock, history>>

Bug_DownloadAnyway(j, value) ==
  IF value = "none" THEN End(j, "error")
  ELSE IF job[j].op = "download" THEN job' = [job EXCEPT ![j].sum = value, ![j].pc = "stat"]
  ELSE End(j, IF value = job[j].seen THEN "valid" ELSE "mismatch")

\* The result of the verification; a download goes on only if it is valid.
Compare(j, value) ==
  IF value = "none" THEN End(j, "error")
  ELSE IF value # job[j].seen THEN End(j, "mismatch")
  ELSE IF job[j].op = "download" THEN job' = [job EXCEPT ![j].sum = value, ![j].pc = "stat"]
  ELSE End(j, "valid")

HashForVerify(j) ==
  /\ At(j, {"verify", "download"}, "hash")
  /\ \E value \in Sums \cup {"none"} : Reads(value, FileOf(j)) /\ Compare(j, value)
  /\ UNCHANGED <<server, helper, directory, clock, history>>

-----------------------------------------------------------------------------
(* resolveBackupDownload and the stream.                                   *)

StatForDownload(j) ==
  /\ At(j, {"download"}, "stat")
  /\ \E value \in Sums \cup {"none"} :
       /\ Reads(value, FileOf(j))
       /\ IF value = "none" THEN End(j, "backupNotFound")
          ELSE job' = [job EXCEPT ![j].size = value, ![j].pc = "open"]
  /\ UNCHANGED <<server, helper, directory, clock, history>>

\* Once open the stream does not depend on the name any more.
OpenStream(j) ==
  /\ At(j, {"download"}, "open")
  /\ \E value \in Sums \cup {"none"} :
       /\ Reads(value, FileOf(j))
       /\ IF value = "none" THEN End(j, "error")
          ELSE job' = [job EXCEPT ![j].sent = value, ![j].pc = "done", ![j].reply = "streamed"]
  /\ UNCHANGED <<server, helper, directory, clock, history>>

-----------------------------------------------------------------------------
(* inspectBackup.                                                          *)

Lstat(j) ==
  /\ At(j, {"inspect"}, "lstat")
  /\ \E value \in Sums \cup {"none"} :
       /\ Reads(value, FileOf(j))
       /\ IF value = "none" THEN End(j, "backupNotFound")
          ELSE job' = [job EXCEPT ![j].size = value, ![j].pc = "hash"]
  /\ UNCHANGED <<server, helper, directory, clock, history>>

HashForInspect(j) ==
  /\ At(j, {"inspect"}, "hash")
  /\ \E value \in Sums \cup {"none"} :
       /\ Reads(value, FileOf(j))
       /\ IF value = "none" THEN End(j, "readFailed")
          ELSE job' = [job EXCEPT ![j].sum = value, ![j].pc = "restat"]
  /\ UNCHANGED <<server, helper, directory, clock, history>>

Bug_NoSecondLook(j, value) == value = "none"
\* The file changed while it was hashed.
ChangedMeanwhile(j, value) == value # job[j].size

\* What a helper still writes may also have grown without being finished.
Restat(j) ==
  /\ At(j, {"inspect"}, "restat")
  /\ \/ \E value \in Sums \cup {"none"} :
          /\ Reads(value, FileOf(j))
          /\ IF ChangedMeanwhile(j, value) THEN End(j, "changed") ELSE Goto(j, "meta")
     \/ helper[FileOf(j)] # "none" /\ End(j, "changed") /\ UNCHANGED faults
  /\ UNCHANGED <<server, helper, directory, clock, history>>

\* The snapshot stands whatever the metadata is; only a different checksum is
\* an integrity error.
ReadForInspect(j) ==
  /\ At(j, {"inspect"}, "meta")
  /\ \E value \in Metadata :
       /\ ReadsMetadata(value, FileOf(j))
       /\ job' = [job EXCEPT ![j].pc = "done", ![j].reply =
            IF value \in Sums \ {job[j].sum} THEN "fingerprintMismatch" ELSE "fingerprint"]
  /\ UNCHANGED <<server, helper, directory, clock, history>>

-----------------------------------------------------------------------------
(* deleteTs3BackupFile.                                                    *)

Unlink(j) ==
  LET f == FileOf(j)
  IN  /\ At(j, {"delete"}, "unlink")
      /\ \/ /\ archive[f] # "none" /\ UNCHANGED faults
            /\ archive' = [archive EXCEPT ![f] = "none"]
            /\ deleted' = deleted \cup {f}
            /\ Goto(j, "metaExists")
         \/ /\ archive[f] = "none" /\ UNCHANGED faults
            /\ End(j, "error") /\ UNCHANGED <<archive, deleted>>
         \/ Inject("disk") /\ End(j, "error") /\ UNCHANGED <<archive, deleted>>
      /\ UNCHANGED <<server, helper, metadata, clock, naming, damaged, sealed>>

Bug_MetadataIsForgotten(j) ==
  /\ At(j, {"delete"}, "metaExists")
  /\ UNCHANGED faults
  /\ End(j, "deletedWithMetadata")
  /\ UNCHANGED <<server, helper, directory, clock, history>>

MetadataExists(j) ==
  /\ At(j, {"delete"}, "metaExists")
  /\ \E seen \in BOOLEAN :
       /\ Sees(metadata[FileOf(j)] # "absent", seen, "disk")
       /\ IF seen THEN Goto(j, "metaUnlink") ELSE End(j, "deleted")
  /\ UNCHANGED <<server, helper, directory, clock, history>>

UnlinkMetadata(j) ==
  LET f == FileOf(j)
  IN  /\ At(j, {"delete"}, "metaUnlink")
      /\ \/ /\ metadata[f] # "absent" /\ UNCHANGED faults
            /\ metadata' = [metadata EXCEPT ![f] = "absent"]
            /\ End(j, "deletedWithMetadata")
         \/ /\ metadata[f] = "absent" /\ UNCHANGED faults
            /\ End(j, "metadataDeleteFailed") /\ UNCHANGED metadata
         \/ Inject("disk") /\ End(j, "metadataDeleteFailed") /\ UNCHANGED metadata
      /\ UNCHANGED <<server, helper, archive, clock, history>>

-----------------------------------------------------------------------------
(* The rest of the world: the server's lifecycle (its own steps are those  *)
(* of ManagedLifecycle), time, crashes and other users of the directory.   *)

\* prepareManagedContainer
TakeIntoUse ==
  /\ ~inUse /\ inUse' = TRUE
  /\ UNCHANGED <<volumeRemoved, container, volume, helper, directory, clock, job, history, faults>>

\* createTs3Container; `-v` makes a missing volume, without labels.
CreateContainer ==
  /\ inUse /\ container = "none"
  /\ container' = "stopped"
  /\ volume' = IF volume = "none" THEN "unlabelled" ELSE volume
  /\ UNCHANGED <<inUse, volumeRemoved, helper, directory, clock, job, history, faults>>

\* startTs3Container; a helper at work captures a moving server from now on.
StartContainer ==
  /\ container = "stopped"
  /\ container' = "running"
  /\ helper' = [f \in Files |-> IF helper[f] = "data" THEN "hot" ELSE helper[f]]
  /\ UNCHANGED <<inUse, volumeRemoved, volume, directory, clock, job, history, faults>>

\* stopTs3Container
StopContainer ==
  /\ container = "running"
  /\ container' = "stopped"
  /\ UNCHANGED <<inUse, volumeRemoved, volume, helper, directory, clock, job, history, faults>>

\* removeTs3Container, which takes the record back to RESOURCES_PREPARED.
RemoveContainer ==
  /\ container = "stopped"
  /\ container' = "none" /\ inUse' = FALSE
  /\ UNCHANGED <<volumeRemoved, volume, helper, directory, clock, job, history, faults>>

\* removeTs3Volume; docker keeps a volume that a container, also a helper, uses.
RemoveVolume ==
  /\ ~inUse /\ container = "none" /\ volume = "managed"
  /\ \A f \in Files : helper[f] = "none"
  /\ volume' = "none" /\ volumeRemoved' = TRUE
  /\ UNCHANGED <<inUse, container, helper, directory, clock, job, history, faults>>

Tick ==
  /\ clock < LastStamp
  /\ clock' = clock + 1
  /\ UNCHANGED <<server, helper, directory, job, history, faults>>

\* What is left of a handler that died with the agent.
Dead == [NewJob("verify", 0, "done") EXCEPT !.reply = "lost"]

\* Every handler dies with the agent; docker and the directory stay.
AgentCrash ==
  /\ \E j \in Jobs : job[j].pc # "done"
  /\ Inject("crash")
  /\ job' = [j \in Jobs |-> IF job[j].pc = "done" THEN job[j] ELSE Dead]
  /\ UNCHANGED <<server, helper, directory, clock, history>>

Damage(f) ==
  /\ archive[f] # "none" /\ f \notin damaged
  /\ Inject("damage")
  /\ damaged' = damaged \cup {f}
  /\ UNCHANGED <<server, helper, directory, clock, job, naming, deleted, sealed>>

-----------------------------------------------------------------------------
(* The specification.                                                      *)

backupTs3Volume(j) ==
  \/ Probe(j) \/ FindContainer(j) \/ FindManagedVolume(j) \/ FindAnyVolume(j)
  \/ FindImage(j) \/ StartHelper(j) \/ RunTimeout(j)

writeMetadata(j) == HashForMetadata(j) \/ Truncate(j) \/ WriteMetadata(j)

verifyOrBackfill(j) ==
  Exists(j) \/ ReadForVerify(j) \/ ReadForBackfill(j) \/ HashForVerify(j)

download(j) == StatForDownload(j) \/ OpenStream(j)

inspectBackup(j) == Lstat(j) \/ HashForInspect(j) \/ Restat(j) \/ ReadForInspect(j)

deleteTs3BackupFile(j) == Unlink(j) \/ MetadataExists(j) \/ UnlinkMetadata(j)

JobStep(j) ==
  \/ \E o \in Operations, f \in Files : Submit(j, o, f)
  \/ backupTs3Volume(j) \/ writeMetadata(j) \/ verifyOrBackfill(j)
  \/ download(j) \/ inspectBackup(j) \/ deleteTs3BackupFile(j)

ServerStep ==
  /\ Lifecycle
  /\ \/ TakeIntoUse \/ CreateContainer \/ StartContainer \/ StopContainer
     \/ RemoveContainer \/ RemoveVolume

Next ==
  \/ \E j \in Jobs : JobStep(j)
  \/ \E f \in Files : HelperDone(f) \/ HelperFails(f) \/ Damage(f)
  \/ ServerStep \/ Tick \/ AgentCrash

Spec == Init /\ [][Next]_vars

-----------------------------------------------------------------------------
(* Properties.                                                             *)

\* Archives that may change after they were finished: somebody damaged them, or
\* two backups were given their name in the same millisecond.
Rewritable == damaged \cup Shared

\* A recorded checksum is that of the finished archive beside it (steps 10 and
\* 11 of docker-backup.ts, the backfill), whatever overlaps, fails or dies: no
\* unfinished archive is ever vouched for, unless the name is shared.
ChecksumVouchesForArchive ==
  \A f \in Files :
    metadata[f] \in Sums /\ archive[f] # "none" /\ f \notin Rewritable
      => metadata[f] = archive[f] /\ archive[f] # "part" /\ helper[f] = "none"

\* The verification accuses no archive that nobody touched (backup-verify.ts):
\* "mismatch" means that the archive was changed outside SpeakCore, or written
\* again by the other backup of its name.
MismatchMeansDamage ==
  \A j \in Jobs : job[j].reply = "mismatch" => FileOf(j) \in Rewritable

\* What a download streams is what was verified before it and what the stated
\* length belongs to, and is a finished archive, unless somebody damaged the
\* file in between or its name is shared (backup-download.ts: only after "valid").
DownloadIsVerified ==
  \A j \in Jobs : job[j].reply = "streamed" =>
    /\ job[j].sum = job[j].seen
    /\ FileOf(j) \notin Rewritable =>
         job[j].sent = job[j].sum /\ job[j].sent = job[j].size /\ job[j].sent \in Captures

\* A fingerprint belongs to the size and modification time reported with it
\* (the second look of backup-inspect.ts), even if a helper finishes or somebody
\* writes the archive while it is hashed.  (Size and time stand for the content
\* here, which cannot tell two archives of a shared name apart.)
FingerprintIsOfOneArchive ==
  \A j \in Jobs :
    job[j].reply \in {"fingerprint", "fingerprintMismatch"} /\ FileOf(j) \notin Shared
      => job[j].sum = job[j].size

\* A delete that answers success leaves no archive, and metadata only when it did
\* not say it removed them and a look at the file failed (fileExists of
\* backup-file-delete.ts is false for every error).
DeletedLeavesNothing ==
  \A j \in Jobs : job[j].reply \in {"deleted", "deletedWithMetadata"} =>
    /\ archive[FileOf(j)] = "none"
    /\ \/ metadata[FileOf(j)] = "absent"
       \/ job[j].reply = "deleted" /\ "disk" \in Faults /\ faults > 0

\* A checksum once recorded is never replaced by another (backup-checksum-
\* backfill.ts): later damage cannot be given a matching checksum.
ChecksumIsNeverReplaced ==
  \A f \in Files : sealed[f] # "none" /\ metadata[f] \in Sums => metadata[f] = sealed[f]

Stage(f) ==
  IF archive[f] = "none" THEN IF f \in deleted THEN "gone" ELSE "free"
  ELSE IF helper[f] # "none" THEN "writing"
  ELSE IF archive[f] = "part" THEN "left" ELSE "whole"

Contract == INSTANCE BackupArchive
              WITH file <- [f \in Files |-> Stage(f)], shared <- Shared

\* A finished archive is begun again, and a deleted one comes back, only under a
\* name two backups were given before either was finished; every other name is
\* used once, although helpers outlive their requests.
ImplementsContract == Contract!Spec

=============================================================================
