--------------------------- MODULE SecretRotation ---------------------------
(***************************************************************************)
(* Stored ServerQuery credentials under a changing encryption key: the     *)
(* rotation run of apps/web/src/core/secret-rotation.ts, started by an     *)
(* operator on the command line, beside the web services that store, use   *)
(* and delete credentials (core/servers.ts, container-prepare.ts,          *)
(* server-archive.ts).  Run and web process share the database and nothing *)
(* else; which key the web process has changes only when the operator      *)
(* restarts it.  The operator is free: any keys, any order of runs and     *)
(* restarts.                                                               *)
(*                                                                         *)
(* The page offers each operation for one mode of server only (Submit).    *)
(* Archiving stands for the whole of it that touches the credential.       *)
(*                                                                         *)
(* An encrypted field is the key it is under, or "damaged" (no held key    *)
(* decrypts it: AES-GCM notices).  A plaintext is named by the credential  *)
(* it was generated or entered for.                                        *)
(*                                                                         *)
(* A definition whose name begins with Bug_ is not part of the model: it   *)
(* is the next definition with a plausible mistake.                        *)
(***************************************************************************)
EXTENDS Naturals

CONSTANTS
  Servers,    \* ids of ServerInstance rows, used and unused
  Managed,    \* those of mode 'managed'; the others are external
  Keys,       \* usable keys (16 characters or more)
  Requests,   \* web requests that can be under way at the same time
  Runs,       \* rotation runs of a behaviour
  MaxStored   \* bound on credentials stored per server in a behaviour

ASSUME RotationAssumption ==
  /\ Managed \subseteq Servers
  /\ "none" \notin Keys /\ "damaged" \notin Keys /\ "missing" \notin Keys
  /\ MaxStored \in Nat

VARIABLES
  row,         \* the ServerInstance rows
  cred,        \* the ServerCredential of each server
  stored,      \* credentials ever stored per server (the source of fresh ids)
  webKey,      \* SECRET_ENCRYPTION_KEY of the web process
  req,         \* the web requests
  run,         \* the rotation runs
  settled      \* history: see Report

database == <<row, cred, stored>>
vars     == <<row, cred, stored, webKey, req, run, settled>>

Marks == Keys \cup {"damaged"}

NoCredential == [id |-> 0, user |-> "none", pass |-> "none", secret |-> 0]
Credential   == [id : Nat \ {0}, user : Marks, pass : Marks, secret : Nat]

\* decryptWithKey of both fields.
Readable(c, key) == c.user = key /\ c.pass = key

Under(id, key) == [id |-> id, user |-> key, pass |-> key, secret |-> id]

Stored == {s \in Servers : cred[s] # NoCredential}

IdleRequest ==
  [pc |-> "idle", op |-> "none", srv |-> "none", key |-> "none", had |-> FALSE]
Operations  == {"createExternal", "prepare", "archive", "remove"}
Request ==
  [pc : {"read", "store", "archive", "delete"}, op : Operations, srv : Servers, key : Keys,
   had : BOOLEAN]

KeyValues == Keys \cup {"missing"}
NoRows    == [s \in Servers |-> NoCredential]
NotStarted ==
  [pc |-> "idle", old |-> "missing", new |-> "missing", dry |-> FALSE, rows |-> NoRows,
   exit |-> "none", wrote |-> FALSE, current |-> FALSE]
Run ==
  [pc : {"idle", "read", "write", "report", "ended"}, old : KeyValues, new : KeyValues,
   dry : BOOLEAN, rows : [Servers -> Credential \cup {NoCredential}],
   exit : {"none", "0", "1", "2", "3", "killed"}, wrote : BOOLEAN, current : BOOLEAN]

TypeOK ==
  /\ row \in [Servers -> {"absent", "active", "archived", "deleted"}]
  /\ cred \in [Servers -> Credential \cup {NoCredential}]
  /\ stored \in [Servers -> Nat]
  /\ webKey \in Keys
  /\ req \in [Requests -> Request \cup {IdleRequest}]
  /\ run \in [Runs -> Run]
  /\ settled \in BOOLEAN

\* Managed rows were provisioned, with or without a credential yet; external
\* ones exist with a credential, or not yet.  Credentials are under any key; one
\* field may be damaged.
Init ==
  /\ row \in [Servers -> {"absent", "active"}]
  /\ \A s \in Managed : row[s] = "active"
  /\ webKey \in Keys
  /\ cred \in [Servers -> {NoCredential} \cup [id : {1}, user : Keys, pass : Marks, secret : {1}]]
  /\ \A s \in Servers :
       /\ cred[s].pass # "damaged" => cred[s].pass = cred[s].user
       /\ s \notin Managed => (row[s] = "active" <=> cred[s] # NoCredential)
  /\ stored = [s \in Servers |-> cred[s].id]
  /\ req = [w \in Requests |-> IdleRequest]
  /\ run = [r \in Runs |-> NotStarted]
  /\ settled = FALSE

-----------------------------------------------------------------------------
(* Web requests.                                                           *)

End(w) == req' = [req EXCEPT ![w] = IdleRequest]
Go(w, pc) == req' = [req EXCEPT ![w].pc = pc, ![w].had = (cred[req[w].srv] # NoCredential)]
At(w, pc, op) == req[w].pc = pc /\ req[w].op = op
Other == <<webKey, run, settled>>

\* An owner's request, with the key of the web process that serves it.  An
\* external server is created after a successful test connection; its fields are
\* encrypted before the transaction begins.
Submit(w, op, s) ==
  /\ req[w] = IdleRequest
  /\ op = "createExternal" => s \notin Managed /\ row[s] = "absent"
  /\ op = "remove" => s \notin Managed /\ row[s] # "absent"
  /\ op \in {"prepare", "archive"} => s \in Managed
  /\ req' = [req EXCEPT ![w] =
       [pc |-> IF op = "createExternal" THEN "store" ELSE "read", op |-> op, srv |-> s,
        key |-> webKey, had |-> FALSE]]
  /\ UNCHANGED <<database, Other>>

\* createExternalServer: row and credential in one transaction.
StoreExternal(w) ==
  LET s == req[w].srv IN
  /\ At(w, "store", "createExternal")
  /\ row[s] = "absent"
  /\ row' = [row EXCEPT ![s] = "active"]
  /\ cred' = [cred EXCEPT ![s] = Under(stored[s] + 1, req[w].key)]
  /\ stored' = [stored EXCEPT ![s] = @ + 1]
  /\ End(w)
  /\ UNCHANGED Other

\* prepareManagedContainer: a credential only when the row that was read had none.
ReadForPrepare(w) ==
  LET s == req[w].srv IN
  /\ At(w, "read", "prepare")
  /\ IF cred[s] # NoCredential THEN End(w) ELSE Go(w, "store")
  /\ UNCHANGED <<database, Other>>

\* The insert fails when another request's was faster (serverInstanceId is unique).
StoreForPrepare(w) ==
  LET s == req[w].srv IN
  /\ At(w, "store", "prepare")
  /\ IF cred[s] = NoCredential
     THEN /\ stored[s] < MaxStored
          /\ cred' = [cred EXCEPT ![s] = Under(stored[s] + 1, req[w].key)]
          /\ stored' = [stored EXCEPT ![s] = @ + 1]
     ELSE UNCHANGED <<cred, stored>>
  /\ End(w)
  /\ UNCHANGED <<row, Other>>

\* archiveManagedServer with the decision to remove the credential, as far as
\* the credential is concerned: decided from the row that was read.
ReadForArchive(w) ==
  LET s == req[w].srv IN
  /\ At(w, "read", "archive")
  /\ IF row[s] = "active" THEN Go(w, "archive") ELSE End(w)
  /\ UNCHANGED <<database, Other>>

Archive(w) ==
  LET s == req[w].srv IN
  /\ At(w, "archive", "archive")
  /\ row' = [row EXCEPT ![s] = "archived"]
  /\ cred' = [cred EXCEPT ![s] = IF req[w].had THEN NoCredential ELSE @]
  /\ End(w)
  /\ UNCHANGED <<stored, Other>>

\* removeServer: the credential goes with the row (cascade).
ReadForRemove(w) ==
  LET s == req[w].srv IN
  /\ At(w, "read", "remove")
  /\ IF row[s] = "deleted" THEN End(w) ELSE Go(w, "delete")
  /\ UNCHANGED <<database, Other>>

Remove(w) ==
  LET s == req[w].srv IN
  /\ At(w, "delete", "remove")
  /\ row' = [row EXCEPT ![s] = "deleted"]
  /\ cred' = [cred EXCEPT ![s] = NoCredential]
  /\ End(w)
  /\ UNCHANGED <<stored, Other>>

Bug_RestartWeb(key) ==
  /\ webKey' = key
  /\ run' = [r \in Runs |-> [run[r] EXCEPT !.current = @ /\ key = webKey]]
  /\ settled' = (settled /\ key = webKey)
  /\ UNCHANGED <<database, req>>

\* The operator restarts the web process, with the same key or another:
\* requests under way end where they are.
RestartWeb(key) ==
  /\ webKey' = key
  /\ req' = [w \in Requests |-> IdleRequest]
  /\ run' = [r \in Runs |-> [run[r] EXCEPT !.current = @ /\ key = webKey]]
  /\ settled' = (settled /\ key = webKey)
  /\ UNCHANGED database

-----------------------------------------------------------------------------
(* Rotation runs.                                                          *)

\* planCredentialRotation, over the rows that were read.  Both fields of a
\* credential are planned together or not at all.
Rows(rows)              == {s \in Servers : rows[s] # NoCredential}
Updates(rows, old)      == {s \in Rows(rows) : Readable(rows[s], old)}
Skipped(rows, old, new) == {s \in Rows(rows) : ~Readable(rows[s], old) /\ Readable(rows[s], new)}
Failed(rows, old, new)  == Rows(rows) \ (Updates(rows, old) \cup Skipped(rows, old, new))

\* The process ends.  Its keys are of interest only after it has written.
Exit(r, code) ==
  LET kept == IF run[r].wrote THEN run[r] ELSE [NotStarted EXCEPT !.dry = run[r].dry]
  IN  run' = [run EXCEPT ![r] =
        [kept EXCEPT !.pc = "ended", !.exit = code, !.rows = NoRows, !.current = FALSE]]
Web == <<webKey, req>>

\* rotate-secrets [--dry-run]: resolveRotationKeys comes before the database.
StartRun(r, old, new, dry) ==
  /\ run[r].pc = "idle"
  /\ IF "missing" \in {old, new}
     THEN Exit(r, "2")
     ELSE run' = [run EXCEPT ![r].pc = "read", ![r].old = old, ![r].new = new, ![r].dry = dry]
  /\ UNCHANGED <<database, Web, settled>>

\* findMany, and what needs no write: identical keys, a dry run, a plan that
\* failed for some row.
ReadRows(r) ==
  LET job    == run[r]
      failed == Failed(cred, job.old, job.new)
      ended  == job.old = job.new \/ job.dry \/ failed # {}
  IN
  /\ job.pc = "read"
  /\ IF ended
     THEN Exit(r, IF job.old # job.new /\ failed # {} THEN "1" ELSE "0")
     ELSE run' = [run EXCEPT ![r].pc = "write", ![r].rows = cred,
                             ![r].current = (webKey = job.new)]
  /\ UNCHANGED <<database, Web, settled>>

\* The credential a planned update writes: the plaintext that was read, under
\* the new key.
Reencrypted(s, rows, new) == [cred[s] EXCEPT !.user = new, !.pass = new, !.secret = rows[s].secret]

\* A write under a key the web process does not have unsettles it, and every
\* other run that was about to settle it.
Written(r) ==
  /\ run' = [q \in Runs |->
       IF q = r THEN [run[r] EXCEPT !.pc = "report", !.wrote = TRUE]
       ELSE [run[q] EXCEPT !.current = @ /\ run[r].new = webKey]]
  /\ settled' = (settled /\ run[r].new = webKey)

Bug_WriteUpserts(r) ==
  LET job == run[r] updates == Updates(job.rows, job.old) IN
  /\ job.pc = "write"
  /\ cred' = [s \in Servers |->
       IF s \in updates THEN [job.rows[s] EXCEPT !.user = job.new, !.pass = job.new] ELSE cred[s]]
  /\ Written(r)
  /\ UNCHANGED <<row, stored, Web>>

Bug_WriteByServer(r) ==
  LET job == run[r] updates == Updates(job.rows, job.old) IN
  /\ job.pc = "write"
  /\ cred' = [s \in Servers |->
       IF s \in updates /\ cred[s] # NoCredential
       THEN Reencrypted(s, job.rows, job.new) ELSE cred[s]]
  /\ Written(r)
  /\ UNCHANGED <<row, stored, Web>>

Bug_WriteSingly(r) ==
  LET job     == run[r]
      updates == Updates(job.rows, job.old)
      still   == {s \in updates : cred[s].id = job.rows[s].id}
  IN
  /\ job.pc = "write"
  /\ cred' = [s \in Servers |->
       IF s \in still THEN Reencrypted(s, job.rows, job.new) ELSE cred[s]]
  /\ IF still = updates
     THEN Written(r)
     ELSE /\ run' = [run EXCEPT ![r].pc = "ended", ![r].exit = "3", ![r].wrote = (still # {}),
                                ![r].rows = NoRows, ![r].current = FALSE]
          /\ UNCHANGED settled
  /\ UNCHANGED <<row, stored, Web>>

\* The transaction: every update by the id of the credential that was read.
\* Without one of them (deleted meanwhile) prisma throws and all roll back.
WriteAll(r) ==
  LET job == run[r] updates == Updates(job.rows, job.old) IN
  /\ job.pc = "write"
  /\ IF \A s \in updates : cred[s].id = job.rows[s].id
     THEN /\ cred' = [s \in Servers |->
               IF s \in updates THEN Reencrypted(s, job.rows, job.new) ELSE cred[s]]
          /\ Written(r)
     ELSE /\ Exit(r, "3")
          /\ UNCHANGED <<cred, settled>>
  /\ UNCHANGED <<row, stored, Web>>

\* A query throws (the database is locked, full or gone), and main reports it:
\* findMany, an audit entry, or the transaction, which fails as a whole.  The
\* last audit entry is written when the transaction has been committed.
RunFails(r) ==
  /\ run[r].pc \in {"read", "write", "report"}
  /\ Exit(r, "3")
  /\ UNCHANGED <<database, Web, settled>>

\* Exit 0.  History: the credentials are settled when the web process has had
\* the run's new key since before the rows were read, and no other run has
\* written under another key since.
Report(r) ==
  /\ run[r].pc = "report"
  /\ Exit(r, "0")
  /\ settled' = (settled \/ run[r].current)
  /\ UNCHANGED <<database, Web>>

\* The operator interrupts a run, before or after its transaction.
Kill(r) ==
  /\ run[r].pc \in {"read", "write", "report"}
  /\ Exit(r, "killed")
  /\ UNCHANGED <<database, Web, settled>>

-----------------------------------------------------------------------------

WebStep(w) ==
  \/ \E op \in Operations, s \in Servers : Submit(w, op, s)
  \/ StoreExternal(w)
  \/ ReadForPrepare(w) \/ StoreForPrepare(w)
  \/ ReadForArchive(w) \/ Archive(w)
  \/ ReadForRemove(w) \/ Remove(w)

RunStep(r) ==
  \/ \E old, new \in KeyValues, dry \in BOOLEAN : StartRun(r, old, new, dry)
  \/ ReadRows(r) \/ WriteAll(r) \/ RunFails(r) \/ Report(r) \/ Kill(r)

Next ==
  \/ \E w \in Requests : WebStep(w)
  \/ \E r \in Runs : RunStep(r)
  \/ \E key \in Keys : RestartWeb(key)

Spec == Init /\ [][Next]_vars

-----------------------------------------------------------------------------
(* Properties.                                                             *)

\* Whatever runs, restarts and requests overlap, a stored credential keeps the
\* plaintext it was stored with: a run that read an older credential of the same
\* server never writes its plaintext over a newer one (secret-rotation.ts:105).
SecretsKeepTheirValue == \A s \in Stored : cred[s].secret = cred[s].id

\* A credential that was deleted while a run held a copy of it stays deleted, and
\* so does its server; a later one of the same server is a new one
\* (secret-rotation.ts:104).
DeletedStaysDeleted ==
  [][\A s \in Servers :
       /\ row[s] = "deleted" => row'[s] = "deleted" /\ cred'[s] = NoCredential
       /\ (cred[s] = NoCredential /\ cred'[s] # NoCredential) => cred'[s].id = stored[s] + 1]_vars

\* All or nothing, however a run ends and whatever was deleted or written while it
\* planned: re-encryption happens in one step of a run, which finds every
\* credential it had planned and leaves each under the new key; and neither a dry
\* run nor one that ends with exit 1 or 2 is such a run.  (After exit 3 either is
\* possible: secret-rotation.ts:111 can throw when everything is written, although
\* line 22 promises that nothing is.  secret-rotation.ts:70, 86, 102.)
WritesNow(r) == ~run[r].wrote /\ run'[r].wrote

RunsAreAllOrNothing ==
  [][/\ \A s \in Servers : cred'[s] # cred[s] /\ cred'[s].id = cred[s].id
           => \E r \in Runs : WritesNow(r)
     /\ \A r \in Runs : WritesNow(r) =>
          \A s \in Updates(run[r].rows, run[r].old) :
            cred'[s].id = run[r].rows[s].id /\ Readable(cred'[s], run[r].new)
     /\ \A r \in Runs : run'[r].wrote => ~run'[r].dry /\ run'[r].exit \notin {"1", "2"}]_vars

\* A pair that one key could decrypt never becomes a pair under two keys, and a
\* damaged one is left as it is: no step takes a credential out of reach of
\* every key (secret-rotation-helpers.ts:90).
ReadableStaysReadable ==
  [][\A s \in Servers :
       (cred[s].id = cred'[s].id /\ cred[s] # cred'[s]) =>
         \E old, new \in Keys : Readable(cred[s], old) /\ Readable(cred'[s], new)]_vars

\* The rotation is complete when it is repeated after the switch: from the exit 0
\* of a run that began when the web process already had the new key, the web
\* process can read every credential, those stored before, during and after the
\* run included (secret-rotation.ts:42, project-brain ADR-0022).
SettledIsReadable == settled => \A s \in Stored : Readable(cred[s], webKey)

-----------------------------------------------------------------------------
(* The contract.                                                           *)

Contract ==
  INSTANCE CredentialVault WITH
    given   <- stored,
    value   <- [s \in Servers |-> cred[s].secret],
    key     <- [s \in Servers |-> IF cred[s].user = cred[s].pass THEN cred[s].user ELSE "damaged"],
    serving <- webKey,
    removed <- {s \in Servers : row[s] = "deleted"}

\* Whatever runs, restarts, interruptions and requests overlap, what an observer
\* of the table sees are single credentials stored, deleted and, all planned ones
\* at once, put under another key; what was deleted meanwhile does not come back,
\* and nothing gets out of reach of every key (secret-rotation.ts:56, 102).
ImplementsContract == Contract!Spec

=============================================================================
