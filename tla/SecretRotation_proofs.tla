------------------------ MODULE SecretRotation_proofs ------------------------
(***************************************************************************)
(* Theorems about SecretRotation, for every number of servers, keys,       *)
(* requests and runs.                                                      *)
(*                                                                         *)
(* All follow from one inductive invariant.  Its core is what a run knows  *)
(* about the database after others have changed it: the rows it read carry *)
(* ids that were given out (Known), a credential that is still the one it  *)
(* read and was readable then is readable now (Kept), and while the web    *)
(* process has had the run's new key since the rows were read, whatever is *)
(* not yet under that key is among the run's updates (Converging).         *)
(***************************************************************************)
EXTENDS SecretRotation, TLAPS

\* A credential's id is the last one given out for its server.
IdsAreFresh ==
  \A s \in Servers :
    /\ cred[s] # NoCredential => cred[s].id = stored[s] /\ cred[s].secret = cred[s].id
    /\ row[s] \in {"absent", "deleted"} => cred[s] = NoCredential /\ s \notin Managed

Known(r) ==
  \A s \in Servers : run[r].rows[s] # NoCredential =>
    run[r].rows[s].secret = run[r].rows[s].id /\ run[r].rows[s].id <= stored[s]

Kept(r) ==
  \A s \in Servers : \A key \in Keys :
    (run[r].rows[s] # NoCredential /\ Readable(run[r].rows[s], key)
       /\ cred[s].id = run[r].rows[s].id)
      => \E other \in Keys : Readable(cred[s], other)

Converging(r) ==
  \A s \in Stored :
    \/ Readable(cred[s], webKey)
    \/ /\ run[r].pc = "write"
       /\ s \in Updates(run[r].rows, run[r].old)
       /\ cred[s].id = run[r].rows[s].id

Stage(r) ==
  /\ run[r].exit # "none" => run[r].pc = "ended"
  /\ run[r].wrote => run[r].pc \in {"report", "ended"} /\ ~run[r].dry
       /\ run[r].exit \in {"none", "0", "3", "killed"}
  /\ run[r].pc \in {"write", "report"} => ~run[r].dry
  /\ run[r].pc \in {"read", "write", "report"} => run[r].old \in Keys /\ run[r].new \in Keys
  /\ run[r].pc = "report" => run[r].wrote
  /\ run[r].current => run[r].pc \in {"write", "report"} /\ run[r].new = webKey

RequestsFit ==
  \A w \in Requests :
    req[w] # IdleRequest =>
      /\ req[w].key = webKey
      /\ req[w].op \in {"prepare", "archive"} <=> req[w].srv \in Managed

RunInv == \A r \in Runs : Known(r) /\ Kept(r) /\ Stage(r) /\ (run[r].current => Converging(r))

Inv == TypeOK /\ IdsAreFresh /\ RequestsFit /\ RunInv /\ SettledIsReadable

USE RotationAssumption

LEMMA InitInv == Init => Inv
<1> SUFFICES ASSUME Init PROVE Inv
  OBVIOUS
<1> USE DEF Init
<1>1. TypeOK
  <2>1. cred \in [Servers -> Credential \cup {NoCredential}]
    <3> SUFFICES ASSUME NEW s \in Servers PROVE cred[s] \in Credential \cup {NoCredential}
      OBVIOUS
    <3>1. cred[s] \in {NoCredential} \cup [id : {1}, user : Keys, pass : Marks, secret : {1}]
      OBVIOUS
    <3>2. ASSUME cred[s] \in [id : {1}, user : Keys, pass : Marks, secret : {1}]
          PROVE  cred[s] \in Credential
      BY <3>2 DEF Credential, Marks
    <3> QED BY <3>1, <3>2
  <2>2. stored \in [Servers -> Nat]
    BY <2>1 DEF Credential, NoCredential
  <2>3. NotStarted \in Run
    BY DEF NotStarted, Run, KeyValues, NoRows
  <2>4. run \in [Runs -> Run]
    BY <2>3
  <2> QED BY <2>1, <2>2, <2>4 DEF TypeOK
<1>2. IdsAreFresh
  <2> SUFFICES ASSUME NEW s \in Servers
               PROVE  /\ cred[s] # NoCredential => cred[s].id = stored[s] /\ cred[s].secret = cred[s].id
                      /\ row[s] \in {"absent", "deleted"} => cred[s] = NoCredential /\ s \notin Managed
    BY DEF IdsAreFresh
  <2>1. cred[s] \in {NoCredential} \cup [id : {1}, user : Keys, pass : Marks, secret : {1}]
    OBVIOUS
  <2>2. row[s] \in {"absent", "active"} /\ stored[s] = cred[s].id
    OBVIOUS
  <2> QED BY <2>1, <2>2
<1>3. RequestsFit
  BY DEF RequestsFit
<1>4. RunInv
  BY DEF RunInv, Known, Kept, Stage, NotStarted, NoRows, NoCredential
<1>5. SettledIsReadable
  BY DEF SettledIsReadable
<1> QED BY <1>1, <1>2, <1>3, <1>4, <1>5 DEF Inv

\* What a step of a web request does to the database: it leaves a server's
\* credential alone, deletes it, or stores a new one under the web key.
WebEffect ==
  /\ UNCHANGED <<webKey, run, settled>>
  /\ stored' \in [Servers -> Nat]
  /\ cred' \in [Servers -> Credential \cup {NoCredential}]
  /\ \A s \in Servers :
       \/ cred'[s] = cred[s] /\ stored'[s] = stored[s]
       \/ cred'[s] = NoCredential /\ stored'[s] = stored[s]
       \/ /\ cred[s] = NoCredential
          /\ stored'[s] = stored[s] + 1
          /\ cred'[s] = Under(stored[s] + 1, webKey)

LEMMA WebMoves ==
  ASSUME Inv, NEW w \in Requests, WebStep(w)
  PROVE  WebEffect /\ TypeOK' /\ IdsAreFresh' /\ RequestsFit'
<1> USE DEF Inv, TypeOK, WebEffect, IdsAreFresh, RequestsFit, Other, database, At
<1>0. \A key \in Keys, n \in Nat : Under(n + 1, key) \in Credential /\ Under(n + 1, key) # NoCredential
  BY DEF Under, Credential, Marks, NoCredential
<1>a. ASSUME End(w) PROVE req' \in [Requests -> Request \cup {IdleRequest}]
  BY <1>a DEF End
<1>b. req[w].pc # "idle" => req[w] \in Request /\ req[w] # IdleRequest
  BY DEF IdleRequest
<1>c. req[w].pc # "idle" => req[w].srv \in Servers /\ req[w].key = webKey /\ webKey \in Keys
  BY <1>b DEF Request
<1>1. ASSUME NEW op \in Operations, NEW s \in Servers, Submit(w, op, s)
      PROVE  WebEffect /\ TypeOK' /\ IdsAreFresh' /\ RequestsFit'
  BY <1>1 DEF Submit, Request, IdleRequest, Operations
<1>2. CASE StoreExternal(w)
  <2>1. req[w].srv \notin Managed
    BY <1>2, <1>b DEF StoreExternal, Operations, Request
  <2> QED BY <1>2, <2>1, <1>0, <1>a, <1>b, <1>c DEF StoreExternal, End, Under
<1>3. CASE ReadForPrepare(w)
  BY <1>3, <1>a, <1>b, <1>c DEF ReadForPrepare, End, Go, Request
<1>4. CASE StoreForPrepare(w)
  <2>1. req[w].srv \in Managed
    BY <1>4, <1>b DEF StoreForPrepare, Operations, Request
  <2> QED BY <1>4, <2>1, <1>0, <1>a, <1>b, <1>c DEF StoreForPrepare, End, Under
<1>5. CASE ReadForArchive(w)
  BY <1>5, <1>a, <1>b, <1>c DEF ReadForArchive, End, Go, Request
<1>6. CASE Archive(w)
  BY <1>6, <1>a, <1>b, <1>c DEF Archive, End
<1>7. CASE ReadForRemove(w)
  BY <1>7, <1>a, <1>b, <1>c DEF ReadForRemove, End, Go, Request
<1>8. CASE Remove(w)
  BY <1>8, <1>a, <1>b, <1>c DEF Remove, End
<1> QED BY <1>1, <1>2, <1>3, <1>4, <1>5, <1>6, <1>7, <1>8 DEF WebStep

LEMMA WebKeepsRuns ==
  ASSUME Inv, TypeOK', WebEffect
  PROVE  RunInv' /\ SettledIsReadable'
<1> USE DEF Inv, WebEffect
<1>1. \A s \in Servers : stored[s] \in Nat /\ cred[s] \in Credential \cup {NoCredential}
  BY DEF TypeOK
<1>2. webKey \in Keys /\ \A s \in Servers : Readable(Under(stored[s] + 1, webKey), webKey)
  BY DEF TypeOK, Readable, Under
<1>3. \A s \in Servers : Under(stored[s] + 1, webKey).id = stored[s] + 1
  BY DEF Under
<1>4. \A s \in Stored' : cred'[s] = cred[s] \/ Readable(cred'[s], webKey)
  BY <1>2 DEF Stored
<1>5. ASSUME NEW r \in Runs
      PROVE  Known(r)' /\ Kept(r)' /\ Stage(r)' /\ (run'[r].current => Converging(r)')
  <2>1. Known(r) /\ Kept(r) /\ Stage(r) /\ (run[r].current => Converging(r)) /\ run' = run
    BY DEF RunInv
  <2>2. \A s \in Servers : run[r].rows[s] \in Credential \cup {NoCredential}
    BY DEF TypeOK, Run
  <2>3. Known(r)'
    BY <2>1, <2>2, <1>1 DEF Known, Credential
  <2>4. Kept(r)'
    <3> SUFFICES ASSUME NEW s \in Servers, NEW key \in Keys, run[r].rows[s] # NoCredential,
                        Readable(run[r].rows[s], key), cred'[s].id = run[r].rows[s].id
                 PROVE  \E other \in Keys : Readable(cred'[s], other)
      BY <2>1 DEF Kept
    <3>1. run[r].rows[s].id <= stored[s] /\ run[r].rows[s].id \in Nat \ {0}
      BY <2>1, <2>2 DEF Known, Credential
    <3>2. cred'[s] = cred[s]
      BY <3>1, <1>1, <1>3 DEF NoCredential
    <3> QED BY <3>2, <2>1 DEF Kept
  <2>5. Stage(r)'
    BY <2>1 DEF Stage
  <2>6. run[r].current => Converging(r)'
    BY <2>1, <1>4 DEF Converging, Stored
  <2> QED BY <2>1, <2>3, <2>4, <2>5, <2>6
<1>6. SettledIsReadable'
  BY <1>4 DEF SettledIsReadable, Stored
<1> QED BY <1>5, <1>6 DEF RunInv

LEMMA WebInv == ASSUME Inv, NEW w \in Requests, WebStep(w) PROVE Inv'
  BY WebMoves, WebKeepsRuns DEF Inv

LEMMA RestartInv == ASSUME Inv, NEW key \in Keys, RestartWeb(key) PROVE Inv'
<1> USE DEF Inv, RestartWeb, database
<1>1. TypeOK'
  BY DEF TypeOK, Run
<1>2. IdsAreFresh' /\ RequestsFit'
  BY DEF IdsAreFresh, RequestsFit
<1>3. ASSUME NEW r \in Runs
      PROVE  Known(r)' /\ Kept(r)' /\ Stage(r)' /\ (run'[r].current => Converging(r)')
  <2>1. run[r] \in Run
    BY DEF TypeOK
  <2>2. run'[r] = [run[r] EXCEPT !.current = @ /\ key = webKey]
    OBVIOUS
  <2>3. Known(r) /\ Kept(r) /\ Stage(r) /\ (run[r].current => Converging(r))
    BY DEF RunInv
  <2> QED BY <2>1, <2>2, <2>3 DEF Run, Known, Kept, Stage, Converging, Stored
<1>4. SettledIsReadable'
  BY DEF SettledIsReadable, Stored
<1> QED BY <1>1, <1>2, <1>3, <1>4 DEF RunInv

-----------------------------------------------------------------------------
(* Runs.                                                                   *)

RunFits(r) == Known(r) /\ Kept(r) /\ Stage(r) /\ (run[r].current => Converging(r))

\* A step of one run that leaves the database alone is judged by that run.
LEMMA QuietStep ==
  ASSUME Inv, NEW r \in Runs, UNCHANGED <<database, Web>>,
         run' \in [Runs -> Run], \A q \in Runs \ {r} : run'[q] = run[q], RunFits(r)',
         settled' \in BOOLEAN, settled' => settled \/ \A s \in Stored : Readable(cred[s], webKey)
  PROVE  Inv'
<1> USE DEF Inv, database, Web
<1>1. TypeOK' /\ IdsAreFresh' /\ RequestsFit'
  BY DEF TypeOK, IdsAreFresh, RequestsFit
<1>2. ASSUME NEW q \in Runs PROVE RunFits(q)'
  <2>1. CASE q # r
    <3>1. run'[q] = run[q]
      BY <2>1
    <3>2. RunFits(q)
      BY DEF RunInv, RunFits
    <3> QED BY <3>1, <3>2 DEF RunFits, Known, Kept, Stage, Converging, Stored
  <2> QED BY <2>1
<1>3. SettledIsReadable'
  BY DEF SettledIsReadable, Stored
<1> QED BY <1>1, <1>2, <1>3 DEF RunInv, RunFits

\* A run that ends has forgotten its rows.
LEMMA EndedFits ==
  ASSUME Inv, NEW r \in Runs, NEW code \in {"0", "1", "2", "3", "killed"}, Exit(r, code),
         run[r].pc # "ended", run[r].wrote => code \in {"0", "3", "killed"}
  PROVE  /\ run' \in [Runs -> Run]
         /\ \A q \in Runs \ {r} : run'[q] = run[q]
         /\ RunFits(r)'
<1> USE DEF Inv, Exit
<1> DEFINE kept == IF run[r].wrote THEN run[r] ELSE [NotStarted EXCEPT !.dry = run[r].dry]
           new == [kept EXCEPT !.pc = "ended", !.exit = code, !.rows = NoRows, !.current = FALSE]
<1>1. run[r] \in Run /\ Stage(r)
  BY DEF TypeOK, RunInv
<1>2. NoRows \in [Servers -> Credential \cup {NoCredential}]
  BY DEF NoRows
<1>3. kept \in Run
  BY <1>1, <1>2 DEF Run, NotStarted, KeyValues
<1>4. new \in Run /\ new.pc = "ended" /\ new.exit = code /\ new.rows = NoRows /\ ~new.current
  BY <1>2, <1>3 DEF Run
<1>5. new.wrote => run[r].wrote /\ ~new.dry
  BY <1>1, <1>3 DEF Run, Stage, NotStarted
<1>6. run' = [run EXCEPT ![r] = new]
  OBVIOUS
<1>7. run' \in [Runs -> Run] /\ (\A q \in Runs \ {r} : run'[q] = run[q]) /\ run'[r] = new
  BY <1>4, <1>6 DEF TypeOK
<1>8. RunFits(r)'
  BY <1>4, <1>5, <1>7 DEF RunFits, Known, Kept, Stage, NoRows
<1> QED BY <1>7, <1>8

LEMMA StartInv ==
  ASSUME Inv, NEW r \in Runs, NEW old \in KeyValues, NEW new \in KeyValues, NEW dry \in BOOLEAN,
         StartRun(r, old, new, dry)
  PROVE  Inv'
<1> USE DEF Inv, StartRun
<1>1. run[r] \in Run /\ RunFits(r) /\ settled \in BOOLEAN
  BY DEF TypeOK, RunInv, RunFits
<1>2. CASE "missing" \in {old, new}
  <2>1. Exit(r, "2") /\ UNCHANGED <<database, Web, settled>> /\ run[r].pc = "idle"
    BY <1>2
  <2>2. ~run[r].wrote
    BY <1>1, <2>1 DEF RunFits, Stage
  <2>3. /\ run' \in [Runs -> Run]
        /\ \A q \in Runs \ {r} : run'[q] = run[q]
        /\ RunFits(r)'
    BY <2>1, <2>2, EndedFits
  <2> QED BY <1>1, <2>1, <2>3, QuietStep
<1>3. CASE "missing" \notin {old, new}
  <2>1. run'[r] = [run[r] EXCEPT !.pc = "read", !.old = old, !.new = new, !.dry = dry]
    BY <1>3, <1>1 DEF TypeOK, Run
  <2>2. run'[r] \in Run
    BY <1>1, <2>1 DEF Run
  <2>4. run' \in [Runs -> Run] /\ \A q \in Runs \ {r} : run'[q] = run[q]
    BY <1>3, <2>2 DEF TypeOK
  <2>3. RunFits(r)'
    BY <1>1, <1>3, <2>1 DEF RunFits, Known, Kept, Stage, Run, KeyValues, database
  <2> QED BY <1>1, <2>3, <2>4, QuietStep
<1> QED BY <1>2, <1>3

LEMMA ReadInv == ASSUME Inv, NEW r \in Runs, ReadRows(r) PROVE Inv'
<1> USE DEF Inv
<1> DEFINE job    == run[r]
           failed == Failed(cred, job.old, job.new)
           ended  == job.old = job.new \/ job.dry \/ failed # {}
<1>1. run[r] \in Run /\ RunFits(r) /\ settled \in BOOLEAN /\ run[r].pc = "read"
  BY DEF TypeOK, RunInv, RunFits, ReadRows
<1>2. CASE ended
  <2>1. \E code \in {"0", "1"} : Exit(r, code)
    BY <1>2 DEF ReadRows
  <2>2. UNCHANGED <<database, Web, settled>> /\ ~run[r].wrote
    BY <1>1 DEF ReadRows, RunFits, Stage
  <2>3. /\ run' \in [Runs -> Run]
        /\ \A q \in Runs \ {r} : run'[q] = run[q]
        /\ RunFits(r)'
    BY <1>1, <2>1, <2>2, EndedFits
  <2> QED BY <1>1, <2>2, <2>3, QuietStep
<1>3. CASE ~ended
  <2>1. run' = [run EXCEPT ![r].pc = "write", ![r].rows = cred, ![r].current = (webKey = job.new)]
    BY <1>3 DEF ReadRows
  <2>2. UNCHANGED <<database, Web, settled>>
    BY DEF ReadRows
  <2>3. run'[r] = [run[r] EXCEPT !.pc = "write", !.rows = cred, !.current = (webKey = job.new)]
    BY <2>1, <1>1 DEF TypeOK, Run
  <2>4. run' \in [Runs -> Run] /\ \A q \in Runs \ {r} : run'[q] = run[q]
    <3>1. cred \in [Servers -> Credential \cup {NoCredential}]
      BY DEF TypeOK
    <3>2. run'[r] \in Run
      BY <1>1, <2>3, <3>1 DEF Run
    <3> QED BY <2>1, <3>2 DEF TypeOK
  <2>5. /\ run'[r].pc = "write" /\ run'[r].rows = cred /\ run'[r].current = (webKey = job.new)
        /\ run'[r].old = job.old /\ run'[r].new = job.new /\ run'[r].dry = job.dry
        /\ run'[r].wrote = job.wrote /\ run'[r].exit = job.exit
    BY <2>3, <1>1 DEF Run
  <2>6. Known(r)'
    BY <2>2, <2>5 DEF Known, IdsAreFresh, TypeOK, database
  <2>7. Kept(r)'
    BY <2>2, <2>5 DEF Kept, database
  <2>8. Stage(r)'
    BY <1>1, <1>3, <2>2, <2>5 DEF RunFits, Stage, Web
  <2>9. Converging(r)' \/ ~run'[r].current
    <3>1. Rows(cred) = Updates(cred, job.old) \cup Skipped(cred, job.old, job.new)
      BY <1>3 DEF Failed, Updates, Skipped
    <3>2. \A s \in Stored : s \in Updates(cred, job.old) \/ Readable(cred[s], job.new)
      BY <3>1 DEF Stored, Rows, Skipped
    <3> QED BY <3>2, <2>2, <2>5 DEF Converging, Stored, Updates, Rows, database, Web
  <2> QED BY <1>1, <2>2, <2>4, <2>6, <2>7, <2>8, <2>9, QuietStep DEF RunFits
<1> QED BY <1>2, <1>3

LEMMA EndInv ==
  ASSUME Inv, NEW r \in Runs, RunFails(r) \/ Report(r) \/ Kill(r)
  PROVE  Inv'
<1> USE DEF Inv
<1>1. run[r] \in Run /\ RunFits(r) /\ settled \in BOOLEAN
  BY DEF TypeOK, RunInv, RunFits
<1>2. CASE RunFails(r)
  BY <1>1, <1>2, EndedFits, QuietStep DEF RunFails
<1>3. CASE Kill(r)
  BY <1>1, <1>3, EndedFits, QuietStep DEF Kill
<1>4. CASE Report(r)
  <2>1. run[r].current => \A s \in Stored : Readable(cred[s], webKey)
    BY <1>1, <1>4 DEF Report, RunFits, Converging
  <2>2. settled' \in BOOLEAN /\ (settled' => settled \/ run[r].current)
    BY <1>1, <1>4 DEF Report, Run
  <2> QED BY <1>1, <1>4, <2>1, <2>2, EndedFits, QuietStep DEF Report
<1> QED BY <1>2, <1>3, <1>4

\* The transaction.  With every row it updates still the one that was read, what
\* is written was readable and is readable under the new key.
LEMMA WriteInv == ASSUME Inv, NEW r \in Runs, WriteAll(r) PROVE Inv'
<1> USE DEF Inv
<1> DEFINE job == run[r]
           updates == Updates(job.rows, job.old)
<1>1. run[r] \in Run /\ RunFits(r) /\ settled \in BOOLEAN /\ run[r].pc = "write" /\ ~run[r].wrote
  BY DEF TypeOK, RunInv, RunFits, Stage, WriteAll
<1>2. CASE ~\A s \in updates : cred[s].id = job.rows[s].id
  <2>1. Exit(r, "3") /\ UNCHANGED <<database, Web, settled>>
    BY <1>2 DEF WriteAll, database
  <2>2. /\ run' \in [Runs -> Run]
        /\ \A q \in Runs \ {r} : run'[q] = run[q]
        /\ RunFits(r)'
    BY <1>1, <2>1, EndedFits
  <2> QED BY <1>1, <2>1, <2>2, QuietStep
<1>3. CASE \A s \in updates : cred[s].id = job.rows[s].id
  <2>1. /\ cred' = [s \in Servers |->
             IF s \in updates THEN Reencrypted(s, job.rows, job.new) ELSE cred[s]]
        /\ Written(r)
        /\ UNCHANGED <<row, stored, Web>>
    BY <1>3 DEF WriteAll
  <2>2. job.new \in Keys /\ job.old \in Keys /\ job.rows \in [Servers -> Credential \cup {NoCredential}]
    BY <1>1 DEF RunFits, Stage, Run
  <2>3. ASSUME NEW s \in updates
        PROVE  /\ job.rows[s] # NoCredential /\ cred[s] # NoCredential /\ cred[s].id = job.rows[s].id
               /\ cred'[s] \in Credential /\ cred'[s].id = cred[s].id
               /\ cred'[s].secret = cred'[s].id /\ Readable(cred'[s], job.new)
    <3>1. s \in Servers /\ job.rows[s] \in Credential /\ job.rows[s] # NoCredential
      BY <2>2 DEF Updates, Rows
    <3>2. cred[s].id = job.rows[s].id /\ cred[s] \in Credential \cup {NoCredential}
      BY <1>3, <3>1 DEF TypeOK
    <3>3. cred[s] # NoCredential /\ cred[s] \in Credential
      BY <3>1, <3>2 DEF Credential, NoCredential
    <3>4. job.rows[s].secret = job.rows[s].id /\ job.rows[s].secret \in Nat
      BY <1>1, <3>1 DEF RunFits, Known, Credential
    <3>5. cred'[s] = Reencrypted(s, job.rows, job.new)
      BY <2>1, <3>1
    <3> QED BY <2>2, <3>1, <3>2, <3>3, <3>4, <3>5 DEF Reencrypted, Credential, Marks, Readable
  <2>4. \A s \in Servers \ updates : cred'[s] = cred[s]
    BY <2>1
  <2>5. cred' \in [Servers -> Credential \cup {NoCredential}]
    <3> SUFFICES ASSUME NEW s \in Servers PROVE cred'[s] \in Credential \cup {NoCredential}
      BY <2>1
    <3> QED BY <2>3, <2>4 DEF TypeOK
  <2>6. Stored' = Stored /\ \A s \in Servers : cred'[s].id = cred[s].id
    <3>1. \A s \in Servers : (cred'[s] = NoCredential <=> cred[s] = NoCredential) /\ cred'[s].id = cred[s].id
      BY <2>3, <2>4 DEF Credential, NoCredential
    <3> QED BY <3>1 DEF Stored
  <2>7. ASSUME NEW q \in Runs
        PROVE  /\ run'[q] \in Run
               /\ run'[q].rows = run[q].rows /\ run'[q].old = run[q].old /\ run'[q].new = run[q].new
               /\ run'[q].dry = run[q].dry /\ run'[q].exit = run[q].exit
               /\ q = r => run'[q].pc = "report" /\ run'[q].wrote /\ run'[q].current = run[q].current
               /\ q # r => /\ run'[q].pc = run[q].pc /\ run'[q].wrote = run[q].wrote
                           /\ run'[q].current = (run[q].current /\ job.new = webKey)
    <3>1. run[q] \in Run
      BY DEF TypeOK
    <3>2. run'[q] = IF q = r THEN [run[r] EXCEPT !.pc = "report", !.wrote = TRUE]
                    ELSE [run[q] EXCEPT !.current = @ /\ run[r].new = webKey]
      BY <2>1 DEF Written
    <3>3. CASE q = r
      BY <3>1, <3>2, <3>3 DEF Run
    <3>4. CASE q # r
      BY <3>1, <3>2, <3>4 DEF Run
    <3> QED BY <3>3, <3>4
  <2>8. TypeOK'
    BY <1>1, <2>1, <2>5, <2>7 DEF TypeOK, Written, Web
  <2>9. IdsAreFresh'
    <3> SUFFICES ASSUME NEW s \in Servers
                 PROVE  /\ cred'[s] # NoCredential => cred'[s].id = stored[s] /\ cred'[s].secret = cred'[s].id
                        /\ row[s] \in {"absent", "deleted"} => cred'[s] = NoCredential /\ s \notin Managed
      BY <2>1 DEF IdsAreFresh
    <3>1. CASE s \in updates
      BY <2>3, <3>1 DEF IdsAreFresh
    <3>2. CASE s \notin updates
      BY <2>4, <3>2 DEF IdsAreFresh
    <3> QED BY <3>1, <3>2
  <2>10. RequestsFit'
    BY <2>1 DEF RequestsFit, Web
  <2>11. ASSUME NEW q \in Runs PROVE RunFits(q)'
    <3>1. RunFits(q)
      BY DEF RunInv, RunFits
    <3>2. Known(q)'
      BY <2>1, <2>7, <3>1 DEF RunFits, Known
    <3>3. Kept(q)'
      <4> SUFFICES ASSUME NEW s \in Servers, NEW key \in Keys, run[q].rows[s] # NoCredential,
                          Readable(run[q].rows[s], key), cred[s].id = run[q].rows[s].id
                   PROVE  \E other \in Keys : Readable(cred'[s], other)
        BY <2>6, <2>7 DEF Kept
      <4>1. CASE s \in updates
        BY <2>2, <2>3, <4>1
      <4>2. CASE s \notin updates
        BY <2>4, <3>1, <4>2 DEF RunFits, Kept
      <4> QED BY <4>1, <4>2
    <3>4. Stage(q)'
      <4>1. webKey' = webKey
        BY <2>1 DEF Web
      <4> QED BY <1>1, <2>7, <3>1, <4>1 DEF RunFits, Stage
    <3>5. run'[q].current => Converging(q)'
      <4> SUFFICES ASSUME run'[q].current, NEW s \in Stored
                   PROVE  \/ Readable(cred'[s], webKey)
                          \/ /\ run'[q].pc = "write"
                             /\ s \in Updates(run[q].rows, run[q].old)
                             /\ cred'[s].id = run[q].rows[s].id
        BY <2>1, <2>6, <2>7 DEF Converging, Web
      <4>1. run[q].current /\ job.new = webKey /\ Converging(q)
        BY <1>1, <2>7, <3>1 DEF RunFits, Stage
      <4>2. CASE s \in updates
        BY <2>3, <4>1, <4>2
      <4>3. CASE s \notin updates /\ q = r
        BY <2>4, <4>1, <4>3 DEF Converging, Stored
      <4>4. CASE s \notin updates /\ q # r
        BY <2>4, <2>7, <4>1, <4>4 DEF Converging, Stored
      <4> QED BY <4>2, <4>3, <4>4
    <3> QED BY <3>2, <3>3, <3>4, <3>5 DEF RunFits
  <2>12. SettledIsReadable'
    <3> SUFFICES ASSUME settled', NEW s \in Stored PROVE Readable(cred'[s], webKey)
      BY <2>1, <2>6 DEF SettledIsReadable, Web
    <3>1. settled /\ job.new = webKey
      BY <2>1 DEF Written
    <3>2. CASE s \in updates
      BY <2>3, <3>1, <3>2
    <3>3. CASE s \notin updates
      BY <2>4, <3>1, <3>3 DEF SettledIsReadable, Stored
    <3> QED BY <3>2, <3>3
  <2> QED BY <2>8, <2>9, <2>10, <2>11, <2>12 DEF RunInv, RunFits
<1> QED BY <1>2, <1>3

LEMMA StepInv == Inv /\ [Next]_vars => Inv'
<1> SUFFICES ASSUME Inv, [Next]_vars PROVE Inv'
  OBVIOUS
<1>1. ASSUME NEW w \in Requests, WebStep(w) PROVE Inv'
  BY <1>1, WebInv
<1>2. ASSUME NEW r \in Runs, RunStep(r) PROVE Inv'
  BY <1>2, StartInv, ReadInv, WriteInv, EndInv DEF RunStep
<1>3. ASSUME NEW key \in Keys, RestartWeb(key) PROVE Inv'
  BY <1>3, RestartInv
<1>4. CASE UNCHANGED vars
  BY <1>4 DEF vars, Inv, TypeOK, IdsAreFresh, RequestsFit, RunInv, SettledIsReadable,
              Known, Kept, Stage, Converging, Stored
<1> QED BY <1>1, <1>2, <1>3, <1>4 DEF Next

LEMMA InvHolds == Spec => []Inv
  BY InitInv, StepInv, PTL DEF Spec

\* Variables keep their types.
THEOREM TypeCorrect == Spec => []TypeOK
  BY InvHolds, PTL DEF Inv

\* A stored credential keeps the plaintext it was stored with, whatever runs overlap.
THEOREM SecretsCorrect == Spec => []SecretsKeepTheirValue
<1>1. Inv => SecretsKeepTheirValue
  BY DEF Inv, IdsAreFresh, SecretsKeepTheirValue, Stored
<1> QED BY <1>1, InvHolds, PTL

\* A successful run that began after the switch leaves nothing unreadable.
THEOREM SettledCorrect == Spec => []SettledIsReadable
  BY InvHolds, PTL DEF Inv

\* What a step of a run does to the database.
RunEffect ==
  /\ UNCHANGED <<row, stored>>
  /\ \A s \in Servers :
       cred'[s] # cred[s] =>
         /\ cred[s] # NoCredential /\ cred'[s] # NoCredential
         /\ \E old, new \in Keys : Readable(cred[s], old) /\ Readable(cred'[s], new)

LEMMA RunMoves == ASSUME Inv, NEW r \in Runs, RunStep(r) PROVE RunEffect
<1> USE DEF Inv, RunEffect
<1> DEFINE job == run[r]
           updates == Updates(job.rows, job.old)
<1>1. CASE WriteAll(r)
  <2>1. CASE UNCHANGED cred
    BY <1>1, <2>1 DEF WriteAll
  <2>2. CASE cred' # cred
    <3>1. /\ \A s \in updates : cred[s].id = job.rows[s].id
          /\ cred' = [s \in Servers |->
               IF s \in updates THEN Reencrypted(s, job.rows, job.new) ELSE cred[s]]
          /\ UNCHANGED <<row, stored>>
      BY <1>1, <2>2 DEF WriteAll
    <3>2. job \in Run /\ RunFits(r) /\ job.pc = "write"
      BY <1>1 DEF TypeOK, RunInv, RunFits, WriteAll
    <3>3. job.old \in Keys /\ job.new \in Keys
      BY <3>2 DEF RunFits, Stage
    <3>4. ASSUME NEW s \in updates
          PROVE  /\ cred[s] # NoCredential /\ cred'[s] # NoCredential
                 /\ \E old, new \in Keys : Readable(cred[s], old) /\ Readable(cred'[s], new)
      <4>1. s \in Servers /\ job.rows[s] \in Credential /\ Readable(job.rows[s], job.old)
            /\ job.rows[s] # NoCredential
        BY <3>2 DEF Updates, Rows, Run
      <4>2. cred[s] \in Credential /\ cred[s] # NoCredential
        BY <3>1, <4>1 DEF TypeOK, Credential, NoCredential
      <4>3. \E other \in Keys : Readable(cred[s], other)
        BY <3>1, <3>2, <3>3, <4>1 DEF RunFits, Kept
      <4>4. cred'[s] = Reencrypted(s, job.rows, job.new)
        BY <3>1, <4>1
      <4>5. Readable(cred'[s], job.new) /\ cred'[s].id = cred[s].id
        BY <4>2, <4>4 DEF Reencrypted, Readable, Credential
      <4>6. cred'[s] # NoCredential
        BY <4>2, <4>5 DEF Credential, NoCredential
      <4> QED BY <3>3, <4>2, <4>3, <4>5, <4>6
    <3> QED BY <3>1, <3>4
  <2> QED BY <2>1, <2>2
<1>2. CASE ~WriteAll(r)
  BY <1>2 DEF RunStep, StartRun, ReadRows, RunFails, Report, Kill, database
<1> QED BY <1>1, <1>2

\* Only a run's transaction makes it one that has written, and it finds and
\* re-encrypts all that was planned.
LEMMA RunWrites ==
  ASSUME Inv, NEW r \in Runs, RunStep(r)
  PROVE  /\ \A q \in Runs : WritesNow(q) => q = r
         /\ cred' # cred => WritesNow(r)
         /\ WritesNow(r) => \A s \in Updates(run[r].rows, run[r].old) :
              cred'[s].id = run[r].rows[s].id /\ Readable(cred'[s], run[r].new)
<1> USE DEF Inv, TypeOK
<1> DEFINE job == run[r]
           updates == Updates(job.rows, job.old)
<1>1. job \in Run /\ RunFits(r) /\ run \in [Runs -> Run]
  BY DEF RunInv, RunFits
<1>2. CASE WriteAll(r) /\ \A s \in updates : cred[s].id = job.rows[s].id
  <2>1. /\ cred' = [s \in Servers |->
             IF s \in updates THEN Reencrypted(s, job.rows, job.new) ELSE cred[s]]
        /\ Written(r)
    BY <1>2 DEF WriteAll
  <2>2. run'[r].wrote /\ ~run[r].wrote /\ \A q \in Runs \ {r} : run'[q].wrote = run[q].wrote
    BY <1>1, <1>2, <2>1 DEF Written, Run, WriteAll, RunFits, Stage
  <2>3. ASSUME NEW s \in updates
        PROVE  cred'[s].id = job.rows[s].id /\ Readable(cred'[s], job.new)
    <3>1. s \in Servers /\ job.rows[s] \in Credential /\ job.rows[s] # NoCredential
      BY <1>1 DEF Updates, Rows, Run
    <3>2. cred[s] \in Credential /\ cred[s].id = job.rows[s].id
      BY <1>2, <3>1 DEF Credential, NoCredential
    <3>3. cred'[s] = Reencrypted(s, job.rows, job.new)
      BY <2>1, <3>1
    <3> QED BY <3>2, <3>3 DEF Reencrypted, Readable, Credential
  <2> QED BY <2>2, <2>3 DEF WritesNow
<1>3. CASE ~(WriteAll(r) /\ \A s \in updates : cred[s].id = job.rows[s].id)
  <2>1. cred' = cred /\ \A q \in Runs : run'[q].wrote => run[q].wrote
    <3>1. ASSUME NEW code, Exit(r, code)
          PROVE  \A q \in Runs : run'[q].wrote => run[q].wrote
      BY <1>1, <3>1 DEF Exit, NotStarted, Run
    <3>2. ASSUME NEW old \in KeyValues, NEW new \in KeyValues, NEW dry \in BOOLEAN,
                 StartRun(r, old, new, dry)
          PROVE  cred' = cred /\ \A q \in Runs : run'[q].wrote => run[q].wrote
      BY <1>1, <3>1, <3>2 DEF StartRun, Run, database
    <3>3. CASE ReadRows(r)
      BY <1>1, <3>1, <3>3 DEF ReadRows, Run, database
    <3>4. CASE WriteAll(r)
      BY <1>1, <1>3, <3>1, <3>4 DEF WriteAll
    <3>5. CASE RunFails(r) \/ Report(r) \/ Kill(r)
      BY <3>1, <3>5 DEF RunFails, Report, Kill, database
    <3> QED BY <3>2, <3>3, <3>4, <3>5 DEF RunStep
  <2> QED BY <2>1 DEF WritesNow
<1> QED BY <1>2, <1>3

\* A run re-encrypts everything it planned in one step, or nothing; and nothing if
\* it was dry, or ended with exit 1 or 2.
THEOREM AllOrNothingCorrect == Spec => RunsAreAllOrNothing
<1> DEFINE Step ==
      /\ \A s \in Servers : cred'[s] # cred[s] /\ cred'[s].id = cred[s].id
           => \E r \in Runs : WritesNow(r)
      /\ \A r \in Runs : WritesNow(r) =>
           \A s \in Updates(run[r].rows, run[r].old) :
             cred'[s].id = run[r].rows[s].id /\ Readable(cred'[s], run[r].new)
      /\ \A r \in Runs : run'[r].wrote => ~run'[r].dry /\ run'[r].exit \notin {"1", "2"}
<1>1. ASSUME Inv, Next PROVE Step
  <2>1. \A r \in Runs : run'[r].wrote => ~run'[r].dry /\ run'[r].exit \notin {"1", "2"}
    <3>1. Inv'
      BY <1>1, StepInv
    <3> QED BY <3>1 DEF Inv, RunInv, Stage
  <2>2. ASSUME NEW w \in Requests, WebStep(w)
        PROVE  /\ \A s \in Servers : ~(cred'[s] # cred[s] /\ cred'[s].id = cred[s].id)
               /\ \A r \in Runs : ~WritesNow(r)
    <3>1. WebEffect /\ \A s \in Servers : stored[s] \in Nat
      BY <1>1, <2>2, WebMoves DEF Inv, TypeOK
    <3>2. \A s \in Servers : cred[s] # NoCredential => cred[s].id # 0
      BY <1>1 DEF Inv, TypeOK, Credential
    <3> QED BY <3>1, <3>2 DEF WebEffect, WritesNow, Under, NoCredential
  <2>3. ASSUME NEW r \in Runs, RunStep(r)
        PROVE  /\ cred' # cred => \E q \in Runs : WritesNow(q)
               /\ \A q \in Runs : WritesNow(q) =>
                    \A s \in Updates(run[q].rows, run[q].old) :
                      cred'[s].id = run[q].rows[s].id /\ Readable(cred'[s], run[q].new)
    BY <1>1, <2>3, RunWrites
  <2>4. ASSUME NEW key \in Keys, RestartWeb(key)
        PROVE  cred' = cred /\ \A r \in Runs : ~WritesNow(r)
    BY <1>1, <2>4 DEF RestartWeb, database, WritesNow, Inv, TypeOK, Run
  <2> QED BY <1>1, <2>1, <2>2, <2>3, <2>4 DEF Next
<1>2. Inv /\ [Next]_vars => [Step]_vars
  BY <1>1
<1> QED BY <1>2, InvHolds, PTL DEF Spec, RunsAreAllOrNothing

\* Rows that were deleted stay deleted.
LEMMA DeletedRows ==
  ASSUME Inv, [Next]_vars, NEW s \in Servers, row[s] = "deleted"
  PROVE  row'[s] = "deleted"
<1>1. ASSUME NEW w \in Requests, WebStep(w) PROVE row'[s] = "deleted"
  <2>1. row \in [Servers -> {"absent", "active", "archived", "deleted"}] /\ s \notin Managed
    BY DEF Inv, TypeOK, IdsAreFresh
  <2>2. req[w].pc = "archive" /\ req[w].op = "archive" => req[w].srv \in Managed
    BY DEF Inv, RequestsFit, IdleRequest
  <2> QED BY <1>1, <2>1, <2>2
    DEF WebStep, Submit, StoreExternal, ReadForPrepare, StoreForPrepare, ReadForArchive, Archive,
        ReadForRemove, Remove, database, Other, At
<1>2. ASSUME NEW r \in Runs, RunStep(r) PROVE row'[s] = "deleted"
  BY <1>2, RunMoves DEF RunEffect
<1>3. ASSUME NEW key \in Keys, RestartWeb(key) PROVE row'[s] = "deleted"
  BY <1>3 DEF RestartWeb, database
<1>4. CASE UNCHANGED vars
  BY <1>4 DEF vars
<1> QED BY <1>1, <1>2, <1>3, <1>4 DEF Next

\* A deleted credential stays deleted, a later one is new.
THEOREM DeletedCorrect == Spec => DeletedStaysDeleted
<1>1. ASSUME Inv, [Next]_vars, NEW s \in Servers
      PROVE  /\ row[s] = "deleted" => row'[s] = "deleted" /\ cred'[s] = NoCredential
             /\ (cred[s] = NoCredential /\ cred'[s] # NoCredential) => cred'[s].id = stored[s] + 1
  <2>1. row[s] = "deleted" => row'[s] = "deleted" /\ cred'[s] = NoCredential
    BY <1>1, DeletedRows, StepInv DEF Inv, IdsAreFresh
  <2>2. (cred[s] = NoCredential /\ cred'[s] # NoCredential) => cred'[s].id = stored[s] + 1
    <3>1. ASSUME NEW w \in Requests, WebStep(w)
          PROVE  (cred[s] = NoCredential /\ cred'[s] # NoCredential) => cred'[s].id = stored[s] + 1
      <4>1. WebEffect
        BY <1>1, <3>1, WebMoves
      <4>2. Under(stored[s] + 1, webKey).id = stored[s] + 1
        BY DEF Under
      <4> QED BY <4>1, <4>2 DEF WebEffect
    <3>2. ASSUME NEW r \in Runs, RunStep(r)
          PROVE  cred[s] = NoCredential => cred'[s] = NoCredential
      BY <1>1, <3>2, RunMoves DEF RunEffect
    <3>3. (UNCHANGED vars \/ \E key \in Keys : RestartWeb(key)) => cred' = cred
      BY DEF vars, RestartWeb, database
    <3> QED BY <1>1, <3>1, <3>2, <3>3 DEF Next
  <2> QED BY <2>1, <2>2
<1>2. Inv /\ [Next]_vars =>
        [\A s \in Servers :
           /\ row[s] = "deleted" => row'[s] = "deleted" /\ cred'[s] = NoCredential
           /\ (cred[s] = NoCredential /\ cred'[s] # NoCredential) => cred'[s].id = stored[s] + 1]_vars
  BY <1>1
<1> QED BY <1>2, InvHolds, PTL DEF Spec, DeletedStaysDeleted

\* No step takes a credential out of reach of every key.
THEOREM ReadableCorrect == Spec => ReadableStaysReadable
<1>1. ASSUME Inv, [Next]_vars, NEW s \in Servers, cred[s].id = cred'[s].id, cred[s] # cred'[s]
      PROVE  \E old, new \in Keys : Readable(cred[s], old) /\ Readable(cred'[s], new)
  <2>1. cred[s] \in Credential \cup {NoCredential} /\ stored[s] \in Nat
    BY <1>1 DEF Inv, TypeOK
  <2>2. ASSUME NEW w \in Requests, WebStep(w) PROVE FALSE
    <3>1. WebEffect
      BY <1>1, <2>2, WebMoves
    <3> QED BY <1>1, <2>1, <3>1 DEF WebEffect, Under, Credential, NoCredential
  <2>3. (UNCHANGED vars \/ \E key \in Keys : RestartWeb(key)) => cred' = cred
    BY DEF vars, RestartWeb, database
  <2>4. ASSUME NEW r \in Runs, RunStep(r)
        PROVE  \E old, new \in Keys : Readable(cred[s], old) /\ Readable(cred'[s], new)
    BY <1>1, <2>4, RunMoves DEF RunEffect
  <2> QED BY <1>1, <2>2, <2>3, <2>4 DEF Next
<1>2. Inv /\ [Next]_vars =>
        [\A s \in Servers : (cred[s].id = cred'[s].id /\ cred[s] # cred'[s]) =>
           \E old, new \in Keys : Readable(cred[s], old) /\ Readable(cred'[s], new)]_vars
  BY <1>1
<1> QED BY <1>2, InvHolds, PTL DEF Spec, ReadableStaysReadable

-----------------------------------------------------------------------------
(* The table, seen from outside, is a vault of single credentials.         *)

KeyOf(c) == IF c.user = c.pass THEN c.user ELSE "damaged"

Values  == [s \in Servers |-> cred[s].secret]
KeysOf  == [s \in Servers |-> IF cred[s].user = cred[s].pass THEN cred[s].user ELSE "damaged"]
Removed == {s \in Servers : row[s] = "deleted"}

Table == <<stored, Values, KeysOf, webKey, Removed>>

LEMMA TableInit == Init => Contract!Init
<1> SUFFICES ASSUME Init PROVE Contract!Init
  OBVIOUS
<1> USE DEF Init
<1>1. ASSUME NEW s \in Servers
      PROVE  /\ Values[s] \in {0, 1} /\ stored[s] = Values[s]
             /\ KeysOf[s] \in Keys \cup {"none", "damaged"}
             /\ KeysOf[s] = "none" <=> Values[s] = 0
  <2>1. cred[s] \in {NoCredential} \cup [id : {1}, user : Keys, pass : Marks, secret : {1}]
    OBVIOUS
  <2>2. stored[s] = cred[s].id
    OBVIOUS
  <2>3. CASE cred[s] = NoCredential
    BY <2>2, <2>3 DEF Values, KeysOf, NoCredential
  <2>4. CASE cred[s] \in [id : {1}, user : Keys, pass : Marks, secret : {1}]
    BY <2>2, <2>4 DEF Values, KeysOf, Marks
  <2> QED BY <2>1, <2>3, <2>4
<1>2. Values \in [Servers -> {0, 1}] /\ stored = Values
      /\ KeysOf \in [Servers -> Keys \cup {"none", "damaged"}]
  BY <1>1 DEF Values, KeysOf
<1>3. Removed = {}
  BY DEF Removed
<1> QED BY <1>1, <1>2, <1>3 DEF Contract!Init, Values, KeysOf, Removed

\* One credential changes.
LEMMA TablePut ==
  ASSUME Inv, NEW s \in Servers, NEW c \in Credential \cup {NoCredential},
         cred' = [cred EXCEPT ![s] = c]
  PROVE  Values' = [Values EXCEPT ![s] = c.secret] /\ KeysOf' = [KeysOf EXCEPT ![s] = KeyOf(c)]
<1>1. cred'[s] = c /\ \A t \in Servers \ {s} : cred'[t] = cred[t]
  BY DEF Inv, TypeOK
<1>2. /\ Values'[s] = c.secret /\ KeysOf'[s] = KeyOf(c)
      /\ \A t \in Servers \ {s} : Values'[t] = Values[t] /\ KeysOf'[t] = KeysOf[t]
  BY <1>1 DEF Values, KeysOf, KeyOf
<1>3. /\ Values = [t \in Servers |-> Values[t]] /\ Values' = [t \in Servers |-> Values'[t]]
      /\ KeysOf = [t \in Servers |-> KeysOf[t]] /\ KeysOf' = [t \in Servers |-> KeysOf'[t]]
  BY DEF Values, KeysOf
<1> QED BY <1>2, <1>3

\* A credential is stored where there was none.
LEMMA TableStore ==
  ASSUME Inv, NEW s \in Servers, cred[s] = NoCredential, row[s] # "deleted",
         cred' = [cred EXCEPT ![s] = Under(stored[s] + 1, webKey)],
         stored' = [stored EXCEPT ![s] = @ + 1], webKey' = webKey, Removed' = Removed
  PROVE  Contract!Store(s)
<1>1. PICK c \in Credential : /\ c = Under(stored[s] + 1, webKey)
                             /\ c.secret = stored[s] + 1 /\ KeyOf(c) = webKey
  BY DEF Under, KeyOf, Credential, Marks, Inv, TypeOK
<1>2. Values' = [Values EXCEPT ![s] = stored[s] + 1] /\ KeysOf' = [KeysOf EXCEPT ![s] = webKey]
  <2>1. cred' = [cred EXCEPT ![s] = c] /\ c \in Credential \cup {NoCredential}
    BY <1>1
  <2>2. Values' = [Values EXCEPT ![s] = c.secret] /\ KeysOf' = [KeysOf EXCEPT ![s] = KeyOf(c)]
    BY <2>1, TablePut
  <2> QED BY <1>1, <2>2
<1>3. Values[s] = 0 /\ s \notin Removed
  BY DEF Values, Removed, NoCredential
<1> QED BY <1>2, <1>3 DEF Contract!Store, Contract!Put, Values, KeysOf, Removed

\* A credential is deleted, with its server or without.
LEMMA TableDelete ==
  ASSUME Inv, NEW s \in Servers, cred' = [cred EXCEPT ![s] = NoCredential],
         UNCHANGED <<stored, webKey>>, Removed' \in {Removed, Removed \cup {s}}
  PROVE  Contract!Delete(s) \/ Contract!Remove(s)
<1>1. NoCredential.secret = 0 /\ KeyOf(NoCredential) = "none"
  BY DEF NoCredential, KeyOf
<1>2. Values' = [Values EXCEPT ![s] = 0] /\ KeysOf' = [KeysOf EXCEPT ![s] = "none"]
  BY <1>1, TablePut
<1> QED BY <1>2 DEF Contract!Delete, Contract!Remove, Contract!Put, Values, KeysOf, Removed

LEMMA TableQuiet ==
  ASSUME UNCHANGED <<cred, stored, webKey>>, Removed' = Removed
  PROVE  UNCHANGED Table
BY DEF Table, Values, KeysOf

LEMMA TableWeb ==
  ASSUME Inv, NEW w \in Requests, WebStep(w)
  PROVE  [Contract!Next]_Table
<1>1. row \in [Servers -> {"absent", "active", "archived", "deleted"}] /\ cred \in [Servers -> Credential \cup {NoCredential}]
  BY DEF Inv, TypeOK
<1>2. \A t \in Servers : row[t] \in {"absent", "deleted"} => cred[t] = NoCredential /\ t \notin Managed
  BY DEF Inv, IdsAreFresh
<1>3. CASE UNCHANGED database /\ webKey' = webKey
  BY <1>3, TableQuiet DEF database, Removed
<1>4. CASE StoreExternal(w) \/ StoreForPrepare(w) \/ Archive(w) \/ Remove(w)
  <2>1. /\ req[w].srv \in Servers /\ req[w].key = webKey
        /\ req[w].op \in {"prepare", "archive"} <=> req[w].srv \in Managed
    BY <1>4 DEF Inv, TypeOK, RequestsFit, Request, IdleRequest,
                StoreExternal, StoreForPrepare, Archive, Remove, At
  <2>2. PICK s \in Servers : s = req[w].srv
    BY <2>1
  <2>3. SUFFICES Contract!Store(s) \/ Contract!Delete(s) \/ Contract!Remove(s) \/ UNCHANGED Table
    BY DEF Contract!Next
  <2>4. CASE StoreExternal(w)
    <3>1. row[s] = "absent" /\ cred[s] = NoCredential
      BY <1>2, <2>2, <2>4 DEF StoreExternal
    <3>2. Removed' = Removed
      BY <1>1, <2>2, <2>4, <3>1 DEF StoreExternal, Removed
    <3> QED BY <2>1, <2>2, <2>4, <3>1, <3>2, TableStore DEF StoreExternal, Other
  <2>5. CASE StoreForPrepare(w)
    <3>1. row[s] # "deleted" /\ Removed' = Removed /\ webKey' = webKey
      BY <1>2, <2>1, <2>2, <2>5 DEF StoreForPrepare, At, Removed, Other
    <3>2. CASE cred[s] = NoCredential
      BY <2>1, <2>2, <2>5, <3>1, <3>2, TableStore DEF StoreForPrepare
    <3>3. CASE cred[s] # NoCredential
      BY <2>2, <2>5, <3>1, <3>3, TableQuiet DEF StoreForPrepare
    <3> QED BY <3>2, <3>3
  <2>6. CASE Archive(w)
    <3>1. row[s] # "deleted" /\ UNCHANGED <<stored, webKey>>
      BY <1>2, <2>1, <2>2, <2>6 DEF Archive, At, Other
    <3>2. Removed' = Removed
      BY <1>1, <2>2, <2>6, <3>1 DEF Archive, Removed
    <3>3. CASE req[w].had
      BY <2>2, <2>6, <3>1, <3>2, <3>3, TableDelete DEF Archive
    <3>4. CASE ~req[w].had
      <4>1. cred' = cred
        BY <1>1, <2>6, <3>4 DEF Archive
      <4> QED BY <3>1, <3>2, <4>1, TableQuiet
    <3> QED BY <3>3, <3>4
  <2>7. CASE Remove(w)
    <3>1. UNCHANGED <<stored, webKey>>
      BY <2>7 DEF Remove, Other
    <3>2. Removed' = Removed \cup {s}
      BY <1>1, <2>2, <2>7 DEF Remove, Removed
    <3> QED BY <2>2, <2>7, <3>1, <3>2, TableDelete DEF Remove
  <2> QED BY <1>4, <2>4, <2>5, <2>6, <2>7
<1> QED BY <1>3, <1>4
    DEF WebStep, Submit, ReadForPrepare, ReadForArchive, ReadForRemove, Other

\* The transaction puts all planned credentials under the new key at once, each
\* of them from a key that read it, and none of them with another's plaintext.
LEMMA TableRun ==
  ASSUME Inv, NEW r \in Runs, RunStep(r)
  PROVE  [Contract!Next]_Table
<1> DEFINE job == run[r]
           updates == Updates(job.rows, job.old)
<1>1. UNCHANGED <<row, stored, webKey>>
  BY DEF RunStep, StartRun, ReadRows, WriteAll, RunFails, Report, Kill, database, Web
<1>2. Removed' = Removed
  BY <1>1 DEF Removed
<1>3. CASE UNCHANGED cred
  BY <1>1, <1>2, <1>3, TableQuiet
<1>4. CASE WriteAll(r) /\ cred' # cred
  <2>1. /\ \A s \in updates : cred[s].id = job.rows[s].id
        /\ cred' = [s \in Servers |->
             IF s \in updates THEN Reencrypted(s, job.rows, job.new) ELSE cred[s]]
    BY <1>4 DEF WriteAll
  <2>2. job \in Run /\ RunFits(r) /\ job.old \in Keys /\ job.new \in Keys
    BY <1>4 DEF Inv, TypeOK, RunInv, RunFits, Stage, WriteAll
  <2>3. updates \in SUBSET Servers
    BY DEF Updates, Rows
  <2>4. ASSUME NEW s \in updates
        PROVE  KeysOf[s] \in Keys /\ KeysOf'[s] = job.new /\ Values'[s] = Values[s]
    <3>1. s \in Servers /\ job.rows[s] \in Credential /\ Readable(job.rows[s], job.old)
          /\ job.rows[s] # NoCredential
      BY <2>2 DEF Updates, Rows, Run
    <3>2. cred[s] \in Credential /\ cred[s] # NoCredential /\ cred[s].id = job.rows[s].id
      BY <2>1, <3>1 DEF Inv, TypeOK, Credential, NoCredential
    <3>3. \E other \in Keys : Readable(cred[s], other)
      BY <2>2, <3>1, <3>2 DEF RunFits, Kept
    <3>4. cred[s].secret = job.rows[s].secret
      BY <2>2, <3>1, <3>2 DEF Inv, IdsAreFresh, RunFits, Known
    <3>5. cred'[s] = Reencrypted(s, job.rows, job.new)
      BY <2>1, <3>1
    <3>6. cred'[s].user = job.new /\ cred'[s].pass = job.new /\ cred'[s].secret = cred[s].secret
      BY <3>2, <3>4, <3>5 DEF Reencrypted, Credential
    <3> QED BY <3>1, <3>3, <3>6 DEF KeysOf, Values, Readable
  <2>5. \A s \in Servers \ updates : KeysOf'[s] = KeysOf[s] /\ Values'[s] = Values[s]
    BY <2>1 DEF KeysOf, Values
  <2>6. Values' = Values
    BY <2>4, <2>5 DEF Values
  <2>7. KeysOf' = [s \in Servers |-> IF s \in updates THEN job.new ELSE KeysOf[s]]
    BY <2>4, <2>5 DEF KeysOf
  <2>8. PICK some \in SUBSET Servers, new \in Keys : some = updates /\ new = job.new
    BY <2>2, <2>3
  <2>9. Contract!Rekey(some, new)
    BY <1>1, <1>2, <2>4, <2>6, <2>7, <2>8 DEF Contract!Rekey, Values, KeysOf, Removed
  <2> QED BY <2>9 DEF Contract!Next
<1> QED BY <1>3, <1>4 DEF RunStep, StartRun, ReadRows, WriteAll, RunFails, Report, Kill, database

LEMMA TableStep == Inv /\ [Next]_vars => [Contract!Next]_Table
<1> SUFFICES ASSUME Inv, [Next]_vars PROVE [Contract!Next]_Table
  OBVIOUS
<1>1. ASSUME NEW new \in Keys, RestartWeb(new) PROVE [Contract!Next]_Table
  <2>1. Contract!Serve(new)
    BY <1>1 DEF RestartWeb, database, Contract!Serve
  <2> QED BY <2>1 DEF Contract!Next
<1>2. CASE UNCHANGED vars
  BY <1>2, TableQuiet DEF vars, Removed
<1> QED BY <1>1, <1>2, TableWeb, TableRun DEF Next

\* For every number of servers, keys, requests and runs, the table is a vault:
\* whatever overlaps, is restarted, interrupted or fails, no credential is lost
\* to every key, mixed up with another one or brought back.
THEOREM RotationImplementsVault == Spec => ImplementsContract
<1>1. Spec => Contract!Init /\ [][Contract!Next]_Table
  BY TableInit, TableStep, InvHolds, PTL DEF Spec
<1> QED BY <1>1, PTL DEF ImplementsContract, Contract!Spec, Contract!vars, Table, Values, KeysOf, Removed

=============================================================================
