---------------------------- MODULE RotationPlan ---------------------------
(***************************************************************************)
(* The backup list of a server and the rotation plan computed from it      *)
(* (apps/agent/src/backup-list.ts, apps/web/src/core/backup-rotation-      *)
(* preview.ts, packages/shared/src/provisioning/backup-delete.ts).         *)
(*                                                                         *)
(* The page only shows which backups a rotation would delete; the owner    *)
(* deletes files one by one.  Here every deletion follows a plan that some *)
(* page has shown, however old that page is, and the agent lists file by   *)
(* file while backups are written and deleted.                             *)
(*                                                                         *)
(* Backups are numbered in the order of the time stamps in their names,    *)
(* and dates are days.  Deleting and writing one backup step by step,      *)
(* overlapping backups, and what becomes of two with the same time stamp,  *)
(* are BackupStore's subject: here a deletion is one step, and one backup  *)
(* is made at a time.                                                      *)
(*                                                                         *)
(* A definition whose name begins with Bug_ is not part of the model: it   *)
(* is the next definition with a plausible mistake.                        *)
(***************************************************************************)
EXTENDS Naturals, FiniteSets

CONSTANTS
  MaxBackups,  \* bound on the number of backups ever made
  MaxDay,      \* bound on the days that pass
  Policy,      \* the rotation policy
  MaxFaults    \* bound on the number of failing file accesses

Backups == 1 .. MaxBackups
Days    == 0 .. MaxDay
Never   == MaxDay + 1

\* `deleteOlderThanDays` is optional: a set of at most one number.
ASSUME RotationPlanAssumption ==
  /\ MaxBackups \in Nat /\ MaxDay \in Nat /\ MaxFaults \in Nat
  /\ Policy \in [keepLastCount : Nat, keepMinAgeDays : Nat, deleteOlderThanDays : SUBSET Nat,
                 protectOnlyBackup : BOOLEAN, protectLastVerifiedBackup : BOOLEAN]

VARIABLES
  today,    \* the agent's clock, in days
  made,     \* the number of backups named so far
  making,   \* the last one, if it is under way: named, or its archive exists
  stamp,    \* of each backup, the day in its name
  birth,    \* the day its archive was created on
  created,  \* the day in its metadata, Never without valid metadata
  files,    \* the backups whose archive is in the directory
  reading,  \* the listing under way: the names still to be read
  entries,  \* the entries it has read
  planned,  \* the candidates of every plan shown so far
  gone,     \* history: the deleted backups
  faults    \* faults so far

disk == <<made, stamp, birth, created, files, gone>>
vars == <<today, made, making, stamp, birth, created, files, reading, entries, planned, gone, faults>>

Entry == [file : Backups, created : Days, verified : BOOLEAN]

TypeOK ==
  /\ today \in Days /\ made \in 0 .. MaxBackups
  /\ making \in {"none", "named", "archive"}
  /\ stamp \in [Backups -> Days \cup {Never}]
  /\ birth \in [Backups -> Days \cup {Never}]
  /\ created \in [Backups -> Days \cup {Never}]
  /\ files \subseteq Backups /\ gone \subseteq Backups
  /\ reading \subseteq Backups /\ entries \subseteq Entry
  /\ planned \subseteq Backups
  /\ faults \in 0 .. MaxFaults

Init ==
  /\ today = 0 /\ made = 0 /\ making = "none"
  /\ stamp = [n \in Backups |-> Never]
  /\ birth = [n \in Backups |-> Never]
  /\ created = [n \in Backups |-> Never]
  /\ files = {} /\ reading = {} /\ entries = {} /\ planned = {} /\ gone = {}
  /\ faults = 0

-----------------------------------------------------------------------------
(* buildBackupRotationPlan, on a set of entries.                           *)

\* The order of the sorted list: by date, then by name.
NewerThan(d, e) == d.created > e.created \/ (d.created = e.created /\ d.file > e.file)

ageDays(e) == today - e.created

\* The entries in front of an entry in the list, newest first.
Before(e, list) == {d \in list : NewerThan(d, e)}

onlyBackup(e, list) == Policy.protectOnlyBackup /\ Cardinality(list) = 1

Bug_OneLess(e, list) == Cardinality(Before(e, list)) + 1 < Policy.keepLastCount
keepLastCount(e, list) == Cardinality(Before(e, list)) < Policy.keepLastCount

Bug_RoundedUp(e, list) == ageDays(e) + 1 < Policy.keepMinAgeDays
keepMinAgeDays(e, list) == ageDays(e) < Policy.keepMinAgeDays

lastVerifiedBackup(e, list) ==
  /\ Policy.protectLastVerifiedBackup
  /\ e.verified /\ \A d \in Before(e, list) : ~d.verified

notOldEnough(e) == \E days \in Policy.deleteOlderThanDays : ageDays(e) <= days

deleteCandidates(list) ==
  {e \in list : ~(\/ onlyBackup(e, list)     \/ keepLastCount(e, list)
                  \/ keepMinAgeDays(e, list) \/ lastVerifiedBackup(e, list)
                  \/ notOldEnough(e))}

-----------------------------------------------------------------------------
(* A backup is named when it is asked for, its archive appears when the    *)
(* helper starts, and its metadata when the helper has ended.              *)

\* The number stands for the place of the time stamp in the order of the names:
\* with one backup at a time, each is named after the one before has ended.
NameBackup ==
  /\ making = "none" /\ made < MaxBackups
  /\ making' = "named" /\ made' = made + 1
  /\ stamp' = [stamp EXCEPT ![made + 1] = today]
  /\ UNCHANGED <<today, birth, created, files, reading, entries, planned, gone, faults>>

CreateArchive ==
  /\ making = "named"
  /\ making' = "archive"
  /\ birth' = [birth EXCEPT ![made] = today]
  /\ files' = files \cup {made}
  /\ UNCHANGED <<today, made, stamp, created, reading, entries, planned, gone, faults>>

\* The metadata carry the day of the name.
WriteMetadata ==
  /\ making = "archive"
  /\ making' = "none"
  /\ created' = [created EXCEPT ![made] = stamp[made]]
  /\ UNCHANGED <<today, made, stamp, birth, files, reading, entries, planned, gone, faults>>

\* Before or after the archive appears; an unfinished archive stays.
BackupFails ==
  /\ making # "none"
  /\ making' = "none"
  /\ UNCHANGED <<today, disk, reading, entries, planned, faults>>

-----------------------------------------------------------------------------
(* listTs3VolumeBackups and buildRotationPreview.                          *)

\* The directory is read once; a page that was asked for earlier is forgotten.
ListDir ==
  /\ files # {}
  /\ reading' = files /\ entries' = {}
  /\ UNCHANGED <<today, making, disk, planned, faults>>

\* mapBackupListEntryToRotationEntry: without readable metadata the archive's
\* own date counts, and no backup counts as verified.
CreatedAt(n, readable) == IF readable /\ created[n] # Never THEN created[n] ELSE birth[n]

\* An archive that is gone by now is left out.
ReadEntry(n) ==
  /\ n \in reading
  /\ reading' = reading \ {n}
  /\ \/ /\ n \in files /\ UNCHANGED faults
        /\ entries' = entries \cup {[file |-> n, created |-> CreatedAt(n, TRUE), verified |-> FALSE]}
     \/ n \notin files /\ UNCHANGED <<entries, faults>>
     \/ /\ n \in files /\ faults < MaxFaults /\ faults' = faults + 1
        /\ \/ entries' = entries \cup
                {[file |-> n, created |-> CreatedAt(n, FALSE), verified |-> FALSE]}
           \/ UNCHANGED entries
  /\ UNCHANGED <<today, making, disk, planned>>

\* The page shows the plan; it stays open in some tab.
ShowPlan ==
  /\ reading = {} /\ entries # {}
  /\ planned' = planned \cup {e.file : e \in deleteCandidates(entries)}
  /\ entries' = {}
  /\ UNCHANGED <<today, making, disk, reading, faults>>

\* deleteTs3BackupFile on a file that some page proposed.
DeletePlanned(n) ==
  /\ n \in planned /\ n \in files
  /\ files' = files \ {n} /\ gone' = gone \cup {n}
  /\ UNCHANGED <<today, made, making, stamp, birth, created, reading, entries, planned, faults>>

DayPasses ==
  /\ today < MaxDay
  /\ today' = today + 1
  /\ UNCHANGED <<making, disk, reading, entries, planned, faults>>

Next ==
  \/ NameBackup \/ CreateArchive \/ WriteMetadata \/ BackupFails
  \/ ListDir \/ (\E n \in Backups : ReadEntry(n)) \/ ShowPlan
  \/ (\E n \in Backups : DeletePlanned(n)) \/ DayPasses

Spec == Init /\ [][Next]_vars

-----------------------------------------------------------------------------
(* Properties.                                                             *)

\* However many plans were shown, however old they are, and whatever was being
\* written or deleted while the agent listed: whoever deletes only candidates
\* always keeps the newest `keepLastCount` archives, in the order of their
\* names, as long as backups do not overlap (backup-delete.ts, keepLastCount).
NewestAreKept ==
  \A n \in gone : Cardinality({m \in files : m > n}) >= Policy.keepLastCount

\* No backup is deleted by a plan before it is `keepMinAgeDays` old, by the day
\* in its name, whatever day the plan was shown on and whichever date it was
\* computed from (backup-delete.ts, keepMinAgeDays).
YoungAreSpared ==
  [][\A n \in gone' \ gone : today >= stamp[n] + Policy.keepMinAgeDays]_vars

=============================================================================
