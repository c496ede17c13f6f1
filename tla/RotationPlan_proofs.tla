------------------------ MODULE RotationPlan_proofs ------------------------
(***************************************************************************)
(* Theorems about RotationPlan, for every policy and any number of         *)
(* backups, days and failing accesses.                                     *)
(*                                                                         *)
(* A plan counts the entries of a listing that may be old, incomplete and  *)
(* dated from two sources; the properties count the archives that are      *)
(* there.  Two facts connect them.  DatesInv: every date a listing shows   *)
(* lies between the day in the name and the day the archive appeared, and  *)
(* these intervals follow each other in the order of the names, so an      *)
(* entry in front of another one has the later name.  PlanInv: each        *)
(* candidate still has enough newer archives; if a newer one was deleted   *)
(* since the listing, then because it was a candidate itself, and it has   *)
(* enough archives that are newer still.                                   *)
(***************************************************************************)
EXTENDS RotationPlan, FiniteSetTheorems, TLAPS

Archived == files \cup gone

Newer(n) == {m \in files : m > n}

\* How far the backup that is being made has got.
MakingInv ==
  /\ Archived \subseteq 1 .. made
  /\ making # "none" => made >= 1
  /\ making = "named" => made \notin Archived

DatesInv ==
  /\ \A n \in 1 .. made : stamp[n] \in Days /\ stamp[n] <= today
  /\ \A n \in Archived : birth[n] \in Days /\ stamp[n] <= birth[n] /\ birth[n] <= today
  /\ \A n \in Archived : \A m \in 1 .. made : n < m => birth[n] <= stamp[m]
  /\ \A n \in Backups : created[n] # Never => n \in 1 .. made /\ created[n] = stamp[n]

\* What the listing under way has seen, one entry for each file.
ListInv ==
  /\ reading \subseteq Archived
  /\ \A e \in entries : /\ e.file \in Archived /\ e.file \notin reading
                        /\ stamp[e.file] <= e.created /\ e.created <= birth[e.file]
  /\ \A d, e \in entries : d.file = e.file => d = e

PlanInv ==
  /\ gone \subseteq planned /\ planned \subseteq Archived
  /\ \A n \in planned : /\ Cardinality(Newer(n)) >= Policy.keepLastCount
                        /\ today >= stamp[n] + Policy.keepMinAgeDays

Inv == TypeOK /\ MakingInv /\ DatesInv /\ ListInv /\ PlanInv

USE RotationPlanAssumption

LEMMA PolicyTypes ==
  /\ Policy.keepLastCount \in Nat
  /\ Policy.keepMinAgeDays \in Nat
OBVIOUS

\* Sets of backups are finite, and larger sets have more elements.
LEMMA BackupsFinite ==
  ASSUME NEW S \in SUBSET Backups, NEW T \in SUBSET S
  PROVE  /\ IsFiniteSet(S)
         /\ Cardinality(S) \in Nat
         /\ Cardinality(T) \in Nat
         /\ Cardinality(T) <= Cardinality(S)
<1>1. IsFiniteSet(Backups)
  BY FS_Interval DEF Backups
<1>2. IsFiniteSet(S)
  BY <1>1, FS_Subset
<1>3. IsFiniteSet(T) /\ Cardinality(T) <= Cardinality(S)
  BY <1>2, FS_Subset
<1> QED BY <1>2, <1>3, FS_CardinalityType

LEMMA InitInv == Init => Inv
<1> SUFFICES ASSUME Init PROVE Inv
  OBVIOUS
<1>1. TypeOK
  BY DEF Init, TypeOK, Days, Backups
<1>2. MakingInv /\ DatesInv /\ ListInv /\ PlanInv
  BY DEF Init, MakingInv, DatesInv, ListInv, PlanInv, Archived
<1> QED BY <1>1, <1>2 DEF Inv

-----------------------------------------------------------------------------
(* A new plan.                                                             *)

\* In the list, what stands in front of an entry has a later name.
LEMMA FrontIsNewer ==
  ASSUME Inv, NEW d \in entries, NEW e \in entries, NewerThan(d, e)
  PROVE  d.file > e.file
<1> USE DEF Inv, TypeOK, Entry, Backups, Days
<1>1. /\ d.file \in Nat /\ e.file \in Nat
      /\ d.created \in Nat /\ e.created \in Nat
  OBVIOUS
<1>2. CASE d.created = e.created
  BY <1>1, <1>2 DEF NewerThan
<1>3. CASE d.created > e.created
  <2>1. d.file # e.file
    BY <1>1, <1>3 DEF ListInv
  <2>2. d.file \in Archived /\ d.created <= birth[d.file] /\ e.file \in Archived /\ stamp[e.file] <= e.created
    BY DEF ListInv
  <2>3. e.file \in 1 .. made /\ stamp[e.file] \in Nat /\ birth[d.file] \in Nat
    BY <2>2 DEF MakingInv, DatesInv
  <2>4. d.file < e.file => birth[d.file] <= stamp[e.file]
    BY <2>2, <2>3 DEF DatesInv
  <2> QED BY <1>1, <1>3, <2>1, <2>2, <2>3, <2>4
<1> QED BY <1>1, <1>2, <1>3 DEF NewerThan

\* A candidate has enough newer archives.
LEMMA CandidateHasNewer ==
  ASSUME Inv, NEW e \in deleteCandidates(entries)
  PROVE  Cardinality(Newer(e.file)) >= Policy.keepLastCount
<1> DEFINE front == Before(e, entries)
<1>1. e \in entries /\ ~(Cardinality(front) < Policy.keepLastCount)
  BY DEF deleteCandidates, keepLastCount
<1>2. \A d \in front : d \in entries /\ d.file > e.file /\ d.file \in Archived /\ d.file \in Nat
  BY <1>1, FrontIsNewer DEF Before, Inv, ListInv, TypeOK, Entry, Backups
<1>3. e.file \in Nat /\ files \in SUBSET Backups
  BY <1>1 DEF Inv, TypeOK, Entry, Backups
<1>4. Newer(e.file) \in SUBSET Backups
  BY <1>3 DEF Newer
<1>5. CASE \A d \in front : d.file \in files
  <2> DEFINE fileOf == [d \in front |-> d.file]
  <2>1. fileOf \in Injection(front, Newer(e.file))
    <3>1. fileOf \in [front -> Newer(e.file)]
      BY <1>2, <1>5 DEF Newer
    <3>2. \A c, d \in front : fileOf[c] = fileOf[d] => c = d
      BY <1>2 DEF Inv, ListInv
    <3> QED BY <3>1, <3>2 DEF Injection, IsInjective
  <2>2. IsFiniteSet(Newer(e.file))
    BY <1>4, BackupsFinite
  <2>3. IsFiniteSet(front) /\ Cardinality(front) <= Cardinality(Newer(e.file))
    BY <2>1, <2>2, FS_Injection
  <2>4. Cardinality(front) \in Nat /\ Cardinality(Newer(e.file)) \in Nat
    BY <2>2, <2>3, FS_CardinalityType
  <2> QED BY <1>1, <2>3, <2>4, PolicyTypes
<1>6. CASE \E d \in front : d.file \notin files
  <2>1. PICK d \in front : d.file \notin files
    BY <1>6
  <2>2. d.file \in planned
    BY <1>2, <2>1 DEF Archived, Inv, PlanInv
  <2>3. Newer(d.file) \in SUBSET Newer(e.file)
    <3> SUFFICES ASSUME NEW m \in files, m > d.file PROVE m > e.file
      BY DEF Newer
    <3> HIDE DEF front
    <3>1. m \in Nat /\ d.file \in Nat /\ e.file \in Nat /\ d.file > e.file
      BY <1>2, <1>3 DEF Backups
    <3> QED BY <3>1
  <2>4. Cardinality(Newer(d.file)) >= Policy.keepLastCount
    BY <2>2 DEF Inv, PlanInv
  <2>5. /\ Cardinality(Newer(d.file)) \in Nat /\ Cardinality(Newer(e.file)) \in Nat
        /\ Cardinality(Newer(d.file)) <= Cardinality(Newer(e.file))
    BY <1>4, <2>3, BackupsFinite
  <2> QED BY <2>4, <2>5, PolicyTypes
<1> QED BY <1>5, <1>6

\* A candidate is old enough by the day in its name.
LEMMA CandidateIsOld ==
  ASSUME Inv, NEW e \in deleteCandidates(entries)
  PROVE  today >= stamp[e.file] + Policy.keepMinAgeDays
<1>1. e \in entries /\ ~(today - e.created < Policy.keepMinAgeDays)
  BY DEF deleteCandidates, keepMinAgeDays, ageDays
<1>2. e.created \in Nat /\ today \in Nat
  BY <1>1 DEF Inv, TypeOK, Entry, Days
<1>3. e.file \in 1 .. made /\ stamp[e.file] <= e.created
  BY <1>1 DEF Inv, ListInv, MakingInv
<1>4. stamp[e.file] \in Nat
  BY <1>3 DEF Inv, DatesInv, Days
<1> QED BY <1>1, <1>2, <1>3, <1>4, PolicyTypes

LEMMA ShowPlanInv == Inv /\ ShowPlan => Inv'
<1> SUFFICES ASSUME Inv, ShowPlan PROVE Inv'
  OBVIOUS
<1> USE DEF ShowPlan, disk
<1>1. \A e \in deleteCandidates(entries) : e \in entries /\ e.file \in Archived /\ e.file \in Backups
  BY DEF deleteCandidates, Inv, ListInv, TypeOK, Entry
<1>2. TypeOK'
  BY <1>1 DEF Inv, TypeOK
<1>3. MakingInv' /\ DatesInv' /\ ListInv'
  BY DEF Inv, MakingInv, DatesInv, ListInv, Archived
<1>4. PlanInv'
  <2>1. gone \subseteq planned' /\ planned' \subseteq Archived
    BY <1>1 DEF Inv, PlanInv
  <2>2. ASSUME NEW n \in planned'
        PROVE  /\ Cardinality(Newer(n)) >= Policy.keepLastCount
               /\ today >= stamp[n] + Policy.keepMinAgeDays
    <3>1. CASE n \in planned
      BY <3>1 DEF Inv, PlanInv
    <3>2. CASE \E e \in deleteCandidates(entries) : n = e.file
      BY <3>2, CandidateHasNewer, CandidateIsOld
    <3> QED BY <2>2, <3>1, <3>2
  <2> QED BY <2>1, <2>2 DEF PlanInv, Newer, Archived
<1> QED BY <1>2, <1>3, <1>4 DEF Inv

-----------------------------------------------------------------------------
(* A deletion.                                                             *)

LEMMA DeleteInv == ASSUME NEW x \in Backups PROVE Inv /\ DeletePlanned(x) => Inv'
<1> SUFFICES ASSUME Inv, DeletePlanned(x) PROVE Inv'
  OBVIOUS
<1> USE DEF DeletePlanned
<1>1. TypeOK'
  BY DEF Inv, TypeOK
<1>2. Archived' = Archived
  BY DEF Archived
<1>3. MakingInv' /\ DatesInv' /\ ListInv'
  BY <1>2 DEF Inv, MakingInv, DatesInv, ListInv
<1>4. ASSUME NEW n \in planned
      PROVE  Cardinality(Newer(n)') >= Policy.keepLastCount
  <2>1. n \in Nat /\ x \in Nat /\ files \in SUBSET Backups /\ files \subseteq Nat
    BY DEF Inv, TypeOK, Backups
  <2>2. CASE n >= x
    <3>1. Newer(n)' = Newer(n)
      BY <2>1, <2>2 DEF Newer
    <3> QED BY <3>1 DEF Inv, PlanInv
  <2>3. CASE n < x
    <3>1. Newer(x) \in SUBSET (Newer(n)')
      <4>1. \A m \in files : m > x => m \in files' /\ m > n
        BY <2>1, <2>3
      <4> QED BY <4>1 DEF Newer
    <3>2. Newer(n)' \in SUBSET Backups
      BY <2>1 DEF Newer
    <3>3. /\ Cardinality(Newer(x)) \in Nat /\ Cardinality(Newer(n)') \in Nat
          /\ Cardinality(Newer(x)) <= Cardinality(Newer(n)')
      BY <3>1, <3>2, BackupsFinite
    <3>4. Cardinality(Newer(x)) >= Policy.keepLastCount
      BY DEF Inv, PlanInv
    <3> QED BY <3>3, <3>4, PolicyTypes
  <2> QED BY <2>1, <2>2, <2>3
<1>5. PlanInv'
  BY <1>2, <1>4 DEF Inv, PlanInv
<1> QED BY <1>1, <1>3, <1>5 DEF Inv

-----------------------------------------------------------------------------
(* The other steps add archives, or change none.                           *)

\* More archives and later days leave every plan as safe as it was.
LEMMA PlanKept ==
  ASSUME Inv, TypeOK', files \subseteq files', gone' = gone, planned' = planned, today <= today',
         \A n \in Archived : stamp'[n] = stamp[n]
  PROVE  PlanInv'
<1>1. gone' \subseteq planned' /\ planned' \subseteq Archived'
  BY DEF Inv, PlanInv, Archived
<1>2. ASSUME NEW n \in planned'
      PROVE  /\ Cardinality(Newer(n)') >= Policy.keepLastCount
             /\ today' >= stamp'[n] + Policy.keepMinAgeDays
  <2>1. n \in planned /\ n \in Archived /\ n \in 1 .. made
    BY <1>2 DEF Inv, PlanInv, MakingInv
  <2>2. Newer(n) \in SUBSET (Newer(n)') /\ Newer(n)' \in SUBSET Backups
    BY DEF Newer, TypeOK
  <2>3. /\ Cardinality(Newer(n)) \in Nat /\ Cardinality(Newer(n)') \in Nat
        /\ Cardinality(Newer(n)) <= Cardinality(Newer(n)')
    BY <2>2, BackupsFinite
  <2>4. /\ Cardinality(Newer(n)) >= Policy.keepLastCount
        /\ today >= stamp[n] + Policy.keepMinAgeDays
    BY <2>1 DEF Inv, PlanInv
  <2>5. today \in Nat /\ today' \in Nat /\ stamp[n] \in Nat
    BY <2>1 DEF Inv, DatesInv, TypeOK, Days
  <2> QED BY <2>1, <2>3, <2>4, <2>5, PolicyTypes
<1> QED BY <1>1, <1>2 DEF PlanInv

LEMMA NameInv == Inv /\ NameBackup => Inv'
<1> SUFFICES ASSUME Inv, NameBackup PROVE Inv'
  OBVIOUS
<1> USE DEF NameBackup
<1>1. made \in Nat /\ made + 1 \in Backups /\ today \in Days /\ today \in Nat
  BY DEF Inv, TypeOK, Backups, Days
<1>2. TypeOK'
  BY <1>1 DEF Inv, TypeOK, Backups
<1>3. \A n \in Backups : n # made + 1 => stamp'[n] = stamp[n]
  BY DEF Inv, TypeOK
<1>4. stamp'[made + 1] = today
  BY <1>1 DEF Inv, TypeOK
<1>5. Archived' = Archived /\ Archived \subseteq 1 .. made /\ Archived \subseteq Backups
  BY DEF Archived, Inv, MakingInv, TypeOK
<1>6. \A n \in 1 .. made : n \in Backups /\ n # made + 1
  BY <1>1 DEF Backups
<1>7. \A n \in 1 .. made' : n \in 1 .. made \/ n = made + 1
  BY <1>1
<1>8. MakingInv'
  BY <1>1, <1>5, <1>7 DEF MakingInv
<1>9. DatesInv'
  <2>1. \A n \in 1 .. made' : stamp'[n] \in Days /\ stamp'[n] <= today'
    BY <1>1, <1>3, <1>4, <1>6, <1>7 DEF Inv, DatesInv
  <2>2. \A n \in Archived' : birth'[n] \in Days /\ stamp'[n] <= birth'[n] /\ birth'[n] <= today'
    BY <1>3, <1>5, <1>6 DEF Inv, DatesInv
  <2>3. \A n \in Archived' : \A m \in 1 .. made' : n < m => birth'[n] <= stamp'[m]
    BY <1>3, <1>4, <1>5, <1>6, <1>7 DEF Inv, DatesInv
  <2>4. \A n \in Backups : created'[n] # Never => n \in 1 .. made' /\ created'[n] = stamp'[n]
    BY <1>1, <1>3, <1>6 DEF Inv, DatesInv
  <2> QED BY <2>1, <2>2, <2>3, <2>4 DEF DatesInv
<1>10. ListInv'
  BY <1>3, <1>5, <1>6 DEF Inv, ListInv
<1>11. PlanInv'
  BY <1>1, <1>2, <1>3, <1>5, <1>6, PlanKept
<1> QED BY <1>2, <1>8, <1>9, <1>10, <1>11 DEF Inv

LEMMA CreateInv == Inv /\ CreateArchive => Inv'
<1> SUFFICES ASSUME Inv, CreateArchive PROVE Inv'
  OBVIOUS
<1> USE DEF CreateArchive
<1>1. made \in Nat /\ made \in Backups /\ made \in 1 .. made /\ made \notin Archived
  BY DEF Inv, MakingInv, TypeOK, Backups
<1>2. TypeOK'
  BY <1>1 DEF Inv, TypeOK
<1>3. Archived' = Archived \cup {made} /\ Archived \subseteq 1 .. made /\ Archived \subseteq Backups
  BY DEF Archived, Inv, MakingInv, TypeOK
<1>4. /\ birth'[made] = today
      /\ \A n \in Archived : birth'[n] = birth[n]
  BY <1>1, <1>3 DEF Inv, TypeOK
<1>5. MakingInv'
  BY <1>1, <1>3 DEF MakingInv
<1>6. DatesInv'
  <2>1. \A n \in Archived' : birth'[n] \in Days /\ stamp[n] <= birth'[n] /\ birth'[n] <= today
    BY <1>1, <1>3, <1>4 DEF Inv, DatesInv, TypeOK, Days
  <2>2. \A n \in Archived' : \A m \in 1 .. made : n < m => birth'[n] <= stamp[m]
    BY <1>1, <1>3, <1>4 DEF Inv, DatesInv
  <2> QED BY <2>1, <2>2 DEF Inv, DatesInv
<1>7. ListInv'
  BY <1>3, <1>4 DEF Inv, ListInv
<1>8. PlanInv'
  <2>1. files \subseteq files' /\ today <= today'
    BY DEF Inv, TypeOK, Days
  <2> QED BY <1>2, <2>1, PlanKept
<1> QED BY <1>2, <1>5, <1>6, <1>7, <1>8 DEF Inv

LEMMA MetadataInv == Inv /\ WriteMetadata => Inv'
<1> SUFFICES ASSUME Inv, WriteMetadata PROVE Inv'
  OBVIOUS
<1> USE DEF WriteMetadata
<1>1. made \in Nat /\ made \in Backups /\ made \in 1 .. made /\ stamp[made] \in Days
  BY DEF Inv, MakingInv, DatesInv, TypeOK, Backups
<1>2. TypeOK'
  BY <1>1 DEF Inv, TypeOK
<1>3. Archived' = Archived
  BY DEF Archived
<1>4. MakingInv' /\ ListInv'
  BY <1>3 DEF Inv, MakingInv, ListInv
<1>5. DatesInv'
  <2>1. \A n \in Backups : created'[n] = created[n] \/ (n = made /\ created'[n] = stamp[n])
    BY DEF Inv, TypeOK
  <2> QED BY <1>1, <1>3, <2>1 DEF Inv, DatesInv
<1>6. PlanInv'
  BY <1>3 DEF Inv, PlanInv, Newer
<1> QED BY <1>2, <1>4, <1>5, <1>6 DEF Inv

LEMMA FailInv == Inv /\ BackupFails => Inv'
<1> SUFFICES ASSUME Inv, BackupFails PROVE Inv'
  OBVIOUS
<1> USE DEF BackupFails, disk
<1>1. TypeOK' /\ Archived' = Archived
  BY DEF Inv, TypeOK, Archived
<1>2. MakingInv' /\ DatesInv' /\ ListInv' /\ PlanInv'
  BY <1>1 DEF Inv, MakingInv, DatesInv, ListInv, PlanInv, Newer
<1> QED BY <1>1, <1>2 DEF Inv

LEMMA ListDirInv == Inv /\ ListDir => Inv'
<1> SUFFICES ASSUME Inv, ListDir PROVE Inv'
  OBVIOUS
<1> USE DEF ListDir, disk
<1>1. TypeOK' /\ Archived' = Archived
  BY DEF Inv, TypeOK, Archived
<1>2. ListInv'
  BY <1>1 DEF ListInv, Archived
<1>3. MakingInv' /\ DatesInv' /\ PlanInv'
  BY <1>1 DEF Inv, MakingInv, DatesInv, PlanInv, Newer
<1> QED BY <1>1, <1>2, <1>3 DEF Inv

\* Whichever date an entry gets, it lies between its file's two days.
LEMMA EntryDates ==
  ASSUME Inv, NEW n \in Archived, NEW readable \in BOOLEAN
  PROVE  /\ CreatedAt(n, readable) \in Days
         /\ stamp[n] <= CreatedAt(n, readable) /\ CreatedAt(n, readable) <= birth[n]
<1>1. /\ n \in 1 .. made /\ n \in Backups
      /\ stamp[n] \in Days /\ birth[n] \in Days /\ stamp[n] <= birth[n]
  BY DEF Inv, MakingInv, DatesInv, TypeOK, Archived
<1>2. created[n] # Never => created[n] = stamp[n]
  BY <1>1 DEF Inv, DatesInv
<1> QED BY <1>1, <1>2 DEF CreatedAt, Days

LEMMA ReadInv == ASSUME NEW n \in Backups PROVE Inv /\ ReadEntry(n) => Inv'
<1> SUFFICES ASSUME Inv, ReadEntry(n) PROVE Inv'
  OBVIOUS
<1> USE DEF disk
<1>1. /\ n \in reading /\ reading' = reading \ {n} /\ faults' \in 0 .. MaxFaults
      /\ UNCHANGED <<today, making, disk, planned>>
  <2>1. faults' = faults \/ (faults < MaxFaults /\ faults' = faults + 1)
    BY DEF ReadEntry
  <2>2. faults \in 0 .. MaxFaults /\ MaxFaults \in Nat
    BY DEF Inv, TypeOK
  <2>3. faults' \in 0 .. MaxFaults
    BY <2>1, <2>2
  <2> QED BY <2>3 DEF ReadEntry
<1>2. n \in Archived /\ Archived' = Archived
  BY <1>1 DEF Inv, ListInv, Archived
<1>3. \/ entries' = entries
      \/ \E readable \in BOOLEAN :
           entries' = entries \cup {[file |-> n, created |-> CreatedAt(n, readable), verified |-> FALSE]}
  BY DEF ReadEntry
<1>4. TypeOK' /\ ListInv'
  <2>1. CASE entries' = entries
    BY <1>1, <1>2, <2>1 DEF Inv, TypeOK, ListInv
  <2>2. CASE \E readable \in BOOLEAN :
               entries' = entries \cup {[file |-> n, created |-> CreatedAt(n, readable), verified |-> FALSE]}
    <3>1. PICK readable \in BOOLEAN :
            entries' = entries \cup {[file |-> n, created |-> CreatedAt(n, readable), verified |-> FALSE]}
      BY <2>2
    <3> DEFINE new == [file |-> n, created |-> CreatedAt(n, readable), verified |-> FALSE]
    <3>2. /\ new.file = n /\ new \in Entry
          /\ stamp[n] <= new.created /\ new.created <= birth[n]
      BY <1>2, EntryDates DEF Entry
    <3>3. entries' = entries \cup {new}
      BY <3>1
    <3> HIDE DEF new
    <3>4. TypeOK'
      BY <1>1, <3>2, <3>3 DEF Inv, TypeOK
    <3>5. \A e \in entries : e.file # n
      BY <1>1 DEF Inv, ListInv
    <3>6. ListInv'
      BY <1>1, <1>2, <3>2, <3>3, <3>5 DEF Inv, ListInv
    <3> QED BY <3>4, <3>6
  <2> QED BY <1>3, <2>1, <2>2
<1>5. MakingInv' /\ DatesInv' /\ PlanInv'
  BY <1>1, <1>2 DEF Inv, MakingInv, DatesInv, PlanInv, Newer
<1> QED BY <1>4, <1>5 DEF Inv

LEMMA DayInv == Inv /\ DayPasses => Inv'
<1> SUFFICES ASSUME Inv, DayPasses PROVE Inv'
  OBVIOUS
<1> USE DEF DayPasses, disk
<1>1. TypeOK' /\ Archived' = Archived /\ today \in Nat /\ today' = today + 1
  BY DEF Inv, TypeOK, Days, Archived
<1>2. MakingInv' /\ ListInv'
  BY <1>1 DEF Inv, MakingInv, ListInv
<1>3. DatesInv'
  BY <1>1 DEF Inv, DatesInv, Days
<1>4. PlanInv'
  BY <1>1, PlanKept
<1> QED BY <1>1, <1>2, <1>3, <1>4 DEF Inv

LEMMA StepInv == Inv /\ [Next]_vars => Inv'
<1> SUFFICES ASSUME Inv, [Next]_vars PROVE Inv'
  OBVIOUS
<1>1. CASE UNCHANGED vars
  <2>1. TypeOK' /\ Archived' = Archived
    BY <1>1 DEF vars, Inv, TypeOK, Archived
  <2>2. MakingInv' /\ DatesInv' /\ ListInv' /\ PlanInv'
    BY <1>1, <2>1 DEF vars, Inv, MakingInv, DatesInv, ListInv, PlanInv, Newer
  <2> QED BY <2>1, <2>2 DEF Inv
<1>2. CASE \E n \in Backups : ReadEntry(n)
  BY <1>2, ReadInv
<1>3. CASE \E n \in Backups : DeletePlanned(n)
  BY <1>3, DeleteInv
<1> QED BY <1>1, <1>2, <1>3, NameInv, CreateInv, MetadataInv, FailInv, ListDirInv, ShowPlanInv, DayInv
        DEF Next

LEMMA Invariance == Spec => []Inv
<1> QED BY InitInv, StepInv, PTL DEF Spec

-----------------------------------------------------------------------------

\* The variables keep their types: every listed date is a day of the calendar
\* (backup-list.ts, createdAt).
THEOREM TypeCorrect == Spec => []TypeOK
<1>1. Inv => TypeOK
  BY DEF Inv
<1> QED BY Invariance, <1>1, PTL

\* Whoever deletes only what some plan proposed, however old, always keeps the
\* newest `keepLastCount` archives (backup-delete.ts, keepLastCount).
THEOREM NewestSafety == Spec => []NewestAreKept
<1>1. Inv => NewestAreKept
  BY DEF Inv, PlanInv, NewestAreKept, Newer
<1> QED BY Invariance, <1>1, PTL

\* No plan deletes a backup before it is `keepMinAgeDays` old (backup-delete.ts,
\* keepMinAgeDays).
THEOREM AgeSafety == Spec => YoungAreSpared
<1>1. Inv /\ [Next]_vars => [\A n \in gone' \ gone : today >= stamp[n] + Policy.keepMinAgeDays]_vars
  <2> SUFFICES ASSUME Inv, Next, NEW n \in gone' \ gone
               PROVE  today >= stamp[n] + Policy.keepMinAgeDays
    OBVIOUS
  <2>1. n \in planned
    BY DEF Next, NameBackup, CreateArchive, WriteMetadata, BackupFails, ListDir, ReadEntry,
           ShowPlan, DeletePlanned, DayPasses, disk
  <2> QED BY <2>1 DEF Inv, PlanInv
<1> QED BY Invariance, <1>1, PTL DEF Spec, YoungAreSpared

=============================================================================
