--------------------------- MODULE Access_proofs ---------------------------
(***************************************************************************)
(* Theorems about Access, for any number of requests, keys, hits and       *)
(* sessions.                                                               *)
(*                                                                         *)
(* That a limit is exceeded by at most the requests under way together is  *)
(* not inductive: it says nothing of the requests that have passed their   *)
(* check and will record a hit later.  BoundInv counts them with the hits. *)
(* A request joins them only while there are fewer than MaxHits hits, and  *)
(* with all requests among them the sum is still within the bound; a       *)
(* recorded hit takes its request out of them.                             *)
(***************************************************************************)
EXTENDS Access, FiniteSetTheorems, TLAPS

\* What a request can be.
JobOK(r) ==
  \/ r = IdleJob
  \/ /\ r \in Job
     /\ r.pc \in Steps(r.kind)
     /\ r.keys \in KeysOf(r.kind)
     /\ r.todo \subseteq r.keys

\* A request that has passed the check of a key and may still record a hit for it.
Passed(i, k) ==
  /\ k \in job[i].keys
  /\ \/ job[i].pc = "check" /\ ~job[i].limited /\ k \notin job[i].todo
     \/ job[i].pc = "verify"
     \/ job[i].pc = "record" /\ k \in job[i].todo

Pending(k) == {i \in Jobs : Passed(i, k)}

BoundInv ==
  \A k \in Keys :
    Cardinality(InWindow(k)) + Cardinality(Pending(k)) <= MaxHits + Cardinality(Jobs) - 1

AtMostOne == users <= 1

Inv == TypeOK /\ IsFiniteSet(hits) /\ AtMostOne /\ BoundInv

USE AccessAssumption

LEMMA JobsAreOK == TypeOK <=> /\ now \in 0 .. MaxTime
                              /\ users \in Nat
                              /\ hits \subseteq Hit
                              /\ sessions \in [Tokens -> Session]
                              /\ job \in [Jobs -> Job \cup {IdleJob}]
                              /\ \A j \in Jobs : JobOK(job[j])
BY DEF TypeOK, JobOK

\* The program counters, the kinds and the keys of requests.
LEMMA StepNames ==
  ASSUME NEW r, JobOK(r)
  PROVE  /\ r.keys \subseteq Keys
         /\ r.pc # "idle" => /\ r \in Job /\ r.kind \in Kinds
                             /\ r.keys \in KeysOf(r.kind) /\ r.todo \subseteq r.keys
                             /\ r.pc \in Steps(r.kind)
         /\ r.pc \in {"verify", "clear", "cleanupLimits"} => r.kind = "login"
         /\ r.pc = "owner" => r.kind = "setup"
         /\ r.pc \in {"state", "cleanupSessions", "session"} => r.kind \in {"login", "setup"}
<1>1. CASE r = IdleJob
  BY <1>1 DEF IdleJob
<1>2. CASE r # IdleJob
  <2>1. /\ r \in Job /\ r.kind \in Kinds /\ r.keys \in KeysOf(r.kind) /\ r.todo \subseteq r.keys
        /\ r.pc \in Steps(r.kind)
    BY <1>2 DEF JobOK, Job
  <2>2. r.keys \subseteq Keys
    BY <2>1 DEF KeysOf, Kinds, Keys
  <2> QED BY <2>1, <2>2 DEF Steps, Kinds
<1> QED BY <1>1, <1>2

\* One request moves.
LEMMA OneMoves ==
  ASSUME TypeOK, NEW j \in Jobs, NEW r, JobOK(r), job' = [job EXCEPT ![j] = r]
  PROVE  /\ job' \in [Jobs -> Job \cup {IdleJob}]
         /\ \A i \in Jobs : JobOK(job'[i])
         /\ job'[j] = r
         /\ \A i \in Jobs \ {j} : job'[i] = job[i]
<1>1. r \in Job \cup {IdleJob}
  BY DEF JobOK
<1>2. \A i \in Jobs : job'[i] = IF i = j THEN r ELSE job[i]
  BY DEF TypeOK
<1> QED BY <1>1, <1>2, JobsAreOK DEF TypeOK

\* What the updates of the actions do to the request.
LEMMA GotoMoves ==
  ASSUME TypeOK, NEW j \in Jobs, job[j].pc # "idle", NEW p \in Steps(job[j].kind), Goto(j, p)
  PROVE  /\ job' \in [Jobs -> Job \cup {IdleJob}]
         /\ \A i \in Jobs : JobOK(job'[i])
         /\ \A i \in Jobs \ {j} : job'[i] = job[i]
         /\ job'[j].pc = p /\ job'[j].keys = job[j].keys /\ job'[j].todo = job[j].keys
<1> DEFINE r == [job[j] EXCEPT !.pc = p, !.todo = job[j].keys]
<1>1. /\ job[j] \in Job /\ job[j].kind \in Kinds /\ job[j].keys \in KeysOf(job[j].kind)
      /\ job \in [Jobs -> Job \cup {IdleJob}] /\ JobOK(job[j])
  BY JobsAreOK, StepNames
<1>2. job' = [job EXCEPT ![j] = r]
  BY <1>1 DEF Goto
<1>3. p \in UNION {Steps(k) : k \in Kinds} /\ job[j].keys \in SUBSET Keys
  BY <1>1, StepNames
<1>4. /\ r \in Job /\ r.pc = p /\ r.kind = job[j].kind
      /\ r.keys = job[j].keys /\ r.todo = job[j].keys
  BY <1>1, <1>3 DEF Job
<1> HIDE DEF r
<1>5. JobOK(r)
  BY <1>1, <1>4 DEF JobOK
<1> QED BY <1>2, <1>4, <1>5, OneMoves

LEMMA EndMoves ==
  ASSUME TypeOK, NEW j \in Jobs, End(j)
  PROVE  /\ job' \in [Jobs -> Job \cup {IdleJob}]
         /\ \A i \in Jobs : JobOK(job'[i])
         /\ \A i \in Jobs \ {j} : job'[i] = job[i]
         /\ job'[j] = IdleJob
BY OneMoves DEF End, JobOK

LEMMA TodoMoves ==
  ASSUME TypeOK, NEW j \in Jobs, job[j].pc # "idle", NEW todo \in SUBSET job[j].keys,
         NEW limited \in BOOLEAN,
         job' = [job EXCEPT ![j].limited = limited, ![j].todo = todo]
  PROVE  /\ job' \in [Jobs -> Job \cup {IdleJob}]
         /\ \A i \in Jobs : JobOK(job'[i])
         /\ \A i \in Jobs \ {j} : job'[i] = job[i]
         /\ job'[j].pc = job[j].pc /\ job'[j].keys = job[j].keys
         /\ job'[j].todo = todo /\ job'[j].limited = limited
<1> DEFINE r == [job[j] EXCEPT !.limited = limited, !.todo = todo]
<1>1. /\ job[j] \in Job /\ job[j].keys \in KeysOf(job[j].kind) /\ job[j].pc \in Steps(job[j].kind)
      /\ job \in [Jobs -> Job \cup {IdleJob}] /\ JobOK(job[j]) /\ job[j].keys \subseteq Keys
  BY JobsAreOK, StepNames
<1>2. job' = [job EXCEPT ![j] = r]
  BY <1>1
<1>3. /\ r \in Job /\ r.pc = job[j].pc /\ r.kind = job[j].kind
      /\ r.keys = job[j].keys /\ r.todo = todo /\ r.limited = limited
  BY <1>1 DEF Job
<1> HIDE DEF r
<1>4. JobOK(r)
  BY <1>1, <1>3 DEF JobOK
<1> QED BY <1>2, <1>3, <1>4, OneMoves

LEMMA StartMoves ==
  ASSUME TypeOK, NEW j \in Jobs, NEW kind \in Kinds, NEW keys \in KeysOf(kind),
         NEW p \in Steps(kind), Start(j, kind, keys, p)
  PROVE  /\ job' \in [Jobs -> Job \cup {IdleJob}]
         /\ \A i \in Jobs : JobOK(job'[i])
         /\ \A i \in Jobs \ {j} : job'[i] = job[i]
         /\ job'[j].pc = p /\ job'[j].keys = keys /\ job'[j].todo = keys
<1> DEFINE r == [pc |-> p, kind |-> kind, keys |-> keys, todo |-> keys, limited |-> FALSE]
<1>1. keys \in SUBSET Keys
  BY DEF KeysOf, Kinds, Keys
<1>2. r \in Job /\ r.pc = p /\ r.kind = kind /\ r.keys = keys /\ r.todo = keys
  BY <1>1 DEF Job
<1>3. job' = [job EXCEPT ![j] = r]
  BY DEF Start
<1> HIDE DEF r
<1>4. JobOK(r)
  BY <1>2 DEF JobOK
<1> QED BY <1>2, <1>3, <1>4, OneMoves

-----------------------------------------------------------------------------
(* How a step changes the two numbers of BoundInv.                         *)

Within(k) == Cardinality(InWindow(k)) + Cardinality(Pending(k)) <= MaxHits + Cardinality(Jobs) - 1

LEMMA Numbers ==
  ASSUME IsFiniteSet(hits), NEW k
  PROVE  /\ IsFiniteSet(InWindow(k)) /\ Cardinality(InWindow(k)) \in Nat
         /\ IsFiniteSet(Pending(k)) /\ Cardinality(Pending(k)) \in Nat
         /\ Cardinality(Pending(k)) <= Cardinality(Jobs)
         /\ Cardinality(Jobs) \in Nat \ {0} /\ MaxHits \in Nat \ {0}
<1>1. InWindow(k) \in SUBSET hits /\ Pending(k) \in SUBSET Jobs /\ IsFiniteSet(Jobs) /\ Jobs # {}
  BY DEF InWindow, Pending
<1>2. IsFiniteSet(InWindow(k)) /\ Cardinality(InWindow(k)) \in Nat
  BY <1>1, FS_Subset, FS_CardinalityType
<1>3. /\ IsFiniteSet(Pending(k)) /\ Cardinality(Pending(k)) \in Nat
      /\ Cardinality(Pending(k)) <= Cardinality(Jobs)
  BY <1>1, FS_Subset, FS_CardinalityType
<1>4. Cardinality(Jobs) \in Nat \ {0}
  BY <1>1, FS_CardinalityType, FS_EmptySet
<1> QED BY <1>2, <1>3, <1>4

\* Neither grows.
LEMMA NoneJoins ==
  ASSUME IsFiniteSet(hits), NEW k \in Keys, Within(k), IsFiniteSet(hits'),
         InWindow(k)' \subseteq InWindow(k), Pending(k)' \subseteq Pending(k)
  PROVE  Within(k)'
<1>1. Cardinality(InWindow(k)') <= Cardinality(InWindow(k))
  BY Numbers, FS_Subset
<1>2. Cardinality(Pending(k)') <= Cardinality(Pending(k))
  BY Numbers, FS_Subset
<1>3. Cardinality(InWindow(k)') \in Nat /\ Cardinality(Pending(k)') \in Nat
  <2>1. InWindow(k)' \in SUBSET InWindow(k) /\ Pending(k)' \in SUBSET Pending(k)
    OBVIOUS
  <2> QED BY <2>1, Numbers, FS_Subset, FS_CardinalityType
<1>4. Within(k)' = (Cardinality(InWindow(k)') + Cardinality(Pending(k)') <= MaxHits + Cardinality(Jobs) - 1)
  BY DEF Within
<1> QED BY <1>1, <1>2, <1>3, <1>4, Numbers DEF Within

\* One request moves, and had passed its check if it has passed it now.
LEMMA PendingShrinks ==
  ASSUME NEW j \in Jobs, NEW k, \A i \in Jobs \ {j} : job'[i] = job[i],
         Passed(j, k)' => Passed(j, k)
  PROVE  Pending(k)' \subseteq Pending(k)
BY DEF Pending, Passed

\* A request passes its check, while there are fewer than MaxHits hits.
LEMMA OneJoins ==
  ASSUME IsFiniteSet(hits), NEW k, hits' = hits, now' = now, ~Limited(k)
  PROVE  Within(k)'
<1>1. InWindow(k)' = InWindow(k)
  BY DEF InWindow
<1>2. Pending(k)' \in SUBSET Jobs /\ IsFiniteSet(Jobs)
  BY DEF Pending
<1>3. /\ Cardinality(Pending(k)') \in Nat
      /\ Cardinality(Pending(k)') <= Cardinality(Jobs)
  BY <1>2, FS_Subset, FS_CardinalityType
<1>4. /\ Cardinality(InWindow(k)) \in Nat /\ MaxHits \in Nat /\ Cardinality(Jobs) \in Nat
      /\ ~(Cardinality(InWindow(k)) >= MaxHits)
  BY Numbers DEF Limited
<1>5. Within(k)' = (Cardinality(InWindow(k)) + Cardinality(Pending(k)') <= MaxHits + Cardinality(Jobs) - 1)
  BY <1>1 DEF Within
<1>6. Cardinality(InWindow(k)) + Cardinality(Pending(k)') <= MaxHits + Cardinality(Jobs) - 1
  BY <1>3, <1>4
<1> QED BY <1>5, <1>6

\* A request leaves for the hit it records.
LEMMA OneRecords ==
  ASSUME IsFiniteSet(hits), NEW k, Within(k), NEW j \in Jobs, NEW h,
         j \in Pending(k), Pending(k)' \subseteq Pending(k) \ {j},
         InWindow(k)' \subseteq InWindow(k) \cup {h}
  PROVE  Within(k)'
<1>1. /\ IsFiniteSet(InWindow(k) \cup {h})
      /\ Cardinality(InWindow(k) \cup {h}) <= Cardinality(InWindow(k)) + 1
      /\ Cardinality(InWindow(k) \cup {h}) \in Nat
  <2>1. IsFiniteSet(InWindow(k)) /\ Cardinality(InWindow(k)) \in Nat
    BY Numbers
  <2>2. /\ IsFiniteSet(InWindow(k) \cup {h})
        /\ Cardinality(InWindow(k) \cup {h})
             = IF h \in InWindow(k) THEN Cardinality(InWindow(k)) ELSE Cardinality(InWindow(k)) + 1
    BY <2>1, FS_AddElement
  <2> QED BY <2>1, <2>2
<1>2. /\ IsFiniteSet(Pending(k) \ {j})
      /\ Cardinality(Pending(k) \ {j}) = Cardinality(Pending(k)) - 1
  BY Numbers, FS_RemoveElement
<1>3. /\ Cardinality(InWindow(k)') \in Nat
      /\ Cardinality(InWindow(k)') <= Cardinality(InWindow(k) \cup {h})
  <2>1. InWindow(k)' \in SUBSET (InWindow(k) \cup {h})
    OBVIOUS
  <2> QED BY <1>1, <2>1, FS_Subset, FS_CardinalityType
<1>4. /\ Cardinality(Pending(k)') \in Nat
      /\ Cardinality(Pending(k)') <= Cardinality(Pending(k) \ {j})
  <2>1. Pending(k)' \in SUBSET (Pending(k) \ {j})
    OBVIOUS
  <2> QED BY <1>2, <2>1, FS_Subset, FS_CardinalityType
<1>5. Within(k)' = (Cardinality(InWindow(k)') + Cardinality(Pending(k)') <= MaxHits + Cardinality(Jobs) - 1)
  BY DEF Within
<1> QED BY <1>1, <1>2, <1>3, <1>4, <1>5, Numbers DEF Within

-----------------------------------------------------------------------------
(* The steps.                                                              *)

LEMMA InitInv == Init => Inv
<1> SUFFICES ASSUME Init PROVE Inv
  OBVIOUS
<1>1. TypeOK
  BY DEF Init, TypeOK, Ended, Session
<1>2. IsFiniteSet(hits) /\ AtMostOne
  BY FS_EmptySet DEF Init, AtMostOne
<1>3. ASSUME NEW k \in Keys PROVE Within(k)
  <2>1. InWindow(k) = {} /\ Pending(k) = {}
    BY DEF Init, InWindow, Pending, Passed, IdleJob
  <2>2. Cardinality(InWindow(k)) = 0 /\ Cardinality(Pending(k)) = 0
    BY <2>1, FS_EmptySet
  <2> QED BY <1>2, <2>2, Numbers DEF Within
<1> QED BY <1>1, <1>2, <1>3 DEF Inv, BoundInv, Within

\* What every step of one request has to show, when no hit is recorded and no
\* check passed.
LEMMA QuietStep ==
  ASSUME Inv, NEW j \in Jobs, hits' \subseteq hits, now' = now,
         job' \in [Jobs -> Job \cup {IdleJob}], \A i \in Jobs : JobOK(job'[i]),
         \A i \in Jobs \ {j} : job'[i] = job[i],
         \A k \in Keys : Passed(j, k)' => Passed(j, k),
         sessions' \in [Tokens -> Session], users' \in Nat, users' <= 1
  PROVE  Inv'
<1>1. IsFiniteSet(hits')
  BY FS_Subset DEF Inv
<1>2. TypeOK'
  BY JobsAreOK DEF Inv, TypeOK, JobOK
<1>3. ASSUME NEW k \in Keys PROVE Within(k)'
  <2>1. InWindow(k)' \subseteq InWindow(k)
    BY DEF InWindow
  <2>2. Pending(k)' \subseteq Pending(k)
    BY PendingShrinks
  <2>3. Within(k)
    BY DEF Inv, BoundInv, Within
  <2> QED BY <1>1, <2>1, <2>2, <2>3, NoneJoins DEF Inv
<1> QED BY <1>1, <1>2, <1>3 DEF Inv, AtMostOne, BoundInv, Within

LEMMA CheckInv ==
  ASSUME Inv, NEW j \in Jobs, NEW k \in job[j].todo, Check(j, k)
  PROVE  Inv'
<1> DEFINE limited == job[j].limited \/ Limited(k)
           todo == job[j].todo \ {k}
           next == IF job[j].kind = "login" THEN "verify" ELSE "record"
<1>1. job[j].pc = "check" /\ UNCHANGED <<now, users, hits, sessions>>
  BY DEF Check
<1>2. /\ job[j] \in Job /\ job[j].todo \subseteq job[j].keys /\ job[j].keys \subseteq Keys
      /\ job[j].kind \in Kinds /\ job[j].limited \in BOOLEAN /\ TypeOK
  BY <1>1, JobsAreOK, StepNames DEF Inv, Job
<1>3. /\ job' \in [Jobs -> Job \cup {IdleJob}] /\ \A i \in Jobs : JobOK(job'[i])
      /\ \A i \in Jobs \ {j} : job'[i] = job[i]
      /\ \A m \in Keys : Passed(j, m)' => Passed(j, m) \/ (m = k /\ ~Limited(k))
  <2>1. CASE todo # {}
    <3>1. job' = [job EXCEPT ![j].limited = limited, ![j].todo = todo]
      BY <2>1 DEF Check
    <3>2. todo \in SUBSET job[j].keys /\ limited \in BOOLEAN
      BY <1>2 DEF Limited
    <3> HIDE DEF todo, limited
    <3>3. /\ job' \in [Jobs -> Job \cup {IdleJob}] /\ \A i \in Jobs : JobOK(job'[i])
          /\ \A i \in Jobs \ {j} : job'[i] = job[i]
          /\ job'[j].pc = "check" /\ job'[j].keys = job[j].keys
          /\ job'[j].todo = todo /\ job'[j].limited = limited
      BY <1>1, <1>2, <3>1, <3>2, TodoMoves
    <3>4. \A m \in Keys : Passed(j, m)' => Passed(j, m) \/ (m = k /\ ~Limited(k))
      BY <1>1, <3>3 DEF Passed, todo, limited
    <3> QED BY <3>3, <3>4
  <2>2. CASE todo = {} /\ limited
    <3>1. End(j)
      BY <2>2 DEF Check
    <3>2. \A m \in Keys : ~Passed(j, m)'
      BY <1>2, <3>1, EndMoves DEF Passed, IdleJob
    <3> QED BY <1>2, <3>1, <3>2, EndMoves
  <2>3. CASE todo = {} /\ ~limited
    <3>1. Goto(j, next)
      BY <2>3 DEF Check
    <3>2. next \in Steps(job[j].kind)
      BY <1>2 DEF Steps, Kinds
    <3> HIDE DEF next
    <3>3. /\ job' \in [Jobs -> Job \cup {IdleJob}] /\ \A i \in Jobs : JobOK(job'[i])
          /\ \A i \in Jobs \ {j} : job'[i] = job[i]
          /\ job'[j].keys = job[j].keys
      BY <1>1, <1>2, <3>1, <3>2, GotoMoves
    <3>4. \A m \in Keys : Passed(j, m)' => Passed(j, m) \/ (m = k /\ ~Limited(k))
      BY <1>1, <2>3, <3>3 DEF Passed
    <3> QED BY <3>3, <3>4
  <2> QED BY <2>1, <2>2, <2>3
<1>4. TypeOK' /\ IsFiniteSet(hits') /\ AtMostOne'
  BY <1>1, <1>3, JobsAreOK DEF Inv, TypeOK, JobOK, AtMostOne
<1>5. ASSUME NEW m \in Keys PROVE Within(m)'
  <2>1. CASE m = k /\ ~Limited(k)
    BY <1>1, <2>1, OneJoins DEF Inv
  <2>2. CASE ~(m = k /\ ~Limited(k))
    <3>1. InWindow(m)' \subseteq InWindow(m)
      BY <1>1 DEF InWindow
    <3>2. Pending(m)' \subseteq Pending(m)
      BY <1>3, <2>2, PendingShrinks
    <3>3. Within(m)
      BY DEF Inv, BoundInv, Within
    <3> QED BY <1>4, <3>1, <3>2, <3>3, NoneJoins DEF Inv
  <2> QED BY <2>1, <2>2
<1> QED BY <1>4, <1>5 DEF Inv, BoundInv, Within

LEMMA RecordInv ==
  ASSUME Inv, NEW j \in Jobs, NEW k \in job[j].todo, Record(j, k)
  PROVE  Inv'
<1>1. job[j].pc = "record" /\ UNCHANGED <<now, users, sessions>>
  BY DEF Record
<1>2. /\ job[j] \in Job /\ job[j].todo \subseteq job[j].keys /\ job[j].keys \subseteq Keys
      /\ job[j].kind \in Kinds /\ job[j].limited \in BOOLEAN /\ TypeOK
  BY <1>1, JobsAreOK, StepNames DEF Inv, Job
<1>3. PICK id \in HitIds : hits' = hits \cup {[id |-> id, key |-> k, at |-> now]}
  BY DEF Record
<1> DEFINE h == [id |-> id, key |-> k, at |-> now]
<1>4. h \in Hit /\ h.key = k /\ hits' = hits \cup {h}
  BY <1>2, <1>3 DEF Hit, TypeOK
<1> HIDE DEF h
<1>5. /\ job' \in [Jobs -> Job \cup {IdleJob}] /\ \A i \in Jobs : JobOK(job'[i])
      /\ \A i \in Jobs \ {j} : job'[i] = job[i]
      /\ \A m \in Keys : Passed(j, m)' => Passed(j, m) /\ m # k
  <2>1. CASE job[j].todo # {k}
    <3>1. job' = [job EXCEPT ![j].todo = job[j].todo \ {k}]
      BY <2>1 DEF Record
    <3>2. job' = [job EXCEPT ![j].limited = job[j].limited, ![j].todo = job[j].todo \ {k}]
      BY <1>2, <3>1 DEF TypeOK, Job
    <3>3. /\ job' \in [Jobs -> Job \cup {IdleJob}] /\ \A i \in Jobs : JobOK(job'[i])
          /\ \A i \in Jobs \ {j} : job'[i] = job[i]
          /\ job'[j].pc = "record" /\ job'[j].keys = job[j].keys
          /\ job'[j].todo = job[j].todo \ {k}
      BY <1>1, <1>2, <3>2, TodoMoves
    <3>4. \A m \in Keys : Passed(j, m)' => Passed(j, m) /\ m # k
      BY <1>1, <3>3 DEF Passed
    <3> QED BY <3>3, <3>4
  <2>2. CASE End(j)
    BY <1>2, <2>2, EndMoves DEF Passed, IdleJob
  <2>3. CASE Goto(j, "owner") /\ job[j].kind = "setup"
    <3>1. "owner" \in Steps(job[j].kind)
      BY <2>3 DEF Steps
    <3>2. /\ job' \in [Jobs -> Job \cup {IdleJob}] /\ \A i \in Jobs : JobOK(job'[i])
          /\ \A i \in Jobs \ {j} : job'[i] = job[i]
          /\ job'[j].pc = "owner"
      BY <1>1, <1>2, <2>3, <3>1, GotoMoves
    <3>3. \A m \in Keys : Passed(j, m)' => Passed(j, m) /\ m # k
      BY <3>2 DEF Passed
    <3> QED BY <3>2, <3>3
  <2> QED BY <2>1, <2>2, <2>3 DEF Record, AfterRecord
<1>6. IsFiniteSet(hits')
  BY <1>4, FS_AddElement DEF Inv
<1>7. TypeOK' /\ AtMostOne'
  <2>1. hits' \subseteq Hit
    BY <1>2, <1>4 DEF TypeOK
  <2> QED BY <1>1, <1>2, <1>5, <2>1, JobsAreOK DEF Inv, TypeOK, JobOK, AtMostOne
<1>8. ASSUME NEW m \in Keys PROVE Within(m)'
  <2>1. Within(m)
    BY DEF Inv, BoundInv, Within
  <2>2. Pending(m)' \subseteq Pending(m)
    BY <1>5, PendingShrinks
  <2>3. CASE m # k
    <3>1. InWindow(m)' \subseteq InWindow(m)
      BY <1>1, <1>4, <2>3 DEF InWindow
    <3> QED BY <1>6, <2>1, <2>2, <3>1, NoneJoins DEF Inv
  <2>4. CASE m = k
    <3>1. j \in Pending(k)
      BY <1>1, <1>2 DEF Pending, Passed
    <3>2. j \notin Pending(k)'
      BY <1>2, <1>5 DEF Pending
    <3>3. InWindow(k)' \subseteq InWindow(k) \cup {h}
      BY <1>1, <1>4 DEF InWindow
    <3> QED BY <2>1, <2>2, <2>4, <3>1, <3>2, <3>3, OneRecords DEF Inv
  <2> QED BY <2>3, <2>4
<1> QED BY <1>6, <1>7, <1>8 DEF Inv, BoundInv, Within

LEMMA LimitStepsInv ==
  ASSUME Inv, NEW j \in Jobs,
         CleanupRateLimits(j) \/ \E k \in job[j].todo : Clear(j, k)
  PROVE  Inv'
<1>1. /\ TypeOK /\ users \in Nat /\ users <= 1 /\ sessions \in [Tokens -> Session]
  BY DEF Inv, TypeOK, AtMostOne
<1>2. CASE CleanupRateLimits(j)
  <2>1. /\ job[j].pc = "cleanupLimits" /\ Goto(j, "cleanupSessions") /\ hits' \subseteq hits
        /\ UNCHANGED <<now, users, sessions>>
    BY <1>2 DEF CleanupRateLimits
  <2>2. "cleanupSessions" \in Steps(job[j].kind)
    BY <1>1, <2>1, JobsAreOK, StepNames DEF Steps
  <2>3. /\ job' \in [Jobs -> Job \cup {IdleJob}] /\ \A i \in Jobs : JobOK(job'[i])
        /\ \A i \in Jobs \ {j} : job'[i] = job[i]
        /\ job'[j].pc = "cleanupSessions"
    BY <1>1, <2>1, <2>2, GotoMoves
  <2>4. \A k \in Keys : ~Passed(j, k)'
    BY <2>3 DEF Passed
  <2> QED BY <1>1, <2>1, <2>3, <2>4, QuietStep
<1>3. ASSUME NEW k \in job[j].todo, Clear(j, k) PROVE Inv'
  <2>1. /\ job[j].pc = "clear" /\ hits' \subseteq hits /\ UNCHANGED <<now, users, sessions>>
    BY <1>3 DEF Clear
  <2>2. /\ job[j].kind = "login" /\ job[j].todo \subseteq job[j].keys /\ job[j] \in Job
        /\ job[j].limited \in BOOLEAN
    BY <1>1, <2>1, JobsAreOK, StepNames DEF Job
  <2>3. CASE job[j].todo # {k}
    <3>1. job' = [job EXCEPT ![j].todo = job[j].todo \ {k}]
      BY <1>3, <2>3 DEF Clear
    <3>2. job' = [job EXCEPT ![j].limited = job[j].limited, ![j].todo = job[j].todo \ {k}]
      BY <1>1, <2>2, <3>1 DEF TypeOK, Job
    <3>3. /\ job' \in [Jobs -> Job \cup {IdleJob}] /\ \A i \in Jobs : JobOK(job'[i])
          /\ \A i \in Jobs \ {j} : job'[i] = job[i]
          /\ job'[j].pc = "clear"
      BY <1>1, <2>1, <2>2, <3>2, TodoMoves
    <3>4. \A m \in Keys : ~Passed(j, m)'
      BY <3>3 DEF Passed
    <3> QED BY <1>1, <2>1, <3>3, <3>4, QuietStep
  <2>4. CASE job[j].todo = {k}
    <3>1. Goto(j, "cleanupLimits")
      BY <1>3, <2>4 DEF Clear
    <3>2. "cleanupLimits" \in Steps(job[j].kind)
      BY <2>2 DEF Steps
    <3>3. /\ job' \in [Jobs -> Job \cup {IdleJob}] /\ \A i \in Jobs : JobOK(job'[i])
          /\ \A i \in Jobs \ {j} : job'[i] = job[i]
          /\ job'[j].pc = "cleanupLimits"
      BY <1>1, <2>1, <3>1, <3>2, GotoMoves
    <3>4. \A m \in Keys : ~Passed(j, m)'
      BY <3>3 DEF Passed
    <3> QED BY <1>1, <2>1, <3>3, <3>4, QuietStep
  <2> QED BY <2>3, <2>4
<1> QED BY <1>2, <1>3

LEMMA SubmitInv ==
  ASSUME Inv, NEW j \in Jobs, Submit(j) \/ \E t \in Tokens : SubmitAction(j, t)
  PROVE  Inv'
<1>1. TypeOK /\ users \in Nat /\ users <= 1 /\ sessions \in [Tokens -> Session]
  BY DEF Inv, TypeOK, AtMostOne
<1>2. ASSUME NEW kind \in Kinds, NEW keys \in KeysOf(kind),
             Start(j, kind, keys, IF kind = "action" THEN "check" ELSE "state"),
             UNCHANGED <<now, users, hits, sessions>>
      PROVE  Inv'
  <2> DEFINE first == IF kind = "action" THEN "check" ELSE "state"
  <2>1. first \in Steps(kind)
    BY DEF Steps, Kinds
  <2>2. first \in {"check", "state"} /\ Start(j, kind, keys, first)
    BY <1>2
  <2> HIDE DEF first
  <2>3. /\ job' \in [Jobs -> Job \cup {IdleJob}] /\ \A i \in Jobs : JobOK(job'[i])
        /\ \A i \in Jobs \ {j} : job'[i] = job[i]
        /\ job'[j].pc = first /\ job'[j].keys = keys /\ job'[j].todo = keys
    BY <1>1, <2>1, <2>2, StartMoves
  <2>4. \A k \in Keys : ~Passed(j, k)'
    BY <2>2, <2>3 DEF Passed
  <2> QED BY <1>1, <1>2, <2>3, <2>4, QuietStep
<1>3. CASE Submit(j)
  <2>1. CASE \E keys \in LoginKeys : Start(j, "login", keys, "state")
    <3>1. PICK keys \in LoginKeys : Start(j, "login", keys, "state")
      BY <2>1
    <3>2. "login" \in Kinds /\ keys \in KeysOf("login")
      BY DEF Kinds, KeysOf
    <3> QED BY <1>2, <1>3, <3>1, <3>2 DEF Submit
  <2>2. CASE \E keys \in SetupKeys : Start(j, "setup", keys, "state")
    <3>1. PICK keys \in SetupKeys : Start(j, "setup", keys, "state")
      BY <2>2
    <3>2. "setup" \in Kinds /\ keys \in KeysOf("setup")
      BY DEF Kinds, KeysOf
    <3> QED BY <1>2, <1>3, <3>1, <3>2 DEF Submit
  <2> QED BY <1>3, <2>1, <2>2 DEF Submit
<1>4. ASSUME NEW t \in Tokens, SubmitAction(j, t) PROVE Inv'
  <2>1. CASE sessions[t].expires <= now
    <3>1. /\ sessions' = [sessions EXCEPT ![t] = Ended("removed")]
          /\ UNCHANGED <<now, users, hits, job>>
      BY <1>4, <2>1 DEF SubmitAction
    <3>2. Ended("removed") \in Session
      BY DEF Ended, Session
    <3>3. sessions' \in [Tokens -> Session]
      BY <1>1, <3>1, <3>2
    <3>4. \A k \in Keys : Passed(j, k)' => Passed(j, k)
      BY <3>1 DEF Passed
    <3> QED BY <1>1, <3>1, <3>3, <3>4, JobsAreOK, QuietStep
  <2>2. CASE ~(sessions[t].expires <= now)
    <3>1. PICK keys \in ActionKeys : Start(j, "action", keys, "check")
      BY <1>4, <2>2 DEF SubmitAction
    <3>2. "action" \in Kinds /\ keys \in KeysOf("action")
      BY DEF Kinds, KeysOf
    <3>3. UNCHANGED <<now, users, hits, sessions>>
      BY <1>4, <2>2 DEF SubmitAction
    <3> QED BY <1>2, <3>1, <3>2, <3>3
  <2> QED BY <2>1, <2>2
<1> QED BY <1>3, <1>4

LEMMA LoginStepsInv ==
  ASSUME Inv, NEW j \in Jobs, ReadState(j) \/ Verify(j) \/ CreateOwner(j)
  PROVE  Inv'
<1>1. /\ TypeOK /\ users \in Nat /\ users <= 1 /\ sessions \in [Tokens -> Session]
  BY DEF Inv, TypeOK, AtMostOne
<1>2. JobOK(job[j])
  BY <1>1, JobsAreOK
<1>3. ASSUME End(j), UNCHANGED <<now, hits, sessions>>, users' \in Nat, users' <= 1
      PROVE  Inv'
  <2>1. \A k \in Keys : ~Passed(j, k)'
    BY <1>1, <1>3, EndMoves DEF Passed, IdleJob
  <2> QED BY <1>1, <1>3, <2>1, EndMoves, QuietStep
<1>4. ASSUME NEW p \in Steps(job[j].kind), Goto(j, p), job[j].pc # "idle",
             p \in {"check", "clear", "cleanupSessions"} \/ (p = "record" /\ job[j].pc = "verify"),
             UNCHANGED <<now, hits, sessions>>, users' \in Nat, users' <= 1
      PROVE  Inv'
  <2>1. /\ job' \in [Jobs -> Job \cup {IdleJob}] /\ \A i \in Jobs : JobOK(job'[i])
        /\ \A i \in Jobs \ {j} : job'[i] = job[i]
        /\ job'[j].pc = p /\ job'[j].keys = job[j].keys /\ job'[j].todo = job[j].keys
    BY <1>1, <1>4, GotoMoves
  <2>2. \A k \in Keys : Passed(j, k)' => Passed(j, k)
    BY <1>4, <2>1 DEF Passed
  <2> QED BY <1>1, <1>4, <2>1, <2>2, QuietStep
<1>5. CASE ReadState(j)
  <2>1. "check" \in Steps(job[j].kind) /\ job[j].pc = "state"
    BY <1>2, <1>5, StepNames DEF Steps, ReadState
  <2> QED BY <1>1, <1>3, <1>4, <1>5, <2>1 DEF ReadState
<1>6. CASE Verify(j)
  <2>1. {"clear", "record"} \subseteq Steps(job[j].kind) /\ job[j].pc = "verify"
    BY <1>2, <1>6, StepNames DEF Steps, Verify
  <2> QED BY <1>1, <1>3, <1>4, <1>6, <2>1 DEF Verify
<1>7. CASE CreateOwner(j)
  <2>1. "cleanupSessions" \in Steps(job[j].kind) /\ job[j].pc = "owner"
    BY <1>2, <1>7, StepNames DEF Steps, CreateOwner
  <2>2. users' \in Nat /\ users' <= 1
    BY <1>1, <1>7 DEF CreateOwner
  <2> QED BY <1>1, <1>3, <1>4, <1>7, <2>1, <2>2 DEF CreateOwner
<1> QED BY <1>5, <1>6, <1>7

LEMMA SessionStepsInv ==
  ASSUME Inv, NEW j \in Jobs, CleanupExpiredSessions(j) \/ CreateSession(j)
  PROVE  Inv'
<1>1. /\ TypeOK /\ users \in Nat /\ users <= 1 /\ sessions \in [Tokens -> Session]
      /\ now \in 0 .. MaxTime /\ JobOK(job[j])
  BY JobsAreOK DEF Inv, TypeOK, AtMostOne
<1>2. CASE CleanupExpiredSessions(j)
  <2>1. job[j].pc = "cleanupSessions" /\ Goto(j, "session") /\ UNCHANGED <<now, users, hits>>
    BY <1>2 DEF CleanupExpiredSessions
  <2>2. "session" \in Steps(job[j].kind)
    BY <1>1, <2>1, StepNames DEF Steps
  <2>3. /\ job' \in [Jobs -> Job \cup {IdleJob}] /\ \A i \in Jobs : JobOK(job'[i])
        /\ \A i \in Jobs \ {j} : job'[i] = job[i] /\ job'[j].pc = "session"
    BY <1>1, <2>1, <2>2, GotoMoves
  <2>4. \A k \in Keys : ~Passed(j, k)'
    BY <2>3, GotoMoves, <1>1, <2>1, <2>2 DEF Passed
  <2>5. Ended("removed") \in Session
    BY DEF Ended, Session
  <2>6. sessions' \in [Tokens -> Session]
    BY <1>1, <1>2, <2>5 DEF CleanupExpiredSessions
  <2> QED BY <1>1, <2>1, <2>3, <2>4, <2>6, QuietStep
<1>3. CASE CreateSession(j)
  <2>1. End(j) /\ UNCHANGED <<now, users, hits>>
    BY <1>3 DEF CreateSession
  <2>2. \A k \in Keys : ~Passed(j, k)'
    BY <1>1, <2>1, EndMoves DEF Passed, IdleJob
  <2>3. [state |-> "live", expires |-> now + TTL] \in Session
    BY <1>1 DEF Session
  <2>4. sessions' \in [Tokens -> Session]
    BY <1>1, <1>3, <2>3 DEF CreateSession
  <2> QED BY <1>1, <2>1, <2>2, <2>4, EndMoves, QuietStep
<1> QED BY <1>2, <1>3

\* Steps that belong to no request.
LEMMA OtherStepsInv ==
  ASSUME Inv, WebCrash \/ Tick \/ (\E t \in Tokens : Logout(t)) \/ UNCHANGED vars
  PROVE  Inv'
<1>1. TypeOK'
  <2>1. CASE WebCrash
    BY <2>1, JobsAreOK DEF WebCrash, Inv, TypeOK, JobOK
  <2>2. CASE Tick
    BY <2>2 DEF Tick, Inv, TypeOK
  <2>3. ASSUME NEW t \in Tokens, Logout(t) PROVE TypeOK'
    <3>1. Ended("loggedOut") \in Session
      BY DEF Ended, Session
    <3>2. sessions' \in [Tokens -> Session]
      BY <2>3, <3>1 DEF Logout, Inv, TypeOK
    <3> QED BY <2>3, <3>2 DEF Logout, Inv, TypeOK
  <2>4. CASE UNCHANGED vars
    BY <2>4 DEF vars, Inv, TypeOK
  <2> QED BY <2>1, <2>2, <2>3, <2>4
<1>2. /\ hits' = hits /\ users' = users /\ (now' = now \/ now' = now + 1)
      /\ job' = job \/ job' = [i \in Jobs |-> IdleJob]
  BY DEF WebCrash, Tick, Logout, vars
<1>3. ASSUME NEW k \in Keys PROVE Within(k)'
  <2>1. InWindow(k)' \subseteq InWindow(k)
    <3>1. now \in Nat /\ \A h \in hits : h.at \in Nat
      BY DEF Inv, TypeOK, Hit
    <3>2. \A h \in hits : h.at + Window > now' => h.at + Window > now
      BY <1>2, <3>1
    <3> QED BY <1>2, <3>2 DEF InWindow
  <2>2. Pending(k)' \subseteq Pending(k)
    BY <1>2 DEF Pending, Passed, IdleJob
  <2>3. Within(k) /\ IsFiniteSet(hits) /\ IsFiniteSet(hits')
    BY <1>2 DEF Inv, BoundInv, Within
  <2> QED BY <2>1, <2>2, <2>3, NoneJoins
<1> QED BY <1>1, <1>2, <1>3 DEF Inv, AtMostOne, BoundInv, Within

LEMMA StepInv == Inv /\ [Next]_vars => Inv'
<1> SUFFICES ASSUME Inv, [Next]_vars PROVE Inv'
  OBVIOUS
<1>1. ASSUME NEW j \in Jobs,
             \/ Submit(j) \/ \E t \in Tokens : SubmitAction(j, t)
             \/ ReadState(j) \/ Verify(j) \/ CreateOwner(j)
             \/ \E k \in job[j].todo : Check(j, k) \/ Record(j, k) \/ Clear(j, k)
             \/ CleanupRateLimits(j) \/ CleanupExpiredSessions(j) \/ CreateSession(j)
      PROVE  Inv'
  BY <1>1, SubmitInv, LoginStepsInv, CheckInv, RecordInv, LimitStepsInv, SessionStepsInv
<1> QED BY <1>1, OtherStepsInv DEF Next

LEMMA Invariance == Spec => []Inv
<1> QED BY InitInv, StepInv, PTL DEF Spec

-----------------------------------------------------------------------------

\* The variables keep their types: no request ever waits at a step its kind does
\* not have (the services of login, setup and the owner's actions).
THEOREM TypeCorrect == Spec => []TypeOK
<1>1. Inv => TypeOK
  BY DEF Inv
<1> QED BY Invariance, <1>1, PTL

\* However check and record of any number of requests interleave, a limit is
\* exceeded at most by the requests under way together (rate-limit.ts:24, 37).
THEOREM AttemptsSafety == Spec => []AttemptsAreBounded
<1>1. Inv => AttemptsAreBounded
  <2> SUFFICES ASSUME Inv, NEW k \in Keys
               PROVE  Cardinality(InWindow(k)) <= MaxHits + Cardinality(Jobs) - 1
    BY DEF AttemptsAreBounded
  <2>1. /\ Cardinality(InWindow(k)) \in Nat /\ Cardinality(Pending(k)) \in Nat
        /\ Cardinality(Jobs) \in Nat /\ MaxHits \in Nat
    BY Numbers DEF Inv
  <2>2. Cardinality(InWindow(k)) + Cardinality(Pending(k)) <= MaxHits + Cardinality(Jobs) - 1
    BY DEF Inv, BoundInv
  <2> QED BY <2>1, <2>2
<1> QED BY Invariance, <1>1, PTL

\* How far a request gets while there is no owner.
Outside(r) ==
  \/ r = IdleJob
  \/ r.kind = "login" /\ r.pc = "state"
  \/ r.kind = "setup" /\ r.pc \in {"state", "check", "record", "owner"}

EntryInv ==
  users = 0 => /\ \A t \in Tokens : sessions[t].state = "unused"
               /\ \A j \in Jobs : Outside(job[j])

LEMMA EntryInit == Init => EntryInv
BY DEF Init, EntryInv, Outside, Ended

LEMMA EntryNext == TypeOK /\ EntryInv /\ [Next]_vars => EntryInv'
<1> SUFFICES ASSUME TypeOK, EntryInv, [Next]_vars, users' = 0 PROVE EntryInv'
  BY DEF EntryInv
<1>1. users = 0
  BY DEF TypeOK, Next, Submit, SubmitAction, ReadState, Verify, CreateOwner, Check, Record, Clear,
         CleanupRateLimits, CleanupExpiredSessions, CreateSession, Logout, WebCrash, Tick, vars
<1>2. /\ \A t \in Tokens : sessions[t].state = "unused"
      /\ \A j \in Jobs : Outside(job[j]) /\ job[j] \in Job \cup {IdleJob}
  BY <1>1 DEF EntryInv, TypeOK
<1>3. ASSUME NEW j \in Jobs, NEW r, job' = [job EXCEPT ![j] = r], Outside(r), UNCHANGED sessions
      PROVE  EntryInv'
  <2>1. \A i \in Jobs : job'[i] = IF i = j THEN r ELSE job[i]
    BY <1>3 DEF TypeOK
  <2> QED BY <1>2, <1>3, <2>1 DEF EntryInv, Outside
<1>4. ASSUME NEW j \in Jobs, Submit(j) PROVE EntryInv'
  <2>1. PICK kind \in {"login", "setup"} : \E keys :
          job' = [job EXCEPT ![j] =
                    [pc |-> "state", kind |-> kind, keys |-> keys, todo |-> keys, limited |-> FALSE]]
    BY <1>4 DEF Submit, Start
  <2> QED BY <1>3, <1>4, <2>1 DEF Submit, Outside
<1>5. ASSUME NEW j \in Jobs, End(j), UNCHANGED sessions PROVE EntryInv'
  BY <1>3, <1>5 DEF End, Outside
<1>6. ASSUME NEW j \in Jobs, NEW p \in {"state", "check", "record", "owner"}, job[j].kind = "setup",
             Goto(j, p), UNCHANGED sessions
      PROVE  EntryInv'
  <2>1. job' = [job EXCEPT ![j] = [job[j] EXCEPT !.pc = p, !.todo = job[j].keys]]
    BY <1>6 DEF Goto, TypeOK
  <2>2. job[j] \in Job
    BY <1>2, <1>6 DEF IdleJob
  <2> QED BY <1>3, <1>6, <2>1, <2>2 DEF Outside, Job
<1>7. ASSUME NEW j \in Jobs, ReadState(j) PROVE EntryInv'
  <2>1. SetupState # "completed" /\ job[j].kind \in {"login", "setup"}
    BY <1>1, <1>2, <1>7 DEF SetupState, ReadState, Outside, IdleJob
  <2> QED BY <1>5, <1>6, <1>7, <2>1 DEF ReadState
<1>8. ASSUME NEW j \in Jobs, NEW k \in job[j].todo, Check(j, k) \/ Record(j, k) PROVE EntryInv'
  <2>1. job[j].kind = "setup" /\ job[j].pc \in {"check", "record"} /\ job[j] \in Job
    BY <1>2, <1>8 DEF Check, Record, Outside, IdleJob
  <2>2. ASSUME NEW todo, NEW limited, job' = [job EXCEPT ![j].limited = limited, ![j].todo = todo]
        PROVE  EntryInv'
    <3>1. job' = [job EXCEPT ![j] = [job[j] EXCEPT !.limited = limited, !.todo = todo]]
      BY <2>2 DEF TypeOK
    <3> QED BY <1>3, <1>8, <2>1, <3>1 DEF Outside, Job, Check, Record
  <2>3. ASSUME NEW todo, job' = [job EXCEPT ![j].todo = todo]
        PROVE  EntryInv'
    <3>1. job' = [job EXCEPT ![j] = [job[j] EXCEPT !.todo = todo]]
      BY <2>3 DEF TypeOK
    <3> QED BY <1>3, <1>8, <2>1, <3>1 DEF Outside, Job, Check, Record
  <2>4. CASE Check(j, k)
    BY <1>5, <1>6, <2>1, <2>2, <2>4 DEF Check
  <2>5. CASE Record(j, k)
    BY <1>5, <1>6, <2>1, <2>3, <2>5 DEF Record, AfterRecord
  <2> QED BY <1>8, <2>4, <2>5
<1>9. ASSUME NEW j \in Jobs, CreateOwner(j) PROVE EntryInv'
  BY <1>1, <1>5, <1>9 DEF CreateOwner
<1>10. ASSUME NEW j \in Jobs,
              \/ Verify(j) \/ CleanupRateLimits(j) \/ CleanupExpiredSessions(j) \/ CreateSession(j)
              \/ \E k \in job[j].todo : Clear(j, k)
              \/ \E t \in Tokens : SubmitAction(j, t) \/ Logout(t)
       PROVE  FALSE
  BY <1>2, <1>10 DEF Verify, CleanupRateLimits, CleanupExpiredSessions, CreateSession, Clear,
                     SubmitAction, Logout, Outside, IdleJob
<1>11. CASE WebCrash \/ Tick \/ UNCHANGED vars
  BY <1>2, <1>11 DEF WebCrash, Tick, vars, EntryInv, Outside
<1>12. ASSUME NEW t \in Tokens, Logout(t) PROVE FALSE
  BY <1>2, <1>12 DEF Logout
<1> QED BY <1>4, <1>7, <1>8, <1>9, <1>10, <1>11, <1>12 DEF Next

\* Any number of setup requests that passed the state check make one owner,
\* and before that nobody is in (users.ts:52).
THEOREM OwnerSafety == Spec => []OneOwner
<1>1. Inv /\ EntryInv => OneOwner
  BY DEF Inv, AtMostOne, EntryInv, OneOwner, Outside, IdleJob
<1>2. Inv => TypeOK
  BY DEF Inv
<1> QED BY InitInv, StepInv, EntryInit, EntryNext, <1>1, <1>2, PTL DEF Spec

\* No cleanup takes a hit inside its window or a session that has not expired
\* (rate-limit.ts:49, session.ts:49, 63).
THEOREM CleanupSafety == Spec => CleanupsSpareWhatCounts
<1> DEFINE Spares ==
      /\ \A h \in hits \ hits' : h.at + Window > now =>
           \E j \in Jobs : job[j].pc = "clear" /\ h.key \in job[j].todo
      /\ \A t \in Tokens :
           (sessions[t].state = "live" /\ sessions[t].expires > now)
             => sessions'[t].state # "removed"
<1>1. Inv /\ [Next]_vars => [Spares]_vars
  <2> SUFFICES ASSUME Inv, Next PROVE Spares
    OBVIOUS
  <2>1. /\ now \in Nat /\ sessions \in [Tokens -> Session]
        /\ \A h \in hits : h.at \in Nat
        /\ \A t \in Tokens : sessions[t].expires \in Nat
    BY DEF Inv, TypeOK, Hit, Session
  <2>2. ASSUME NEW h \in hits \ hits', h.at + Window > now
        PROVE  \E j \in Jobs : job[j].pc = "clear" /\ h.key \in job[j].todo
    <3>1. CASE \E j \in Jobs : CleanupRateLimits(j)
      BY <2>1, <2>2, <3>1 DEF CleanupRateLimits
    <3>2. CASE \E j \in Jobs : \E k \in job[j].todo : Clear(j, k)
      BY <2>2, <3>2 DEF Clear
    <3>3. CASE hits \subseteq hits'
      BY <2>2, <3>3
    <3>4. \/ \E j \in Jobs : CleanupRateLimits(j)
          \/ \E j \in Jobs : \E k \in job[j].todo : Clear(j, k)
          \/ hits \subseteq hits'
      BY DEF Next, Submit, SubmitAction, ReadState, Verify, CreateOwner, Check, Record,
             CleanupExpiredSessions, CreateSession, Logout, WebCrash, Tick
    <3> QED BY <3>1, <3>2, <3>3, <3>4
  <2>3. ASSUME NEW t \in Tokens, sessions[t].state = "live", sessions[t].expires > now
        PROVE  sessions'[t].state # "removed"
    <3>1. CASE UNCHANGED sessions
      BY <2>3, <3>1
    <3>2. CASE \E j \in Jobs : \E u \in Tokens : SubmitAction(j, u)
      BY <2>1, <2>3, <3>2 DEF SubmitAction
    <3>3. CASE \E j \in Jobs : CleanupExpiredSessions(j)
      BY <2>1, <2>3, <3>3 DEF CleanupExpiredSessions
    <3>4. CASE \E j \in Jobs : CreateSession(j)
      BY <2>1, <2>3, <3>4 DEF CreateSession
    <3>5. CASE \E u \in Tokens : Logout(u)
      BY <2>1, <2>3, <3>5 DEF Logout, Ended
    <3>6. \/ UNCHANGED sessions
          \/ \E j \in Jobs : \E u \in Tokens : SubmitAction(j, u)
          \/ \E j \in Jobs : CleanupExpiredSessions(j)
          \/ \E j \in Jobs : CreateSession(j)
          \/ \E u \in Tokens : Logout(u)
      BY DEF Next, Submit, ReadState, Verify, CreateOwner, Check, Record, Clear,
             CleanupRateLimits, WebCrash, Tick
    <3> QED BY <3>1, <3>2, <3>3, <3>4, <3>5, <3>6
  <2> QED BY <2>2, <2>3
<1> QED BY Invariance, <1>1, PTL DEF Spec, CleanupsSpareWhatCounts

=============================================================================
