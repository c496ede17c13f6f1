------------------------------- MODULE Access -------------------------------
(***************************************************************************)
(* Who gets in, and how often somebody may try: the setup that creates the *)
(* one owner (core/setup.ts, core/users.ts), the login and the sessions    *)
(* (login/actions.ts, core/session.ts), and the rate limits every one of   *)
(* these and the owner's costly actions pass (core/rate-limit.ts).         *)
(*                                                                         *)
(* A job is one request.  Each query is a step, so the steps of requests   *)
(* interleave; Promise.all over two keys is two steps in any order.  A     *)
(* transaction is one step: SQLite runs it as if alone, or it fails.       *)
(*                                                                         *)
(* Abstracted: passwords (right or wrong, acceptable or not), tokens and   *)
(* their hashes (one value), the rest of what an action does, and clocks   *)
(* (one, in steps).                                                        *)
(*                                                                         *)
(* A definition whose name begins with Bug_ is the next definition with a  *)
(* plausible mistake, for showing that a property notices it.              *)
(***************************************************************************)
EXTENDS Naturals, FiniteSets

CONSTANTS
  Jobs,         \* requests that can be under way at the same time
  LoginKeys,    \* the pairs of rate-limit keys (IP, identifier) of logins
  OwnerKeys,    \* those of LoginKeys with the owner's identifier
  SetupKeys,    \* the keys of setup attempts (IP), as sets of one key
  ActionKeys,   \* the keys of the owner's actions, as sets of one key
  HitIds,       \* primary keys of hits; bounds how many are stored at a time
  Tokens,       \* session tokens; bounds how many are issued
  MaxHits,      \* max of the limits
  Window,       \* windowMs of the limits
  Retention,    \* RATE_LIMIT_RETENTION_MS
  TTL,          \* SESSION_TTL_MS
  SetupLock,    \* the SETUP_LOCK setting
  MaxTime       \* bound on the clock

Keys == UNION (LoginKeys \cup SetupKeys \cup ActionKeys)

ASSUME AccessAssumption ==
  /\ IsFiniteSet(Jobs) /\ Jobs # {}
  /\ IsFiniteSet(HitIds)
  /\ OwnerKeys \subseteq LoginKeys
  /\ MaxHits \in Nat \ {0} /\ Window \in Nat \ {0} /\ TTL \in Nat \ {0}
  /\ Retention \in Nat /\ Retention >= Window
  /\ SetupLock \in BOOLEAN
  /\ MaxTime \in Nat

VARIABLES
  now,       \* the clock
  users,     \* database: number of user rows
  hits,      \* database: RateLimitHit rows
  sessions,  \* database: Session rows, by token
  job        \* the requests

vars == <<now, users, hits, sessions, job>>

Hit == [id : HitIds, key : Keys, at : 0 .. MaxTime]

Session == [state : {"unused", "live", "loggedOut", "removed"}, expires : 0 .. MaxTime + TTL]

\* A token without a row: never issued, or for what reason the row is gone (history).
Ended(why) == [state |-> why, expires |-> 0]

IdleJob == [pc |-> "idle", kind |-> "none", keys |-> {}, todo |-> {}, limited |-> FALSE]

\* What each kind of request goes through.
Steps(kind) ==
  CASE kind = "login" ->
         {"state", "check", "verify", "record", "clear", "cleanupLimits", "cleanupSessions", "session"}
    [] kind = "setup" -> {"state", "check", "record", "owner", "cleanupSessions", "session"}
    [] kind = "action" -> {"check", "record"}

Kinds == {"login", "setup", "action"}
KeysOf(kind) ==
  CASE kind = "login" -> LoginKeys [] kind = "setup" -> SetupKeys [] kind = "action" -> ActionKeys

Job == [pc : UNION {Steps(k) : k \in Kinds}, kind : Kinds, keys : SUBSET Keys, todo : SUBSET Keys,
        limited : BOOLEAN]

TypeOK ==
  /\ now \in 0 .. MaxTime
  /\ users \in Nat
  /\ hits \subseteq Hit
  /\ sessions \in [Tokens -> Session]
  /\ job \in [Jobs -> Job \cup {IdleJob}]
  /\ \A j \in Jobs : job[j] # IdleJob =>
       /\ job[j].pc \in Steps(job[j].kind)
       /\ job[j].keys \in KeysOf(job[j].kind)
       /\ job[j].todo \subseteq job[j].keys

Init ==
  /\ now = 0
  /\ users = 0
  /\ hits = {}
  /\ sessions = [t \in Tokens |-> Ended("unused")]
  /\ job = [j \in Jobs |-> IdleJob]

-----------------------------------------------------------------------------
(* Rate limits.                                                            *)

InWindow(k) == {h \in hits : h.key = k /\ h.at + Window > now}

Bug_Limited(k) == Cardinality(InWindow(k)) > MaxHits

\* checkRateLimit and evaluateRateLimit.
Limited(k) == Cardinality(InWindow(k)) >= MaxHits

End(j)     == job' = [job EXCEPT ![j] = IdleJob]
Goto(j, p) == job' = [job EXCEPT ![j].pc = p, ![j].todo = job[j].keys]

\* One of the checks of a request; the last decides.
Check(j, k) ==
  LET limited == job[j].limited \/ Limited(k)
      todo == job[j].todo \ {k}
  IN  /\ job[j].pc = "check" /\ k \in job[j].todo
      /\ IF todo # {} THEN job' = [job EXCEPT ![j].limited = limited, ![j].todo = todo]
         ELSE IF limited THEN End(j)
         ELSE Goto(j, IF job[j].kind = "login" THEN "verify" ELSE "record")
      /\ UNCHANGED <<now, users, hits, sessions>>

\* After the last hit is stored: a failed login and a setup with input that does not
\* pass end, an action does what it is for (which is not part of this module).
AfterRecord(kind) == IF kind = "setup" THEN {"idle", "owner"} ELSE {"idle"}

\* recordRateLimitHit.
Record(j, k) ==
  /\ job[j].pc = "record" /\ k \in job[j].todo
  /\ \E id \in HitIds \ {h.id : h \in hits} : hits' = hits \cup {[id |-> id, key |-> k, at |-> now]}
  /\ IF job[j].todo # {k} THEN job' = [job EXCEPT ![j].todo = @ \ {k}]
     ELSE \E next \in AfterRecord(job[j].kind) : IF next = "idle" THEN End(j) ELSE Goto(j, next)
  /\ UNCHANGED <<now, users, sessions>>

\* clearRateLimit.
Clear(j, k) ==
  /\ job[j].pc = "clear" /\ k \in job[j].todo
  /\ hits' = {h \in hits : h.key # k}
  /\ IF job[j].todo # {k} THEN job' = [job EXCEPT ![j].todo = @ \ {k}] ELSE Goto(j, "cleanupLimits")
  /\ UNCHANGED <<now, users, sessions>>

Bug_CleanupRateLimits(j) ==
  /\ job[j].pc = "cleanupLimits"
  /\ hits' = {h \in hits : h.at >= now}
  /\ Goto(j, "cleanupSessions")
  /\ UNCHANGED <<now, users, sessions>>

CleanupRateLimits(j) ==
  /\ job[j].pc = "cleanupLimits"
  /\ hits' = {h \in hits : h.at + Retention >= now}
  /\ Goto(j, "cleanupSessions")
  /\ UNCHANGED <<now, users, sessions>>

-----------------------------------------------------------------------------
(* Setup, login, logout.                                                   *)

Start(j, kind, keys, p) ==
  job' = [job EXCEPT ![j] = [pc |-> p, kind |-> kind, keys |-> keys, todo |-> keys, limited |-> FALSE]]

Submit(j) ==
  /\ job[j] = IdleJob
  /\ \/ \E keys \in LoginKeys : Start(j, "login", keys, "state")
     \/ \E keys \in SetupKeys : Start(j, "setup", keys, "state")
  /\ UNCHANGED <<now, users, hits, sessions>>

\* An action of the owner: validateSessionToken first.  A session that is found
\* expired is deleted, and the request is sent to the login.
SubmitAction(j, t) ==
  /\ job[j] = IdleJob
  /\ sessions[t].state = "live"
  /\ IF sessions[t].expires <= now
     THEN sessions' = [sessions EXCEPT ![t] = Ended("removed")] /\ UNCHANGED job
     ELSE UNCHANGED sessions /\ \E keys \in ActionKeys : Start(j, "action", keys, "check")
  /\ UNCHANGED <<now, users, hits>>

SetupState ==
  CASE users > 0 -> "completed"
    [] users = 0 /\ SetupLock -> "locked"
    [] OTHER -> "needs-setup"

\* getSetupState: a login is for later than the setup, a setup for before its end.
ReadState(j) ==
  /\ job[j].pc = "state"
  /\ IF SetupState = (IF job[j].kind = "login" THEN "completed" ELSE "needs-setup")
     THEN Goto(j, "check") ELSE End(j)
  /\ UNCHANGED <<now, users, hits, sessions>>

\* verifyPassword: only the owner's identifier can come with the right password.
Verify(j) ==
  /\ job[j].pc = "verify"
  /\ \/ job[j].keys \in OwnerKeys /\ Goto(j, "clear")
     \/ Goto(j, "record")
  /\ UNCHANGED <<now, users, hits, sessions>>

Bug_CreateOwner(j) ==
  /\ job[j].pc = "owner"
  /\ \/ users' = users + 1 /\ Goto(j, "cleanupSessions")
     \/ UNCHANGED users /\ End(j)
  /\ UNCHANGED <<now, hits, sessions>>

\* The transaction counts the users itself; it can fail for other reasons too.
CreateOwner(j) ==
  /\ job[j].pc = "owner"
  /\ \/ users = 0 /\ users' = 1 /\ Goto(j, "cleanupSessions")
     \/ UNCHANGED users /\ End(j)
  /\ UNCHANGED <<now, hits, sessions>>

CleanupExpiredSessions(j) ==
  /\ job[j].pc = "cleanupSessions"
  /\ sessions' = [t \in Tokens |->
       IF sessions[t].state = "live" /\ sessions[t].expires < now
       THEN Ended("removed") ELSE sessions[t]]
  /\ Goto(j, "session")
  /\ UNCHANGED <<now, users, hits>>

CreateSession(j) ==
  /\ job[j].pc = "session"
  /\ \E t \in Tokens :
       /\ sessions[t].state = "unused"
       /\ sessions' = [sessions EXCEPT ![t] = [state |-> "live", expires |-> now + TTL]]
  /\ End(j)
  /\ UNCHANGED <<now, users, hits>>

\* invalidateSession, of whoever has the token.
Logout(t) ==
  /\ sessions[t].state = "live"
  /\ sessions' = [sessions EXCEPT ![t] = Ended("loggedOut")]
  /\ UNCHANGED <<now, users, hits, job>>

-----------------------------------------------------------------------------

\* The web process dies: its requests end where they are.
WebCrash ==
  /\ \E j \in Jobs : job[j] # IdleJob
  /\ job' = [j \in Jobs |-> IdleJob]
  /\ UNCHANGED <<now, users, hits, sessions>>

Tick ==
  /\ now < MaxTime
  /\ now' = now + 1
  /\ UNCHANGED <<users, hits, sessions, job>>

Next ==
  \/ \E j \in Jobs :
       \/ Submit(j) \/ \E t \in Tokens : SubmitAction(j, t)
       \/ ReadState(j) \/ Verify(j) \/ CreateOwner(j)
       \/ \E k \in job[j].todo : Check(j, k) \/ Record(j, k) \/ Clear(j, k)
       \/ CleanupRateLimits(j) \/ CleanupExpiredSessions(j) \/ CreateSession(j)
  \/ \E t \in Tokens : Logout(t)
  \/ WebCrash \/ Tick

Spec == Init /\ [][Next]_vars

-----------------------------------------------------------------------------
(* Properties.                                                             *)

\* Check and record are two queries (rate-limit.ts:24, 37), so a limit is not exact;
\* but within a window it is exceeded at most by the requests that were under way
\* together, however they interleave.
AttemptsAreBounded ==
  \A k \in Keys : Cardinality(InWindow(k)) <= MaxHits + Cardinality(Jobs) - 1

\* Two setups that both passed the state check make one owner (users.ts:52), and
\* before there is one nobody is in: no login gets as far as the password, no setup
\* that lost the race gets a session (setup/actions.ts, login/actions.ts).
OneOwner ==
  /\ users <= 1
  /\ users = 0 => /\ \A t \in Tokens : sessions[t].state = "unused"
                  /\ \A j \in Jobs : job[j].kind # "action" /\ job[j].pc # "verify"

\* What still counts is not cleaned away: a hit inside its window goes only when its
\* key is cleared after a right password, and a session that has not expired only
\* when its owner logs out (rate-limit.ts:49, session.ts:49, 63).
CleanupsSpareWhatCounts ==
  [][/\ \A h \in hits \ hits' : h.at + Window > now =>
          \E j \in Jobs : job[j].pc = "clear" /\ h.key \in job[j].todo
     /\ \A t \in Tokens :
          (sessions[t].state = "live" /\ sessions[t].expires > now)
            => sessions'[t].state # "removed"]_vars

=============================================================================
