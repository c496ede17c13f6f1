--------------------------- MODULE StatusRefresh ---------------------------
(***************************************************************************)
(* What a status refresh promises, without sockets, chunks, buffers and    *)
(* timers: question and answer take turns, a command is sent only after    *)
(* every earlier one was accepted, the server counts as reachable only     *)
(* after it accepted all three, a session that has ended is disconnected,  *)
(* and a removed server stays removed.                                     *)
(*                                                                         *)
(* The promise ends where the end of an error line was missing when the    *)
(* line was read (phase "torn"): from there the session may do anything    *)
(* until it ends, except to bring a removed server back.                   *)
(***************************************************************************)
EXTENDS Naturals, Sequences

VARIABLES
  row,        \* the server's lastStatus, or deleted
  phase,      \* idle, connect, the command that is asked, complete, failed or torn
  answers,    \* what the server answered in this session
  connected

vars == <<row, phase, answers, connected>>

Commands == <<"login", "use", "serverinfo">>

Init == row = "unknown" /\ phase = "idle" /\ answers = <<>> /\ ~connected

Begin ==
  /\ phase = "idle" /\ row # "deleted"
  /\ answers' = <<>>
  /\ \/ phase' = "connect" /\ connected'
     \/ phase' = "failed" /\ ~connected'
  /\ UNCHANGED row

Login ==
  /\ phase = "connect" /\ connected
  /\ phase' = "login"
  /\ UNCHANGED <<row, answers, connected>>

Answer(i, ok) ==
  /\ phase = Commands[i] /\ connected /\ Len(answers) = i - 1
  /\ answers' = Append(answers, ok)
  /\ UNCHANGED <<row, phase, connected>>

Accepted(i) ==
  phase = Commands[i] /\ connected /\ Len(answers) = i /\ \A k \in 1 .. i : answers[k]

Ask(i) == Accepted(i) /\ phase' = Commands[i + 1] /\ UNCHANGED <<row, answers, connected>>

Complete == Accepted(3) /\ phase' = "complete" /\ ~connected' /\ UNCHANGED <<row, answers>>

InSession == phase \in {"connect", "login", "use", "serverinfo"}

Fail == InSession /\ phase' = "failed" /\ ~connected' /\ UNCHANGED <<row, answers>>

\* The peer closes before it has greeted: only the timer ends the session.
Disconnect ==
  /\ phase = "connect" /\ connected
  /\ ~connected'
  /\ UNCHANGED <<row, phase, answers>>

Tear ==
  /\ phase \in {"login", "use", "serverinfo"}
  /\ phase' = "torn" /\ answers' = <<>>
  /\ connected' => connected
  /\ UNCHANGED row

TornStep ==
  /\ phase = "torn" /\ connected /\ ~connected'
  /\ UNCHANGED <<row, phase, answers>>

Report(statuses) ==
  /\ phase' = "idle"
  /\ IF row = "deleted" THEN UNCHANGED row ELSE row' \in statuses
  /\ UNCHANGED <<answers, connected>>

Save ==
  \/ phase = "complete" /\ Report({"reachable"})
  \/ phase = "failed" /\ Report({"unreachable"})
  \/ phase = "torn" /\ ~connected /\ Report({"reachable", "unreachable"})

Remove == row # "deleted" /\ row' = "deleted" /\ UNCHANGED <<phase, answers, connected>>

Next ==
  \/ Begin \/ Login
  \/ \E i \in 1 .. 3, ok \in BOOLEAN : Answer(i, ok)
  \/ \E i \in 1 .. 2 : Ask(i)
  \/ Complete \/ Fail \/ Disconnect
  \/ Tear \/ TornStep
  \/ Save \/ Remove

Spec == Init /\ [][Next]_vars

=============================================================================
