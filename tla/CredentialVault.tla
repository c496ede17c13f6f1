-------------------------- MODULE CredentialVault --------------------------
(***************************************************************************)
(* What the stored credentials promise under a changing encryption key,    *)
(* without requests, runs or transactions: a server has at most one, each  *)
(* one it is given is new, its value never changes, it is stored under the *)
(* key of the web process, and only what some key can read is ever put     *)
(* under another one.                                                      *)
(***************************************************************************)
EXTENDS Naturals

CONSTANTS Servers, Keys

VARIABLES
  given,    \* how many credentials each server was given
  value,    \* which of them is stored: its number, 0 when there is none
  key,      \* the key that reads it: "damaged" when none does, "none" without one
  serving,  \* the key of the web process
  removed   \* the servers that were deleted

vars == <<given, value, key, serving, removed>>

Init ==
  /\ value \in [Servers -> {0, 1}]
  /\ given = value
  /\ key \in [Servers -> Keys \cup {"none", "damaged"}]
  /\ \A s \in Servers : key[s] = "none" <=> value[s] = 0
  /\ serving \in Keys
  /\ removed = {}

Put(s, v, k) == value' = [value EXCEPT ![s] = v] /\ key' = [key EXCEPT ![s] = k]

Store(s) ==
  /\ s \notin removed /\ value[s] = 0
  /\ given' = [given EXCEPT ![s] = @ + 1]
  /\ Put(s, given[s] + 1, serving)
  /\ UNCHANGED <<serving, removed>>

Delete(s) == Put(s, 0, "none") /\ UNCHANGED <<given, serving, removed>>

Remove(s) ==
  /\ Put(s, 0, "none")
  /\ removed' = removed \cup {s}
  /\ UNCHANGED <<given, serving>>

\* Together, and each of them from a key that read it.
Rekey(some, new) ==
  /\ \A s \in some : key[s] \in Keys
  /\ key' = [s \in Servers |-> IF s \in some THEN new ELSE key[s]]
  /\ UNCHANGED <<given, value, serving, removed>>

Serve(new) == serving' = new /\ UNCHANGED <<given, value, key, removed>>

Next ==
  \/ \E s \in Servers : Store(s) \/ Delete(s) \/ Remove(s)
  \/ \E new \in Keys : Serve(new) \/ \E some \in SUBSET Servers : Rekey(some, new)

Spec == Init /\ [][Next]_vars

=============================================================================
