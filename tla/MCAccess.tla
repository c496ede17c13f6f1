------------------------------ MODULE MCAccess ------------------------------
(***************************************************************************)
(* Instances of Access for TLC.                                            *)
(***************************************************************************)
EXTENDS Access, TLC

CONSTANTS j1, j2, h1, h2, h3, t1, t2

TwoJobs   == {j1, j2}
ThreeHits == {h1, h2, h3}
TwoTokens == {t1, t2}

\* One address and one identifier, the owner's.
OwnerLogin == {{"login:ip", "login:owner"}}
OneSetup   == {{"setup:ip"}}
OneAction  == {{"prepare:owner"}}

AccessSymmetry == Permutations(TwoJobs) \cup Permutations(ThreeHits) \cup Permutations(TwoTokens)

=============================================================================
