----------------------------- MODULE MCRotation -----------------------------
(***************************************************************************)
(* Instances of SecretRotation for TLC.                                    *)
(***************************************************************************)
EXTENDS SecretRotation, TLC

\* Requests, runs and keys are interchangeable.
RotationSymmetry ==
  Permutations(Requests) \cup Permutations(Runs) \cup Permutations(Keys)

=============================================================================
