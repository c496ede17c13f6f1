---------------------------- MODULE MCLifecycle ----------------------------
(***************************************************************************)
(* Instances of ManagedLifecycle for TLC.                                  *)
(***************************************************************************)
EXTENDS ManagedLifecycle, TLC

AllOps == Operations

\* Without the read-only health check, which only writes the run state.
LossyOps == Operations \ {"health"}

\* Two jobs are interchangeable.
JobSymmetry == Permutations(Jobs)

=============================================================================
