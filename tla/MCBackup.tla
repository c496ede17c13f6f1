------------------------------ MODULE MCBackup -----------------------------
(***************************************************************************)
(* Instances of BackupStore for TLC.                                       *)
(***************************************************************************)
EXTENDS BackupStore, TLC

AllOps == Operations

\* A download contains a verification.
OverlapOps == Operations \ {"verify"}
\* Two jobs are interchangeable.
JobSymmetry == Permutations(Jobs)

=============================================================================
