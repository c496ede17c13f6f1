--------------------------- MODULE MCRotationPlan --------------------------
(***************************************************************************)
(* Instance of RotationPlan for TLC, with a smaller policy than the 3      *)
(* backups and 7 days of DEFAULT_BACKUP_ROTATION_POLICY.                   *)
(***************************************************************************)
EXTENDS RotationPlan, TLC

SmallPolicy ==
  [keepLastCount |-> 2, keepMinAgeDays |-> 2, deleteOlderThanDays |-> {},
   protectOnlyBackup |-> TRUE, protectLastVerifiedBackup |-> TRUE]

=============================================================================
