--------------------------- MODULE MCProvisioning ---------------------------
(***************************************************************************)
(* Instances of Provisioning for TLC.                                      *)
(***************************************************************************)
EXTENDS Provisioning, TLC

CONSTANTS s1, s2, j1, j2

OneServer  == {s1}
TwoServers == {s1, s2}
TwoJobs    == {j1, j2}
AllFaults  == FaultKinds

=============================================================================
