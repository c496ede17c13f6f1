------------------------------ MODULE MCQuery ------------------------------
(***************************************************************************)
(* Instances of QueryClient for TLC.                                       *)
(***************************************************************************)
EXTENDS QueryClient, TLC

AllFaults == {"error", "close"}

=============================================================================
