--------------------------- MODULE MCSystemCheck ---------------------------
(***************************************************************************)
(* Instance of SystemCheck for TLC: a small host on the thresholds of the  *)
(* profile "small", and hosts that differ from it in one respect.  Sizes   *)
(* are twentieths of a GB: 79 is the least memory toGb rounds up to 4 GB,  *)
(* and 398 the most disk it rounds to less than 20 GB.                     *)
(***************************************************************************)
EXTENDS SystemCheck, TLC

Own   == [type : {"container", "volume", "network"}, managed : {TRUE}, id : {1}]
Alien == [type |-> "volume", managed |-> FALSE, id |-> 2]

Small ==
  [cores |-> 2, ram |-> 80, storage |-> 400, docker |-> "running", compose |-> TRUE,
   ipv4 |-> TRUE, ipv6 |-> FALSE, dns |-> TRUE, virt |-> "machine", linux |-> TRUE,
   resources |-> Own \cup {Alien}]

SmallHosts ==
  {Small,
   [Small EXCEPT !.cores = 1],
   [Small EXCEPT !.ram = 320, !.cores = 6],
   [Small EXCEPT !.ram = 79],
   [Small EXCEPT !.storage = 398],
   [Small EXCEPT !.storage = 3999],
   [Small EXCEPT !.docker = "installed", !.resources = {Alien}],
   [Small EXCEPT !.docker = "absent", !.resources = {}],
   [Small EXCEPT !.compose = FALSE, !.dns = FALSE],
   [Small EXCEPT !.ipv6 = TRUE],
   [Small EXCEPT !.ipv4 = FALSE, !.ipv6 = TRUE],
   [Small EXCEPT !.ipv4 = FALSE, !.ram = 78],
   [Small EXCEPT !.virt = "container"],
   [Small EXCEPT !.virt = "otherContainer"],
   [Small EXCEPT !.linux = FALSE]}

=============================================================================
