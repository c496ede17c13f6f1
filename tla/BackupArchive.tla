--------------------------- MODULE BackupArchive ---------------------------
(***************************************************************************)
(* What the backup store promises about its archive files, without agent,  *)
(* requests, metadata or faults: an archive is finished or abandoned once, *)
(* never changes afterwards, and does not come back when it was deleted;   *)
(* except that a name may be given to a second backup while the archive of *)
(* the first is not finished, and such an archive can be begun again.      *)
(***************************************************************************)
CONSTANT Files

VARIABLES
  file,   \* of each name: free, writing, left (unfinished), whole or gone
  shared  \* names that were given to two backups

Init == file \in [Files -> {"free", "whole"}] /\ shared = {}

Move(f, from, to) ==
  file[f] \in from /\ file' = [file EXCEPT ![f] = to] /\ UNCHANGED shared

Begin(f)   == Move(f, {"free"}, "writing")
Finish(f)  == Move(f, {"writing"}, "whole")
Abandon(f) == Move(f, {"writing"}, "left")
Delete(f)  == Move(f, {"writing", "left", "whole"}, "gone")

Share(f) ==
  /\ file[f] \in {"free", "writing", "gone"}
  /\ shared' = shared \cup {f} /\ UNCHANGED file

Again(f) == f \in shared /\ Move(f, {"left", "whole", "gone"}, "writing")

Next ==
  \E f \in Files : Begin(f) \/ Finish(f) \/ Abandon(f) \/ Delete(f) \/ Share(f) \/ Again(f)

Spec == Init /\ [][Next]_<<file, shared>>

=============================================================================
