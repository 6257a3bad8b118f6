------------------------------ MODULE MCDownload ------------------------------
(***************************************************************************)
(* DownloadController for TLC: two nodes.  The copies start and end in the *)
(* same way for a new volume and for one that is overwritten, so every     *)
(* combination of faults is explored for the kind of volume for which it   *)
(* is the harder one.                                                      *)
(***************************************************************************)
EXTENDS DownloadController

\* BOUND: two faults happen while a volume is overwritten; a lease is lost, and
\* two copies overlap, without another fault and while there are new volumes.
Combined ==
  /\ faults.count = 2 => overwrite
  /\ Happened("lease") => faults.count = 1 /\ ~overwrite /\ created <= 2

MCSpec == Init /\ [][Next /\ Combined']_vars /\ Fairness

=============================================================================
