------------------------------ MODULE MCVcenter ------------------------------
(* VcenterConnection for TLC. *)
EXTENDS VcenterConnection

\* BOUND: two disturbances in a behaviour, rotations and faults together.
Combined == accepted + faults.count <= 2

MCSpec ==
  ConnectionInit /\ [][ConnectionNext /\ Combined']_connectionVars /\ ConnectionFairness

=============================================================================
