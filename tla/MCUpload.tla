------------------------------- MODULE MCUpload -------------------------------
(* Instances of UploadController for TLC. *)
EXTENDS UploadController, TLC

\* The nodes differ only by name, and so do the goroutine slots.
Symmetry == Permutations(Node) \cup Permutations(Goroutine)
=============================================================================
