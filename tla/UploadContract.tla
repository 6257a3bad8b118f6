---------------------------- MODULE UploadContract ----------------------------
(***************************************************************************)
(* What the data managers, together, promise about one Upload to those who *)
(* only see its phase (the backup driver, the user): when the two copies   *)
(* of the data may appear and disappear, and which phases may be reported  *)
(* when.  UploadController implements it.                                  *)
(***************************************************************************)

CONSTANT UploadPhase

VARIABLES phase, cancel, local, remote, gaveUp

contractVars == <<phase, cancel, local, remote, gaveUp>>

Init ==
  /\ phase = "New" /\ cancel = FALSE
  /\ local = TRUE /\ remote = FALSE /\ gaveUp = FALSE

\* A copy can only be made from the local snapshot.
Copy ==
  /\ local
  /\ remote' = TRUE
  /\ UNCHANGED <<phase, cancel, local, gaveUp>>

GiveUp ==
  /\ gaveUp' = TRUE
  /\ UNCHANGED <<phase, cancel, local, remote>>

DropLocal ==
  /\ remote \/ gaveUp
  /\ local' = FALSE
  /\ UNCHANGED <<phase, cancel, remote, gaveUp>>

RequestCancel ==
  /\ phase # "Gone"
  /\ cancel' = TRUE
  /\ UNCHANGED <<phase, local, remote, gaveUp>>

\* A new phase is reported.  "New" is never reported again, and a deleted
\* object is not heard of again.
Report(p) ==
  /\ phase # "Gone"
  /\ p # "New"
  /\ p \in {"Completed", "UploadFailedAfterRetry"} => ~local
  /\ p = "UploadFailedAfterRetry" => gaveUp
  /\ p \in {"Completed", "CleanupFailed"} => remote \/ gaveUp
  /\ p \in {"Canceling", "Canceled"} => cancel
  /\ phase' = p
  /\ UNCHANGED <<cancel, local, remote, gaveUp>>

\* The clean up deletes the object once its work is done.
Remove ==
  /\ ~local
  /\ phase' = "Gone" /\ cancel' = FALSE
  /\ UNCHANGED <<local, remote, gaveUp>>

Next ==
  \/ Copy \/ GiveUp \/ DropLocal \/ RequestCancel \/ Remove
  \/ \E p \in UploadPhase : Report(p)

Spec == Init /\ [][Next]_contractVars
=============================================================================
