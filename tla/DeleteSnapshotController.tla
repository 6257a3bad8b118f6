----------------------- MODULE DeleteSnapshotController -----------------------
(***************************************************************************)
(* The deletion of one snapshot: NewPVCDeleteItemAction.Execute creates a  *)
(* DeleteSnapshot custom resource and waits (pkg/plugin, pkg/snapshotUtils/*)
(* delete_snapshot.go), the backup driver's deleteSnapshotWorker carries it*)
(* out (pkg/backupdriver, SnapshotManager.deleteSnapshot), and the data    *)
(* managers go on with the Upload of the snapshot, if there is one.  Their *)
(* steps are steps of UploadContract.                                      *)
(*                                                                         *)
(* The informer's handlers and resync enqueue every DeleteSnapshot again   *)
(* and again, so the one worker may start on it at any time.               *)
(***************************************************************************)
EXTENDS Naturals, Environment

VARIABLES
  localMode, \* no backup repository: the snapshot was not uploaded
  request,   \* the phase of the DeleteSnapshot held by the API server
  fresh,     \* the clients whose copy of it has the current resourceVersion
  plugin,    \* the progress of NewPVCDeleteItemAction.Execute
  worker,    \* the progress of the deleteSnapshotWorker
  upload     \* the Upload of the snapshot, and where the data is

vars == <<localMode, request, fresh, plugin, worker, upload, faults>>

-----------------------------------------------------------------------------
(* Data *)

\* "" is the phase of an object just created, "Gone" of one that is not there.
DeleteSnapshotPhase == {"", "New", "Completed", "Failed"}

UploadPhase == {"New", "InProgress", "Completed", "UploadError",
                "CleanupFailed", "Canceling", "Canceled",
                "UploadFailedAfterRetry"}

\* copied: the data managers made a copy in the repository, which may have
\* been deleted since.  asked: the delete worker set UploadCancel.  "Absent":
\* there never was an Upload.
Upload == [phase : UploadPhase \cup {"Gone", "Absent"}, cancel : BOOLEAN,
           local : BOOLEAN, remote : BOOLEAN, copied : BOOLEAN,
           gaveUp : BOOLEAN, asked : BOOLEAN]

\* Mutant: a failed upload counts as ended, although it will be retried.
TerminalPhasesWithError ==
  {"Completed", "CleanupFailed", "Canceled", "UploadFailedAfterRetry",
   "UploadError", "Gone", "Absent"}

\* isTerminalState; no Upload counts as a finished one.
TerminalPhases ==
  {"Completed", "CleanupFailed", "Canceled", "UploadFailedAfterRetry",
   "Gone", "Absent"}

\* "refused": DeleteSnapshotRef returned an error, which Execute reports as a
\* DeleteSnapshot that could not be created.  "error": it ended up Failed.
PluginState == {"create", "status", "list", "watch", "done", "error", "refused"}

\* idle; updateDeleteSnapshotStatusPhase: reading and writing the object with
\* phase want; deleteSnapshot: looking for the Upload, cancelling it, deleting
\* the local snapshot, deleting the copy in the repository.
WorkerState == [pc : {"idle", "get", "put", "lookup", "cancel", "local", "remote"},
                want : DeleteSnapshotPhase]

At(pc) == [pc |-> pc, want |-> ""]

Update(phase) == [pc |-> "get", want |-> phase]

TypeOK ==
  /\ localMode \in BOOLEAN
  /\ request \in DeleteSnapshotPhase \cup {"Gone"}
  /\ fresh \subseteq {"plugin", "worker"}
  /\ plugin \in PluginState
  /\ worker \in WorkerState
  /\ upload \in Upload
  /\ FaultsOK

\* The snapshot that is to be deleted exists and, except in local mode, has an
\* Upload, which may be in any state by the time the deletion is requested.
Init ==
  /\ localMode \in BOOLEAN
  /\ request = "Gone"
  /\ fresh = {}
  /\ plugin = "create"
  /\ worker = At("idle")
  /\ upload = [phase |-> IF localMode THEN "Absent" ELSE "New",
               cancel |-> FALSE, local |-> TRUE, remote |-> FALSE,
               copied |-> FALSE, gaveUp |-> FALSE, asked |-> FALSE]
  /\ NoFaults

-----------------------------------------------------------------------------
(* The delete plugin *)

\* What Execute makes of the phase that WaitForDeleteSnapshotPhases returned.
Heard(phase) == IF phase = "Completed" THEN "done" ELSE "error"

\* The informer hears of every write once it has listed.
Notified(phase) ==
  IF plugin = "watch" /\ phase \in {"Completed", "Failed"} THEN Heard(phase)
  ELSE plugin

CreateDeleteSnapshot ==
  /\ plugin = "create"
  /\ \/ /\ request' = "" /\ fresh' = {"plugin"}
        /\ plugin' = "status"
        /\ UNCHANGED faults
     \/ /\ Fault("api")
        /\ plugin' = "refused"
        /\ UNCHANGED <<request, fresh>>
  /\ UNCHANGED <<localMode, worker, upload>>

\* DeleteSnapshotRef sets the phase to New with the copy that Create returned.
\* The backup driver may have written the same phase already: a conflict.
UpdateStatusNew ==
  /\ plugin = "status"
  /\ \/ /\ "plugin" \in fresh
        /\ request' = "New" /\ fresh' = {}
        /\ \/ plugin' = "list" /\ UNCHANGED faults
           \/ plugin' = "refused" /\ Fault("api")
     \/ /\ IF "plugin" \in fresh THEN Fault("api") ELSE UNCHANGED faults
        /\ plugin' = "refused"
        /\ UNCHANGED <<request, fresh>>
  /\ UNCHANGED <<localMode, worker, upload>>

\* The informer lists the DeleteSnapshots: AddFunc.  The object cannot have
\* been cleaned up: that happens 24 hours after its completion.
ListDeleteSnapshots ==
  /\ plugin = "list"
  /\ plugin' = IF request \in {"Completed", "Failed"} THEN Heard(request) ELSE "watch"
  /\ UNCHANGED <<localMode, request, fresh, worker, upload, faults>>

DeleteSnapshotRef == CreateDeleteSnapshot \/ UpdateStatusNew \/ ListDeleteSnapshots

-----------------------------------------------------------------------------
(* The backup driver's deleteSnapshotWorker *)

\* Mutant: a DeleteSnapshot without a phase is left to the plugin.
SyncDeleteSnapshotNewOnly ==
  /\ worker.pc = "idle"
  /\ request = "New"
  /\ worker' = At("lookup")
  /\ UNCHANGED <<localMode, request, fresh, plugin, upload, faults>>

\* syncDeleteSnapshotByKey: a DeleteSnapshot without a phase is made New first.
SyncDeleteSnapshotByKey ==
  /\ worker.pc = "idle"
  /\ \/ request = "" /\ worker' = Update("New")
     \/ request = "New" /\ worker' = At("lookup")
  /\ UNCHANGED <<localMode, request, fresh, plugin, upload, faults>>

\* syncDeleteSnapshotByKey: a Completed one is deleted after 24 hours.
CleanUpDeleteSnapshot ==
  /\ worker.pc = "idle"
  /\ request = "Completed"
  /\ plugin \in {"done", "error", "refused"}
  /\ request' = "Gone" /\ fresh' = {}
  /\ UNCHANGED <<localMode, plugin, worker, upload, faults>>

\* deleteSnapshot, step 0.  An error of the Get counts as no Upload.
LookUpUpload ==
  /\ worker.pc = "lookup"
  /\ \/ /\ worker' = At(IF upload.phase \in TerminalPhases THEN "local" ELSE "cancel")
        /\ UNCHANGED faults
     \/ Fault("api") /\ worker' = At("local")
  /\ UNCHANGED <<localMode, request, fresh, plugin, upload>>

\* An Upload under way is asked to stop, by a patch that is retried, and
\* nothing is deleted.
CancelUpload ==
  /\ worker.pc = "cancel"
  /\ \/ /\ upload.phase # "Gone"
        /\ upload' = [upload EXCEPT !.cancel = TRUE, !.asked = TRUE]
        /\ \/ worker' = Update("Completed") /\ UNCHANGED faults
           \/ worker' = Update("Failed") /\ Fault("api")
     \/ /\ IF upload.phase = "Gone" THEN UNCHANGED faults ELSE Fault("api")
        /\ worker' = Update("Failed")
        /\ UNCHANGED upload
  /\ UNCHANGED <<localMode, request, fresh, plugin>>

AfterLocal == IF localMode THEN Update("Completed") ELSE At("remote")

\* Mutant: the error of the deletion is not looked at.
DeleteLocalUnchecked ==
  /\ worker.pc = "local"
  /\ worker' = AfterLocal
  /\ \/ upload' = [upload EXCEPT !.local = FALSE] /\ UNCHANGED faults
     \/ Fault("vc") /\ UNCHANGED upload
  /\ UNCHANGED <<localMode, request, fresh, plugin>>

\* deleteSnapshot, step 1: pe.DeleteSnapshot, which is happy with a snapshot
\* that is not there.  A failed call may have been carried out.
DeleteLocal ==
  /\ worker.pc = "local"
  /\ \/ /\ upload' = [upload EXCEPT !.local = FALSE]
        /\ \/ worker' = AfterLocal /\ UNCHANGED faults
           \/ worker' = Update("Failed") /\ Fault("vc")
     \/ /\ Fault("vc")
        /\ worker' = Update("Failed")
        /\ UNCHANGED upload
  /\ UNCHANGED <<localMode, request, fresh, plugin>>

\* deleteSnapshot, step 2: DeleteRemoteSnapshotFromRepo.  Whether the
\* repository finds an entity that was never uploaded is up to it.
DeleteRemote ==
  /\ worker.pc = "remote"
  /\ \/ /\ upload' = [upload EXCEPT !.remote = FALSE]
        /\ \/ worker' = Update("Completed") /\ UNCHANGED faults
           \/ worker' = Update("Failed") /\ Fault("s3")
     \/ /\ IF upload.remote THEN Fault("s3") ELSE UNCHANGED faults
        /\ worker' = Update("Failed")
        /\ UNCHANGED upload
  /\ UNCHANGED <<localMode, request, fresh, plugin>>

\* DeleteRemoteSnapshotFromRepo only logs the error of a repository that cannot
\* be opened and uses the nil type manager: the backup driver panics.
PanicOnNilRepository ==
  /\ worker.pc = "remote"
  /\ Fault("repo")
  /\ worker' = At("idle")
  /\ fresh' = fresh \ {"worker"}
  /\ UNCHANGED <<localMode, request, plugin, upload>>

-----------------------------------------------------------------------------
(* updateDeleteSnapshotStatusPhase *)

\* After a successful call for New the deletion goes on.
Written == At(IF worker.want = "New" THEN "lookup" ELSE "idle")

\* The Get.  A phase that is already there is not written again.
GetLatest ==
  /\ worker.pc = "get"
  /\ \/ /\ request = worker.want
        /\ worker' = Written
        /\ UNCHANGED <<fresh, faults>>
     \/ /\ request \notin {worker.want, "Gone"}
        /\ worker' = [worker EXCEPT !.pc = "put"]
        /\ fresh' = fresh \cup {"worker"}
        /\ UNCHANGED faults
     \/ /\ Fault("api")
        /\ worker' = At("idle")
        /\ UNCHANGED fresh
  /\ UNCHANGED <<localMode, request, plugin, upload>>

\* The UpdateStatus: a conflict or an error ends the call, and the key goes
\* back to the queue.  A failed call may have been carried out.
UpdateStatus ==
  /\ worker.pc = "put"
  /\ \/ /\ "worker" \in fresh
        /\ request' = worker.want /\ fresh' = {}
        /\ plugin' = Notified(worker.want)
        /\ \/ worker' = Written /\ UNCHANGED faults
           \/ worker' = At("idle") /\ Fault("api")
     \/ /\ IF "worker" \in fresh THEN Fault("api") ELSE UNCHANGED faults
        /\ worker' = At("idle")
        /\ fresh' = fresh \ {"worker"}
        /\ UNCHANGED <<request, plugin>>
  /\ UNCHANGED <<localMode, upload>>

\* The backup driver's pod dies and is started again.
Crash ==
  /\ Fault("crash")
  /\ worker' = At("idle")
  /\ fresh' = fresh \ {"worker"}
  /\ UNCHANGED <<localMode, request, plugin, upload>>

-----------------------------------------------------------------------------
(* The data managers *)

U == INSTANCE UploadContract
       WITH phase <- upload.phase, cancel <- upload.cancel,
            local <- upload.local, remote <- upload.copied,
            gaveUp <- upload.gaveUp

\* What the data managers may make of the Upload and the local snapshot in one
\* step.  Only the delete worker asks for a cancellation.
Changes ==
  {[upload EXCEPT !.phase = p] : p \in UploadPhase}
  \cup {[upload EXCEPT !.phase = "Gone", !.cancel = FALSE],
        [upload EXCEPT !.local = FALSE], [upload EXCEPT !.gaveUp = TRUE]}

DataManagerStep ==
  /\ upload.phase # "Absent"
  /\ \/ upload' \in Changes \ {upload} /\ U!Next
     \/ upload' = [upload EXCEPT !.remote = TRUE, !.copied = TRUE] /\ U!Copy
  /\ UNCHANGED <<localMode, request, fresh, plugin, worker, faults>>

-----------------------------------------------------------------------------

\* The steps of syncDeleteSnapshotByKey for a request that is not yet answered.
DeleteSnapshot ==
  \/ SyncDeleteSnapshotByKey \/ LookUpUpload \/ CancelUpload \/ DeleteLocal
  \/ DeleteRemote \/ GetLatest \/ UpdateStatus

Next ==
  \/ DeleteSnapshotRef \/ DeleteSnapshot \/ CleanUpDeleteSnapshot
  \/ PanicOnNilRepository \/ Crash \/ DataManagerStep

Spec == Init /\ [][Next]_vars

\* The plugin and the delete worker run on; the data managers owe nothing.
FairSpec ==
  /\ Spec
  /\ WF_vars(DeleteSnapshotRef)
  /\ WF_vars(DeleteSnapshot)

-----------------------------------------------------------------------------
(* Properties *)

Deleted == ~upload.local /\ ~upload.remote

\* A deletion that Execute reports as done has deleted the local snapshot and
\* the copy in the repository for good, or has asked the Upload to stop: no
\* data manager brings the copy back later.
DeletedOrCancelled ==
  plugin = "done" => Deleted \/ upload.asked

\* A snapshot whose upload is under way is only deleted if a request failed:
\* otherwise deleteSnapshot would pull the data from under the data manager.
\* Once the upload is reported as failed for the time being, it is retried
\* from the local snapshot.
RetriedUploadKeepsData ==
  faults.count = 0 /\ upload.phase \in {"New", "UploadError"} /\ ~upload.gaveUp
    /\ ~upload.copied => upload.local

\* The driver comes to an end with every request that was recorded, also one
\* whose phase the plugin failed to set, and the plugin, which waits without a
\* timeout, hears of it, whoever of the two wrote New first.
DeleteSettles ==
  <>(/\ plugin \in {"done", "error", "refused"}
     /\ request \in {"Gone", "Completed", "Failed"})

=============================================================================
