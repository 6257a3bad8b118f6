-------------------------- MODULE SnapshotController --------------------------
(***************************************************************************)
(* One Snapshot custom resource, from the backup plugin that asks for it   *)
(* to the upload of its data:                                              *)
(*   - NewPVCBackupItemAction.Execute creates the Snapshot and waits for a *)
(*     phase (pkg/plugin, pkg/snapshotUtils/snapshot.go);                  *)
(*   - the backup driver's snapshotWorker takes the local snapshot, creates*)
(*     the Upload and writes the status (pkg/backupdriver,                 *)
(*     pkg/snapshotmgr);                                                   *)
(*   - the backup driver's uploadWorker mirrors the phases of the Uploads  *)
(*     into the Snapshot.                                                  *)
(* The data managers are represented by UploadContract, which              *)
(* UploadController implements: every step of an Upload is a step of the   *)
(* contract.                                                               *)
(*                                                                         *)
(* Both workers are fed by informers whose handlers and resync put the key *)
(* of every existing object into the queue again and again, so a worker    *)
(* may start on an object at any time and the queues hold no state that    *)
(* matters.  There is one worker of each kind (cmd.DefaultBackupWorkers).  *)
(***************************************************************************)
EXTENDS Naturals, Environment, FiniteSets

CONSTANTS
  SnapshotID,   \* BOUND: the local snapshots that a disk has room for
  None          \* no snapshot ID

ASSUME SnapshotAssumption ==
  /\ None \notin SnapshotID
  /\ IsFiniteSet(SnapshotID)

VARIABLES
  localMode, \* no backup repository: snapshots are not uploaded
  snapshot,  \* the Snapshot held by the API server
  fresh,     \* the clients whose copy of it has the current resourceVersion
  plugin,    \* the progress of NewPVCBackupItemAction.Execute
  worker,    \* the progress of the snapshotWorker and of the uploadWorker
  upload     \* the Upload of each local snapshot, and where its data is

vars == <<localMode, snapshot, fresh, plugin, worker, upload, faults>>

-----------------------------------------------------------------------------
(* Data *)

SnapshotPhase == {"", "New", "Snapshotted", "SnapshotFailed", "Uploading",
                  "Uploaded", "UploadFailed", "Canceling", "Canceled",
                  "CleanupAfterUploadFailed", "UploadFailedAfterRetry"}

\* "Gone" stands for an object that is not, or no longer, there.
Snapshot == [phase : SnapshotPhase \cup {"Gone"}, id : SnapshotID \cup {None}]

UploadPhase == {"New", "InProgress", "Completed", "UploadError",
                "CleanupFailed", "Canceling", "Canceled",
                "UploadFailedAfterRetry"}

\* "Absent": the Upload has not been created.
Upload == [phase : UploadPhase \cup {"Gone", "Absent"}, cancel : BOOLEAN,
           local : BOOLEAN, remote : BOOLEAN, gaveUp : BOOLEAN]

NoUpload == [phase |-> "Absent", cancel |-> FALSE, local |-> FALSE,
             remote |-> FALSE, gaveUp |-> FALSE]

\* Mutant: an upload that failed and will be retried counts as uploaded.
SnapshotPhaseOfErrorUploaded ==
  [InProgress |-> "Uploading", Completed |-> "Uploaded",
   Canceled |-> "Canceled", Canceling |-> "Canceling",
   UploadError |-> "Uploaded",
   CleanupFailed |-> "CleanupAfterUploadFailed",
   UploadFailedAfterRetry |-> "UploadFailedAfterRetry"]

\* Mutant: the end of an upload is not mirrored.
SnapshotPhaseOfNotCompleted ==
  [InProgress |-> "Uploading", Canceled |-> "Canceled",
   Canceling |-> "Canceling", UploadError |-> "UploadFailed",
   CleanupFailed |-> "CleanupAfterUploadFailed",
   UploadFailedAfterRetry |-> "UploadFailedAfterRetry"]

\* How an Upload's phase is mirrored; for the other phases nothing is done.
SnapshotPhaseOf ==
  [InProgress |-> "Uploading", Completed |-> "Uploaded",
   Canceled |-> "Canceled", Canceling |-> "Canceling",
   UploadError |-> "UploadFailed",
   CleanupFailed |-> "CleanupAfterUploadFailed",
   UploadFailedAfterRetry |-> "UploadFailedAfterRetry"]

\* Mutant: a snapshot that could not be taken is not waited for.
WaitForPhasesNotFailed ==
  {"Snapshotted", "Uploaded", "Uploading", "UploadFailed", "Canceling",
   "Canceled", "CleanupAfterUploadFailed"}

\* The phases the plugin waits for, and the ones that fail the backup.
WaitForPhases ==
  {"Snapshotted", "SnapshotFailed", "Uploaded", "Uploading", "UploadFailed",
   "Canceling", "Canceled", "CleanupAfterUploadFailed"}

ErrorPhases == {"SnapshotFailed", "UploadFailed", "Canceled"}

PluginState == [pc : {"create", "status", "list", "watch", "done", "error"},
                id : SnapshotID \cup {None}]

Plugin(pc) == [pc |-> pc, id |-> None]

\* The snapshotWorker ("create") and the uploadWorker ("mirror").
Worker == {"create", "mirror"}

\* idle; createSnapshot: taking the local snapshot, creating the Upload,
\* reading the metadata; updateSnapshotStatusPhase: reading the Snapshot,
\* writing it with phase want and, unless it is None, snapshot ID id.
WorkerState == [pc : {"idle", "take", "upload", "metadata", "get", "put"},
                want : SnapshotPhase, id : SnapshotID \cup {None}]

At(pc, id) == [pc |-> pc, want |-> "", id |-> id]

Update(phase, id) == [pc |-> "get", want |-> phase, id |-> id]

Idle == At("idle", None)

TypeOK ==
  /\ localMode \in BOOLEAN
  /\ snapshot \in Snapshot
  /\ fresh \subseteq Worker \cup {"plugin"}
  /\ plugin \in PluginState
  /\ worker \in [Worker -> WorkerState]
  /\ upload \in [SnapshotID -> Upload]
  /\ FaultsOK

Init ==
  /\ localMode \in BOOLEAN
  /\ snapshot = [phase |-> "Gone", id |-> None]
  /\ fresh = {}
  /\ plugin = Plugin("create")
  /\ worker = [w \in Worker |-> Idle]
  /\ upload = [i \in SnapshotID |-> NoUpload]
  /\ NoFaults

Goto(w, state) == worker' = [worker EXCEPT ![w] = state]


-----------------------------------------------------------------------------
(* The backup plugin *)

\* What the plugin makes of the Snapshot that WaitForPhases returned.
Heard(s) ==
  [pc |-> IF s.phase \in ErrorPhases THEN "error" ELSE "done",
   id |-> IF s.phase \in ErrorPhases THEN None ELSE s.id]

\* WaitForPhases hears of every write once its informer has listed; the first
\* awaited phase ends the wait.
Notified(s) ==
  IF plugin.pc = "watch" /\ s.phase \in WaitForPhases THEN Heard(s) ELSE plugin

\* UpdateStatus: accepted only with the current resourceVersion.
WriteSnapshot(s) ==
  /\ snapshot' = s
  /\ fresh' = {}

CreateSnapshotCR ==
  /\ plugin.pc = "create"
  /\ \/ /\ snapshot' = [phase |-> "", id |-> None]
        /\ fresh' = {"plugin"}
        /\ plugin' = Plugin("status")
        /\ UNCHANGED faults
     \/ /\ Fault("api")
        /\ plugin' = Plugin("error")
        /\ UNCHANGED <<snapshot, fresh>>
  /\ UNCHANGED <<localMode, worker, upload>>

\* The plugin sets the phase to New, with the copy that Create returned.  The
\* backup driver does not touch a Snapshot without a phase: no conflict.
UpdateStatusNew ==
  /\ plugin.pc = "status" /\ "plugin" \in fresh
  /\ \/ /\ WriteSnapshot([snapshot EXCEPT !.phase = "New"])
        /\ \/ plugin' = Plugin("list") /\ UNCHANGED faults
           \/ plugin' = Plugin("error") /\ Fault("api")
     \/ /\ Fault("api")
        /\ plugin' = Plugin("error")
        /\ UNCHANGED <<snapshot, fresh>>
  /\ UNCHANGED <<localMode, worker, upload>>

\* The informer of WaitForPhases lists the Snapshots: AddFunc.
ListSnapshots ==
  /\ plugin.pc = "list"
  /\ snapshot.phase # "Gone"
  /\ plugin' = IF snapshot.phase \in WaitForPhases THEN Heard(snapshot)
               ELSE Plugin("watch")
  /\ UNCHANGED <<localMode, snapshot, fresh, worker, upload, faults>>

-----------------------------------------------------------------------------
(* The backup driver's snapshotWorker *)

\* syncSnapshotByKey: a New snapshot is processed; nobody sets SnapshotCancel.
SyncSnapshotByKey ==
  /\ worker["create"].pc = "idle"
  /\ snapshot.phase = "New"
  /\ Goto("create", At("take", None))
  /\ UNCHANGED <<localMode, snapshot, fresh, plugin, upload, faults>>

\* syncSnapshotByKey: an Uploaded snapshot is deleted 24 hours after the phase
\* was set.  The plugin has returned long before.
CleanUpSnapshot ==
  /\ worker["create"].pc = "idle"
  /\ snapshot.phase = "Uploaded"
  /\ plugin.pc \in {"done", "error"}
  /\ snapshot' = [phase |-> "Gone", id |-> None]
  /\ fresh' = {}
  /\ UNCHANGED <<localMode, plugin, worker, upload, faults>>

\* A local snapshot gets any ID that is not in use; which one makes no
\* difference.
Unused == {i \in SnapshotID : upload[i] = NoUpload}

\* Mutant: the error of the astrolabe call is not looked at.
TakeSnapshotUnchecked ==
  /\ worker["create"].pc = "take"
  /\ \E i \in SnapshotID :
       /\ upload[i] = NoUpload
       /\ Goto("create", At("metadata", i))
       /\ \/ /\ upload' = [upload EXCEPT ![i].local = TRUE]
             /\ UNCHANGED faults
          \/ Fault("vc") /\ UNCHANGED upload
  /\ UNCHANGED <<localMode, snapshot, fresh, plugin>>

\* SnapshotManager.createSnapshot, step 1.  Errors about the current state are
\* retried for an hour, the others fail the snapshot.  So does a disk that has
\* no room for another snapshot.
TakeSnapshot ==
  /\ worker["create"].pc = "take"
  /\ \/ /\ Unused # {}
        /\ LET i == CHOOSE j \in Unused : TRUE
           IN /\ upload' = [upload EXCEPT ![i].local = TRUE]
              /\ Goto("create", At(IF localMode THEN "metadata" ELSE "upload", i))
        /\ UNCHANGED faults
     \/ /\ IF Unused = {} THEN UNCHANGED faults ELSE Fault("vc")
        /\ Goto("create", Update("SnapshotFailed", None))
        /\ UNCHANGED upload
  /\ UNCHANGED <<localMode, snapshot, fresh, plugin>>

\* The Upload that UploadSnapshot creates for a local snapshot.
Created(u) == [u EXCEPT !.phase = "New"]

\* UploadSnapshot.  The poll around Create returns its error, which ends the
\* poll: the first error fails the snapshot.  The object may exist all the same.
UploadSnapshot ==
  /\ worker["create"].pc = "upload"
  /\ LET i == worker["create"].id IN
     \/ /\ upload' = [upload EXCEPT ![i] = Created(@)]
        /\ Goto("create", At("metadata", i))
        /\ UNCHANGED faults
     \/ /\ Fault("api")
        /\ \/ UNCHANGED upload
           \/ upload' = [upload EXCEPT ![i] = Created(@)]
        /\ Goto("create", Update("SnapshotFailed", None))
  /\ UNCHANGED <<localMode, snapshot, fresh, plugin>>

\* createSnapshot reads the metadata of what was snapshotted.  If it cannot,
\* the snapshot is failed, with its ID and with the Upload under way.
GetMetadata ==
  /\ worker["create"].pc = "metadata"
  /\ LET i == worker["create"].id IN
     \/ Goto("create", Update("Snapshotted", i)) /\ UNCHANGED faults
     \/ Goto("create", Update("SnapshotFailed", i)) /\ Fault("vc")
  /\ UNCHANGED <<localMode, snapshot, fresh, plugin, upload>>

-----------------------------------------------------------------------------
(* The backup driver's uploadWorker *)

\* syncUploadByKey: reads the Upload, then sees to its Snapshot.
SyncUploadByKey(i) ==
  /\ worker["mirror"].pc = "idle"
  /\ upload[i].phase \in DOMAIN SnapshotPhaseOf
  /\ snapshot.phase # "Gone"
  /\ Goto("mirror", Update(SnapshotPhaseOf[upload[i].phase], None))
  /\ UNCHANGED <<localMode, snapshot, fresh, plugin, upload, faults>>


-----------------------------------------------------------------------------
(* updateSnapshotStatusPhase, called by both workers *)

\* The Get.  A phase that is already there is not written again.
GetLatest(w) ==
  /\ worker[w].pc = "get"
  /\ \/ /\ snapshot.phase \in {worker[w].want, "Gone"}
        /\ Goto(w, Idle)
        /\ UNCHANGED <<fresh, faults>>
     \/ /\ snapshot.phase \notin {worker[w].want, "Gone"}
        /\ Goto(w, [worker[w] EXCEPT !.pc = "put"])
        /\ fresh' = fresh \cup {w}
        /\ UNCHANGED faults
     \/ /\ Fault("api")
        /\ Goto(w, Idle)
        /\ UNCHANGED fresh
  /\ UNCHANGED <<localMode, snapshot, plugin, upload>>

Updated(w) == [phase |-> worker[w].want,
               id |-> IF worker[w].id = None THEN snapshot.id ELSE worker[w].id]

\* Mutant: the status is written without a resourceVersion, from the caller's
\* fields alone.
UpdateStatusBlindly(w) ==
  /\ worker[w].pc = "put"
  /\ Goto(w, Idle)
  /\ snapshot.phase # "Gone"
  /\ WriteSnapshot([phase |-> worker[w].want, id |-> worker[w].id])
  /\ plugin' = Notified([phase |-> worker[w].want, id |-> worker[w].id])
  /\ UNCHANGED <<localMode, upload, faults>>

\* The UpdateStatus: a conflict or an error ends the call with an error, and
\* the key goes back to the queue.  A failed call may have been carried out.
UpdateStatus(w) ==
  /\ worker[w].pc = "put"
  /\ Goto(w, Idle)
  /\ \/ /\ w \in fresh
        /\ WriteSnapshot(Updated(w))
        /\ plugin' = Notified(Updated(w))
        /\ UNCHANGED faults \/ Fault("api")
     \/ /\ IF w \in fresh THEN Fault("api") ELSE UNCHANGED faults
        /\ fresh' = fresh \ {w}
        /\ UNCHANGED <<snapshot, plugin>>
  /\ UNCHANGED <<localMode, upload>>

-----------------------------------------------------------------------------
(* The rest of the world *)

\* The contract of the data managers for the Upload of local snapshot i.
U(i) == INSTANCE UploadContract
          WITH phase <- upload[i].phase, cancel <- upload[i].cancel,
               local <- upload[i].local, remote <- upload[i].remote,
               gaveUp <- upload[i].gaveUp

\* A step of the data managers for the Upload of local snapshot i.  Giving up
\* on an upload takes them many retries with growing delays: that it happens
\* before the plugin has returned counts as a fault, "early".
DataManagerStep(i) ==
  LET u == upload[i]
      Becomes(v) == upload' = [upload EXCEPT ![i] = v]
  IN
  /\ u.phase # "Absent"
  /\ \/ /\ \/ \E p \in UploadPhase \ {u.phase} :
                Becomes([u EXCEPT !.phase = p]) /\ U(i)!Report(p)
           \/ ~u.remote /\ Becomes([u EXCEPT !.remote = TRUE]) /\ U(i)!Copy
           \/ u.local /\ Becomes([u EXCEPT !.local = FALSE]) /\ U(i)!DropLocal
           \/ Becomes([u EXCEPT !.phase = "Gone"]) /\ U(i)!Remove
        /\ UNCHANGED faults
     \/ /\ ~u.gaveUp /\ Becomes([u EXCEPT !.gaveUp = TRUE]) /\ U(i)!GiveUp
        /\ IF plugin.pc \in {"done", "error"} THEN UNCHANGED faults ELSE Fault("early")
  /\ UNCHANGED <<localMode, snapshot, fresh, plugin, worker>>

\* The backup driver's pod dies and is started again.
Crash ==
  /\ Fault("crash")
  /\ worker' = [w \in Worker |-> Idle]
  /\ fresh' = fresh \ Worker
  /\ UNCHANGED <<localMode, snapshot, plugin, upload>>

-----------------------------------------------------------------------------

\* The backup plugin's steps.
SnapshotRef == CreateSnapshotCR \/ UpdateStatusNew \/ ListSnapshots

\* The steps of createSnapshot and of the worker that calls it.
CreateSnapshot ==
  \/ SyncSnapshotByKey \/ TakeSnapshot \/ UploadSnapshot \/ GetMetadata
  \/ GetLatest("create") \/ UpdateStatus("create")

Mirror(i) == SyncUploadByKey(i) \/ GetLatest("mirror") \/ UpdateStatus("mirror")

Next ==
  \/ SnapshotRef \/ CreateSnapshot \/ CleanUpSnapshot \/ Crash
  \/ \E i \in SnapshotID : Mirror(i) \/ DataManagerStep(i)

Spec == Init /\ [][Next]_vars

\* The plugin and the backup driver's workers run on, and resync brings every
\* Upload to the uploadWorker again.  The data managers owe nothing.
FairSpec ==
  /\ Spec
  /\ WF_vars(SnapshotRef)
  /\ WF_vars(CreateSnapshot)
  /\ \A i \in SnapshotID : WF_vars(Mirror(i))


-----------------------------------------------------------------------------
(* Properties *)

\* The snapshot ID that a successful backup records (the annotation of the
\* PVC) is one whose data exists: in the local snapshot, in the repository, or
\* the data managers gave up on it later on.
BackupHasData ==
  plugin.pc = "done" /\ plugin.id # None =>
    LET u == upload[plugin.id] IN u.local \/ u.remote \/ u.gaveUp

\* A backup that uploads its data and succeeds has recorded a snapshot ID.  No
\* fault is needed to violate this: the uploadWorker may be faster than
\* createSnapshot's update, which writes the ID.
BackupHasID ==
  ~localMode /\ plugin.pc = "done" => plugin.id # None

\* As long as the calls to the API server are answered and the driver lives, an
\* Uploaded Snapshot with an ID names data that is in the repository, if the
\* data managers did not give up on it.  The ID is written by one worker and
\* the phase by the other.
UploadedIsProtected ==
  ~Happened("api") /\ ~Happened("crash")
    /\ snapshot.phase = "Uploaded" /\ snapshot.id # None =>
    LET u == upload[snapshot.id] IN u.remote \/ u.gaveUp

\* The snapshot ID, once recorded, is never lost or replaced, in spite of two
\* workers that write the status.
IDIsKept ==
  [][snapshot.id # None => snapshot'.id = snapshot.id \/ snapshot'.phase = "Gone"]_vars

\* The plugin, which waits without a timeout, is told about the outcome, unless
\* the data managers gave up early: UploadFailedAfterRetry is none of the phases
\* it waits for.
BackupReturns == <>(plugin.pc \in {"done", "error"} \/ Happened("early"))

\* A finished upload ends up in the Snapshot, even if createSnapshot's write
\* of Snapshotted comes later than the uploadWorker's; unless a fault made the
\* driver take several local snapshots.
CompletionIsMirrored ==
  \A i \in SnapshotID :
    <>[](upload[i].phase = "Completed" /\ Unused = SnapshotID \ {i}) =>
      <>[](snapshot.phase \in {"Uploaded", "Gone"})

=============================================================================
