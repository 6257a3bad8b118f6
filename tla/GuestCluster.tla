----------------------------- MODULE GuestCluster -----------------------------
(***************************************************************************)
(* The backup driver of a Tanzu Kubernetes guest cluster.  It has no disks *)
(* of its own: the para-virtual protected entities (pkg/paravirt) hand     *)
(* every request on to the backup driver of the supervisor cluster, by     *)
(* creating there a Snapshot, a CloneFromSnapshot or a DeleteSnapshot and  *)
(* waiting for its end.  The progress of the uploads, which happen in the  *)
(* supervisor cluster, is mirrored back (pkg/backupdriver,                 *)
(* svcSnapshotWorker) through a map from the supervisor's Snapshots to the *)
(* guest's, which is kept in memory only.                                  *)
(*                                                                         *)
(* One Snapshot of the guest cluster is followed, with one restore from it *)
(* or one deletion of it.  The supervisor's backup driver is the one of   *)
(* the modules SnapshotController, CloneController and                     *)
(* DeleteSnapshotController: here only what it shows to the guest cluster  *)
(* is kept.  Its names (of snapshots, of clones) are numbers.              *)
(***************************************************************************)
EXTENDS Environment, Sequences, FiniteSets, FiniteSetsExt

CONSTANTS
  MaxSvc,       \* BOUND: objects of a kind created in the supervisor cluster
  None          \* no name, no ID

ASSUME GuestAssumption == MaxSvc \in Nat \ {0} /\ None \notin Nat

SvcName == 1..MaxSvc

VARIABLES
  localMode,      \* no backup repository: snapshots are not uploaded
  request,        \* what is asked for later on: a restore or a deletion
  snapshot,       \* the guest's Snapshot: phase, snapshot ID, SvcSnapshotName
  fresh,          \* the workers whose copy of it has the current version
  worker,         \* the snapshotWorker ("create"), svcSnapshotWorker ("mirror")
  svcSnapshotMap, \* the supervisor's Snapshots known to be this guest's
  svc,            \* the supervisor's Snapshots, with their Uploads and data
  clone,          \* the phase of the guest's CloneFromSnapshot
  restore,        \* the guest's cloneFromSnapshotWorker
  svcClone,       \* the supervisor's CloneFromSnapshots, with their new PVCs
  claim,          \* the guest's PVC: its volumeName
  delete,         \* the guest's DeleteSnapshot and its worker
  svcDelete       \* the supervisor's DeleteSnapshot of the last attempt (an
                  \* earlier one, of the same ID, makes no difference)

snapshotVars == <<snapshot, fresh, worker, svcSnapshotMap>>
restoreVars == <<clone, restore, svcClone, claim>>
deleteVars == <<delete, svcDelete>>
vars == <<localMode, request, snapshotVars, svc, restoreVars, deleteVars,
          faults>>

-----------------------------------------------------------------------------
(* Snapshot IDs *)

(***************************************************************************)
(* A protected entity ID with a snapshot is "type:name:snapshot ID", where *)
(* the snapshot ID of an entity that has a component is the ID of the      *)
(* component's snapshot, in base 64, and so on inwards down to the ivd.    *)
(* Such an ID is the sequence of its entities, outermost first; what       *)
(* GetSnapshotID returns is its tail, and encoding an ID into the snapshot *)
(* ID of another entity puts that entity in front.                         *)
(***************************************************************************)
Entity(type, name) == [type |-> type, name |-> name]

GetSnapshotID(id) == Tail(id)

\* Mutant: the decoding stops one entity short of the last.
DecodeSnapshotIDOnce(encoded) == encoded

\* decodeSnapshotID: one entity after the other is decoded, up to an ivd or
\* to one without a snapshot.
DecodeSnapshotID(encoded) ==
  LET ends == {i \in DOMAIN encoded : encoded[i].type = "ivd" \/ i = Len(encoded)}
  IN SubSeq(encoded, Min(ends), Len(encoded))

\* What the supervisor reports as the ID of its Snapshot n, the n-th snapshot of
\* the ivd behind the supervisor's PVC.
SvcSnapshotID(n) == <<Entity("pvc", "svc-pvc"), Entity("ivd", n)>>

\* The ID in the guest: astrolabe's PVC entity puts the PVC and its component,
\* the para-virtual PV, before the snapshot ID that ParaVirt's Snapshot returns.
GuestSnapshotID(n) ==
  <<Entity("pvc", "guest-pvc"), Entity("paravirt-pv", "pv")>>
    \o GetSnapshotID(SvcSnapshotID(n))

\* convertSnapshotID: what a guest ID is called in the supervisor cluster, for
\* the PVC that is to be created there.
ConvertSnapshotID(id, svcPVC) ==
  <<Entity("pvc", svcPVC)>> \o DecodeSnapshotID(GetSnapshotID(id))

\* DeleteSnapshot of the para-virtual PV, the component of the guest's PVC.
ReconstructedID(id) ==
  <<Entity("pvc", "pv")>> \o GetSnapshotID(GetSnapshotID(id))

\* decodePeIdFromSnapshotID in the supervisor: the entity that is restored or
\* deleted.
Target(id) == DecodeSnapshotID(GetSnapshotID(id))[1]

-----------------------------------------------------------------------------
(* Data *)

\* The supervisor's Snapshot, the phase of its Upload, whether createSnapshot
\* has written its outcome, and where the data is.
NoSvc == [phase |-> "Absent", up |-> "Absent", told |-> FALSE,
          cancel |-> FALSE, local |-> FALSE, remote |-> FALSE]

\* SnapshotController!SnapshotPhaseOf, for the phases that matter here.
SvcPhaseOf ==
  [InProgress |-> "Uploading", Completed |-> "Uploaded",
   UploadError |-> "UploadFailed", Canceled |-> "Canceled",
   UploadFailedAfterRetry |-> "UploadFailedAfterRetry"]

\* isTerminalState, for an Upload that may be missing.
TerminalUploads == {"Absent", "Completed", "Canceled", "UploadFailedAfterRetry"}

\* Mutant: the end of an upload is not mirrored.
MirroredNotUploaded == {"Uploading", "Canceled", "UploadFailed", "SnapshotFailed"}

\* The phases that syncSvcSnapshotByKey copies (Canceling and
\* CleanupAfterUploadFailed, treated alike, are left out).
Mirrored ==
  {"Uploading", "Uploaded", "Canceled", "UploadFailed", "SnapshotFailed"}

\* Mutant: a snapshot that could not be taken is not waited for.
WaitForPhasesNotFailed == {"Snapshotted"}

\* The phases that ParaVirtProtectedEntity.Snapshot waits for.
WaitForPhases == {"Snapshotted", "SnapshotFailed"}

\* A worker of the guest's Snapshot: in createSnapshot, busy with the
\* supervisor's Snapshot n; or updating the status to phase want, with the
\* fields of n unless it is None.
At(pc, n) == [pc |-> pc, n |-> n, want |-> ""]
Update(phase, n) == [pc |-> "get", n |-> n, want |-> phase]
Idle == At("idle", None)

\* The restore: idle, its key queued, or busy with the supervisor's clone n and
\* with a guest PV named after it (None: a PV without a name).
Restoring(pc, n, volume) == [pc |-> pc, n |-> n, volume |-> volume]
NotRestoring == Restoring("idle", None, None)

\* What the variables hold.
SvcSnapshot ==
  [phase : {"Absent", "", "New", "Snapshotted", "SnapshotFailed", "Uploading",
            "Uploaded", "UploadFailed", "Canceled", "UploadFailedAfterRetry", "Gone"},
   up : {"Absent"} \cup DOMAIN SvcPhaseOf, told : BOOLEAN,
   cancel : BOOLEAN, local : BOOLEAN, remote : BOOLEAN]

GuestSnapshot ==
  [phase : {"New", "Snapshotted", "Gone"} \cup Mirrored,
   id : {None} \cup {GuestSnapshotID(n) : n \in SvcName}, svc : SvcName \cup {None}]

WorkerState ==
  [pc : {"idle", "repository", "create", "status", "list", "watch", "metadata",
         "get", "put"},
   n : SvcName \cup {None}, want : {"", "Snapshotted"} \cup Mirrored]

RestoreState ==
  [pc : {"idle", "queued", "create", "wait", "pv", "pvc", "bind", "update", "fail"},
   n : SvcName \cup {None}, volume : SvcName \cup {None}]

SvcClone ==
  [phase : {"Absent", "New", "Completed", "Failed"},
   id : {<<>>} \cup {ConvertSnapshotID(GuestSnapshotID(n), m) : n, m \in SvcName},
   data : BOOLEAN]

TypeOK ==
  /\ localMode \in BOOLEAN /\ request \in {"restore", "delete"}
  /\ snapshot \in GuestSnapshot
  /\ fresh \subseteq {"create", "mirror"}
  /\ worker \in [{"create", "mirror"} -> WorkerState]
  /\ svcSnapshotMap \subseteq SvcName
  /\ svc \in [SvcName -> SvcSnapshot]
  /\ clone \in {"Absent", "New", "Completed", "Failed"}
  /\ restore \in RestoreState
  /\ svcClone \in [SvcName -> SvcClone]
  /\ claim \in [exists : BOOLEAN, volume : SvcName \cup {None}]
  /\ delete \in [phase : {"Absent", "New", "Completed", "Failed"},
                 pc : {"idle", "wait", "Completed", "Failed"}]
  /\ svcDelete \in [phase : {"Absent", "New", "Completed", "Failed"},
                    id : {<<>>} \cup {ReconstructedID(GuestSnapshotID(n)) : n \in SvcName}]
  /\ FaultsOK

Least(S) == IF S = {} THEN None ELSE Min(S)

\* The next name of the supervisor's Snapshots and of its clones, if the bound
\* allows.
NewSvc == Least({n \in SvcName : svc[n] = NoSvc})
NewClone == Least({n \in SvcName : svcClone[n].phase = "Absent"})

Init ==
  /\ localMode \in BOOLEAN /\ request \in {"restore", "delete"}
  /\ snapshot = [phase |-> "New", id |-> None, svc |-> None]
  /\ fresh = {}
  /\ worker = [w \in {"create", "mirror"} |-> Idle]
  /\ svcSnapshotMap = {}
  /\ svc = [n \in SvcName |-> NoSvc]
  /\ clone = "Absent" /\ restore = NotRestoring
  /\ svcClone = [n \in SvcName |-> [phase |-> "Absent", id |-> <<>>, data |-> FALSE]]
  /\ claim = [exists |-> FALSE, volume |-> None]
  /\ delete = [phase |-> "Absent", pc |-> "idle"]
  /\ svcDelete = [phase |-> "Absent", id |-> <<>>]
  /\ NoFaults

-----------------------------------------------------------------------------
(* createSnapshot in the guest cluster *)

Goto(w, state) == worker' = [worker EXCEPT ![w] = state]

\* syncSnapshotByKey.  A Snapshot that is in the supervisor cluster enters the
\* map; a New one is processed.  Resync brings its key to the worker again and
\* again.
SyncSnapshotByKey ==
  /\ worker["create"].pc = "idle"
  /\ \/ snapshot.phase = "New" /\ Goto("create", At("repository", None))
     \/ /\ snapshot.phase \notin {"New", "Gone"}
        /\ snapshot.svc \notin svcSnapshotMap
        /\ UNCHANGED worker
  /\ svcSnapshotMap' = svcSnapshotMap \cup ({snapshot.svc} \ {None})
  /\ UNCHANGED <<localMode, request, snapshot, fresh, svc, restoreVars,
                 deleteVars, faults>>

\* syncSnapshotByKey deletes an Uploaded Snapshot 24 hours later; DeleteFunc
\* calls delSnapshot.
CleanUpSnapshot ==
  /\ worker["create"].pc = "idle" /\ snapshot.phase = "Uploaded"
  /\ snapshot' = [snapshot EXCEPT !.phase = "Gone"]
  /\ fresh' = {}
  /\ UNCHANGED <<localMode, request, worker, svcSnapshotMap, svc,
                 restoreVars, deleteVars, faults>>

DelSnapshot ==
  /\ snapshot.phase = "Gone"
  /\ snapshot.svc \in svcSnapshotMap
  /\ svcSnapshotMap' = svcSnapshotMap \ {snapshot.svc}
  /\ UNCHANGED <<localMode, request, snapshot, fresh, worker, svc,
                 restoreVars, deleteVars, faults>>

\* The guest's BackupRepository is read, for the supervisor's name of it, and
\* then the PV, for the supervisor's name of the PVC.
GetNames ==
  /\ worker["create"].pc = "repository"
  /\ \/ Goto("create", At("create", None)) /\ UNCHANGED faults
     \/ Goto("create", Update("SnapshotFailed", None)) /\ Fault("api")
  /\ UNCHANGED <<localMode, request, snapshot, fresh, svcSnapshotMap, svc,
                 restoreVars, deleteVars>>

\* A call that writes the phase of the supervisor's Snapshot n.  A failed one may
\* have been carried out.
WriteSvc(n, phase, next) ==
  /\ \/ /\ svc' = [svc EXCEPT ![n].phase = phase]
        /\ \/ Goto("create", At(next, n)) /\ UNCHANGED faults
           \/ Goto("create", Update("SnapshotFailed", None)) /\ Fault("api")
     \/ /\ Goto("create", Update("SnapshotFailed", None)) /\ Fault("api")
        /\ UNCHANGED svc
  /\ UNCHANGED <<localMode, request, snapshot, fresh, svcSnapshotMap,
                 restoreVars, deleteVars>>

\* SnapshotRef creates the Snapshot in the supervisor cluster, and sets its
\* phase to New: a Snapshot without a phase is not processed there.
CreateSvcSnapshot ==
  /\ worker["create"].pc = "create"
  /\ NewSvc # None
  /\ WriteSvc(NewSvc, "", "status")

UpdateSvcStatusNew ==
  /\ worker["create"].pc = "status"
  /\ WriteSvc(worker["create"].n, "New", "list")

\* What Snapshot makes of the phase it has waited for.
Heard(phase, n) ==
  IF phase = "Snapshotted" THEN At("metadata", n) ELSE Update("SnapshotFailed", None)

\* The informer of WaitForPhases lists the supervisor's Snapshots.
ListSvcSnapshots ==
  /\ worker["create"].pc = "list"
  /\ LET n == worker["create"].n IN
     Goto("create", IF svc[n].phase \in WaitForPhases THEN Heard(svc[n].phase, n)
                    ELSE At("watch", n))
  /\ UNCHANGED <<localMode, request, snapshot, fresh, svcSnapshotMap, svc,
                 restoreVars, deleteVars, faults>>

\* The metadata of the guest's PVC.  If it cannot be read, the Snapshot is
\* failed, but gets its ID and its SvcSnapshotName.
GetMetadata ==
  /\ worker["create"].pc = "metadata"
  /\ LET n == worker["create"].n IN
     \/ Goto("create", Update("Snapshotted", n)) /\ UNCHANGED faults
     \/ Goto("create", Update("SnapshotFailed", n)) /\ Fault("api")
  /\ UNCHANGED <<localMode, request, snapshot, fresh, svcSnapshotMap, svc,
                 restoreVars, deleteVars>>

-----------------------------------------------------------------------------
(* The mirroring of the supervisor's Snapshots *)

\* Mutant: the map is not looked at, every Snapshot of the namespace counts.
SyncAnySvcSnapshotByKey(n) ==
  /\ worker["mirror"].pc = "idle"
  /\ svc[n].phase \in Mirrored
  /\ snapshot.phase # "Gone"
  /\ Goto("mirror", Update(svc[n].phase, None))
  /\ UNCHANGED <<localMode, request, snapshot, fresh, svcSnapshotMap, svc,
                 restoreVars, deleteVars, faults>>

\* updateSvcSnapshot queues the key of a Snapshot that is in the map, at every
\* update and resync; syncSvcSnapshotByKey reads both Snapshots.
SyncSvcSnapshotByKey(n) ==
  /\ worker["mirror"].pc = "idle"
  /\ n \in svcSnapshotMap
  /\ svc[n].phase \in Mirrored
  /\ snapshot.phase # "Gone"
  /\ Goto("mirror", Update(svc[n].phase, None))
  /\ UNCHANGED <<localMode, request, snapshot, fresh, svcSnapshotMap, svc,
                 restoreVars, deleteVars, faults>>

\* updateSnapshotStatusPhase, the Get.
GetLatest(w) ==
  /\ worker[w].pc = "get"
  /\ \/ /\ snapshot.phase \in {worker[w].want, "Gone"}
        /\ Goto(w, Idle)
        /\ UNCHANGED <<fresh, faults>>
     \/ /\ snapshot.phase \notin {worker[w].want, "Gone"}
        /\ Goto(w, [worker[w] EXCEPT !.pc = "put"])
        /\ fresh' = fresh \cup {w}
        /\ UNCHANGED faults
     \/ /\ Fault("api")
        /\ Goto(w, Idle)
        /\ UNCHANGED fresh
  /\ UNCHANGED <<localMode, request, snapshot, svcSnapshotMap, svc,
                 restoreVars, deleteVars>>

Updated(w) ==
  [phase |-> worker[w].want,
   id |-> IF worker[w].n = None THEN snapshot.id ELSE GuestSnapshotID(worker[w].n),
   svc |-> IF worker[w].n = None THEN snapshot.svc ELSE worker[w].n]

\* updateSnapshotStatusPhase, the UpdateStatus: a conflict or an error ends the
\* call, and the key goes back to the queue.
UpdateStatus(w) ==
  /\ worker[w].pc = "put"
  /\ Goto(w, Idle)
  /\ \/ /\ w \in fresh
        /\ snapshot' = Updated(w) /\ fresh' = {}
        /\ UNCHANGED faults \/ Fault("api")
     \/ /\ IF w \in fresh THEN Fault("api") ELSE UNCHANGED faults
        /\ fresh' = fresh \ {w}
        /\ UNCHANGED snapshot
  /\ UNCHANGED <<localMode, request, svcSnapshotMap, svc, restoreVars,
                 deleteVars>>

-----------------------------------------------------------------------------
(* The guest's CloneFromSnapshot *)

\* A restore is requested, with the snapshot ID of the backup.
RequestRestore ==
  /\ request = "restore"
  /\ clone = "Absent" /\ snapshot.id # None
  /\ clone' = "New" /\ restore' = Restoring("queued", None, None)
  /\ UNCHANGED <<localMode, request, snapshotVars, svc, svcClone, claim,
                 deleteVars, faults>>

\* syncCloneFromSnapshotByKey: a clone that Failed is restored once more.
SyncCloneFromSnapshotByKey ==
  /\ restore.pc = "queued"
  /\ restore' = IF clone = "Completed" THEN NotRestoring
                ELSE Restoring("create", None, None)
  /\ UNCHANGED <<localMode, request, snapshotVars, svc, clone, svcClone,
                 claim, deleteVars, faults>>

RestoreStep(next) ==
  /\ restore' = next
  /\ UNCHANGED <<localMode, request, snapshotVars, svc, clone, deleteVars>>

RestoreFails == Restoring("fail", None, None)

\* CreateFromMetadata, up to the creation of the supervisor's clone, with the
\* converted ID and a PVC named after the clone.
CreateSvcClone ==
  /\ restore.pc = "create" /\ NewClone # None
  /\ \/ /\ svcClone' = [svcClone EXCEPT ![NewClone] =
             [phase |-> "New", id |-> ConvertSnapshotID(snapshot.id, NewClone),
              data |-> FALSE]]
        /\ \/ RestoreStep(Restoring("wait", NewClone, None)) /\ UNCHANGED faults
           \/ RestoreStep(RestoreFails) /\ Fault("api")
     \/ RestoreStep(RestoreFails) /\ Fault("api") /\ UNCHANGED svcClone
  /\ UNCHANGED claim

\* The wait has ended; a fresh copy of the supervisor's PVC is read.
SvcCloneAnswered ==
  /\ restore.pc = "wait"
  /\ \/ /\ svcClone[restore.n].phase = "Completed"
        /\ \/ RestoreStep([restore EXCEPT !.pc = "pv"]) /\ UNCHANGED faults
           \/ RestoreStep(RestoreFails) /\ Fault("api")
     \/ /\ svcClone[restore.n].phase = "Failed"
        /\ RestoreStep(RestoreFails) /\ UNCHANGED faults
  /\ UNCHANGED <<svcClone, claim>>

\* createGuestPV: the PV points to the supervisor's PVC.  Of an error only
\* AlreadyExists is looked at; with any other the PV has no name, and the
\* restore goes on.
CreateGuestPV ==
  /\ restore.pc = "pv"
  /\ \/ RestoreStep(Restoring("pvc", restore.n, restore.n)) /\ UNCHANGED faults
     \/ RestoreStep(Restoring("pvc", restore.n, None)) /\ Fault("pv")
  /\ UNCHANGED <<svcClone, claim>>

\* Mutant: the PVC is created without the name of the PV.
CreateGuestPVCUnnamed ==
  /\ restore.pc = "pvc"
  /\ RestoreStep([restore EXCEPT !.pc = "bind"])
  /\ claim' = IF claim.exists THEN claim ELSE [exists |-> TRUE, volume |-> None]
  /\ UNCHANGED <<svcClone, faults>>

\* createGuestPVC: a PVC that exists is used, and all other errors are dropped.
CreateGuestPVC ==
  /\ restore.pc = "pvc"
  /\ RestoreStep([restore EXCEPT !.pc = "bind"])
  /\ \/ /\ claim' = IF claim.exists THEN claim
                    ELSE [exists |-> TRUE, volume |-> restore.volume]
        /\ UNCHANGED faults
     \/ Fault("api") /\ UNCHANGED claim
  /\ UNCHANGED svcClone

\* WaitForPersistentVolumeClaimPhase.  Kubernetes binds a PVC to the PV it
\* names; a PVC that names none gets a new volume of the default StorageClass,
\* if there is one.
WaitForBound ==
  /\ restore.pc = "bind"
  /\ \/ claim.exists /\ RestoreStep([restore EXCEPT !.pc = "update"])
     \/ claim.volume = None /\ RestoreStep(RestoreFails)
  /\ UNCHANGED <<svcClone, claim, faults>>

\* updateGuestCloneFromSnapshotStatusWithSupervisor.  A failed call may have
\* been carried out.
UpdateGuestClone ==
  /\ restore.pc = "update"
  /\ \/ clone' = "Completed" /\ restore' = NotRestoring /\ UNCHANGED faults
     \/ /\ clone' \in {"Completed", clone}
        /\ restore' = RestoreFails
        /\ Fault("api")
  /\ UNCHANGED <<localMode, request, snapshotVars, svc, svcClone, claim,
                 deleteVars>>

\* cloneFromSnapshot fails the clone, and the key goes back to the queue.
FailClone ==
  /\ restore.pc = "fail"
  /\ \/ clone' = "Failed" /\ UNCHANGED faults
     \/ UNCHANGED clone /\ Fault("api")
  /\ restore' = Restoring("queued", None, None)
  /\ UNCHANGED <<localMode, request, snapshotVars, svc, svcClone, claim,
                 deleteVars>>

-----------------------------------------------------------------------------
(* The guest's DeleteSnapshot *)

DeleteStep(next) ==
  /\ delete' = next
  /\ UNCHANGED <<localMode, request, snapshotVars, restoreVars>>

\* A deletion is requested, with the snapshot ID of the backup.
RequestDelete ==
  /\ request = "delete"
  /\ delete.phase = "Absent" /\ snapshot.id # None
  /\ DeleteStep([phase |-> "New", pc |-> "idle"])
  /\ UNCHANGED <<svc, svcDelete, faults>>

\* syncDeleteSnapshotByKey and deleteSnapshot, up to the creation of the
\* supervisor's DeleteSnapshot by the para-virtual entity.  Any error fails the
\* guest's DeleteSnapshot.
CreateSvcDelete ==
  /\ delete.phase = "New" /\ delete.pc = "idle"
  /\ \/ /\ svcDelete' = [phase |-> "New", id |-> ReconstructedID(snapshot.id)]
        /\ DeleteStep([delete EXCEPT !.pc = "wait"])
        /\ UNCHANGED faults
     \/ /\ Fault("api")
        /\ DeleteStep([delete EXCEPT !.pc = "Failed"])
        /\ UNCHANGED svcDelete
  /\ UNCHANGED svc

\* Mutant: the answer is not waited for.
SvcDeleteNotAwaited ==
  /\ delete.pc = "wait"
  /\ DeleteStep([delete EXCEPT !.pc = "Completed"])
  /\ UNCHANGED <<svc, svcDelete, faults>>

\* The wait for Completed or Failed has ended.  ParaVirt's DeleteSnapshot makes
\* no difference between the two.
SvcDeleteAnswered ==
  /\ delete.pc = "wait"
  /\ svcDelete.phase \in {"Completed", "Failed"}
  /\ DeleteStep([delete EXCEPT !.pc = "Completed"])
  /\ UNCHANGED <<svc, svcDelete, faults>>

\* updateDeleteSnapshotStatusPhase.  After an error the key goes back to the
\* queue, and a DeleteSnapshot that is still New is processed again.
UpdateGuestDelete ==
  /\ delete.pc \in {"Completed", "Failed"}
  /\ \/ DeleteStep([phase |-> delete.pc, pc |-> "idle"]) /\ UNCHANGED faults
     \/ DeleteStep([delete EXCEPT !.pc = "idle"]) /\ Fault("api")
  /\ UNCHANGED <<svc, svcDelete>>

-----------------------------------------------------------------------------
(* The guest's backup driver dies, and is started again *)

\* Its memory is lost.  The informers list all objects: a clone is queued again.
DriverRestarts ==
  /\ worker' = [w \in DOMAIN worker |-> Idle]
  /\ fresh' = {}
  /\ svcSnapshotMap' = {}
  /\ restore' = IF clone = "Absent" THEN NotRestoring
                ELSE Restoring("queued", None, None)
  /\ delete' = [delete EXCEPT !.pc = "idle"]

\* The concurrent accesses to the Go map, which no lock protects, may end the
\* process too.
Crash ==
  /\ Fault("crash")
  /\ DriverRestarts
  /\ UNCHANGED <<localMode, request, snapshot, svc, clone, svcClone, claim,
                 svcDelete>>

-----------------------------------------------------------------------------
(* The supervisor cluster *)

SvcUnchanged ==
  UNCHANGED <<localMode, request, snapshot, fresh, svcSnapshotMap,
              restoreVars, deleteVars>>

\* createSnapshot takes the local snapshot and creates the Upload.
SvcTake(n) ==
  /\ svc[n].phase = "New" /\ ~svc[n].told
  /\ ~svc[n].local /\ svc[n].up = "Absent"
  /\ svc' = [svc EXCEPT ![n].local = TRUE,
                        ![n].up = IF localMode THEN "Absent" ELSE "InProgress"]
  /\ UNCHANGED <<worker, faults>> /\ SvcUnchanged

\* It writes the outcome, whatever the uploadWorker has made of the phase.  The
\* guest's worker hears of it if its informer has listed.
SvcTell(n) ==
  /\ svc[n].phase \notin {"Absent", ""} /\ ~svc[n].told
  /\ \E p \in {"Snapshotted", "SnapshotFailed"} :
       /\ p = "Snapshotted" => svc[n].local \/ svc[n].up # "Absent"
       /\ IF p = "Snapshotted" THEN UNCHANGED faults ELSE Fault("svc")
       /\ svc' = [svc EXCEPT ![n].phase = p, ![n].told = TRUE]
       /\ IF worker["create"] = At("watch", n) THEN Goto("create", Heard(p, n))
          ELSE UNCHANGED worker
  /\ SvcUnchanged

\* The data managers: retries, giving up and cancellation.  UploadController
\* shows that the phases after which nothing changes are final.
SvcUpload(n) ==
  /\ \/ /\ svc[n].up = "InProgress"
        /\ \/ svc' = [svc EXCEPT ![n].up = "Completed", ![n].remote = TRUE,
                                 ![n].local = FALSE]
           \/ svc' = [svc EXCEPT ![n].up = "UploadError"]
     \/ /\ svc[n].up = "UploadError"
        /\ \/ svc' = [svc EXCEPT ![n].up = "InProgress"]
           \/ svc' = [svc EXCEPT ![n].up = "UploadFailedAfterRetry",
                                 ![n].local = FALSE]
     \/ /\ svc[n].up \in {"InProgress", "UploadError"} /\ svc[n].cancel
        /\ svc' = [svc EXCEPT ![n].up = "Canceled"]
  /\ UNCHANGED <<worker, faults>> /\ SvcUnchanged

\* The supervisor's uploadWorker.  That it replaces an outcome before the guest's
\* informer has listed counts as a fault, "late".
SvcMirror(n) ==
  /\ svc[n].up # "Absent"
  /\ svc[n].phase \notin {"Gone", SvcPhaseOf[svc[n].up]}
  /\ svc' = [svc EXCEPT ![n].phase = SvcPhaseOf[svc[n].up]]
  /\ IF svc[n].told /\ worker["create"] = At("list", n) THEN Fault("late")
     ELSE UNCHANGED faults
  /\ UNCHANGED worker /\ SvcUnchanged

\* An Uploaded Snapshot is deleted 24 hours later.  The deletion makes the wait
\* of the guest's worker, if it is still waiting, convert a nil to a Snapshot,
\* which ends the process.  That anything else in the guest has not caught up
\* with the Snapshot after 24 hours counts as a fault, "early".
SvcCleanUp(n) ==
  /\ svc[n].phase = "Uploaded" /\ svc[n].told
  /\ svc' = [svc EXCEPT ![n].phase = "Gone"]
  /\ \/ /\ worker["create"] = At("watch", n)
        /\ DriverRestarts
        /\ UNCHANGED <<snapshot, clone, svcClone, claim, svcDelete, faults>>
     \/ /\ worker["create"] # At("watch", n)
        /\ IF n \in {worker["create"].n, snapshot.svc}
              /\ snapshot.phase \notin {"Uploaded", "Gone"}
             THEN Fault("early") ELSE UNCHANGED faults
        /\ UNCHANGED <<snapshotVars, restoreVars, deleteVars>>
  /\ UNCHANGED <<localMode, request>>

\* The supervisor's clone is made from the copy in the repository
\* (CloneController); the IDs of other kinds of entities fail.
SvcCloneEnds(n) ==
  LET t == Target(svcClone[n].id)
      found == t.type = "ivd" /\ svc[t.name].remote
  IN /\ svcClone[n].phase = "New"
     /\ \/ /\ found
           /\ svcClone' = [svcClone EXCEPT ![n].phase = "Completed", ![n].data = TRUE]
           /\ UNCHANGED faults
        \/ /\ IF found THEN Fault("svc") ELSE UNCHANGED faults
           /\ svcClone' = [svcClone EXCEPT ![n].phase = "Failed"]
     /\ UNCHANGED <<localMode, request, snapshotVars, svc, clone, restore,
                    claim, deleteVars>>

\* The supervisor's deletion (DeleteSnapshotController): an Upload under way is
\* asked to stop, otherwise both copies are deleted.
SvcDeleteEnds ==
  LET t == Target(svcDelete.id)
      n == t.name
  IN /\ svcDelete.phase = "New"
     /\ \/ /\ t.type = "ivd"
           /\ svcDelete' = [svcDelete EXCEPT !.phase = "Completed"]
           /\ svc' = IF svc[n].up \in TerminalUploads
                       THEN [svc EXCEPT ![n].local = FALSE, ![n].remote = FALSE]
                       ELSE [svc EXCEPT ![n].cancel = TRUE]
           /\ UNCHANGED faults
        \/ /\ IF t.type = "ivd" THEN Fault("svc") ELSE UNCHANGED faults
           /\ svcDelete' = [svcDelete EXCEPT !.phase = "Failed"]
           /\ UNCHANGED svc
     /\ UNCHANGED <<localMode, request, snapshotVars, restoreVars, delete>>

-----------------------------------------------------------------------------

\* The steps of the guest's createSnapshot and of its worker.
CreateSnapshot ==
  \/ SyncSnapshotByKey \/ GetNames \/ CreateSvcSnapshot \/ UpdateSvcStatusNew
  \/ ListSvcSnapshots \/ GetMetadata
  \/ GetLatest("create") \/ UpdateStatus("create")

Mirror(n) ==
  SyncSvcSnapshotByKey(n) \/ GetLatest("mirror") \/ UpdateStatus("mirror")

CloneFromSnapshot ==
  \/ SyncCloneFromSnapshotByKey \/ CreateSvcClone \/ SvcCloneAnswered
  \/ CreateGuestPV \/ CreateGuestPVC \/ WaitForBound \/ UpdateGuestClone
  \/ FailClone

DeleteSnapshot == CreateSvcDelete \/ SvcDeleteAnswered \/ UpdateGuestDelete

Supervisor(n) ==
  SvcTake(n) \/ SvcTell(n) \/ SvcUpload(n) \/ SvcMirror(n) \/ SvcCleanUp(n)

Next ==
  \/ CreateSnapshot \/ CleanUpSnapshot \/ DelSnapshot \/ Crash
  \/ RequestRestore \/ CloneFromSnapshot
  \/ RequestDelete \/ DeleteSnapshot \/ SvcDeleteEnds
  \/ \E n \in SvcName : Mirror(n) \/ Supervisor(n) \/ SvcCloneEnds(n)

Spec == Init /\ [][Next]_vars

\* The guest's workers run on, resync brings every Snapshot of the map to the
\* svcSnapshotWorker, and the supervisor answers a snapshot request: the module
\* SnapshotController shows that it does.  Uploads may take forever.
FairSpec ==
  /\ Spec
  /\ WF_vars(CreateSnapshot)
  /\ \A n \in SvcName : WF_vars(Mirror(n)) /\ WF_vars(SvcTake(n) \/ SvcTell(n))

-----------------------------------------------------------------------------
(* Properties *)

\* The snapshot ID that the guest's Snapshot gets, an ID inside an ID inside an
\* ID, means the supervisor's snapshot it was made from, both to the
\* supervisor's restore and to its deletion, and that snapshot was taken.
IDNamesSnapshot ==
  snapshot.id # None =>
    /\ snapshot.svc \in SvcName /\ svc[snapshot.svc].told
    /\ Target(ReconstructedID(snapshot.id)) = Entity("ivd", snapshot.svc)
    /\ Target(ConvertSnapshotID(snapshot.id, 0)) = Entity("ivd", snapshot.svc)

\* A guest's Snapshot is Uploaded only if the upload of the very snapshot it
\* names has completed in the supervisor cluster, in spite of the supervisor's
\* Snapshots that earlier attempts left behind.
UploadedInGuest ==
  snapshot.phase = "Uploaded" =>
    snapshot.svc \in SvcName /\ svc[snapshot.svc].up = "Completed"

\* A completed restore has bound the guest's PVC to the supervisor's volume that
\* holds the data of the snapshot.  This is lost when the creation of the PV
\* fails (its error is dropped): the PVC may get an empty volume instead.
RestoredInGuest ==
  clone = "Completed" /\ ~Happened("pv") =>
    /\ claim.volume \in SvcName
    /\ svcClone[claim.volume].data
    /\ Target(svcClone[claim.volume].id) = Entity("ivd", snapshot.svc)

\* A completed deletion has deleted the data in the supervisor cluster, or has
\* asked the upload to stop.  This is lost when the supervisor's deletion fails:
\* the guest reports Completed all the same.
DeletedInGuest ==
  delete.phase = "Completed" /\ ~Happened("svc") =>
    LET s == svc[snapshot.svc] IN s.cancel \/ (~s.local /\ ~s.remote)

\* The guest's snapshotWorker, the only one, which waits without a timeout, gets
\* its answer, unless its informer lists after the supervisor has gone on to the
\* phases of the upload.
SnapshotAnswered == <>(snapshot.phase # "New" \/ Happened("late"))

\* The guest's Snapshot ends up with the phase of the supervisor's, also after a
\* restart has emptied the map; unless the supervisor deleted it early, or gave
\* up on the upload (UploadFailedAfterRetry is not among the mirrored phases).
GuestCatchesUp ==
  \A n \in SvcName :
    <>[](snapshot.svc = n /\ svc[n].phase \in {"Uploaded", "Canceled"}) =>
      <>[](snapshot.phase \in {svc[n].phase, "Gone"})
=============================================================================
