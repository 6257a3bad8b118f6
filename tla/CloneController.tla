--------------------------- MODULE CloneController ----------------------------
(***************************************************************************)
(* One item of a restore, and its CloneFromSnapshot custom resource:       *)
(* NewPVCRestoreItemAction looks at the item (RestoreItemAction), creates  *)
(* the resource and waits for its end (pkg/plugin, pkg/snapshotUtils), the *)
(* backup driver's cloneFromSnapshotWorker restores the volume             *)
(* (pkg/backupdriver, pkg/snapshotmgr).                                    *)
(*                                                                         *)
(* Unlike the Snapshots, the clones have no UpdateFunc: a key enters the   *)
(* queue when the informer first sees the object (also after a restart of  *)
(* the driver) and when a call failed, and never because of a resync.      *)
(***************************************************************************)
EXTENDS Environment, RestoreItemAction

VARIABLES
  item,     \* the item of the backup, and what the Restore says of it
  listing,  \* what the block list says of its resource
  request,  \* the PVC in the metadata of the clone: its namespace and class
  clone,    \* the CloneFromSnapshot held by the API server
  fresh,    \* the clients whose copy of it has the current resourceVersion
  plugin,   \* the progress of NewPVCRestoreItemAction.Execute
  up,       \* the backup driver is running
  queued,   \* the key is in the queue, waiting or delayed
  worker,   \* the progress of the cloneFromSnapshotWorker
  pvcs      \* the PVC of the item's name in each namespace

driverVars == <<up, queued, worker>>
inputVars == <<item, listing, request>>
vars == <<item, listing, request, clone, fresh, plugin, up, queued, worker, pvcs,
          faults>>

-----------------------------------------------------------------------------
(* Data *)

\* The phases that are ever written.  "Gone" stands for an object that is not,
\* or no longer, there.
Clone == [phase : {"", "New", "Completed", "Failed", "Gone"},
          stamped : BOOLEAN]    \* CompletionTimestamp is set

\* Mutant: a request whose phase has not been set yet is not processed.
ProcessedNotUnset == {"New", "Failed"}

\* syncCloneFromSnapshotByKey skips Canceled and looks at Completed; the empty
\* cases of its switch fall out of the switch and are cloned: InProgress,
\* Canceling (never written) and Failed.
Processed == {"", "New", "Failed"}

\* The phases the plugin waits for.
WaitForPhases == {"Completed", "Failed"}

\* AppliesTo and Execute, then the request of the clone; how it ended: with the
\* PVC restored, an error, or an item for Velero: as it was, as a PVC, a pod
\* without some annotations, or none.
PluginState == {"select", "execute", "create", "status", "list", "watch",
                "stampCompleted", "stampFailed", "done", "error",
                "item", "pvc", "trimmed", "skipped"}

Returned == {"done", "error", "item", "pvc", "trimmed", "skipped"}

\* A PVC: none, one that the restore has made or somebody else's; the data of
\* its volume.
Pvc == [of : {"none", "restore", "other"}, data : {"own", "partial", "restored"}]

\* idle; the restore itself; the status update: reading the clone, writing it
\* with phase want.
WorkerState == [pc : {"idle", "start", "copy", "get", "put"},
                want : {"", "Completed", "Failed"}]

At(pc) == [pc |-> pc, want |-> ""]

Update(phase) == [pc |-> "get", want |-> phase]

TypeOK ==
  /\ item \in Item /\ listing \in Listing
  /\ request \in [namespace : Namespace, class : Class, repository : BOOLEAN]
  /\ clone \in Clone
  /\ fresh \subseteq {"plugin", "driver"}
  /\ plugin \in PluginState
  /\ up \in BOOLEAN /\ queued \in BOOLEAN
  /\ worker \in WorkerState
  /\ pvcs \in [Namespace -> Pvc]
  /\ FaultsOK

\* A restore is about to begin.  A PVC of the item's name may be there.
Init ==
  /\ item \in {i \in Item : Plain(i)}
  /\ listing \in IF item.kind \in {"SecurityPolicy", "Gateway"} THEN Listing ELSE {"absent", "true"}
  /\ request = [namespace |-> "backedUp", class |-> "", repository |-> FALSE]
  /\ clone = [phase |-> "Gone", stamped |-> FALSE]
  /\ fresh = {}
  /\ plugin = "select"
  /\ up = TRUE /\ queued = FALSE
  /\ worker = At("idle")
  /\ pvcs \in [Namespace -> [of : {"none", "other"}, data : {"own"}]]
  /\ NoFaults

-----------------------------------------------------------------------------
(* The restore plugin *)

\* Velero asks the plugin which items it wants; the others it restores itself.
SelectItem ==
  /\ plugin = "select"
  /\ \/ /\ plugin' = IF AppliesTo(item, listing) THEN "execute" ELSE "item"
        /\ UNCHANGED faults
     \/ Fault("api") /\ plugin' = "error"
  /\ UNCHANGED <<inputVars, clone, fresh, pvcs, driverVars>>

\* The namespaces in which there is a PVC of the item's name.
Existing == {n \in Namespace : pvcs[n].of # "none"}

\* Mutant: the PVC is looked for in the namespace of the backup.
ExecuteItemUnmapped ==
  /\ plugin = "execute"
  /\ plugin' = Execute(item, listing,
                       {n \in Namespace : "backedUp" \in Existing /\ n = TargetNamespace(item)})
  /\ request' = [namespace |-> TargetNamespace(item), class |-> "immediate", repository |-> TRUE]
  /\ UNCHANGED <<item, listing, clone, fresh, pvcs, faults, driverVars>>

\* Execute up to the request of the clone, for which the repository has been
\* claimed (BackupRepositoryClaims) unless in local mode.  An item that is no
\* PVC may not have the shape of one, and any call may fail.
ExecuteItem ==
  /\ plugin = "execute"
  /\ LET does == Execute(item, listing, Existing) IN
     \/ /\ plugin' = does
        /\ request' = IF does = "create"
                      THEN [namespace |-> TargetNamespace(item),
                            class |-> NewStorageClass(item), repository |-> ~item.localMode]
                      ELSE request
        /\ UNCHANGED faults
     \/ /\ IF does = "pvc" /\ item.kind # "PersistentVolumeClaim"
          THEN UNCHANGED faults ELSE Fault("api")
        /\ plugin' = "error"
        /\ UNCHANGED request
  /\ UNCHANGED <<item, listing, clone, fresh, pvcs, driverVars>>

\* What WaitForClonePhases returned; the plugin stamps its copy next.
Heard(c) == IF c.phase = "Completed" THEN "stampCompleted" ELSE "stampFailed"

\* WaitForClonePhases hears of every write once its informer has listed; the
\* copy it is given is then the current one.
WriteClone(client, c) ==
  LET heard == client # "plugin" /\ plugin = "watch" /\ c.phase \in WaitForPhases
  IN /\ clone' = c
     /\ fresh' = IF heard THEN {"plugin"} ELSE {}
     /\ client # "plugin" => plugin' = IF heard THEN Heard(c) ELSE plugin

\* CloneFromSnapshopRef creates the object; the driver's AddFunc queues it.
CreateClone ==
  /\ plugin = "create"
  /\ \/ /\ clone' = [clone EXCEPT !.phase = ""]
        /\ fresh' = {"plugin"}
        /\ plugin' = "status"
        /\ queued' = up
        /\ UNCHANGED faults
     \/ /\ Fault("api")
        /\ plugin' = "error"
        /\ UNCHANGED <<clone, fresh, queued>>
  /\ UNCHANGED <<inputVars, up, worker, pvcs>>

\* It sets the phase to New, with the copy that Create returned.  The driver
\* may have been faster.
UpdateStatusNew ==
  /\ plugin = "status"
  /\ \/ /\ "plugin" \in fresh
        /\ WriteClone("plugin", [clone EXCEPT !.phase = "New"])
        /\ \/ plugin' = "list" /\ UNCHANGED faults
           \/ plugin' = "error" /\ Fault("api")
     \/ /\ IF "plugin" \in fresh THEN Fault("api") ELSE UNCHANGED faults
        /\ plugin' = "error"
        /\ UNCHANGED <<clone, fresh>>
  /\ UNCHANGED <<inputVars, pvcs, driverVars>>

\* The informer of WaitForClonePhases lists the clones: AddFunc.
ListClones ==
  /\ plugin = "list"
  /\ IF clone.phase \in WaitForPhases
       THEN plugin' = Heard(clone) /\ fresh' = fresh \cup {"plugin"}
       ELSE plugin' = "watch" /\ UNCHANGED fresh
  /\ UNCHANGED <<inputVars, clone, pvcs, faults, driverVars>>

\* CloneFromSnapshopRef sets CompletionTimestamp in the copy it was given, and
\* Execute looks at the copy's phase.
StampClone ==
  /\ plugin \in {"stampCompleted", "stampFailed"}
  /\ \/ /\ "plugin" \in fresh
        /\ WriteClone("plugin", [clone EXCEPT !.stamped = TRUE])
        /\ \/ /\ plugin' = IF plugin = "stampCompleted" THEN "done" ELSE "error"
              /\ UNCHANGED faults
           \/ plugin' = "error" /\ Fault("api")
     \/ /\ IF "plugin" \in fresh THEN Fault("api") ELSE UNCHANGED faults
        /\ plugin' = "error"
        /\ UNCHANGED <<clone, fresh>>
  /\ UNCHANGED <<inputVars, pvcs, driverVars>>

\* Velero's server, in which the plugin runs, is restarted.
VeleroRestarts ==
  /\ plugin \notin Returned
  /\ Fault("velero")
  /\ plugin' = "error"
  /\ fresh' = fresh \ {"plugin"}
  /\ UNCHANGED <<inputVars, clone, pvcs, driverVars>>

-----------------------------------------------------------------------------
(* The backup driver's cloneFromSnapshotWorker *)

\* syncCloneFromSnapshotByKey, up to the call of cloneFromSnapshot.
SyncCloneFromSnapshotByKey ==
  /\ up /\ queued /\ worker.pc = "idle"
  /\ clone.phase \in Processed
  /\ queued' = FALSE
  /\ worker' = At("start")
  /\ UNCHANGED <<inputVars, clone, fresh, plugin, up, pvcs, faults>>

\* Nothing to do: deleted, or Completed less than 24 hours ago.
SkipClone ==
  /\ up /\ queued /\ worker.pc = "idle"
  /\ clone.phase \notin Processed
  /\ clone.phase = "Completed" => clone.stamped
  /\ queued' = FALSE
  /\ UNCHANGED <<inputVars, clone, fresh, plugin, up, worker, pvcs, faults>>

\* A Completed clone is deleted 24 hours after its CompletionTimestamp.
CleanUpClone ==
  /\ up /\ queued /\ worker.pc = "idle"
  /\ clone.phase = "Completed" /\ clone.stamped
  /\ plugin \in Returned
  /\ queued' = FALSE
  /\ clone' = [phase |-> "Gone", stamped |-> FALSE]
  /\ fresh' = {}
  /\ UNCHANGED <<inputVars, plugin, up, worker, pvcs, faults>>

\* A Completed clone without CompletionTimestamp: nil is dereferenced, which
\* ends the process.
PanicOnNilTimestamp ==
  /\ up /\ queued /\ worker.pc = "idle"
  /\ clone.phase = "Completed" /\ ~clone.stamped
  /\ up' = FALSE /\ queued' = FALSE
  /\ fresh' = fresh \ {"driver"}
  /\ UNCHANGED <<inputVars, clone, plugin, worker, pvcs, faults>>

\* What becomes of the data of the PVC that is restored.
WriteVolume(data) ==
  pvcs' = [pvcs EXCEPT ![request.namespace] =
             [of |-> IF @.of = "other" THEN "other" ELSE "restore", data |-> data]]

\* cloneFromSnapshot checks the metadata, CreateVolumeFromSnapshotWithMetadata
\* that there is a repository, then astrolabe creates the PVC and has its
\* volume overwritten.  A PVC that is there already, left by an earlier
\* attempt, say, is an error or is overwritten.
StartClone ==
  /\ worker.pc = "start"
  /\ \/ /\ request.class # "" /\ request.repository
        /\ worker' = At("copy")
        /\ WriteVolume("partial")
     \/ /\ request.class = "" \/ ~request.repository \/ request.namespace \in Existing
        /\ worker' = Update("Failed")
        /\ UNCHANGED pvcs
  /\ UNCHANGED <<inputVars, clone, fresh, plugin, up, queued, faults>>

\* Mutant: a failed copy is taken for a good one.
CopyEndsUnchecked ==
  /\ worker.pc = "copy"
  /\ worker' = Update("Completed")
  /\ \/ WriteVolume("restored") /\ UNCHANGED faults
     \/ Fault("copy") /\ UNCHANGED pvcs
  /\ UNCHANGED <<inputVars, clone, fresh, plugin, up, queued>>

\* CreateVolumeFromSnapshot: the Download (module DownloadController) has
\* ended.  That the plugin's second call takes longer than the copy counts as
\* a fault, "slow".
CopyEnds ==
  /\ worker.pc = "copy"
  /\ \/ /\ IF plugin = "status" THEN Fault("slow") ELSE UNCHANGED faults
        /\ WriteVolume("restored")
        /\ worker' = Update("Completed")
     \/ /\ Fault("copy")
        /\ worker' = Update("Failed")
        /\ UNCHANGED pvcs
  /\ UNCHANGED <<inputVars, clone, fresh, plugin, up, queued>>

\* After an error cloneFromSnapshot writes Failed; then the key goes back to
\* the queue, whether that worked or not.
AfterError ==
  IF worker.want = "Completed"
    THEN worker' = Update("Failed") /\ UNCHANGED queued
    ELSE worker' = At("idle") /\ queued' = TRUE

\* CreateVolumeFromSnapshot reads the clone to complete it, and
\* updateCloneFromSnapshotStatusPhase to fail it, unless it is Failed already.
GetClone ==
  /\ worker.pc = "get"
  /\ \/ /\ clone.phase # "Failed" \/ worker.want = "Completed"
        /\ worker' = [worker EXCEPT !.pc = "put"]
        /\ fresh' = fresh \cup {"driver"}
        /\ UNCHANGED <<queued, faults>>
     \/ /\ IF clone.phase = "Failed" /\ worker.want = "Failed"
             THEN UNCHANGED faults ELSE Fault("api")
        /\ AfterError
        /\ UNCHANGED fresh
  /\ UNCHANGED <<inputVars, clone, plugin, up, pvcs>>

\* The UpdateStatus of either.  Only the plugin stamps a clone completed this
\* way.  A failed call may have been carried out.
UpdateStatus ==
  /\ worker.pc = "put"
  /\ \/ /\ "driver" \in fresh
        /\ WriteClone("driver", [clone EXCEPT !.phase = worker.want])
        /\ \/ /\ worker.want = "Completed"
              /\ worker' = At("idle")
              /\ UNCHANGED <<queued, faults>>
           \/ /\ worker.want = "Failed"
              /\ AfterError
              /\ UNCHANGED faults
           \/ AfterError /\ Fault("api")
     \/ /\ IF "driver" \in fresh THEN Fault("api") ELSE UNCHANGED faults
        /\ AfterError
        /\ fresh' = fresh \ {"driver"}
        /\ UNCHANGED <<clone, plugin>>
  /\ UNCHANGED <<inputVars, up, pvcs>>

\* The driver's pod dies.
Crash ==
  /\ up
  /\ Fault("crash")
  /\ up' = FALSE /\ queued' = FALSE
  /\ worker' = At("idle")
  /\ fresh' = fresh \ {"driver"}
  /\ UNCHANGED <<inputVars, clone, plugin, pvcs>>

\* It is started again, and its informer lists the clones: AddFunc.
Restart ==
  /\ ~up
  /\ up' = TRUE
  /\ queued' = (clone.phase # "Gone")
  /\ UNCHANGED <<inputVars, clone, fresh, plugin, worker, pvcs, faults>>

-----------------------------------------------------------------------------
(* The rest of the world *)

\* The block list is edited.
EditBlockList ==
  /\ Fault("edit")
  /\ listing' \in {"absent", "false", "true"} \ {listing}
  /\ plugin = "execute"
  /\ UNCHANGED <<item, request, clone, fresh, plugin, pvcs, driverVars>>

\* Somebody creates a PVC where the restore has found none.
OtherCreatesPvc ==
  /\ plugin \in {"create", "status", "list", "watch"}
  /\ request.namespace \notin Existing
  /\ Fault("race")
  /\ pvcs' = [pvcs EXCEPT ![request.namespace] = [of |-> "other", data |-> "own"]]
  /\ UNCHANGED <<inputVars, clone, fresh, plugin, driverVars>>

-----------------------------------------------------------------------------

\* The restore plugin's steps.
CloneFromSnapshopRef ==
  \/ SelectItem \/ ExecuteItem
  \/ CreateClone \/ UpdateStatusNew \/ ListClones \/ StampClone

\* The steps of the cloneFromSnapshotWorker.
CloneFromSnapshot ==
  \/ SyncCloneFromSnapshotByKey \/ SkipClone \/ PanicOnNilTimestamp
  \/ StartClone \/ CopyEnds \/ GetClone \/ UpdateStatus

Next ==
  \/ CloneFromSnapshopRef \/ CloneFromSnapshot \/ CleanUpClone
  \/ VeleroRestarts \/ Crash \/ Restart \/ EditBlockList \/ OtherCreatesPvc

Spec == Init /\ [][Next]_vars

\* The plugin and the worker run on, a copy ends (DownloadController), and a
\* dead driver is started again by its deployment.
FairSpec ==
  /\ Spec
  /\ WF_vars(CloneFromSnapshopRef)
  /\ WF_vars(CloneFromSnapshot)
  /\ WF_vars(Restart)

-----------------------------------------------------------------------------
(* Properties *)

\* As long as every call to the API server is answered, a restore that Velero
\* was told succeeded has its data, in a PVC of the namespace that the Restore
\* maps to, and nothing writes to the volume any more: the driver does not
\* restore a second time what the plugin has seen Completed, whatever copies
\* fail and processes die.
RestoreHasData ==
  ~Happened("api") /\ plugin = "done" =>
    pvcs[IF item.namespaceMapping THEN "mapped" ELSE "backedUp"].data = "restored"

\* A restore never writes to a PVC that is not its own, in whatever namespace,
\* unless that PVC was created after Execute had looked for it (SkipPVCCreation):
\* the driver does not look again.
OthersKept ==
  \A n \in Namespace : pvcs[n].of = "other" /\ pvcs[n].data # "own" => Happened("race")

\* Only a PersistentVolumeClaim is turned into one: an item of another kind that
\* reaches the conversion in Execute has been taken off the block list since
\* AppliesTo read it, is on it with the value false, or has a plural that
\* UnstructuredToCRDName does not know (the Gateways of the default list).
OnlyClaimsConverted ==
  plugin = "pvc" /\ item.kind # "PersistentVolumeClaim" =>
    Happened("edit") \/ listing = "false" \/ item.kind = "Gateway"

\* The restore plugin, which waits without a timeout, returns, in spite of a
\* driver that crashes, or panics and is started again.
RestoreReturns == <>(plugin \in Returned)

=============================================================================
