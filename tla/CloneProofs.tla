------------------------------ MODULE CloneProofs -----------------------------
(***************************************************************************)
(* Proofs about CloneController, for any kinds and number of faults, and   *)
(* for every item that Velero may hand over.                               *)
(***************************************************************************)
EXTENDS CloneController, TLAPS

-----------------------------------------------------------------------------
(* Types *)

\* A fault is counted and remembered.
LEMMA FaultType ==
  ASSUME FaultsOK, NEW kind, Fault(kind)
  PROVE  FaultsOK' /\ Happened(kind)' /\ faults.kinds \subseteq faults'.kinds
BY DEF FaultsOK, Fault, Happened

\* Execute ends in one of the plugin's states, and asks for a clone only in a
\* storage class of the cluster.
LEMMA ExecuteType ==
  ASSUME NEW i, NEW l, NEW e
  PROVE  /\ Execute(i, l, e) \in {"create", "error", "item", "pvc", "trimmed", "skipped"}
         /\ Execute(i, l, e) = "create" => NewStorageClass(i) \in StorageClasses /\ TargetNamespace(i) \notin e
         /\ Execute(i, l, e) = "pvc" => ~Blocked(i, l)
<1>1. WhenBlocked(i) \in {"trimmed", "item", "skipped", "error"}
  BY DEF WhenBlocked
<1>2. CASE Blocked(i, l)
  BY <1>1, <1>2 DEF Execute
<1>3. CASE ~Blocked(i, l)
  BY <1>3 DEF Execute, HandedBack, ValidateRestoreStorageClass
<1> QED
  BY <1>2, <1>3

\* What a write leaves in the clone.
LEMMA CloneFields ==
  ASSUME TypeOK
  PROVE  /\ \A p \in {"", "New", "Completed", "Failed"} :
              [clone EXCEPT !.phase = p] \in Clone /\ [clone EXCEPT !.phase = p].phase = p
         /\ [clone EXCEPT !.stamped = TRUE] \in Clone /\ [clone EXCEPT !.stamped = TRUE].phase = clone.phase
BY DEF TypeOK, Clone

\* The worker's states.
LEMMA WorkerFields ==
  /\ \A pc : At(pc).pc = pc /\ At(pc).want = ""
  /\ \A p : Update(p).pc = "get" /\ Update(p).want = p
  /\ \A pc \in {"idle", "start", "copy"} : At(pc) \in WorkerState
  /\ \A p \in {"Completed", "Failed"} : Update(p) \in WorkerState
BY DEF At, Update, WorkerState

\* Writing to the volume concerns the PVC of the request alone, and does not
\* change whose it is if it is somebody else's.
LEMMA WriteVolumeFields ==
  ASSUME TypeOK, NEW data \in {"partial", "restored"}, WriteVolume(data)
  PROVE  /\ pvcs' \in [Namespace -> Pvc]
         /\ \A n \in Namespace : n # request.namespace => pvcs'[n] = pvcs[n]
         /\ pvcs'[request.namespace].data = data
         /\ pvcs'[request.namespace].of \in {"other", "restore"}
         /\ pvcs'[request.namespace].of = "other" <=> pvcs[request.namespace].of = "other"
<1>1. request.namespace \in Namespace
  BY DEF TypeOK
<1>2. PICK p \in Pvc : /\ p.data = data /\ p.of \in {"other", "restore"}
                       /\ p.of = "other" <=> pvcs[request.namespace].of = "other"
                       /\ pvcs' = [pvcs EXCEPT ![request.namespace] = p]
  <2>1. CASE pvcs[request.namespace].of = "other"
    <3>1. [of |-> "other", data |-> data] \in Pvc
      BY DEF Pvc
    <3>2. pvcs' = [pvcs EXCEPT ![request.namespace] = [of |-> "other", data |-> data]]
      BY <2>1 DEF WriteVolume, TypeOK
    <3> QED
      BY <2>1, <3>1, <3>2
  <2>2. CASE pvcs[request.namespace].of # "other"
    <3>1. [of |-> "restore", data |-> data] \in Pvc
      BY DEF Pvc
    <3>2. pvcs' = [pvcs EXCEPT ![request.namespace] = [of |-> "restore", data |-> data]]
      BY <2>2 DEF WriteVolume, TypeOK
    <3> QED
      BY <2>2, <3>1, <3>2
  <2> QED
    BY <2>1, <2>2
<1>3. pvcs'[request.namespace] = p
  BY <1>1, <1>2 DEF TypeOK
<1> QED
  BY <1>1, <1>2, <1>3 DEF TypeOK

\* The initial state is well typed.
LEMMA InitType == Init => TypeOK
<1> SUFFICES ASSUME Init PROVE TypeOK
  OBVIOUS
<1>1. listing \in Listing
  BY DEF Init, Listing
<1>2. request \in [namespace : Namespace, class : Class, repository : BOOLEAN]
  BY DEF Init, Namespace, Class
<1>3. clone \in Clone /\ pvcs \in [Namespace -> Pvc]
  BY DEF Init, Clone, Pvc
<1>4. worker \in WorkerState
  BY WorkerFields DEF Init
<1> QED
  BY <1>1, <1>2, <1>3, <1>4 DEF Init, TypeOK, PluginState, FaultsOK, NoFaults

\* Every step is.
LEMMA StepType == TypeOK /\ [Next]_vars => TypeOK'
<1> SUFFICES ASSUME TypeOK, [Next]_vars PROVE TypeOK'
  OBVIOUS
<1>0. \A kind : Fault(kind) => FaultsOK'
  BY FaultType DEF TypeOK
<1>1. FaultsOK'
  BY <1>0 DEF TypeOK, FaultsOK, Next, vars, CloneFromSnapshopRef, SelectItem, ExecuteItem, CreateClone,
     UpdateStatusNew, ListClones, StampClone, CloneFromSnapshot, SyncCloneFromSnapshotByKey, SkipClone,
     PanicOnNilTimestamp, StartClone, CopyEnds, GetClone, UpdateStatus, CleanUpClone, VeleroRestarts,
     Crash, Restart, EditBlockList, OtherCreatesPvc
<1>2. item' = item /\ listing' \in Listing
  BY DEF TypeOK, Listing, Next, vars, inputVars, CloneFromSnapshopRef, SelectItem, ExecuteItem, CreateClone,
     UpdateStatusNew, ListClones, StampClone, CloneFromSnapshot, SyncCloneFromSnapshotByKey, SkipClone,
     PanicOnNilTimestamp, StartClone, CopyEnds, GetClone, UpdateStatus, CleanUpClone, VeleroRestarts,
     Crash, Restart, EditBlockList, OtherCreatesPvc
<1>3. request' \in [namespace : Namespace, class : Class, repository : BOOLEAN]
  <2>1. request' = request \/ ExecuteItem
    BY DEF Next, vars, inputVars, CloneFromSnapshopRef, SelectItem, CreateClone,
     UpdateStatusNew, ListClones, StampClone, CloneFromSnapshot, SyncCloneFromSnapshotByKey, SkipClone,
     PanicOnNilTimestamp, StartClone, CopyEnds, GetClone, UpdateStatus, CleanUpClone, VeleroRestarts,
     Crash, Restart, EditBlockList, OtherCreatesPvc
  <2>2. CASE request' = [namespace |-> TargetNamespace(item), class |-> NewStorageClass(item),
                         repository |-> ~item.localMode]
             /\ Execute(item, listing, Existing) = "create"
    <3>1. TargetNamespace(item) \in Namespace
      BY DEF TargetNamespace, Namespace
    <3>2. NewStorageClass(item) \in Class
      BY <2>2, ExecuteType DEF Class
    <3> QED
      BY <2>2, <3>1, <3>2
  <2> QED
    BY <2>1, <2>2 DEF TypeOK, ExecuteItem
<1>4. clone' \in Clone /\ fresh' \subseteq {"plugin", "driver"}
  <2>1. clone' \in Clone
    <3>1. \/ clone' = clone
          \/ \E p \in {"", "New", "Completed", "Failed"} : clone' = [clone EXCEPT !.phase = p]
          \/ clone' = [clone EXCEPT !.stamped = TRUE]
          \/ clone' = [phase |-> "Gone", stamped |-> FALSE]
          \/ UpdateStatus
      BY DEF Next, vars, CloneFromSnapshopRef, SelectItem, ExecuteItem, CreateClone,
         UpdateStatusNew, ListClones, StampClone, CloneFromSnapshot, SyncCloneFromSnapshotByKey, SkipClone,
         PanicOnNilTimestamp, StartClone, CopyEnds, GetClone, CleanUpClone, VeleroRestarts,
         Crash, Restart, EditBlockList, OtherCreatesPvc, WriteClone
    <3>2. CASE UpdateStatus
      BY <3>2 DEF TypeOK, Clone, WorkerState, UpdateStatus, WriteClone
    <3>3. [phase |-> "Gone", stamped |-> FALSE] \in Clone
      BY DEF Clone
    <3> QED
      BY <3>1, <3>2, <3>3, CloneFields DEF TypeOK
  <2>2. fresh' \in {fresh, {}, {"plugin"}, fresh \cup {"plugin"}, fresh \cup {"driver"},
                    fresh \ {"plugin"}, fresh \ {"driver"}}
    BY DEF Next, vars, CloneFromSnapshopRef, SelectItem, ExecuteItem, CreateClone,
       UpdateStatusNew, ListClones, StampClone, CloneFromSnapshot, SyncCloneFromSnapshotByKey, SkipClone,
       PanicOnNilTimestamp, StartClone, CopyEnds, GetClone, UpdateStatus, CleanUpClone, VeleroRestarts,
       Crash, Restart, EditBlockList, OtherCreatesPvc, WriteClone
  <2> QED
    BY <2>1, <2>2 DEF TypeOK
<1>5. plugin' \in PluginState
  <2>1. CASE ExecuteItem
    <3>1. plugin' \in {"error", Execute(item, listing, Existing)}
      BY <2>1 DEF ExecuteItem
    <3> QED
      BY <3>1, ExecuteType DEF PluginState
  <2>2. CASE UpdateStatus
    <3>1. plugin' \in {plugin, "stampCompleted", "stampFailed"}
      BY <2>2 DEF UpdateStatus, WriteClone, Heard
    <3> QED
      BY <3>1 DEF TypeOK, PluginState
  <2>3. CASE SelectItem \/ CreateClone \/ UpdateStatusNew \/ ListClones \/ StampClone \/ VeleroRestarts
    <3>1. plugin' \in {"execute", "item", "error", "status", "list", "watch", "stampCompleted", "stampFailed", "done"}
      BY <2>3 DEF SelectItem, CreateClone, UpdateStatusNew, ListClones, StampClone, VeleroRestarts, Heard
    <3> QED
      BY <3>1 DEF PluginState
  <2>4. CASE plugin' = plugin
    BY <2>4 DEF TypeOK
  <2> QED
    BY <2>1, <2>2, <2>3, <2>4 DEF Next, vars, CloneFromSnapshopRef, CloneFromSnapshot,
       SyncCloneFromSnapshotByKey, SkipClone, PanicOnNilTimestamp, StartClone, CopyEnds, GetClone,
       CleanUpClone, Crash, Restart, EditBlockList, OtherCreatesPvc
<1>6. worker' \in WorkerState /\ up' \in BOOLEAN /\ queued' \in BOOLEAN
  <2>1. CASE GetClone
    <3>1. worker' = [worker EXCEPT !.pc = "put"] \/ AfterError
      BY <2>1 DEF GetClone
    <3>2. [worker EXCEPT !.pc = "put"] \in WorkerState
      BY DEF TypeOK, WorkerState
    <3> QED
      BY <2>1, <3>1, <3>2, WorkerFields DEF GetClone, AfterError, TypeOK
  <2>2. CASE UpdateStatus
    BY <2>2, WorkerFields DEF UpdateStatus, AfterError, TypeOK
  <2>3. CASE worker' = worker \/ (\E pc \in {"idle", "start", "copy"} : worker' = At(pc))
             \/ \E p \in {"Completed", "Failed"} : worker' = Update(p)
    <3>1. worker' \in WorkerState
      <4>1. \A pc \in {"idle", "start", "copy"} : At(pc) \in WorkerState
        BY WorkerFields
      <4>2. \A p \in {"Completed", "Failed"} : Update(p) \in WorkerState
        BY WorkerFields
      <4> QED
        BY <2>3, <4>1, <4>2 DEF TypeOK
    <3>2. up' \in BOOLEAN /\ queued' \in BOOLEAN
      BY <2>1, <2>2 DEF TypeOK, Next, vars, driverVars, CloneFromSnapshopRef, SelectItem, ExecuteItem, CreateClone,
         UpdateStatusNew, ListClones, StampClone, CloneFromSnapshot, SyncCloneFromSnapshotByKey, SkipClone,
         PanicOnNilTimestamp, StartClone, CopyEnds, CleanUpClone, VeleroRestarts,
         Crash, Restart, EditBlockList, OtherCreatesPvc
    <3> QED
      BY <3>1, <3>2
  <2> QED
    BY <2>1, <2>2, <2>3 DEF Next, vars, driverVars, CloneFromSnapshopRef, SelectItem, ExecuteItem, CreateClone,
       UpdateStatusNew, ListClones, StampClone, CloneFromSnapshot, SyncCloneFromSnapshotByKey, SkipClone,
       PanicOnNilTimestamp, StartClone, CopyEnds, CleanUpClone, VeleroRestarts,
       Crash, Restart, EditBlockList, OtherCreatesPvc
<1>7. pvcs' \in [Namespace -> Pvc]
  <2>1. [of |-> "other", data |-> "own"] \in Pvc
    BY DEF Pvc
  <2>2. \/ pvcs' = pvcs \/ WriteVolume("partial") \/ WriteVolume("restored")
        \/ pvcs' = [pvcs EXCEPT ![request.namespace] = [of |-> "other", data |-> "own"]]
    BY DEF Next, vars, CloneFromSnapshopRef, SelectItem, ExecuteItem, CreateClone,
       UpdateStatusNew, ListClones, StampClone, CloneFromSnapshot, SyncCloneFromSnapshotByKey, SkipClone,
       PanicOnNilTimestamp, StartClone, CopyEnds, GetClone, UpdateStatus, CleanUpClone, VeleroRestarts,
       Crash, Restart, EditBlockList, OtherCreatesPvc
  <2> QED
    BY <2>1, <2>2, WriteVolumeFields DEF TypeOK
<1> QED
  BY <1>1, <1>2, <1>3, <1>4, <1>5, <1>6, <1>7 DEF TypeOK

-----------------------------------------------------------------------------
(* The order of the steps *)

\* Before the clone is created there is none, and nothing works on it; the
\* plugin writes New only over the object as it created it; the request is for
\* the namespace that the Restore maps to.
OrderOK ==
  /\ plugin \in {"select", "execute", "create"} \/ clone.phase = "Gone" => clone.phase = "Gone" /\ worker.pc = "idle"
  /\ plugin = "status" /\ "plugin" \in fresh => clone.phase = ""
  /\ plugin \in {"list", "watch", "stampCompleted", "stampFailed"} => clone.phase # "Gone"
  /\ worker.want = "Completed" => worker.pc \in {"get", "put"}
  /\ worker.pc = "put" => worker.want \in {"Completed", "Failed"}
  /\ worker.pc = "get" => worker.want \in {"Completed", "Failed"}
  /\ plugin \in {"create", "status", "list", "watch", "stampCompleted", "stampFailed", "done"} =>
       request.namespace = TargetNamespace(item)

\* The plugin's steps keep the order.
LEMMA PluginOrder ==
  ASSUME TypeOK, OrderOK, CloneFromSnapshopRef \/ VeleroRestarts
  PROVE  OrderOK'
<1>0. worker' = worker /\ item' = item
  BY DEF CloneFromSnapshopRef, SelectItem, ExecuteItem, CreateClone, UpdateStatusNew, ListClones, StampClone,
     VeleroRestarts, driverVars, inputVars
<1>1. CASE SelectItem \/ VeleroRestarts
  BY <1>0, <1>1 DEF SelectItem, VeleroRestarts, OrderOK, inputVars
<1>2. CASE ExecuteItem
  <2>1. clone' = clone /\ plugin = "execute" /\ fresh' = fresh
    BY <1>2 DEF ExecuteItem
  <2>2. plugin' \in {"create", "error", "item", "pvc", "trimmed", "skipped"}
    BY <1>2, ExecuteType DEF ExecuteItem
  <2>3. plugin' = "create" => request'.namespace = TargetNamespace(item)
    BY <1>2 DEF ExecuteItem
  <2> QED
    BY <1>0, <2>1, <2>2, <2>3 DEF OrderOK
<1>3. CASE CreateClone
  <2>1. plugin = "create" /\ request' = request
    BY <1>3 DEF CreateClone, inputVars
  <2>2. CASE clone' = [clone EXCEPT !.phase = ""] /\ plugin' = "status"
    <3>1. clone'.phase = ""
      BY <2>2, CloneFields
    <3> QED
      BY <1>0, <2>1, <2>2, <3>1 DEF OrderOK
  <2>3. CASE clone' = clone /\ plugin' = "error"
    BY <1>0, <2>1, <2>3 DEF OrderOK
  <2> QED
    BY <1>3, <2>2, <2>3 DEF CreateClone
<1>4. CASE UpdateStatusNew
  <2>1. plugin = "status" /\ request' = request /\ plugin' \in {"list", "error"}
    BY <1>4 DEF UpdateStatusNew, inputVars
  <2>2. CASE clone' = [clone EXCEPT !.phase = "New"] /\ "plugin" \in fresh
    <3>1. clone'.phase = "New"
      BY <2>2, CloneFields
    <3> QED
      BY <1>0, <2>1, <2>2, <3>1 DEF OrderOK
  <2>3. CASE clone' = clone /\ plugin' = "error"
    BY <1>0, <2>1, <2>3 DEF OrderOK
  <2> QED
    BY <1>4, <2>2, <2>3 DEF UpdateStatusNew, WriteClone
<1>5. CASE ListClones
  <2>1. plugin = "list" /\ plugin' \in {"stampCompleted", "stampFailed", "watch"} /\ clone' = clone
        /\ request' = request
    BY <1>5 DEF ListClones, Heard, inputVars
  <2> QED
    BY <1>0, <2>1 DEF OrderOK
<1>6. CASE StampClone
  <2>1. plugin \in {"stampCompleted", "stampFailed"} /\ plugin' \in {"done", "error"} /\ request' = request
    BY <1>6 DEF StampClone, inputVars
  <2>2. clone'.phase = clone.phase
    BY <1>6, CloneFields DEF StampClone, WriteClone
  <2> QED
    BY <1>0, <2>1, <2>2 DEF OrderOK
<1> QED
  BY <1>1, <1>2, <1>3, <1>4, <1>5, <1>6 DEF CloneFromSnapshopRef

\* After an error the worker writes Failed, or has done so and is idle.
LEMMA AfterErrorFields ==
  ASSUME AfterError
  PROVE  /\ \/ worker'.want = "Failed" /\ worker'.pc = "get"
            \/ worker'.want = "" /\ worker'.pc = "idle"
         /\ worker.want = "Completed" => worker'.pc = "get"
<1>1. CASE worker' = Update("Failed")
  <2>1. Update("Failed").pc = "get" /\ Update("Failed").want = "Failed"
    BY DEF Update
  <2> QED
    BY <1>1, <2>1
<1>2. CASE worker.want # "Completed" /\ worker' = At("idle")
  <2>1. At("idle").pc = "idle" /\ At("idle").want = ""
    BY DEF At
  <2> QED
    BY <1>2, <2>1
<1> QED
  BY <1>1, <1>2 DEF AfterError

\* So do the driver's, and those of the world.
LEMMA DriverOrder ==
  ASSUME TypeOK, OrderOK, [Next]_vars, ~CloneFromSnapshopRef, ~VeleroRestarts
  PROVE  OrderOK'
<1>0. item' = item /\ request' = request
  BY DEF Next, vars, inputVars, CloneFromSnapshot, SyncCloneFromSnapshotByKey, SkipClone,
     PanicOnNilTimestamp, StartClone, CopyEnds, GetClone, UpdateStatus, CleanUpClone,
     Crash, Restart, EditBlockList, OtherCreatesPvc
<1>1. CASE plugin' = plugin /\ clone' = clone /\ ("plugin" \in fresh' => "plugin" \in fresh) /\ worker' = worker
  BY <1>0, <1>1 DEF OrderOK
<1>2. CASE Crash
  <2>1. worker'.pc = "idle" /\ worker'.want = "" /\ plugin' = plugin /\ clone' = clone
        /\ ("plugin" \in fresh' => "plugin" \in fresh)
    BY <1>2, WorkerFields DEF Crash
  <2> QED
    BY <1>0, <2>1 DEF OrderOK
<1>3. CASE SyncCloneFromSnapshotByKey
  <2>1. worker'.pc = "start" /\ worker'.want = "" /\ plugin' = plugin /\ clone' = clone /\ fresh' = fresh
        /\ clone.phase # "Gone"
    BY <1>3, WorkerFields DEF SyncCloneFromSnapshotByKey, Processed
  <2> QED
    BY <1>0, <2>1 DEF OrderOK
<1>4. CASE StartClone \/ CopyEnds
  <2>1. /\ worker.pc \in {"start", "copy"}
        /\ \/ worker'.pc = "copy" /\ worker'.want = ""
           \/ worker'.pc = "get" /\ worker'.want \in {"Completed", "Failed"}
        /\ plugin' = plugin /\ clone' = clone /\ fresh' = fresh
    <3>1. worker' = At("copy") \/ worker' = Update("Completed") \/ worker' = Update("Failed")
      BY <1>4 DEF StartClone, CopyEnds
    <3>2. /\ At("copy").pc = "copy" /\ At("copy").want = ""
          /\ \A p : Update(p).pc = "get" /\ Update(p).want = p
      BY WorkerFields
    <3> QED
      BY <1>4, <3>1, <3>2 DEF StartClone, CopyEnds
  <2> QED
    BY <1>0, <2>1 DEF OrderOK
<1>5. CASE GetClone
  <2>1. plugin' = plugin /\ clone' = clone /\ ("plugin" \in fresh' => "plugin" \in fresh) /\ worker.pc = "get"
    BY <1>5 DEF GetClone
  <2>2. CASE worker' = [worker EXCEPT !.pc = "put"]
    <3>1. worker'.pc = "put" /\ worker'.want = worker.want
      BY <2>2 DEF TypeOK, WorkerState
    <3> QED
      BY <1>0, <2>1, <3>1 DEF OrderOK
  <2>3. CASE AfterError
    BY <1>0, <2>1, <2>3, AfterErrorFields DEF OrderOK
  <2> QED
    BY <1>5, <2>2, <2>3 DEF GetClone
<1>6. CASE UpdateStatus
  <2>1. (worker'.pc = "idle" /\ worker'.want = "") \/ AfterError
    BY <1>6, WorkerFields DEF UpdateStatus
  <2>2. worker.pc = "put" /\ worker.want \in {"Completed", "Failed"}
    BY <1>6 DEF UpdateStatus, OrderOK
  <2>3. CASE WriteClone("driver", [clone EXCEPT !.phase = worker.want])
    <3>1. clone'.phase = worker.want
      BY <2>2, <2>3, CloneFields DEF WriteClone
    <3>2. \/ plugin' = plugin /\ fresh' = {}
          \/ plugin = "watch" /\ plugin' \in {"stampCompleted", "stampFailed"}
      BY <2>3 DEF WriteClone, Heard
    <3>3. worker'.want # "Completed" /\ (worker'.pc = "get" => worker'.want = "Failed") /\ worker'.pc # "put"
      BY <2>1, AfterErrorFields
    <3>4. plugin \notin {"select", "execute", "create"} /\ clone'.phase # "Gone"
      BY <2>2, <3>1 DEF OrderOK
    <3> QED
      BY <1>0, <3>2, <3>3, <3>4 DEF OrderOK
  <2>4. CASE clone' = clone /\ plugin' = plugin /\ fresh' = fresh \ {"driver"}
    BY <1>0, <2>1, <2>2, <2>4, AfterErrorFields DEF OrderOK
  <2> QED
    BY <1>6, <2>3, <2>4 DEF UpdateStatus
<1>7. CASE CleanUpClone
  <2>1. clone'.phase = "Gone" /\ plugin' = plugin /\ plugin \in Returned /\ worker' = worker /\ worker.pc = "idle"
    BY <1>7 DEF CleanUpClone
  <2> QED
    BY <1>0, <2>1 DEF OrderOK, Returned
<1> QED
  BY <1>1, <1>2, <1>3, <1>4, <1>5, <1>6, <1>7 DEF Next, vars, CloneFromSnapshot, SkipClone, PanicOnNilTimestamp,
     Restart, EditBlockList, OtherCreatesPvc, driverVars

-----------------------------------------------------------------------------
(* The PVCs *)

\* A fault is never forgotten.
LEMMA FaultsStay ==
  ASSUME TypeOK, [Next]_vars, NEW kind, Happened(kind)
  PROVE  Happened(kind)'
<1>1. faults' = faults \/ \E k : Fault(k)
  BY DEF Next, vars, CloneFromSnapshopRef, SelectItem, ExecuteItem, CreateClone,
     UpdateStatusNew, ListClones, StampClone, CloneFromSnapshot, SyncCloneFromSnapshotByKey, SkipClone,
     PanicOnNilTimestamp, StartClone, CopyEnds, GetClone, UpdateStatus, CleanUpClone, VeleroRestarts,
     Crash, Restart, EditBlockList, OtherCreatesPvc
<1> QED
  BY <1>1, FaultType DEF TypeOK, Happened

\* A volume with data has a PVC, and a restore that is under way has found no
\* PVC of somebody else at its target.
PvcsOK ==
  /\ OthersKept
  /\ \A n \in Namespace : pvcs[n].data # "own" => pvcs[n].of # "none"
  /\ (plugin = "create" \/ clone.phase # "Gone") /\ pvcs[request.namespace].of = "other" => Happened("race")

\* Every step keeps this: the worker writes to its own target only.
LEMMA StepPvcs ==
  ASSUME TypeOK, OrderOK, PvcsOK, [Next]_vars
  PROVE  PvcsOK'
<1>0. (Happened("race") => Happened("race")') /\ request.namespace \in Namespace
  BY FaultsStay DEF TypeOK
<1>1. CASE StartClone \/ CopyEnds
  <2>1. clone.phase # "Gone" /\ clone' = clone /\ plugin' = plugin /\ request' = request
    BY <1>1 DEF StartClone, CopyEnds, OrderOK, inputVars
  <2>2. pvcs' = pvcs \/ WriteVolume("partial") \/ WriteVolume("restored")
    BY <1>1 DEF StartClone, CopyEnds
  <2>3. ASSUME NEW data \in {"partial", "restored"}, WriteVolume(data) PROVE PvcsOK'
    BY <1>0, <2>1, <2>3, WriteVolumeFields DEF PvcsOK, OthersKept
  <2>4. CASE pvcs' = pvcs
    BY <1>0, <2>1, <2>4 DEF PvcsOK, OthersKept
  <2> QED
    BY <2>2, <2>3, <2>4
<1>2. CASE OtherCreatesPvc
  <2> DEFINE p == [of |-> "other", data |-> "own"]
  <2>1. Happened("race")'
    BY <1>2, FaultType DEF OtherCreatesPvc, TypeOK
  <2>2. p.of = "other"
    OBVIOUS
  <2>3. \A n \in Namespace : pvcs'[n] = pvcs[n] \/ pvcs'[n] = p
    BY <1>2 DEF OtherCreatesPvc, TypeOK
  <2>4. \A n \in Namespace : pvcs'[n].data # "own" => pvcs'[n].of # "none"
    BY <2>2, <2>3 DEF PvcsOK
  <2> QED
    BY <2>1, <2>4 DEF PvcsOK, OthersKept
<1>3. CASE ExecuteItem
  <2>1. pvcs' = pvcs /\ clone' = clone /\ clone.phase = "Gone"
    BY <1>3 DEF ExecuteItem, OrderOK
  <2>2. plugin' = "create" => request'.namespace = TargetNamespace(item) /\ TargetNamespace(item) \notin Existing
    BY <1>3, ExecuteType DEF ExecuteItem
  <2>3. TargetNamespace(item) \in Namespace
    BY DEF TargetNamespace, Namespace
  <2>4. plugin' = "create" => pvcs'[request'.namespace].of = "none"
    BY <2>1, <2>2, <2>3 DEF Existing
  <2> QED
    BY <1>0, <2>1, <2>4 DEF PvcsOK, OthersKept
<1>4. CASE pvcs' = pvcs /\ request' = request
           /\ (plugin' = "create" \/ clone'.phase # "Gone" => plugin = "create" \/ clone.phase # "Gone")
  BY <1>0, <1>4 DEF PvcsOK, OthersKept
<1>5. CASE SelectItem \/ CreateClone \/ UpdateStatusNew \/ ListClones \/ StampClone \/ VeleroRestarts
  <2>1. pvcs' = pvcs /\ request' = request /\ plugin' # "create"
    BY <1>5 DEF SelectItem, CreateClone, UpdateStatusNew, ListClones, StampClone, VeleroRestarts, Heard, inputVars
  <2>2. clone' = clone \/ plugin = "create" \/ clone.phase # "Gone"
    BY <1>5 DEF SelectItem, CreateClone, UpdateStatusNew, ListClones, StampClone, VeleroRestarts, OrderOK
  <2> QED
    BY <1>4, <2>1, <2>2
<1>6. CASE UpdateStatus
  <2>1. pvcs' = pvcs /\ request' = request /\ clone.phase # "Gone"
    BY <1>6 DEF UpdateStatus, OrderOK, inputVars
  <2> QED
    BY <1>4, <2>1
<1>7. CASE CleanUpClone
  <2>1. clone'.phase = "Gone"
    BY <1>7 DEF CleanUpClone
  <2> QED
    BY <1>4, <1>7, <2>1 DEF CleanUpClone, inputVars
<1> QED
  BY <1>1, <1>2, <1>3, <1>4, <1>5, <1>6, <1>7 DEF Next, vars, inputVars, driverVars, CloneFromSnapshopRef,
     CloneFromSnapshot, SyncCloneFromSnapshotByKey, SkipClone, PanicOnNilTimestamp, GetClone, Crash,
     Restart, EditBlockList

-----------------------------------------------------------------------------
(* The items *)

\* An item that reaches Execute was asked for by AppliesTo.
SelectedOK == plugin = "execute" => AppliesTo(item, listing) \/ Happened("edit")

\* What AppliesTo asks for and IsObjectBlocked does not know is a PVC, or on
\* the block list with the value false or with another plural.
LEMMA Unblocked ==
  ASSUME NEW i \in Item, NEW l \in Listing, AppliesTo(i, l), ~Blocked(i, l), i.kind # "PersistentVolumeClaim"
  PROVE  l = "false" \/ i.kind = "Gateway"
<1>1. i.kind \in Kind
  BY DEF Item
<1>2. /\ Resource["Pod"] = "pods" /\ CRDName["Pod"] = "pods"
      /\ Resource["Image"] = CRDName["Image"]
      /\ CRDName["Image"] = "images.imagecontroller.vmware.com"
      /\ CRDName["NSXLoadBalancerMonitor"] = "nsxloadbalancermonitors.vmware.com"
      /\ Resource["SecurityPolicy"] = CRDName["SecurityPolicy"]
      /\ Resource["SecurityPolicy"] = "securitypolicies.crd.nsx.vmware.com"
  BY DEF Resource, CRDName
<1> QED
  BY <1>1, <1>2 DEF AppliesTo, Blocked, Kind, ResourcesToBlockOnRestore, Listing

\* Steps keep both.
LEMMA StepItems ==
  ASSUME TypeOK, SelectedOK, OnlyClaimsConverted, [Next]_vars
  PROVE  SelectedOK' /\ OnlyClaimsConverted'
<1>0. (Happened("edit") => Happened("edit")') /\ item' = item
  <2>1. item' = item
    BY DEF Next, vars, inputVars, CloneFromSnapshopRef, SelectItem, ExecuteItem, CreateClone,
     UpdateStatusNew, ListClones, StampClone, CloneFromSnapshot, SyncCloneFromSnapshotByKey, SkipClone,
     PanicOnNilTimestamp, StartClone, CopyEnds, GetClone, UpdateStatus, CleanUpClone, VeleroRestarts,
     Crash, Restart, EditBlockList, OtherCreatesPvc
  <2> QED
    BY <2>1, FaultsStay
<1>1. CASE EditBlockList
  BY <1>0, <1>1, FaultType DEF EditBlockList, TypeOK, SelectedOK, OnlyClaimsConverted
<1>2. CASE listing' = listing /\ (plugin' = plugin \/ plugin' \notin {"execute", "pvc"})
  BY <1>0, <1>2 DEF SelectedOK, OnlyClaimsConverted, AppliesTo
<1>3. CASE SelectItem
  <2>1. listing' = listing /\ (plugin' = "execute" => AppliesTo(item, listing)) /\ plugin' \in {"execute", "item", "error"}
    BY <1>3 DEF SelectItem, inputVars
  <2> QED
    BY <1>0, <2>1 DEF SelectedOK, OnlyClaimsConverted, AppliesTo
<1>4. CASE ExecuteItem
  <2>1. plugin = "execute" /\ listing' = listing /\ plugin' \in {"error", Execute(item, listing, Existing)}
    BY <1>4 DEF ExecuteItem
  <2>2. plugin' # "execute" /\ (plugin' = "pvc" => ~Blocked(item, listing))
    BY <2>1, ExecuteType
  <2>3. plugin' = "pvc" /\ item.kind # "PersistentVolumeClaim" =>
          Happened("edit") \/ listing = "false" \/ item.kind = "Gateway"
    BY <2>1, <2>2, Unblocked DEF SelectedOK, TypeOK
  <2> QED
    BY <1>0, <2>1, <2>2, <2>3 DEF SelectedOK, OnlyClaimsConverted
<1>5. CASE CreateClone \/ UpdateStatusNew \/ ListClones \/ StampClone \/ VeleroRestarts \/ UpdateStatus
  BY <1>2, <1>5 DEF CreateClone, UpdateStatusNew, ListClones, StampClone, VeleroRestarts, UpdateStatus, WriteClone,
     Heard, inputVars
<1> QED
  BY <1>1, <1>2, <1>3, <1>4, <1>5 DEF Next, vars, inputVars, CloneFromSnapshopRef, CloneFromSnapshot,
     SyncCloneFromSnapshotByKey, SkipClone, PanicOnNilTimestamp, StartClone, CopyEnds, GetClone, CleanUpClone,
     Crash, Restart, OtherCreatesPvc

-----------------------------------------------------------------------------
(* The data *)

\* As long as calls are answered: a clone that is Completed has its data, and
\* nothing works on it any more.
RestoredOK ==
  /\ clone.phase = "Completed" => worker.pc = "idle"
  /\ plugin \in {"stampCompleted", "done"} => clone.phase \in {"Completed", "Gone"}
  /\ clone.phase = "Completed" \/ plugin \in {"stampCompleted", "done"} \/ worker.want = "Completed" =>
       pvcs[request.namespace].data = "restored"

\* Steps keep it.
LEMMA StepRestored ==
  ASSUME TypeOK, OrderOK, PvcsOK, RestoredOK, [Next]_vars, ~Happened("api")'
  PROVE  RestoredOK'
<1>0. ~Fault("api") /\ request.namespace \in Namespace
  BY FaultType DEF TypeOK
<1>1. CASE pvcs' = pvcs /\ request' = request /\ clone' = clone /\ worker' = worker /\ plugin' \notin {"stampCompleted", "done"}
  BY <1>1 DEF RestoredOK
<1>2. CASE SelectItem \/ VeleroRestarts
  BY <1>1, <1>2 DEF SelectItem, VeleroRestarts, inputVars, driverVars
<1>3. CASE ExecuteItem
  <2>1. clone' = clone /\ worker' = worker /\ clone.phase = "Gone" /\ worker.want # "Completed"
    BY <1>3 DEF ExecuteItem, driverVars, OrderOK
  <2>2. plugin' \in {"create", "error", "item", "pvc", "trimmed", "skipped"}
    BY <1>3, ExecuteType DEF ExecuteItem
  <2> QED
    BY <2>1, <2>2 DEF RestoredOK
<1>4. CASE CreateClone
  <2>1. plugin' = "status" /\ clone' = [clone EXCEPT !.phase = ""] /\ worker' = worker /\ worker.pc = "idle"
    BY <1>0, <1>4 DEF CreateClone, OrderOK
  <2>2. clone'.phase = "" /\ worker.want # "Completed"
    BY <2>1, CloneFields DEF OrderOK
  <2> QED
    BY <2>1, <2>2 DEF RestoredOK
<1>5. CASE UpdateStatusNew
  <2>1. /\ plugin' \in {"list", "error"} /\ worker' = worker /\ pvcs' = pvcs /\ request' = request
        /\ clone' = clone \/ clone' = [clone EXCEPT !.phase = "New"]
    BY <1>5 DEF UpdateStatusNew, WriteClone, driverVars, inputVars
  <2>2. clone' = clone \/ clone'.phase = "New"
    BY <2>1, CloneFields
  <2> QED
    BY <2>1, <2>2 DEF RestoredOK
<1>6. CASE ListClones
  <2>1. /\ clone' = clone /\ worker' = worker /\ pvcs' = pvcs /\ request' = request
        /\ plugin' # "done" /\ (plugin' = "stampCompleted" => clone.phase = "Completed")
    BY <1>6 DEF ListClones, Heard, driverVars, inputVars
  <2> QED
    BY <2>1 DEF RestoredOK
<1>7. CASE StampClone
  <2>1. /\ worker' = worker /\ pvcs' = pvcs /\ request' = request
        /\ plugin' # "stampCompleted" /\ (plugin' = "done" => plugin = "stampCompleted")
    BY <1>7 DEF StampClone, driverVars, inputVars
  <2>2. clone'.phase = clone.phase
    BY <1>7, CloneFields DEF StampClone, WriteClone
  <2> QED
    BY <2>1, <2>2 DEF RestoredOK
<1>8. CASE SyncCloneFromSnapshotByKey
  <2>1. /\ clone' = clone /\ plugin' = plugin /\ pvcs' = pvcs /\ request' = request
        /\ clone.phase \in {"", "New", "Failed"} /\ worker'.want = ""
    BY <1>8, WorkerFields DEF SyncCloneFromSnapshotByKey, Processed, inputVars
  <2> QED
    BY <2>1 DEF RestoredOK
<1>9. CASE StartClone \/ CopyEnds
  <2>1. /\ clone' = clone /\ plugin' = plugin /\ request' = request
        /\ clone.phase # "Completed" /\ plugin \notin {"stampCompleted", "done"}
    BY <1>9 DEF StartClone, CopyEnds, OrderOK, RestoredOK, inputVars
  <2>2. worker'.want = "Completed" => WriteVolume("restored")
    BY <1>9, WorkerFields DEF StartClone, CopyEnds
  <2>3. worker'.want = "Completed" => pvcs'[request.namespace].data = "restored"
    BY <2>2, WriteVolumeFields
  <2> QED
    BY <2>1, <2>3 DEF RestoredOK
<1>10. CASE GetClone
  <2>1. /\ clone' = clone /\ plugin' = plugin /\ pvcs' = pvcs /\ request' = request
        /\ clone.phase # "Completed" /\ plugin \notin {"stampCompleted", "done"}
    BY <1>10 DEF GetClone, OrderOK, RestoredOK, inputVars
  <2>2. worker'.want = "Completed" => worker.want = "Completed"
    <3>1. [worker EXCEPT !.pc = "put"].want = worker.want
      BY DEF TypeOK, WorkerState
    <3>2. worker' = [worker EXCEPT !.pc = "put"] \/ AfterError
      BY <1>10 DEF GetClone
    <3> QED
      BY <3>1, <3>2, AfterErrorFields
  <2> QED
    BY <2>1, <2>2 DEF RestoredOK
<1>11. CASE UpdateStatus
  <2>1. /\ pvcs' = pvcs /\ request' = request /\ worker.pc = "put"
        /\ clone.phase # "Completed" /\ plugin \notin {"stampCompleted", "done"}
    BY <1>11 DEF UpdateStatus, OrderOK, RestoredOK, inputVars
  <2>2. worker'.want # "Completed"
    BY <1>11, AfterErrorFields, WorkerFields DEF UpdateStatus
  <2>3. CASE clone' = clone /\ plugin' = plugin
    BY <2>1, <2>2, <2>3 DEF RestoredOK
  <2>4. CASE worker.want = "Failed" /\ WriteClone("driver", [clone EXCEPT !.phase = worker.want])
    <3>1. clone' = [clone EXCEPT !.phase = "Failed"] /\ clone'.phase = "Failed"
      BY <2>4, CloneFields DEF WriteClone
    <3>2. plugin' \in {plugin, "stampFailed"}
      BY <2>4, <3>1 DEF WriteClone, Heard
    <3> QED
      BY <2>1, <2>2, <3>1, <3>2 DEF RestoredOK
  <2>5. CASE worker.want = "Completed" /\ worker' = At("idle") /\ WriteClone("driver", [clone EXCEPT !.phase = worker.want])
    <3>1. clone'.phase = "Completed" /\ worker'.pc = "idle"
      BY <2>5, CloneFields, WorkerFields DEF WriteClone
    <3> QED
      BY <2>1, <2>2, <2>5, <3>1 DEF RestoredOK
  <2> QED
    BY <1>0, <1>11, <2>3, <2>4, <2>5 DEF UpdateStatus
<1>12. CASE CleanUpClone
  <2>1. /\ plugin' = plugin /\ pvcs' = pvcs /\ request' = request /\ worker' = worker
        /\ clone'.phase = "Gone"
    BY <1>12 DEF CleanUpClone, inputVars
  <2> QED
    BY <2>1 DEF RestoredOK
<1>13. CASE Crash
  <2>1. /\ plugin' = plugin /\ pvcs' = pvcs /\ request' = request /\ clone' = clone
        /\ worker'.pc = "idle" /\ worker'.want = ""
    BY <1>13, WorkerFields DEF Crash, inputVars
  <2> QED
    BY <2>1 DEF RestoredOK
<1>14. CASE OtherCreatesPvc
  <2>1. /\ plugin' = plugin /\ request' = request /\ clone' = clone /\ worker' = worker
        /\ pvcs[request.namespace].of = "none"
    BY <1>0, <1>14 DEF OtherCreatesPvc, Existing, inputVars, driverVars
  <2>2. pvcs[request.namespace].data # "restored"
    BY <1>0, <2>1 DEF PvcsOK
  <2> QED
    BY <2>1, <2>2 DEF RestoredOK
<1>15. CASE UNCHANGED <<pvcs, request, clone, worker, plugin>>
  BY <1>15 DEF RestoredOK
<1> QED
  BY <1>2, <1>3, <1>4, <1>5, <1>6, <1>7, <1>8, <1>9, <1>10, <1>11, <1>12, <1>13, <1>14, <1>15
     DEF Next, vars, inputVars, driverVars, CloneFromSnapshopRef, CloneFromSnapshot, SkipClone, PanicOnNilTimestamp,
     Restart, EditBlockList

-----------------------------------------------------------------------------
(* The theorems *)

\* The inductive invariant.
CloneInv ==
  /\ TypeOK /\ OrderOK /\ PvcsOK /\ SelectedOK /\ OnlyClaimsConverted
  /\ ~Happened("api") => RestoredOK

\* It holds initially.
LEMMA InitInv == Init => CloneInv
<1> SUFFICES ASSUME Init PROVE CloneInv
  OBVIOUS
<1>1. clone.phase = "Gone" /\ worker.pc = "idle" /\ worker.want = "" /\ plugin = "select"
  BY WorkerFields DEF Init
<1>2. \A n \in Namespace : pvcs[n].data = "own"
  BY DEF Init
<1> QED
  BY <1>1, <1>2, InitType DEF CloneInv, OrderOK, PvcsOK, OthersKept, SelectedOK, OnlyClaimsConverted, RestoredOK

\* Every reachable state satisfies it, for any number and kinds of faults.
THEOREM Invariance == Spec => []CloneInv
<1>1. ASSUME CloneInv, [Next]_vars PROVE CloneInv'
  <2>1. TypeOK' /\ OrderOK'
    BY <1>1, StepType, PluginOrder, DriverOrder DEF CloneInv
  <2>2. PvcsOK' /\ SelectedOK' /\ OnlyClaimsConverted'
    BY <1>1, StepPvcs, StepItems DEF CloneInv
  <2>3. ~Happened("api")' => RestoredOK'
    BY <1>1, FaultsStay, StepRestored DEF CloneInv
  <2> QED
    BY <2>1, <2>2, <2>3 DEF CloneInv
<1> QED
  BY <1>1, InitInv, PTL DEF Spec

\* The driver never writes to a PVC that was there when Execute looked for it
\* (SkipPVCCreation), in whatever namespace.
THEOREM OthersAreKept == Spec => []OthersKept
<1>1. CloneInv => OthersKept
  BY DEF CloneInv, PvcsOK
<1> QED
  BY <1>1, Invariance, PTL

\* Execute makes a PVC of no other item than those that the block list has
\* under a wrong name or value, or no longer.
THEOREM OnlyClaims == Spec => []OnlyClaimsConverted
<1>1. CloneInv => OnlyClaimsConverted
  BY DEF CloneInv
<1> QED
  BY <1>1, Invariance, PTL

\* A restore that Velero was told succeeded has its data, and keeps it, however
\* often the driver dies, copies fail and clones are retried.
THEOREM RestoredHasData == Spec => []RestoreHasData
<1>1. CloneInv => RestoreHasData
  BY DEF CloneInv, OrderOK, RestoredOK, RestoreHasData, TargetNamespace
<1> QED
  BY <1>1, Invariance, PTL

\* A Completed clone stays Completed until it is cleaned up, and nobody writes
\* to the volume in that step.
CloneKept ==
  ~Happened("api")' /\ clone.phase = "Completed" =>
    clone'.phase \in {"Completed", "Gone"} /\ pvcs'[request.namespace] = pvcs[request.namespace]

\* As long as every call is answered, the end of a restore is final: neither the
\* plugin's late write of New, nor a worker that is started again after a panic
\* or a crash, takes Completed back or clones a second time.
THEOREM CompletedStays == Spec => [][CloneKept]_vars
<1>1. ASSUME CloneInv, CloneInv', Next PROVE CloneKept
  <2> SUFFICES ASSUME ~Happened("api")', clone.phase = "Completed"
               PROVE  /\ clone'.phase \in {"Completed", "Gone"}
                      /\ pvcs'[request.namespace] = pvcs[request.namespace]
    BY DEF CloneKept
  <2>0. /\ TypeOK /\ OrderOK /\ worker.pc = "idle"
        /\ pvcs[request.namespace].data = "restored" /\ request.namespace \in Namespace
        /\ request.namespace \in Existing
    <3>1. TypeOK /\ OrderOK /\ PvcsOK /\ RestoredOK
      BY <1>1, FaultsStay DEF CloneInv
    <3> QED
      BY <3>1 DEF RestoredOK, PvcsOK, TypeOK, Existing
  <2>1. plugin \notin {"select", "execute", "create"} /\ (plugin = "status" => "plugin" \notin fresh)
    BY <2>0 DEF OrderOK
  <2>2. CASE CloneFromSnapshopRef
    <3>1. pvcs' = pvcs
      BY <2>2 DEF CloneFromSnapshopRef, SelectItem, ExecuteItem, CreateClone, UpdateStatusNew,
         ListClones, StampClone
    <3>2. clone' = clone \/ clone' = [clone EXCEPT !.stamped = TRUE]
      BY <2>1, <2>2 DEF CloneFromSnapshopRef, SelectItem, ExecuteItem, CreateClone, UpdateStatusNew,
         ListClones, StampClone, WriteClone
    <3>3. clone'.phase = "Completed"
      BY <2>0, <3>2 DEF TypeOK, Clone
    <3> QED
      BY <3>1, <3>3
  <2>3. CASE CloneFromSnapshot
    BY <2>0, <2>3 DEF CloneFromSnapshot, SyncCloneFromSnapshotByKey, SkipClone, PanicOnNilTimestamp,
       StartClone, CopyEnds, GetClone, UpdateStatus
  <2>4. CASE CleanUpClone
    <3>1. clone'.phase = "Gone" /\ pvcs' = pvcs
      BY <2>4 DEF CleanUpClone
    <3> QED
      BY <3>1
  <2>5. CASE VeleroRestarts \/ Crash \/ Restart \/ EditBlockList
    BY <2>5 DEF VeleroRestarts, Crash, Restart, EditBlockList
  <2>6. ~OtherCreatesPvc
    BY <2>0 DEF OtherCreatesPvc
  <2> QED
    BY <1>1, <2>2, <2>3, <2>4, <2>5, <2>6 DEF Next
<1>2. CloneInv /\ CloneInv' /\ [Next]_vars => [CloneKept]_vars
  BY <1>1 DEF vars
<1> QED
  BY <1>2, Invariance, PTL DEF Spec

=============================================================================
