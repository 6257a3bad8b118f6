---------------------------- MODULE SnapshotProofs ----------------------------
(***************************************************************************)
(* Proofs about SnapshotController, for any set of snapshot IDs and any    *)
(* kinds and number of faults.  Of the data managers only UploadContract   *)
(* is used, which UploadProofs shows UploadController to implement.        *)
(***************************************************************************)
EXTENDS SnapshotController, TLAPS

-----------------------------------------------------------------------------
(* Types *)

\* A fault is counted and remembered.
LEMMA FaultType ==
  ASSUME TypeOK, NEW kind, Fault(kind)
  PROVE  FaultsOK'
BY DEF TypeOK, FaultsOK, Fault

\* The states that are made have their types.
LEMMA MadeType ==
  /\ Idle \in WorkerState
  /\ \A pc \in {"idle", "take", "upload", "metadata", "get", "put"}, id \in SnapshotID \cup {None} :
       At(pc, id) \in WorkerState
  /\ \A phase \in SnapshotPhase, id \in SnapshotID \cup {None} : Update(phase, id) \in WorkerState
  /\ \A pc \in {"create", "status", "list", "watch", "done", "error"} : Plugin(pc) \in PluginState
  /\ \A s \in Snapshot : Heard(s) \in PluginState
BY DEF Idle, At, Update, WorkerState, SnapshotPhase, Plugin, PluginState, Heard, Snapshot

\* The fields of the workers' and the plugin's states.
LEMMA Fields ==
  /\ \A pc, id : At(pc, id).pc = pc /\ At(pc, id).id = id /\ At(pc, id).want = ""
  /\ Idle.pc = "idle" /\ Idle.id = None /\ Idle.want = ""
  /\ \A phase, id : /\ Update(phase, id).pc = "get" /\ Update(phase, id).want = phase
                    /\ Update(phase, id).id = id
  /\ \A pc : Plugin(pc).pc = pc /\ Plugin(pc).id = None
BY DEF At, Idle, Update, Plugin

\* The initial state is well typed.
LEMMA InitType == Init => TypeOK
<1>1. NoUpload \in Upload
  BY DEF NoUpload, Upload
<1> QED
  BY <1>1, MadeType DEF Init, TypeOK, Snapshot, NoFaults, FaultsOK

\* Every mirrored phase is a phase of Snapshots that is neither unset nor New.
LEMMA MirroredPhases ==
  \A p \in DOMAIN SnapshotPhaseOf :
    /\ SnapshotPhaseOf[p] \in SnapshotPhase \ {"", "New"}
    /\ SnapshotPhaseOf[p] = "Uploaded" => p = "Completed"
<1>1. DOMAIN SnapshotPhaseOf = {"InProgress", "Completed", "Canceled", "Canceling", "UploadError",
                                "CleanupFailed", "UploadFailedAfterRetry"}
  BY DEF SnapshotPhaseOf
<1>2. /\ SnapshotPhaseOf["InProgress"] = "Uploading"
      /\ SnapshotPhaseOf["Completed"] = "Uploaded"
      /\ SnapshotPhaseOf["Canceled"] = "Canceled"
      /\ SnapshotPhaseOf["Canceling"] = "Canceling"
      /\ SnapshotPhaseOf["UploadError"] = "UploadFailed"
      /\ SnapshotPhaseOf["CleanupFailed"] = "CleanupAfterUploadFailed"
      /\ SnapshotPhaseOf["UploadFailedAfterRetry"] = "UploadFailedAfterRetry"
  BY DEF SnapshotPhaseOf
<1> QED
  BY <1>1, <1>2 DEF SnapshotPhase

\* What an Upload becomes under the contract: data that was there is there or
\* the data managers gave up, and Completed says so.
Keeps(u, v) ==
  /\ u.remote \/ u.gaveUp => v.remote \/ v.gaveUp
  /\ u.local \/ u.remote \/ u.gaveUp => v.local \/ v.remote \/ v.gaveUp
  /\ v.phase # "Absent"
  /\ v.phase = "Completed" => u.phase = "Completed" \/ v.remote \/ v.gaveUp

\* A step of the data managers.
LEMMA DataManagerData ==
  ASSUME TypeOK, NEW i \in SnapshotID, DataManagerStep(i)
  PROVE  \E v \in Upload : upload' = [upload EXCEPT ![i] = v] /\ Keeps(upload[i], v)
<1> DEFINE u == upload[i]
<1>0. u \in Upload /\ u.phase # "Absent"
  BY DEF TypeOK, DataManagerStep
<1>1. ASSUME NEW p \in UploadPhase, upload' = [upload EXCEPT ![i] = [u EXCEPT !.phase = p]],
             U(i)!Report(p)
      PROVE  \E v \in Upload : upload' = [upload EXCEPT ![i] = v] /\ Keeps(upload[i], v)
  <2>1. [u EXCEPT !.phase = p] \in Upload
    BY <1>0 DEF Upload
  <2>2. p = "Completed" => u.remote \/ u.gaveUp
    BY <1>1 DEF U!Report
  <2>3. Keeps(u, [u EXCEPT !.phase = p])
    BY <1>0, <2>2 DEF Upload, UploadPhase, Keeps
  <2> QED
    BY <1>1, <2>1, <2>3
<1>2. CASE upload' = [upload EXCEPT ![i] = [u EXCEPT !.remote = TRUE]]
  <2>1. [u EXCEPT !.remote = TRUE] \in Upload /\ Keeps(u, [u EXCEPT !.remote = TRUE])
    BY <1>0 DEF Upload, Keeps
  <2> QED
    BY <1>2, <2>1
<1>3. CASE upload' = [upload EXCEPT ![i] = [u EXCEPT !.local = FALSE]] /\ U(i)!DropLocal
  <2>1. u.remote \/ u.gaveUp
    BY <1>3 DEF U!DropLocal
  <2>2. [u EXCEPT !.local = FALSE] \in Upload /\ Keeps(u, [u EXCEPT !.local = FALSE])
    BY <1>0, <2>1 DEF Upload, Keeps
  <2> QED
    BY <1>3, <2>2
<1>4. CASE upload' = [upload EXCEPT ![i] = [u EXCEPT !.phase = "Gone"]]
  <2>1. [u EXCEPT !.phase = "Gone"] \in Upload /\ Keeps(u, [u EXCEPT !.phase = "Gone"])
    BY <1>0 DEF Upload, Keeps
  <2> QED
    BY <1>4, <2>1
<1>5. CASE upload' = [upload EXCEPT ![i] = [u EXCEPT !.gaveUp = TRUE]]
  <2>1. [u EXCEPT !.gaveUp = TRUE] \in Upload /\ Keeps(u, [u EXCEPT !.gaveUp = TRUE])
    BY <1>0 DEF Upload, Keeps
  <2> QED
    BY <1>5, <2>1
<1> QED
  BY <1>1, <1>2, <1>3, <1>4, <1>5 DEF DataManagerStep

\* Taking the local snapshot: an unused ID, or none.
LEMMA Taking ==
  ASSUME TypeOK, TakeSnapshot
  PROVE  \/ \E i \in SnapshotID :
              /\ upload[i] = NoUpload
              /\ upload' = [upload EXCEPT ![i].local = TRUE]
              /\ worker' = [worker EXCEPT !["create"] = At(IF localMode THEN "metadata" ELSE "upload", i)]
              /\ UNCHANGED faults
         \/ /\ worker' = [worker EXCEPT !["create"] = Update("SnapshotFailed", None)]
            /\ UNCHANGED upload
<1>1. CASE Unused # {}
  <2>1. (CHOOSE j \in Unused : TRUE) \in Unused
    BY <1>1
  <2>2. \A i \in Unused : i \in SnapshotID /\ upload[i] = NoUpload
    BY DEF Unused
  <2> QED
    BY <2>1, <2>2 DEF TakeSnapshot, Goto
<1>2. CASE Unused = {}
  BY <1>2 DEF TakeSnapshot, Goto
<1> QED
  BY <1>1, <1>2

\* The states that the workers' steps make have their types.
LEMMA WorkerType ==
  ASSUME TypeOK, CreateSnapshot \/ \E i \in SnapshotID : Mirror(i)
  PROVE  worker' \in [Worker -> WorkerState]
<1>0. \A w \in Worker, s \in WorkerState : [worker EXCEPT ![w] = s] \in [Worker -> WorkerState]
  BY DEF TypeOK
<1>1. "create" \in Worker /\ "mirror" \in Worker
  BY DEF Worker
<1>2. CASE SyncSnapshotByKey
  BY <1>0, <1>1, <1>2, MadeType DEF SyncSnapshotByKey, Goto
<1>3. CASE TakeSnapshot
  <2>1. /\ Update("SnapshotFailed", None) \in WorkerState
        /\ \A i \in SnapshotID : At(IF localMode THEN "metadata" ELSE "upload", i) \in WorkerState
    BY MadeType DEF SnapshotPhase
  <2> QED
    BY <1>0, <1>1, <1>3, <2>1, Taking
<1>4. CASE UploadSnapshot \/ GetMetadata
  <2>1. worker["create"].id \in SnapshotID \cup {None}
    BY <1>1 DEF TypeOK, WorkerState
  <2>2. "SnapshotFailed" \in SnapshotPhase /\ "Snapshotted" \in SnapshotPhase
    BY DEF SnapshotPhase
  <2>3. \E s \in WorkerState : worker' = [worker EXCEPT !["create"] = s]
    BY <1>4, <2>1, <2>2, MadeType DEF UploadSnapshot, GetMetadata, Goto
  <2> QED
    BY <1>0, <1>1, <2>3
<1>5. ASSUME NEW i \in SnapshotID, SyncUploadByKey(i) PROVE worker' \in [Worker -> WorkerState]
  <2>1. Update(SnapshotPhaseOf[upload[i].phase], None) \in WorkerState
    BY <1>5, MirroredPhases, MadeType DEF SyncUploadByKey
  <2> QED
    BY <1>0, <1>1, <1>5, <2>1 DEF SyncUploadByKey, Goto
<1>6. ASSUME NEW w \in Worker, GetLatest(w) \/ UpdateStatus(w) PROVE worker' \in [Worker -> WorkerState]
  <2>1. [worker[w] EXCEPT !.pc = "put"] \in WorkerState
    BY DEF TypeOK, WorkerState
  <2> QED
    BY <1>0, <1>6, <2>1, MadeType DEF GetLatest, UpdateStatus, Goto
<1> QED
  BY <1>1, <1>2, <1>3, <1>4, <1>5, <1>6 DEF CreateSnapshot, Mirror

\* What a status update writes is a Snapshot.
LEMMA UpdatedType ==
  ASSUME TypeOK, NEW w \in Worker
  PROVE  Updated(w) \in Snapshot /\ Notified(Updated(w)) \in PluginState
<1>1. Updated(w) \in Snapshot
  BY DEF TypeOK, WorkerState, Snapshot, Updated
<1> QED
  BY <1>1, MadeType DEF TypeOK, Notified

\* Every step keeps the types.
LEMMA StepType == TypeOK /\ [Next]_vars => TypeOK'
<1> SUFFICES ASSUME TypeOK, [Next]_vars PROVE TypeOK'
  OBVIOUS
<1>0. \A kind : Fault(kind) => FaultsOK'
  BY FaultType
<1>1. CASE UNCHANGED vars
  BY <1>1 DEF vars, TypeOK, FaultsOK
<1>2. CASE CreateSnapshotCR
  <2>0. [phase |-> "", id |-> None] \in Snapshot
    BY DEF Snapshot, SnapshotPhase
  <2>1. snapshot' \in Snapshot
    BY <1>2, <2>0 DEF TypeOK, CreateSnapshotCR
  <2>2. plugin' \in PluginState /\ fresh' \subseteq Worker \cup {"plugin"}
    BY <1>2, MadeType DEF TypeOK, CreateSnapshotCR
  <2>3. FaultsOK'
    BY <1>2, <1>0 DEF TypeOK, FaultsOK, CreateSnapshotCR
  <2> QED
    BY <1>2, <2>1, <2>2, <2>3 DEF TypeOK, CreateSnapshotCR
<1>3. CASE UpdateStatusNew
  <2>1. snapshot' \in Snapshot
    BY <1>3 DEF TypeOK, UpdateStatusNew, WriteSnapshot, Snapshot, SnapshotPhase
  <2>2. fresh' \subseteq Worker \cup {"plugin"}
    BY <1>3 DEF TypeOK, UpdateStatusNew, WriteSnapshot
  <2>3. plugin' \in PluginState
    BY <1>3, MadeType DEF UpdateStatusNew
  <2>4. FaultsOK'
    BY <1>3, <1>0 DEF TypeOK, FaultsOK, UpdateStatusNew
  <2> QED
    BY <1>3, <2>1, <2>2, <2>3, <2>4 DEF TypeOK, UpdateStatusNew
<1>4. CASE ListSnapshots
  BY <1>4, MadeType DEF TypeOK, FaultsOK, ListSnapshots
<1>5. CASE CreateSnapshot \/ \E i \in SnapshotID : Mirror(i)
  <2>1. worker' \in [Worker -> WorkerState]
    BY <1>5, WorkerType
  <2>2. CASE SyncSnapshotByKey \/ GetMetadata \/ \E i \in SnapshotID : SyncUploadByKey(i)
    BY <2>1, <2>2, <1>0 DEF TypeOK, FaultsOK, SyncSnapshotByKey, GetMetadata, SyncUploadByKey
  <2>3. CASE TakeSnapshot
    <3>1. upload' \in [SnapshotID -> Upload]
      <4>1. \A i \in SnapshotID : [upload EXCEPT ![i].local = TRUE] \in [SnapshotID -> Upload]
        <5>1. \A u \in Upload : [u EXCEPT !.local = TRUE] \in Upload
          BY DEF Upload
        <5> QED
          BY <5>1 DEF TypeOK
      <4> QED
        BY <2>3, <4>1, Taking DEF TypeOK
    <3>2. FaultsOK'
      BY <2>3, <1>0 DEF TypeOK, FaultsOK, TakeSnapshot
    <3> QED
      BY <2>1, <2>3, <3>1, <3>2 DEF TypeOK, TakeSnapshot
  <2>4. CASE UploadSnapshot
    <3>1. upload' \in [SnapshotID -> Upload]
      <4>1. \A i \in SnapshotID : Created(upload[i]) \in Upload
        BY DEF TypeOK, Upload, UploadPhase, Created
      <4>2. \A i : [upload EXCEPT ![i] = Created(@)] \in [SnapshotID -> Upload]
        BY <4>1 DEF TypeOK
      <4> QED
        BY <2>4, <4>2 DEF TypeOK, UploadSnapshot
    <3>2. FaultsOK'
      BY <2>4, <1>0 DEF TypeOK, FaultsOK, UploadSnapshot
    <3> QED
      BY <2>1, <2>4, <3>1, <3>2 DEF TypeOK, UploadSnapshot
  <2>5. ASSUME NEW w \in Worker, GetLatest(w) PROVE TypeOK'
    BY <2>1, <2>5, <1>0 DEF TypeOK, FaultsOK, GetLatest
  <2>6. ASSUME NEW w \in Worker, UpdateStatus(w) PROVE TypeOK'
    <3>1. snapshot' \in Snapshot /\ plugin' \in PluginState
      BY <2>6, UpdatedType DEF TypeOK, UpdateStatus, WriteSnapshot
    <3>2. fresh' \subseteq Worker \cup {"plugin"}
      BY <2>6 DEF TypeOK, UpdateStatus, WriteSnapshot
    <3>3. FaultsOK'
      BY <2>6, <1>0 DEF TypeOK, FaultsOK, UpdateStatus
    <3> QED
      BY <2>1, <2>6, <3>1, <3>2, <3>3 DEF TypeOK, UpdateStatus
  <2> QED
    BY <1>5, <2>2, <2>3, <2>4, <2>5, <2>6 DEF CreateSnapshot, Mirror, Worker
<1>6. CASE CleanUpSnapshot
  BY <1>6 DEF TypeOK, FaultsOK, CleanUpSnapshot, Snapshot
<1>7. CASE Crash
  BY <1>7, <1>0, MadeType DEF TypeOK, Crash
<1>8. ASSUME NEW i \in SnapshotID, DataManagerStep(i) PROVE TypeOK'
  <2>1. upload' \in [SnapshotID -> Upload]
    BY <1>8, DataManagerData DEF TypeOK
  <2>2. FaultsOK'
    BY <1>8, <1>0 DEF TypeOK, FaultsOK, DataManagerStep
  <2> QED
    BY <1>8, <2>1, <2>2 DEF TypeOK, DataManagerStep
<1> QED
  BY <1>1, <1>2, <1>3, <1>4, <1>5, <1>6, <1>7, <1>8 DEF Next, SnapshotRef

-----------------------------------------------------------------------------
(* The data *)

HasData(u) == u.local \/ u.remote \/ u.gaveUp

Protected(u) == u.remote \/ u.gaveUp

\* No step takes data away that is not protected, and an Upload is completed
\* only when it is.
LEMMA UploadStep ==
  ASSUME TypeOK, [Next]_vars, NEW i \in SnapshotID
  PROVE  /\ HasData(upload[i]) => HasData(upload'[i])
         /\ Protected(upload[i]) => Protected(upload'[i])
         /\ upload'[i].phase = "Completed" => upload[i].phase = "Completed" \/ Protected(upload'[i])
<1>1. CASE upload' = upload
  BY <1>1
<1>2. CASE TakeSnapshot
  <2>1. CASE upload' = upload
    BY <2>1
  <2>2. ASSUME NEW j \in SnapshotID, upload' = [upload EXCEPT ![j].local = TRUE]
        PROVE  /\ HasData(upload[i]) => HasData(upload'[i])
               /\ Protected(upload[i]) => Protected(upload'[i])
               /\ upload'[i].phase = upload[i].phase
    BY <2>2 DEF TypeOK, Upload, HasData, Protected
  <2> QED
    BY <1>2, <2>1, <2>2, Taking
<1>3. CASE UploadSnapshot
  <2>1. upload' = upload \/ upload' = [upload EXCEPT ![worker["create"].id] = Created(@)]
    BY <1>3 DEF UploadSnapshot
  <2>2. upload'[i] = upload[i] \/ upload'[i] = Created(upload[i])
    BY <2>1 DEF TypeOK
  <2> QED
    BY <2>2 DEF TypeOK, Upload, Created, HasData, Protected
<1>4. ASSUME NEW j \in SnapshotID, DataManagerStep(j)
      PROVE  /\ HasData(upload[i]) => HasData(upload'[i])
             /\ Protected(upload[i]) => Protected(upload'[i])
             /\ upload'[i].phase = "Completed" => upload[i].phase = "Completed" \/ Protected(upload'[i])
  <2>1. PICK v \in Upload : upload' = [upload EXCEPT ![j] = v] /\ Keeps(upload[j], v)
    BY <1>4, DataManagerData
  <2>2. CASE i = j
    <3>1. upload'[i] = v
      BY <2>1, <2>2 DEF TypeOK
    <3> QED
      BY <2>1, <2>2, <3>1 DEF Keeps, HasData, Protected
  <2>3. CASE i # j
    BY <2>1, <2>3 DEF TypeOK
  <2> QED
    BY <2>2, <2>3
<1> QED
  BY <1>1, <1>2, <1>3, <1>4 DEF vars, Next, SnapshotRef, CreateSnapshotCR, UpdateStatusNew, ListSnapshots,
     CreateSnapshot, SyncSnapshotByKey, GetMetadata, GetLatest, UpdateStatus, CleanUpSnapshot, Crash,
     Mirror, SyncUploadByKey

\* Every recorded ID is one whose data was not lost.
IdOK(id, up) == id # None => HasData(up[id])

DataOK ==
  /\ IdOK(snapshot.id, upload) /\ IdOK(plugin.id, upload)
  /\ \A w \in Worker : IdOK(worker[w].id, upload)
  /\ \A i \in SnapshotID : upload[i].phase = "Completed" => Protected(upload[i])

\* IDs are passed on, from the worker to the Snapshot and to the plugin, and
\* the only new one is that of a snapshot just taken.
LEMMA IdsPassedOn ==
  ASSUME TypeOK, [Next]_vars
  PROVE  /\ snapshot'.id \in {None, snapshot.id, worker["create"].id, worker["mirror"].id}
         /\ plugin'.id \in {None, plugin.id, snapshot.id, worker["create"].id, worker["mirror"].id}
         /\ \A w \in Worker : worker'[w].id \in {None, worker[w].id} \/ TakeSnapshot
<1>0. "create" \in Worker /\ "mirror" \in Worker /\ Worker = {"create", "mirror"}
  BY DEF Worker
<1>1. CASE UNCHANGED vars
  BY <1>1 DEF vars
<1>2. CASE SnapshotRef
  <2>0. worker' = worker
    BY <1>2 DEF SnapshotRef, CreateSnapshotCR, UpdateStatusNew, ListSnapshots
  <2>1. snapshot'.id \in {None, snapshot.id}
    <3>1. \/ snapshot' = [phase |-> "", id |-> None] \/ snapshot' = snapshot
          \/ snapshot' = [snapshot EXCEPT !.phase = "New"]
      BY <1>2 DEF SnapshotRef, CreateSnapshotCR, UpdateStatusNew, ListSnapshots, WriteSnapshot
    <3>2. snapshot' = [snapshot EXCEPT !.phase = "New"] => snapshot'.id = snapshot.id
      BY DEF TypeOK, Snapshot
    <3>3. [phase |-> "", id |-> None].id = None
      OBVIOUS
    <3> QED
      BY <3>1, <3>2, <3>3
  <2>2. plugin'.id \in {None, snapshot.id}
    <3>1. (\E pc : plugin' = Plugin(pc)) \/ plugin' = Heard(snapshot)
      BY <1>2 DEF SnapshotRef, CreateSnapshotCR, UpdateStatusNew, ListSnapshots
    <3>2. Heard(snapshot).id \in {None, snapshot.id}
      BY DEF Heard
    <3>3. \A pc : Plugin(pc).id = None
      BY Fields
    <3> QED
      BY <3>1, <3>2, <3>3
  <2> QED
    BY <2>0, <2>1, <2>2
<1>3. CASE SyncSnapshotByKey \/ UploadSnapshot \/ GetMetadata \/ \E i \in SnapshotID : SyncUploadByKey(i)
  <2>1. UNCHANGED <<snapshot, plugin>>
    BY <1>3 DEF SyncSnapshotByKey, UploadSnapshot, GetMetadata, SyncUploadByKey
  <2>2. \E w \in Worker : \E s \in WorkerState :
          worker' = [worker EXCEPT ![w] = s] /\ s.id \in {None, worker[w].id}
    <3>0. worker' \in [Worker -> WorkerState]
      BY <1>3, WorkerType DEF CreateSnapshot, Mirror
    <3>1. CASE SyncSnapshotByKey
      <4>0. At("take", None) \in WorkerState
        BY DEF At, WorkerState, SnapshotPhase
      <4>1. At("take", None) \in WorkerState /\ At("take", None).id = None
        BY <4>0 DEF At
      <4> QED
        BY <1>0, <3>1, <4>1 DEF SyncSnapshotByKey, Goto
    <3>2. CASE UploadSnapshot \/ GetMetadata
      <4>1. worker["create"].id \in SnapshotID \cup {None}
        BY <1>0 DEF TypeOK, WorkerState
      <4>2. "SnapshotFailed" \in SnapshotPhase /\ "Snapshotted" \in SnapshotPhase
        BY DEF SnapshotPhase
      <4>3. \E s \in {At("metadata", worker["create"].id), Update("SnapshotFailed", None),
                      Update("Snapshotted", worker["create"].id),
                      Update("SnapshotFailed", worker["create"].id)} :
              worker' = [worker EXCEPT !["create"] = s]
        BY <3>2 DEF UploadSnapshot, GetMetadata, Goto
      <4>4. \A s \in {At("metadata", worker["create"].id), Update("SnapshotFailed", None),
                      Update("Snapshotted", worker["create"].id),
                      Update("SnapshotFailed", worker["create"].id)} :
              s \in WorkerState /\ s.id \in {None, worker["create"].id}
        <5>1. \A id \in SnapshotID \cup {None} :
                /\ At("metadata", id) \in WorkerState /\ At("metadata", id).id = id
                /\ Update("SnapshotFailed", id) \in WorkerState /\ Update("SnapshotFailed", id).id = id
                /\ Update("Snapshotted", id) \in WorkerState /\ Update("Snapshotted", id).id = id
          <6>1. ASSUME NEW id \in SnapshotID \cup {None}
                PROVE  /\ At("metadata", id) \in WorkerState
                       /\ Update("SnapshotFailed", id) \in WorkerState
                       /\ Update("Snapshotted", id) \in WorkerState
            BY <4>2, MadeType
          <6>2. ASSUME NEW id
                PROVE  /\ At("metadata", id).id = id
                       /\ Update("SnapshotFailed", id).id = id /\ Update("Snapshotted", id).id = id
            BY DEF At, Update
          <6> QED
            BY <6>1, <6>2
        <5> QED
          BY <4>1, <5>1
      <4> QED
        BY <1>0, <4>3, <4>4
    <3>3. ASSUME NEW i \in SnapshotID, SyncUploadByKey(i)
          PROVE  \E s \in WorkerState : worker' = [worker EXCEPT !["mirror"] = s] /\ s.id = None
      <4>1. SnapshotPhaseOf[upload[i].phase] \in SnapshotPhase
        BY <3>3, MirroredPhases DEF SyncUploadByKey
      <4>2. /\ Update(SnapshotPhaseOf[upload[i].phase], None) \in WorkerState
            /\ Update(SnapshotPhaseOf[upload[i].phase], None).id = None
        <5>1. None \in SnapshotID \cup {None}
          OBVIOUS
        <5>2. Update(SnapshotPhaseOf[upload[i].phase], None) \in WorkerState
          BY <4>1, <5>1, MadeType
        <5>3. Update(SnapshotPhaseOf[upload[i].phase], None).id = None
          BY DEF Update
        <5> QED
          BY <5>2, <5>3
      <4> QED
        BY <3>3, <4>2 DEF SyncUploadByKey, Goto
    <3> QED
      BY <1>0, <1>3, <3>1, <3>2, <3>3
  <2>3. \A w \in Worker : worker'[w].id \in {None, worker[w].id}
    BY <2>2 DEF TypeOK
  <2> QED
    BY <2>1, <2>3
<1>4. CASE TakeSnapshot
  BY <1>4 DEF TakeSnapshot
<1>5. ASSUME NEW w \in Worker, GetLatest(w)
      PROVE  UNCHANGED <<snapshot, plugin>> /\ \A v \in Worker : worker'[v].id \in {None, worker[v].id}
  <2>1. [worker[w] EXCEPT !.pc = "put"].id = worker[w].id
    BY DEF TypeOK, WorkerState
  <2>2. \/ worker' = [worker EXCEPT ![w] = Idle]
        \/ worker' = [worker EXCEPT ![w] = [worker[w] EXCEPT !.pc = "put"]]
    BY <1>5 DEF GetLatest, Goto
  <2>3. UNCHANGED <<snapshot, plugin>>
    BY <1>5 DEF GetLatest
  <2>4. \A v \in Worker : v # w => worker'[v] = worker[v]
    BY <2>2 DEF TypeOK
  <2>5. worker'[w].id \in {None, worker[w].id}
    BY <2>1, <2>2, Fields DEF TypeOK
  <2> QED
    BY <2>3, <2>4, <2>5
<1>6. ASSUME NEW w \in Worker, UpdateStatus(w)
      PROVE  /\ snapshot'.id \in {snapshot.id, worker[w].id}
             /\ plugin'.id \in {None, plugin.id, snapshot.id, worker[w].id}
             /\ \A v \in Worker : worker'[v].id \in {None, worker[v].id}
  <2>1. Updated(w).id \in {snapshot.id, worker[w].id}
    BY DEF Updated
  <2>2. Notified(Updated(w)).id \in {None, plugin.id, snapshot.id, worker[w].id}
    BY <2>1 DEF Notified, Heard
  <2>3. snapshot' \in {snapshot, Updated(w)} /\ plugin' \in {plugin, Notified(Updated(w))}
    BY <1>6 DEF UpdateStatus, WriteSnapshot
  <2>4. \A v \in Worker : worker'[v].id \in {None, worker[v].id}
    BY <1>6, Fields DEF UpdateStatus, Goto, TypeOK
  <2> QED
    BY <2>1, <2>2, <2>3, <2>4
<1>7. CASE CleanUpSnapshot \/ Crash
  <2>1. snapshot' = [phase |-> "Gone", id |-> None] \/ snapshot' = snapshot
    BY <1>7 DEF CleanUpSnapshot, Crash
  <2>2. plugin' = plugin /\ (worker' = worker \/ worker' = [w \in Worker |-> Idle])
    BY <1>7 DEF CleanUpSnapshot, Crash
  <2>3. snapshot'.id \in {None, snapshot.id}
    BY <2>1
  <2>4. \A w \in Worker : worker'[w].id \in {None, worker[w].id}
    BY <2>2, Fields
  <2> QED
    BY <2>2, <2>3, <2>4
<1>8. ASSUME NEW i \in SnapshotID, DataManagerStep(i) PROVE UNCHANGED <<snapshot, plugin, worker>>
  BY <1>8 DEF DataManagerStep
<1> QED
  BY <1>0, <1>1, <1>2, <1>3, <1>4, <1>5, <1>6, <1>7, <1>8 DEF Next, CreateSnapshot, Mirror

\* Every step keeps the data of the IDs that somebody has recorded.
LEMMA StepData ==
  ASSUME TypeOK, TypeOK', DataOK, [Next]_vars
  PROVE  DataOK'
<1>0. "create" \in Worker /\ "mirror" \in Worker /\ Worker = {"create", "mirror"}
  BY DEF Worker
<1>1. \A id \in SnapshotID \cup {None} : IdOK(id, upload) => IdOK(id, upload')
  BY UploadStep DEF IdOK
<1>2. /\ snapshot.id \in SnapshotID \cup {None} /\ plugin.id \in SnapshotID \cup {None}
      /\ \A w \in Worker : worker[w].id \in SnapshotID \cup {None}
  BY DEF TypeOK, Snapshot, PluginState, WorkerState
<1>3. /\ IdOK(None, upload') /\ IdOK(snapshot.id, upload') /\ IdOK(plugin.id, upload')
      /\ \A w \in Worker : IdOK(worker[w].id, upload')
  BY <1>1, <1>2 DEF DataOK, IdOK
<1>4. IdOK(snapshot'.id, upload') /\ IdOK(plugin'.id, upload')
  BY <1>0, <1>3, IdsPassedOn
<1>5. \A w \in Worker : IdOK(worker'[w].id, upload')
  <2>1. CASE TakeSnapshot
    <3>1. ASSUME NEW i \in SnapshotID,
                 upload' = [upload EXCEPT ![i].local = TRUE],
                 worker' = [worker EXCEPT !["create"] = At(IF localMode THEN "metadata" ELSE "upload", i)]
          PROVE  IdOK(worker'["create"].id, upload')
      <4>1. worker'["create"].id = i
        <5>1. worker'["create"] = At(IF localMode THEN "metadata" ELSE "upload", i)
          BY <1>0, <3>1 DEF TypeOK
        <5>2. At(IF localMode THEN "metadata" ELSE "upload", i).id = i
          BY DEF At
        <5> QED
          BY <5>1, <5>2
      <4>2. HasData(upload'[i])
        BY <3>1 DEF TypeOK, Upload, HasData
      <4> QED
        BY <4>1, <4>2 DEF IdOK
    <3>2. ASSUME worker' = [worker EXCEPT !["create"] = Update("SnapshotFailed", None)]
          PROVE  IdOK(worker'["create"].id, upload')
      <4>1. worker'["create"].id = None
        <5>1. worker'["create"] = Update("SnapshotFailed", None)
          BY <1>0, <3>2 DEF TypeOK
        <5>2. Update("SnapshotFailed", None).id = None
          BY DEF Update
        <5> QED
          BY <5>1, <5>2
      <4> QED
        BY <4>1 DEF IdOK
    <3>3. worker'["mirror"] = worker["mirror"]
      BY <1>0, <2>1 DEF TypeOK, TakeSnapshot, Goto
    <3>4. IdOK(worker'["create"].id, upload')
      BY <2>1, <3>1, <3>2, Taking
    <3> QED
      BY <1>0, <1>3, <3>3, <3>4
  <2>2. CASE ~TakeSnapshot
    <3>1. \A w \in Worker : worker'[w].id \in {None, worker[w].id}
      BY <2>2, IdsPassedOn
    <3> QED
      BY <1>3, <3>1
  <2> QED
    BY <2>1, <2>2
<1>6. \A i \in SnapshotID : upload'[i].phase = "Completed" => Protected(upload'[i])
  BY UploadStep DEF DataOK
<1> QED
  BY <1>4, <1>5, <1>6 DEF DataOK, IdOK, Protected, HasData

-----------------------------------------------------------------------------
(* The ID *)

\* The snapshotWorker starts on a Snapshot that is New, hence has no ID, and
\* its last write, which sets the ID, makes it something else.
OrderOK ==
  /\ snapshot.phase \in {"", "New", "Gone"} => snapshot.id = None
  /\ snapshot.id # None => worker["create"].pc = "idle"
  /\ worker["mirror"].id = None
  /\ worker["mirror"].pc \in {"idle", "get", "put"}
  /\ \A w \in Worker : worker[w].pc \in {"get", "put"} => worker[w].want \notin {"", "New", "Gone"}
  /\ "plugin" \in fresh => snapshot.phase = ""
  /\ plugin.pc = "create" => snapshot.phase = "Gone" /\ \A w \in Worker : worker[w].pc = "idle"
  /\ worker["create"].pc # "idle" => snapshot.phase # ""
  /\ worker["create"].pc = "put" /\ "create" \notin fresh => snapshot.phase # "New"

\* The plugin's steps keep the order.
LEMMA PluginOrder ==
  ASSUME TypeOK, OrderOK, SnapshotRef
  PROVE  OrderOK'
<1>0. worker' = worker /\ plugin'.pc # "create"
  <2>1. worker' = worker
    BY DEF SnapshotRef, CreateSnapshotCR, UpdateStatusNew, ListSnapshots
  <2>2. Heard(snapshot).pc # "create"
    BY DEF Heard
  <2>3. (\E pc \in {"status", "error", "list", "watch"} : plugin' = Plugin(pc)) \/ plugin' = Heard(snapshot)
    BY DEF SnapshotRef, CreateSnapshotCR, UpdateStatusNew, ListSnapshots
  <2>4. \A pc : Plugin(pc).pc = pc
    BY Fields
  <2> QED
    BY <2>1, <2>2, <2>3, <2>4
<1>1. CASE snapshot' = snapshot /\ fresh' = fresh
  BY <1>0, <1>1 DEF OrderOK
<1>2. CASE plugin.pc = "create" /\ snapshot' = [phase |-> "", id |-> None] /\ fresh' = {"plugin"}
  <2>1. snapshot'.phase = "" /\ snapshot'.id = None
    BY <1>2
  <2>2. "create" \in Worker /\ "plugin" # "create"
    BY DEF Worker
  <2>3. worker["create"].pc = "idle"
    BY <1>2, <2>2 DEF OrderOK
  <2> QED
    BY <1>0, <1>2, <2>1, <2>3 DEF OrderOK
<1>3. CASE "plugin" \in fresh /\ snapshot' = [snapshot EXCEPT !.phase = "New"] /\ fresh' = {}
  <2>1. snapshot'.phase = "New" /\ snapshot'.id = snapshot.id
    BY <1>3 DEF TypeOK, Snapshot
  <2>2. snapshot.phase = "" /\ snapshot.id = None /\ worker["create"].pc = "idle"
    BY <1>3 DEF OrderOK
  <2> QED
    BY <1>0, <1>3, <2>1, <2>2 DEF OrderOK
<1> QED
  BY <1>1, <1>2, <1>3 DEF SnapshotRef, CreateSnapshotCR, UpdateStatusNew, ListSnapshots, WriteSnapshot

\* The steps of createSnapshot up to its status update keep the order.
LEMMA CreateOrder ==
  ASSUME TypeOK, OrderOK, SyncSnapshotByKey \/ TakeSnapshot \/ UploadSnapshot \/ GetMetadata
  PROVE  OrderOK'
<1>0. UNCHANGED <<snapshot, fresh, plugin>> /\ "create" \in Worker /\ Worker = {"create", "mirror"}
  BY DEF SyncSnapshotByKey, TakeSnapshot, UploadSnapshot, GetMetadata, Worker
<1>1. \E s : /\ worker' = [worker EXCEPT !["create"] = s]
             /\ \/ \E pc \in {"take", "upload", "metadata"} : \E id : s = At(pc, id)
                \/ \E phase \in {"Snapshotted", "SnapshotFailed"} : \E id : s = Update(phase, id)
  <2>1. CASE SyncSnapshotByKey \/ UploadSnapshot \/ GetMetadata
    BY <2>1 DEF SyncSnapshotByKey, UploadSnapshot, GetMetadata, Goto
  <2>2. CASE TakeSnapshot
    BY <2>2, Taking
  <2> QED
    BY <2>1, <2>2
<1>2. /\ worker'["mirror"] = worker["mirror"]
      /\ worker'["create"].pc \in {"take", "upload", "metadata", "get"}
      /\ worker'["create"].pc = "get" => worker'["create"].want \notin {"", "New", "Gone"}
  <2>1. PICK s : /\ worker' = [worker EXCEPT !["create"] = s]
                 /\ \/ \E pc \in {"take", "upload", "metadata"} : \E id : s = At(pc, id)
                    \/ \E phase \in {"Snapshotted", "SnapshotFailed"} : \E id : s = Update(phase, id)
    BY <1>1
  <2>2. worker'["create"] = s /\ worker'["mirror"] = worker["mirror"]
    BY <1>0, <2>1 DEF TypeOK
  <2>3. /\ s.pc \in {"take", "upload", "metadata", "get"}
        /\ s.pc = "get" => s.want \notin {"", "New", "Gone"}
    <3>1. ASSUME NEW pc \in {"take", "upload", "metadata"}, NEW id, s = At(pc, id)
          PROVE  s.pc = pc
      BY <3>1 DEF At
    <3>2. ASSUME NEW phase \in {"Snapshotted", "SnapshotFailed"}, NEW id, s = Update(phase, id)
          PROVE  s.pc = "get" /\ s.want = phase
      BY <3>2 DEF Update
    <3> QED
      BY <2>1, <3>1, <3>2
  <2> QED
    BY <2>2, <2>3
<1>3. snapshot.id = None /\ snapshot.phase # "" /\ plugin.pc # "create"
  <2>1. worker["create"].pc # "idle" \/ snapshot.phase = "New"
    BY DEF SyncSnapshotByKey, TakeSnapshot, UploadSnapshot, GetMetadata
  <2> QED
    BY <1>0, <2>1 DEF OrderOK
<1> QED
  BY <1>0, <1>2, <1>3 DEF OrderOK

\* Reading the Snapshot, and what the uploadWorker does before, keep the order.
LEMMA ReadOrder ==
  ASSUME TypeOK, OrderOK,
         \/ \E w \in Worker : GetLatest(w)
         \/ \E i \in SnapshotID : SyncUploadByKey(i)
  PROVE  OrderOK'
<1>0. "create" \in Worker /\ "mirror" \in Worker /\ Worker = {"create", "mirror"}
  BY DEF Worker
<1>1. ASSUME NEW w \in Worker, GetLatest(w) PROVE OrderOK'
  <2>1. UNCHANGED <<snapshot, plugin>> /\ worker[w].pc = "get"
        /\ ("plugin" \in fresh' => "plugin" \in fresh)
        /\ (w # "create" /\ "create" \in fresh => "create" \in fresh')
    BY <1>0, <1>1 DEF GetLatest
  <2>2. \A v \in Worker : v # w => worker'[v] = worker[v]
    BY <1>1 DEF GetLatest, Goto, TypeOK
  <2>3. CASE worker' = [worker EXCEPT ![w] = Idle]
    <3>1. worker'[w] = Idle /\ Idle.pc = "idle" /\ Idle.id = None
      BY <2>3, Fields DEF TypeOK
    <3>2. w = "create" => snapshot.phase # "" /\ plugin.pc # "create"
      BY <2>1 DEF OrderOK
    <3> QED
      BY <1>0, <2>1, <2>2, <3>1, <3>2 DEF OrderOK
  <2>4. CASE /\ worker' = [worker EXCEPT ![w] = [worker[w] EXCEPT !.pc = "put"]]
             /\ fresh' = fresh \cup {w}
    <3>1. worker'[w].pc = "put" /\ worker'[w].id = worker[w].id /\ worker'[w].want = worker[w].want
      BY <2>4 DEF TypeOK, WorkerState
    <3>2. w = "create" => snapshot.id = None
      BY <2>1 DEF OrderOK
    <3> QED
      BY <1>0, <2>1, <2>2, <2>4, <3>1, <3>2 DEF OrderOK
  <2> QED
    BY <1>1, <2>3, <2>4 DEF GetLatest, Goto
<1>2. ASSUME NEW i \in SnapshotID, SyncUploadByKey(i) PROVE OrderOK'
  <2>1. UNCHANGED <<snapshot, plugin, fresh>>
    BY <1>2 DEF SyncUploadByKey
  <2>2. SnapshotPhaseOf[upload[i].phase] \in SnapshotPhase \ {"", "New"}
    BY <1>2, MirroredPhases DEF SyncUploadByKey
  <2>3. worker'["create"] = worker["create"]
        /\ worker'["mirror"] = Update(SnapshotPhaseOf[upload[i].phase], None)
    BY <1>0, <1>2 DEF SyncUploadByKey, Goto, TypeOK
  <2>4. /\ worker'["mirror"].pc = "get" /\ worker'["mirror"].id = None
        /\ worker'["mirror"].want \notin {"", "New", "Gone"}
    <3> DEFINE want == SnapshotPhaseOf[upload[i].phase]
    <3>1. /\ Update(want, None).pc = "get" /\ Update(want, None).id = None
          /\ Update(want, None).want = want
      BY DEF Update
    <3>2. want \notin {"", "New", "Gone"}
      BY <2>2 DEF SnapshotPhase
    <3> QED
      BY <2>3, <3>1, <3>2
  <2> QED
    BY <1>0, <1>2, <2>1, <2>3, <2>4 DEF OrderOK, SyncUploadByKey
<1> QED
  BY <1>1, <1>2

\* The writes of both workers keep the order.
LEMMA WriteOrder ==
  ASSUME TypeOK, OrderOK, NEW w \in Worker, UpdateStatus(w)
  PROVE  OrderOK'
<1>0. "create" \in Worker /\ "mirror" \in Worker /\ Worker = {"create", "mirror"}
  BY DEF Worker
<1>1. worker'[w] = Idle /\ Idle.pc = "idle" /\ Idle.id = None
      /\ \A v \in Worker : v # w => worker'[v] = worker[v]
  BY Fields DEF UpdateStatus, Goto, TypeOK
<1>2. worker[w].pc = "put" /\ worker[w].want \notin {"", "New", "Gone"}
  BY DEF UpdateStatus, OrderOK
<1>3. plugin' = plugin \/ plugin'.pc # "create"
  <2>1. plugin' = plugin \/ plugin' = Heard(Updated(w))
    BY DEF UpdateStatus, Notified
  <2>2. Heard(Updated(w)).pc # "create"
    BY DEF Heard
  <2> QED
    BY <2>1, <2>2
<1>4. CASE snapshot' = Updated(w) /\ fresh' = {} /\ w \in fresh
  <2>1. /\ snapshot'.phase = worker[w].want
        /\ snapshot'.id = IF worker[w].id = None THEN snapshot.id ELSE worker[w].id
    <3>1. /\ Updated(w).phase = worker[w].want
          /\ Updated(w).id = IF worker[w].id = None THEN snapshot.id ELSE worker[w].id
      BY DEF Updated
    <3> QED
      BY <1>4, <3>1
  <2>2. snapshot'.phase \notin {"", "New", "Gone"}
    BY <1>2, <2>1
  <2>3. snapshot'.id # None => worker'["create"].pc = "idle"
    <3>1. CASE w = "create"
      BY <1>1, <3>1
    <3>2. CASE w = "mirror"
      BY <1>0, <1>1, <2>1, <3>2 DEF OrderOK
    <3> QED
      BY <1>0, <3>1, <3>2
  <2>4. plugin'.pc # "create"
    <3>1. CASE plugin.pc = "create"
      BY <1>2, <3>1 DEF OrderOK
    <3>2. CASE plugin.pc # "create"
      BY <1>3, <3>2
    <3> QED
      BY <3>1, <3>2
  <2> QED
    BY <1>0, <1>1, <1>4, <2>2, <2>3, <2>4 DEF OrderOK
<1>5. CASE snapshot' = snapshot /\ plugin' = plugin /\ fresh' = fresh \ {w}
  <2>1. "plugin" \in fresh' => "plugin" \in fresh
    BY <1>5
  <2>2. w = "mirror" => (("create" \in fresh) <=> ("create" \in fresh'))
    BY <1>0, <1>5
  <2> QED
    BY <1>0, <1>1, <1>2, <1>5, <2>1, <2>2 DEF OrderOK
<1> QED
  BY <1>4, <1>5 DEF UpdateStatus, WriteSnapshot

\* The order is kept by every step.
LEMMA StepOrder ==
  ASSUME TypeOK, OrderOK, [Next]_vars
  PROVE  OrderOK'
<1>0. "create" \in Worker /\ "mirror" \in Worker /\ "plugin" \notin Worker
  BY DEF Worker
<1>1. CASE UNCHANGED <<snapshot, fresh, plugin, worker>>
  BY <1>1 DEF OrderOK
<1>2. CASE CleanUpSnapshot
  <2>1. snapshot'.phase = "Gone" /\ snapshot'.id = None
    BY <1>2 DEF CleanUpSnapshot
  <2>2. fresh' = {} /\ plugin' = plugin /\ worker' = worker /\ plugin.pc # "create"
        /\ worker["create"].pc = "idle"
    BY <1>2 DEF CleanUpSnapshot
  <2> QED
    BY <2>1, <2>2 DEF OrderOK
<1>3. CASE Crash
  <2>1. \A w \in Worker : worker'[w].pc = "idle" /\ worker'[w].id = None
    <3>1. \A w \in Worker : worker'[w] = Idle
      BY <1>3 DEF Crash
    <3> QED
      BY <3>1, Fields
  <2>2. UNCHANGED <<snapshot, plugin>> /\ ("plugin" \in fresh' => "plugin" \in fresh)
    BY <1>3 DEF Crash
  <2> QED
    BY <1>0, <2>1, <2>2 DEF OrderOK
<1>4. CASE SnapshotRef
  BY <1>4, PluginOrder
<1>5. CASE SyncSnapshotByKey \/ TakeSnapshot \/ UploadSnapshot \/ GetMetadata
  BY <1>5, CreateOrder
<1>6. ASSUME NEW w \in Worker, GetLatest(w) PROVE OrderOK'
  BY <1>6, ReadOrder
<1>7. ASSUME NEW w \in Worker, UpdateStatus(w) PROVE OrderOK'
  BY <1>7, WriteOrder
<1>8. ASSUME NEW i \in SnapshotID, SyncUploadByKey(i) PROVE OrderOK'
  BY <1>8, ReadOrder
<1>9. ASSUME NEW i \in SnapshotID, DataManagerStep(i) PROVE OrderOK'
  BY <1>1, <1>9 DEF DataManagerStep
<1> QED
  BY <1>0, <1>1, <1>2, <1>3, <1>4, <1>5, <1>6, <1>7, <1>8, <1>9 DEF Next, vars, CreateSnapshot, Mirror

-----------------------------------------------------------------------------
(* One local snapshot, unless calls fail or the driver dies *)

\* A fault is never forgotten.
LEMMA FaultsStay ==
  ASSUME TypeOK, [Next]_vars, NEW kind, ~Happened(kind)'
  PROVE  ~Happened(kind)
<1>1. faults' = faults \/ \E k : Fault(k)
  BY DEF Next, vars, SnapshotRef, CreateSnapshotCR, UpdateStatusNew, ListSnapshots, CreateSnapshot,
     SyncSnapshotByKey, TakeSnapshot, UploadSnapshot, GetMetadata, GetLatest, UpdateStatus,
     CleanUpSnapshot, Crash, Mirror, SyncUploadByKey, DataManagerStep
<1>2. ASSUME NEW k, Fault(k) PROVE faults.kinds \subseteq faults'.kinds
  BY <1>2 DEF Fault
<1> QED
  BY <1>1, <1>2 DEF Happened

\* A local snapshot is still to be taken.
Early ==
  \/ plugin.pc = "create"
  \/ worker["create"].pc = "take"
  \/ worker["create"].pc = "idle" /\ snapshot.phase \in {"", "New"}

\* Until it is taken there is no local snapshot; and there is at most one.
OneOK ==
  /\ Early => Unused = SnapshotID
  /\ \A i, j \in SnapshotID \ Unused : i = j

\* A local snapshot comes into being by TakeSnapshot alone.
LEMMA UnusedStep ==
  ASSUME TypeOK, DataOK, [Next]_vars, ~TakeSnapshot
  PROVE  Unused \subseteq Unused'
<1>0. ~HasData(NoUpload) /\ NoUpload.phase = "Absent"
  BY DEF HasData, NoUpload
<1>1. CASE upload' = upload
  BY <1>1 DEF Unused
<1>2. CASE UploadSnapshot
  <2> DEFINE i == worker["create"].id
  <2>1. upload' = upload \/ upload' = [upload EXCEPT ![i] = Created(@)]
    BY <1>2 DEF UploadSnapshot
  <2>2. i # None => upload[i] # NoUpload
    BY <1>0 DEF DataOK, IdOK, Worker
  <2>3. None \notin SnapshotID
    BY SnapshotAssumption
  <2>4. i \notin Unused
    BY <2>2, <2>3 DEF Unused
  <2>5. \A j \in SnapshotID : j # i => upload'[j] = upload[j]
    BY <2>1 DEF TypeOK
  <2> QED
    BY <2>4, <2>5 DEF Unused
<1>3. ASSUME NEW i \in SnapshotID, DataManagerStep(i) PROVE Unused \subseteq Unused'
  <2>1. upload[i] # NoUpload
    BY <1>0, <1>3 DEF DataManagerStep
  <2>2. \A j \in SnapshotID : j # i => upload'[j] = upload[j]
    BY <1>3, DataManagerData DEF TypeOK
  <2> QED
    BY <2>1, <2>2 DEF Unused
<1> QED
  BY <1>1, <1>2, <1>3 DEF vars, Next, SnapshotRef, CreateSnapshotCR, UpdateStatusNew, ListSnapshots,
     CreateSnapshot, SyncSnapshotByKey, GetMetadata, GetLatest, UpdateStatus, CleanUpSnapshot, Crash,
     Mirror, SyncUploadByKey

\* Once the local snapshot is taken, no step makes the driver take another one.
LEMMA EarlyStep ==
  ASSUME TypeOK, OrderOK, [Next]_vars, ~TakeSnapshot, ~Happened("api")', ~Happened("crash")', Early'
  PROVE  Early
<1>0. "create" \in Worker /\ Worker = {"create", "mirror"}
  BY DEF Worker
<1>1. ~Fault("api") /\ ~Fault("crash")
  BY DEF Fault, Happened
<1>2. CASE snapshot' = snapshot /\ plugin' = plugin /\ worker'["create"] = worker["create"]
  BY <1>2 DEF Early
<1>3. CASE SnapshotRef
  <2>1. plugin.pc = "create" \/ "plugin" \in fresh \/ snapshot' = snapshot
    BY <1>3 DEF SnapshotRef, CreateSnapshotCR, UpdateStatusNew, ListSnapshots
  <2>2. worker' = worker
    BY <1>3 DEF SnapshotRef, CreateSnapshotCR, UpdateStatusNew, ListSnapshots
  <2>3. plugin'.pc # "create"
    <3>1. Heard(snapshot).pc # "create"
      BY DEF Heard
    <3>2. (\E pc \in {"status", "error", "list", "watch"} : plugin' = Plugin(pc)) \/ plugin' = Heard(snapshot)
      BY <1>3 DEF SnapshotRef, CreateSnapshotCR, UpdateStatusNew, ListSnapshots
    <3>3. \A pc : Plugin(pc).pc = pc
      BY Fields
    <3> QED
      BY <3>1, <3>2, <3>3
  <2> QED
    BY <2>1, <2>2, <2>3 DEF Early, OrderOK
<1>4. CASE SyncSnapshotByKey
  BY <1>4 DEF SyncSnapshotByKey, Early
<1>5. CASE UploadSnapshot \/ GetMetadata
  <2>1. UNCHANGED <<snapshot, plugin>>
    BY <1>5 DEF UploadSnapshot, GetMetadata
  <2>2. PICK s : /\ worker' = [worker EXCEPT !["create"] = s]
                 /\ (\E id : s = At("metadata", id)) \/ \E phase, id : s = Update(phase, id)
    BY <1>5 DEF UploadSnapshot, GetMetadata, Goto
  <2>3. worker'["create"].pc \in {"metadata", "get"}
    <3>1. worker'["create"] = s
      BY <1>0, <2>2 DEF TypeOK
    <3>2. s.pc \in {"metadata", "get"}
      <4>1. ASSUME NEW pc, NEW id, s = At(pc, id) PROVE s.pc = pc
        BY <4>1 DEF At
      <4>2. ASSUME NEW phase, NEW id, s = Update(phase, id) PROVE s.pc = "get"
        BY <4>2 DEF Update
      <4> QED
        BY <2>2, <4>1, <4>2
    <3> QED
      BY <3>1, <3>2
  <2> QED
    BY <2>1, <2>3 DEF Early
<1>6. CASE GetLatest("create")
  <2>1. UNCHANGED <<snapshot, plugin>>
    BY <1>6 DEF GetLatest
  <2>2. CASE snapshot.phase \in {worker["create"].want, "Gone"}
    <3>1. snapshot.phase \notin {"", "New"} /\ worker'["create"].pc = "idle"
      BY <1>0, <1>6, <2>2, Fields DEF GetLatest, OrderOK, Goto, TypeOK
    <3> QED
      BY <2>1, <3>1 DEF Early
  <2>3. CASE worker' = [worker EXCEPT !["create"] = [worker["create"] EXCEPT !.pc = "put"]]
    <3>1. worker'["create"].pc = "put"
      BY <1>0, <2>3 DEF TypeOK, WorkerState
    <3> QED
      BY <2>1, <3>1 DEF Early
  <2> QED
    BY <1>1, <1>6, <2>2, <2>3 DEF GetLatest, Goto
<1>7. ASSUME NEW w \in Worker, UpdateStatus(w) PROVE Early
  <2>1. worker[w].pc = "put" /\ worker[w].want \notin {"", "New", "Gone"}
    BY <1>7 DEF UpdateStatus, OrderOK
  <2>2. worker'[w].pc = "idle" /\ (w # "create" => worker'["create"] = worker["create"])
    BY <1>0, <1>7, Fields DEF UpdateStatus, Goto, TypeOK
  <2>3. CASE snapshot' = Updated(w) /\ plugin' = Notified(Updated(w))
    <3>1. snapshot'.phase \notin {"", "New"}
      <4>1. Updated(w).phase = worker[w].want
        BY DEF Updated
      <4> QED
        BY <2>1, <2>3, <4>1
    <3>2. plugin'.pc = "create" => plugin.pc = "create"
      <4>1. Heard(Updated(w)).pc # "create"
        BY DEF Heard
      <4> QED
        BY <2>3, <4>1 DEF Notified
    <3> QED
      BY <2>2, <3>1, <3>2 DEF Early
  <2>4. CASE snapshot' = snapshot /\ plugin' = plugin /\ w \notin fresh
    <3>1. w = "create" => snapshot.phase \notin {"", "New"}
      BY <2>1, <2>4 DEF OrderOK
    <3> QED
      BY <2>2, <2>4, <3>1 DEF Early
  <2> QED
    BY <1>1, <1>7, <2>3, <2>4 DEF UpdateStatus, WriteSnapshot
<1>8. CASE CleanUpSnapshot
  <2>1. snapshot'.phase = "Gone"
    BY <1>8 DEF CleanUpSnapshot
  <2> QED
    BY <1>8, <2>1 DEF CleanUpSnapshot, Early
<1>9. ASSUME NEW i \in SnapshotID, SyncUploadByKey(i) \/ GetLatest("mirror") PROVE Early
  BY <1>0, <1>2, <1>9 DEF SyncUploadByKey, GetLatest, Goto, TypeOK
<1>10. ASSUME NEW i \in SnapshotID, DataManagerStep(i) PROVE Early
  BY <1>2, <1>10 DEF DataManagerStep
<1>11. ~Crash
  BY <1>1 DEF Crash
<1> QED
  BY <1>0, <1>2, <1>3, <1>4, <1>5, <1>6, <1>7, <1>8, <1>9, <1>10, <1>11 DEF Next, vars, CreateSnapshot, Mirror

\* As long as calls are answered and the driver lives, one local snapshot is
\* taken for the Snapshot.
LEMMA StepOne ==
  ASSUME TypeOK, OrderOK, DataOK, OneOK, [Next]_vars, ~Happened("api")', ~Happened("crash")'
  PROVE  OneOK'
<1>0. Unused \subseteq SnapshotID /\ Unused' \subseteq SnapshotID
  BY DEF Unused
<1>1. CASE ~TakeSnapshot
  <2>1. Unused \subseteq Unused' /\ (Early' => Early)
    BY <1>1, UnusedStep, EarlyStep
  <2> QED
    BY <1>0, <2>1 DEF OneOK
<1>2. CASE TakeSnapshot
  <2>1. Unused = SnapshotID /\ plugin.pc # "create"
    BY <1>2 DEF TakeSnapshot, OneOK, Early, OrderOK, Worker
  <2>2. UNCHANGED plugin
    BY <1>2 DEF TakeSnapshot
  <2>3. worker'["create"].pc \in {"metadata", "upload", "get"}
    <3>1. PICK s : /\ worker' = [worker EXCEPT !["create"] = s]
                   /\ \/ \E id : s = At("metadata", id) \/ s = At("upload", id)
                      \/ \E phase, id : s = Update(phase, id)
      <4>1. \A i : At(IF localMode THEN "metadata" ELSE "upload", i) \in {At("metadata", i), At("upload", i)}
        OBVIOUS
      <4> QED
        BY <1>2, <4>1, Taking
    <3>2. worker'["create"] = s
      BY <3>1 DEF TypeOK, Worker
    <3>3. s.pc \in {"metadata", "upload", "get"}
      <4>1. ASSUME NEW pc, NEW id, s = At(pc, id) PROVE s.pc = pc
        BY <4>1 DEF At
      <4>2. ASSUME NEW phase, NEW id, s = Update(phase, id) PROVE s.pc = "get"
        BY <4>2 DEF Update
      <4> QED
        BY <3>1, <4>1, <4>2
    <3> QED
      BY <3>2, <3>3
  <2>4. ~Early'
    BY <2>1, <2>2, <2>3 DEF Early
  <2>5. CASE upload' = upload
    BY <2>1, <2>4, <2>5 DEF OneOK, Unused
  <2>6. ASSUME NEW i \in SnapshotID, upload' = [upload EXCEPT ![i].local = TRUE]
        PROVE  \A j \in SnapshotID \ Unused' : j = i
    <3>1. \A j \in SnapshotID : j # i => upload'[j] = upload[j]
      BY <2>6 DEF TypeOK
    <3> QED
      BY <2>1, <3>1 DEF Unused
  <2> QED
    BY <1>2, <2>4, <2>5, <2>6, Taking DEF OneOK
<1> QED
  BY <1>1, <1>2

-----------------------------------------------------------------------------
(* The phase Uploaded *)

\* Uploaded is said, or about to be said, of a Snapshot only after data of a
\* local snapshot is in the repository or given up.
UploadedOK ==
  snapshot.phase = "Uploaded" \/ (\E w \in Worker : worker[w].want = "Uploaded") =>
    \E i \in SnapshotID : Protected(upload[i])

\* The phases that workers write come from the uploadWorker's reading of an
\* Upload or from createSnapshot.
LEMMA StepUploaded ==
  ASSUME TypeOK, DataOK, UploadedOK, [Next]_vars
  PROVE  UploadedOK'
<1>0. "create" \in Worker /\ "mirror" \in Worker /\ Worker = {"create", "mirror"}
  BY DEF Worker
<1>1. (\E i \in SnapshotID : Protected(upload[i])) => \E i \in SnapshotID : Protected(upload'[i])
  BY UploadStep
<1>2. ASSUME snapshot'.phase = "Uploaded" => snapshot.phase = "Uploaded" \/ \E v \in Worker : worker[v].want = "Uploaded",
             \A w \in Worker : worker'[w].want = "Uploaded" => \E v \in Worker : worker[v].want = "Uploaded"
      PROVE  UploadedOK'
  BY <1>1, <1>2 DEF UploadedOK
<1>3. CASE worker' = worker /\ (snapshot' = snapshot \/ snapshot'.phase \in {"", "New", "Gone"})
  BY <1>2, <1>3
<1>4. CASE SnapshotRef
  <2>1. worker' = worker
    BY <1>4 DEF SnapshotRef, CreateSnapshotCR, UpdateStatusNew, ListSnapshots
  <2>2. \/ snapshot' = snapshot
        \/ snapshot' = [phase |-> "", id |-> None]
        \/ snapshot' = [snapshot EXCEPT !.phase = "New"]
    BY <1>4 DEF SnapshotRef, CreateSnapshotCR, UpdateStatusNew, ListSnapshots, WriteSnapshot
  <2>3. [phase |-> "", id |-> None].phase = "" /\ [snapshot EXCEPT !.phase = "New"].phase = "New"
    BY DEF TypeOK, Snapshot
  <2> QED
    BY <1>3, <2>1, <2>2, <2>3
<1>5. CASE SyncSnapshotByKey \/ TakeSnapshot \/ UploadSnapshot \/ GetMetadata
  <2>1. PICK s : /\ worker' = [worker EXCEPT !["create"] = s]
                 /\ \/ \E pc, id : s = At(pc, id)
                    \/ \E phase \in {"Snapshotted", "SnapshotFailed"} : \E id : s = Update(phase, id)
    <3>1. CASE SyncSnapshotByKey \/ UploadSnapshot \/ GetMetadata
      BY <3>1 DEF SyncSnapshotByKey, UploadSnapshot, GetMetadata, Goto
    <3>2. CASE TakeSnapshot
      BY <3>2, Taking
    <3> QED
      BY <1>5, <3>1, <3>2
  <2>2. worker'["create"] = s /\ worker'["mirror"] = worker["mirror"]
    BY <1>0, <2>1 DEF TypeOK
  <2>3. s.want # "Uploaded"
    <3>1. ASSUME NEW pc, NEW id, s = At(pc, id) PROVE s.want = ""
      BY <3>1 DEF At
    <3>2. ASSUME NEW phase, NEW id, s = Update(phase, id) PROVE s.want = phase
      BY <3>2 DEF Update
    <3> QED
      BY <2>1, <3>1, <3>2
  <2>4. snapshot' = snapshot
    BY <1>5 DEF SyncSnapshotByKey, TakeSnapshot, UploadSnapshot, GetMetadata
  <2> QED
    BY <1>0, <1>2, <2>2, <2>3, <2>4
<1>6. ASSUME NEW w \in Worker, GetLatest(w) \/ UpdateStatus(w) PROVE UploadedOK'
  <2>1. \A v \in Worker : worker'[v].want \in {"", worker[v].want}
    <3>1. worker' = [worker EXCEPT ![w] = Idle] \/ worker' = [worker EXCEPT ![w] = [worker[w] EXCEPT !.pc = "put"]]
      BY <1>6 DEF GetLatest, UpdateStatus, Goto
    <3>2. Idle.want = "" /\ [worker[w] EXCEPT !.pc = "put"].want = worker[w].want
      <4>1. Idle.want = ""
        BY Fields
      <4>2. [worker[w] EXCEPT !.pc = "put"].want = worker[w].want
        BY DEF TypeOK, WorkerState
      <4> QED
        BY <4>1, <4>2
    <3>3. worker'[w].want \in {"", worker[w].want} /\ \A v \in Worker : v # w => worker'[v] = worker[v]
      <4>1. worker'[w] = Idle \/ worker'[w] = [worker[w] EXCEPT !.pc = "put"]
        BY <3>1 DEF TypeOK
      <4>2. \A v \in Worker : v # w => worker'[v] = worker[v]
        BY <3>1 DEF TypeOK
      <4> QED
        BY <3>2, <4>1, <4>2
    <3> QED
      BY <3>3
  <2>2. snapshot' = snapshot \/ snapshot' = Updated(w)
    BY <1>6 DEF GetLatest, UpdateStatus, WriteSnapshot
  <2>3. Updated(w).phase = worker[w].want
    BY DEF Updated
  <2> QED
    BY <1>2, <2>1, <2>2, <2>3
<1>7. ASSUME NEW i \in SnapshotID, SyncUploadByKey(i) PROVE UploadedOK'
  <2> DEFINE want == SnapshotPhaseOf[upload[i].phase]
  <2>1. worker'["mirror"] = Update(want, None) /\ worker'["create"] = worker["create"] /\ snapshot' = snapshot
    BY <1>0, <1>7 DEF SyncUploadByKey, Goto, TypeOK
  <2>2. Update(want, None).want = want
    BY DEF Update
  <2>3. CASE want = "Uploaded"
    <3>1. upload[i].phase = "Completed"
      BY <1>7, <2>3, MirroredPhases DEF SyncUploadByKey
    <3> QED
      BY <1>1, <3>1 DEF DataOK, UploadedOK
  <2>4. CASE want # "Uploaded"
    BY <1>0, <1>2, <2>1, <2>2, <2>4
  <2> QED
    BY <2>3, <2>4
<1>8. CASE CleanUpSnapshot
  <2>1. snapshot'.phase = "Gone" /\ worker' = worker
    BY <1>8 DEF CleanUpSnapshot
  <2> QED
    BY <1>3, <2>1
<1>9. CASE Crash
  <2>1. \A w \in Worker : worker'[w] = Idle
    BY <1>9 DEF Crash
  <2> QED
    BY <1>2, <1>9, <2>1, Fields DEF Crash
<1>10. ASSUME NEW i \in SnapshotID, DataManagerStep(i) PROVE UploadedOK'
  BY <1>3, <1>10 DEF DataManagerStep
<1> QED
  BY <1>0, <1>3, <1>4, <1>5, <1>6, <1>7, <1>8, <1>9, <1>10 DEF Next, vars, CreateSnapshot, Mirror

-----------------------------------------------------------------------------
(* The theorems *)

\* The inductive invariant.
SnapshotInv ==
  /\ TypeOK /\ DataOK /\ OrderOK /\ UploadedOK
  /\ ~Happened("api") /\ ~Happened("crash") => OneOK

\* It holds initially.
LEMMA InitInv == Init => SnapshotInv
<1> SUFFICES ASSUME Init PROVE SnapshotInv
  OBVIOUS
<1>1. \A w \in Worker : worker[w].pc = "idle" /\ worker[w].id = None /\ worker[w].want = ""
  BY Fields DEF Init
<1>2. snapshot.phase = "Gone" /\ snapshot.id = None /\ plugin.pc = "create" /\ plugin.id = None /\ fresh = {}
  BY Fields DEF Init
<1>3. \A i \in SnapshotID : upload[i] = NoUpload /\ NoUpload.phase = "Absent"
  BY DEF Init, NoUpload
<1>4. DataOK
  BY <1>1, <1>2, <1>3 DEF DataOK, IdOK
<1>5. OrderOK /\ UploadedOK
  BY <1>1, <1>2 DEF OrderOK, UploadedOK, Worker
<1>6. OneOK
  BY <1>3 DEF OneOK, Unused
<1> QED
  BY <1>4, <1>5, <1>6, InitType DEF SnapshotInv

\* The invariant of the plugin, the two workers and the data managers: every
\* recorded ID has data, the status is written in an order that keeps it, and
\* without failing calls one local snapshot is taken.
THEOREM Invariance == Spec => []SnapshotInv
<1>1. ASSUME SnapshotInv, [Next]_vars PROVE SnapshotInv'
  <2>0. TypeOK'
    BY <1>1, StepType DEF SnapshotInv
  <2>1. DataOK' /\ OrderOK' /\ UploadedOK'
    BY <1>1, <2>0, StepData, StepOrder, StepUploaded DEF SnapshotInv
  <2>2. ~Happened("api")' /\ ~Happened("crash")' => OneOK'
    BY <1>1, FaultsStay, StepOne DEF SnapshotInv
  <2> QED
    BY <2>0, <2>1, <2>2 DEF SnapshotInv
<1> QED
  BY <1>1, InitInv, PTL DEF Spec

\* The ID that a successful backup records is never one whose data was lost,
\* however the plugin, the workers and the data managers interleave.
THEOREM RecordedHasData == Spec => []BackupHasData
<1>1. SnapshotInv => BackupHasData
  BY DEF SnapshotInv, DataOK, IdOK, HasData, BackupHasData
<1> QED
  BY <1>1, Invariance, PTL

\* Without failing calls and crashes, the phase that one worker writes and the
\* ID that the other one writes are about the same local snapshot.
THEOREM UploadedProtected == Spec => []UploadedIsProtected
<1>1. ASSUME SnapshotInv PROVE UploadedIsProtected
  <2> SUFFICES ASSUME ~Happened("api"), ~Happened("crash"), snapshot.phase = "Uploaded", snapshot.id # None
               PROVE  Protected(upload[snapshot.id])
    BY DEF UploadedIsProtected, Protected
  <2>0. ~HasData(NoUpload)
    BY DEF HasData, NoUpload
  <2>1. PICK j \in SnapshotID : Protected(upload[j])
    BY <1>1 DEF SnapshotInv, UploadedOK
  <2>2. snapshot.id \in SnapshotID /\ HasData(upload[snapshot.id])
    BY <1>1 DEF SnapshotInv, TypeOK, Snapshot, DataOK, IdOK
  <2>3. HasData(upload[j])
    BY <2>1 DEF HasData, Protected
  <2>4. j \notin Unused /\ snapshot.id \notin Unused
    BY <2>0, <2>2, <2>3 DEF Unused
  <2>5. snapshot.id = j
    BY <1>1, <2>2, <2>4 DEF SnapshotInv, OneOK
  <2> QED
    BY <2>1, <2>5
<1> QED
  BY <1>1, Invariance, PTL

\* No write of the status, by either worker, loses or replaces the snapshot ID.
THEOREM RecordedStays == Spec => IDIsKept
<1> DEFINE Kept == snapshot.id # None => snapshot'.id = snapshot.id \/ snapshot'.phase = "Gone"
<1>1. ASSUME SnapshotInv, Next PROVE Kept
  <2> SUFFICES ASSUME snapshot.id # None PROVE snapshot'.id = snapshot.id \/ snapshot'.phase = "Gone"
    OBVIOUS
  <2>0. snapshot.phase \notin {"", "New", "Gone"} /\ worker["create"].pc = "idle" /\ worker["mirror"].id = None
    BY <1>1 DEF SnapshotInv, OrderOK
  <2>1. CASE SnapshotRef
    <3>1. plugin.pc # "create" /\ "plugin" \notin fresh
      BY <1>1, <2>0 DEF SnapshotInv, OrderOK
    <3> QED
      BY <2>1, <3>1 DEF SnapshotRef, CreateSnapshotCR, UpdateStatusNew, ListSnapshots
  <2>2. CASE CreateSnapshot
    BY <2>0, <2>2 DEF CreateSnapshot, SyncSnapshotByKey, TakeSnapshot, UploadSnapshot, GetMetadata,
       GetLatest, UpdateStatus
  <2>3. CASE CleanUpSnapshot
    BY <2>3 DEF CleanUpSnapshot
  <2>4. CASE Crash
    BY <2>4 DEF Crash
  <2>5. ASSUME NEW i \in SnapshotID, Mirror(i) PROVE snapshot'.id = snapshot.id
    <3>1. snapshot' = snapshot \/ snapshot' = Updated("mirror")
      BY <2>5 DEF Mirror, SyncUploadByKey, GetLatest, UpdateStatus, WriteSnapshot
    <3>2. Updated("mirror").id = snapshot.id
      BY <2>0 DEF Updated
    <3> QED
      BY <3>1, <3>2
  <2>6. ASSUME NEW i \in SnapshotID, DataManagerStep(i) PROVE snapshot'.id = snapshot.id
    BY <2>6 DEF DataManagerStep
  <2> QED
    BY <1>1, <2>1, <2>2, <2>3, <2>4, <2>5, <2>6 DEF Next
<1>2. SnapshotInv /\ [Next]_vars => [Kept]_vars
  BY <1>1 DEF vars
<1> QED
  BY <1>2, Invariance, PTL DEF Spec, IDIsKept

\* A local snapshot that no other one duplicates.
TakenOnce == ~Happened("api") /\ ~Happened("crash") => \A i, j \in SnapshotID \ Unused : i = j

\* As long as calls are answered and the driver lives, createSnapshot takes one
\* local snapshot for the Snapshot, however often its key is in the queue and
\* whatever the uploadWorker writes in between: no local snapshot is left that
\* nobody refers to.
THEOREM OneLocalSnapshot == Spec => []TakenOnce
<1>1. SnapshotInv => TakenOnce
  BY DEF SnapshotInv, OneOK, TakenOnce
<1> QED
  BY <1>1, Invariance, PTL

\* The Snapshot has been worked on, or is gone for good.
Processed == plugin.pc # "create" /\ snapshot.phase \notin {"", "New"}

\* A Snapshot that has left New never goes back, not even by a late write of
\* the plugin's or after faults, and one that was cleaned up is not created
\* again: syncSnapshotByKey does not start a second time.
THEOREM ProcessedStays == Spec => [][Processed => Processed']_vars
<1>1. ASSUME SnapshotInv, Next, Processed PROVE Processed'
  <2>1. CASE SnapshotRef
    <3>1. plugin.pc # "create" /\ "plugin" \notin fresh
      BY <1>1 DEF SnapshotInv, OrderOK, Processed
    <3>2. ListSnapshots
      BY <2>1, <3>1 DEF SnapshotRef, CreateSnapshotCR, UpdateStatusNew
    <3>3. plugin'.pc # "create"
      <4>1. Heard(snapshot).pc # "create" /\ Plugin("watch").pc # "create"
        BY DEF Heard, Plugin
      <4> QED
        BY <3>2, <4>1 DEF ListSnapshots
    <3> QED
      BY <1>1, <3>2, <3>3 DEF ListSnapshots, Processed
  <2>2. ASSUME NEW w \in Worker, UpdateStatus(w) PROVE Processed'
    <3>1. worker[w].want \notin {"", "New"}
      BY <1>1, <2>2 DEF SnapshotInv, OrderOK, UpdateStatus
    <3>2. Updated(w).phase = worker[w].want
      BY DEF Updated
    <3>3. Notified(Updated(w)).pc # "create"
      <4>1. Heard(Updated(w)).pc # "create"
        BY DEF Heard
      <4> QED
        BY <1>1, <4>1 DEF Notified, Processed
    <3>4. \/ snapshot' = snapshot /\ plugin' = plugin
          \/ snapshot' = Updated(w) /\ plugin' = Notified(Updated(w))
      BY <2>2 DEF UpdateStatus, WriteSnapshot
    <3> QED
      BY <1>1, <3>1, <3>2, <3>3, <3>4 DEF Processed
  <2>3. CASE CleanUpSnapshot
    <3>1. snapshot'.phase = "Gone" /\ plugin' = plugin
      BY <2>3 DEF CleanUpSnapshot
    <3> QED
      BY <1>1, <3>1 DEF Processed
  <2>4. CASE UNCHANGED <<snapshot, plugin>>
    BY <1>1, <2>4 DEF Processed
  <2> QED
    BY <1>1, <2>1, <2>2, <2>3, <2>4 DEF Next, CreateSnapshot, SyncSnapshotByKey, TakeSnapshot,
       UploadSnapshot, GetMetadata, GetLatest, Crash, Mirror, SyncUploadByKey, DataManagerStep, Worker
<1>2. SnapshotInv /\ [Next]_vars => [Processed => Processed']_vars
  BY <1>1 DEF vars
<1> QED
  BY <1>2, Invariance, PTL DEF Spec

=============================================================================
