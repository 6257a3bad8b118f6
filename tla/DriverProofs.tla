----------------------------- MODULE DriverProofs -----------------------------
(***************************************************************************)
(* Proofs about two parts of the backup driver: the deletions that it      *)
(* carries out (DeleteSnapshotController), for any kinds and number of     *)
(* faults, and its connection to vCenter (VcenterConnection), for any      *)
(* number of operations, password rotations, sessions and faults.  Of the  *)
(* data managers only UploadContract is used, which UploadProofs shows     *)
(* UploadController to implement.                                          *)
(* Each part is a specification of its own; they share the account of the  *)
(* faults (Environment), and no theorem is about both.                     *)
(***************************************************************************)
EXTENDS DeleteSnapshotController, VcenterConnection, WellFoundedInduction, TLAPS

-----------------------------------------------------------------------------
(* Deletions: types *)

\* A fault is counted and remembered.
LEMMA FaultType ==
  ASSUME TypeOK, NEW kind, Fault(kind)
  PROVE  FaultsOK' /\ faults'.count # 0
BY DEF TypeOK, FaultsOK, Fault

\* The states of the worker that are made have their types.
LEMMA MadeType ==
  /\ \A pc \in {"idle", "get", "put", "lookup", "cancel", "local", "remote"} : At(pc) \in WorkerState
  /\ \A phase \in DeleteSnapshotPhase : Update(phase) \in WorkerState
BY DEF At, Update, WorkerState, DeleteSnapshotPhase

\* The fields of the worker's states.
LEMMA Fields ==
  /\ \A pc : At(pc).pc = pc /\ At(pc).want = ""
  /\ \A phase : Update(phase).pc = "get" /\ Update(phase).want = phase
BY DEF At, Update

\* The initial state is well typed.
LEMMA InitType == Init => TypeOK
<1> SUFFICES ASSUME Init PROVE TypeOK
  OBVIOUS
<1>1. upload \in Upload
  BY DEF Init, Upload, UploadPhase
<1> QED
  BY <1>1, MadeType DEF Init, TypeOK, NoFaults, FaultsOK, DeleteSnapshotPhase, PluginState

\* What the data managers and the delete worker do to the Upload keeps its type.
LEMMA UploadType ==
  ASSUME TypeOK, CancelUpload \/ DeleteLocal \/ DeleteRemote \/ DataManagerStep
  PROVE  upload' \in Upload
<1>1. CASE CancelUpload \/ DeleteLocal \/ DeleteRemote
  BY <1>1 DEF TypeOK, Upload, CancelUpload, DeleteLocal, DeleteRemote
<1>2. CASE DataManagerStep
  <2>1. upload' \in Changes \/ upload' = [upload EXCEPT !.remote = TRUE, !.copied = TRUE]
    BY <1>2 DEF DataManagerStep
  <2>2. Changes \subseteq Upload
    <3>1. \A p \in UploadPhase : [upload EXCEPT !.phase = p] \in Upload
      BY DEF TypeOK, Upload
    <3>2. /\ [upload EXCEPT !.phase = "Gone", !.cancel = FALSE] \in Upload
          /\ [upload EXCEPT !.local = FALSE] \in Upload /\ [upload EXCEPT !.gaveUp = TRUE] \in Upload
      BY DEF TypeOK, Upload
    <3> QED
      BY <3>1, <3>2 DEF Changes
  <2>3. [upload EXCEPT !.remote = TRUE, !.copied = TRUE] \in Upload
    BY DEF TypeOK, Upload
  <2> QED
    BY <2>1, <2>2, <2>3
<1> QED
  BY <1>1, <1>2

\* Every step keeps the types.
LEMMA StepType == TypeOK /\ [Next]_vars => TypeOK'
<1> SUFFICES ASSUME TypeOK, [Next]_vars PROVE TypeOK'
  OBVIOUS
<1>0. \A kind : Fault(kind) => FaultsOK'
  BY FaultType
<1>1. CASE UNCHANGED vars
  BY <1>1 DEF vars, TypeOK, FaultsOK
<1>2. CASE DeleteSnapshotRef
  BY <1>2, <1>0 DEF TypeOK, FaultsOK, DeleteSnapshotRef, CreateDeleteSnapshot, UpdateStatusNew,
                    ListDeleteSnapshots, DeleteSnapshotPhase, PluginState, Heard
<1>3. CASE SyncDeleteSnapshotByKey
  BY <1>3, MadeType DEF TypeOK, FaultsOK, SyncDeleteSnapshotByKey, DeleteSnapshotPhase
<1>4. CASE LookUpUpload
  <2>1. worker' \in WorkerState
    BY <1>4, MadeType DEF LookUpUpload
  <2> QED
    BY <1>4, <1>0, <2>1 DEF TypeOK, FaultsOK, LookUpUpload
<1>5. CASE CancelUpload
  BY <1>5, <1>0, MadeType, UploadType DEF TypeOK, FaultsOK, CancelUpload, DeleteSnapshotPhase
<1>6. CASE DeleteLocal
  <2>1. worker' \in WorkerState
    BY <1>6, MadeType DEF DeleteLocal, AfterLocal, DeleteSnapshotPhase
  <2>2. FaultsOK'
    BY <1>6, <1>0 DEF TypeOK, FaultsOK, DeleteLocal
  <2> QED
    BY <1>6, <2>1, <2>2, UploadType DEF TypeOK, DeleteLocal
<1>7. CASE DeleteRemote
  <2>1. worker' \in WorkerState
    BY <1>7, MadeType DEF DeleteRemote, DeleteSnapshotPhase
  <2>2. FaultsOK'
    BY <1>7, <1>0 DEF TypeOK, FaultsOK, DeleteRemote
  <2> QED
    BY <1>7, <2>1, <2>2, UploadType DEF TypeOK, DeleteRemote
<1>8. CASE GetLatest
  <2>1. worker' \in WorkerState
    BY <1>8, MadeType DEF TypeOK, GetLatest, Written, WorkerState
  <2> QED
    BY <1>8, <1>0, <2>1 DEF TypeOK, FaultsOK, GetLatest
<1>9. CASE UpdateStatus
  <2>1. worker' \in WorkerState
    BY <1>9, MadeType DEF TypeOK, UpdateStatus, Written
  <2>2. plugin' \in PluginState /\ request' \in DeleteSnapshotPhase \cup {"Gone"}
    BY <1>9 DEF TypeOK, UpdateStatus, Notified, Heard, PluginState, WorkerState
  <2>3. FaultsOK'
    BY <1>9, <1>0 DEF TypeOK, FaultsOK, UpdateStatus
  <2> QED
    BY <1>9, <2>1, <2>2, <2>3 DEF TypeOK, UpdateStatus
<1>10. CASE CleanUpDeleteSnapshot
  BY <1>10 DEF TypeOK, FaultsOK, CleanUpDeleteSnapshot
<1>11. CASE PanicOnNilRepository \/ Crash
  BY <1>11, <1>0, MadeType DEF TypeOK, PanicOnNilRepository, Crash
<1>12. CASE DataManagerStep
  BY <1>12, UploadType DEF TypeOK, FaultsOK, DataManagerStep
<1> QED
  BY <1>1, <1>2, <1>3, <1>4, <1>5, <1>6, <1>7, <1>8, <1>9, <1>10, <1>11, <1>12 DEF Next, DeleteSnapshot

-----------------------------------------------------------------------------
(* Deletions: the data *)

\* The Upload that step u becomes v has lost nothing that counts: a snapshot
\* that was deleted stays deleted, the requests and the copies are remembered,
\* and it does not come back from Gone.
Follows(u, v) ==
  /\ v.local => u.local
  /\ v.remote => u.remote \/ u.local
  /\ u.asked => v.asked
  /\ u.copied => v.copied
  /\ u.gaveUp => v.gaveUp
  /\ u.phase \in {"Gone", "Absent"} => v.phase = u.phase
  /\ u.phase # "Absent" => v.phase # "Absent"

\* What the phase of an Upload says about the data.
PhaseOK(u) ==
  /\ u.phase \in {"Completed", "CleanupFailed", "UploadFailedAfterRetry"} => u.copied \/ u.gaveUp
  /\ u.phase \in {"Canceling", "Canceled"} => u.asked
  /\ u.cancel => u.asked

\* An Upload that was not given up and not copied has its local snapshot.
SourceOK(u) == u.phase \in {"Absent", "Gone"} \/ u.copied \/ u.gaveUp \/ u.local

\* A step of the data managers keeps their promises about the data.
LEMMA DataManagerData ==
  ASSUME TypeOK, DataManagerStep, PhaseOK(upload)
  PROVE  /\ Follows(upload, upload') /\ PhaseOK(upload')
         /\ SourceOK(upload) => SourceOK(upload')
         /\ upload.phase # "Absent" /\ upload'.asked = upload.asked
<1>0. upload \in Upload /\ upload.phase # "Absent"
  BY DEF TypeOK, DataManagerStep
<1>1. CASE upload' = [upload EXCEPT !.remote = TRUE, !.copied = TRUE] /\ U!Copy
  BY <1>0, <1>1 DEF Upload, Follows, PhaseOK, SourceOK, U!Copy
<1>2. ASSUME NEW p \in UploadPhase, upload' = [upload EXCEPT !.phase = p], upload' # upload, U!Next
      PROVE  Follows(upload, upload') /\ PhaseOK(upload') /\ (SourceOK(upload) => SourceOK(upload'))
             /\ upload'.asked = upload.asked
  <2>1. upload'.phase # upload.phase
    BY <1>0, <1>2 DEF Upload
  <2>2. PICK q \in UploadPhase : U!Report(q)
    BY <1>0, <1>2, <2>1 DEF UploadPhase, U!Next, U!Copy, U!GiveUp, U!DropLocal, U!RequestCancel, U!Remove
  <2>3. q = p
    BY <1>0, <1>2, <2>2 DEF Upload, U!Report
  <2> QED
    BY <1>0, <1>2, <2>2, <2>3 DEF Upload, UploadPhase, Follows, PhaseOK, SourceOK, U!Report
<1>3. CASE upload' = [upload EXCEPT !.phase = "Gone", !.cancel = FALSE]
  BY <1>0, <1>3 DEF Upload, Follows, PhaseOK, SourceOK
<1>4. CASE upload' = [upload EXCEPT !.local = FALSE] /\ upload' # upload /\ U!Next
  <2>1. upload.copied \/ upload.gaveUp
    BY <1>0, <1>4 DEF Upload, U!Next, U!Copy, U!GiveUp, U!DropLocal, U!RequestCancel, U!Remove, U!Report
  <2> QED
    BY <1>0, <1>4, <2>1 DEF Upload, Follows, PhaseOK, SourceOK
<1>5. CASE upload' = [upload EXCEPT !.gaveUp = TRUE]
  BY <1>0, <1>5 DEF Upload, Follows, PhaseOK, SourceOK
<1> QED
  BY <1>0, <1>1, <1>2, <1>3, <1>4, <1>5 DEF DataManagerStep, Changes

\* The delete worker's steps on the Upload.
LEMMA WorkerData ==
  ASSUME TypeOK, PhaseOK(upload), CancelUpload \/ DeleteLocal \/ DeleteRemote
  PROVE  Follows(upload, upload') /\ PhaseOK(upload')
BY DEF TypeOK, Upload, CancelUpload, DeleteLocal, DeleteRemote, Follows, PhaseOK

-----------------------------------------------------------------------------
(* A deletion that is reported as done *)

\* What the phase Completed promises.
DoneOK == Deleted \/ upload.asked

ReportOK ==
  /\ localMode => upload.phase = "Absent" /\ ~upload.remote
  /\ worker.pc = "remote" => ~upload.local
  /\ worker.want = "Completed" => DoneOK
  /\ request = "Completed" => DoneOK
  /\ plugin = "done" => DoneOK

\* The promise is kept by whatever the Upload becomes.
LEMMA DoneStays ==
  ASSUME TypeOK, TypeOK', Follows(upload, upload'), DoneOK
  PROVE  DoneOK'
BY DEF TypeOK, Upload, Follows, DoneOK, Deleted

\* It depends on the Upload alone.
LEMMA DoneUnchanged == upload' = upload => (DoneOK' <=> DoneOK)
BY DEF DoneOK, Deleted

\* Every step keeps the promise: Completed is only written after the deletions
\* or the request to cancel.
LEMMA StepReport ==
  ASSUME TypeOK, TypeOK', PhaseOK(upload), ReportOK, [Next]_vars
  PROVE  ReportOK'
<1>1. CASE UNCHANGED vars
  BY <1>1, DoneUnchanged DEF vars, ReportOK
<1>2. CASE DeleteSnapshotRef
  <2>1. UNCHANGED <<localMode, worker, upload>> /\ request' \in {request, "", "New"}
    BY <1>2 DEF DeleteSnapshotRef, CreateDeleteSnapshot, UpdateStatusNew, ListDeleteSnapshots
  <2>2. plugin' # "done" \/ request = "Completed"
    BY <1>2 DEF DeleteSnapshotRef, CreateDeleteSnapshot, UpdateStatusNew, ListDeleteSnapshots, Heard
  <2> QED
    BY <2>1, <2>2, DoneUnchanged DEF ReportOK
<1>3. CASE SyncDeleteSnapshotByKey \/ LookUpUpload
  <2>1. /\ UNCHANGED <<localMode, request, plugin, upload>>
        /\ worker'.pc # "remote" /\ worker'.want # "Completed"
    BY <1>3, Fields DEF SyncDeleteSnapshotByKey, LookUpUpload
  <2> QED
    BY <2>1, DoneUnchanged DEF ReportOK
<1>4. CASE CancelUpload
  <2>1. UNCHANGED <<localMode, request, plugin>> /\ worker'.pc # "remote"
    BY <1>4 DEF CancelUpload, Update
  <2>2. Follows(upload, upload') /\ upload'.remote = upload.remote
    BY <1>4, WorkerData DEF CancelUpload, TypeOK, Upload
  <2>3. worker'.want # "Completed" \/ upload'.asked
    <3>1. worker' = Update("Failed") \/ upload' = [upload EXCEPT !.cancel = TRUE, !.asked = TRUE]
      BY <1>4 DEF CancelUpload
    <3>2. upload' = [upload EXCEPT !.cancel = TRUE, !.asked = TRUE] => upload'.asked
      BY DEF TypeOK, Upload
    <3> QED
      BY <3>1, <3>2, Fields
  <2> QED
    BY <2>1, <2>2, <2>3, DoneStays DEF ReportOK, DoneOK, Follows
<1>5. CASE DeleteLocal
  <2>1. UNCHANGED <<localMode, request, plugin>>
    BY <1>5 DEF DeleteLocal
  <2>2. Follows(upload, upload') /\ upload'.remote = upload.remote
    BY <1>5, WorkerData DEF DeleteLocal, TypeOK, Upload
  <2>3. CASE worker' = AfterLocal /\ upload' = [upload EXCEPT !.local = FALSE]
    <3>1. ~upload'.local
      BY <2>3 DEF TypeOK, Upload
    <3>2. worker'.want = "Completed" => localMode
      BY <2>3 DEF AfterLocal, Update, At
    <3>3. localMode => ~upload'.remote /\ upload'.phase = "Absent"
      BY <2>2 DEF ReportOK, Follows
    <3> QED
      BY <2>1, <2>2, <3>1, <3>2, <3>3, DoneStays DEF ReportOK, DoneOK, Deleted
  <2>4. CASE worker' = Update("Failed")
    BY <2>1, <2>2, <2>4, DoneStays DEF ReportOK, Follows, Update
  <2> QED
    BY <1>5, <2>3, <2>4 DEF DeleteLocal
<1>6. CASE DeleteRemote
  <2>1. UNCHANGED <<localMode, request, plugin>> /\ worker.pc = "remote" /\ worker'.pc # "remote"
    BY <1>6 DEF DeleteRemote, Update
  <2>2. Follows(upload, upload') /\ (upload'.remote => upload.remote)
    BY <1>6, WorkerData DEF DeleteRemote, TypeOK, Upload
  <2>3. ~upload'.local
    BY <2>1, <2>2 DEF ReportOK, Follows
  <2>4. worker'.want # "Completed" \/ ~upload'.remote
    BY <1>6 DEF DeleteRemote, Update, TypeOK, Upload
  <2> QED
    BY <2>1, <2>2, <2>3, <2>4, DoneStays DEF ReportOK, DoneOK, Deleted, Follows
<1>7. CASE GetLatest
  <2>1. /\ UNCHANGED <<localMode, request, plugin, upload>>
        /\ worker'.pc # "remote" /\ worker'.want \in {worker.want, ""}
    <3>1. /\ UNCHANGED <<localMode, request, plugin, upload>>
          /\ \/ worker' = Written \/ worker' = At("idle")
             \/ worker' = [worker EXCEPT !.pc = "put"]
      BY <1>7 DEF GetLatest
    <3>2. Written.pc # "remote" /\ Written.want = ""
      BY Fields DEF Written
    <3>3. worker' = [worker EXCEPT !.pc = "put"] => worker'.pc = "put" /\ worker'.want = worker.want
      BY DEF TypeOK, WorkerState
    <3> QED
      BY <3>1, <3>2, <3>3, Fields
  <2> QED
    BY <2>1, DoneUnchanged DEF ReportOK
<1>8. CASE UpdateStatus
  <2>1. /\ UNCHANGED <<localMode, upload>>
        /\ worker'.pc # "remote" /\ worker'.want = ""
        /\ request' \in {request, worker.want}
    BY <1>8, Fields DEF UpdateStatus, Written
  <2>2. plugin' = plugin \/ plugin' # "done" \/ worker.want = "Completed"
    BY <1>8 DEF UpdateStatus, Notified, Heard
  <2> QED
    BY <2>1, <2>2, DoneUnchanged DEF ReportOK
<1>9. CASE CleanUpDeleteSnapshot
  BY <1>9, DoneUnchanged DEF CleanUpDeleteSnapshot, ReportOK
<1>10. CASE PanicOnNilRepository \/ Crash
  <2>1. UNCHANGED <<localMode, request, plugin, upload>> /\ worker' = At("idle")
    BY <1>10 DEF PanicOnNilRepository, Crash
  <2> QED
    BY <2>1, DoneUnchanged, Fields DEF ReportOK
<1>11. CASE DataManagerStep
  <2>1. UNCHANGED <<localMode, request, plugin, worker>>
    BY <1>11 DEF DataManagerStep
  <2>2. Follows(upload, upload') /\ upload.phase # "Absent"
    BY <1>11, DataManagerData
  <2> QED
    BY <2>1, <2>2, DoneStays DEF ReportOK, Follows
<1> QED
  BY <1>1, <1>2, <1>3, <1>4, <1>5, <1>6, <1>7, <1>8, <1>9, <1>10, <1>11 DEF Next, DeleteSnapshot

-----------------------------------------------------------------------------
(* A deletion without faults *)

\* Only a worker that updates the status has a phase to write, and a copy of
\* the object as it was created is only current until the phase is set.
WantOK ==
  /\ worker.pc \in {"get", "put"} <=> worker.want # ""
  /\ "plugin" \in fresh => request = ""

\* The local snapshot is not needed for the Upload any more.
Unneeded(u) == u.phase \in {"Absent", "Gone"} \/ u.copied \/ u.gaveUp

\* As long as nothing failed, the worker carries out a request once: it has
\* cancelled the Upload only if it is about to complete the request or has done
\* so, and deletes the local snapshot only if it is not needed any more.
OrderOK ==
  /\ worker.pc \in {"lookup", "cancel", "local", "remote"} => request = "New" /\ ~upload.asked
  /\ worker.want \in {"Completed", "Failed"} =>
       request = "New" /\ (worker.pc = "put" => "worker" \in fresh)
  /\ worker.want = "New" => request \in {"", "New"} /\ ~upload.asked
  /\ upload.asked => worker.want = "Completed" \/ request \in {"Completed", "Gone"}
  /\ plugin = "create" => worker.pc = "idle" /\ request = "Gone" /\ ~upload.asked
  /\ worker.pc = "local" => Unneeded(upload)
  /\ SourceOK(upload)

\* Every step keeps this about what the worker writes.
LEMMA StepWant ==
  ASSUME TypeOK, WantOK, [Next]_vars
  PROVE  WantOK'
<1>1. CASE UNCHANGED vars \/ DataManagerStep
  BY <1>1 DEF vars, WantOK, DataManagerStep
<1>2. CASE DeleteSnapshotRef
  BY <1>2 DEF WantOK, DeleteSnapshotRef, CreateDeleteSnapshot, UpdateStatusNew, ListDeleteSnapshots
<1>3. CASE SyncDeleteSnapshotByKey \/ LookUpUpload \/ CancelUpload \/ DeleteLocal \/ DeleteRemote
  <2>1. UNCHANGED <<request, fresh>>
    BY <1>3 DEF SyncDeleteSnapshotByKey, LookUpUpload, CancelUpload, DeleteLocal, DeleteRemote
  <2>2. \/ \E pc \in {"lookup", "local", "cancel", "remote"} : worker' = At(pc)
        \/ \E phase \in {"New", "Completed", "Failed"} : worker' = Update(phase)
    BY <1>3 DEF SyncDeleteSnapshotByKey, LookUpUpload, CancelUpload, DeleteLocal, AfterLocal, DeleteRemote
  <2> QED
    BY <2>1, <2>2, Fields DEF WantOK
<1>4. CASE GetLatest
  <2>1. request' = request /\ ("plugin" \in fresh' => "plugin" \in fresh)
    BY <1>4 DEF GetLatest
  <2>2. (\E pc \in {"lookup", "idle"} : worker' = At(pc)) \/ worker' = [worker EXCEPT !.pc = "put"]
    BY <1>4 DEF GetLatest, Written
  <2>3. worker' = [worker EXCEPT !.pc = "put"] => worker'.pc = "put" /\ worker'.want = worker.want
    BY DEF TypeOK, WorkerState
  <2>4. worker.pc = "get"
    BY <1>4 DEF GetLatest
  <2> QED
    BY <2>1, <2>2, <2>3, <2>4, Fields DEF WantOK
<1>5. CASE UpdateStatus
  <2>1. \E pc \in {"lookup", "idle"} : worker' = At(pc)
    BY <1>5 DEF UpdateStatus, Written
  <2>2. "plugin" \in fresh' => "plugin" \in fresh /\ request' = request
    BY <1>5 DEF UpdateStatus
  <2> QED
    BY <2>1, <2>2, Fields DEF WantOK
<1>6. CASE CleanUpDeleteSnapshot
  BY <1>6 DEF CleanUpDeleteSnapshot, WantOK
<1>7. CASE PanicOnNilRepository \/ Crash
  <2>1. worker' = At("idle") /\ request' = request /\ fresh' \subseteq fresh
    BY <1>7 DEF PanicOnNilRepository, Crash
  <2> QED
    BY <2>1, Fields DEF WantOK
<1> QED
  BY <1>1, <1>2, <1>3, <1>4, <1>5, <1>6, <1>7 DEF Next, DeleteSnapshot

\* Every step without a fault keeps the order.
LEMMA StepOrder ==
  ASSUME TypeOK, PhaseOK(upload), WantOK, OrderOK, [Next]_vars,
         \A kind : ~Fault(kind)
  PROVE  OrderOK'
<1>0. worker \in WorkerState /\ upload \in Upload
  BY DEF TypeOK
<1>1. CASE UNCHANGED vars
  BY <1>1 DEF vars, OrderOK, Unneeded, SourceOK
<1>2. CASE CreateDeleteSnapshot
  <2>1. /\ plugin = "create" /\ request' = "" /\ plugin' = "status"
        /\ UNCHANGED <<worker, upload>>
    BY <1>2 DEF CreateDeleteSnapshot
  <2> QED
    BY <2>1 DEF OrderOK, WantOK
<1>3. CASE UpdateStatusNew
  <2>1. /\ UNCHANGED <<worker, upload>> /\ plugin' # "create"
        /\ \/ UNCHANGED <<request, fresh>>
           \/ request = "" /\ request' = "New"
    BY <1>3 DEF UpdateStatusNew, WantOK
  <2> QED
    BY <2>1 DEF OrderOK
<1>4. CASE ListDeleteSnapshots
  <2>1. UNCHANGED <<request, fresh, worker, upload>> /\ plugin' # "create"
    BY <1>4 DEF ListDeleteSnapshots, Heard
  <2> QED
    BY <2>1 DEF OrderOK
<1>5. CASE SyncDeleteSnapshotByKey
  <2>1. /\ UNCHANGED <<request, fresh, plugin, upload>> /\ worker.pc = "idle"
        /\ \/ request = "" /\ worker' = Update("New")
           \/ request = "New" /\ worker' = At("lookup")
    BY <1>5 DEF SyncDeleteSnapshotByKey
  <2>2. ~upload.asked /\ plugin # "create"
    BY <2>1 DEF OrderOK, WantOK
  <2>3. SourceOK(upload)'
    BY <2>1 DEF OrderOK, SourceOK
  <2>4. CASE request = "" /\ worker' = Update("New")
    <3>1. worker'.pc = "get" /\ worker'.want = "New"
      BY <2>4, Fields
    <3> QED
      BY <2>1, <2>2, <2>3, <2>4, <3>1 DEF OrderOK
  <2>5. CASE request = "New" /\ worker' = At("lookup")
    <3>1. worker'.pc = "lookup" /\ worker'.want = ""
      BY <2>5, Fields
    <3> QED
      BY <2>1, <2>2, <2>3, <2>5, <3>1 DEF OrderOK
  <2> QED
    BY <2>1, <2>4, <2>5
<1>6. CASE LookUpUpload
  <2>1. /\ UNCHANGED <<request, fresh, plugin, upload>> /\ worker.pc = "lookup"
        /\ worker' = At(IF upload.phase \in TerminalPhases THEN "local" ELSE "cancel")
    BY <1>6 DEF LookUpUpload
  <2>2. request = "New" /\ ~upload.asked /\ plugin # "create"
    BY <2>1 DEF OrderOK
  <2>3. upload.phase \in TerminalPhases => Unneeded(upload)
    BY <2>2 DEF TerminalPhases, PhaseOK, Unneeded
  <2> QED
    BY <2>1, <2>2, <2>3, Fields DEF OrderOK
<1>7. CASE CancelUpload
  <2>1. UNCHANGED <<request, fresh, plugin>> /\ worker.pc = "cancel"
    BY <1>7 DEF CancelUpload
  <2>2. request = "New" /\ ~upload.asked /\ plugin # "create"
    BY <2>1 DEF OrderOK
  <2>3. \/ worker' = Update("Completed") /\ upload' = [upload EXCEPT !.cancel = TRUE, !.asked = TRUE]
        \/ worker' = Update("Failed") /\ upload' = upload
    BY <1>7 DEF CancelUpload
  <2>4. SourceOK(upload')
    BY <1>0, <2>3 DEF Upload, OrderOK, SourceOK
  <2> QED
    BY <2>1, <2>2, <2>3, <2>4, Fields DEF OrderOK
<1>8. CASE DeleteLocal
  <2>1. /\ UNCHANGED <<request, fresh, plugin>> /\ worker.pc = "local"
        /\ worker' = AfterLocal /\ upload' = [upload EXCEPT !.local = FALSE]
    BY <1>8 DEF DeleteLocal
  <2>2. request = "New" /\ ~upload.asked /\ plugin # "create" /\ Unneeded(upload)
    BY <2>1 DEF OrderOK
  <2>3. ~upload'.asked /\ SourceOK(upload')
    BY <1>0, <2>1, <2>2 DEF Upload, Unneeded, SourceOK
  <2>4. worker' = Update("Completed") \/ worker' = At("remote")
    BY <2>1 DEF AfterLocal
  <2> QED
    BY <2>1, <2>2, <2>3, <2>4, Fields DEF OrderOK
<1>9. CASE DeleteRemote
  <2>1. UNCHANGED <<request, fresh, plugin>> /\ worker.pc = "remote"
    BY <1>9 DEF DeleteRemote
  <2>2. request = "New" /\ ~upload.asked /\ plugin # "create" /\ SourceOK(upload)
    BY <2>1 DEF OrderOK
  <2>3. upload' = upload \/ upload' = [upload EXCEPT !.remote = FALSE]
    BY <1>9 DEF DeleteRemote
  <2>4. ~upload'.asked /\ SourceOK(upload')
    BY <1>0, <2>2, <2>3 DEF Upload, SourceOK
  <2>5. worker' = Update("Completed") \/ worker' = Update("Failed")
    BY <1>9 DEF DeleteRemote
  <2> QED
    BY <2>1, <2>2, <2>4, <2>5, Fields DEF OrderOK
<1>10. CASE GetLatest
  <2>1. UNCHANGED <<request, plugin, upload>> /\ worker.pc = "get" /\ plugin # "create"
    BY <1>10 DEF GetLatest, OrderOK
  <2>2. CASE request = worker.want /\ worker' = Written /\ fresh' = fresh
    <3>1. \/ worker.want = "New" /\ worker' = At("lookup")
          \/ worker.want # "New" /\ worker' = At("idle")
      BY <2>2 DEF Written
    <3> QED
      <4>1. CASE worker.want = "New" /\ worker' = At("lookup")
        <5>1. request = "New" /\ ~upload.asked
          BY <2>2, <4>1 DEF OrderOK
        <5> QED
          BY <2>1, <4>1, <5>1, Fields DEF OrderOK
      <4>2. CASE worker.want # "New" /\ worker' = At("idle")
        <5>1. worker.want \notin {"Completed", "Failed"}
          BY <2>2, <4>2 DEF OrderOK
        <5> QED
          BY <2>1, <4>2, <5>1, Fields DEF OrderOK
      <4> QED
        BY <3>1, <4>1, <4>2
  <2>3. CASE worker' = [worker EXCEPT !.pc = "put"] /\ fresh' = fresh \cup {"worker"}
    <3>1. worker'.pc = "put" /\ worker'.want = worker.want
      BY <1>0, <2>3 DEF WorkerState
    <3> QED
      BY <2>1, <2>3, <3>1 DEF OrderOK
  <2> QED
    BY <1>10, <2>2, <2>3 DEF GetLatest
<1>11. CASE UpdateStatus
  <2>1. UNCHANGED upload /\ worker.pc = "put"
    BY <1>11 DEF UpdateStatus
  <2>2. plugin # "create" /\ plugin' # "create"
    <3>1. plugin # "create"
      BY <2>1 DEF OrderOK
    <3> QED
      BY <1>11, <3>1 DEF UpdateStatus, Notified, Heard
  <2>3. CASE request' = worker.want /\ worker' = Written
    <3>1. \/ worker.want = "New" /\ worker' = At("lookup")
          \/ worker.want # "New" /\ worker' = At("idle")
      BY <2>3 DEF Written
    <3> QED
      <4>1. CASE worker.want = "New" /\ worker' = At("lookup")
        <5>1. request' = "New" /\ ~upload.asked
          BY <2>3, <4>1 DEF OrderOK
        <5> QED
          BY <2>1, <2>2, <4>1, <5>1, Fields DEF OrderOK
      <4>2. CASE worker.want # "New" /\ worker' = At("idle")
        <5>1. worker.want \in {"Completed", "Failed"} /\ request = "New"
          BY <1>0, <2>1, <4>2 DEF OrderOK, WantOK, WorkerState, DeleteSnapshotPhase
        <5>2. upload.asked => request' = "Completed"
          BY <2>3, <5>1 DEF OrderOK
        <5> QED
          BY <2>1, <2>2, <4>2, <5>2, Fields DEF OrderOK
      <4> QED
        BY <3>1, <4>1, <4>2
  <2>4. CASE "worker" \notin fresh /\ worker' = At("idle") /\ request' = request
    BY <2>1, <2>2, <2>4, Fields DEF OrderOK
  <2> QED
    BY <1>11, <2>3, <2>4 DEF UpdateStatus
<1>12. CASE CleanUpDeleteSnapshot
  <2>1. /\ worker.pc = "idle" /\ request' = "Gone" /\ plugin # "create"
        /\ UNCHANGED <<plugin, worker, upload>>
    BY <1>12 DEF CleanUpDeleteSnapshot
  <2> QED
    BY <2>1 DEF OrderOK, WantOK
<1>13. CASE PanicOnNilRepository \/ Crash
  BY <1>13 DEF PanicOnNilRepository, Crash
<1>14. CASE DataManagerStep
  <2>1. UNCHANGED <<request, fresh, plugin, worker>>
    BY <1>14 DEF DataManagerStep
  <2>2. Follows(upload, upload') /\ SourceOK(upload') /\ upload'.asked = upload.asked
    BY <1>14, DataManagerData DEF OrderOK
  <2>3. Unneeded(upload) => Unneeded(upload')
    BY <2>2 DEF Follows, Unneeded
  <2> QED
    BY <2>1, <2>2, <2>3 DEF OrderOK
<1> QED
  BY <1>1, <1>2, <1>3, <1>4, <1>5, <1>6, <1>7, <1>8, <1>9, <1>10, <1>11, <1>12, <1>13, <1>14
     DEF Next, DeleteSnapshotRef, DeleteSnapshot

-----------------------------------------------------------------------------
(* Deletions: the inductive invariant and the theorems *)

DeleteInv ==
  /\ TypeOK /\ PhaseOK(upload) /\ ReportOK /\ WantOK
  /\ faults.count = 0 => OrderOK

\* Nothing has been requested, and the Upload has its local snapshot.
LEMMA InitInv == Init => DeleteInv
<1> SUFFICES ASSUME Init PROVE DeleteInv
  OBVIOUS
<1>1. /\ upload.phase = IF localMode THEN "Absent" ELSE "New"
      /\ upload.cancel = FALSE /\ upload.local = TRUE /\ upload.remote = FALSE
      /\ upload.copied = FALSE /\ upload.gaveUp = FALSE /\ upload.asked = FALSE
  BY DEF Init
<1>2. /\ worker.pc = "idle" /\ worker.want = "" /\ request = "Gone" /\ plugin = "create"
      /\ "plugin" \notin fresh
  BY Fields DEF Init
<1>3. PhaseOK(upload) /\ SourceOK(upload) /\ ~upload.asked /\ ~upload.remote
  BY <1>1 DEF PhaseOK, SourceOK
<1>4. ReportOK
  BY <1>1, <1>2, <1>3 DEF ReportOK
<1>5. WantOK /\ OrderOK
  BY <1>2, <1>3 DEF WantOK, OrderOK
<1> QED
  BY <1>3, <1>4, <1>5, InitType DEF DeleteInv

\* Every step keeps the invariant.
LEMMA StepInv == DeleteInv /\ [Next]_vars => DeleteInv'
<1> SUFFICES ASSUME DeleteInv, [Next]_vars PROVE DeleteInv'
  OBVIOUS
<1>0. TypeOK /\ PhaseOK(upload) /\ ReportOK /\ WantOK
  BY DEF DeleteInv
<1>1. TypeOK'
  BY <1>0, StepType
<1>2. PhaseOK(upload)'
  <2>1. \/ upload' = upload
        \/ CancelUpload \/ DeleteLocal \/ DeleteRemote \/ DataManagerStep
    BY DEF vars, Next, DeleteSnapshotRef, CreateDeleteSnapshot, UpdateStatusNew, ListDeleteSnapshots,
           DeleteSnapshot, SyncDeleteSnapshotByKey, LookUpUpload, GetLatest, UpdateStatus,
           CleanUpDeleteSnapshot, PanicOnNilRepository, Crash
  <2>2. PhaseOK(upload')
    BY <1>0, <2>1, WorkerData, DataManagerData
  <2> QED
    BY <2>2 DEF PhaseOK
<1>3. ReportOK' /\ WantOK'
  BY <1>0, <1>1, StepReport, StepWant
<1>4. ASSUME faults'.count = 0 PROVE OrderOK'
  <2>1. \A kind : ~Fault(kind)
    BY <1>0, <1>4, FaultType
  <2>2. faults' = faults \/ \E kind : Fault(kind)
    BY DEF vars, Next, DeleteSnapshotRef, CreateDeleteSnapshot, UpdateStatusNew, ListDeleteSnapshots,
           DeleteSnapshot, SyncDeleteSnapshotByKey, LookUpUpload, CancelUpload, DeleteLocal,
           DeleteRemote, GetLatest, UpdateStatus, CleanUpDeleteSnapshot, PanicOnNilRepository, Crash,
           DataManagerStep
  <2>3. OrderOK
    BY <1>4, <2>1, <2>2 DEF DeleteInv
  <2> QED
    BY <1>0, <2>1, <2>3, StepOrder
<1> QED
  BY <1>1, <1>2, <1>3, <1>4 DEF DeleteInv

\* The invariant holds in every reachable state.
THEOREM Invariance == Spec => []DeleteInv
BY InitInv, StepInv, PTL DEF Spec

\* Whatever fails: a deletion that NewPVCDeleteItemAction.Execute reports as
\* done has deleted both copies of the data for good or has asked the Upload to
\* stop, because the worker writes Completed only after that and no data
\* manager copies from a local snapshot that is gone.
THEOREM DoneIsDeleted == Spec => []DeletedOrCancelled
<1>1. DeleteInv => DeletedOrCancelled
  BY DEF DeleteInv, ReportOK, DoneOK, DeletedOrCancelled
<1> QED
  BY <1>1, Invariance, PTL

\* Without faults, deleteSnapshot never takes the local snapshot away from an
\* upload that is going to be retried: it finds the Upload finished or cancels
\* it, and it carries out a request only once.
THEOREM RetriedKeepsData == Spec => []RetriedUploadKeepsData
<1>1. DeleteInv => RetriedUploadKeepsData
  BY DEF DeleteInv, OrderOK, SourceOK, RetriedUploadKeepsData
<1> QED
  BY <1>1, Invariance, PTL

-----------------------------------------------------------------------------
(* Deletions: the answer *)

\* The request has been answered, and perhaps cleaned up since.
Settled == request \in {"Completed", "Failed"} \/ (request = "Gone" /\ plugin # "create")

\* The worker works on a request that is not answered, and the plugin reports
\* the answer that was recorded.
AnswerOK ==
  /\ plugin = "create" => request = "Gone"
  /\ worker.pc # "idle" => request \in {"", "New"}
  /\ plugin = "done" => request \in {"Completed", "Gone"}
  /\ plugin = "error" => request = "Failed"

\* An answer is not changed; a request that was carried out may be cleaned up.
AnswerKept ==
  Settled => Settled' /\ (request' = request \/ (request = "Completed" /\ request' = "Gone"))

\* Every step keeps an answer that was given.
LEMMA StepAnswer ==
  ASSUME TypeOK, WantOK, AnswerOK, [Next]_vars
  PROVE  AnswerOK' /\ AnswerKept
<1>1. CASE UNCHANGED <<request, plugin, worker>>
  BY <1>1 DEF AnswerOK, AnswerKept, Settled
<1>2. CASE DeleteSnapshotRef
  <2>0. worker' = worker
    BY <1>2 DEF DeleteSnapshotRef, CreateDeleteSnapshot, UpdateStatusNew, ListDeleteSnapshots
  <2>1. CASE CreateDeleteSnapshot
    BY <2>0, <2>1 DEF CreateDeleteSnapshot, AnswerOK, AnswerKept, Settled
  <2>2. CASE UpdateStatusNew
    BY <2>0, <2>2 DEF UpdateStatusNew, WantOK, AnswerOK, AnswerKept, Settled
  <2>3. CASE ListDeleteSnapshots
    BY <2>0, <2>3 DEF ListDeleteSnapshots, Heard, AnswerOK, AnswerKept, Settled
  <2> QED
    BY <1>2, <2>1, <2>2, <2>3 DEF DeleteSnapshotRef
<1>3. CASE SyncDeleteSnapshotByKey
  <2>1. UNCHANGED <<request, plugin>> /\ request \in {"", "New"}
    BY <1>3 DEF SyncDeleteSnapshotByKey
  <2> QED
    BY <2>1 DEF AnswerOK, AnswerKept, Settled
<1>4. CASE LookUpUpload \/ CancelUpload \/ DeleteLocal \/ DeleteRemote \/ GetLatest
  <2>1. UNCHANGED <<request, plugin>> /\ worker.pc # "idle"
    BY <1>4 DEF LookUpUpload, CancelUpload, DeleteLocal, DeleteRemote, GetLatest
  <2> QED
    BY <2>1 DEF AnswerOK, AnswerKept, Settled
<1>5. CASE UpdateStatus
  <2>1. worker.pc = "put" /\ request \in {"", "New"} /\ plugin \notin {"create", "done", "error"}
    BY <1>5 DEF UpdateStatus, AnswerOK
  <2>2. worker' = At("idle") \/ (worker.want = "New" /\ worker' = At("lookup"))
    BY <1>5 DEF UpdateStatus, Written
  <2>3. worker'.pc = "idle" \/ worker.want = "New"
    BY <2>2, Fields
  <2>4. CASE request' = worker.want /\ plugin' = Notified(worker.want)
             /\ (worker' = At("idle") \/ worker.want = "New")
    <3>1. worker.want # ""
      BY <2>1 DEF WantOK
    <3>2. plugin' \in {"create", "done", "error"} =>
            worker.want \in {"Completed", "Failed"} /\ plugin' = Heard(worker.want)
      BY <2>1, <2>4 DEF Notified
    <3>3. Heard("Completed") = "done" /\ Heard("Failed") = "error"
      BY DEF Heard
    <3> QED
      BY <2>1, <2>3, <2>4, <3>1, <3>2, <3>3 DEF AnswerOK, AnswerKept, Settled
  <2>5. CASE UNCHANGED <<request, plugin>>
    BY <2>1, <2>5 DEF AnswerOK, AnswerKept, Settled
  <2> QED
    BY <1>5, <2>2, <2>4, <2>5 DEF UpdateStatus
<1>6. CASE CleanUpDeleteSnapshot
  BY <1>6 DEF CleanUpDeleteSnapshot, AnswerOK, AnswerKept, Settled
<1>7. CASE PanicOnNilRepository \/ Crash
  <2>1. worker' = At("idle") /\ UNCHANGED <<request, plugin>>
    BY <1>7 DEF PanicOnNilRepository, Crash
  <2> QED
    BY <2>1, Fields DEF AnswerOK, AnswerKept, Settled
<1>8. CASE DataManagerStep
  BY <1>1, <1>8 DEF DataManagerStep
<1> QED
  BY <1>1, <1>2, <1>3, <1>4, <1>5, <1>6, <1>7, <1>8 DEF Next, DeleteSnapshot, vars

\* The answer invariant holds in every reachable state, with the other one.
LEMMA AnswerInvariance == Spec => [](DeleteInv /\ AnswerOK)
<1>1. Init => AnswerOK
  BY Fields DEF Init, AnswerOK
<1>2. DeleteInv /\ AnswerOK /\ [Next]_vars => AnswerOK'
  BY StepAnswer DEF DeleteInv
<1> QED
  BY <1>1, <1>2, Invariance, PTL DEF Spec

\* Whatever fails, a DeleteSnapshot is answered once: neither the plugin's late
\* write of New nor a worker that starts over takes back Completed or Failed,
\* or exchanges one for the other.
THEOREM AnswerIsFinal == Spec => [][AnswerKept]_vars
<1>1. DeleteInv /\ AnswerOK /\ [Next]_vars => [AnswerKept]_vars
  BY StepAnswer DEF DeleteInv
<1> QED
  BY <1>1, AnswerInvariance, PTL DEF Spec

\* What NewPVCDeleteItemAction.Execute reports is the answer that the object
\* holds: it says done of no deletion that is recorded as Failed, and the other
\* way round.
AnswerAgrees ==
  /\ plugin = "done" => request \in {"Completed", "Gone"}
  /\ plugin = "error" => request = "Failed"

\* The plugin's answer and the recorded one never come apart.
THEOREM ReportedIsRecorded == Spec => []AnswerAgrees
<1>1. AnswerOK => AnswerAgrees
  BY DEF AnswerOK, AnswerAgrees
<1> QED
  BY <1>1, AnswerInvariance, PTL

-----------------------------------------------------------------------------
(* The connection to vCenter: the inductive invariant *)

\* While the server starts nothing else runs, and there is no connection before
\* the Secret was read.
StartOK ==
  /\ server.pc # "run" =>
       /\ ~server.watched /\ server.cluster \in Cluster /\ SecretIsRead(server.cluster, {})
       /\ reload.pc = "idle"
       /\ \A o \in Op : op[o].pc = "idle"
  /\ server.pc = "read" => petm.vc = None

\* No password is newer than the one that vCenter accepts.
PasswordOK ==
  /\ secret =< accepted /\ petm.config =< accepted
  /\ \A v \in VC : vc[v].config =< accepted

\* The managers have the VirtualCenter of the type manager, except while
\* ReloadConfig replaces them one after the other; once there is a connection
\* there always is one.
ManagersOK ==
  /\ reload.pc \in {"idle", "disconnect", "connect"} => \A m \in Manager : manager[m].vc = petm.vc
  /\ reload.pc \in {"cns", "vddk"} => manager["vslm"].vc = petm.vc
  /\ reload.pc = "vddk" => manager["cns"].vc = petm.vc
  /\ reload.pc \in {"disconnect", "vslm", "cns", "vddk"} \/ reload.result = "ok" => petm.vc # None

\* The clients of a VirtualCenter are made from the session of its Client, unless
\* it can no longer log in.
ClientOK(v) ==
  \A m \in Manager :
    /\ v.client # None => v.of[m] \in {None, v.client}
    /\ v.client = None /\ v.config = accepted => v.of[m] = None

\* As long as no request of Connect fails, all VirtualCenters are like that, and a
\* second call is made with a session that is logged in or was lost meanwhile.
CallsOK ==
  ~Happened("connect") =>
    /\ \A v \in VC : ClientOK(vc[v])
    /\ \A o \in Op :
         /\ op[o].pc = "again" => op[o].client \in sessions \/ op[o].disturbed
         /\ op[o].pc = "exceeded" => op[o].disturbed

\* What ReloadConfig has done is still there.
ReadyOK ==
  /\ ~Happened("connect") /\ petm.vc # None /\ reload.pc \in {"idle", "vslm", "cns", "vddk"} =>
       vc[petm.vc].config = petm.config \/ petm.config < accepted
  /\ ~Happened("vddk") /\ petm.vc # None /\ reload.pc \in {"idle", "disconnect", "connect"} => vddk

ConnectionInv ==
  /\ ConnectionTypeOK /\ StartOK /\ PasswordOK /\ ManagersOK
  /\ CheckedIsConnected /\ CallsOK /\ ReadyOK

-----------------------------------------------------------------------------
(* Fresh numbers *)

\* A set of numbers that is not empty has a least element.
LEMMA MinIn ==
  ASSUME NEW S, S \subseteq Nat, S # {}
  PROVE  Min(S) \in S
<1> DEFINE R == {ss \in Nat \X Nat : ss[1] < ss[2]}
<1>1. IsWellFoundedOn(R, Nat)
  BY NatLessThanWellFounded, Zenon DEF OpToRel
<1>2. \A x, y \in Nat : y < x => <<y, x>> \in R
  OBVIOUS
<1> HIDE DEF R
<1>3. PICK x \in S : \A y \in S : ~(<<y, x>> \in R)
  BY <1>1, WFMin
<1>4. \A y \in S : ~(y < x) => x =< y
  OBVIOUS
<1>5. \A y \in S : x =< y
  BY <1>2, <1>3, <1>4
<1> QED
  BY <1>5 DEF Min

\* No number is None.
LEMMA Numbers == None \notin Session /\ None \notin VC /\ 1 \in Session /\ 1 \in VC
BY ConnectionAssumption

\* A login gets a session that is not logged in and that no VirtualCenter has.
LEMMA FreshSessionFree ==
  ASSUME Unused # {}
  PROVE  /\ FreshSession \in Session /\ FreshSession \notin sessions /\ FreshSession # None
         /\ \A v \in VC : FreshSession # vc[v].client
<1>1. Unused \subseteq Nat
  BY ConnectionAssumption DEF Unused
<1>2. FreshSession \in Unused
  BY <1>1, MinIn DEF FreshSession
<1> QED
  BY <1>2, Numbers DEF Unused

\* GetVirtualCenter makes a new VirtualCenter: the managers have at most one.
LEMMA FreshVCFree ==
  ASSUME \A m \in Manager : manager[m].vc = petm.vc
  PROVE  FreshVC \in VC
<1> DEFINE S == VC \ ({petm.vc} \cup {manager[m].vc : m \in Manager})
<1>1. S \subseteq Nat
  BY ConnectionAssumption
<1>2. 1 \in S \/ 2 \in S
  BY ConnectionAssumption
<1>3. FreshVC = Min(S)
  BY DEF FreshVC
<1> HIDE DEF S
<1>4. FreshVC \in S
  BY <1>1, <1>2, <1>3, MinIn
<1> QED
  BY <1>4 DEF S

-----------------------------------------------------------------------------
(* VirtualCenter.Connect *)

\* A VirtualCenter that is put together.
LEMMA MadeFields ==
  ASSUME NEW c \in Password, NEW s \in Session \cup {None}, NEW of \in [Manager -> Session \cup {None}],
         NEW v, v = [config |-> c, client |-> s, of |-> of]
  PROVE  v \in VirtualCenter /\ v.config = c /\ v.client = s /\ v.of = of
BY DEF VirtualCenter

\* The fields of any VirtualCenter.
LEMMA VirtualCenterFields ==
  ASSUME NEW v \in VirtualCenter
  PROVE  /\ v.config \in Password /\ v.client \in Session \cup {None}
         /\ v.of \in [Manager -> Session \cup {None}]
         /\ \A m \in Manager : v.of[m] \in Session \cup {None}
BY DEF VirtualCenter

\* All clients of one session.
LEMMA ClientsFields ==
  ASSUME NEW s \in Session \cup {None}
  PROVE  Clients(s) \in [Manager -> Session \cup {None}] /\ \A m \in Manager : Clients(s)[m] = s
BY DEF Clients

\* The clients that were nil are made.
LEMMA FilledFields ==
  ASSUME NEW v \in VirtualCenter, NEW s \in Session \cup {None}
  PROVE  /\ Filled(v, s) \in [Manager -> Session \cup {None}]
         /\ \A m \in Manager : Filled(v, s)[m] = IF v.of[m] = None THEN s ELSE v.of[m]
BY VirtualCenterFields DEF Filled

\* A failed request leaves the configuration as it is.
LEMMA MakingFailsFields ==
  ASSUME NEW v \in VirtualCenter, NEW s \in Session \cup {None}, NEW remake \in BOOLEAN,
         NEW r \in MakingFails(v, s, remake)
  PROVE  /\ r.vc \in VirtualCenter /\ r.vc.config = v.config
         /\ r.ok \in BOOLEAN /\ r.failed \in BOOLEAN /\ ~r.ok /\ r.failed
<1> DEFINE made == IF remake THEN Clients(s) ELSE Filled(v, s)
           first == [made EXCEPT !["cns"] = IF remake THEN None ELSE v.of["cns"]]
<1>1. v.config \in Password /\ v.of \in [Manager -> Session \cup {None}] /\ v.of["cns"] \in Session \cup {None}
  BY VirtualCenterFields DEF Manager
<1>2. made \in [Manager -> Session \cup {None}]
  BY ClientsFields, FilledFields
<1>3. first \in [Manager -> Session \cup {None}]
  <2> HIDE DEF made
  <2> QED
    BY <1>1, <1>2
<1>4. PICK of \in {v.of, first, made} : r = Outcome([config |-> v.config, client |-> s, of |-> of], FALSE, TRUE)
  BY DEF MakingFails
<1> HIDE DEF made, first
<1>5. of \in [Manager -> Session \cup {None}]
  BY <1>1, <1>2, <1>3, <1>4
<1>6. /\ r.vc = [config |-> v.config, client |-> s, of |-> of]
      /\ r.ok \in BOOLEAN /\ r.failed \in BOOLEAN /\ ~r.ok /\ r.failed
  BY <1>4 DEF Outcome
<1> QED
  BY <1>1, <1>5, <1>6, MadeFields

\* Otherwise all clients are there.
LEMMA MakeClientsFields ==
  ASSUME NEW v \in VirtualCenter, NEW s \in Session \cup {None}, NEW remake \in BOOLEAN,
         NEW r \in MakeClients(v, s, remake)
  PROVE  /\ r.vc \in VirtualCenter /\ r.vc.config = v.config
         /\ r.ok \in BOOLEAN /\ r.failed \in BOOLEAN /\ (r.ok <=> ~r.failed)
         /\ r.ok => /\ r.vc.client = s
                    /\ remake => r.vc.of = Clients(s)
                    /\ ~remake => r.vc.of = Filled(v, s)
<1>1. CASE r \in MakingFails(v, s, remake)
  BY <1>1, MakingFailsFields
<1> DEFINE of == IF remake THEN Clients(s) ELSE Filled(v, s)
<1>2. CASE r = Outcome([config |-> v.config, client |-> s, of |-> of], TRUE, FALSE)
  <2>1. of \in [Manager -> Session \cup {None}] /\ v.config \in Password
    BY ClientsFields, FilledFields, VirtualCenterFields
  <2>2. /\ r.vc = [config |-> v.config, client |-> s, of |-> of]
        /\ r.ok \in BOOLEAN /\ r.failed \in BOOLEAN /\ r.ok /\ ~r.failed
    BY <1>2 DEF Outcome
  <2>3. (remake => of = Clients(s)) /\ (~remake => of = Filled(v, s))
    OBVIOUS
  <2> HIDE DEF of
  <2> QED
    BY <2>1, <2>2, <2>3, MadeFields
<1> QED
  BY <1>1, <1>2 DEF MakeClients

\* A login that fails leaves the VirtualCenter without a session.
LEMMA LoginFailsFields ==
  ASSUME NEW v \in VirtualCenter, NEW r \in LoginFails(v)
  PROVE  /\ r.vc \in VirtualCenter /\ r.vc.config = v.config /\ r.vc.client = None /\ r.vc.of = v.of
         /\ r.ok \in BOOLEAN /\ r.failed \in BOOLEAN /\ ~r.ok /\ (r.failed <=> v.config = accepted)
<1>1. v.config \in Password /\ v.of \in [Manager -> Session \cup {None}]
  BY VirtualCenterFields
<1>2. r = Outcome([config |-> v.config, client |-> None, of |-> v.of], FALSE, v.config = accepted)
  BY DEF LoginFails
<1>3. /\ r.vc = [config |-> v.config, client |-> None, of |-> v.of]
      /\ r.ok \in BOOLEAN /\ r.failed \in BOOLEAN /\ ~r.ok /\ (r.failed <=> v.config = accepted)
  BY <1>2 DEF Outcome
<1> QED
  BY <1>1, <1>3, MadeFields

\* What Connect makes of a VirtualCenter.  A successful one leaves all clients
\* with a session that is logged in, and only a failed request breaks ClientOK.
LEMMA ConnectFields ==
  ASSUME ConnectionTypeOK, NEW v \in VirtualCenter, NEW s \in Session, NEW r \in Connect(v, s)
  PROVE  /\ r.vc \in VirtualCenter /\ r.vc.config = v.config
         /\ r.ok \in BOOLEAN /\ r.failed \in BOOLEAN
         /\ r.ok => ~r.failed /\ r.vc.client \in sessions \cup {s}
         /\ ~r.ok /\ ~r.failed => v.config # accepted
         /\ r.ok /\ ClientOK(v) => \A m \in Manager : r.vc.of[m] = r.vc.client
         /\ ~r.failed /\ ClientOK(v) => ClientOK(r.vc)
<1>0. v.client \in Session \cup {None} /\ sessions \subseteq Session /\ None \notin Session
  BY VirtualCenterFields, Numbers DEF ConnectionTypeOK
<1>1. ASSUME v.client = None, r \in LoginFails(v)
      PROVE  /\ r.vc \in VirtualCenter /\ r.vc.config = v.config
             /\ r.ok \in BOOLEAN /\ r.failed \in BOOLEAN /\ ~r.ok /\ (r.failed <=> v.config = accepted)
             /\ ~r.failed => ClientOK(r.vc)
  BY <1>1, LoginFailsFields DEF ClientOK
<1>2. ASSUME v.client = None, v.config = accepted, r \in MakeClients(v, s, FALSE), r.ok
      PROVE  /\ r.vc.client = s /\ ~r.failed
             /\ ClientOK(v) => ClientOK(r.vc) /\ \A m \in Manager : r.vc.of[m] = r.vc.client
  <2>1. r.vc.client = s /\ ~r.failed /\ r.vc.of = Filled(v, s)
    BY <1>2, MakeClientsFields
  <2>2. \A m \in Manager : r.vc.of[m] = IF v.of[m] = None THEN s ELSE v.of[m]
    BY <2>1, FilledFields
  <2> QED
    BY <1>0, <1>2, <2>1, <2>2 DEF ClientOK
<1>3. ASSUME v.client \in sessions, r \in MakeClients(v, v.client, FALSE), r.ok
      PROVE  /\ r.vc.client = v.client /\ ~r.failed
             /\ ClientOK(v) => ClientOK(r.vc) /\ \A m \in Manager : r.vc.of[m] = r.vc.client
  <2>1. r.vc.client = v.client /\ ~r.failed /\ r.vc.of = Filled(v, v.client)
    BY <1>0, <1>3, MakeClientsFields
  <2>2. \A m \in Manager : r.vc.of[m] = IF v.of[m] = None THEN v.client ELSE v.of[m]
    BY <1>0, <2>1, FilledFields
  <2> QED
    BY <1>0, <1>3, <2>1, <2>2 DEF ClientOK
<1> DEFINE filled == [v EXCEPT !.of = Filled(v, v.client)]
<1>4. /\ filled \in VirtualCenter /\ filled.config = v.config /\ filled.client = v.client
      /\ filled.of = Filled(v, v.client)
  BY <1>0, FilledFields DEF VirtualCenter
<1> HIDE DEF filled
<1>5. ASSUME v.client # None, r \in LoginFails(filled)
      PROVE  /\ r.vc \in VirtualCenter /\ r.vc.config = v.config
             /\ r.ok \in BOOLEAN /\ r.failed \in BOOLEAN /\ ~r.ok /\ (r.failed <=> v.config = accepted)
             /\ ~r.failed => ClientOK(r.vc)
  BY <1>4, <1>5, LoginFailsFields DEF ClientOK
<1>6. ASSUME r \in MakeClients(filled, s, TRUE), r.ok
      PROVE  r.vc.client = s /\ ~r.failed /\ ClientOK(r.vc) /\ \A m \in Manager : r.vc.of[m] = r.vc.client
  <2>1. r.vc.client = s /\ ~r.failed /\ r.vc.of = Clients(s)
    BY <1>4, <1>6, MakeClientsFields
  <2>2. \A m \in Manager : r.vc.of[m] = s
    BY <2>1, ClientsFields
  <2> QED
    BY <1>0, <2>1, <2>2 DEF ClientOK
<1>7. CASE v.client = None
  <2>1. r \in LoginFails(v) \/ (v.config = accepted /\ r \in MakeClients(v, s, FALSE))
    BY <1>0, <1>7 DEF Connect
  <2> QED
    BY <1>0, <1>1, <1>2, <1>7, <2>1, MakeClientsFields
<1>8. CASE v.client # None /\ v.client \in sessions
  <2>1. r \in MakeClients(v, v.client, FALSE)
    BY <1>8 DEF Connect
  <2> QED
    BY <1>0, <1>3, <1>8, <2>1, MakeClientsFields
<1>9. CASE v.client # None /\ v.client \notin sessions
  <2>1. \/ r \in MakingFails(v, v.client, FALSE) \/ r \in LoginFails(filled)
        \/ v.config = accepted /\ r \in MakeClients(filled, s, TRUE)
    BY <1>9 DEF Connect, filled
  <2>2. CASE r \in MakingFails(v, v.client, FALSE)
    <3>1. FALSE \in BOOLEAN
      OBVIOUS
    <3>2. /\ r.vc \in VirtualCenter /\ r.vc.config = v.config
          /\ r.ok \in BOOLEAN /\ r.failed \in BOOLEAN /\ ~r.ok /\ r.failed
      BY <1>0, <2>2, <3>1, MakingFailsFields, Zenon
    <3> QED
      BY <3>2
  <2>3. CASE r \in LoginFails(filled)
    BY <1>5, <1>9, <2>3
  <2>4. CASE r \in MakeClients(filled, s, TRUE)
    BY <1>4, <1>6, <2>4, MakeClientsFields
  <2> QED
    BY <2>1, <2>2, <2>3, <2>4
<1> QED
  BY <1>7, <1>8, <1>9

-----------------------------------------------------------------------------
(* Faults and records *)

\* The kinds of faults that happened only become more.
LEMMA FaultFields ==
  ASSUME FaultsOK, NEW k, Fault(k)
  PROVE  FaultsOK' /\ Happened(k)' /\ \A j : Happened(j) => Happened(j)'
<1>1. k \in Env /\ faults' = [count |-> faults.count + 1, kinds |-> faults.kinds \cup {k}]
  BY DEF Fault
<1>2. faults.count \in Nat /\ faults.kinds \in SUBSET Env
  BY DEF FaultsOK
<1>3. faults'.kinds = faults.kinds \cup {k}
  BY <1>1
<1> QED
  BY <1>1, <1>2, <1>3 DEF FaultsOK, Happened

\* A step without a fault.
LEMMA NoFaultFields ==
  ASSUME FaultsOK, UNCHANGED faults
  PROVE  FaultsOK' /\ \A j : Happened(j)' <=> Happened(j)
BY DEF FaultsOK, Happened

\* The fields of an operation.
LEMMA OpFields ==
  ASSUME NEW x \in OpState
  PROVE  /\ x.pc \in {"idle", "check", "reload", "ready", "call", "reconnect",
                      "again", "done", "refused", "exceeded"}
         /\ x.on \in Manager /\ x.client \in Session \cup {None} /\ x.disturbed \in BOOLEAN
BY DEF OpState

\* An operation goes on.
LEMMA OpGoesOn ==
  ASSUME NEW x \in OpState, NEW y,
         NEW p \in {"idle", "check", "reload", "ready", "call", "reconnect",
                    "again", "done", "refused", "exceeded"},
         y = [x EXCEPT !.pc = p]
  PROVE  y \in OpState /\ y.pc = p /\ y.on = x.on /\ y.client = x.client /\ y.disturbed = x.disturbed
BY DEF OpState

\* An operation goes on, with another client.
LEMMA OpGoesOnWith ==
  ASSUME NEW x \in OpState, NEW y, NEW s \in Session \cup {None},
         NEW p \in {"idle", "check", "reload", "ready", "call", "reconnect",
                    "again", "done", "refused", "exceeded"},
         y = [x EXCEPT !.pc = p, !.client = s]
  PROVE  y \in OpState /\ y.pc = p /\ y.on = x.on /\ y.client = s /\ y.disturbed = x.disturbed
BY DEF OpState

\* An operation loses a session.
LEMMA OpDisturbed ==
  ASSUME NEW x \in OpState, NEW y, y = [x EXCEPT !.disturbed = TRUE]
  PROVE  y \in OpState /\ y.pc = x.pc /\ y.on = x.on /\ y.client = x.client /\ y.disturbed
BY DEF OpState

\* An operation returns.
LEMMA EndFields ==
  ASSUME NEW o, NEW p \in Ended
  PROVE  /\ End(o, p) \in OpState /\ End(o, p).pc = p
         /\ p = "exceeded" /\ op[o].disturbed => End(o, p).disturbed
<1> DEFINE d == p = "exceeded" /\ op[o].disturbed
           x == [pc |-> p, on |-> "vslm", client |-> None, disturbed |-> d]
<1>1. d \in BOOLEAN
  OBVIOUS
<1>2. End(o, p) = x
  BY DEF End
<1> HIDE DEF d
<1>3. x.pc = p /\ (x.disturbed <=> d) /\ x \in OpState
  BY <1>1 DEF OpState, Ended, Manager
<1> HIDE DEF x
<1> QED
  BY <1>2, <1>3 DEF d

\* One operation takes a step.
LEMMA StepFields ==
  ASSUME op \in [Op -> OpState], NEW o \in Op, NEW x \in OpState, Step(o, x)
  PROVE  op' \in [Op -> OpState] /\ op'[o] = x /\ \A p \in Op : p # o => op'[p] = op[p]
BY DEF Step

\* A session is lost: the operations go nowhere, those that hold it are disturbed.
LEMMA DisturbFields ==
  ASSUME op \in [Op -> OpState], NEW s, op' = Disturb(s)
  PROVE  /\ op' \in [Op -> OpState]
         /\ \A o \in Op : /\ op'[o].pc = op[o].pc /\ op'[o].client = op[o].client
                          /\ op[o].disturbed => op'[o].disturbed
                          /\ op[o].pc \notin Ended /\ s = op[o].client => op'[o].disturbed
<1>1. DOMAIN op' = Op /\ op' = [o \in Op |-> op'[o]]
  BY DEF Disturb
<1>2. ASSUME NEW o \in Op
      PROVE  /\ op'[o] \in OpState /\ op'[o].pc = op[o].pc /\ op'[o].client = op[o].client
             /\ op[o].disturbed => op'[o].disturbed
             /\ op[o].pc \notin Ended /\ s = op[o].client => op'[o].disturbed
  <2>1. \/ op'[o] = [op[o] EXCEPT !.disturbed = TRUE]
        \/ op'[o] = op[o] /\ ~(op[o].pc \notin Ended /\ s = op[o].client)
    BY DEF Disturb
  <2>2. CASE op'[o] = [op[o] EXCEPT !.disturbed = TRUE]
    BY <2>2, OpDisturbed
  <2> QED
    BY <2>1, <2>2
<1> QED
  BY <1>1, <1>2

\* The fields of the progress of ReloadConfig.
LEMMA ReloadFields ==
  ASSUME NEW x \in ReloadState
  PROVE  /\ x.pc \in {"idle", "disconnect", "connect", "vslm", "cns", "vddk"}
         /\ x.by \in Op \cup {"secret"} /\ x.client \in Session \cup {None}
         /\ x.result \in {"ok", "failed"}
BY DEF ReloadState

\* ReloadConfig returns, and with it the operation that called it.
LEMMA ReloadEndsFields ==
  ASSUME op \in [Op -> OpState], reload \in ReloadState, NEW result \in {"ok", "failed"},
         ReloadEnds(result)
  PROVE  /\ reload' \in ReloadState /\ reload'.pc = "idle" /\ reload'.result = result
         /\ op' \in [Op -> OpState]
         /\ \A o \in Op : op'[o] # op[o] => op'[o].pc = IF result = "ok" THEN "ready" ELSE "refused"
<1>1. reload' = [pc |-> "idle", by |-> "secret", client |-> None, result |-> result]
  BY DEF ReloadEnds
<1>2. reload' \in ReloadState /\ reload'.pc = "idle" /\ reload'.result = result
  BY <1>1 DEF ReloadState
<1> DEFINE b == reload.by
           x == IF result = "ok" THEN [op[b] EXCEPT !.pc = "ready"] ELSE End(b, "refused")
<1>3. CASE b \in Op
  <2>1. op' = [op EXCEPT ![b] = x]
    BY <1>3 DEF ReloadEnds
  <2>2. x \in OpState /\ x.pc = IF result = "ok" THEN "ready" ELSE "refused"
    <3>1. op[b] \in OpState
      BY <1>3
    <3>2. CASE result = "ok"
      BY <3>1, <3>2, OpGoesOn
    <3>3. CASE result # "ok"
      BY <3>3, EndFields DEF Ended
    <3> QED
      BY <3>2, <3>3
  <2> HIDE DEF x
  <2> QED
    BY <1>2, <1>3, <2>1, <2>2
<1>4. CASE b \notin Op
  BY <1>2, <1>4 DEF ReloadEnds
<1> QED
  BY <1>3, <1>4

-----------------------------------------------------------------------------
(* The operations *)

\* Initially there is no connection, and nothing runs.
LEMMA ConnectionInitInv == ConnectionInit => ConnectionInv
<1> SUFFICES ASSUME ConnectionInit PROVE ConnectionInv
  OBVIOUS
<1>1. PICK c \in Cluster : SecretIsRead(c, {}) /\ server = [pc |-> "read", cluster |-> c, watched |-> FALSE]
  BY DEF ConnectionInit
<1>2. server \in ServerState /\ server.pc = "read" /\ server.cluster = c /\ ~server.watched
  BY <1>1 DEF ServerState
<1>3. Disconnected \in VirtualCenter /\ Disconnected.config = 0 /\ Disconnected.client = None /\ ClientOK(Disconnected)
  <2>1. 0 \in Password
    BY ConnectionAssumption DEF Password
  <2>2. /\ Disconnected \in VirtualCenter /\ Disconnected.config = 0 /\ Disconnected.client = None
        /\ Disconnected.of = Clients(None)
    BY <2>1, ClientsFields, MadeFields DEF Disconnected
  <2> QED
    BY <2>2, ClientsFields DEF ClientOK
<1>4. vc \in [VC -> VirtualCenter] /\ \A v \in VC : vc[v] = Disconnected
  BY <1>3 DEF ConnectionInit
<1>5. petm \in [config : Password, vc : VC \cup {None}] /\ petm.config = 0 /\ petm.vc = None
  BY ConnectionAssumption DEF ConnectionInit, Password
<1>6. manager \in [Manager -> ManagerState] /\ \A m \in Manager : manager[m].vc = None
  BY DEF ConnectionInit, ManagerState
<1>7. reload \in ReloadState /\ reload.pc = "idle" /\ reload.result = "failed"
  BY DEF ConnectionInit, ReloadState
<1>8. op \in [Op -> OpState] /\ \A o \in Op : op[o].pc = "idle"
  <2>1. [pc |-> "idle", on |-> "vslm", client |-> None, disturbed |-> FALSE] \in OpState
    BY DEF OpState, Manager
  <2> QED
    BY <2>1 DEF ConnectionInit
<1>9. accepted = 0 /\ secret = 0 /\ accepted \in Password /\ secret \in Password
  BY ConnectionAssumption DEF ConnectionInit, Password
<1>10. FaultsOK /\ sessions \in SUBSET Session /\ vddk \in BOOLEAN
  BY DEF ConnectionInit, FaultsOK, NoFaults
<1>11. ConnectionTypeOK
  BY <1>2, <1>4, <1>5, <1>6, <1>7, <1>8, <1>9, <1>10 DEF ConnectionTypeOK
<1>12. StartOK
  BY <1>1, <1>2, <1>5, <1>7, <1>8 DEF StartOK
<1>13. PasswordOK
  BY <1>3, <1>4, <1>5, <1>9 DEF PasswordOK
<1>14. ManagersOK /\ ReadyOK
  BY <1>5, <1>6, <1>7 DEF ManagersOK, ReadyOK, Manager
<1>15. CheckedIsConnected /\ CallsOK
  BY <1>3, <1>4, <1>8 DEF CheckedIsConnected, CallsOK
<1> QED
  BY <1>11, <1>12, <1>13, <1>14, <1>15 DEF ConnectionInv

\* A step of one operation that touches nothing else keeps the invariant, if it
\* passes the check only once there are managers, and if it gives up only after
\* it was disturbed.
LEMMA OpStep ==
  ASSUME ConnectionInv, NEW o \in Op, NEW x \in OpState, Step(o, x),
         UNCHANGED <<server, accepted, secret, sessions, vc, petm, manager, vddk, reload, faults>>,
         server.pc = "run" \/ op[o].pc # "idle",
         x.pc \in {"ready", "call", "reconnect"} => \A m \in Manager : manager[m].vc # None,
         x.pc # "again",
         ~Happened("connect") /\ x.pc = "exceeded" => x.disturbed
  PROVE  ConnectionInv'
<1> USE DEF ConnectionInv
<1>1. op' \in [Op -> OpState] /\ op'[o] = x /\ \A p \in Op : p # o => op'[p] = op[p]
  BY StepFields DEF ConnectionTypeOK
<1>2. FaultsOK' /\ \A j : Happened(j)' <=> Happened(j)
  BY NoFaultFields DEF ConnectionTypeOK
<1>3. ConnectionTypeOK'
  BY <1>1, <1>2 DEF ConnectionTypeOK
<1>4. server.pc = "run"
  BY DEF StartOK
<1>5. StartOK'
  BY <1>4 DEF StartOK
<1>6. PasswordOK'
  BY DEF PasswordOK
<1>7. ManagersOK'
  BY DEF ManagersOK
<1>8. CheckedIsConnected'
  BY <1>1 DEF CheckedIsConnected
<1>9. CallsOK'
  <2> SUFFICES ASSUME ~Happened("connect")'
               PROVE  /\ \A v \in VC : ClientOK(vc[v])'
                      /\ \A p \in Op : /\ op'[p].pc = "again" => op'[p].client \in sessions' \/ op'[p].disturbed
                                       /\ op'[p].pc = "exceeded" => op'[p].disturbed
    BY DEF CallsOK
  <2>1. ~Happened("connect")
    BY <1>2
  <2>2. \A v \in VC : ClientOK(vc[v])'
    BY <2>1 DEF CallsOK, ClientOK
  <2> QED
    BY <1>1, <2>1, <2>2 DEF CallsOK
<1>10. ReadyOK'
  BY <1>2 DEF ReadyOK
<1> QED
  BY <1>3, <1>5, <1>6, <1>7, <1>8, <1>9, <1>10

\* StartOp, CheckVcenterConnections, and the calls without the reconnection.
LEMMA CallSteps ==
  ASSUME ConnectionInv, NEW o \in Op,
         \/ \E m \in Manager : StartOp(o, m)
         \/ CheckVcenterConnections(o) \/ BeginCall(o) \/ Call(o)
  PROVE  ConnectionInv'
<1>0. op[o] \in OpState /\ op \in [Op -> OpState] /\ manager \in [Manager -> ManagerState]
  BY DEF ConnectionInv, ConnectionTypeOK
<1>1. ASSUME NEW m \in Manager, StartOp(o, m) PROVE ConnectionInv'
  <2> DEFINE x == [pc |-> "check", on |-> m, client |-> None, disturbed |-> FALSE]
  <2>1. x \in OpState /\ x.pc = "check"
    BY DEF OpState
  <2>2. Step(o, x)
    BY <1>1 DEF StartOp
  <2> HIDE DEF x
  <2> QED
    BY <1>1, <2>1, <2>2, OpStep DEF StartOp
<1>2. CASE CheckVcenterConnections(o)
  <2> DEFINE p == IF petm.vc = None \/ \E m \in Manager : manager[m].vc = None THEN "reload" ELSE "ready"
             x == [op[o] EXCEPT !.pc = p]
  <2>1. p \in {"reload", "ready"} /\ (p = "ready" => \A m \in Manager : manager[m].vc # None)
    OBVIOUS
  <2>2. Step(o, x)
    BY <1>2 DEF CheckVcenterConnections
  <2> HIDE DEF p
  <2>3. x \in OpState /\ x.pc = p
    BY <1>0, <2>1, OpGoesOn
  <2> HIDE DEF x
  <2> QED
    BY <1>2, <2>1, <2>2, <2>3, OpStep DEF CheckVcenterConnections
<1>3. CASE BeginCall(o)
  <2> DEFINE s == manager[op[o].on].client
             x == [op[o] EXCEPT !.pc = "call", !.client = s]
  <2>1. s \in Session \cup {None}
    BY <1>0, OpFields DEF ManagerState
  <2>2. Step(o, x)
    BY <1>3 DEF BeginCall
  <2> HIDE DEF s
  <2>3. x \in OpState /\ x.pc = "call"
    BY <1>0, <2>1 DEF OpState
  <2>4. \A m \in Manager : manager[m].vc # None
    BY <1>3 DEF BeginCall, ConnectionInv, CheckedIsConnected
  <2> HIDE DEF x
  <2> QED
    BY <1>3, <2>2, <2>3, <2>4, OpStep DEF BeginCall
<1>4. CASE Call(o)
  <2>1. CASE op[o].client \in sessions
    <3>1. Step(o, End(o, "done"))
      BY <1>4, <2>1 DEF Call
    <3>2. End(o, "done") \in OpState /\ End(o, "done").pc = "done"
      BY EndFields DEF Ended
    <3> QED
      BY <1>4, <3>1, <3>2, OpStep DEF Call
  <2>2. CASE op[o].client \notin sessions /\ op[o].pc = "call"
    <3> DEFINE x == [op[o] EXCEPT !.pc = "reconnect"]
    <3>1. Step(o, x)
      BY <1>4, <2>2 DEF Call
    <3>2. x \in OpState /\ x.pc = "reconnect"
      BY <1>0, OpGoesOn
    <3>3. \A m \in Manager : manager[m].vc # None
      BY <2>2 DEF ConnectionInv, CheckedIsConnected
    <3> HIDE DEF x
    <3> QED
      BY <1>4, <2>2, <3>1, <3>2, <3>3, OpStep DEF Call
  <2>3. CASE op[o].client \notin sessions /\ op[o].pc = "again"
    <3>1. Step(o, End(o, "exceeded"))
      BY <1>4, <2>3 DEF Call
    <3>2. /\ End(o, "exceeded") \in OpState /\ End(o, "exceeded").pc = "exceeded"
          /\ op[o].disturbed => End(o, "exceeded").disturbed
      BY EndFields DEF Ended
    <3>3. ~Happened("connect") => op[o].disturbed
      BY <2>3 DEF ConnectionInv, CallsOK
    <3> QED
      BY <1>4, <2>3, <3>1, <3>2, <3>3, OpStep DEF Call
  <2> QED
    BY <1>4, <2>1, <2>2, <2>3 DEF Call
<1> QED
  BY <1>1, <1>2, <1>3, <1>4

\* A VirtualCenter that is as it should be stays so until the password is rotated.
LEMMA ClientStays ==
  ASSUME NEW w, NEW v, ClientOK(v), vc'[w] = v, accepted' = accepted
  PROVE  ClientOK(vc[w])'
BY DEF ClientOK

\* The session of a successful Connect is logged in afterwards.
LEMMA ConnectedSession ==
  ASSUME ConnectionTypeOK, Unused # {}, NEW v \in VirtualCenter, FreshSession # v.client,
         NEW r \in Connect(v, FreshSession)
  PROVE  /\ LoggedIn(v, r.vc) \in SUBSET Session /\ sessions \subseteq LoggedIn(v, r.vc)
         /\ r.ok => r.vc.client \in LoggedIn(v, r.vc)
<1>1. FreshSession \in Session /\ FreshSession # None
  BY FreshSessionFree
<1>2. r.vc \in VirtualCenter /\ (r.ok => r.vc.client \in sessions \cup {FreshSession})
  BY <1>1, ConnectFields
<1>3. r.vc.client \in Session \cup {None} /\ sessions \in SUBSET Session
  BY <1>2, VirtualCenterFields DEF ConnectionTypeOK
<1> QED
  BY <1>1, <1>2, <1>3 DEF LoggedIn

\* processError connects the VirtualCenter of the manager: its configuration
\* stays, and without a failed request the operation gets a client that works.
LEMMA ReconnectStep ==
  ASSUME ConnectionInv, NEW o \in Op, Reconnect(o)
  PROVE  ConnectionInv'
<1> DEFINE v == manager[op[o].on].vc
<1>1. op[o] \in OpState /\ op[o].on \in Manager
  BY OpFields DEF ConnectionInv, ConnectionTypeOK
<1>2. v \in VC
  <2>1. v \in VC \cup {None}
    BY <1>1 DEF ConnectionInv, ConnectionTypeOK, ManagerState
  <2>2. v # None
    BY <1>1 DEF ConnectionInv, CheckedIsConnected, Reconnect
  <2> QED
    BY <2>1, <2>2
<1>3. PICK r \in Connect(vc[v], FreshSession) :
        /\ IF r.failed THEN Fault("connect") ELSE UNCHANGED faults
        /\ sessions' = LoggedIn(vc[v], r.vc)
        /\ vc' = [vc EXCEPT ![v] = r.vc]
        /\ Step(o, IF r.ok THEN [op[o] EXCEPT !.pc = "again", !.client = r.vc.of[op[o].on]]
                   ELSE End(o, "refused"))
  BY DEF Reconnect
<1>4. UNCHANGED <<server, accepted, secret, petm, manager, vddk, reload>> /\ Unused # {} /\ op[o].pc = "reconnect"
  BY DEF Reconnect
<1> HIDE DEF v
<1>5. /\ vc[v] \in VirtualCenter /\ FreshSession \in Session /\ FreshSession # vc[v].client
      /\ vc \in [VC -> VirtualCenter]
  BY <1>2, <1>4, FreshSessionFree DEF ConnectionInv, ConnectionTypeOK
<1>6. ConnectionTypeOK
  BY DEF ConnectionInv
<1>7. /\ r.vc \in VirtualCenter /\ r.vc.config = vc[v].config
      /\ r.ok \in BOOLEAN /\ r.failed \in BOOLEAN
      /\ r.ok /\ ClientOK(vc[v]) => \A m \in Manager : r.vc.of[m] = r.vc.client
      /\ ~r.failed /\ ClientOK(vc[v]) => ClientOK(r.vc)
  BY <1>5, <1>6, ConnectFields
<1>8. /\ sessions' \in SUBSET Session /\ sessions \subseteq sessions'
      /\ r.ok => r.vc.client \in sessions'
  BY <1>3, <1>4, <1>5, <1>6, ConnectedSession
<1>9. FaultsOK' /\ (\A j : Happened(j) => Happened(j)') /\ (r.failed => Happened("connect")')
  <2>1. FaultsOK
    BY <1>6 DEF ConnectionTypeOK
  <2>2. CASE r.failed
    BY <1>3, <2>1, <2>2, FaultFields
  <2>3. CASE ~r.failed
    BY <1>3, <2>1, <2>3, NoFaultFields
  <2> QED
    BY <2>2, <2>3
<1>10. vc' \in [VC -> VirtualCenter] /\ vc'[v] = r.vc /\ \A w \in VC : w # v => vc'[w] = vc[w]
  BY <1>2, <1>3, <1>5, <1>7
<1>11. \A w \in VC : vc'[w].config = vc[w].config
  BY <1>7, <1>10
<1> DEFINE x == IF r.ok THEN [op[o] EXCEPT !.pc = "again", !.client = r.vc.of[op[o].on]]
                ELSE End(o, "refused")
<1>12. /\ x \in OpState
       /\ \/ x.pc = "again" /\ r.ok /\ x.client = r.vc.of[op[o].on]
          \/ x.pc = "refused"
  <2>1. r.vc.of[op[o].on] \in Session \cup {None}
    BY <1>1, <1>7, VirtualCenterFields
  <2>2. CASE r.ok
    BY <1>1, <2>1, <2>2 DEF OpState
  <2>3. CASE ~r.ok
    BY <2>3, EndFields DEF Ended
  <2> QED
    BY <2>2, <2>3
<1>13. Step(o, x)
  BY <1>3
<1> HIDE DEF x
<1>14. op' \in [Op -> OpState] /\ op'[o] = x /\ \A p \in Op : p # o => op'[p] = op[p]
  BY <1>6, <1>12, <1>13, StepFields DEF ConnectionTypeOK
<1>15. ConnectionTypeOK'
  BY <1>4, <1>6, <1>8, <1>9, <1>10, <1>14 DEF ConnectionTypeOK
<1>16. StartOK'
  <2>1. server.pc = "run"
    BY <1>4 DEF ConnectionInv, StartOK
  <2> QED
    BY <1>4, <2>1 DEF StartOK
<1>17. PasswordOK' /\ ManagersOK'
  BY <1>4, <1>11 DEF ConnectionInv, PasswordOK, ManagersOK
<1>18. CheckedIsConnected'
  BY <1>4, <1>12, <1>14 DEF ConnectionInv, CheckedIsConnected
<1>19. CallsOK'
  <2> SUFFICES ASSUME ~Happened("connect")'
               PROVE  /\ \A w \in VC : ClientOK(vc[w])'
                      /\ \A p \in Op : /\ op'[p].pc = "again" => op'[p].client \in sessions' \/ op'[p].disturbed
                                       /\ op'[p].pc = "exceeded" => op'[p].disturbed
    BY DEF CallsOK
  <2>1. ~Happened("connect") /\ ~r.failed
    BY <1>9
  <2>2. \A w \in VC : ClientOK(vc[w])
    BY <2>1 DEF ConnectionInv, CallsOK
  <2>3. ClientOK(r.vc) /\ (r.ok => \A m \in Manager : r.vc.of[m] = r.vc.client)
    BY <1>2, <1>7, <2>1, <2>2
  <2>4. \A w \in VC : ClientOK(vc[w])'
    <3>1. ASSUME NEW w \in VC, w = v PROVE ClientOK(vc[w])'
      BY <1>4, <1>10, <2>3, <3>1, ClientStays
    <3>2. ASSUME NEW w \in VC, w # v PROVE ClientOK(vc[w])'
      BY <1>4, <1>10, <2>2, <3>2, ClientStays
    <3> QED
      BY <3>1, <3>2
  <2>5. x.pc = "again" => x.client \in sessions'
    BY <1>1, <1>8, <1>12, <2>3
  <2>6. \A p \in Op : /\ op[p].pc = "again" => op[p].client \in sessions \/ op[p].disturbed
                      /\ op[p].pc = "exceeded" => op[p].disturbed
    BY <2>1 DEF ConnectionInv, CallsOK
  <2> QED
    BY <1>8, <1>12, <1>14, <2>4, <2>5, <2>6
<1>20. ReadyOK'
  <2>1. petm.vc # None => petm.vc \in VC
    BY <1>6 DEF ConnectionTypeOK
  <2> QED
    BY <1>4, <1>9, <1>11, <2>1 DEF ConnectionInv, ReadyOK
<1> QED
  BY <1>15, <1>16, <1>17, <1>18, <1>19, <1>20 DEF ConnectionInv

-----------------------------------------------------------------------------
(* ReloadConfig *)

\* What the operations know stays true when some of them return from
\* ReloadConfig: with managers if they go on.
LEMMA OpsReturn ==
  ASSUME ConnectionInv, op' \in [Op -> OpState], UNCHANGED manager, sessions \subseteq sessions',
         \A o \in Op : op'[o] # op[o] =>
           \/ op'[o].pc = "refused"
           \/ op'[o].pc = "ready" /\ \A m \in Manager : manager[m].vc # None
  PROVE  /\ CheckedIsConnected'
         /\ ~Happened("connect") =>
              \A o \in Op : /\ op'[o].pc = "again" => op'[o].client \in sessions' \/ op'[o].disturbed
                            /\ op'[o].pc = "exceeded" => op'[o].disturbed
<1>1. CheckedIsConnected'
  BY DEF ConnectionInv, CheckedIsConnected
<1>2. ASSUME ~Happened("connect"), NEW o \in Op
      PROVE  /\ op'[o].pc = "again" => op'[o].client \in sessions' \/ op'[o].disturbed
             /\ op'[o].pc = "exceeded" => op'[o].disturbed
  <2>1. CASE op'[o] = op[o]
    BY <1>2, <2>1 DEF ConnectionInv, CallsOK
  <2>2. CASE op'[o] # op[o]
    BY <2>2
  <2> QED
    BY <2>1, <2>2
<1> QED
  BY <1>1, <1>2

\* With nothing changed ReloadConfig reports that all is well, otherwise the new
\* configuration is stored and the rest follows.
LEMMA StartReloadStep ==
  ASSUME ConnectionInv, server.pc = "run", NEW by \in Op \cup {"secret"},
         NEW new \in Password, new =< accepted, StartReload(by, new)
  PROVE  ConnectionInv'
<1>1. UNCHANGED <<server, accepted, secret, sessions, vc, manager, vddk, faults>> /\ reload.pc = "idle"
  BY DEF StartReload
<1>2. ConnectionTypeOK /\ reload \in ReloadState /\ op \in [Op -> OpState] /\ FaultsOK
      /\ petm \in [config : Password, vc : VC \cup {None}]
  BY DEF ConnectionInv, ConnectionTypeOK
<1>3. \A m \in Manager : manager[m].vc = petm.vc
  BY <1>1 DEF ConnectionInv, ManagersOK
<1>4. FaultsOK' /\ \A j : Happened(j)' <=> Happened(j)
  BY <1>1, <1>2, NoFaultFields
<1>5. StartOK'
  BY <1>1 DEF StartOK
<1>6. ~Happened("connect")' => \A v \in VC : ClientOK(vc[v])'
  BY <1>1, <1>4 DEF ConnectionInv, CallsOK, ClientOK
<1>7. CASE petm.config = new /\ petm.vc # None
  <2>1. /\ reload' = [reload EXCEPT !.result = "ok"] /\ UNCHANGED petm
        /\ op' = IF by \in Op THEN [op EXCEPT ![by].pc = "ready"] ELSE op
    BY <1>7 DEF StartReload
  <2>2. reload' \in ReloadState /\ reload'.pc = "idle" /\ reload'.result = "ok"
    BY <1>1, <1>2, <2>1 DEF ReloadState
  <2>3. op' \in [Op -> OpState] /\ \A o \in Op : op'[o] # op[o] => op'[o].pc = "ready"
    <3>1. CASE by \in Op
      <4> DEFINE x == [op[by] EXCEPT !.pc = "ready"]
      <4>1. x \in OpState /\ x.pc = "ready"
        BY <1>2, <3>1, OpGoesOn
      <4>2. op' = [op EXCEPT ![by] = x]
        BY <2>1, <3>1
      <4> HIDE DEF x
      <4> QED
        BY <1>2, <3>1, <4>1, <4>2
    <3>2. CASE by \notin Op
      BY <1>2, <2>1, <3>2
    <3> QED
      BY <3>1, <3>2
  <2>4. ConnectionTypeOK'
    BY <1>1, <1>2, <1>4, <2>1, <2>2, <2>3 DEF ConnectionTypeOK
  <2>5. /\ CheckedIsConnected'
        /\ ~Happened("connect") =>
             \A o \in Op : /\ op'[o].pc = "again" => op'[o].client \in sessions' \/ op'[o].disturbed
                           /\ op'[o].pc = "exceeded" => op'[o].disturbed
    BY <1>1, <1>3, <1>7, <2>3, OpsReturn
  <2>6. CallsOK'
    BY <1>4, <1>6, <2>5 DEF CallsOK
  <2>7. PasswordOK'
    BY <1>1, <2>1 DEF ConnectionInv, PasswordOK
  <2>8. ManagersOK'
    BY <1>1, <1>3, <1>7, <2>1, <2>2 DEF ManagersOK
  <2>9. ReadyOK'
    BY <1>1, <1>4, <2>1, <2>2 DEF ConnectionInv, ReadyOK
  <2> QED
    BY <1>5, <2>4, <2>5, <2>6, <2>7, <2>8, <2>9 DEF ConnectionInv
<1>8. CASE ~(petm.config = new /\ petm.vc # None)
  <2> DEFINE p == IF petm.vc # None THEN "disconnect" ELSE "connect"
  <2>1. petm' = [petm EXCEPT !.config = new] /\ reload' = [reload EXCEPT !.by = by, !.pc = p] /\ UNCHANGED op
    BY <1>8 DEF StartReload
  <2>2. p \in {"disconnect", "connect"} /\ (p = "disconnect" => petm.vc # None)
    OBVIOUS
  <2> HIDE DEF p
  <2>3. reload' \in ReloadState /\ reload'.pc = p /\ reload'.result = reload.result
    BY <1>2, <2>1, <2>2 DEF ReloadState
  <2>4. petm' \in [config : Password, vc : VC \cup {None}] /\ petm'.config = new /\ petm'.vc = petm.vc
    BY <1>2, <2>1
  <2>5. ConnectionTypeOK'
    BY <1>1, <1>2, <1>4, <2>1, <2>3, <2>4 DEF ConnectionTypeOK
  <2>6. PasswordOK'
    BY <1>1, <2>4 DEF ConnectionInv, PasswordOK
  <2>7. ManagersOK'
    BY <1>1, <1>3, <2>2, <2>3, <2>4 DEF ConnectionInv, ManagersOK
  <2>8. CheckedIsConnected'
    BY <1>1, <2>1 DEF ConnectionInv, CheckedIsConnected
  <2>9. CallsOK'
    BY <1>1, <1>4, <1>6, <2>1 DEF ConnectionInv, CallsOK
  <2>10. ReadyOK'
    BY <1>1, <1>4, <2>2, <2>3, <2>4 DEF ConnectionInv, ReadyOK
  <2> QED
    BY <1>5, <2>5, <2>6, <2>7, <2>8, <2>9, <2>10 DEF ConnectionInv
<1> QED
  BY <1>7, <1>8

\* Disconnect drops the clients of the old VirtualCenter, whose configuration
\* stays; who held its session is disturbed.
LEMMA DisconnectOldStep ==
  ASSUME ConnectionInv, DisconnectOld
  PROVE  ConnectionInv'
<1>1. /\ UNCHANGED <<server, accepted, secret, petm, manager, vddk>> /\ reload.pc = "disconnect"
      /\ reload' = [reload EXCEPT !.pc = "connect"]
  BY DEF DisconnectOld
<1>2. ConnectionTypeOK /\ reload \in ReloadState /\ op \in [Op -> OpState] /\ FaultsOK /\ vc \in [VC -> VirtualCenter]
  BY DEF ConnectionInv, ConnectionTypeOK
<1>3. petm.vc \in VC
  BY <1>1, <1>2 DEF ConnectionInv, ManagersOK, ConnectionTypeOK
<1> DEFINE v == vc[petm.vc]
<1>4. v \in VirtualCenter /\ v.config \in Password /\ v.client \in Session \cup {None}
  BY <1>2, <1>3, VirtualCenterFields
<1>5. PICK s \in {v.client, None} :
        /\ vc' = [vc EXCEPT ![petm.vc] = [config |-> v.config, client |-> s, of |-> Clients(None)]]
        /\ \/ sessions' = sessions \ {v.client} /\ op' = Disturb(v.client) /\ UNCHANGED faults
           \/ (Fault("logout") \/ UNCHANGED faults) /\ UNCHANGED <<sessions, op>>
  BY DEF DisconnectOld
<1> DEFINE n == [config |-> v.config, client |-> s, of |-> Clients(None)]
<1>6. vc' = [vc EXCEPT ![petm.vc] = n]
  BY <1>5
<1>7. n \in VirtualCenter /\ n.config = v.config /\ \A m \in Manager : n.of[m] = None
  <2>1. /\ Clients(None) \in [Manager -> Session \cup {None}] /\ s \in Session \cup {None}
        /\ \A m \in Manager : Clients(None)[m] = None
    BY <1>4, <1>5, ClientsFields
  <2>2. v.config \in Password
    BY <1>4
  <2>3. n = [config |-> v.config, client |-> s, of |-> Clients(None)]
    OBVIOUS
  <2> HIDE DEF n
  <2>4. n \in VirtualCenter /\ n.config = v.config /\ n.of = Clients(None)
    BY <2>1, <2>2, <2>3, MadeFields
  <2> QED
    BY <2>1, <2>4
<1> HIDE DEF n
<1>8. vc' \in [VC -> VirtualCenter] /\ vc'[petm.vc] = n /\ \A w \in VC : w # petm.vc => vc'[w] = vc[w]
  BY <1>2, <1>3, <1>6, <1>7
<1>9. \A w \in VC : vc'[w].config = vc[w].config
  BY <1>7, <1>8
<1> HIDE DEF v
<1>10. FaultsOK' /\ \A j : Happened(j) => Happened(j)'
  <2>1. CASE Fault("logout")
    BY <1>2, <2>1, FaultFields
  <2>2. CASE UNCHANGED faults
    BY <1>2, <2>2, NoFaultFields
  <2> QED
    BY <1>5, <2>1, <2>2
<1>11. /\ sessions' \in SUBSET Session /\ op' \in [Op -> OpState]
       /\ \A o \in Op : /\ op'[o].pc = op[o].pc
                        /\ op[o].disturbed => op'[o].disturbed
                        /\ op[o].pc = "again" /\ op[o].client \in sessions =>
                             op'[o].client \in sessions' \/ op'[o].disturbed
  <2>0. sessions \in SUBSET Session
    BY <1>2 DEF ConnectionTypeOK
  <2>1. CASE sessions' = sessions \ {v.client} /\ op' = Disturb(v.client)
    BY <1>2, <2>0, <2>1, DisturbFields DEF Ended
  <2>2. CASE UNCHANGED <<sessions, op>>
    BY <1>2, <2>0, <2>2
  <2> QED
    BY <1>5, <2>1, <2>2
<1>12. reload' \in ReloadState /\ reload'.pc = "connect" /\ reload'.result = reload.result
  BY <1>1, <1>2 DEF ReloadState
<1>13. ConnectionTypeOK'
  BY <1>1, <1>2, <1>8, <1>10, <1>11, <1>12 DEF ConnectionTypeOK
<1>14. StartOK'
  <2>1. server.pc = "run"
    BY <1>1 DEF ConnectionInv, StartOK
  <2> QED
    BY <1>1, <2>1 DEF StartOK
<1>15. PasswordOK'
  BY <1>1, <1>9 DEF ConnectionInv, PasswordOK
<1>16. ManagersOK'
  BY <1>1, <1>12 DEF ConnectionInv, ManagersOK
<1>17. CheckedIsConnected'
  BY <1>1, <1>11 DEF ConnectionInv, CheckedIsConnected
<1>18. CallsOK'
  <2> SUFFICES ASSUME ~Happened("connect")'
               PROVE  /\ \A w \in VC : ClientOK(vc[w])'
                      /\ \A p \in Op : /\ op'[p].pc = "again" => op'[p].client \in sessions' \/ op'[p].disturbed
                                       /\ op'[p].pc = "exceeded" => op'[p].disturbed
    BY DEF CallsOK
  <2>1. ~Happened("connect")
    BY <1>10
  <2>2. \A w \in VC : ClientOK(vc[w])'
    BY <1>1, <1>7, <1>8, <2>1 DEF ConnectionInv, CallsOK, ClientOK
  <2> QED
    BY <1>11, <2>1, <2>2 DEF ConnectionInv, CallsOK
<1>19. ReadyOK'
  BY <1>1, <1>10, <1>12 DEF ConnectionInv, ReadyOK
<1> QED
  BY <1>13, <1>14, <1>15, <1>16, <1>17, <1>18, <1>19 DEF ConnectionInv

\* GetVirtualCenter: the new VirtualCenter has the configuration that was stored
\* and takes the place of no other; a refusal means that it is outdated.
LEMMA ConnectNewStep ==
  ASSUME ConnectionInv, ConnectNew
  PROVE  ConnectionInv'
<1> DEFINE new == [config |-> petm.config, client |-> None, of |-> Clients(None)]
<1>1. UNCHANGED <<server, accepted, secret, manager, vddk>> /\ reload.pc = "connect" /\ Unused # {}
  BY DEF ConnectNew
<1>2. PICK r \in Connect(new, FreshSession) :
        /\ IF r.failed THEN Fault("connect") ELSE UNCHANGED faults
        /\ sessions' = LoggedIn(new, r.vc)
        /\ \/ /\ r.ok
              /\ vc' = [vc EXCEPT ![FreshVC] = r.vc]
              /\ petm' = [petm EXCEPT !.vc = FreshVC]
              /\ reload' = [reload EXCEPT !.pc = "vslm", !.client = r.vc.client]
              /\ UNCHANGED op
           \/ /\ ~r.ok
              /\ ReloadEnds("failed")
              /\ UNCHANGED <<vc, petm>>
  BY DEF ConnectNew
<1>3. /\ ConnectionTypeOK /\ reload \in ReloadState /\ op \in [Op -> OpState] /\ FaultsOK
      /\ vc \in [VC -> VirtualCenter] /\ petm \in [config : Password, vc : VC \cup {None}]
      /\ petm.config \in Password
  BY DEF ConnectionInv, ConnectionTypeOK
<1>4. /\ new \in VirtualCenter /\ new.config = petm.config /\ new.client = None
      /\ ClientOK(new)
  <2>1. Clients(None) \in [Manager -> Session \cup {None}] /\ \A m \in Manager : Clients(None)[m] = None
    BY ClientsFields
  <2>2. new \in VirtualCenter /\ new.config = petm.config /\ new.client = None /\ new.of = Clients(None)
    BY <1>3, <2>1, MadeFields
  <2> HIDE DEF new
  <2> QED
    BY <2>1, <2>2 DEF ClientOK
<1> HIDE DEF new
<1>5. FreshSession \in Session /\ FreshSession # new.client
  BY <1>1, <1>4, FreshSessionFree
<1>6. /\ r.vc \in VirtualCenter /\ r.vc.config = petm.config
      /\ r.ok \in BOOLEAN /\ r.failed \in BOOLEAN
      /\ ~r.ok /\ ~r.failed => petm.config # accepted
      /\ ~r.failed => ClientOK(r.vc)
  BY <1>3, <1>4, <1>5, ConnectFields
<1>7. sessions' \in SUBSET Session /\ sessions \subseteq sessions'
  BY <1>1, <1>2, <1>3, <1>4, <1>5, ConnectedSession
<1>8. FaultsOK' /\ (\A j : Happened(j) => Happened(j)') /\ (r.failed => Happened("connect")')
  <2>1. CASE r.failed
    BY <1>2, <1>3, <2>1, FaultFields
  <2>2. CASE ~r.failed
    BY <1>2, <1>3, <2>2, NoFaultFields
  <2> QED
    BY <2>1, <2>2
<1>9. StartOK'
  <2>1. server.pc = "run"
    BY <1>1 DEF ConnectionInv, StartOK
  <2> QED
    BY <1>1, <2>1 DEF StartOK
<1>10. \A m \in Manager : manager[m].vc = petm.vc
  BY <1>1 DEF ConnectionInv, ManagersOK
<1>11. CASE r.ok
  <2> DEFINE w == FreshVC
  <2>1. /\ vc' = [vc EXCEPT ![w] = r.vc] /\ petm' = [petm EXCEPT !.vc = w] /\ UNCHANGED op
        /\ reload' = [reload EXCEPT !.pc = "vslm", !.client = r.vc.client]
    BY <1>2, <1>11
  <2>2. w \in VC /\ w # None
    BY <1>10, FreshVCFree, Numbers
  <2> HIDE DEF w
  <2>3. vc' \in [VC -> VirtualCenter] /\ vc'[w] = r.vc /\ \A u \in VC : u # w => vc'[u] = vc[u]
    BY <1>3, <1>6, <2>1, <2>2
  <2>4. petm' \in [config : Password, vc : VC \cup {None}] /\ petm'.config = petm.config /\ petm'.vc = w
    BY <1>3, <2>1, <2>2
  <2>5. reload' \in ReloadState /\ reload'.pc = "vslm"
    <3>1. r.vc.client \in Session \cup {None}
      BY <1>6, VirtualCenterFields
    <3> QED
      BY <1>3, <2>1, <3>1 DEF ReloadState
  <2>6. ConnectionTypeOK'
    BY <1>1, <1>3, <1>7, <1>8, <2>1, <2>3, <2>4, <2>5 DEF ConnectionTypeOK
  <2>7. PasswordOK'
    BY <1>1, <1>6, <2>3, <2>4 DEF ConnectionInv, PasswordOK
  <2>8. ManagersOK'
    BY <2>2, <2>4, <2>5 DEF ManagersOK
  <2>9. /\ CheckedIsConnected'
        /\ ~Happened("connect") =>
             \A o \in Op : /\ op'[o].pc = "again" => op'[o].client \in sessions' \/ op'[o].disturbed
                           /\ op'[o].pc = "exceeded" => op'[o].disturbed
    BY <1>1, <1>3, <1>7, <2>1, OpsReturn
  <2>10. CallsOK'
    <3> SUFFICES ASSUME ~Happened("connect")'
                 PROVE  \A u \in VC : ClientOK(vc[u])'
      BY <1>8, <2>9 DEF CallsOK
    <3>1. ~Happened("connect") /\ ~r.failed
      BY <1>8
    <3>2. \A u \in VC : ClientOK(vc[u])
      BY <3>1 DEF ConnectionInv, CallsOK
    <3>3. ASSUME NEW u \in VC, u = w PROVE ClientOK(vc[u])'
      BY <1>1, <1>6, <2>3, <3>1, <3>3, ClientStays
    <3>4. ASSUME NEW u \in VC, u # w PROVE ClientOK(vc[u])'
      BY <1>1, <2>3, <3>2, <3>4, ClientStays
    <3> QED
      BY <3>3, <3>4
  <2>11. ReadyOK'
    BY <1>6, <2>2, <2>3, <2>4, <2>5 DEF ReadyOK
  <2> QED
    BY <1>9, <2>6, <2>7, <2>8, <2>9, <2>10, <2>11 DEF ConnectionInv
<1>12. CASE ~r.ok
  <2>1. ReloadEnds("failed") /\ UNCHANGED <<vc, petm>>
    BY <1>2, <1>12
  <2>2. /\ reload' \in ReloadState /\ reload'.pc = "idle" /\ reload'.result = "failed"
        /\ op' \in [Op -> OpState]
        /\ \A o \in Op : op'[o] # op[o] => op'[o].pc = "refused"
    BY <1>3, <2>1, ReloadEndsFields
  <2>3. ConnectionTypeOK'
    BY <1>1, <1>3, <1>7, <1>8, <2>1, <2>2 DEF ConnectionTypeOK
  <2>4. PasswordOK'
    BY <1>1, <2>1 DEF ConnectionInv, PasswordOK
  <2>5. ManagersOK'
    BY <1>1, <1>10, <2>1, <2>2 DEF ManagersOK
  <2>6. /\ CheckedIsConnected'
        /\ ~Happened("connect") =>
             \A o \in Op : /\ op'[o].pc = "again" => op'[o].client \in sessions' \/ op'[o].disturbed
                           /\ op'[o].pc = "exceeded" => op'[o].disturbed
    BY <1>1, <1>7, <2>2, OpsReturn
  <2>7. CallsOK'
    <3> SUFFICES ASSUME ~Happened("connect")'
                 PROVE  \A u \in VC : ClientOK(vc[u])'
      BY <1>8, <2>6 DEF CallsOK
    <3>1. ~Happened("connect")
      BY <1>8
    <3> QED
      BY <1>1, <2>1, <3>1 DEF ConnectionInv, CallsOK, ClientOK
  <2>8. ReadyOK'
    <3>1. ~Happened("connect")' => petm.config < accepted
      <4>1. petm.config \in Nat /\ accepted \in Nat /\ petm.config =< accepted
        BY <1>3 DEF ConnectionInv, PasswordOK, ConnectionTypeOK, Password
      <4>2. ~Happened("connect")' => petm.config # accepted
        BY <1>6, <1>8, <1>12
      <4> QED
        BY <4>1, <4>2
    <3>2. ~Happened("vddk")' /\ petm.vc # None => vddk
      BY <1>1, <1>8 DEF ConnectionInv, ReadyOK
    <3> QED
      BY <1>1, <2>1, <2>2, <3>1, <3>2 DEF ReadyOK
  <2> QED
    BY <1>9, <2>3, <2>4, <2>5, <2>6, <2>7, <2>8 DEF ConnectionInv
<1> QED
  BY <1>6, <1>11, <1>12

\* The managers get the new VirtualCenter one after the other.
LEMMA ResetManagerStep ==
  ASSUME ConnectionInv, NEW m \in Manager, ResetManager(m)
  PROVE  ConnectionInv'
<1> DEFINE p == IF m = "vslm" THEN "cns" ELSE "vddk"
           n == [vc |-> petm.vc, client |-> reload.client]
<1>1. /\ UNCHANGED <<server, accepted, secret, sessions, vc, petm, vddk, op, faults>> /\ reload.pc = m
      /\ manager' = [manager EXCEPT ![m] = n] /\ reload' = [reload EXCEPT !.pc = p]
  BY DEF ResetManager
<1>2. ConnectionTypeOK /\ reload \in ReloadState /\ manager \in [Manager -> ManagerState] /\ FaultsOK
  BY DEF ConnectionInv, ConnectionTypeOK
<1>3. n \in ManagerState /\ n.vc = petm.vc
  <2>1. petm.vc \in VC \cup {None} /\ reload.client \in Session \cup {None}
    BY <1>2, ReloadFields DEF ConnectionTypeOK
  <2> QED
    BY <2>1 DEF ManagerState
<1> HIDE DEF n
<1>4. p \in {"cns", "vddk"} /\ (m = "vslm" <=> p = "cns")
  OBVIOUS
<1> HIDE DEF p
<1>5. /\ manager' \in [Manager -> ManagerState] /\ manager'[m].vc = petm.vc
      /\ \A k \in Manager : k # m => manager'[k] = manager[k]
  BY <1>1, <1>2, <1>3
<1>6. reload' \in ReloadState /\ reload'.pc = p /\ reload'.result = reload.result
  BY <1>1, <1>2, <1>4 DEF ReloadState
<1>7. FaultsOK' /\ \A j : Happened(j)' <=> Happened(j)
  BY <1>1, <1>2, NoFaultFields
<1>8. petm.vc # None
  BY <1>1 DEF ConnectionInv, ManagersOK, Manager
<1>9. ConnectionTypeOK'
  BY <1>1, <1>2, <1>5, <1>6, <1>7 DEF ConnectionTypeOK
<1>10. StartOK'
  <2>1. server.pc = "run"
    BY <1>1 DEF ConnectionInv, StartOK, Manager
  <2> QED
    BY <1>1, <2>1 DEF StartOK
<1>11. PasswordOK'
  BY <1>1 DEF ConnectionInv, PasswordOK
<1>12. ManagersOK'
  <2>1. m = "cns" => manager["vslm"].vc = petm.vc
    BY <1>1 DEF ConnectionInv, ManagersOK
  <2> QED
    BY <1>1, <1>4, <1>5, <1>6, <1>8, <2>1 DEF ManagersOK, Manager
<1>13. CheckedIsConnected'
  BY <1>1, <1>5, <1>8 DEF ConnectionInv, CheckedIsConnected
<1>14. CallsOK'
  BY <1>1, <1>7 DEF ConnectionInv, CallsOK, ClientOK
<1>15. ReadyOK'
  BY <1>1, <1>4, <1>6, <1>7 DEF ConnectionInv, ReadyOK, Manager
<1> QED
  BY <1>9, <1>10, <1>11, <1>12, <1>13, <1>14, <1>15 DEF ConnectionInv

\* The disk library is initialised, or its initialisation fails.
LEMMA InitVddkStep ==
  ASSUME ConnectionInv, InitVddk
  PROVE  ConnectionInv'
<1>1. UNCHANGED <<server, accepted, secret, sessions, vc, petm, manager>> /\ reload.pc = "vddk"
  BY DEF InitVddk
<1>2. ConnectionTypeOK /\ reload \in ReloadState /\ op \in [Op -> OpState] /\ FaultsOK /\ vddk \in BOOLEAN
  BY DEF ConnectionInv, ConnectionTypeOK
<1>3. PICK result \in {"ok", "failed"} :
        /\ ReloadEnds(result)
        /\ \/ vddk' = TRUE /\ UNCHANGED faults
           \/ Fault("vddk") /\ UNCHANGED vddk
  BY DEF InitVddk
<1>4. /\ FaultsOK' /\ (\A j : Happened(j) => Happened(j)') /\ vddk' \in BOOLEAN
      /\ vddk' \/ Happened("vddk")'
  <2>1. CASE vddk' = TRUE /\ UNCHANGED faults
    BY <1>2, <2>1, NoFaultFields
  <2>2. CASE Fault("vddk") /\ UNCHANGED vddk
    BY <1>2, <2>2, FaultFields
  <2> QED
    BY <1>3, <2>1, <2>2
<1>5. /\ reload' \in ReloadState /\ reload'.pc = "idle" /\ op' \in [Op -> OpState]
      /\ \A o \in Op : op'[o] # op[o] => op'[o].pc \in {"ready", "refused"}
  BY <1>2, <1>3, ReloadEndsFields
<1>6. petm.vc # None /\ \A m \in Manager : manager[m].vc = petm.vc
  BY <1>1 DEF ConnectionInv, ManagersOK, Manager
<1>7. ConnectionTypeOK'
  BY <1>1, <1>2, <1>4, <1>5 DEF ConnectionTypeOK
<1>8. StartOK'
  <2>1. server.pc = "run"
    BY <1>1 DEF ConnectionInv, StartOK
  <2> QED
    BY <1>1, <2>1 DEF StartOK
<1>9. PasswordOK'
  BY <1>1 DEF ConnectionInv, PasswordOK
<1>10. ManagersOK'
  BY <1>1, <1>5, <1>6 DEF ManagersOK
<1>11. /\ CheckedIsConnected'
       /\ ~Happened("connect") =>
            \A o \in Op : /\ op'[o].pc = "again" => op'[o].client \in sessions' \/ op'[o].disturbed
                          /\ op'[o].pc = "exceeded" => op'[o].disturbed
  BY <1>1, <1>5, <1>6, OpsReturn
<1>12. CallsOK'
  <2> SUFFICES ASSUME ~Happened("connect")'
               PROVE  \A u \in VC : ClientOK(vc[u])'
    BY <1>4, <1>11 DEF CallsOK
  <2>1. ~Happened("connect")
    BY <1>4
  <2> QED
    BY <1>1, <2>1 DEF ConnectionInv, CallsOK, ClientOK
<1>13. ReadyOK'
  BY <1>1, <1>4, <1>5 DEF ConnectionInv, ReadyOK
<1> QED
  BY <1>7, <1>8, <1>9, <1>10, <1>11, <1>12, <1>13 DEF ConnectionInv

-----------------------------------------------------------------------------
(* The rest of the world, and the start of the server *)

\* A rotation leaves the passwords that were in use outdated; the Secret follows.
LEMMA PasswordSteps ==
  ASSUME ConnectionInv, Rotate \/ UpdateSecret
  PROVE  ConnectionInv'
<1>1. /\ UNCHANGED <<server, sessions, vc, petm, manager, vddk, reload, op, faults>>
      /\ accepted \in Nat /\ accepted' \in Password /\ accepted =< accepted'
      /\ secret' \in Password /\ secret' =< accepted'
      /\ accepted' # accepted => accepted' = accepted + 1
  BY ConnectionAssumption DEF Rotate, UpdateSecret, ConnectionInv, ConnectionTypeOK, PasswordOK, Password
<1>2. /\ petm.config \in Nat /\ petm.config =< accepted
      /\ \A v \in VC : vc[v].config \in Nat /\ vc[v].config =< accepted
  <2>1. petm.config \in Password /\ \A v \in VC : vc[v].config \in Password
    BY VirtualCenterFields DEF ConnectionInv, ConnectionTypeOK
  <2> QED
    BY <2>1 DEF ConnectionInv, PasswordOK, Password
<1>3. accepted' \in Nat
  BY <1>1 DEF Password
<1>4. FaultsOK' /\ \A j : Happened(j)' <=> Happened(j)
  BY <1>1, NoFaultFields DEF ConnectionInv, ConnectionTypeOK
<1>5. ConnectionTypeOK'
  BY <1>1, <1>4 DEF ConnectionInv, ConnectionTypeOK
<1>6. StartOK'
  BY <1>1 DEF ConnectionInv, StartOK
<1>7. PasswordOK'
  BY <1>1, <1>2, <1>3 DEF PasswordOK
<1>8. ManagersOK' /\ CheckedIsConnected'
  BY <1>1 DEF ConnectionInv, ManagersOK, CheckedIsConnected
<1>9. CallsOK'
  <2> SUFFICES ASSUME ~Happened("connect")', NEW v \in VC
               PROVE  ClientOK(vc[v])'
    BY <1>1, <1>4 DEF ConnectionInv, CallsOK
  <2>1. ClientOK(vc[v])
    BY <1>4 DEF ConnectionInv, CallsOK
  <2>2. vc[v].config = accepted' => vc[v].config = accepted
    BY <1>1, <1>2, <1>3
  <2> QED
    BY <1>1, <2>1, <2>2 DEF ClientOK
<1>10. ReadyOK'
  <2>1. petm.config < accepted => petm.config < accepted'
    BY <1>1, <1>2, <1>3
  <2> QED
    BY <1>1, <1>4, <2>1 DEF ConnectionInv, ReadyOK
<1> QED
  BY <1>5, <1>6, <1>7, <1>8, <1>9, <1>10 DEF ConnectionInv

\* When vCenter ends a session, who holds it is disturbed.
LEMMA ExpireStep ==
  ASSUME ConnectionInv, NEW s \in Session, Expire(s)
  PROVE  ConnectionInv'
<1>1. /\ UNCHANGED <<server, accepted, secret, vc, petm, manager, vddk, reload>>
      /\ sessions' = sessions \ {s} /\ op' = Disturb(s) /\ Fault("expire")
  BY DEF Expire
<1>2. ConnectionTypeOK /\ op \in [Op -> OpState] /\ FaultsOK /\ sessions \in SUBSET Session
  BY DEF ConnectionInv, ConnectionTypeOK
<1>3. FaultsOK' /\ \A j : Happened(j) => Happened(j)'
  BY <1>1, <1>2, FaultFields
<1>4. /\ op' \in [Op -> OpState]
      /\ \A o \in Op : /\ op'[o].pc = op[o].pc /\ op'[o].client = op[o].client
                       /\ op[o].disturbed => op'[o].disturbed
                       /\ op[o].pc \notin Ended /\ s = op[o].client => op'[o].disturbed
  BY <1>1, <1>2, DisturbFields
<1>5. ConnectionTypeOK'
  BY <1>1, <1>2, <1>3, <1>4 DEF ConnectionTypeOK
<1>6. StartOK'
  BY <1>1, <1>4 DEF ConnectionInv, StartOK
<1>7. PasswordOK' /\ ManagersOK'
  BY <1>1 DEF ConnectionInv, PasswordOK, ManagersOK
<1>8. CheckedIsConnected'
  BY <1>1, <1>4 DEF ConnectionInv, CheckedIsConnected
<1>9. CallsOK'
  <2> SUFFICES ASSUME ~Happened("connect")'
               PROVE  /\ \A w \in VC : ClientOK(vc[w])'
                      /\ \A p \in Op : /\ op'[p].pc = "again" => op'[p].client \in sessions' \/ op'[p].disturbed
                                       /\ op'[p].pc = "exceeded" => op'[p].disturbed
    BY DEF CallsOK
  <2>1. ~Happened("connect")
    BY <1>3
  <2>2. \A w \in VC : ClientOK(vc[w])'
    BY <1>1, <2>1 DEF ConnectionInv, CallsOK, ClientOK
  <2> QED
    BY <1>1, <1>4, <2>1, <2>2 DEF ConnectionInv, CallsOK, Ended
<1>10. ReadyOK'
  BY <1>1, <1>3 DEF ConnectionInv, ReadyOK
<1> QED
  BY <1>5, <1>6, <1>7, <1>8, <1>9, <1>10 DEF ConnectionInv

\* A look-up that fails while the server starts is remembered.
LEMMA UnreliableFields ==
  ASSUME FaultsOK, NEW failed, Unreliable(failed)
  PROVE  FaultsOK' /\ (\A j : Happened(j) => Happened(j)') /\ (failed # {} => Happened("lookup")')
<1>1. CASE failed = {}
  BY <1>1, NoFaultFields DEF Unreliable
<1>2. CASE failed # {}
  BY <1>2, FaultFields DEF Unreliable
<1> QED
  BY <1>1, <1>2

\* NewSnapshotManagerFromConfig reads the Secret and comes up with a connection or
\* without; nothing else runs by then.
LEMMA NewServerStep ==
  ASSUME ConnectionInv, NewServer
  PROVE  ConnectionInv'
<1>1. UNCHANGED <<accepted, secret, op>> /\ server.pc = "read"
  BY DEF NewServer
<1>2. PICK failed \in Lookups : Unreliable(failed) /\ NewSnapshotManagerFromConfig(failed)
  BY DEF NewServer
<1>3. /\ ConnectionTypeOK /\ FaultsOK /\ server \in ServerState /\ reload \in ReloadState
      /\ op \in [Op -> OpState] /\ vc \in [VC -> VirtualCenter] /\ secret \in Password
  BY DEF ConnectionInv, ConnectionTypeOK
<1>4. FaultsOK' /\ (\A j : Happened(j) => Happened(j)')
  BY <1>2, <1>3, UnreliableFields
<1>5. /\ ~server.watched /\ server.cluster \in Cluster /\ SecretIsRead(server.cluster, {})
      /\ reload.pc = "idle" /\ petm.vc = None
      /\ \A o \in Op : op[o].pc = "idle"
  BY <1>1 DEF ConnectionInv, StartOK
<1>6. /\ \A m \in Manager : manager[m].vc = None
      /\ reload.result # "ok"
  BY <1>5 DEF ConnectionInv, ManagersOK
<1>7. CheckedIsConnected'
  BY <1>1, <1>5 DEF CheckedIsConnected
<1>8. CASE UNCHANGED <<server, sessions, vc, petm, manager, vddk, reload>>
  <2>1. ConnectionTypeOK'
    BY <1>1, <1>3, <1>4, <1>8 DEF ConnectionTypeOK
  <2>2. StartOK'
    BY <1>1, <1>8 DEF ConnectionInv, StartOK
  <2>3. PasswordOK' /\ ManagersOK'
    BY <1>1, <1>8 DEF ConnectionInv, PasswordOK, ManagersOK
  <2>4. CallsOK' /\ ReadyOK'
    BY <1>1, <1>4, <1>8 DEF ConnectionInv, CallsOK, ClientOK, ReadyOK
  <2> QED
    BY <1>7, <2>1, <2>2, <2>3, <2>4 DEF ConnectionInv
<1>9. CASE NewIVDProtectedEntityTypeManager /\ server' = [server EXCEPT !.pc = "watch"]
  <2>1. /\ server' \in ServerState /\ server'.pc = "watch" /\ server'.cluster = server.cluster
        /\ server'.watched = server.watched
    BY <1>3, <1>9 DEF ServerState
  <2>2. CASE petm' = [config |-> secret, vc |-> None] /\ UNCHANGED <<sessions, vc, manager, vddk, reload>>
    <3>1. petm' \in [config : Password, vc : VC \cup {None}] /\ petm'.config = secret /\ petm'.vc = None
      BY <1>3, <2>2
    <3>2. ConnectionTypeOK'
      BY <1>1, <1>3, <1>4, <2>1, <2>2, <3>1 DEF ConnectionTypeOK
    <3>3. StartOK'
      BY <1>1, <1>5, <2>1, <2>2 DEF StartOK
    <3>4. PasswordOK'
      BY <1>1, <2>2, <3>1 DEF ConnectionInv, PasswordOK
    <3>5. ManagersOK'
      BY <1>5, <1>6, <2>2, <3>1 DEF ManagersOK
    <3>6. CallsOK' /\ ReadyOK'
      BY <1>1, <1>4, <2>2, <3>1 DEF ConnectionInv, CallsOK, ClientOK, ReadyOK
    <3> QED
      BY <1>7, <3>2, <3>3, <3>4, <3>5, <3>6 DEF ConnectionInv
  <2>3. CASE /\ sessions' = {1}
             /\ vc' = [vc EXCEPT ![1] = [config |-> secret, client |-> 1, of |-> Clients(1)]]
             /\ petm' = [config |-> secret, vc |-> 1]
             /\ manager' = [m \in Manager |-> [vc |-> 1, client |-> 1]]
             /\ vddk' = TRUE
             /\ reload' = [reload EXCEPT !.result = "ok"]
    <3> DEFINE n == [config |-> secret, client |-> 1, of |-> Clients(1)]
    <3>1. /\ n \in VirtualCenter /\ n.config = secret /\ n.client = 1
          /\ \A m \in Manager : n.of[m] = 1
      BY <1>3, Numbers, ClientsFields, MadeFields
    <3>2. vc' = [vc EXCEPT ![1] = n]
      BY <2>3
    <3> HIDE DEF n
    <3>3. vc' \in [VC -> VirtualCenter] /\ vc'[1] = n /\ \A v \in VC : v # 1 => vc'[v] = vc[v]
      BY <1>3, <3>1, <3>2, Numbers
    <3>4. petm' \in [config : Password, vc : VC \cup {None}] /\ petm'.config = secret /\ petm'.vc = 1
      BY <1>3, <2>3, Numbers
    <3>5. manager' \in [Manager -> ManagerState] /\ \A m \in Manager : manager'[m].vc = 1
      <4>1. [vc |-> 1, client |-> 1] \in ManagerState
        BY Numbers DEF ManagerState
      <4> QED
        BY <2>3, <4>1
    <3>6. reload' \in ReloadState /\ reload'.pc = "idle" /\ vddk' = TRUE /\ sessions' \in SUBSET Session
      BY <1>3, <1>5, <2>3, Numbers DEF ReloadState
    <3>7. ConnectionTypeOK'
      BY <1>1, <1>3, <1>4, <2>1, <3>3, <3>4, <3>5, <3>6 DEF ConnectionTypeOK
    <3>8. StartOK'
      BY <1>1, <1>5, <2>1, <3>6 DEF StartOK
    <3>9. PasswordOK'
      BY <1>1, <3>1, <3>3, <3>4 DEF ConnectionInv, PasswordOK
    <3>10. ManagersOK'
      BY <3>4, <3>5, <3>6, Numbers DEF ManagersOK
    <3>11. CallsOK'
      <4> SUFFICES ASSUME ~Happened("connect")'
                   PROVE  \A v \in VC : ClientOK(vc[v])'
        BY <1>1, <1>5 DEF CallsOK
      <4>1. \A v \in VC : ClientOK(vc[v])
        BY <1>4 DEF ConnectionInv, CallsOK
      <4>2. ClientOK(n)
        BY <3>1, Numbers DEF ClientOK
      <4>3. ASSUME NEW u \in VC, u = 1 PROVE ClientOK(vc[u])'
        BY <1>1, <3>3, <4>2, <4>3, ClientStays
      <4>4. ASSUME NEW u \in VC, u # 1 PROVE ClientOK(vc[u])'
        BY <1>1, <3>3, <4>1, <4>4, ClientStays
      <4> QED
        BY <4>3, <4>4
    <3>12. ReadyOK'
      BY <3>1, <3>3, <3>4, <3>6 DEF ReadyOK
    <3> QED
      BY <1>7, <3>7, <3>8, <3>9, <3>10, <3>11, <3>12 DEF ConnectionInv
  <2> QED
    BY <1>9, <2>2, <2>3 DEF NewIVDProtectedEntityTypeManager
<1> QED
  BY <1>2, <1>8, <1>9 DEF NewSnapshotManagerFromConfig

\* The controllers are set up, and the server runs.
LEMMA NewControllerStep ==
  ASSUME ConnectionInv, NewController
  PROVE  ConnectionInv'
<1>1. UNCHANGED <<accepted, secret, sessions, vc, petm, manager, vddk, reload, op>>
  BY DEF NewController
<1>2. PICK failed \in Lookups :
        /\ Unreliable(failed)
        /\ server' = [pc |-> "run", cluster |-> None,
                      watched |-> WatchedSecret(server.cluster, failed) = server.cluster.secret]
  BY DEF NewController
<1>3. FaultsOK' /\ (\A j : Happened(j) => Happened(j)')
  BY <1>2, UnreliableFields DEF ConnectionInv, ConnectionTypeOK
<1>4. server' \in ServerState /\ server'.pc = "run"
  <2> DEFINE w == WatchedSecret(server.cluster, failed) = server.cluster.secret
  <2>1. w \in BOOLEAN /\ server' = [pc |-> "run", cluster |-> None, watched |-> w]
    BY <1>2
  <2> HIDE DEF w
  <2> QED
    BY <2>1 DEF ServerState
<1>5. ConnectionTypeOK'
  BY <1>1, <1>3, <1>4 DEF ConnectionInv, ConnectionTypeOK
<1>6. StartOK'
  BY <1>4 DEF StartOK
<1>7. PasswordOK' /\ ManagersOK' /\ CheckedIsConnected'
  BY <1>1 DEF ConnectionInv, PasswordOK, ManagersOK, CheckedIsConnected
<1>8. CallsOK' /\ ReadyOK'
  BY <1>1, <1>3 DEF ConnectionInv, CallsOK, ClientOK, ReadyOK
<1> QED
  BY <1>5, <1>6, <1>7, <1>8 DEF ConnectionInv

-----------------------------------------------------------------------------
(* The connection to vCenter: the theorems *)

\* Every step keeps the invariant.
LEMMA ConnectionStepInv == ConnectionInv /\ [ConnectionNext]_connectionVars => ConnectionInv'
<1> SUFFICES ASSUME ConnectionInv, [ConnectionNext]_connectionVars PROVE ConnectionInv'
  OBVIOUS
<1>1. CASE NewServer
  BY <1>1, NewServerStep
<1>2. CASE NewController
  BY <1>2, NewControllerStep
<1>3. CASE SyncSecret
  <2>1. server.pc = "run" /\ secret \in Password /\ secret =< accepted
    BY <1>3 DEF SyncSecret, ConnectionInv, StartOK, ConnectionTypeOK, PasswordOK
  <2> QED
    BY <1>3, <2>1, StartReloadStep DEF SyncSecret
<1>4. CASE ReloadConfig
  BY <1>4, DisconnectOldStep, ConnectNewStep, ResetManagerStep, InitVddkStep DEF ReloadConfig
<1>5. CASE Rotate \/ UpdateSecret
  BY <1>5, PasswordSteps
<1>6. ASSUME NEW o \in Op, Operation(o) PROVE ConnectionInv'
  BY <1>6, CallSteps, ReconnectStep DEF Operation
<1>7. ASSUME NEW o \in Op, ReloadForOp(o) PROVE ConnectionInv'
  <2>1. server.pc = "run" /\ petm.config \in Password /\ petm.config =< accepted
    BY <1>7 DEF ReloadForOp, ConnectionInv, StartOK, ConnectionTypeOK, PasswordOK
  <2> QED
    BY <1>7, <2>1, StartReloadStep DEF ReloadForOp
<1>8. ASSUME NEW s \in Session, Expire(s) PROVE ConnectionInv'
  BY <1>8, ExpireStep
<1>9. CASE UNCHANGED connectionVars
  <2> USE <1>9 DEF connectionVars, ConnectionInv
  <2>1. FaultsOK' /\ \A j : Happened(j)' <=> Happened(j)
    BY NoFaultFields DEF ConnectionTypeOK
  <2>2. ConnectionTypeOK'
    BY <2>1 DEF ConnectionTypeOK
  <2>3. StartOK' /\ PasswordOK' /\ ManagersOK' /\ CheckedIsConnected'
    BY DEF StartOK, PasswordOK, ManagersOK, CheckedIsConnected
  <2>4. CallsOK' /\ ReadyOK'
    BY <2>1 DEF CallsOK, ClientOK, ReadyOK
  <2> QED
    BY <2>2, <2>3, <2>4
<1> QED
  BY <1>1, <1>2, <1>3, <1>4, <1>5, <1>6, <1>7, <1>8, <1>9 DEF ConnectionNext

\* The invariant holds in every behaviour of the connection.
THEOREM ConnectionInvariance == ConnectionSpec => []ConnectionInv
BY ConnectionInitInv, ConnectionStepInv, PTL DEF ConnectionSpec

\* Every variable keeps its type.
THEOREM ConnectionTypeCorrect == ConnectionSpec => []ConnectionTypeOK
<1>1. ConnectionInv => ConnectionTypeOK
  BY DEF ConnectionInv
<1> QED
  BY <1>1, ConnectionInvariance, PTL

\* An operation that has passed CheckVcenterConnections never meets a nil manager,
\* however many operations and reloads run at the same time.
THEOREM Checked == ConnectionSpec => []CheckedIsConnected
<1>1. ConnectionInv => CheckedIsConnected
  BY DEF ConnectionInv
<1> QED
  BY <1>1, ConnectionInvariance, PTL

\* The retry after processError's Connect hits an authentication fault again only
\* if the operation lost a session while it ran, unless a request of Connect failed.
THEOREM OnlyDisturbed == ConnectionSpec => []OnlyDisturbedFails
<1>1. ConnectionInv => OnlyDisturbedFails
  BY DEF ConnectionInv, CallsOK, OnlyDisturbedFails
<1> QED
  BY <1>1, ConnectionInvariance, PTL

\* A ReloadConfig that reports success leaves a connection with the configuration it
\* was given, unless that one is outdated by now, managers that use it and an
\* initialised disk library, unless a connection or the initialisation failed before.
THEOREM Reloaded == ConnectionSpec => []ReloadedIsReady
<1>1. ConnectionInv => ReloadedIsReady
  BY DEF ConnectionInv, ManagersOK, ReadyOK, ReloadedIsReady
<1> QED
  BY <1>1, ConnectionInvariance, PTL

\* With every look-up answered, GetVcConfigSecretFilterFunc names the Secret that
\* RetrieveVcConfigSecret has read, or that one was its second choice.
LEMMA SecretWatched ==
  ASSUME NEW c, SecretIsRead(c, {})
  PROVE  \/ WatchedSecret(c, {}) = c.secret
         \/ \E ns \in {"vmware-system-csi", "kube-system"} : c.secret = VCSecretTKG(ns)
<1> DEFINE flavor == RetrieveClusterFlavor(c, {})
           ofCSI(ns) == <<VCSecret(ns), VCSecretTKG(ns)>>
           named == GetSecretNamespaceAndName(c, {})
           S == ReadSecrets(c, {})
<1>1. PICK i \in DOMAIN S : S[i] = c.secret
  BY DEF SecretIsRead
<1>2. ASSUME NEW ns, S = ofCSI(ns)
      PROVE  c.secret = VCSecret(ns) \/ c.secret = VCSecretTKG(ns)
  BY <1>1, <1>2
<1>3. CASE flavor = "GUEST"
  <2>1. S = <<>>
    BY <1>3 DEF ReadSecrets
  <2> QED
    BY <1>1, <2>1
<1>4. CASE flavor = "SUPERVISOR"
  <2>1. S = ofCSI("vmware-system-csi") /\ WatchedSecret(c, {}) = VCSecret("vmware-system-csi")
    BY <1>4 DEF ReadSecrets, WatchedSecret
  <2> QED
    BY <1>2, <2>1
<1>5. CASE flavor \notin {"GUEST", "SUPERVISOR"} /\ Decoupled(c, {})
  <2>1. S = <<named>> /\ WatchedSecret(c, {}) = named
    BY <1>5 DEF ReadSecrets, WatchedSecret
  <2> QED
    BY <1>1, <2>1
<1>6. CASE flavor \notin {"GUEST", "SUPERVISOR"} /\ ~Decoupled(c, {})
  <2>1. WatchedSecret(c, {}) = VCSecret(CSINamespace(c, {}))
    BY <1>6 DEF WatchedSecret
  <2>2. S = <<>> \/ S = ofCSI(CSINamespace(c, {}))
    BY <1>6 DEF ReadSecrets
  <2>3. S # <<>>
    BY <1>1
  <2>4. CSINamespace(c, {}) \in {"vmware-system-csi", "kube-system"}
    BY DEF CSINamespace
  <2> QED
    BY <1>2, <2>1, <2>2, <2>3, <2>4
<1> QED
  BY <1>3, <1>4, <1>5, <1>6

\* Only NewController makes the server run.
LEMMA ServerRuns ==
  ASSUME ConnectionInv, [ConnectionNext]_connectionVars, server.pc = "watch", server'.pc = "run"
  PROVE  NewController
<1>1. server' # server
  OBVIOUS
<1>2. ~NewServer
  BY DEF NewServer
<1>3. ~SyncSecret /\ ~ReloadConfig /\ ~Rotate /\ ~UpdateSecret
  BY <1>1 DEF SyncSecret, StartReload, ReloadConfig, DisconnectOld, ConnectNew, ResetManager, InitVddk,
    Rotate, UpdateSecret
<1>4. \A o \in Op : ~Operation(o) /\ ~ReloadForOp(o)
  BY <1>1 DEF Operation, StartOp, CheckVcenterConnections, BeginCall, Call, Reconnect, ReloadForOp, StartReload
<1>5. \A s \in Session : ~Expire(s)
  BY <1>1 DEF Expire
<1> QED
  BY <1>1, <1>2, <1>3, <1>4, <1>5 DEF ConnectionNext, connectionVars

\* The Secret that a server watches is the one it has read, unless that was the
\* second choice or a look-up failed while the server started, in every cluster
\* that RetrieveVcConfigSecret and GetVcConfigSecretFilterFunc tell apart.
THEOREM Watches == ConnectionSpec => WatchesWhatItReads
<1>1. ConnectionInv /\ [ConnectionNext]_connectionVars =>
        (server.pc = "watch" /\ server'.pc = "run" =>
           \/ server'.watched
           \/ \E ns \in {"vmware-system-csi", "kube-system"} : server.cluster.secret = VCSecretTKG(ns)
           \/ "lookup" \in faults'.kinds)
  <2> SUFFICES ASSUME ConnectionInv, [ConnectionNext]_connectionVars, server.pc = "watch", server'.pc = "run"
               PROVE  \/ server'.watched
                      \/ \E ns \in {"vmware-system-csi", "kube-system"} : server.cluster.secret = VCSecretTKG(ns)
                      \/ "lookup" \in faults'.kinds
    OBVIOUS
  <2>1. NewController
    BY ServerRuns
  <2>2. PICK failed \in Lookups :
          /\ Unreliable(failed)
          /\ server' = [pc |-> "run", cluster |-> None,
                        watched |-> WatchedSecret(server.cluster, failed) = server.cluster.secret]
    BY <2>1 DEF NewController
  <2>3. CASE failed # {}
    BY <2>2, <2>3, UnreliableFields DEF ConnectionInv, ConnectionTypeOK, Happened
  <2>4. CASE failed = {}
    <3>1. SecretIsRead(server.cluster, {})
      BY DEF ConnectionInv, StartOK
    <3>2. WatchedSecret(server.cluster, {}) = server.cluster.secret => server'.watched
      BY <2>2, <2>4
    <3> QED
      BY <3>1, <3>2, SecretWatched
  <2> QED
    BY <2>3, <2>4
<1> QED
  BY <1>1, ConnectionInvariance, PTL DEF ConnectionSpec, WatchesWhatItReads

=============================================================================
