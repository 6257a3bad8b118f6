----------------------------- MODULE UploadProofs -----------------------------
(***************************************************************************)
(* Proofs about UploadController, for any set of nodes, any number of      *)
(* goroutines, any retry limit and any number of faults.                   *)
(***************************************************************************)
EXTENDS UploadController, TLAPS

Safe == remote \/ gaveUp

\* A cancellation has been asked for.  The flag can only disappear together
\* with the object.
Requested == upload.cancel \/ upload.phase = "Gone"

\* What processUpload has established at each of its program points.
ProcOK(p) ==
  /\ p.pc \in {"unregister", "deletelocal"} => remote
  /\ p.pc = "giveup" => gaveUp
  /\ p.pc = "cleanup" => Safe
  /\ p.pc = "patch" =>
       /\ p.want \notin {"New", "Canceling"}
       /\ p.want \in {"Completed", "UploadFailedAfterRetry"} => ~local
       /\ p.want = "UploadFailedAfterRetry" => gaveUp
       /\ p.want \in {"Completed", "CleanupFailed"} => Safe
       /\ p.want = "Canceled" => Requested

ProcInv == \A g \in Goroutine : ProcOK(proc[g])

\* A cancellation that is under way anywhere has been asked for, and a cache
\* never shows an upload completed too early.
NodeInv ==
  /\ \A n \in Node : /\ lister[n].cancel => Requested
                     /\ lister[n].phase = "Completed" => ~local
  /\ \A n \in Node, t \in Thread : canceler[n][t].pc # "idle" => Requested
  /\ ctxDone # {} => Requested

SafetyInv == LocalKeptUntilSafe /\ ReportedPhaseIsTrue /\ ProcInv /\ NodeInv

-----------------------------------------------------------------------------
(* Types *)

\* Mutating a request gives an Upload.
LEMMA MutateType ==
  ASSUME NEW req \in Upload, NEW p \in UploadPhase
  PROVE  Mutate(req, p) \in Upload
BY DEF Mutate, Upload

\* A merge patch of two Uploads, applied to a third, gives an Upload.
LEMMA MergePatchType ==
  ASSUME NEW cur \in Upload, NEW old \in Upload, NEW new \in Upload
  PROVE  MergePatch(cur, old, new) \in Upload
BY DEF MergePatch, Upload

\* What the API server holds after an accepted patch is an Upload.
LEMMA PatchedType ==
  ASSUME TypeOK, NEW req \in Upload, NEW p \in UploadPhase
  PROVE  Patched(req, p) \in Upload
BY MutateType, MergePatchType DEF Patched, TypeOK

\* The constant records have their types.
LEMMA ConstantUploads ==
  /\ NewUpload \in Upload /\ NoUpload \in Upload
  /\ IdleProc \in ProcState
  /\ IdleCanceler \in CancelerState
BY DEF NewUpload, NoUpload, Upload, UploadPhase, IdleProc, At, IdleCanceler,
       ProcPC, ProcState, CancelerState

\* The initial state is well typed.
LEMMA InitType == Init => TypeOK
<1> SUFFICES ASSUME Init PROVE TypeOK
  OBVIOUS
<1>1. canceler \in [Node -> [Thread -> CancelerState]]
  <2>1. [t \in Thread |-> IdleCanceler] \in [Thread -> CancelerState]
    BY ConstantUploads
  <2> QED
    BY <2>1 DEF Init
<1> QED
  BY <1>1, ConstantUploads DEF Init, TypeOK

\* Setting one thread's entry keeps the type of the cancelers.
LEMMA SetCancelerType ==
  ASSUME TypeOK, NEW n \in Node, NEW t \in Thread, NEW c \in CancelerState,
         canceler' = [canceler EXCEPT ![n][t] = c]
  PROVE  canceler' \in [Node -> [Thread -> CancelerState]]
<1> DEFINE r == [canceler[n] EXCEPT ![t] = c]
<1>1. r \in [Thread -> CancelerState]
  BY DEF TypeOK
<1>2. canceler' = [canceler EXCEPT ![n] = r]
  OBVIOUS
<1> QED
  BY <1>1, <1>2 DEF TypeOK

\* Counting a fault keeps the counter a number.
LEMMA FaultType ==
  ASSUME TypeOK, NEW k, Fault(k)
  PROVE  faults' \in Nat
BY DEF Fault, TypeOK

\* A failed patch leaves an Upload, and the counter a number.
LEMMA FailType ==
  ASSUME TypeOK, NEW req \in Upload, NEW p \in UploadPhase, PatchFails(req, p)
  PROVE  upload' \in Upload /\ faults' \in Nat
BY PatchedType DEF PatchFails, Fault, TypeOK

\* Typing of what a goroutine's return changes.
LEMMA ReturnType ==
  ASSUME TypeOK, NEW g \in Goroutine, NEW err \in BOOLEAN, Return(g, err)
  PROVE  /\ proc' \in [Goroutine -> ProcState]
         /\ ctxDone' \subseteq Goroutine
         /\ worker' \in [Node -> {"idle", "electing", "canceling"}
                                   \cup Goroutine]
         /\ queued' \in [Node -> BOOLEAN]
BY ConstantUploads DEF Return, TypeOK

\* A canceler's patch keeps the object, the caches and the counter typed.
LEMMA CancelerPatchType ==
  ASSUME TypeOK, NEW n \in Node, NEW t \in Thread, CancelerPatch(n, t)
  PROVE  TypeOK'
<1> DEFINE c == canceler[n][t]
           m == Mutate(c.req, "Canceling")
<1>1. c \in CancelerState
  BY DEF TypeOK
<1>2. c.req \in Upload /\ "Canceling" \in UploadPhase
  BY <1>1 DEF UploadPhase, CancelerState
<1>3. m \in Upload
  BY <1>2, MutateType
<1>4. upload' \in Upload /\ faults' \in Nat
  BY <1>2, PatchedType, FailType DEF CancelerPatch, TypeOK
<1>5. lister' \in [Node -> Upload]
  BY <1>3 DEF CancelerPatch, MutateCache, TypeOK
<1>6. canceler' \in [Node -> [Thread -> CancelerState]]
  <2>1. [c EXCEPT !.pc = "cancel"] \in CancelerState
    BY <1>1 DEF CancelerState
  <2>2. [pc |-> "patch", req |-> m, tries |-> c.tries + 1] \in CancelerState
    BY <1>1, <1>3 DEF CancelerState
  <2>3. \E x \in CancelerState : canceler' = [canceler EXCEPT ![n][t] = x]
    BY <2>1, <2>2, ConstantUploads DEF CancelerPatch, EndCanceler
  <2> QED
    BY <2>3, SetCancelerType
<1>7. worker' \in [Node -> {"idle", "electing", "canceling"} \cup Goroutine]
  BY DEF CancelerPatch, EndCanceler, TypeOK
<1> QED
  BY <1>4, <1>5, <1>6, <1>7 DEF CancelerPatch, TypeOK, storeVars, moverVars

\* Starting triggerUploadCancellation keeps its state typed.
LEMMA StartCancelerType ==
  ASSUME TypeOK, NEW n \in Node, NEW t \in Thread, NEW o \in Upload,
         StartCanceler(n, t, o)
  PROVE  canceler' \in [Node -> [Thread -> CancelerState]]
<1>1. [pc |-> "patch", req |-> o, tries |-> 0] \in CancelerState
  BY DEF CancelerState
<1> QED
  BY <1>1, SetCancelerType DEF StartCanceler, TypeOK

\* Ending triggerUploadCancellation keeps its state and the worker typed.
LEMMA EndCancelerType ==
  ASSUME TypeOK, NEW n \in Node, NEW t \in Thread, EndCanceler(n, t)
  PROVE  /\ canceler' \in [Node -> [Thread -> CancelerState]]
         /\ worker' \in [Node -> {"idle", "electing", "canceling"}
                                   \cup Goroutine]
BY SetCancelerType, ConstantUploads DEF EndCanceler, TypeOK

\* Setting one goroutine's state keeps the type of proc.
LEMMA SetProcType ==
  ASSUME TypeOK, NEW g \in Goroutine, NEW p \in ProcState,
         proc' = [proc EXCEPT ![g] = p]
  PROVE  proc' \in [Goroutine -> ProcState]
BY DEF TypeOK

\* The fields of a goroutine have their types.
LEMMA ProcStateFields ==
  ASSUME TypeOK, NEW g \in Goroutine
  PROVE  /\ proc[g] \in ProcState
         /\ proc[g].req \in Upload /\ proc[g].want \in UploadPhase
         /\ proc[g].tries \in Nat /\ proc[g].node \in Node \cup {None}
         /\ proc[g].pc \in ProcPC /\ proc[g].quiet \in BOOLEAN
BY DEF TypeOK, ProcState

\* Going on at another program point keeps the goroutines typed.
LEMMA GoToType ==
  ASSUME TypeOK, NEW g \in Goroutine, NEW pc \in ProcPC, NEW req \in Upload,
         GoTo(g, pc, req)
  PROVE  proc' \in [Goroutine -> ProcState]
<1>1. At(proc[g].node, pc, req) \in ProcState
  BY ProcStateFields DEF At, ProcState, UploadPhase
<1> QED
  BY <1>1, SetProcType DEF GoTo

\* Going on to a patch keeps the goroutines typed.
LEMMA StartPatchType ==
  ASSUME TypeOK, NEW g \in Goroutine, NEW req \in Upload,
         NEW p \in UploadPhase, NEW q \in BOOLEAN, StartPatch(g, req, p, q)
  PROVE  proc' \in [Goroutine -> ProcState]
<1>1. Patching(proc[g].node, req, p, 0, q) \in ProcState
  BY ProcStateFields DEF Patching, ProcState, ProcPC
<1> QED
  BY <1>1, SetProcType DEF StartPatch

\* The work starts with the cleanup or with the copy.
LEMMA WorkPCType ==
  ASSUME NEW req PROVE WorkPC(req) \in ProcPC
BY DEF WorkPC, ProcPC

\* Typing of the goroutine's steps.
LEMMA GetUploadType ==
  ASSUME TypeOK, NEW g \in Goroutine, GetUpload(g)
  PROVE  TypeOK'
<1>1. "InProgress" \in UploadPhase /\ upload \in Upload
  BY DEF UploadPhase, TypeOK
<1>2. proc' \in [Goroutine -> ProcState]
  BY <1>1, ReturnType, GoToType, StartPatchType, WorkPCType DEF GetUpload
<1>3. /\ ctxDone' \subseteq Goroutine
      /\ worker' \in [Node -> {"idle", "electing", "canceling"} \cup Goroutine]
      /\ queued' \in [Node -> BOOLEAN]
      /\ faults' \in Nat
  <2>1. CASE Return(g, TRUE) \/ Return(g, FALSE)
    <3>1. faults' \in Nat
      BY FaultType DEF GetUpload, TypeOK
    <3> QED
      BY <2>1, <3>1, ReturnType
  <2>2. CASE UNCHANGED <<ctxDone, worker, queued, faults>>
    BY <2>2 DEF TypeOK
  <2> QED
    BY <2>1, <2>2 DEF GetUpload
<1> QED
  BY <1>2, <1>3 DEF GetUpload, TypeOK, storeVars

\* A patch of processUpload keeps the types.
LEMMA PatchUploadByStatusType ==
  ASSUME TypeOK, NEW g \in Goroutine, PatchUploadByStatus(g)
  PROVE  TypeOK'
<1> DEFINE p == proc[g]
           req == Mutate(p.req, p.want)
           err == p.want \in {"UploadError", "CleanupFailed"}
<1>1. req \in Upload
  BY ProcStateFields, MutateType
<1>2. upload' \in Upload /\ faults' \in Nat
  <2>1. CASE upload' = Patched(p.req, p.want) /\ UNCHANGED faults
    BY <2>1, ProcStateFields, PatchedType DEF TypeOK
  <2>2. CASE PatchFails(p.req, p.want)
    BY <2>2, ProcStateFields, FailType
  <2> QED
    BY <2>1, <2>2 DEF PatchUploadByStatus
<1>3. err \in BOOLEAN /\ (err \/ ~p.quiet) \in BOOLEAN
  OBVIOUS
<1>4. \/ Return(g, err) \/ Return(g, err \/ ~p.quiet)
      \/ /\ \/ GoTo(g, WorkPC(upload'), upload')
            \/ proc' = [proc EXCEPT ![g] =
                          Patching(p.node, req, p.want, p.tries + 1, p.quiet)]
         /\ UNCHANGED <<ctxDone, worker, queued>>
  BY DEF PatchUploadByStatus
<1>5. Patching(p.node, req, p.want, p.tries + 1, p.quiet) \in ProcState
  BY <1>1, ProcStateFields DEF Patching, ProcState, ProcPC
<1>6. /\ proc' \in [Goroutine -> ProcState]
      /\ ctxDone' \subseteq Goroutine
      /\ worker' \in [Node -> {"idle", "electing", "canceling"} \cup Goroutine]
      /\ queued' \in [Node -> BOOLEAN]
  <2>1. CASE Return(g, err) \/ Return(g, err \/ ~p.quiet)
    BY <1>3, <2>1, ReturnType
  <2>2. CASE GoTo(g, WorkPC(upload'), upload')
             /\ UNCHANGED <<ctxDone, worker, queued>>
    BY <1>2, <2>2, GoToType, WorkPCType DEF TypeOK
  <2>3. CASE /\ proc' = [proc EXCEPT ![g] =
                           Patching(p.node, req, p.want, p.tries + 1, p.quiet)]
             /\ UNCHANGED <<ctxDone, worker, queued>>
    BY <1>5, <2>3, SetProcType DEF TypeOK
  <2> QED
    BY <1>4, <2>1, <2>2, <2>3
<1> QED
  BY <1>2, <1>6 DEF PatchUploadByStatus, TypeOK, storeVars

\* A failed copy keeps the types.
LEMMA CopyErrorType ==
  ASSUME TypeOK, NEW g \in Goroutine, CopyError(g)
  PROVE  /\ proc' \in [Goroutine -> ProcState]
         /\ gaveUp' \in BOOLEAN
<1>1. "UploadError" \in UploadPhase /\ "giveup" \in ProcPC
  BY DEF UploadPhase, ProcPC
<1>2. proc' \in [Goroutine -> ProcState]
  BY <1>1, StartPatchType, GoToType, ProcStateFields DEF CopyError
<1>3. gaveUp' \in BOOLEAN
  BY Zenon DEF CopyError, TypeOK
<1> QED
  BY <1>2, <1>3

\* Every step of processUpload keeps the types.
LEMMA ProcessUploadType ==
  ASSUME TypeOK, NEW g \in Goroutine, ProcessUpload(g)
  PROVE  TypeOK'
<1>0. {"copying", "unregister", "deletelocal"} \subseteq ProcPC
      /\ "Canceled" \in UploadPhase
  BY DEF ProcPC, UploadPhase
<1>1. CASE GetUpload(g) BY <1>1, GetUploadType
<1>2. CASE PatchUploadByStatus(g) BY <1>2, PatchUploadByStatusType
<1>3. CASE GetBackupRepositoryFails(g)
  <2>1. Return(g, TRUE) /\ faults' \in Nat
    BY <1>3, FaultType DEF GetBackupRepositoryFails
  <2> QED
    BY <1>3, <2>1, ReturnType DEF GetBackupRepositoryFails, TypeOK, storeVars
<1>4. CASE CopyToRepo(g)
  <2>1. /\ proc' \in [Goroutine -> ProcState]
        /\ gaveUp' \in BOOLEAN
    <3>1. CASE CopyError(g) BY <3>1, CopyErrorType
    <3>2. CASE GoTo(g, "copying", proc[g].req) /\ UNCHANGED gaveUp
      BY <1>0, <3>2, GoToType, ProcStateFields DEF TypeOK
    <3> QED BY <1>4, <3>1, <3>2 DEF CopyToRepo
  <2>2. /\ registry' \in [Node -> Goroutine \cup {None}]
        /\ copyLock' \in [Node -> Goroutine \cup {None}]
        /\ faults' \in Nat
    <3>1. faults' \in Nat
      BY <1>4, FaultType DEF CopyToRepo, TypeOK
    <3> QED
      BY <1>4, <3>1, ZenonT(30) DEF CopyToRepo, RegisterOngoingUpload, TypeOK
  <2> QED
    BY <1>4, <2>1, <2>2 DEF CopyToRepo, TypeOK, nodeVars
<1>5. CASE CopyReturns(g)
  <2>1. /\ proc' \in [Goroutine -> ProcState]
        /\ gaveUp' \in BOOLEAN
    <3>1. CASE CopyError(g) BY <3>1, CopyErrorType
    <3>2. CASE GoTo(g, "unregister", proc[g].req) /\ UNCHANGED gaveUp
      BY <1>0, <3>2, GoToType, ProcStateFields DEF TypeOK
    <3>3. CASE StartPatch(g, proc[g].req, "Canceled", FALSE)
               /\ UNCHANGED gaveUp
      BY <1>0, <3>3, StartPatchType, ProcStateFields DEF TypeOK
    <3> QED BY <1>5, <3>1, <3>2, <3>3 DEF CopyReturns
  <2>2. copyLock' \in [Node -> Goroutine \cup {None}]
    BY <1>5 DEF CopyReturns, TypeOK
  <2>3. faults' \in Nat /\ remote' \in BOOLEAN
    BY <1>5, FaultType, Zenon DEF CopyReturns, TypeOK
  <2> QED
    BY <1>5, <2>1, <2>2, <2>3 DEF CopyReturns, TypeOK, nodeVars
<1>6. CASE UnregisterOngoingUpload(g)
  <2>1. proc' \in [Goroutine -> ProcState]
    BY <1>0, <1>6, GoToType, ProcStateFields DEF UnregisterOngoingUpload
  <2> QED
    BY <1>6, <2>1
       DEF UnregisterOngoingUpload, TypeOK, nodeVars, storeVars, envVars
<1>7. CASE DeleteLocalSnapshot(g)
  <2>1. \A ok \in BOOLEAN : AfterCleanup(proc[g].pc, ok) \in UploadPhase
    BY DEF AfterCleanup, UploadPhase
  <2>2. proc' \in [Goroutine -> ProcState]
    BY <1>7, <2>1, StartPatchType, ProcStateFields DEF DeleteLocalSnapshot
  <2>3. faults' \in Nat /\ local' \in BOOLEAN
    BY <1>7, FaultType, Zenon DEF DeleteLocalSnapshot, TypeOK
  <2> QED
    BY <1>7, <2>2, <2>3 DEF DeleteLocalSnapshot, TypeOK, nodeVars, moverVars
<1> QED
  BY <1>1, <1>2, <1>3, <1>4, <1>5, <1>6, <1>7 DEF ProcessUpload

\* Typing of the nodes' and the environment's steps.
LEMMA NodeType ==
  ASSUME TypeOK, NEW n \in Node,
         \/ DeliverEvent(n) \/ HandleEvent(n) \/ ProcessUploadItem(n)
         \/ Elect(n) \/ LoseLease(n) \/ Crash(n) \/ Restart(n)
  PROVE  TypeOK'
<1>0. lister[n] \in Upload /\ Thread = {"informer", "worker"}
  BY DEF TypeOK, Thread
<1>1. CASE DeliverEvent(n)
  BY <1>1 DEF DeliverEvent, TypeOK, storeVars, moverVars, envVars
<1>2. CASE HandleEvent(n)
  <2>1. canceler' \in [Node -> [Thread -> CancelerState]]
    BY <1>0, <1>2, StartCancelerType DEF HandleEvent, EnqueueUploadItem, TypeOK
  <2>2. upload' \in Upload /\ queued' \in [Node -> BOOLEAN]
    BY <1>2, ConstantUploads DEF HandleEvent, EnqueueUploadItem, TypeOK
  <2> QED
    BY <1>2, <2>1, <2>2
       DEF HandleEvent, TypeOK, storeVars, moverVars, envVars
<1>3. CASE ProcessUploadItem(n)
  <2>1. canceler' \in [Node -> [Thread -> CancelerState]]
    BY <1>0, <1>3, StartCancelerType DEF ProcessUploadItem, TypeOK
  <2>2. /\ queued' \in [Node -> BOOLEAN]
        /\ worker' \in [Node -> {"idle", "electing", "canceling"} \cup Goroutine]
    BY <1>3 DEF ProcessUploadItem, TypeOK
  <2> QED
    BY <1>3, <2>1, <2>2
       DEF ProcessUploadItem, TypeOK, storeVars, moverVars, envVars
<1>4. CASE OnNewLeader(n)
  BY <1>4 DEF OnNewLeader, TypeOK, storeVars, moverVars, envVars
<1>5. ASSUME NEW g \in Goroutine, OnStartedLeading(n, g)
      PROVE  TypeOK'
  <2>1. At(n, "get", NoUpload) \in ProcState
    BY ConstantUploads DEF At, ProcState, ProcPC, UploadPhase
  <2>2. proc' \in [Goroutine -> ProcState]
    BY <1>5, <2>1, SetProcType DEF OnStartedLeading
  <2> QED
    BY <1>5, <2>2 DEF OnStartedLeading, TypeOK, storeVars, moverVars, envVars
<1>6. CASE LoseLease(n)
  BY <1>6, FaultType DEF LoseLease, TypeOK, storeVars, moverVars
<1>7. CASE Crash(n)
  <2>1. canceler' \in [Node -> [Thread -> CancelerState]]
    <3>1. [t \in Thread |-> IdleCanceler] \in [Thread -> CancelerState]
      BY ConstantUploads
    <3> QED
      BY <1>7, <3>1 DEF Crash, TypeOK
  <2>2. proc' \in [Goroutine -> ProcState] /\ ctxDone' \subseteq Goroutine
    BY <1>7, ConstantUploads DEF Crash, TypeOK
  <2>3. /\ lister' \in [Node -> Upload] /\ queued' \in [Node -> BOOLEAN]
        /\ worker' \in [Node -> {"idle", "electing", "canceling"} \cup Goroutine]
        /\ registry' \in [Node -> Goroutine \cup {None}]
        /\ copyLock' \in [Node -> Goroutine \cup {None}]
        /\ up' \subseteq Node
    BY <1>7, ConstantUploads DEF Crash, TypeOK
  <2>4. faults' \in Nat
    BY <1>7, FaultType DEF Crash
  <2> QED
    BY <1>7, <2>1, <2>2, <2>3, <2>4 DEF Crash, TypeOK, storeVars
<1>8. CASE Restart(n)
  BY <1>8 DEF Restart, TypeOK, storeVars, moverVars, nodeVars
<1> QED
  BY <1>1, <1>2, <1>3, <1>4, <1>5, <1>6, <1>7, <1>8 DEF Elect

\* DataMover.CancelUpload keeps the types.
LEMMA CancelUploadType ==
  ASSUME TypeOK, NEW n \in Node, NEW t \in Thread, CancelUpload(n, t)
  PROVE  TypeOK'
<1>1. /\ registry' \in [Node -> Goroutine \cup {None}]
      /\ ctxDone' \subseteq Goroutine
  BY DEF CancelUpload, TypeOK
<1> QED
  BY <1>1, EndCancelerType DEF CancelUpload, TypeOK, storeVars, envVars

\* Asking for a cancellation keeps the types.
LEMMA RequestCancelType ==
  ASSUME TypeOK, RequestCancel
  PROVE  TypeOK'
<1>1. upload' \in Upload
  BY DEF RequestCancel, TypeOK, Upload
<1> QED
  BY <1>1 DEF RequestCancel, TypeOK, storeVars, moverVars, envVars

\* TypeOK is inductive.
LEMMA NextType == TypeOK /\ [Next]_vars => TypeOK'
<1> SUFFICES ASSUME TypeOK, [Next]_vars PROVE TypeOK'
  OBVIOUS
<1>1. CASE UNCHANGED vars
  BY <1>1
     DEF vars, storeVars, nodeVars, moverVars, envVars, TypeOK
<1>2. CASE Next
  BY <1>2, NodeType, ProcessUploadType, CancelerPatchType, CancelUploadType,
     RequestCancelType
     DEF Next, TriggerUploadCancellation
<1> QED
  BY <1>1, <1>2

\* Every reachable state is well typed.
THEOREM TypeCorrect == Spec => []TypeOK
BY InitType, NextType, PTL DEF Spec

-----------------------------------------------------------------------------
(* No data is lost, and the reported phase is true *)

\* What never goes away: the copy, the decision to give up, the absence of the
\* local snapshot, and a request for cancellation.
Kept ==
  /\ remote => remote'
  /\ gaveUp => gaveUp'
  /\ ~local => ~local'
  /\ Requested => Requested'

\* A status patch never touches the cancellation flag, and the phase becomes
\* the wanted one or stays.
LEMMA PatchedFields ==
  ASSUME NEW req, NEW p
  PROVE  /\ Patched(req, p).cancel = upload.cancel
         /\ Patched(req, p).phase \in {p, upload.phase}
BY DEF Patched, MergePatch, Mutate

\* A patch that reports an error was applied or was not.
LEMMA PatchFailsUpload ==
  ASSUME NEW req, NEW p, PatchFails(req, p)
  PROVE  \/ upload' = upload
         \/ upload.phase # "Gone" /\ upload' = Patched(req, p)
BY DEF PatchFails

\* processUpload takes back neither a copy nor a decision to give up, brings no
\* local snapshot back and forgets no cancellation.
LEMMA ProcessUploadKept ==
  ASSUME TypeOK, NEW g \in Goroutine, ProcessUpload(g)
  PROVE  Kept
<1>1. CASE PatchUploadByStatus(g)
  <2>1. \/ upload' = upload
        \/ upload.phase # "Gone" /\ upload' = Patched(proc[g].req, proc[g].want)
    BY <1>1, PatchFailsUpload DEF PatchUploadByStatus
  <2>2. Requested => Requested'
    BY <2>1, PatchedFields DEF Requested
  <2> QED
    BY <1>1, <2>2 DEF PatchUploadByStatus, Kept, storeVars
<1>2. CASE upload' = upload
  <2>1. Requested => Requested'
    BY <1>2 DEF Requested
  <2>2. (remote => remote') /\ (gaveUp => gaveUp') /\ (~local => ~local')
    <3>1. CASE GetUpload(g)
      BY <3>1 DEF GetUpload, storeVars
    <3>2. CASE GetBackupRepositoryFails(g)
      BY <3>2 DEF GetBackupRepositoryFails, storeVars
    <3>3. CASE UnregisterOngoingUpload(g)
      BY <3>3 DEF UnregisterOngoingUpload, storeVars
    <3>4. CASE PatchUploadByStatus(g)
      BY <3>4 DEF PatchUploadByStatus, storeVars
    <3>5. CASE CopyToRepo(g)
      <4>1. /\ local' = local /\ remote' = remote
            /\ gaveUp' = gaveUp \/ gaveUp' = TRUE
        BY <3>5 DEF CopyToRepo, CopyError
      <4> QED BY <4>1 DEF TypeOK
    <3>6. CASE CopyReturns(g)
      <4>1. /\ local' = local
            /\ remote' = remote \/ remote' = TRUE
            /\ gaveUp' = gaveUp \/ gaveUp' = TRUE
        BY <3>6 DEF CopyReturns, CopyError
      <4> QED BY <4>1 DEF TypeOK
    <3>7. CASE DeleteLocalSnapshot(g)
      <4>1. /\ local' = local \/ local' = FALSE
            /\ remote' = remote /\ gaveUp' = gaveUp
        BY <3>7 DEF DeleteLocalSnapshot
      <4> QED BY <4>1 DEF TypeOK
    <3> QED
      BY <3>1, <3>2, <3>3, <3>4, <3>5, <3>6, <3>7 DEF ProcessUpload
  <2> QED
    BY <2>1, <2>2 DEF Kept
<1> QED
  BY <1>1, <1>2
     DEF ProcessUpload, GetUpload, GetBackupRepositoryFails, CopyToRepo,
         CopyReturns, UnregisterOngoingUpload, DeleteLocalSnapshot

\* A goroutine that does not move, and what it relies on, stay as they are.
LEMMA ProcOKKept ==
  ASSUME Kept, NEW h \in Goroutine, ProcOK(proc[h]), proc'[h] = proc[h]
  PROVE  ProcOK(proc[h])'
BY DEF Kept, ProcOK, Safe

\* Only goroutine g moves, to a state p that is justified.
LEMMA ProcInvSet ==
  ASSUME TypeOK, Kept, ProcInv, NEW g \in Goroutine, NEW p,
         proc' = [proc EXCEPT ![g] = p], ProcOK(proc[g])'
  PROVE  ProcInv'
<1> SUFFICES ASSUME NEW h \in Goroutine PROVE ProcOK(proc[h])'
  BY DEF ProcInv
<1>1. CASE h = g
  BY <1>1
<1>2. CASE h # g
  BY <1>2, ProcOKKept DEF ProcInv, TypeOK
<1> QED
  BY <1>1, <1>2

\* The nodes' part holds on when caches and cancellations stay as they are.
LEMMA NodeInvKept ==
  ASSUME Kept, NodeInv, lister' = lister, canceler' = canceler,
         ctxDone' \subseteq ctxDone
  PROVE  NodeInv'
BY DEF Kept, NodeInv

\* Without a change of the object or of the local snapshot the first two
\* conjuncts hold on.
LEMMA StoreKept ==
  ASSUME Kept, LocalKeptUntilSafe, ReportedPhaseIsTrue, upload' = upload
  PROVE  /\ local' = local => LocalKeptUntilSafe'
         /\ ReportedPhaseIsTrue'
BY DEF Kept, LocalKeptUntilSafe, ReportedPhaseIsTrue

\* The object after a goroutine's or a canceler's patch.
LEMMA ReportSafe ==
  ASSUME Kept, ReportedPhaseIsTrue, upload.phase # "Gone",
         NEW req, NEW p \in UploadPhase, upload' = Patched(req, p),
         p \in {"Completed", "UploadFailedAfterRetry"} => ~local,
         p = "UploadFailedAfterRetry" => gaveUp,
         p \in {"Completed", "CleanupFailed"} => Safe
  PROVE  ReportedPhaseIsTrue'
<1>1. upload'.phase \in {p, upload.phase} /\ p # "Gone"
  BY PatchedFields DEF UploadPhase
<1> QED
  BY <1>1 DEF Kept, ReportedPhaseIsTrue, Safe

\* What processUpload reports, at any try of a patch, is justified.
LEMMA PatchUploadByStatusSafe ==
  ASSUME TypeOK, TypeOK', SafetyInv, NEW g \in Goroutine,
         PatchUploadByStatus(g)
  PROVE  SafetyInv'
<1> DEFINE p == proc[g]
           req == Mutate(p.req, p.want)
           again == Patching(p.node, req, p.want, p.tries + 1, p.quiet)
<1>1. Kept
  BY ProcessUploadKept DEF ProcessUpload
<1>2. ProcOK(p) /\ p.pc = "patch" /\ p.want \in UploadPhase
  BY ProcStateFields, SMTT(20) DEF SafetyInv, ProcInv, PatchUploadByStatus
<1>3. UNCHANGED <<local, remote, gaveUp, lister, canceler>>
      /\ ctxDone' \subseteq ctxDone
  BY DEF PatchUploadByStatus, storeVars, Return
<1>4. \/ upload' = upload
      \/ upload.phase # "Gone" /\ upload' = Patched(p.req, p.want)
  BY PatchFailsUpload DEF PatchUploadByStatus
<1>5. ReportedPhaseIsTrue'
  <2>1. CASE upload' = upload
    BY <1>1, <2>1, StoreKept DEF SafetyInv
  <2>2. CASE upload.phase # "Gone" /\ upload' = Patched(p.req, p.want)
    BY <1>1, <1>2, <2>2, ReportSafe DEF SafetyInv, ProcOK
  <2> QED
    BY <1>4, <2>1, <2>2
<1>6. LocalKeptUntilSafe'
  BY <1>3 DEF SafetyInv, LocalKeptUntilSafe
<1>7. ProcInv'
  <2>1. \/ proc' = [proc EXCEPT ![g] = IdleProc]
        \/ proc' = [proc EXCEPT ![g] = again]
        \/ proc' = [proc EXCEPT ![g] = At(p.node, WorkPC(upload'), upload')]
    BY DEF PatchUploadByStatus, Return, GoTo
  <2>2. CASE proc' = [proc EXCEPT ![g] = IdleProc]
    <3>1. proc'[g].pc = "idle"
      BY <2>2 DEF TypeOK, IdleProc, At
    <3> QED
      BY <1>1, <2>2, <3>1, ProcInvSet DEF ProcOK, SafetyInv
  <2>3. CASE proc' = [proc EXCEPT ![g] = again]
    <3>1. proc'[g].pc = "patch" /\ proc'[g].want = p.want
      BY <2>3 DEF TypeOK, Patching
    <3>2. ProcOK(proc[g])'
      BY <1>1, <1>2, <3>1 DEF ProcOK, Kept, Safe
    <3> QED
      BY <1>1, <2>3, <3>2, ProcInvSet DEF SafetyInv
  <2>4. CASE proc' = [proc EXCEPT ![g] = At(p.node, WorkPC(upload'), upload')]
    <3>1. proc'[g].pc = WorkPC(upload')
      BY <2>4 DEF TypeOK, At
    <3>2. ProcOK(proc[g])'
      BY <1>5, <3>1 DEF ProcOK, WorkPC, ReportedPhaseIsTrue, Safe
    <3> QED
      BY <1>1, <2>4, <3>2, ProcInvSet DEF SafetyInv
  <2> QED
    BY <2>1, <2>2, <2>3, <2>4, SMTT(20)
<1>8. NodeInv'
  BY <1>1, <1>3, NodeInvKept DEF SafetyInv
<1> QED
  BY <1>5, <1>6, <1>7, <1>8 DEF SafetyInv

\* A step of processUpload other than a patch leaves the object alone, so it
\* preserves the invariant if the goroutine's new position is justified.
LEMMA WorkSafe ==
  ASSUME TypeOK, SafetyInv, NEW g \in Goroutine, ProcessUpload(g),
         upload' = upload, lister' = lister, canceler' = canceler,
         ctxDone' \subseteq ctxDone, LocalKeptUntilSafe',
         NEW p, proc' = [proc EXCEPT ![g] = p], ProcOK(proc[g])'
  PROVE  SafetyInv'
<1>1. Kept
  BY ProcessUploadKept
<1>2. ProcInv'
  BY <1>1, ProcInvSet DEF SafetyInv
<1> QED
  BY <1>1, <1>2, StoreKept, NodeInvKept DEF SafetyInv

\* processUpload may return at any point.
LEMMA ReturnSafe ==
  ASSUME TypeOK, SafetyInv, NEW g \in Goroutine, ProcessUpload(g),
         upload' = upload, lister' = lister, canceler' = canceler,
         local' = local, NEW err \in BOOLEAN, Return(g, err)
  PROVE  SafetyInv'
<1>1. proc' = [proc EXCEPT ![g] = IdleProc] /\ ctxDone' \subseteq ctxDone
  BY DEF Return
<1>2. proc'[g].pc = "idle"
  BY <1>1 DEF TypeOK, IdleProc, At
<1>3. ProcOK(proc[g])'
  BY <1>2 DEF ProcOK
<1>4. LocalKeptUntilSafe'
  BY ProcessUploadKept, StoreKept DEF SafetyInv
<1> QED
  BY <1>1, <1>3, <1>4, WorkSafe

\* What processUpload does after its fresh read is justified by the phase read.
LEMMA GetUploadSafe ==
  ASSUME TypeOK, SafetyInv, NEW g \in Goroutine, GetUpload(g)
  PROVE  SafetyInv'
<1> USE DEF ProcessUpload
<1>1. /\ upload' = upload /\ lister' = lister /\ canceler' = canceler
      /\ local' = local /\ remote' = remote /\ gaveUp' = gaveUp
  BY DEF GetUpload, storeVars
<1>2. LocalKeptUntilSafe'
  BY <1>1 DEF SafetyInv, LocalKeptUntilSafe
<1>3. CASE Return(g, TRUE) \/ Return(g, FALSE)
  BY <1>1, <1>3, ReturnSafe
<1>4. CASE /\ GoTo(g, WorkPC(upload), upload)
           /\ ctxDone' = ctxDone
  <2>1. proc' = [proc EXCEPT ![g] = At(proc[g].node, WorkPC(upload), upload)]
    BY <1>4 DEF GoTo
  <2>2. proc'[g].pc = WorkPC(upload)
    BY <2>1 DEF TypeOK, At
  <2>3. ProcOK(proc[g])'
    BY <1>1, <2>2 DEF ProcOK, WorkPC, SafetyInv, ReportedPhaseIsTrue, Safe
  <2> QED
    BY <1>1, <1>2, <1>4, <2>1, <2>3, WorkSafe
<1>5. CASE /\ StartPatch(g, upload, "InProgress", FALSE)
           /\ ctxDone' = ctxDone
  <2>1. proc' = [proc EXCEPT ![g] =
                   Patching(proc[g].node, upload, "InProgress", 0, FALSE)]
    BY <1>5 DEF StartPatch
  <2>2. proc'[g].pc = "patch" /\ proc'[g].want = "InProgress"
    BY <2>1 DEF TypeOK, Patching
  <2>3. ProcOK(proc[g])'
    BY <2>2 DEF ProcOK
  <2> QED
    BY <1>1, <1>2, <1>5, <2>1, <2>3, WorkSafe
<1> QED
  BY <1>3, <1>4, <1>5 DEF GetUpload

\* A copy that ends well justifies the deletion, a failed one only when the
\* retries are used up, and a cancelled one was asked to stop.
LEMMA CopySafe ==
  ASSUME TypeOK, SafetyInv, NEW g \in Goroutine,
         CopyToRepo(g) \/ CopyReturns(g)
  PROVE  SafetyInv'
<1> USE DEF ProcessUpload
<1>1. /\ upload' = upload /\ lister' = lister /\ canceler' = canceler
      /\ local' = local /\ ctxDone' = ctxDone
  BY DEF CopyToRepo, CopyReturns, nodeVars
<1>2. LocalKeptUntilSafe'
  BY <1>1, ProcessUploadKept, StoreKept DEF SafetyInv
<1>3. \/ CopyError(g)
      \/ GoTo(g, "copying", proc[g].req)
      \/ GoTo(g, "unregister", proc[g].req) /\ remote' = TRUE
      \/ g \in ctxDone /\ StartPatch(g, proc[g].req, "Canceled", FALSE)
  BY DEF CopyToRepo, CopyReturns
<1>4. CASE GoTo(g, "giveup", proc[g].req) /\ gaveUp' = TRUE
  <2>1. proc' = [proc EXCEPT ![g] = At(proc[g].node, "giveup", proc[g].req)]
    BY <1>4 DEF GoTo
  <2>2. proc'[g].pc = "giveup"
    BY <2>1 DEF TypeOK, At
  <2>3. ProcOK(proc[g])'
    BY <1>4, <2>2 DEF ProcOK
  <2> QED
    BY <1>1, <1>2, <2>1, <2>3, WorkSafe
<1>5. CASE StartPatch(g, proc[g].req, "UploadError", FALSE)
  <2>1. proc' = [proc EXCEPT ![g] =
           Patching(proc[g].node, proc[g].req, "UploadError", 0, FALSE)]
    BY <1>5 DEF StartPatch
  <2>2. proc'[g].pc = "patch" /\ proc'[g].want = "UploadError"
    BY <2>1 DEF TypeOK, Patching
  <2>3. ProcOK(proc[g])'
    BY <2>2 DEF ProcOK
  <2> QED
    BY <1>1, <1>2, <2>1, <2>3, WorkSafe
<1>6. CASE GoTo(g, "copying", proc[g].req)
  <2>1. proc' = [proc EXCEPT ![g] = At(proc[g].node, "copying", proc[g].req)]
    BY <1>6 DEF GoTo
  <2>2. proc'[g].pc = "copying"
    BY <2>1 DEF TypeOK, At
  <2>3. ProcOK(proc[g])'
    BY <2>2 DEF ProcOK
  <2> QED
    BY <1>1, <1>2, <2>1, <2>3, WorkSafe
<1>7. CASE GoTo(g, "unregister", proc[g].req) /\ remote' = TRUE
  <2>1. proc' = [proc EXCEPT ![g] = At(proc[g].node, "unregister", proc[g].req)]
    BY <1>7 DEF GoTo
  <2>2. proc'[g].pc = "unregister"
    BY <2>1 DEF TypeOK, At
  <2>3. ProcOK(proc[g])'
    BY <1>7, <2>2 DEF ProcOK
  <2> QED
    BY <1>1, <1>2, <2>1, <2>3, WorkSafe
<1>8. CASE g \in ctxDone /\ StartPatch(g, proc[g].req, "Canceled", FALSE)
  <2>1. proc' = [proc EXCEPT ![g] =
           Patching(proc[g].node, proc[g].req, "Canceled", 0, FALSE)]
    BY <1>8 DEF StartPatch
  <2>2. proc'[g].pc = "patch" /\ proc'[g].want = "Canceled"
    BY <2>1 DEF TypeOK, Patching
  <2>3. Requested'
    BY <1>1, <1>8 DEF SafetyInv, NodeInv, Requested
  <2>4. ProcOK(proc[g])'
    BY <2>2, <2>3 DEF ProcOK
  <2> QED
    BY <1>1, <1>2, <2>1, <2>4, WorkSafe
<1>9. CopyError(g) => \/ GoTo(g, "giveup", proc[g].req) /\ gaveUp' = TRUE
                      \/ StartPatch(g, proc[g].req, "UploadError", FALSE)
  BY DEF CopyError
<1> QED
  BY <1>3, <1>4, <1>5, <1>6, <1>7, <1>8, <1>9

\* Unregistering happens after a successful copy.
LEMMA UnregisterSafe ==
  ASSUME TypeOK, SafetyInv, NEW g \in Goroutine, UnregisterOngoingUpload(g)
  PROVE  SafetyInv'
<1>1. /\ upload' = upload /\ lister' = lister /\ canceler' = canceler
      /\ local' = local /\ remote' = remote /\ gaveUp' = gaveUp
      /\ ctxDone' = ctxDone
  BY DEF UnregisterOngoingUpload, storeVars, nodeVars
<1>2. proc' = [proc EXCEPT ![g] = At(proc[g].node, "deletelocal", proc[g].req)]
  BY DEF UnregisterOngoingUpload, GoTo
<1>3. proc'[g].pc = "deletelocal" /\ remote
  BY <1>2 DEF TypeOK, At, UnregisterOngoingUpload, SafetyInv, ProcInv, ProcOK
<1>4. ProcOK(proc[g])'
  BY <1>1, <1>3 DEF ProcOK
<1>5. LocalKeptUntilSafe'
  BY <1>1 DEF SafetyInv, LocalKeptUntilSafe
<1> QED
  BY <1>1, <1>2, <1>4, <1>5, WorkSafe DEF ProcessUpload

\* Each of the three calls is made where the deletion is safe.
LEMMA DeleteLocalSnapshotSafe ==
  ASSUME TypeOK, SafetyInv, NEW g \in Goroutine, DeleteLocalSnapshot(g)
  PROVE  SafetyInv'
<1> DEFINE pc == proc[g].pc
<1>1. /\ upload' = upload /\ lister' = lister /\ canceler' = canceler
      /\ remote' = remote /\ gaveUp' = gaveUp /\ ctxDone' = ctxDone
  BY DEF DeleteLocalSnapshot, nodeVars, moverVars
<1>2. Safe' /\ (pc = "giveup" => gaveUp')
  BY <1>1 DEF DeleteLocalSnapshot, SafetyInv, ProcInv, ProcOK, Safe
<1>3. LocalKeptUntilSafe'
  BY <1>2 DEF LocalKeptUntilSafe, Safe
<1>4. CASE /\ local' = FALSE
           /\ StartPatch(g, proc[g].req, AfterCleanup(pc, TRUE),
                         pc # "deletelocal")
  <2>1. proc' = [proc EXCEPT ![g] =
          Patching(proc[g].node, proc[g].req, AfterCleanup(pc, TRUE), 0,
                   pc # "deletelocal")]
    BY <1>4 DEF StartPatch
  <2>2. proc'[g].pc = "patch" /\ proc'[g].want = AfterCleanup(pc, TRUE)
    BY <2>1 DEF TypeOK, Patching
  <2>3. ProcOK(proc[g])'
    BY <1>2, <1>4, <2>2 DEF ProcOK, AfterCleanup
  <2> QED
    BY <1>1, <1>3, <2>1, <2>3, WorkSafe DEF ProcessUpload
<1>5. CASE StartPatch(g, proc[g].req, AfterCleanup(pc, FALSE), FALSE)
  <2>1. proc' = [proc EXCEPT ![g] =
          Patching(proc[g].node, proc[g].req, AfterCleanup(pc, FALSE), 0,
                   FALSE)]
    BY <1>5 DEF StartPatch
  <2>2. proc'[g].pc = "patch" /\ proc'[g].want = "CleanupFailed"
    BY <2>1 DEF TypeOK, Patching, AfterCleanup
  <2>3. ProcOK(proc[g])'
    BY <1>2, <2>2 DEF ProcOK
  <2> QED
    BY <1>1, <1>3, <2>1, <2>3, WorkSafe DEF ProcessUpload
<1> QED
  BY <1>4, <1>5 DEF DeleteLocalSnapshot

\* Every step of processUpload preserves the invariant.
LEMMA ProcessUploadSafe ==
  ASSUME TypeOK, TypeOK', SafetyInv, NEW g \in Goroutine, ProcessUpload(g)
  PROVE  SafetyInv'
<1>1. CASE GetBackupRepositoryFails(g)
  <2>1. /\ upload' = upload /\ lister' = lister /\ canceler' = canceler
        /\ local' = local /\ Return(g, TRUE)
    BY <1>1 DEF GetBackupRepositoryFails, storeVars
  <2> QED
    BY <2>1, ReturnSafe
<1> QED
  BY <1>1, GetUploadSafe, PatchUploadByStatusSafe, CopySafe, UnregisterSafe,
     DeleteLocalSnapshotSafe DEF ProcessUpload

\* The steps that leave the snapshots and the goroutines alone, as far as the
\* goroutines' part of the invariant goes.
LEMMA ProcInvKept ==
  ASSUME Kept, ProcInv, \A g \in Goroutine : proc'[g] = proc[g]
  PROVE  ProcInv'
BY ProcOKKept DEF ProcInv

\* The informer, the queue and the election change neither the object (but for
\* its removal) nor the snapshots.
LEMMA HandleEventSafe ==
  ASSUME TypeOK, SafetyInv, NEW n \in Node, HandleEvent(n)
  PROVE  SafetyInv'
<1>1. /\ UNCHANGED <<local, remote, gaveUp, proc, ctxDone, lister>>
  BY DEF HandleEvent, storeVars, moverVars
<1>2. \/ upload' = upload
      \/ upload' = NoUpload /\ lister[n].phase = "Completed"
  BY DEF HandleEvent, EnqueueUploadItem
<1>3. Kept
  BY <1>1, <1>2 DEF Kept, Requested, NoUpload
<1>4. LocalKeptUntilSafe'
  BY <1>1 DEF SafetyInv, LocalKeptUntilSafe
<1>5. ReportedPhaseIsTrue'
  <2>1. CASE upload' = upload
    BY <1>3, <2>1, StoreKept DEF SafetyInv
  <2>2. CASE upload' = NoUpload /\ lister[n].phase = "Completed"
    BY <1>1, <2>2 DEF SafetyInv, NodeInv, ReportedPhaseIsTrue, NoUpload
  <2> QED
    BY <1>2, <2>1, <2>2
<1>6. ProcInv'
  BY <1>1, <1>3, ProcInvKept DEF SafetyInv
<1>7. NodeInv'
  <2>1. ASSUME NEW m \in Node, NEW t \in Thread,
               canceler'[m][t].pc # "idle"
        PROVE  Requested'
    <3>1. CASE canceler' = canceler
      BY <1>3, <2>1, <3>1 DEF SafetyInv, NodeInv, Kept
    <3>2. CASE lister[n].cancel
      BY <1>3, <3>2 DEF SafetyInv, NodeInv, Kept
    <3> QED
      BY <3>1, <3>2 DEF HandleEvent, EnqueueUploadItem
  <2> QED
    BY <1>1, <1>3, <2>1, SMTT(20) DEF SafetyInv, NodeInv, Kept
<1> QED
  BY <1>4, <1>5, <1>6, <1>7 DEF SafetyInv

\* The worker starts a cancellation only for an object that asks for it.
LEMMA ProcessUploadItemSafe ==
  ASSUME TypeOK, SafetyInv, NEW n \in Node, ProcessUploadItem(n)
  PROVE  SafetyInv'
<1>1. UNCHANGED <<upload, local, remote, gaveUp, proc, ctxDone, lister>>
  BY DEF ProcessUploadItem, storeVars, moverVars
<1>2. Kept
  BY <1>1 DEF Kept, Requested
<1>3. ProcInv'
  BY <1>1, <1>2, ProcInvKept DEF SafetyInv
<1>4. NodeInv'
  <2>1. ASSUME NEW m \in Node, NEW t \in Thread, canceler'[m][t].pc # "idle"
        PROVE  Requested'
    <3>1. CASE canceler' = canceler
      BY <1>2, <2>1, <3>1 DEF SafetyInv, NodeInv, Kept
    <3>2. CASE lister[n].cancel
      BY <1>2, <3>2 DEF SafetyInv, NodeInv, Kept
    <3> QED
      BY <3>1, <3>2 DEF ProcessUploadItem
  <2> QED
    BY <1>1, <1>2, <2>1 DEF SafetyInv, NodeInv, Kept
<1> QED
  BY <1>1, <1>2, <1>3, <1>4, StoreKept DEF SafetyInv

\* A cache that is brought up to date shows what is true.
LEMMA DeliverEventSafe ==
  ASSUME TypeOK, SafetyInv, NEW n \in Node, DeliverEvent(n)
  PROVE  SafetyInv'
<1>1. UNCHANGED <<upload, local, remote, gaveUp, proc, ctxDone, canceler>>
  BY DEF DeliverEvent, storeVars, moverVars
<1>2. Kept
  BY <1>1 DEF Kept, Requested
<1>3. ProcInv'
  BY <1>1, <1>2, ProcInvKept DEF SafetyInv
<1>4. NodeInv'
  <2>1. ASSUME NEW m \in Node
        PROVE  /\ lister'[m].cancel => Requested'
               /\ lister'[m].phase = "Completed" => ~local'
    <3>1. lister'[m] = upload \/ lister'[m] = lister[m]
      BY DEF DeliverEvent, TypeOK
    <3>2. CASE lister'[m] = upload
      BY <1>1, <3>2 DEF Requested, SafetyInv, ReportedPhaseIsTrue
    <3>3. CASE lister'[m] = lister[m]
      BY <1>2, <3>3 DEF SafetyInv, NodeInv, Kept
    <3> QED
      BY <3>1, <3>2, <3>3
  <2> QED
    BY <1>1, <1>2, <2>1 DEF SafetyInv, NodeInv, Kept
<1> QED
  BY <1>1, <1>2, <1>3, <1>4, StoreKept DEF SafetyInv

\* The election, the loss of a lease and a restart touch no data.
LEMMA ElectSafe ==
  ASSUME TypeOK, SafetyInv, NEW n \in Node,
         Elect(n) \/ LoseLease(n) \/ Restart(n)
  PROVE  SafetyInv'
<1>1. UNCHANGED <<upload, local, remote, gaveUp, ctxDone, lister, canceler>>
  BY DEF Elect, OnNewLeader, OnStartedLeading, LoseLease, Restart, storeVars,
         moverVars, nodeVars
<1>2. Kept
  BY <1>1 DEF Kept, Requested
<1>3. ProcInv'
  <2>1. CASE proc' = proc
    BY <1>2, <2>1, ProcInvKept DEF SafetyInv
  <2>2. CASE \E g \in Goroutine : OnStartedLeading(n, g)
    <3>1. PICK g \in Goroutine : OnStartedLeading(n, g)
      BY <2>2
    <3>2. proc' = [proc EXCEPT ![g] = At(n, "get", NoUpload)]
      BY <3>1 DEF OnStartedLeading
    <3>3. proc'[g].pc = "get"
      BY <3>2 DEF TypeOK, At
    <3>4. ProcOK(proc[g])'
      BY <3>3 DEF ProcOK
    <3> QED
      BY <1>2, <3>2, <3>4, ProcInvSet DEF SafetyInv
  <2> QED
    BY <2>1, <2>2 DEF Elect, OnNewLeader, LoseLease, Restart
<1>4. NodeInv'
  BY <1>1, <1>2, NodeInvKept DEF SafetyInv
<1> QED
  BY <1>1, <1>2, <1>3, <1>4, StoreKept DEF SafetyInv

\* What is left after a crash still justifies the state.
LEMMA CrashSafe ==
  ASSUME TypeOK, SafetyInv, NEW n \in Node, Crash(n)
  PROVE  SafetyInv'
<1>1. UNCHANGED <<upload, local, remote, gaveUp>> /\ ctxDone' \subseteq ctxDone
  BY DEF Crash, storeVars
<1>2. Kept
  BY <1>1 DEF Kept, Requested
<1>3. ProcInv'
  <2> SUFFICES ASSUME NEW h \in Goroutine PROVE ProcOK(proc[h])'
    BY DEF ProcInv
  <2>1. CASE proc'[h] = proc[h]
    BY <1>2, <2>1, ProcOKKept DEF SafetyInv, ProcInv
  <2>2. CASE proc'[h] = IdleProc
    <3>1. proc'[h].pc = "idle"
      BY <2>2 DEF IdleProc, At
    <3> QED
      BY <3>1 DEF ProcOK
  <2> QED
    BY <2>1, <2>2 DEF Crash
<1>4. /\ lister' = [lister EXCEPT ![n] = NoUpload]
      /\ canceler' = [canceler EXCEPT ![n] = [t \in Thread |-> IdleCanceler]]
      /\ lister \in [Node -> Upload]
      /\ canceler \in [Node -> [Thread -> CancelerState]]
  BY SMTT(20) DEF Crash, TypeOK
<1>5. NodeInv'
  <2>1. ASSUME NEW m \in Node
        PROVE  /\ lister'[m].cancel => Requested'
               /\ lister'[m].phase = "Completed" => ~local'
    <3>1. lister'[m] = NoUpload \/ lister'[m] = lister[m]
      BY <1>4
    <3> QED
      BY <1>2, <3>1 DEF SafetyInv, NodeInv, Kept, NoUpload
  <2>2. ASSUME NEW m \in Node, NEW t \in Thread, canceler'[m][t].pc # "idle"
        PROVE  Requested'
    <3>1. \/ canceler'[m] = [u \in Thread |-> IdleCanceler]
          \/ canceler'[m] = canceler[m]
      BY <1>4
    <3>2. canceler'[m][t] = IdleCanceler \/ canceler'[m][t] = canceler[m][t]
      BY <3>1
    <3> QED
      BY <1>2, <2>2, <3>2 DEF SafetyInv, NodeInv, Kept, IdleCanceler
  <2>3. ctxDone' # {} => Requested'
    BY <1>1, <1>2 DEF SafetyInv, NodeInv, Kept
  <2> QED
    BY <2>1, <2>2, <2>3 DEF NodeInv
<1> QED
  BY <1>1, <1>2, <1>3, <1>5, StoreKept DEF SafetyInv

\* Canceling, reported by a cancellation, needs no justification by the data.
LEMMA CancelerPatchSafe ==
  ASSUME TypeOK, SafetyInv, NEW n \in Node, NEW t \in Thread,
         CancelerPatch(n, t)
  PROVE  SafetyInv'
<1> DEFINE c == canceler[n][t]
<1>1. UNCHANGED <<local, remote, gaveUp, proc, ctxDone>>
  BY DEF CancelerPatch, storeVars, moverVars
<1>2. \/ upload' = upload
      \/ upload.phase # "Gone" /\ upload' = Patched(c.req, "Canceling")
  BY PatchFailsUpload DEF CancelerPatch
<1>3. Requested => Requested'
  BY <1>2, PatchedFields DEF Requested
<1>4. Kept
  BY <1>1, <1>3 DEF Kept
<1>5. LocalKeptUntilSafe'
  BY <1>1 DEF SafetyInv, LocalKeptUntilSafe
<1>6. ReportedPhaseIsTrue'
  <2>1. CASE upload' = upload
    BY <1>4, <2>1, StoreKept DEF SafetyInv
  <2>2. CASE upload.phase # "Gone" /\ upload' = Patched(c.req, "Canceling")
    BY <1>4, <2>2, ReportSafe DEF SafetyInv, UploadPhase
  <2> QED
    BY <1>2, <2>1, <2>2
<1>7. ProcInv'
  BY <1>1, <1>4, ProcInvKept DEF SafetyInv
<1>8. NodeInv'
  <2>1. Requested'
    BY <1>3 DEF CancelerPatch, SafetyInv, NodeInv
  <2>2. ASSUME NEW m \in Node
        PROVE  lister'[m].phase = "Completed" => ~local'
    <3>1. MutateCache(n, c) /\ lister \in [Node -> Upload]
      BY DEF CancelerPatch, TypeOK
    <3>2. lister'[m] = Mutate(c.req, "Canceling") \/ lister'[m] = lister[m]
      BY <3>1 DEF MutateCache
    <3> QED
      BY <1>1, <3>2, SMTT(20) DEF SafetyInv, NodeInv, Mutate
  <2> QED
    BY <2>1, <2>2 DEF NodeInv
<1> QED
  BY <1>5, <1>6, <1>7, <1>8 DEF SafetyInv

\* A context is cancelled only on request.
LEMMA CancelUploadSafe ==
  ASSUME TypeOK, SafetyInv, NEW n \in Node, NEW t \in Thread,
         CancelUpload(n, t)
  PROVE  SafetyInv'
<1>1. UNCHANGED <<upload, local, remote, gaveUp, proc, lister>>
  BY DEF CancelUpload, storeVars
<1>2. Kept
  BY <1>1, SMTT(20) DEF Kept, Requested
<1>3. Requested'
  BY <1>2 DEF CancelUpload, SafetyInv, NodeInv, Kept
<1>4. NodeInv'
  BY <1>1, <1>3 DEF SafetyInv, NodeInv
<1>5. ProcInv'
  BY <1>1, <1>2, ProcInvKept DEF SafetyInv
<1> QED
  BY <1>1, <1>2, <1>4, <1>5, StoreKept, SMTT(20) DEF SafetyInv

\* A request for cancellation changes the flag only.
LEMMA RequestCancelSafe ==
  ASSUME TypeOK, SafetyInv, RequestCancel
  PROVE  SafetyInv'
<1>1. UNCHANGED <<local, remote, gaveUp, proc, ctxDone, lister, canceler>>
  BY DEF RequestCancel, storeVars, moverVars
<1>2. upload'.phase = upload.phase /\ upload'.cancel = TRUE
  BY DEF RequestCancel, TypeOK, Upload
<1>3. Kept
  BY <1>1, <1>2 DEF Kept, Requested
<1>4. ProcInv'
  BY <1>1, <1>3, ProcInvKept DEF SafetyInv
<1>5. NodeInv'
  BY <1>1, <1>3, NodeInvKept DEF SafetyInv
<1> QED
  BY <1>1, <1>2, <1>4, <1>5
     DEF SafetyInv, LocalKeptUntilSafe, ReportedPhaseIsTrue

\* SafetyInv holds initially and every step preserves it.
LEMMA InitSafe == Init => SafetyInv
<1> SUFFICES ASSUME Init PROVE SafetyInv
  OBVIOUS
<1>1. LocalKeptUntilSafe /\ ReportedPhaseIsTrue
  BY DEF Init, LocalKeptUntilSafe, ReportedPhaseIsTrue, NewUpload
<1>2. ProcInv
  BY DEF Init, ProcInv, ProcOK, IdleProc, At
<1>3. NodeInv
  BY DEF Init, NodeInv, NoUpload, IdleCanceler
<1> QED
  BY <1>1, <1>2, <1>3 DEF SafetyInv

\* Every step preserves SafetyInv.
LEMMA NextSafe ==
  ASSUME TypeOK, TypeOK', SafetyInv, Next
  PROVE  SafetyInv'
BY SMTT(20), ProcessUploadSafe, HandleEventSafe, ProcessUploadItemSafe,
   DeliverEventSafe,
   ElectSafe, CrashSafe, CancelerPatchSafe, CancelUploadSafe, RequestCancelSafe
   DEF Next, TriggerUploadCancellation

\* A stuttering step changes nothing the invariant speaks of.
LEMMA StutterSafe ==
  ASSUME SafetyInv, UNCHANGED vars
  PROVE  SafetyInv'
<1>1. UNCHANGED <<upload, local, remote, gaveUp, proc, ctxDone, lister,
                  canceler>>
  BY DEF vars, storeVars, nodeVars, moverVars
<1> QED
  BY <1>1 DEF SafetyInv, LocalKeptUntilSafe, ReportedPhaseIsTrue, ProcInv,
              ProcOK, NodeInv, Safe, Requested

\* The invariant behind the theorems that follow.
THEOREM SafetyInvariant == Spec => []SafetyInv
<1>1. Init => SafetyInv
  BY InitSafe
<1>2. TypeOK /\ TypeOK' /\ SafetyInv /\ [Next]_vars => SafetyInv'
  BY NextSafe, StutterSafe
<1> QED
  BY <1>1, <1>2, TypeCorrect, PTL DEF Spec

\* The local snapshot is never deleted before the repository holds the data
\* or the retries are used up, for every number of nodes, goroutines, retries
\* and faults (processUpload's calls of DeleteLocalSnapshot).
THEOREM LocalKept == Spec => []LocalKeptUntilSafe
BY SafetyInvariant, PTL DEF SafetyInv

\* What an Upload's phase says about its two snapshots is true, whatever
\* patches were lost or repeated (patchUploadByStatusWithRetry).
THEOREM PhaseIsTrue == Spec => []ReportedPhaseIsTrue
BY SafetyInvariant, PTL DEF SafetyInv

-----------------------------------------------------------------------------
(* The controllers implement the contract *)

\* What the contract sees of the state.
Seen == <<upload.phase, upload.cancel, local, remote, gaveUp>>

ContractStep == Contract!Next \/ UNCHANGED Seen

\* An accepted patch is a report, or goes unseen.
LEMMA PatchIsReport ==
  ASSUME upload.phase # "Gone", UNCHANGED <<local, remote, gaveUp>>,
         NEW req, NEW p \in UploadPhase, upload' = Patched(req, p),
         p # "New",
         p \in {"Completed", "UploadFailedAfterRetry"} => ~local,
         p = "UploadFailedAfterRetry" => gaveUp,
         p \in {"Completed", "CleanupFailed"} => Safe,
         p \in {"Canceling", "Canceled"} => upload.cancel
  PROVE  ContractStep
<1>1. upload'.cancel = upload.cancel /\ upload'.phase \in {p, upload.phase}
  BY PatchedFields
<1>2. CASE upload'.phase = upload.phase
  BY <1>1, <1>2 DEF ContractStep, Seen
<1>3. CASE upload'.phase = p
  <2>1. Contract!Report(p)
    BY <1>1, <1>3 DEF Contract!Report, Safe
  <2> QED
    BY <2>1 DEF ContractStep, Contract!Next
<1> QED
  BY <1>1, <1>2, <1>3

\* Every step of processUpload is a step of the contract, or unseen.
LEMMA ProcessUploadImplements ==
  ASSUME TypeOK, SafetyInv, NEW g \in Goroutine, ProcessUpload(g)
  PROVE  ContractStep
<1>1. CASE PatchUploadByStatus(g)
  <2> DEFINE p == proc[g]
  <2>1. ProcOK(p) /\ p.pc = "patch" /\ p.want \in UploadPhase
    BY <1>1, ProcStateFields DEF SafetyInv, ProcInv, PatchUploadByStatus
  <2>2. UNCHANGED <<local, remote, gaveUp>>
    BY <1>1 DEF PatchUploadByStatus, storeVars
  <2>3. CASE upload' = upload
    BY <2>2, <2>3 DEF ContractStep, Seen
  <2>4. CASE upload.phase # "Gone" /\ upload' = Patched(p.req, p.want)
    BY <2>1, <2>2, <2>4, PatchIsReport DEF ProcOK, Requested
  <2> QED
    BY <1>1, <2>3, <2>4, PatchFailsUpload DEF PatchUploadByStatus
<1>2. CASE CopyToRepo(g) \/ CopyReturns(g)
  <2>1. /\ upload' = upload /\ local' = local
        /\ \/ gaveUp' = gaveUp /\ remote' = remote
           \/ gaveUp' = TRUE /\ remote' = remote
           \/ gaveUp' = gaveUp /\ remote' = TRUE /\ local
    BY <1>2, ZenonT(30) DEF CopyToRepo, CopyReturns, CopyError
  <2> QED
    BY <2>1, SMTT(20)
       DEF ContractStep, Contract!Next, Contract!Copy, Contract!GiveUp, Seen
<1>3. CASE DeleteLocalSnapshot(g)
  <2>1. /\ upload' = upload /\ remote' = remote /\ gaveUp' = gaveUp
        /\ local' = local \/ local' = FALSE
    BY <1>3 DEF DeleteLocalSnapshot
  <2>2. proc[g].pc \in {"cleanup", "deletelocal", "giveup"}
    BY <1>3 DEF DeleteLocalSnapshot
  <2>3. ProcOK(proc[g])
    BY DEF SafetyInv, ProcInv
  <2>4. Safe
    BY <2>2, <2>3 DEF ProcOK, Safe
  <2> QED
    BY <2>1, <2>4 DEF ContractStep, Contract!Next, Contract!DropLocal, Safe, Seen
<1>4. CASE \/ GetUpload(g) \/ GetBackupRepositoryFails(g)
           \/ UnregisterOngoingUpload(g)
  BY <1>4 DEF GetUpload, GetBackupRepositoryFails, UnregisterOngoingUpload,
              storeVars, ContractStep, Seen
<1> QED
  BY <1>1, <1>2, <1>3, <1>4 DEF ProcessUpload

\* Every step of a node outside processUpload is a step of the contract, or
\* unseen.
LEMMA NodeImplements ==
  ASSUME TypeOK, SafetyInv, NEW n \in Node,
         \/ DeliverEvent(n) \/ HandleEvent(n) \/ ProcessUploadItem(n)
         \/ Elect(n) \/ LoseLease(n) \/ Crash(n) \/ Restart(n)
         \/ \E t \in Thread : TriggerUploadCancellation(n, t)
  PROVE  ContractStep
<1>1. CASE HandleEvent(n)
  <2>1. /\ UNCHANGED <<local, remote, gaveUp>>
        /\ \/ upload' = upload
           \/ upload' = NoUpload /\ lister[n].phase = "Completed"
    BY <1>1, ZenonT(30) DEF HandleEvent, EnqueueUploadItem, storeVars
  <2>2. CASE upload' = NoUpload /\ lister[n].phase = "Completed"
    <3>1. ~local
      BY <2>2 DEF SafetyInv, NodeInv
    <3> QED
      BY <2>1, <2>2, <3>1
         DEF NoUpload, ContractStep, Contract!Next, Contract!Remove
  <2>3. CASE upload' = upload
    BY <2>1, <2>3 DEF ContractStep, Seen
  <2> QED
    BY <2>1, <2>2, <2>3
<1>2. ASSUME NEW t \in Thread, CancelerPatch(n, t) PROVE ContractStep
  <2> DEFINE c == canceler[n][t]
  <2>1. UNCHANGED <<local, remote, gaveUp>> /\ Requested
    BY <1>2 DEF CancelerPatch, storeVars, SafetyInv, NodeInv
  <2>2. CASE upload' = upload
    BY <2>1, <2>2 DEF ContractStep, Seen
  <2>3. CASE upload.phase # "Gone" /\ upload' = Patched(c.req, "Canceling")
    BY <2>1, <2>3, PatchIsReport, SMTT(20) DEF UploadPhase, Requested
  <2> QED
    BY <1>2, <2>2, <2>3, PatchFailsUpload DEF CancelerPatch
<1>3. CASE \/ DeliverEvent(n) \/ ProcessUploadItem(n) \/ Elect(n)
           \/ LoseLease(n) \/ Crash(n) \/ Restart(n)
           \/ \E t \in Thread : CancelUpload(n, t)
  BY <1>3 DEF DeliverEvent, ProcessUploadItem, Elect, OnNewLeader,
              OnStartedLeading, LoseLease, Crash, Restart, CancelUpload,
              storeVars, ContractStep, Seen
<1> QED
  BY <1>1, <1>2, <1>3 DEF TriggerUploadCancellation

\* Every step is a step of the contract, or unseen.
LEMMA NextImplements ==
  ASSUME TypeOK, SafetyInv, [Next]_vars
  PROVE  ContractStep
<1>1. CASE RequestCancel
  <2>1. /\ upload.phase # "Gone" /\ UNCHANGED <<local, remote, gaveUp>>
        /\ upload'.phase = upload.phase /\ upload'.cancel = TRUE
    BY <1>1 DEF RequestCancel, TypeOK, Upload, storeVars
  <2> QED
    BY <2>1 DEF ContractStep, Contract!Next, Contract!RequestCancel
<1>2. CASE UNCHANGED vars
  BY <1>2 DEF vars, storeVars, ContractStep, Seen
<1> QED
  BY <1>1, <1>2, ProcessUploadImplements, NodeImplements DEF Next

\* The upload controllers of any number of nodes, with lost leases, crashes,
\* lost patches and cancellations, implement UploadContract: the backup driver
\* and the user may rely on its phases alone.
THEOREM Implementation == Spec => ImplementsContract
<1>1. Init => Contract!Init
  BY DEF Init, NewUpload, Contract!Init
<1>2. TypeOK /\ SafetyInv /\ [Next]_vars
        => [Contract!Next]_(Contract!contractVars)
  BY NextImplements DEF ContractStep, Seen, Contract!contractVars
<1> QED
  BY <1>1, <1>2, TypeCorrect, SafetyInvariant, PTL
     DEF Spec, ImplementsContract, Contract!Spec

\* What the contract keeps, step by step.
ContractInv ==
  /\ local \in BOOLEAN /\ remote \in BOOLEAN /\ gaveUp \in BOOLEAN
  /\ LocalKeptUntilSafe /\ ReportedPhaseIsTrue

\* The contract is strong enough: whoever keeps to it, be it UploadController or
\* the data managers as SnapshotController and DeleteSnapshotController see them,
\* loses no data and reports only phases that are true.
THEOREM ContractKeepsData ==
  ImplementsContract => [](LocalKeptUntilSafe /\ ReportedPhaseIsTrue)
<1>1. Contract!Init => ContractInv
  BY DEF Contract!Init, ContractInv, LocalKeptUntilSafe, ReportedPhaseIsTrue
<1>2. ASSUME ContractInv, [Contract!Next]_(Contract!contractVars)
      PROVE  ContractInv'
  <2> USE DEF ContractInv, LocalKeptUntilSafe, ReportedPhaseIsTrue
  <2>1. CASE Contract!Copy
    BY <1>2, <2>1 DEF Contract!Copy
  <2>2. CASE Contract!GiveUp
    BY <1>2, <2>2 DEF Contract!GiveUp
  <2>3. CASE Contract!DropLocal
    BY <1>2, <2>3 DEF Contract!DropLocal
  <2>4. CASE Contract!RequestCancel
    BY <1>2, <2>4 DEF Contract!RequestCancel
  <2>5. CASE Contract!Remove
    BY <1>2, <2>5 DEF Contract!Remove
  <2>6. ASSUME NEW p \in UploadPhase, Contract!Report(p)
        PROVE  ContractInv'
    <3>1. p # "Gone"
      BY DEF UploadPhase
    <3> QED
      BY <1>2, <2>6, <3>1 DEF Contract!Report
  <2>7. CASE UNCHANGED Contract!contractVars
    BY <1>2, <2>7 DEF Contract!contractVars
  <2> QED
    BY <1>2, <2>1, <2>2, <2>3, <2>4, <2>5, <2>6, <2>7 DEF Contract!Next
<1>3. ContractInv => LocalKeptUntilSafe /\ ReportedPhaseIsTrue
  BY DEF ContractInv
<1> QED
  BY <1>1, <1>2, <1>3, PTL DEF ImplementsContract, Contract!Spec


-----------------------------------------------------------------------------
(* The lease: as long as no lease is lost while its holder still processes   *)
(* the upload, it keeps all but one processUpload call from running, in the  *)
(* whole cluster, and cancellation reaches the copy it is meant for.         *)

\* A running goroutine is the one its node's worker waits for, and its node is
\* the one the lease names.  A worker thread that cancels is not waiting.
LeaseInv ==
  /\ \A g \in Goroutine : Running(g) =>
       /\ proc[g].node \in Node
       /\ worker[proc[g].node] = g
       /\ lease = proc[g].node
  /\ \A n \in Node : canceler[n]["worker"].pc # "idle" => worker[n] = "canceling"

Finished == {"Completed", "UploadFailedAfterRetry", "Canceled"}

\* Once the end of the upload is reported, a goroutine has nothing left to do
\* but to read that, or to repeat the report.
FinishedInv ==
  upload.phase \in Finished =>
    \A g \in Goroutine : \/ proc[g].pc \in {"idle", "get"}
                         \/ proc[g].pc = "patch" /\ proc[g].want = upload.phase

SingleInv == LeaseInv /\ CancelableCopy /\ FinishedInv

\* The lease names one node, and a worker waits for one goroutine.
LEMMA LeaseOne ==
  ASSUME LeaseInv PROVE OneProcessor
BY DEF LeaseInv, OneProcessor

\* The idle states of a worker are no goroutines.
LEMMA NotGoroutine ==
  /\ "idle" \notin Goroutine /\ "electing" \notin Goroutine
  /\ "canceling" \notin Goroutine /\ None \notin Node /\ None \notin Goroutine
BY ConstantsAssumption

\* A goroutine that returns frees its worker.
LEMMA ReturnLease ==
  ASSUME TypeOK, LeaseInv, NEW g \in Goroutine, Running(g),
         NEW err, Return(g, err), lease' = lease,
         canceler' = canceler
  PROVE  LeaseInv'
<1>1. /\ worker[proc[g].node] = g /\ proc[g].node \in Node
      /\ worker' = [worker EXCEPT ![proc[g].node] = "idle"]
      /\ proc' = [proc EXCEPT ![g] = IdleProc]
  BY DEF LeaseInv, Return
<1>2. ASSUME NEW h \in Goroutine, Running(h)' PROVE FALSE
  <2>1. h # g
    BY <1>1, <1>2 DEF Running, TypeOK, IdleProc, At
  <2>2. Running(h)
    BY <1>1, <1>2, <2>1 DEF Running, TypeOK
  <2> QED
    BY <2>1, <2>2, LeaseOne DEF OneProcessor
<1>3. ASSUME NEW n \in Node, canceler'[n]["worker"].pc # "idle"
      PROVE  worker'[n] = "canceling"
  BY <1>1, <1>3, NotGoroutine DEF LeaseInv, TypeOK
<1> QED
  BY <1>2, <1>3 DEF LeaseInv

\* A goroutine that goes on keeps its node.
LEMMA MoveLease ==
  ASSUME TypeOK, LeaseInv, NEW g \in Goroutine, Running(g), NEW p,
         proc' = [proc EXCEPT ![g] = p], p.node = proc[g].node,
         worker' = worker, lease' = lease, canceler' = canceler
  PROVE  LeaseInv'
<1>1. ASSUME NEW h \in Goroutine
      PROVE  proc'[h].node = proc[h].node /\ (Running(h)' => Running(h))
  BY DEF TypeOK, Running
<1> QED
  BY <1>1 DEF LeaseInv

\* processUpload goes on where it is or returns; it never changes node.
LEMMA ProcessUploadLease ==
  ASSUME TypeOK, LeaseInv, NEW g \in Goroutine, ProcessUpload(g)
  PROVE  LeaseInv'
<1>1. Running(g) /\ lease' = lease /\ canceler' = canceler
  BY DEF ProcessUpload, GetUpload, PatchUploadByStatus,
         GetBackupRepositoryFails, CopyToRepo, CopyReturns,
         UnregisterOngoingUpload, DeleteLocalSnapshot, Running, nodeVars
<1>2. \/ \E err : Return(g, err)
      \/ /\ worker' = worker
         /\ \E pc, req : GoTo(g, pc, req)
      \/ /\ worker' = worker
         /\ \E req, p, tries, q : proc' = [proc EXCEPT ![g] =
                                    Patching(proc[g].node, req, p, tries, q)]
  <2>1. CASE GetUpload(g)
    BY <2>1 DEF GetUpload, StartPatch
  <2>2. CASE PatchUploadByStatus(g)
    BY <2>2 DEF PatchUploadByStatus
  <2>3. CASE GetBackupRepositoryFails(g)
    BY <2>3 DEF GetBackupRepositoryFails
  <2>4. CASE CopyToRepo(g)
    BY <2>4 DEF CopyToRepo, CopyError, StartPatch, nodeVars
  <2>5. CASE CopyReturns(g)
    BY <2>5 DEF CopyReturns, CopyError, StartPatch, nodeVars
  <2>6. CASE UnregisterOngoingUpload(g)
    BY <2>6 DEF UnregisterOngoingUpload, nodeVars
  <2>7. CASE DeleteLocalSnapshot(g)
    BY <2>7 DEF DeleteLocalSnapshot, StartPatch, nodeVars
  <2> QED
    BY <2>1, <2>2, <2>3, <2>4, <2>5, <2>6, <2>7 DEF ProcessUpload
<1>3. CASE \E err : Return(g, err)
  BY <1>1, <1>3, ReturnLease
<1>4. CASE worker' = worker /\ \E pc, req : GoTo(g, pc, req)
  <2>1. PICK pc, req : proc' = [proc EXCEPT ![g] = At(proc[g].node, pc, req)]
    BY <1>4 DEF GoTo
  <2>2. At(proc[g].node, pc, req).node = proc[g].node
    BY DEF At
  <2> QED
    BY <1>1, <1>4, <2>1, <2>2, MoveLease
<1>5. CASE /\ worker' = worker
           /\ \E req, p, tries, q : proc' = [proc EXCEPT ![g] =
                                      Patching(proc[g].node, req, p, tries, q)]
  <2>1. PICK req, p, tries, q : proc' = [proc EXCEPT ![g] =
                                  Patching(proc[g].node, req, p, tries, q)]
    BY <1>5
  <2>2. Patching(proc[g].node, req, p, tries, q).node = proc[g].node
    BY DEF Patching
  <2> QED
    BY <1>1, <1>5, <2>1, <2>2, MoveLease
<1> QED
  BY <1>2, <1>3, <1>4, <1>5

\* A worker takes a new item only when it waits for nobody.
LEMMA ProcessUploadItemLease ==
  ASSUME TypeOK, LeaseInv, NEW n \in Node, ProcessUploadItem(n)
  PROVE  LeaseInv'
<1>1. proc' = proc /\ lease' = lease /\ worker[n] = "idle"
  BY DEF ProcessUploadItem
<1>2. \A m \in Node \ {n} : worker'[m] = worker[m]
  BY DEF ProcessUploadItem, TypeOK
<1>3. ASSUME NEW h \in Goroutine, Running(h)'
      PROVE  /\ proc'[h].node \in Node
             /\ worker'[proc'[h].node] = h
             /\ lease' = proc'[h].node
  <2>1. proc[h].node \in Node /\ worker[proc[h].node] = h /\ lease = proc[h].node
    BY <1>1, <1>3 DEF LeaseInv, Running
  <2>2. proc[h].node # n
    BY <1>1, <2>1, NotGoroutine
  <2> QED
    BY <1>1, <1>2, <2>1, <2>2
<1>4. ASSUME NEW m \in Node, canceler'[m]["worker"].pc # "idle"
      PROVE  worker'[m] = "canceling"
  <2>1. CASE canceler' = canceler
    BY <1>1, <1>2, <1>4, <2>1 DEF LeaseInv
  <2>2. CASE /\ registry[n] # None
             /\ worker' = [worker EXCEPT ![n] = "canceling"]
             /\ canceler' = [canceler EXCEPT ![n]["worker"] =
                               [pc |-> "patch", req |-> lister[n], tries |-> 0]]
    <3>1. CASE m = n
      BY <2>2, <3>1 DEF TypeOK
    <3>2. CASE m # n
      BY <1>4, <2>2, <3>2 DEF LeaseInv, TypeOK
    <3> QED
      BY <3>1, <3>2
  <2> QED
    BY <2>1, <2>2 DEF ProcessUploadItem, StartCanceler
<1> QED
  BY <1>3, <1>4 DEF LeaseInv

\* Nobody is running when an election ends with a leader.
LEMMA OnStartedLeadingLease ==
  ASSUME TypeOK, LeaseInv, NEW n \in Node, NEW g \in Goroutine,
         OnStartedLeading(n, g)
  PROVE  /\ \A h \in Goroutine : ~Running(h)
         /\ LeaseInv'
<1>1. ASSUME NEW h \in Goroutine, Running(h) PROVE FALSE
  <2>1. /\ proc[h].node \in Node /\ lease = proc[h].node
        /\ worker[lease] = h
    BY <1>1 DEF LeaseInv
  <2>2. CASE lease = n
    BY <2>1, <2>2, NotGoroutine DEF OnStartedLeading
  <2>3. CASE ~Renewing(lease)
    BY <2>1, <2>3, NotGoroutine DEF Renewing
  <2> QED
    BY <2>2, <2>3 DEF OnStartedLeading, MayLead
<1>2. /\ proc' = [proc EXCEPT ![g] = At(n, "get", NoUpload)]
      /\ worker' = [worker EXCEPT ![n] = g] /\ lease' = n
      /\ canceler' = canceler /\ worker[n] = "electing"
  BY DEF OnStartedLeading
<1>3. \A h \in Goroutine : Running(h)' => h = g
  BY <1>1, <1>2 DEF Running, TypeOK
<1>4. proc'[g].node = n /\ worker'[n] = g
  BY <1>2 DEF TypeOK, At
<1>5. \A m \in Node : canceler'[m]["worker"].pc # "idle"
                        => worker'[m] = "canceling"
  BY <1>2 DEF LeaseInv, TypeOK
<1> QED
  BY <1>1, <1>2, <1>3, <1>4, <1>5 DEF LeaseInv

\* Only a cancelling worker is set free at a cancellation's end.
LEMMA CancelLease ==
  ASSUME TypeOK, LeaseInv, NEW n \in Node, NEW t \in Thread,
         TriggerUploadCancellation(n, t)
  PROVE  LeaseInv'
<1>1. proc' = proc /\ lease' = lease
  BY DEF TriggerUploadCancellation, CancelerPatch, CancelUpload
<1>2. canceler[n][t].pc # "idle"
  BY DEF TriggerUploadCancellation, CancelerPatch, CancelUpload
<1>3. \/ worker' = worker
         /\ \E c : canceler' = [canceler EXCEPT ![n][t] = c]
      \/ EndCanceler(n, t)
  BY DEF TriggerUploadCancellation, CancelerPatch, CancelUpload
<1>4. \/ worker' = worker
      \/ t = "worker" /\ worker' = [worker EXCEPT ![n] = "idle"]
  BY <1>3 DEF EndCanceler
<1>5. t = "worker" => worker[n] = "canceling"
  BY <1>2 DEF LeaseInv
<1>6. ASSUME NEW h \in Goroutine, Running(h)'
      PROVE  /\ proc'[h].node \in Node
             /\ worker'[proc'[h].node] = h
             /\ lease' = proc'[h].node
  <2>1. Running(h)
    BY <1>1, <1>6 DEF Running
  <2>2. proc[h].node \in Node /\ worker[proc[h].node] = h /\ lease = proc[h].node
    BY <2>1 DEF LeaseInv
  <2>3. h # "canceling"
    BY NotGoroutine
  <2>4. worker'[proc[h].node] = h
    BY <1>4, <1>5, <2>2, <2>3 DEF TypeOK
  <2> QED
    BY <1>1, <2>2, <2>4
<1>7. ASSUME NEW m \in Node, canceler'[m]["worker"].pc # "idle"
      PROVE  worker'[m] = "canceling"
  <2>1. PICK c : canceler' = [canceler EXCEPT ![n][t] = c]
    BY <1>3 DEF EndCanceler
  <2>2. CASE m = n /\ t = "worker"
    <3>1. CASE worker' = worker
      BY <1>5, <2>2, <3>1
    <3>2. CASE EndCanceler(n, t)
      <4>1. canceler'[n]["worker"] = IdleCanceler
        BY <2>2, <3>2 DEF EndCanceler, TypeOK
      <4> QED
        BY <1>7, <2>2, <4>1 DEF IdleCanceler
    <3> QED
      BY <1>3, <3>1, <3>2
  <2>3. CASE ~(m = n /\ t = "worker")
    <3>1. canceler'[m]["worker"] = canceler[m]["worker"]
      BY <2>1, <2>3 DEF TypeOK, Thread
    <3>2. worker'[m] = worker[m]
      BY <1>4, <2>3 DEF TypeOK
    <3> QED
      BY <1>7, <3>1, <3>2 DEF LeaseInv
  <2> QED
    BY <2>2, <2>3
<1> QED
  BY <1>6, <1>7 DEF LeaseInv

\* A crash ends the node's worker together with its goroutines.
LEMMA CrashLease ==
  ASSUME TypeOK, LeaseInv, NEW n \in Node, Crash(n)
  PROVE  LeaseInv'
<1>1. ASSUME NEW h \in Goroutine, Running(h)'
      PROVE  /\ proc'[h].node \in Node
             /\ worker'[proc'[h].node] = h
             /\ lease' = proc'[h].node
  <2>1. proc'[h] = proc[h] /\ proc[h].node # n
    BY <1>1 DEF Crash, Running, IdleProc, At
  <2> QED
    BY <1>1, <2>1 DEF LeaseInv, Running, Crash, TypeOK
<1>2. ASSUME NEW m \in Node, canceler'[m]["worker"].pc # "idle"
      PROVE  worker'[m] = "canceling"
  <2>1. CASE m = n
    <3>1. canceler'[n] = [t \in Thread |-> IdleCanceler]
      BY DEF Crash, TypeOK
    <3> QED
      BY <1>2, <2>1, <3>1 DEF Thread, IdleCanceler
  <2>2. CASE m # n
    BY <1>2, <2>2 DEF Crash, TypeOK, LeaseInv
  <2> QED
    BY <2>1, <2>2
<1> QED
  BY <1>1, <1>2 DEF LeaseInv

\* LeaseInv is inductive while no lease is lost.
LEMMA NextLease ==
  ASSUME TypeOK, LeaseInv, "lease" \notin Env, [Next]_vars
  PROVE  LeaseInv'
<1>1. ASSUME NEW n \in Node, HandleEvent(n) PROVE LeaseInv'
  <2>1. proc' = proc /\ lease' = lease /\ worker' = worker
    BY <1>1 DEF HandleEvent
  <2>2. canceler' = canceler
        \/ \E c : canceler' = [canceler EXCEPT ![n]["informer"] = c]
    BY <1>1 DEF HandleEvent, EnqueueUploadItem, StartCanceler
  <2>3. \A m \in Node : canceler'[m]["worker"] = canceler[m]["worker"]
    BY <2>2 DEF TypeOK, Thread
  <2> QED
    BY <2>1, <2>3 DEF LeaseInv, Running
<1>2. ASSUME NEW n \in Node, OnNewLeader(n) PROVE LeaseInv'
  <2>1. /\ proc' = proc /\ lease' = lease /\ canceler' = canceler
        /\ worker[n] = "electing" /\ worker' = [worker EXCEPT ![n] = "idle"]
    BY <1>2 DEF OnNewLeader
  <2>2. worker'[n] = "idle" /\ \A m \in Node : m # n => worker'[m] = worker[m]
    BY <2>1 DEF TypeOK
  <2>3. \A g \in Goroutine : worker[n] # g
    BY <2>1, NotGoroutine
  <2>4. ASSUME NEW g \in Goroutine, Running(g)'
        PROVE  /\ proc'[g].node \in Node
               /\ worker'[proc'[g].node] = g
               /\ lease' = proc'[g].node
    <3>1. proc[g].node \in Node /\ worker[proc[g].node] = g /\ lease = proc[g].node
      BY <2>1, <2>4 DEF LeaseInv, Running
    <3> QED
      BY <2>1, <2>2, <2>3, <3>1
  <2>5. ASSUME NEW m \in Node, canceler'[m]["worker"].pc # "idle"
        PROVE  worker'[m] = "canceling"
    <3>1. worker[m] = "canceling"
      BY <2>1, <2>5 DEF LeaseInv
    <3> QED
      BY <2>1, <2>2, <3>1
  <2> QED
    BY <2>4, <2>5 DEF LeaseInv
<1>3. CASE \/ UNCHANGED vars \/ RequestCancel
           \/ \E n \in Node : DeliverEvent(n) \/ Restart(n)
  BY <1>3 DEF vars, nodeVars, RequestCancel, DeliverEvent, Restart, LeaseInv,
              Running
<1>4. ASSUME NEW n \in Node, LoseLease(n) PROVE FALSE
  BY <1>4 DEF LoseLease, Fault
<1> QED
  BY <1>1, <1>2, <1>3, <1>4, ProcessUploadLease, ProcessUploadItemLease,
     OnStartedLeadingLease, CancelLease, CrashLease DEF Next, Elect

\* Initially no goroutine and no canceler runs.
LEMMA InitIdle ==
  ASSUME Init
  PROVE  /\ \A g \in Goroutine : proc[g].pc = "idle"
         /\ \A n \in Node : canceler[n]["worker"].pc = "idle"
<1>1. IdleProc.pc = "idle" /\ IdleCanceler.pc = "idle"
  BY DEF IdleProc, At, IdleCanceler
<1>2. \A g \in Goroutine : proc[g] = IdleProc
  BY DEF Init
<1>3. \A n \in Node : canceler[n]["worker"] = IdleCanceler
  BY DEF Init, Thread
<1> QED
  BY <1>1, <1>2, <1>3

\* Only the lease keeps two data managers from working on one upload: as long
\* as none is lost under a running processUpload, at most one such call runs in
\* the cluster, whatever crashes and restarts (processUploadItem's election).
THEOREM SingleProcessor ==
  ASSUME "lease" \notin Env
  PROVE  Spec => []OneProcessor
<1>1. Init => LeaseInv
  BY InitIdle DEF LeaseInv, Running
<1>2. TypeOK /\ LeaseInv /\ [Next]_vars => LeaseInv'
  BY NextLease
<1>3. LeaseInv => OneProcessor
  BY LeaseOne
<1> QED
  BY <1>1, <1>2, <1>3, TypeCorrect, PTL DEF Spec

-----------------------------------------------------------------------------
(* Cancellation *)

\* In a step of the one running goroutine g, everybody else stays idle.
LEMMA OthersIdle ==
  ASSUME TypeOK, LeaseInv, NEW g \in Goroutine, ProcessUpload(g),
         NEW h \in Goroutine, h # g
  PROVE  proc[h].pc = "idle" /\ proc'[h] = proc[h]
<1>1. Running(g)
  BY DEF ProcessUpload, GetUpload, PatchUploadByStatus,
         GetBackupRepositoryFails, CopyToRepo, CopyReturns,
         UnregisterOngoingUpload, DeleteLocalSnapshot, Running
<1>2. proc[h].pc = "idle"
  BY <1>1, LeaseOne DEF OneProcessor, Running
<1>3. \E p : proc' = [proc EXCEPT ![g] = p]
  BY DEF ProcessUpload, GetUpload, PatchUploadByStatus,
         GetBackupRepositoryFails, CopyToRepo, CopyReturns, CopyError,
         UnregisterOngoingUpload, DeleteLocalSnapshot, GoTo, StartPatch, Return
<1> QED
  BY <1>2, <1>3 DEF TypeOK

\* The program point and the wanted phase that processUpload can move to when it
\* has read or reported the upload.
LEMMA ProcFields ==
  /\ IdleProc.pc = "idle"
  /\ \A n, u, req : At(n, WorkPC(u), req).pc \in {"cleanup", "copy"}
  /\ \A n, req, want, tries, q :
       Patching(n, req, want, tries, q).pc = "patch" /\ Patching(n, req, want, tries, q).want = want
<1>1. IdleProc.pc = "idle"
  BY DEF IdleProc, At
<1>2. ASSUME NEW n, NEW u, NEW req
      PROVE  At(n, WorkPC(u), req).pc \in {"cleanup", "copy"}
  BY DEF At, WorkPC
<1>3. ASSUME NEW n, NEW req, NEW want, NEW tries, NEW q
      PROVE  /\ Patching(n, req, want, tries, q).pc = "patch"
             /\ Patching(n, req, want, tries, q).want = want
  BY DEF Patching
<1> QED
  BY <1>1, <1>2, <1>3

\* Copying starts in CopyToRepo, with the cancel function registered.
LEMMA ProcessUploadCancelable ==
  ASSUME TypeOK, LeaseInv, CancelableCopy, NEW g \in Goroutine,
         ProcessUpload(g)
  PROVE  CancelableCopy'
<1>0. g \in DOMAIN proc
  BY DEF TypeOK
<1>1. proc'[g].pc = "copying" => registry'[proc'[g].node] = g
  <2>1. CASE CopyToRepo(g)
    <3>1. Running(g)
      BY <2>1 DEF CopyToRepo, Running
    <3>2. proc[g].node \in Node
      BY <3>1 DEF LeaseInv
    <3>3. CASE CopyError(g)
      BY <1>0, <3>3 DEF CopyError, GoTo, StartPatch, At, Patching
    <3>4. CASE /\ RegisterOngoingUpload(proc[g].node, g)
               /\ GoTo(g, "copying", proc[g].req)
      BY <3>2, <3>4 DEF RegisterOngoingUpload, GoTo, At, TypeOK
    <3> QED
      BY <2>1, <3>3, <3>4 DEF CopyToRepo
  <2>2. CASE GetUpload(g)
    <3>1. PICK p : /\ proc' = [proc EXCEPT ![g] = p]
                   /\ \/ p = IdleProc
                      \/ p = At(proc[g].node, WorkPC(upload), upload)
                      \/ p = Patching(proc[g].node, upload, "InProgress", 0, FALSE)
      BY <1>0, <2>2 DEF GetUpload, GoTo, StartPatch, Return
    <3>2. p.pc \in {"idle", "cleanup", "copy", "patch"}
      <4>1. CASE p = IdleProc
        BY <4>1, ProcFields
      <4>2. CASE p = At(proc[g].node, WorkPC(upload), upload)
        BY <4>2, ProcFields
      <4>3. CASE p = Patching(proc[g].node, upload, "InProgress", 0, FALSE)
        BY <4>3 DEF Patching
      <4> QED
        BY <3>1, <4>1, <4>2, <4>3
    <3> QED
      BY <1>0, <3>1, <3>2
  <2>3. CASE PatchUploadByStatus(g)
    <3>1. PICK p : /\ proc' = [proc EXCEPT ![g] = p]
                   /\ \/ p = IdleProc
                      \/ p = At(proc[g].node, WorkPC(upload'), upload')
                      \/ p = Patching(proc[g].node, Mutate(proc[g].req, proc[g].want),
                                      proc[g].want, proc[g].tries + 1, proc[g].quiet)
      BY <1>0, <2>3 DEF PatchUploadByStatus, GoTo, Return
    <3>2. p.pc \in {"idle", "cleanup", "copy", "patch"}
      <4>1. CASE p = IdleProc
        BY <4>1, ProcFields
      <4>2. CASE p = At(proc[g].node, WorkPC(upload'), upload')
        BY <4>2, ProcFields
      <4>3. CASE p = Patching(proc[g].node, Mutate(proc[g].req, proc[g].want),
                              proc[g].want, proc[g].tries + 1, proc[g].quiet)
        BY <4>3 DEF Patching
      <4> QED
        BY <3>1, <4>1, <4>2, <4>3
    <3> QED
      BY <1>0, <3>1, <3>2
  <2>4. CASE CopyReturns(g)
    BY <1>0, <2>4 DEF CopyReturns, CopyError, GoTo, StartPatch, At, Patching
  <2>5. CASE GetBackupRepositoryFails(g)
    BY <1>0, <2>5 DEF GetBackupRepositoryFails, Return, IdleProc, At
  <2>6. CASE UnregisterOngoingUpload(g)
    BY <1>0, <2>6 DEF UnregisterOngoingUpload, GoTo, At
  <2>7. CASE DeleteLocalSnapshot(g)
    <3>1. PICK want, quiet : StartPatch(g, proc[g].req, want, quiet)
      BY <2>7 DEF DeleteLocalSnapshot
    <3> QED
      BY <1>0, <3>1 DEF StartPatch, Patching
  <2> QED
    BY <2>1, <2>2, <2>3, <2>4, <2>5, <2>6, <2>7 DEF ProcessUpload
<1> QED
  BY <1>1, OthersIdle DEF CancelableCopy

\* CancelableCopy is inductive relative to LeaseInv.
LEMMA NextCancelable ==
  ASSUME TypeOK, LeaseInv, CancelableCopy, [Next]_vars
  PROVE  CancelableCopy'
<1>1. ASSUME NEW n \in Node, NEW g \in Goroutine, OnStartedLeading(n, g)
      PROVE  CancelableCopy'
  <2>1. \A h \in Goroutine : proc[h].pc = "idle"
    BY <1>1, OnStartedLeadingLease DEF Running
  <2>2. \A h \in Goroutine : proc'[h].pc # "copying"
    BY <1>1, <2>1 DEF OnStartedLeading, At, TypeOK
  <2> QED
    BY <2>2 DEF CancelableCopy
<1>2. ASSUME NEW n \in Node, NEW t \in Thread, CancelUpload(n, t)
      PROVE  CancelableCopy'
  <2> SUFFICES ASSUME NEW g \in Goroutine, proc'[g].pc = "copying", g \notin ctxDone'
               PROVE  registry'[proc'[g].node] = g
    BY DEF CancelableCopy
  <2>1. /\ proc' = proc /\ registry' = [registry EXCEPT ![n] = None]
        /\ ctxDone' = ctxDone \cup {h \in Goroutine : h = registry[n] /\ proc[h].node = n /\ proc[h].pc = "copying"}
    BY <1>2 DEF CancelUpload
  <2>2. registry[proc[g].node] = g
    BY <2>1 DEF CancelableCopy
  <2>3. proc[g].node # n
    BY <2>1, <2>2
  <2> QED
    BY <2>1, <2>2, <2>3 DEF TypeOK
<1>3. ASSUME NEW n \in Node, Crash(n)
      PROVE  CancelableCopy'
  <2> SUFFICES ASSUME NEW g \in Goroutine, proc'[g].pc = "copying",
                      g \notin ctxDone'
               PROVE  registry'[proc'[g].node] = g
    BY DEF CancelableCopy
  <2>1. proc'[g] = proc[g] /\ proc[g].node # n
    BY <1>3 DEF Crash, IdleProc, At
  <2>2. g \notin ctxDone /\ proc[g].node \in Node
    BY <1>3, <2>1 DEF Crash, LeaseInv, Running
  <2> QED
    BY <1>3, <2>1, <2>2 DEF Crash, CancelableCopy, TypeOK
<1>4. CASE UNCHANGED <<registry, ctxDone, proc>>
  BY <1>4 DEF CancelableCopy
<1>5. CASE \/ UNCHANGED vars \/ RequestCancel
           \/ \E n \in Node : \/ DeliverEvent(n) \/ HandleEvent(n)
                              \/ ProcessUploadItem(n) \/ OnNewLeader(n)
                              \/ LoseLease(n) \/ Restart(n)
                              \/ \E t \in Thread : CancelerPatch(n, t)
  BY <1>4, <1>5 DEF vars, moverVars, RequestCancel, DeliverEvent, HandleEvent,
                    ProcessUploadItem, OnNewLeader, LoseLease, Restart,
                    CancelerPatch
<1> QED
  BY <1>1, <1>2, <1>3, <1>5, ProcessUploadCancelable
     DEF Next, Elect, TriggerUploadCancellation

\* Between its reading and its patching of the Upload, processUpload leaves it
\* alone.
LEMMA CopyKeepsUpload ==
  ASSUME NEW g \in Goroutine,
         \/ GetBackupRepositoryFails(g) \/ CopyToRepo(g) \/ CopyReturns(g)
         \/ UnregisterOngoingUpload(g) \/ DeleteLocalSnapshot(g)
  PROVE  upload' = upload
<1>1. CASE GetBackupRepositoryFails(g)
  BY <1>1 DEF GetBackupRepositoryFails
<1>2. CASE CopyToRepo(g)
  BY <1>2 DEF CopyToRepo
<1>3. CASE CopyReturns(g)
  BY <1>3 DEF CopyReturns
<1>4. CASE UnregisterOngoingUpload(g)
  BY <1>4 DEF UnregisterOngoingUpload
<1>5. CASE DeleteLocalSnapshot(g)
  BY <1>5 DEF DeleteLocalSnapshot
<1> QED
  BY <1>1, <1>2, <1>3, <1>4, <1>5

\* processUpload skips an upload that it reads as finished.
LEMMA ProcessUploadFinished ==
  ASSUME TypeOK, LeaseInv, FinishedInv, NEW g \in Goroutine, ProcessUpload(g)
  PROVE  FinishedInv'
<1> SUFFICES ASSUME upload'.phase \in Finished
             PROVE  \/ proc'[g].pc \in {"idle", "get"}
                    \/ proc'[g].pc = "patch" /\ proc'[g].want = upload'.phase
  BY OthersIdle DEF FinishedInv
<1>1. CASE PatchUploadByStatus(g)
  <2>1. \/ upload' = upload
        \/ upload' = Patched(proc[g].req, proc[g].want)
    BY <1>1, PatchFailsUpload DEF PatchUploadByStatus
  <2>2. proc[g].pc = "patch"
    BY <1>1 DEF PatchUploadByStatus
  <2>3. proc[g].want = upload'.phase
    <3>1. CASE upload'.phase = upload.phase
      BY <2>2, <3>1 DEF FinishedInv
    <3>2. CASE upload'.phase # upload.phase
      BY <2>1, <3>2, PatchedFields
    <3> QED
      BY <3>1, <3>2
  <2>4. g \in DOMAIN proc /\ proc[g].want # "InProgress"
    BY <2>3 DEF TypeOK, Finished
  <2>5. PICK p : /\ proc' = [proc EXCEPT ![g] = p]
                 /\ \/ p = IdleProc
                    \/ p = Patching(proc[g].node, Mutate(proc[g].req, proc[g].want),
                                    proc[g].want, proc[g].tries + 1, proc[g].quiet)
    BY <1>1, <2>4 DEF PatchUploadByStatus, Return
  <2>6. p.pc = "idle" \/ (p.pc = "patch" /\ p.want = upload'.phase)
    <3>1. CASE p = IdleProc
      BY <3>1, ProcFields
    <3>2. CASE p = Patching(proc[g].node, Mutate(proc[g].req, proc[g].want),
                            proc[g].want, proc[g].tries + 1, proc[g].quiet)
      BY <2>3, <3>2, ProcFields
    <3> QED
      BY <2>5, <3>1, <3>2
  <2> QED
    BY <2>4, <2>5, <2>6
<1>2. CASE GetUpload(g)
  <2>1. upload.phase \in Finished
    BY <1>2 DEF GetUpload
  <2>2. upload.phase \in Skipped /\ upload.phase \notin {"InProgress", "CleanupFailed"}
    BY <2>1 DEF Skipped, Finished
  <2>3. proc' = [proc EXCEPT ![g] = IdleProc]
    BY <1>2, <2>2 DEF GetUpload, Return
  <2>4. g \in DOMAIN proc
    BY DEF TypeOK
  <2> QED
    BY <2>3, <2>4 DEF IdleProc, At
<1>3. CASE \/ GetBackupRepositoryFails(g) \/ CopyToRepo(g) \/ CopyReturns(g)
           \/ UnregisterOngoingUpload(g) \/ DeleteLocalSnapshot(g)
  <2>1. upload' = upload
    BY <1>3, CopyKeepsUpload
  <2>2. proc[g].pc \notin {"idle", "get", "patch"}
    BY <1>3 DEF GetBackupRepositoryFails, CopyToRepo, CopyReturns,
                UnregisterOngoingUpload, DeleteLocalSnapshot
  <2> QED
    BY <2>1, <2>2 DEF FinishedInv
<1> QED
  BY <1>1, <1>2, <1>3 DEF ProcessUpload

\* FinishedInv is inductive relative to LeaseInv.
LEMMA NextFinished ==
  ASSUME TypeOK, LeaseInv, FinishedInv, [Next]_vars
  PROVE  FinishedInv'
<1>1. CASE proc' = proc /\ upload'.phase \in {upload.phase, "Canceling", "Gone"}
  BY <1>1 DEF FinishedInv, Finished
<1>2. ASSUME NEW n \in Node, NEW t \in Thread, CancelerPatch(n, t)
      PROVE  FinishedInv'
  <2>1. \/ upload' = upload
        \/ upload' = Patched(canceler[n][t].req, "Canceling")
    BY <1>2, PatchFailsUpload DEF CancelerPatch
  <2>2. upload'.phase \in {"Canceling", upload.phase} /\ proc' = proc
    BY <1>2, <2>1, PatchedFields DEF CancelerPatch
  <2> QED
    BY <1>1, <2>2
<1>3. ASSUME NEW n \in Node, HandleEvent(n) PROVE FinishedInv'
  <2>1. upload' \in {upload, NoUpload} /\ proc' = proc
    BY <1>3 DEF HandleEvent, EnqueueUploadItem
  <2> QED
    BY <1>1, <2>1 DEF NoUpload
<1>4. CASE RequestCancel
  <2>1. upload'.phase = upload.phase /\ proc' = proc
    BY <1>4 DEF RequestCancel, TypeOK, Upload
  <2> QED
    BY <1>1, <2>1
<1>5. ASSUME NEW n \in Node, NEW g \in Goroutine, OnStartedLeading(n, g)
      PROVE  FinishedInv'
  <2>1. upload' = upload /\ proc' = [proc EXCEPT ![g] = At(n, "get", NoUpload)]
    BY <1>5 DEF OnStartedLeading
  <2>2. \A h \in Goroutine : proc'[h] = proc[h] \/ proc'[h].pc = "get"
    BY <2>1 DEF TypeOK, At
  <2> QED
    BY <2>1, <2>2 DEF FinishedInv
<1>6. ASSUME NEW n \in Node, Crash(n) PROVE FinishedInv'
  <2>1. upload' = upload
    BY <1>6 DEF Crash
  <2>2. \A h \in Goroutine : proc'[h] = proc[h] \/ proc'[h].pc = "idle"
    BY <1>6 DEF Crash, IdleProc, At
  <2> QED
    BY <2>1, <2>2 DEF FinishedInv
<1>7. CASE UNCHANGED <<upload, proc>>
  BY <1>7 DEF FinishedInv
<1>8. ASSUME NEW n \in Node,
             \/ DeliverEvent(n) \/ ProcessUploadItem(n) \/ OnNewLeader(n)
             \/ LoseLease(n) \/ Restart(n)
             \/ \E t \in Thread : CancelUpload(n, t)
      PROVE  UNCHANGED <<upload, proc>>
  BY <1>8 DEF DeliverEvent, ProcessUploadItem, OnNewLeader, LoseLease, Restart,
              CancelUpload
<1>9. CASE UNCHANGED vars
  BY <1>7, <1>9 DEF vars
<1> QED
  BY <1>2, <1>3, <1>4, <1>5, <1>6, <1>7, <1>8, <1>9, ProcessUploadFinished
     DEF Next, Elect, TriggerUploadCancellation

\* While no lease is lost, SingleInv holds in every reachable state.
LEMMA SingleInvariant ==
  ASSUME "lease" \notin Env
  PROVE  Spec => []SingleInv
<1>1. Init => SingleInv
  BY InitIdle DEF SingleInv, LeaseInv, CancelableCopy, FinishedInv, Running
<1>2. TypeOK /\ SingleInv /\ [Next]_vars => SingleInv'
  BY NextLease, NextCancelable, NextFinished DEF SingleInv
<1> QED
  BY <1>1, <1>2, TypeCorrect, PTL DEF Spec

\* As long as no lease is lost, a running copy can be cancelled, and an upload
\* reported as Canceled is no longer being copied (triggerUploadCancellation,
\* DataMover's inProgressCancelMap).
THEOREM CancellationWorks ==
  ASSUME "lease" \notin Env
  PROVE  Spec => []CancelableCopy /\ []CanceledMeansStopped
<1>1. Spec => []SingleInv
  BY SingleInvariant
<1>2. SingleInv => CancelableCopy /\ CanceledMeansStopped
  BY DEF SingleInv, FinishedInv, Finished, CanceledMeansStopped
<1> QED
  BY <1>1, <1>2, PTL

-----------------------------------------------------------------------------
(* The end of an upload *)

\* What a step may do to an upload whose end is reported: remove it, or, if its
\* cancellation was asked for, report it as Canceling.
EndKept ==
  upload.phase \in Finished =>
    \/ upload'.phase \in {upload.phase, "Gone"}
    \/ upload'.phase = "Canceling" /\ upload.cancel

\* No step takes back the end of an upload.
LEMMA StepEnd ==
  ASSUME TypeOK, SafetyInv, SingleInv, [Next]_vars
  PROVE  EndKept
<1> SUFFICES ASSUME upload.phase \in Finished
             PROVE  \/ upload'.phase \in {upload.phase, "Gone"}
                    \/ upload'.phase = "Canceling" /\ upload.cancel
  BY DEF EndKept
<1>1. ASSUME NEW g \in Goroutine, ProcessUpload(g)
      PROVE  upload'.phase = upload.phase
  <2>1. CASE PatchUploadByStatus(g)
    <3>1. \/ upload' = upload
          \/ upload' = Patched(proc[g].req, proc[g].want)
      BY <2>1, PatchFailsUpload DEF PatchUploadByStatus
    <3>2. proc[g].pc = "patch"
      BY <2>1 DEF PatchUploadByStatus
    <3>3. proc[g].want = upload.phase
      BY <3>2 DEF SingleInv, FinishedInv
    <3> QED
      BY <3>1, <3>3, PatchedFields
  <2>2. CASE GetUpload(g)
    BY <2>2 DEF GetUpload
  <2>3. CASE \/ GetBackupRepositoryFails(g) \/ CopyToRepo(g) \/ CopyReturns(g)
             \/ UnregisterOngoingUpload(g) \/ DeleteLocalSnapshot(g)
    BY <2>3, CopyKeepsUpload
  <2> QED
    BY <1>1, <2>1, <2>2, <2>3 DEF ProcessUpload
<1>2. ASSUME NEW n \in Node, NEW t \in Thread, CancelerPatch(n, t)
      PROVE  upload'.phase = upload.phase \/ (upload'.phase = "Canceling" /\ upload.cancel)
  <2>1. \/ upload' = upload
        \/ upload' = Patched(canceler[n][t].req, "Canceling")
    BY <1>2, PatchFailsUpload DEF CancelerPatch
  <2>2. canceler[n][t].pc # "idle"
    BY <1>2 DEF CancelerPatch
  <2>3. Requested
    BY <2>2 DEF SafetyInv, NodeInv
  <2>4. upload.cancel
    BY <2>3 DEF Requested, Finished
  <2>5. upload'.phase \in {"Canceling", upload.phase}
    BY <2>1, PatchedFields
  <2> QED
    BY <2>4, <2>5, Zenon
<1>3. ASSUME NEW n \in Node, HandleEvent(n)
      PROVE  upload'.phase \in {upload.phase, "Gone"}
  <2>1. upload' = upload \/ upload' = NoUpload
    BY <1>3 DEF HandleEvent, EnqueueUploadItem
  <2> QED
    BY <2>1 DEF NoUpload
<1>4. CASE RequestCancel
  BY <1>4 DEF RequestCancel, TypeOK, Upload
<1>5. ASSUME NEW n \in Node,
             \/ DeliverEvent(n) \/ ProcessUploadItem(n) \/ Elect(n)
             \/ LoseLease(n) \/ Crash(n) \/ Restart(n)
             \/ \E t \in Thread : CancelUpload(n, t)
      PROVE  upload' = upload
  BY <1>5 DEF DeliverEvent, ProcessUploadItem, Elect, OnNewLeader, OnStartedLeading,
              LoseLease, Crash, Restart, CancelUpload
<1>6. CASE UNCHANGED vars
  BY <1>6 DEF vars
<1> QED
  BY <1>1, <1>2, <1>3, <1>4, <1>5, <1>6 DEF Next, TriggerUploadCancellation

\* As long as no lease is lost, the end that is reported for an upload is final,
\* whatever stale caches, repeated patches and restarted data managers follow:
\* it is not processed again.  Only a cancellation that was asked for too late
\* can still replace it, by Canceling (triggerUploadCancellation patches without
\* a look at the phase).
THEOREM EndIsFinal ==
  ASSUME "lease" \notin Env
  PROVE  Spec => [][EndKept]_vars
<1>1. Spec => []SingleInv
  BY SingleInvariant
<1>2. TypeOK /\ SafetyInv /\ SingleInv /\ [Next]_vars => [EndKept]_vars
  BY StepEnd
<1> QED
  BY <1>1, <1>2, TypeCorrect, SafetyInvariant, PTL DEF Spec

=============================================================================
