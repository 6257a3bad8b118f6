--------------------------- MODULE UploadController ---------------------------
(***************************************************************************)
(* The upload controllers of the data managers, one per node, working on   *)
(* one Upload custom resource (pkg/controller/upload_controller.go,        *)
(* generic_controller.go) with the data mover that does the copy           *)
(* (pkg/dataMover/data_mover.go).                                          *)
(*                                                                         *)
(* Each node has an informer whose cache may be stale, a work queue with   *)
(* ONE worker, and a data mover.  The worker runs an election for the      *)
(* Upload's lease and, once leading, processUpload runs in a goroutine of  *)
(* its own.  That goroutine never looks at the election's context, so it   *)
(* goes on when the lease is lost.  Status changes are JSON merge patches  *)
(* without a resource version: the last writer wins, field by field.       *)
(***************************************************************************)
EXTENDS Naturals

CONSTANTS
  Node,                  \* nodes that run a data manager
  Goroutine,             \* slots for concurrently running processUpload calls
  None,                  \* no node, no goroutine
  UploadCRRetryMaximum,  \* utils.GetUploadCRRetryMaximum
  PatchTries,            \* tries of one patchUploadByStatusWithRetry
  Env,                   \* the environment's misbehaviours that may happen
  MaxFaults              \* BOUND: how many of them happen in a behaviour

ASSUME ConstantsAssumption ==
  /\ None \notin Node /\ None \notin Goroutine
  /\ "idle" \notin Goroutine /\ "electing" \notin Goroutine
  /\ "canceling" \notin Goroutine
  /\ UploadCRRetryMaximum \in Nat
  /\ PatchTries \in Nat \ {0}
  /\ MaxFaults \in Nat

VARIABLES
  upload,    \* the Upload held by the API server
  local,     \* the local (vSphere) snapshot exists
  remote,    \* the repository holds a complete copy of it
  gaveUp,    \* ghost: a copy failed with the retries exhausted
  lease,     \* holder named by the lease object "upload-lease.<name>"
  up,        \* nodes whose data manager is running
  lister,    \* [Node -> Upload], the informers' caches
  queued,    \* [Node -> BOOLEAN], the key is in the queue, waiting or delayed
  worker,    \* [Node -> "idle" | "electing" | "canceling" | leading goroutine]
  canceler,  \* [Node -> [Thread -> triggerUploadCancellation's progress]]
  registry,  \* [Node -> goroutine], DataMover.inProgressCancelMap
  copyLock,  \* [Node -> goroutine], DataMover.reloadConfigLock
  ctxDone,   \* goroutines whose copy context has been cancelled
  proc,      \* [Goroutine -> processUpload's progress]
  faults     \* how many misbehaviours happened so far

nodeVars == <<lister, queued, worker, canceler>>
moverVars == <<registry, copyLock, ctxDone>>
storeVars == <<local, remote, gaveUp>>
envVars == <<up, faults>>
vars == <<upload, storeVars, lease, nodeVars, moverVars, proc, envVars>>

-----------------------------------------------------------------------------
(* Data *)

UploadPhase == {"New", "InProgress", "Completed", "UploadError",
                "CleanupFailed", "Canceling", "Canceled",
                "UploadFailedAfterRetry"}

\* "Gone" stands for an object that is not, or no longer, there.
Upload == [phase : UploadPhase \cup {"Gone"}, cancel : BOOLEAN, retry : Nat]

NoUpload == [phase |-> "Gone", cancel |-> FALSE, retry |-> 0]

\* As built by SnapshotManager.UploadSnapshot.
NewUpload == [phase |-> "New", cancel |-> FALSE, retry |-> 0]

\* Mutant: the handlers forget the uploads a dead data manager left behind.
ProcessableNotInProgress == {"New", "UploadError", "CleanupFailed",
                             "Canceling"}

\* The phases the handlers let through to processing.
Processable == {"New", "InProgress", "UploadError", "CleanupFailed",
                "Canceling"}

\* The phases processUpload skips after its fresh read.
Skipped == {"Canceled", "Canceling", "Completed", "UploadFailedAfterRetry"}

\* Threads that can run triggerUploadCancellation on a node: the informer's
\* handler goroutine and the queue's worker.
Thread == {"informer", "worker"}

ProcPC == {"idle", "get", "patch", "cleanup", "copy", "copying",
           "unregister", "deletelocal", "giveup"}

\* processUpload: its node, where it is, its copy of the object, and, while it
\* patches, the new phase, the tries made, and whether an error is swallowed.
ProcState == [node : Node \cup {None}, pc : ProcPC, req : Upload,
              want : UploadPhase, tries : Nat, quiet : BOOLEAN]

CancelerState == [pc : {"idle", "patch", "cancel"}, req : Upload, tries : Nat]

\* At program point pc, with the object req.
At(n, pc, req) == [node |-> n, pc |-> pc, req |-> req, want |-> "New",
                   tries |-> 0, quiet |-> FALSE]

\* Patching req to newPhase, after some failed tries.
Patching(n, req, newPhase, tries, quiet) ==
  [node |-> n, pc |-> "patch", req |-> req, want |-> newPhase,
   tries |-> tries, quiet |-> quiet]

IdleProc == At(None, "idle", NoUpload)

IdleCanceler == [pc |-> "idle", req |-> NoUpload, tries |-> 0]

TypeOK ==
  /\ upload \in Upload
  /\ local \in BOOLEAN /\ remote \in BOOLEAN /\ gaveUp \in BOOLEAN
  /\ lease \in Node \cup {None}
  /\ up \subseteq Node
  /\ lister \in [Node -> Upload]
  /\ queued \in [Node -> BOOLEAN]
  /\ worker \in [Node -> {"idle", "electing", "canceling"} \cup Goroutine]
  /\ canceler \in [Node -> [Thread -> CancelerState]]
  /\ registry \in [Node -> Goroutine \cup {None}]
  /\ copyLock \in [Node -> Goroutine \cup {None}]
  /\ ctxDone \subseteq Goroutine
  /\ proc \in [Goroutine -> ProcState]
  /\ faults \in Nat

Init ==
  /\ upload = NewUpload
  /\ local = TRUE /\ remote = FALSE /\ gaveUp = FALSE
  /\ lease = None
  /\ up = Node
  /\ lister = [n \in Node |-> NoUpload]
  /\ queued = [n \in Node |-> FALSE]
  /\ worker = [n \in Node |-> "idle"]
  /\ canceler = [n \in Node |-> [t \in Thread |-> IdleCanceler]]
  /\ registry = [n \in Node |-> None]
  /\ copyLock = [n \in Node |-> None]
  /\ ctxDone = {}
  /\ proc = [g \in Goroutine |-> IdleProc]
  /\ faults = 0

-----------------------------------------------------------------------------
(* Writing the Upload *)

\* One misbehaviour of the environment, while the budget lasts.
Fault(kind) ==
  /\ kind \in Env
  /\ faults < MaxFaults
  /\ faults' = faults + 1

\* What patchUploadByStatus' mutate function does to the request, in place.
Mutate(req, newPhase) ==
  [phase |-> newPhase, cancel |-> req.cancel,
   retry |-> IF newPhase \in {"UploadError", "CleanupFailed"}
               THEN req.retry + 1
             ELSE IF newPhase = "InProgress" /\ req.phase = "New" THEN 0
             ELSE req.retry]

\* The merge patch holds the fields in which old and new differ, no others.
MergePatch(cur, old, new) ==
  [phase |-> IF new.phase # old.phase THEN new.phase ELSE cur.phase,
   cancel |-> cur.cancel,
   retry |-> IF new.retry # old.retry THEN new.retry ELSE cur.retry]

\* The API server after one accepted PatchUpload call of req with newPhase.
Patched(req, newPhase) == MergePatch(upload, req, Mutate(req, newPhase))

\* A try of PatchUpload that reports an error.  The server may have applied
\* the patch (the answer was lost) or not; a patch of a deleted object always
\* fails.
PatchFails(req, newPhase) ==
  \/ /\ upload.phase = "Gone"
     /\ UNCHANGED <<upload, faults>>
  \/ /\ upload.phase # "Gone"
     /\ Fault("api")
     /\ \/ UNCHANGED upload
        \/ upload' = Patched(req, newPhase)

-----------------------------------------------------------------------------
(* triggerUploadCancellation, on thread t of node n *)

StartCanceler(n, t, o) ==
  IF registry[n] = None                       \* IsUploading is false
    THEN UNCHANGED canceler
    ELSE canceler' = [canceler EXCEPT ![n][t] =
                        [pc |-> "patch", req |-> o, tries |-> 0]]

\* The thread is free again; the worker has finished its queue item.
EndCanceler(n, t) ==
  /\ canceler' = [canceler EXCEPT ![n][t] = IdleCanceler]
  /\ worker' = IF t = "worker" THEN [worker EXCEPT ![n] = "idle"] ELSE worker

\* The request is the cached object itself: mutating it mutates the cache,
\* unless the informer has replaced the object meanwhile.
MutateCache(n, c) ==
  lister' = [lister EXCEPT ![n] = IF @ = c.req THEN Mutate(c.req, "Canceling")
                                  ELSE @]

CancelerPatch(n, t) ==
  LET c == canceler[n][t] IN
  /\ c.pc = "patch"
  /\ MutateCache(n, c)
  /\ \/ /\ upload.phase # "Gone"
        /\ upload' = Patched(c.req, "Canceling")
        /\ canceler' = [canceler EXCEPT ![n][t] = [c EXCEPT !.pc = "cancel"]]
        /\ UNCHANGED <<worker, faults>>
     \/ /\ PatchFails(c.req, "Canceling")
        /\ IF c.tries + 1 < PatchTries
             THEN /\ canceler' = [canceler EXCEPT ![n][t] =
                       [pc |-> "patch", req |-> Mutate(c.req, "Canceling"),
                        tries |-> c.tries + 1]]
                  /\ UNCHANGED worker
             ELSE EndCanceler(n, t)
  /\ UNCHANGED <<storeVars, lease, queued, moverVars, proc, up>>

\* DataMover.CancelUpload: call the registered function, drop the entry.  A
\* function left behind by a copy that is over cancels nothing.
CancelUpload(n, t) ==
  /\ canceler[n][t].pc = "cancel"
  /\ registry' = [registry EXCEPT ![n] = None]
  /\ ctxDone' = ctxDone \cup {g \in Goroutine : /\ g = registry[n]
                                                /\ proc[g].node = n
                                                /\ proc[g].pc = "copying"}
  /\ EndCanceler(n, t)
  /\ UNCHANGED <<upload, storeVars, lease, lister, queued, copyLock,
                 proc, envVars>>

-----------------------------------------------------------------------------
(* The informer and the queue of node n *)

\* Mutant: an upload that is running here is cancelled without being asked to.
EnqueueUploadItemCanceling(n, o) ==
  \/ /\ o.phase \in Processable
     /\ StartCanceler(n, "informer", o)
     /\ UNCHANGED <<upload, queued>>
  \/ /\ o.phase \in Processable
     /\ queued' = [queued EXCEPT ![n] = TRUE]
     /\ UNCHANGED <<upload, canceler>>

\* enqueueUploadItem on object o.  It is filtered out when it comes before the
\* NextRetryTimestamp of o, when a pod on another node uses the volume or when
\* that look-up fails; none of this is known to the model, so it may happen.
EnqueueUploadItem(n, o) ==
  \/ /\ o.phase \in Processable /\ o.cancel
     /\ StartCanceler(n, "informer", o)
     /\ UNCHANGED <<upload, queued>>
  \/ /\ o.phase \in Processable /\ ~o.cancel
     /\ queued' = [queued EXCEPT ![n] = TRUE]
     /\ UNCHANGED <<upload, canceler>>
  \/ /\ o.phase = "Completed"                   \* the clean up window is over
     /\ upload' = NoUpload
     /\ UNCHANGED <<queued, canceler>>
  \/ UNCHANGED <<upload, queued, canceler>>     \* filtered out, or skipped

\* The watch brings the informer's cache up to date.
DeliverEvent(n) ==
  /\ n \in up /\ lister[n] # upload
  /\ lister' = [lister EXCEPT ![n] = upload]
  /\ UNCHANGED <<upload, storeVars, lease, queued, worker, canceler,
                 moverVars, proc, envVars>>

\* The handler runs on the cached object, for an event or at a resync (every
\* ResyncPeriod), unless it is still busy with a cancellation.
HandleEvent(n) ==
  /\ n \in up
  /\ canceler[n]["informer"].pc = "idle"
  /\ lister[n].phase # "Gone"
  /\ EnqueueUploadItem(n, lister[n])
  /\ UNCHANGED <<storeVars, lease, lister, worker, moverVars, proc, envVars>>

\* processNextWorkItem and processUploadItem up to the election.
ProcessUploadItem(n) ==
  LET o == lister[n] IN
  /\ n \in up /\ worker[n] = "idle" /\ queued[n]
  /\ queued' = [queued EXCEPT ![n] = FALSE]
  /\ \/ /\ o.phase \notin Processable
        /\ UNCHANGED <<worker, canceler>>
     \/ /\ o.phase \in Processable /\ o.cancel
        /\ StartCanceler(n, "worker", o)
        /\ worker' = [worker EXCEPT ![n] =
                        IF registry[n] = None THEN "idle" ELSE "canceling"]
     \/ /\ o.phase \in Processable /\ ~o.cancel
        /\ worker' = [worker EXCEPT ![n] = "electing"]
        /\ UNCHANGED canceler
  /\ UNCHANGED <<upload, storeVars, lease, lister, moverVars, proc,
                 envVars>>

-----------------------------------------------------------------------------
(* leaderelection.RunOrDie (client-go) as processUploadItem uses it *)

\* The holder's elector renews the lease as long as it runs.
Renewing(m) == m # None /\ worker[m] \in Goroutine

\* Mutant: processing does not wait for the lease.
MayLeadAlways(n) == TRUE

\* The lease is free, already this node's (ReleaseOnCancel is false, so it
\* stays with the node) or has not been renewed in time.
MayLead(n) == lease = n \/ ~Renewing(lease)

OnStartedLeading(n, g) ==
  /\ worker[n] = "electing"
  /\ proc[g].pc = "idle"
  /\ MayLead(n)
  /\ lease' = n
  /\ worker' = [worker EXCEPT ![n] = g]
  /\ proc' = [proc EXCEPT ![g] = At(n, "get", NoUpload)]
  /\ UNCHANGED <<upload, storeVars, lister, queued, canceler,
                 moverVars, envVars>>

\* OnNewLeader: a new elector first takes another node's record for valid,
\* reports that node as the leader, and the callback ends the election.
OnNewLeader(n) ==
  /\ worker[n] = "electing"
  /\ lease \notin {n, None}
  /\ worker' = [worker EXCEPT ![n] = "idle"]
  /\ UNCHANGED <<upload, storeVars, lease, lister, queued, canceler,
                 moverVars, proc, envVars>>

\* The lease is not renewed within RenewDeadline: RunOrDie returns, the item
\* ends without an error, the goroutine goes on.
LoseLease(n) ==
  /\ worker[n] \in Goroutine
  /\ Fault("lease")
  /\ worker' = [worker EXCEPT ![n] = "idle"]
  /\ UNCHANGED <<upload, storeVars, lease, lister, queued, canceler,
                 moverVars, proc, up>>

-----------------------------------------------------------------------------
(* processUpload in goroutine g *)

\* processUpload returns; a worker still waiting for it finishes its item,
\* and an error puts the key back (exponentialBackoffHandler).
Return(g, err) ==
  LET n == proc[g].node
      awaited == worker[n] = g
  IN  /\ proc' = [proc EXCEPT ![g] = IdleProc]
      /\ ctxDone' = ctxDone \ {g}
      /\ worker' = IF awaited THEN [worker EXCEPT ![n] = "idle"] ELSE worker
      /\ queued' = IF awaited /\ err /\ lister[n].phase # "Gone"
                     THEN [queued EXCEPT ![n] = TRUE] ELSE queued

\* Go on at pc with the object req.
GoTo(g, pc, req) == proc' = [proc EXCEPT ![g] = At(@.node, pc, req)]

\* Go on to patchUploadByStatusWithRetry(req, newPhase); when quiet, its
\* error is only logged.
StartPatch(g, req, newPhase, quiet) ==
  proc' = [proc EXCEPT ![g] = Patching(@.node, req, newPhase, 0, quiet)]

\* Where processUpload goes with a request that need not be, or has been,
\* patched to InProgress.
WorkPC(req) == IF req.phase = "CleanupFailed" THEN "cleanup" ELSE "copy"

GetUpload(g) ==
  /\ proc[g].pc = "get"
  /\ \/ /\ \/ upload.phase = "Gone" /\ UNCHANGED faults
           \/ Fault("api")
        /\ Return(g, TRUE)
     \/ /\ upload.phase \in Skipped
        /\ Return(g, FALSE)
        /\ UNCHANGED faults
     \/ /\ upload.phase \in {"InProgress", "CleanupFailed"}
        /\ GoTo(g, WorkPC(upload), upload)
        /\ UNCHANGED <<ctxDone, worker, queued, faults>>
     \/ /\ upload.phase \notin Skipped \cup {"InProgress", "CleanupFailed", "Gone"}
        /\ StartPatch(g, upload, "InProgress", FALSE)
        /\ UNCHANGED <<ctxDone, worker, queued, faults>>
  /\ UNCHANGED <<upload, storeVars, lease, lister, canceler,
                 registry, copyLock, up>>

\* One try of patchUploadByStatus.  After a failed try the request stays
\* mutated, so the next try's patch no longer holds the phase.
PatchUploadByStatus(g) ==
  LET p == proc[g]
      req == Mutate(p.req, p.want)
      err == p.want \in {"UploadError", "CleanupFailed"}
  IN
  /\ p.pc = "patch"
  /\ \/ /\ upload.phase # "Gone"
        /\ upload' = Patched(p.req, p.want)
        /\ UNCHANGED faults
        /\ IF p.want = "InProgress"
             THEN /\ GoTo(g, WorkPC(upload'), upload')
                  /\ UNCHANGED <<ctxDone, worker, queued>>
             ELSE Return(g, err)
     \/ /\ PatchFails(p.req, p.want)
        /\ IF p.tries + 1 < PatchTries
             THEN /\ proc' = [proc EXCEPT ![g] =
                       Patching(p.node, req, p.want, p.tries + 1, p.quiet)]
                  /\ UNCHANGED <<ctxDone, worker, queued>>
             ELSE Return(g, err \/ ~p.quiet)
  /\ UNCHANGED <<storeVars, lease, lister, canceler, registry, copyLock,
                 up>>

\* The BackupRepository cannot be read: return the error, patch nothing.
GetBackupRepositoryFails(g) ==
  /\ proc[g].pc = "copy"
  /\ Fault("api")
  /\ Return(g, TRUE)
  /\ UNCHANGED <<upload, storeVars, lease, lister, canceler,
                 registry, copyLock, up>>

\* Mutant: the error is logged and the upload goes on as if copied.
CopyErrorIgnored(g) ==
  /\ GoTo(g, "unregister", proc[g].req)
  /\ UNCHANGED gaveUp

\* CopyToRepo returned an error other than context.Canceled.
CopyError(g) ==
  IF proc[g].req.retry < UploadCRRetryMaximum
    THEN StartPatch(g, proc[g].req, "UploadError", FALSE) /\ UNCHANGED gaveUp
    ELSE GoTo(g, "giveup", proc[g].req) /\ gaveUp' = TRUE

\* Mutant: the copy cannot be found by a cancellation.
RegisterNothing(n, g) == UNCHANGED registry

\* Store g's cancel function, over whatever entry is there.
RegisterOngoingUpload(n, g) == registry' = [registry EXCEPT ![n] = g]

\* copyToRepo: take reloadConfigLock, open the repository and the local
\* entity (either may fail, before anything is registered), register the
\* cancel function, and start the copy.
CopyToRepo(g) ==
  LET n == proc[g].node IN
  /\ proc[g].pc = "copy"
  /\ copyLock[n] = None
  /\ \/ /\ Fault("copy")
        /\ CopyError(g)
        /\ UNCHANGED <<registry, copyLock>>
     \/ /\ copyLock' = [copyLock EXCEPT ![n] = g]
        /\ RegisterOngoingUpload(n, g)
        /\ GoTo(g, "copying", proc[g].req)
        /\ UNCHANGED <<gaveUp, faults>>
  /\ UNCHANGED <<upload, local, remote, lease, nodeVars, ctxDone, up>>

\* The copy returns and the lock is released.  Without the local snapshot
\* there is nothing left to copy; a cancelled copy may still end otherwise.
CopyReturns(g) ==
  /\ proc[g].pc = "copying"
  /\ copyLock' = [copyLock EXCEPT ![proc[g].node] = None]
  /\ \/ /\ local
        /\ remote' = TRUE
        /\ GoTo(g, "unregister", proc[g].req)
        /\ UNCHANGED <<gaveUp, faults>>
     \/ /\ g \in ctxDone
        /\ StartPatch(g, proc[g].req, "Canceled", FALSE)
        /\ UNCHANGED <<remote, gaveUp, faults>>
     \/ /\ \/ ~local /\ UNCHANGED faults
           \/ Fault("copy")
        /\ CopyError(g)
        /\ UNCHANGED remote
  /\ UNCHANGED <<upload, local, lease, nodeVars, registry, ctxDone, up>>

UnregisterOngoingUpload(g) ==
  /\ proc[g].pc = "unregister"
  /\ registry' = [registry EXCEPT ![proc[g].node] = None]
  /\ GoTo(g, "deletelocal", proc[g].req)
  /\ UNCHANGED <<upload, storeVars, lease, nodeVars, copyLock, ctxDone,
                 envVars>>

\* Mutant: a failed deletion is taken for a success.
AfterCleanupIgnoringError(pc, ok) ==
  IF pc = "giveup" THEN "UploadFailedAfterRetry" ELSE "Completed"

\* The phase reported after DeleteLocalSnapshot was called at pc.
AfterCleanup(pc, ok) ==
  IF ~ok THEN "CleanupFailed"
  ELSE IF pc = "giveup" THEN "UploadFailedAfterRetry" ELSE "Completed"

\* snapMgr.DeleteLocalSnapshot at its three call sites: the retried cleanup,
\* after a copy, and after the last failed copy.  Deleting a snapshot that is
\* not there succeeds; a failed deletion may have removed it.
DeleteLocalSnapshot(g) ==
  LET pc == proc[g].pc IN
  /\ pc \in {"cleanup", "deletelocal", "giveup"}
  /\ \/ /\ local' = FALSE
        /\ StartPatch(g, proc[g].req, AfterCleanup(pc, TRUE), pc # "deletelocal")
        /\ UNCHANGED faults
     \/ /\ Fault("cleanup")
        /\ local' \in {local, FALSE}
        /\ StartPatch(g, proc[g].req, AfterCleanup(pc, FALSE), FALSE)
  /\ UNCHANGED <<upload, remote, gaveUp, lease, nodeVars, moverVars,
                 up>>

-----------------------------------------------------------------------------
(* The environment *)

\* SnapshotManager.deleteSnapshot found the upload unfinished and asks for its
\* cancellation.  It looked at the phase in an earlier read, so the request may
\* meet any phase.
RequestCancel ==
  /\ "cancel" \in Env
  /\ upload.phase # "Gone" /\ ~upload.cancel
  /\ upload' = [upload EXCEPT !.cancel = TRUE]
  /\ UNCHANGED <<storeVars, lease, lister, queued, worker, canceler,
                 moverVars, proc, envVars>>

\* The data manager of n dies with all its goroutines; the lease object
\* still names n.
Crash(n) ==
  LET dead == {g \in Goroutine : proc[g].node = n} IN
  /\ n \in up
  /\ Fault("crash")
  /\ up' = up \ {n}
  /\ lister' = [lister EXCEPT ![n] = NoUpload]
  /\ queued' = [queued EXCEPT ![n] = FALSE]
  /\ worker' = [worker EXCEPT ![n] = "idle"]
  /\ canceler' = [canceler EXCEPT ![n] = [t \in Thread |-> IdleCanceler]]
  /\ registry' = [registry EXCEPT ![n] = None]
  /\ copyLock' = [copyLock EXCEPT ![n] = None]
  /\ ctxDone' = ctxDone \ dead
  /\ proc' = [g \in Goroutine |-> IF g \in dead THEN IdleProc ELSE proc[g]]
  /\ UNCHANGED <<upload, storeVars, lease>>

Restart(n) ==
  /\ n \in Node \ up
  /\ up' = up \cup {n}
  /\ UNCHANGED <<upload, storeVars, lease, nodeVars, moverVars, proc, faults>>

ProcessUpload(g) ==
  \/ GetUpload(g) \/ PatchUploadByStatus(g) \/ GetBackupRepositoryFails(g)
  \/ CopyToRepo(g) \/ CopyReturns(g) \/ UnregisterOngoingUpload(g)
  \/ DeleteLocalSnapshot(g)

TriggerUploadCancellation(n, t) == CancelerPatch(n, t) \/ CancelUpload(n, t)

Elect(n) == OnNewLeader(n) \/ \E g \in Goroutine : OnStartedLeading(n, g)

Next ==
  \/ \E n \in Node :
       \/ DeliverEvent(n) \/ HandleEvent(n) \/ ProcessUploadItem(n)
       \/ Elect(n) \/ LoseLease(n) \/ Crash(n) \/ Restart(n)
       \/ \E t \in Thread : TriggerUploadCancellation(n, t)
  \/ \E g \in Goroutine : ProcessUpload(g)
  \/ RequestCancel

Spec == Init /\ [][Next]_vars

\* What the scheduling of the code guarantees.  The watch, the worker, the
\* election and the goroutines make progress; a resync comes back until it is
\* not filtered out; a cancelling thread goes on; the daemon set restarts a
\* data manager that died.  Nothing forces an environment fault, and an
\* election that can end in either way may always end in the same one.
FairSpec ==
  /\ Spec
  /\ \A n \in Node :
       /\ WF_vars(DeliverEvent(n))
       /\ WF_vars(HandleEvent(n) /\ <<queued, canceler>>' # <<queued, canceler>>)
       /\ WF_vars(ProcessUploadItem(n))
       /\ WF_vars(Elect(n))
       /\ \A t \in Thread : WF_vars(TriggerUploadCancellation(n, t))
       /\ WF_vars(Restart(n))
  /\ \A g \in Goroutine : WF_vars(ProcessUpload(g))

-----------------------------------------------------------------------------
(* Properties *)

Running(g) == proc[g].pc # "idle"

\* No volume data is lost: the local snapshot is deleted only once the
\* repository holds a complete copy or a copy failed with the retries
\* exhausted, whatever crashes, lost leases, repeated patches and concurrent
\* goroutines come in between (processUpload's three DeleteLocalSnapshot calls).
LocalKeptUntilSafe == ~local => remote \/ gaveUp

\* An upload reported as Completed, as failed after its retries, or removed by
\* the clean up, has no local snapshot left, and the reason is known: a copy
\* was made or the retries were used up.  CleanupFailed, from which the next
\* step deletes the snapshot, is only reported for the same reasons.
ReportedPhaseIsTrue ==
  /\ upload.phase \in {"Completed", "UploadFailedAfterRetry", "Gone"} => ~local
  /\ upload.phase = "UploadFailedAfterRetry" => gaveUp
  /\ upload.phase \in {"Completed", "CleanupFailed"} => remote \/ gaveUp

\* While no lease is lost, the lease and the one worker per node keep all but
\* one processUpload call in the cluster from running.
OneProcessor ==
  \A g, h \in Goroutine : Running(g) /\ Running(h) => g = h

\* While no lease is lost, a copy that has not been cancelled can be: its
\* node's registry holds its own cancel function, not an older one.
CancelableCopy ==
  \A g \in Goroutine :
    proc[g].pc = "copying" /\ g \notin ctxDone => registry[proc[g].node] = g

\* While no lease is lost, an upload reported as Canceled is not being copied.
CanceledMeansStopped ==
  upload.phase = "Canceled" => \A g \in Goroutine : proc[g].pc # "copying"

\* Nobody asks for a cancellation: the upload ends, through crashes, failed
\* copies and failed patches, in Completed or UploadFailedAfterRetry.
Settles ==
  <>[](upload.phase \in {"Completed", "UploadFailedAfterRetry", "Gone"})

Contract == INSTANCE UploadContract
              WITH phase <- upload.phase, cancel <- upload.cancel

\* The controllers implement the contract they have with the backup driver:
\* every step copies, gives up, drops the local snapshot, or reports a phase
\* only when the contract allows it.
ImplementsContract == Contract!Spec

=============================================================================
