-------------------------- MODULE DownloadController --------------------------
(***************************************************************************)
(* One Download custom resource: SnapshotManager.CreateVolumeFromSnapshot  *)
(* creates it and waits for its end (pkg/snapshotmgr/snapshot_manager.go), *)
(* the download controllers of the data managers, one per node, process it *)
(* (pkg/controller/download_controller.go) and the data mover copies the   *)
(* snapshot out of the repository (pkg/dataMover/data_mover.go), into a    *)
(* new volume or over the one that the Download names.                     *)
(*                                                                         *)
(* Informer, queue, election and goroutine are those of UploadController;  *)
(* a download has no cancellation and no local snapshot.                   *)
(***************************************************************************)
EXTENDS Naturals, Environment

CONSTANTS
  Node,              \* nodes that run a data manager
  Goroutine,         \* slots for concurrently running processDownload calls
  None,              \* no node, no volume
  DOWNLOAD_MAX_RETRY,
  Tries              \* tries of one creation or patch (constants.RetryMaximum)

ASSUME DownloadAssumption ==
  /\ None \notin Node /\ None \notin Nat
  /\ "idle" \notin Goroutine /\ "electing" \notin Goroutine
  /\ DOWNLOAD_MAX_RETRY \in Nat
  /\ Tries \in Nat \ {0}

VARIABLES
  overwrite, \* Spec.ProtectedEntityID is given: copy over that volume
  download,  \* the Download held by the API server
  caller,    \* the progress of CreateVolumeFromSnapshot
  created,   \* number of volumes the copies have provisioned
  complete,  \* the volumes that hold the whole snapshot
  lease,     \* holder named by the lease object "download-lease.<name>"
  up,        \* nodes whose data manager is running
  lister,    \* [Node -> Download], the informers' caches
  queued,    \* [Node -> BOOLEAN], the key is in the queue, waiting or delayed
  worker,    \* [Node -> "idle" | "electing" | the goroutine it waits for]
  proc       \* [Goroutine -> processDownload's progress]

volumeVars == <<overwrite, created, complete>>
nodeVars == <<lister, queued, worker>>
vars == <<overwrite, download, caller, created, complete, lease, up, lister,
          queued, worker, proc, faults>>

-----------------------------------------------------------------------------
(* Data *)

DownloadPhase == {"New", "InProgress", "Completed", "Retry", "Failed"}

\* Provisioned volumes are numbered from 1; the target of an overwrite is 0.
Volume == Nat
Target == 0

\* "Gone" stands for an object that is not there.
Download == [phase : DownloadPhase \cup {"Gone"}, retry : Nat,
             volumeID : Volume \cup {None}]

DownloadIn(phase, retry, volumeID) ==
  [phase |-> phase, retry |-> retry, volumeID |-> volumeID]

NoDownload == DownloadIn("Gone", 0, None)

\* As built by CreateVolumeFromSnapshot.
NewDownload == DownloadIn("New", 0, None)

\* Mutant: a download that a dead data manager left behind is forgotten.
ProcessableNotInProgress == {"New", "Retry"}

\* The phases the handlers let through to processing.
Processable == {"New", "InProgress", "Retry"}

\* The phases processDownload skips after its fresh read.
Skipped == {"Completed"}

\* processDownload: its node, where it is, its copy of the object, the volume
\* being written, and, while it patches, the new phase and the failed tries.
ProcState == [node : Node \cup {None},
              pc : {"idle", "get", "patch", "copy", "copying"},
              req : Download, want : DownloadPhase,
              vol : Volume \cup {None}, tries : Nat]

At(n, pc, req, vol) == [node |-> n, pc |-> pc, req |-> req, want |-> "New",
                        vol |-> vol, tries |-> 0]

Patching(n, req, newPhase, vol, tries) ==
  [node |-> n, pc |-> "patch", req |-> req, want |-> newPhase, vol |-> vol,
   tries |-> tries]

IdleProc == At(None, "idle", NoDownload, None)

\* CreateVolumeFromSnapshot: creating, polling, updating the CloneFromSnapshot,
\* returned with a volume, returned with an error.
CallerState == [pc : {"create", "poll", "clone", "done", "error"},
                vol : Volume \cup {None}, tries : Nat]

Caller(pc, vol) == [pc |-> pc, vol |-> vol, tries |-> 0]

TypeOK ==
  /\ overwrite \in BOOLEAN
  /\ download \in Download
  /\ caller \in CallerState
  /\ created \in Nat
  /\ complete \subseteq Volume
  /\ lease \in Node \cup {None}
  /\ up \subseteq Node
  /\ lister \in [Node -> Download]
  /\ queued \in [Node -> BOOLEAN]
  /\ worker \in [Node -> {"idle", "electing"} \cup Goroutine]
  /\ proc \in [Goroutine -> ProcState]
  /\ FaultsOK

Init ==
  /\ overwrite \in BOOLEAN
  /\ download = NoDownload
  /\ caller = Caller("create", None)
  /\ created = 0 /\ complete = {}
  /\ lease = None
  /\ up = Node
  /\ lister = [n \in Node |-> NoDownload]
  /\ queued = [n \in Node |-> FALSE]
  /\ worker = [n \in Node |-> "idle"]
  /\ proc = [g \in Goroutine |-> IdleProc]
  /\ NoFaults

-----------------------------------------------------------------------------
(* SnapshotManager.CreateVolumeFromSnapshot, run by the backup driver *)

\* One try to create the Download.  It fails when the request or its answer is
\* lost, and when the object is already there.
CreateDownload ==
  /\ caller.pc = "create"
  /\ \/ /\ download.phase = "Gone"
        /\ download' = NewDownload
        /\ caller' = Caller("poll", None)
        /\ UNCHANGED faults
     \/ /\ \/ download.phase # "Gone" /\ UNCHANGED <<download, faults>>
           \/ /\ download.phase = "Gone"
              /\ Fault("api")
              /\ download' \in {download, NewDownload}
        /\ caller' = IF caller.tries + 1 < Tries
                       THEN [pc |-> "create", vol |-> None,
                             tries |-> caller.tries + 1]
                       ELSE Caller("error", None)
  /\ UNCHANGED <<volumeVars, lease, up, nodeVars, proc>>

\* A poll that ends the waiting; any other, a failing one included, repeats.
PollDownload ==
  /\ caller.pc = "poll"
  /\ \/ /\ download.phase = "Completed"
        /\ caller' = Caller("clone", download.volumeID)
     \/ /\ download.phase = "Failed"
        /\ caller' = Caller("error", None)
  /\ UNCHANGED <<volumeVars, download, lease, up, nodeVars, proc, faults>>

\* The CloneFromSnapshot is read and its status updated; either may fail, and
\* then the volume is returned together with an error.
UpdateClone ==
  /\ caller.pc = "clone"
  /\ \/ /\ caller' = Caller("done", caller.vol)
        /\ UNCHANGED faults
     \/ /\ Fault("api")
        /\ caller' = Caller("error", caller.vol)
  /\ UNCHANGED <<volumeVars, download, lease, up, nodeVars, proc>>

-----------------------------------------------------------------------------
(* The informer and the queue of node n *)

\* The watch brings the informer's cache up to date.
DeliverEvent(n) ==
  /\ n \in up /\ lister[n] # download
  /\ lister' = [lister EXCEPT ![n] = download]
  /\ UNCHANGED <<volumeVars, download, caller, lease, up, queued, worker, proc,
                 faults>>

\* enqueueDownloadItem on the cached object, for an event or at a resync.  A
\* download that comes before its NextRetryTimestamp is filtered out: no step.
\* CreateVolumeFromSnapshot polls every second, so it has seen a Completed
\* download long before the clean up window is over.
EnqueueDownloadItem(n) ==
  /\ n \in up
  /\ \/ /\ lister[n].phase \in Processable
        /\ queued' = [queued EXCEPT ![n] = TRUE]
        /\ UNCHANGED download
     \/ /\ lister[n].phase = "Completed" /\ caller.pc # "poll"
        /\ download' = NoDownload
        /\ UNCHANGED queued
  /\ UNCHANGED <<volumeVars, caller, lease, up, lister, worker, proc, faults>>

\* processNextWorkItem and processDownloadItem up to the election.
ProcessDownloadItem(n) ==
  /\ n \in up /\ worker[n] = "idle" /\ queued[n]
  /\ queued' = [queued EXCEPT ![n] = FALSE]
  /\ worker' = IF lister[n].phase \in Processable
                 THEN [worker EXCEPT ![n] = "electing"] ELSE worker
  /\ UNCHANGED <<volumeVars, download, caller, lease, up, lister, proc, faults>>

-----------------------------------------------------------------------------
(* leaderelection.RunOrDie (client-go) as processDownloadItem uses it *)

\* The holder's elector renews the lease as long as it runs.
Renewing(m) == m # None /\ worker[m] \in Goroutine

\* Mutant: processing does not wait for the lease.
MayLeadAlways(n) == TRUE

\* The lease is free, already this node's, or not renewed in time.
MayLead(n) == lease = n \/ ~Renewing(lease)

\* A new goroutine takes any free slot; which one makes no difference.
FreeSlots == {g \in Goroutine : proc[g].pc = "idle"}

OnStartedLeading(n) ==
  /\ worker[n] = "electing"
  /\ FreeSlots # {}
  /\ MayLead(n)
  /\ lease' = n
  /\ LET g == CHOOSE h \in FreeSlots : TRUE
     IN /\ worker' = [worker EXCEPT ![n] = g]
        /\ proc' = [proc EXCEPT ![g] = At(n, "get", NoDownload, None)]
  /\ UNCHANGED <<volumeVars, download, caller, up, lister, queued, faults>>

\* OnNewLeader: the lease object names another node, and the callback ends
\* the election.
OnNewLeader(n) ==
  /\ worker[n] = "electing"
  /\ lease \notin {n, None}
  /\ worker' = [worker EXCEPT ![n] = "idle"]
  /\ UNCHANGED <<volumeVars, download, caller, lease, up, lister, queued, proc,
                 faults>>

\* The lease is not renewed in time: the item ends without an error, the
\* goroutine goes on.
LoseLease(n) ==
  /\ worker[n] \in Goroutine
  /\ Fault("lease")
  /\ worker' = [worker EXCEPT ![n] = "idle"]
  /\ UNCHANGED <<volumeVars, download, caller, lease, up, lister, queued, proc>>

-----------------------------------------------------------------------------
(* processDownload in goroutine g *)

\* processDownload returns; a worker still waiting for it finishes its item,
\* and an error puts the key back (reEnqueueHandler).
Return(g, err) ==
  LET n == proc[g].node
      awaited == worker[n] = g
  IN  /\ proc' = [proc EXCEPT ![g] = IdleProc]
      /\ worker' = IF awaited THEN [worker EXCEPT ![n] = "idle"] ELSE worker
      /\ queued' = IF awaited /\ err THEN [queued EXCEPT ![n] = TRUE] ELSE queued

GetDownload(g) ==
  LET n == proc[g].node IN
  /\ proc[g].pc = "get"
  /\ \/ /\ \/ download.phase = "Gone" /\ UNCHANGED faults
           \/ Fault("api")
        /\ Return(g, TRUE)
     \/ /\ download.phase \in Skipped
        /\ Return(g, FALSE)
        /\ UNCHANGED faults
     \/ /\ download.phase \notin Skipped \cup {"Gone"}
        /\ proc' = [proc EXCEPT ![g] =
             IF download.phase = "InProgress"
               THEN At(n, "copy", download, None)
               ELSE Patching(n, download, "InProgress", None, 0)]
        /\ UNCHANGED <<worker, queued, faults>>
  /\ UNCHANGED <<volumeVars, download, caller, lease, up, lister>>

\* What patchDownloadByStatus' mutate functions do to the request, in place.
Mutate(req, newPhase, vol) ==
  CASE newPhase = "Completed" -> DownloadIn("Completed", req.retry, vol)
    [] newPhase = "InProgress" ->
         DownloadIn("InProgress", IF req.phase = "New" THEN 0 ELSE req.retry,
                    req.volumeID)
    [] newPhase = "Retry" /\ req.retry > DOWNLOAD_MAX_RETRY ->
         DownloadIn("Failed", req.retry, req.volumeID)
    [] OTHER -> DownloadIn("Retry", req.retry + 1, req.volumeID)

\* The merge patch holds the fields in which old and new differ, no others.
MergePatch(cur, old, new) ==
  DownloadIn(IF new.phase # old.phase THEN new.phase ELSE cur.phase,
             IF new.retry # old.retry THEN new.retry ELSE cur.retry,
             IF new.volumeID # old.volumeID THEN new.volumeID
                                            ELSE cur.volumeID)

\* One try of patchDownloadByStatus.  A failed try may have been applied, and
\* leaves the request mutated: the next try's patch no longer holds the phase,
\* and goes from Retry to Failed once the retries are counted up.
PatchDownloadByStatus(g) ==
  LET p == proc[g]
      req == Mutate(p.req, p.want, p.vol)
      patched == MergePatch(download, p.req, req)
  IN
  /\ p.pc = "patch"
  /\ \/ /\ download.phase # "Gone"
        /\ download' = patched
        /\ UNCHANGED faults
        /\ IF p.want = "InProgress"
             THEN /\ proc' = [proc EXCEPT ![g] = At(p.node, "copy", patched, None)]
                  /\ UNCHANGED <<worker, queued>>
             ELSE Return(g, p.want = "Retry")
     \/ /\ \/ download.phase = "Gone" /\ UNCHANGED <<download, faults>>
           \/ /\ download.phase # "Gone"
              /\ Fault("api")
              /\ download' \in {download, patched}
        /\ IF p.tries + 1 < Tries
             THEN /\ proc' = [proc EXCEPT ![g] =
                       Patching(p.node, req, p.want, p.vol, p.tries + 1)]
                  /\ UNCHANGED <<worker, queued>>
             ELSE Return(g, TRUE)
  /\ UNCHANGED <<volumeVars, caller, lease, up, lister>>

StartPatch(g, newPhase, vol) ==
  proc' = [proc EXCEPT ![g] = Patching(@.node, @.req, newPhase, vol, 0)]

\* The BackupRepository cannot be read: return the error, patch nothing.
GetBackupRepositoryFails(g) ==
  /\ proc[g].pc = "copy"
  /\ Fault("api")
  /\ Return(g, TRUE)
  /\ UNCHANGED <<volumeVars, download, caller, lease, up, lister>>

\* CopyFromRepo, which holds reloadConfigLock throughout: it fails before it
\* writes anything, or provisions a volume or starts to overwrite the target.
CopyFromRepo(g) ==
  LET n == proc[g].node
      vol == IF overwrite THEN Target ELSE created + 1
  IN
  /\ proc[g].pc = "copy"
  /\ \A h \in Goroutine : proc[h].pc = "copying" => proc[h].node # n
  /\ \/ /\ Fault("copy")
        /\ StartPatch(g, "Retry", None)
        /\ UNCHANGED <<created, complete>>
     \/ /\ created' = IF overwrite THEN created ELSE created + 1
        /\ complete' = complete \ {vol}
        /\ proc' = [proc EXCEPT ![g] = At(n, "copying", @.req, vol)]
        /\ UNCHANGED faults
  /\ UNCHANGED <<overwrite, download, caller, lease, up, nodeVars>>

\* Mutant: an error of the copy goes unnoticed.
CopyReturnsIgnoringError(g) ==
  /\ proc[g].pc = "copying"
  /\ \/ complete' = complete \cup {proc[g].vol} /\ UNCHANGED faults
     \/ Fault("copy") /\ UNCHANGED complete
  /\ StartPatch(g, "Completed", proc[g].vol)
  /\ UNCHANGED <<overwrite, created, download, caller, lease, up, nodeVars>>

\* The copy returns.  After an error the half-written volume stays.
CopyReturns(g) ==
  /\ proc[g].pc = "copying"
  /\ \/ /\ complete' = complete \cup {proc[g].vol}
        /\ StartPatch(g, "Completed", proc[g].vol)
        /\ UNCHANGED faults
     \/ /\ Fault("copy")
        /\ StartPatch(g, "Retry", None)
        /\ UNCHANGED complete
  /\ UNCHANGED <<overwrite, created, download, caller, lease, up, nodeVars>>

ProcessDownload(g) ==
  \/ GetDownload(g) \/ PatchDownloadByStatus(g) \/ GetBackupRepositoryFails(g)
  \/ CopyFromRepo(g) \/ CopyReturns(g)

-----------------------------------------------------------------------------
(* The environment *)

\* The data manager of n dies with all its goroutines; the lease object still
\* names n.
Crash(n) ==
  /\ n \in up
  /\ Fault("crash")
  /\ up' = up \ {n}
  /\ lister' = [lister EXCEPT ![n] = NoDownload]
  /\ queued' = [queued EXCEPT ![n] = FALSE]
  /\ worker' = [worker EXCEPT ![n] = "idle"]
  /\ proc' = [g \in Goroutine |-> IF proc[g].node = n THEN IdleProc ELSE proc[g]]
  /\ UNCHANGED <<volumeVars, download, caller, lease>>

Restart(n) ==
  /\ n \in Node \ up
  /\ up' = up \cup {n}
  /\ UNCHANGED <<volumeVars, download, caller, lease, nodeVars, proc, faults>>

CreateVolumeFromSnapshot == CreateDownload \/ PollDownload \/ UpdateClone

Elect(n) == OnNewLeader(n) \/ OnStartedLeading(n)

Next ==
  \/ CreateVolumeFromSnapshot
  \/ \E n \in Node :
       \/ DeliverEvent(n) \/ EnqueueDownloadItem(n) \/ ProcessDownloadItem(n)
       \/ Elect(n) \/ LoseLease(n) \/ Crash(n) \/ Restart(n)
  \/ \E g \in Goroutine : ProcessDownload(g)

Spec == Init /\ [][Next]_vars

\* The caller, the watch, the resync, the worker, the election and the
\* goroutines make progress, and the daemon set restarts a data manager that
\* died.  Nothing forces a fault.
Fairness ==
  /\ WF_vars(CreateVolumeFromSnapshot)
  /\ \A n \in Node :
       /\ WF_vars(DeliverEvent(n))
       /\ WF_vars(EnqueueDownloadItem(n))
       /\ WF_vars(ProcessDownloadItem(n))
       /\ WF_vars(Elect(n))
       /\ WF_vars(Restart(n))
  /\ \A g \in Goroutine : WF_vars(ProcessDownload(g))

-----------------------------------------------------------------------------
(* Properties *)

\* As long as no lease is lost, CreateVolumeFromSnapshot returns a volume that
\* holds the whole snapshot, and nobody writes to it any more: no second copy,
\* retried after a lost patch or a crash, goes over a volume already in use.
VolumeReady ==
  ~Happened("lease") /\ caller.pc = "done" => caller.vol \in complete

\* Even when leases are lost and copies overlap, a new volume that a Completed
\* download names, or that the caller got, holds the whole snapshot.
NewVolumeHasData ==
  ~overwrite =>
    /\ download.phase = "Completed" => download.volumeID \in complete
    /\ caller.pc \in {"clone", "done"} => caller.vol \in complete

\* The caller does not wait for ever: through crashes, lost leases, failed
\* copies and failed patches it gets a volume or an error.
CallerReturns == <>(caller.pc \in {"done", "error"})

=============================================================================
