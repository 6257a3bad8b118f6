---------------------------- MODULE DownloadProofs ----------------------------
(***************************************************************************)
(* Proofs about DownloadController, for any nodes, number of goroutines,   *)
(* retries and faults.                                                     *)
(***************************************************************************)
EXTENDS DownloadController, TLAPS

USE DEF Volume, Target

-----------------------------------------------------------------------------
(* Types *)

\* A fault is counted and remembered.
LEMMA FaultType ==
  ASSUME TypeOK, NEW kind, Fault(kind)
  PROVE  FaultsOK'
BY DEF TypeOK, FaultsOK, Fault

\* The objects that are made have their types.
LEMMA MadeType ==
  /\ NoDownload \in Download /\ NewDownload \in Download
  /\ IdleProc \in ProcState
  /\ \A n \in Node \cup {None}, pc \in {"idle", "get", "patch", "copy", "copying"},
        req \in Download, vol \in Nat \cup {None} : At(n, pc, req, vol) \in ProcState
  /\ \A n \in Node \cup {None}, req \in Download, want \in DownloadPhase,
        vol \in Nat \cup {None}, tries \in Nat : Patching(n, req, want, vol, tries) \in ProcState
BY DEF NoDownload, NewDownload, DownloadIn, Download, DownloadPhase, IdleProc, At, Patching, ProcState

\* Mutating a request gives a Download.
LEMMA MutateType ==
  ASSUME NEW req \in Download, NEW p \in DownloadPhase, NEW vol \in Nat \cup {None}
  PROVE  Mutate(req, p, vol) \in Download
BY DEF Mutate, DownloadIn, Download, DownloadPhase

\* A merge patch of two Downloads, applied to a third, gives a Download.
LEMMA MergePatchType ==
  ASSUME NEW cur \in Download, NEW old \in Download, NEW new \in Download
  PROVE  MergePatch(cur, old, new) \in Download
BY DEF MergePatch, DownloadIn, Download

\* The initial state is well typed.
LEMMA InitType == Init => TypeOK
BY MadeType, DownloadAssumption DEF Init, TypeOK, NoFaults, FaultsOK, Caller, CallerState

\* Typing of what a goroutine's return changes.
LEMMA ReturnType ==
  ASSUME TypeOK, NEW g \in Goroutine, NEW err \in BOOLEAN, Return(g, err)
  PROVE  /\ proc' \in [Goroutine -> ProcState]
         /\ worker' \in [Node -> {"idle", "electing"} \cup Goroutine]
         /\ queued' \in [Node -> BOOLEAN]
BY MadeType DEF Return, TypeOK

\* The steps of CreateVolumeFromSnapshot keep the types.
LEMMA CallerType == TypeOK /\ CreateVolumeFromSnapshot => TypeOK'
<1> SUFFICES ASSUME TypeOK, CreateVolumeFromSnapshot PROVE TypeOK'
  OBVIOUS
<1>1. caller' \in CallerState
  BY DEF TypeOK, CreateVolumeFromSnapshot, CreateDownload, PollDownload, UpdateClone, Caller,
         CallerState, Download
<1>2. download' \in Download
  BY MadeType DEF TypeOK, CreateVolumeFromSnapshot, CreateDownload, PollDownload, UpdateClone
<1>3. FaultsOK'
  BY FaultType DEF TypeOK, FaultsOK, CreateVolumeFromSnapshot, CreateDownload, PollDownload, UpdateClone
<1> QED
  BY <1>1, <1>2, <1>3 DEF TypeOK, CreateVolumeFromSnapshot, CreateDownload, PollDownload, UpdateClone,
                          volumeVars, nodeVars

\* The steps of a node keep the types.
LEMMA NodeType ==
  ASSUME TypeOK, NEW n \in Node,
         \/ DeliverEvent(n) \/ EnqueueDownloadItem(n) \/ ProcessDownloadItem(n)
         \/ Elect(n) \/ LoseLease(n) \/ Crash(n) \/ Restart(n)
  PROVE  TypeOK'
<1>1. CASE DeliverEvent(n)
  BY <1>1 DEF TypeOK, FaultsOK, DeliverEvent, volumeVars
<1>2. CASE EnqueueDownloadItem(n)
  BY <1>2, MadeType DEF TypeOK, FaultsOK, EnqueueDownloadItem, volumeVars
<1>3. CASE ProcessDownloadItem(n)
  BY <1>3 DEF TypeOK, FaultsOK, ProcessDownloadItem, volumeVars
<1>4. CASE OnNewLeader(n)
  BY <1>4 DEF TypeOK, FaultsOK, OnNewLeader, volumeVars
<1>5. CASE OnStartedLeading(n)
  <2>1. PICK g \in Goroutine : /\ worker' = [worker EXCEPT ![n] = g]
                               /\ proc' = [proc EXCEPT ![g] = At(n, "get", NoDownload, None)]
    <3>1. (CHOOSE h \in FreeSlots : TRUE) \in Goroutine
      BY <1>5 DEF OnStartedLeading, FreeSlots
    <3> QED
      BY <1>5, <3>1 DEF OnStartedLeading
  <2>2. proc' \in [Goroutine -> ProcState]
    BY <2>1, MadeType DEF TypeOK
  <2> QED
    BY <1>5, <2>1, <2>2 DEF TypeOK, FaultsOK, OnStartedLeading, volumeVars
<1>6. CASE LoseLease(n)
  BY <1>6, FaultType DEF TypeOK, LoseLease, volumeVars
<1>7. CASE Crash(n)
  BY <1>7, FaultType, MadeType DEF TypeOK, Crash, volumeVars
<1>8. CASE Restart(n)
  BY <1>8 DEF TypeOK, FaultsOK, Restart, volumeVars, nodeVars
<1> QED
  BY <1>1, <1>2, <1>3, <1>4, <1>5, <1>6, <1>7, <1>8 DEF Elect

\* A copy writes to a volume.
CopyingOK == \A g \in Goroutine : proc[g].pc = "copying" => proc[g].vol \in Nat

\* The steps of processDownload keep the types.
LEMMA ProcessType ==
  ASSUME TypeOK, CopyingOK, NEW g \in Goroutine, ProcessDownload(g)
  PROVE  TypeOK'
<1> DEFINE p == proc[g]
           req == Mutate(p.req, p.want, p.vol)
           patched == MergePatch(download, p.req, req)
<1>p. /\ p.node \in Node \cup {None} /\ p.req \in Download /\ p.want \in DownloadPhase
      /\ p.vol \in Nat \cup {None} /\ p.tries \in Nat
  BY DEF TypeOK, ProcState
<1>m. req \in Download /\ patched \in Download
  BY <1>p, MutateType, MergePatchType DEF TypeOK
<1>0. "InProgress" \in DownloadPhase /\ "Retry" \in DownloadPhase /\ "Completed" \in DownloadPhase
  BY DEF DownloadPhase
<1>1. CASE GetDownload(g)
  <2>1. CASE \E err \in BOOLEAN : Return(g, err)
    <3>1. FaultsOK'
      BY <1>1, FaultType DEF TypeOK, FaultsOK, GetDownload
    <3>2. /\ proc' \in [Goroutine -> ProcState]
          /\ worker' \in [Node -> {"idle", "electing"} \cup Goroutine]
          /\ queued' \in [Node -> BOOLEAN]
      BY <2>1, ReturnType
    <3> QED
      BY <1>1, <3>1, <3>2 DEF TypeOK, GetDownload, volumeVars
  <2>2. CASE /\ proc' = [proc EXCEPT ![g] =
                  IF download.phase = "InProgress"
                    THEN At(p.node, "copy", download, None)
                    ELSE Patching(p.node, download, "InProgress", None, 0)]
             /\ UNCHANGED <<worker, queued, faults>>
    <3>1. proc' \in [Goroutine -> ProcState]
      BY <1>p, <1>0, <2>2, MadeType DEF TypeOK
    <3> QED
      BY <1>1, <2>2, <3>1 DEF TypeOK, FaultsOK, GetDownload, volumeVars
  <2> QED
    BY <1>1, <2>1, <2>2 DEF GetDownload
<1>2. CASE PatchDownloadByStatus(g)
  <2>1. download' \in Download
    BY <1>2, <1>m DEF TypeOK, PatchDownloadByStatus
  <2>2. FaultsOK'
    BY <1>2, FaultType DEF TypeOK, FaultsOK, PatchDownloadByStatus
  <2>3. /\ proc' \in [Goroutine -> ProcState]
        /\ worker' \in [Node -> {"idle", "electing"} \cup Goroutine]
        /\ queued' \in [Node -> BOOLEAN]
    <3>1. CASE \E err \in BOOLEAN : Return(g, err)
      BY <3>1, ReturnType
    <3>2. CASE /\ proc' = [proc EXCEPT ![g] = At(p.node, "copy", patched, None)]
               /\ UNCHANGED <<worker, queued>>
      BY <1>p, <1>m, <3>2, MadeType DEF TypeOK
    <3>3. CASE /\ proc' = [proc EXCEPT ![g] = Patching(p.node, req, p.want, p.vol, p.tries + 1)]
               /\ UNCHANGED <<worker, queued>>
      <4>1. p.tries + 1 \in Nat
        BY <1>p
      <4>2. Patching(p.node, req, p.want, p.vol, p.tries + 1) \in ProcState
        BY <1>p, <1>m, <4>1, MadeType
      <4> QED
        BY <3>3, <4>2 DEF TypeOK
    <3>4. (p.want = "Retry") \in BOOLEAN /\ TRUE \in BOOLEAN
      OBVIOUS
    <3> QED
      BY <1>2, <3>1, <3>2, <3>3, <3>4, Zenon DEF PatchDownloadByStatus
  <2> QED
    BY <1>2, <2>1, <2>2, <2>3 DEF TypeOK, PatchDownloadByStatus, volumeVars
<1>3. CASE GetBackupRepositoryFails(g)
  BY <1>3, ReturnType, FaultType DEF TypeOK, GetBackupRepositoryFails, volumeVars
<1>4. CASE CopyFromRepo(g)
  <2>1. FaultsOK'
    BY <1>4, FaultType DEF TypeOK, FaultsOK, CopyFromRepo
  <2>3. complete' \subseteq complete
    BY <1>4 DEF CopyFromRepo
  <2>4. created' = created \/ created' = created + 1
    BY <1>4 DEF CopyFromRepo
  <2>2. proc' \in [Goroutine -> ProcState]
    <3>1. CASE proc' = [proc EXCEPT ![g] = Patching(p.node, p.req, "Retry", None, 0)]
      BY <1>p, <1>0, <3>1, MadeType DEF TypeOK
    <3>2. CASE \E vol \in Nat : proc' = [proc EXCEPT ![g] = At(p.node, "copying", p.req, vol)]
      <4>1. PICK vol \in Nat : proc' = [proc EXCEPT ![g] = At(p.node, "copying", p.req, vol)]
        BY <3>2
      <4>2. At(p.node, "copying", p.req, vol) \in ProcState
        BY <1>p, MadeType
      <4> QED
        BY <4>1, <4>2 DEF TypeOK
    <3>3. (IF overwrite THEN 0 ELSE created + 1) \in Nat
      BY DEF TypeOK
    <3> QED
      BY <1>4, <3>1, <3>2, <3>3 DEF CopyFromRepo, StartPatch
  <2> QED
    BY <1>4, <2>1, <2>2, <2>3, <2>4 DEF TypeOK, CopyFromRepo, nodeVars
<1>5. CASE CopyReturns(g)
  <2>1. FaultsOK'
    BY <1>5, FaultType DEF TypeOK, FaultsOK, CopyReturns
  <2>3. complete' \subseteq Nat
    <3>1. p.vol \in Nat
      BY <1>5 DEF CopyingOK, CopyReturns
    <3>2. complete' = complete \cup {p.vol} \/ complete' = complete
      BY <1>5 DEF CopyReturns
    <3> QED
      BY <3>1, <3>2 DEF TypeOK
  <2>2. proc' \in [Goroutine -> ProcState]
    <3>1. \/ proc' = [proc EXCEPT ![g] = Patching(p.node, p.req, "Completed", p.vol, 0)]
          \/ proc' = [proc EXCEPT ![g] = Patching(p.node, p.req, "Retry", None, 0)]
      BY <1>5 DEF CopyReturns, StartPatch
    <3>2. /\ Patching(p.node, p.req, "Completed", p.vol, 0) \in ProcState
          /\ Patching(p.node, p.req, "Retry", None, 0) \in ProcState
      BY <1>p, <1>0, MadeType
    <3> QED
      BY <3>1, <3>2 DEF TypeOK
  <2> QED
    BY <1>5, <2>1, <2>2, <2>3 DEF TypeOK, CopyReturns, nodeVars
<1> QED
  BY <1>1, <1>2, <1>3, <1>4, <1>5 DEF ProcessDownload

\* A step of one goroutine leaves the others where they are.
LEMMA OthersStay ==
  ASSUME TypeOK, NEW g \in Goroutine, ProcessDownload(g)
  PROVE  \A h \in Goroutine : h # g => proc'[h] = proc[h]
<1>1. CASE GetDownload(g)
  BY <1>1 DEF TypeOK, GetDownload, Return
<1>2. CASE PatchDownloadByStatus(g)
  BY <1>2 DEF TypeOK, PatchDownloadByStatus, Return
<1>3. CASE GetBackupRepositoryFails(g)
  BY <1>3 DEF TypeOK, GetBackupRepositoryFails, Return
<1>4. CASE CopyFromRepo(g) \/ CopyReturns(g)
  BY <1>4 DEF TypeOK, CopyFromRepo, CopyReturns, StartPatch
<1> QED
  BY <1>1, <1>2, <1>3, <1>4 DEF ProcessDownload

\* A step of a node touches no volume; it leaves a goroutine where it is,
\* ends it or starts it afresh, and the only thing it does to the Download is
\* to delete it.
LEMMA NodeGoroutines ==
  ASSUME TypeOK, NEW n \in Node,
         \/ DeliverEvent(n) \/ EnqueueDownloadItem(n) \/ ProcessDownloadItem(n)
         \/ Elect(n) \/ LoseLease(n) \/ Crash(n) \/ Restart(n)
  PROVE  /\ UNCHANGED <<volumeVars, caller>>
         /\ download' = download \/ download' = NoDownload
         /\ \A g \in Goroutine : \/ proc'[g] = proc[g]
                               \/ proc'[g] = IdleProc
                               \/ proc'[g] = At(n, "get", NoDownload, None)
<1>1. CASE DeliverEvent(n) \/ ProcessDownloadItem(n) \/ OnNewLeader(n) \/ LoseLease(n) \/ Restart(n)
  BY <1>1 DEF DeliverEvent, ProcessDownloadItem, OnNewLeader, LoseLease, Restart
<1>2. CASE EnqueueDownloadItem(n)
  BY <1>2 DEF EnqueueDownloadItem
<1>3. CASE OnStartedLeading(n)
  BY <1>3 DEF TypeOK, OnStartedLeading
<1>4. CASE Crash(n)
  BY <1>4 DEF TypeOK, Crash
<1> QED
  BY <1>1, <1>2, <1>3, <1>4 DEF Elect

\* Every step keeps the types and the volume of a copy.
LEMMA StepType == TypeOK /\ CopyingOK /\ [Next]_vars => TypeOK' /\ CopyingOK'
<1> SUFFICES ASSUME TypeOK, CopyingOK, [Next]_vars PROVE TypeOK' /\ CopyingOK'
  OBVIOUS
<1>1. CASE UNCHANGED vars
  BY <1>1 DEF vars, TypeOK, CopyingOK, FaultsOK
<1>2. CASE CreateVolumeFromSnapshot
  BY <1>2, CallerType DEF CopyingOK, CreateVolumeFromSnapshot, CreateDownload, PollDownload, UpdateClone
<1>3. ASSUME NEW n \in Node,
             \/ DeliverEvent(n) \/ EnqueueDownloadItem(n) \/ ProcessDownloadItem(n)
             \/ Elect(n) \/ LoseLease(n) \/ Crash(n) \/ Restart(n)
      PROVE  TypeOK' /\ CopyingOK'
  <2>1. TypeOK'
    BY <1>3, NodeType
  <2>2. \A g \in Goroutine : proc'[g] = proc[g] \/ proc'[g].pc # "copying"
    <3>1. IdleProc.pc # "copying" /\ At(n, "get", NoDownload, None).pc # "copying"
      BY DEF At, IdleProc
    <3>2. \A g \in Goroutine : \/ proc'[g] = proc[g]
                              \/ proc'[g] = IdleProc
                              \/ proc'[g] = At(n, "get", NoDownload, None)
      BY <1>3, NodeGoroutines
    <3> QED
      BY <3>1, <3>2
  <2> QED
    BY <2>1, <2>2 DEF CopyingOK
<1>4. ASSUME NEW g \in Goroutine, ProcessDownload(g) PROVE TypeOK' /\ CopyingOK'
  <2>1. TypeOK'
    BY <1>4, ProcessType
  <2>2. \A h \in Goroutine : h # g => proc'[h] = proc[h]
    BY <1>4, OthersStay
  <2>3. proc'[g].pc # "copying" \/ proc'[g].vol \in Nat
    <3>1. CASE GetDownload(g)
      BY <3>1 DEF TypeOK, GetDownload, Return, IdleProc, At, Patching
    <3>2. CASE PatchDownloadByStatus(g)
      BY <3>2 DEF TypeOK, PatchDownloadByStatus, Return, IdleProc, At, Patching
    <3>3. CASE GetBackupRepositoryFails(g)
      BY <3>3 DEF TypeOK, GetBackupRepositoryFails, Return, IdleProc, At
    <3>4. CASE CopyFromRepo(g)
      <4>1. (IF overwrite THEN 0 ELSE created + 1) \in Nat
        BY DEF TypeOK
      <4> QED
        BY <3>4, <4>1 DEF TypeOK, CopyFromRepo, StartPatch, At, Patching
    <3>5. CASE CopyReturns(g)
      BY <3>5 DEF TypeOK, CopyReturns, StartPatch, Patching
    <3> QED
      BY <1>4, <3>1, <3>2, <3>3, <3>4, <3>5 DEF ProcessDownload
  <2> QED
    BY <2>1, <2>2, <2>3 DEF CopyingOK
<1> QED
  BY <1>1, <1>2, <1>3, <1>4 DEF Next

-----------------------------------------------------------------------------
(* A download into a new volume *)

\* What goroutine state s may hold when the volumes in whole are complete and
\* volume last was provisioned last.  A patch to Completed that no longer
\* carries the volume no longer carries the phase either.
ProcVolumesOK(s, whole, last) ==
  /\ s.req.volumeID \in whole \cup {None}
  /\ s.pc = "copying" => s.vol <= last /\ s.vol # s.req.volumeID
  /\ s.pc = "patch" /\ s.want = "Completed" =>
       /\ s.vol \in whole
       /\ s.req.phase = "Completed" \/ s.req.volumeID # s.vol

NewVolumesOK ==
  /\ \A v \in complete : v <= created
  /\ download.volumeID \in complete \cup {None}
  /\ download.phase = "Completed" => download.volumeID # None
  /\ caller.pc \in {"clone", "done"} => caller.vol \in complete
  /\ \A g \in Goroutine : ProcVolumesOK(proc[g], complete, created)

\* The tries of a patch are counted.
LEMMA TriesType ==
  ASSUME NEW s \in ProcState
  PROVE  s.tries + 1 \in Nat
BY DEF ProcState

\* A patch leaves the Download with a complete volume or none, and puts the
\* phase Completed on it only together with a volume.
LEMMA PatchedVolume ==
  ASSUME NEW cur \in Download, NEW s \in ProcState, NEW whole \in SUBSET Nat, NEW last \in Nat,
         s.pc = "patch", ProcVolumesOK(s, whole, last),
         cur.volumeID \in whole \cup {None},
         cur.phase = "Completed" => cur.volumeID # None
  PROVE  LET req == Mutate(s.req, s.want, s.vol)
             new == MergePatch(cur, s.req, req)
         IN  /\ new.volumeID \in whole \cup {None}
             /\ new.phase = "Completed" => new.volumeID # None
             /\ \A t \in Nat : ProcVolumesOK(Patching(s.node, req, s.want, s.vol, t), whole, last)
<1> DEFINE req == Mutate(s.req, s.want, s.vol)
           new == MergePatch(cur, s.req, req)
<1>1. CASE s.want = "Completed"
  <2>1. req.phase = "Completed" /\ req.volumeID = s.vol
    BY <1>1 DEF Mutate, DownloadIn
  <2>2. s.vol \in whole /\ s.vol # None
    BY <1>1, DownloadAssumption DEF ProcVolumesOK
  <2> QED
    BY <1>1, <2>1, <2>2 DEF MergePatch, DownloadIn, ProcVolumesOK, Patching
<1>2. CASE s.want # "Completed"
  <2>1. req.phase # "Completed" /\ req.volumeID = s.req.volumeID
    BY <1>2 DEF Mutate, DownloadIn
  <2> QED
    BY <1>2, <2>1 DEF MergePatch, DownloadIn, ProcVolumesOK, Patching
<1> QED
  BY <1>1, <1>2

\* A goroutine that is idle or starts afresh holds no volume.
LEMMA FreshVolumes ==
  ASSUME NEW whole, NEW last, NEW n
  PROVE  /\ ProcVolumesOK(IdleProc, whole, last)
         /\ ProcVolumesOK(At(n, "get", NoDownload, None), whole, last)
BY DEF ProcVolumesOK, IdleProc, At, NoDownload, DownloadIn

\* A step of goroutine g that only adds volumes, and leaves g and the Download
\* in order, leaves everything in order.
LEMMA GoroutineVolumes ==
  ASSUME TypeOK, NewVolumesOK, NEW g \in Goroutine, ProcessDownload(g), TypeOK', CopyingOK,
         complete \subseteq complete', created <= created',
         \A v \in complete' : v <= created',
         download'.volumeID \in complete' \cup {None},
         download'.phase = "Completed" => download'.volumeID # None,
         ProcVolumesOK(proc'[g], complete', created')
  PROVE  NewVolumesOK'
<1>1. caller' = caller
  BY DEF ProcessDownload, GetDownload, PatchDownloadByStatus, GetBackupRepositoryFails, CopyFromRepo, CopyReturns
<1>2. \A h \in Goroutine : h # g => proc'[h] = proc[h]
  BY OthersStay
<1>3. ASSUME NEW h \in Goroutine PROVE ProcVolumesOK(proc'[h], complete', created')
  <2>1. CASE h = g
    BY <2>1
  <2>2. CASE h # g
    <3>1. ProcVolumesOK(proc[h], complete, created)
      BY DEF NewVolumesOK
    <3>2. proc[h].pc = "copying" => proc[h].vol \in Nat
      BY DEF CopyingOK
    <3>3. proc[h].pc = "copying" /\ proc[h].vol <= created => proc[h].vol <= created'
      BY <3>2 DEF TypeOK
    <3> QED
      BY <1>2, <2>2, <3>1, <3>3 DEF ProcVolumesOK
  <2> QED
    BY <2>1, <2>2
<1> QED
  BY <1>1, <1>3 DEF NewVolumesOK

\* With a new volume, a step of processDownload keeps the volumes in order.
LEMMA ProcessVolumes ==
  ASSUME TypeOK, CopyingOK, TypeOK', NewVolumesOK, ~overwrite,
         NEW g \in Goroutine, ProcessDownload(g)
  PROVE  NewVolumesOK'
<1>p. proc[g] \in ProcState /\ ProcVolumesOK(proc[g], complete, created)
  BY DEF TypeOK, NewVolumesOK
<1>r. ASSUME NEW err, Return(g, err) PROVE ProcVolumesOK(proc'[g], complete, created)
  BY <1>r, FreshVolumes DEF TypeOK, Return
<1>1. CASE GetDownload(g)
  <2>1. UNCHANGED <<complete, created, download>>
    BY <1>1 DEF GetDownload, volumeVars
  <2>2. \A n : /\ ProcVolumesOK(At(n, "copy", download, None), complete, created)
               /\ ProcVolumesOK(Patching(n, download, "InProgress", None, 0), complete, created)
    BY DEF NewVolumesOK, ProcVolumesOK, At, Patching
  <2>3. ProcVolumesOK(proc'[g], complete, created)
    <3>1. CASE \E err \in BOOLEAN : Return(g, err)
      BY <3>1, <1>r
    <3>2. CASE proc' = [proc EXCEPT ![g] =
                  IF download.phase = "InProgress"
                    THEN At(proc[g].node, "copy", download, None)
                    ELSE Patching(proc[g].node, download, "InProgress", None, 0)]
      BY <2>2, <3>2 DEF TypeOK
    <3> QED
      BY <1>1, <3>1, <3>2 DEF GetDownload
  <2> QED
    BY <2>1, <2>3, GoroutineVolumes DEF NewVolumesOK, TypeOK
<1>2. CASE PatchDownloadByStatus(g)
  <2> DEFINE p == proc[g]
             req == Mutate(p.req, p.want, p.vol)
             patched == MergePatch(download, p.req, req)
  <2>1. UNCHANGED <<complete, created>>
    BY <1>2 DEF PatchDownloadByStatus, volumeVars
  <2>2. /\ patched.volumeID \in complete \cup {None}
        /\ patched.phase = "Completed" => patched.volumeID # None
        /\ \A t \in Nat : ProcVolumesOK(Patching(p.node, req, p.want, p.vol, t), complete, created)
    <3>1. p.pc = "patch"
      BY <1>2 DEF PatchDownloadByStatus
    <3>2. /\ download \in Download /\ complete \in SUBSET Nat /\ created \in Nat
          /\ download.volumeID \in complete \cup {None}
          /\ download.phase = "Completed" => download.volumeID # None
      BY DEF TypeOK, NewVolumesOK
    <3> QED
      BY <1>p, <3>1, <3>2, PatchedVolume
  <2>3. ProcVolumesOK(At(p.node, "copy", patched, None), complete, created)
    BY <2>2 DEF ProcVolumesOK, At
  <2>4. download' \in {download, patched}
    BY <1>2 DEF PatchDownloadByStatus
  <2>5. p.tries + 1 \in Nat
    BY <1>p, TriesType
  <2>6. ProcVolumesOK(proc'[g], complete, created)
    <3>1. CASE \E err \in BOOLEAN : Return(g, err)
      BY <3>1, <1>r
    <3>2. CASE proc' = [proc EXCEPT ![g] = At(p.node, "copy", patched, None)]
      BY <2>3, <3>2 DEF TypeOK
    <3>3. CASE proc' = [proc EXCEPT ![g] = Patching(p.node, req, p.want, p.vol, p.tries + 1)]
      BY <2>2, <2>5, <3>3 DEF TypeOK
    <3>4. (p.want = "Retry") \in BOOLEAN /\ TRUE \in BOOLEAN
      OBVIOUS
    <3> QED
      BY <1>2, <3>1, <3>2, <3>3, <3>4, Zenon DEF PatchDownloadByStatus
  <2>7. /\ download'.volumeID \in complete \cup {None}
        /\ download'.phase = "Completed" => download'.volumeID # None
    BY <2>2, <2>4 DEF NewVolumesOK
  <2> QED
    BY <2>1, <2>6, <2>7, GoroutineVolumes DEF NewVolumesOK, TypeOK
<1>3. CASE GetBackupRepositoryFails(g)
  <2>1. UNCHANGED <<complete, created, download>> /\ ProcVolumesOK(proc'[g], complete, created)
    BY <1>3, <1>r DEF GetBackupRepositoryFails, volumeVars
  <2> QED
    BY <2>1, GoroutineVolumes DEF NewVolumesOK, TypeOK
<1>4. CASE CopyFromRepo(g)
  <2>1. CASE StartPatch(g, "Retry", None) /\ UNCHANGED <<created, complete>>
    <3>1. download' = download
      BY <1>4 DEF CopyFromRepo
    <3>2. ProcVolumesOK(proc'[g], complete, created)
      BY <1>p, <2>1 DEF TypeOK, StartPatch, Patching, ProcVolumesOK
    <3> QED
      BY <2>1, <3>1, <3>2, GoroutineVolumes DEF NewVolumesOK, TypeOK
  <2>2. CASE /\ created' = created + 1
             /\ complete' = complete \ {created + 1}
             /\ proc' = [proc EXCEPT ![g] = At(proc[g].node, "copying", proc[g].req, created + 1)]
    <3>1. download' = download
      BY <1>4 DEF CopyFromRepo
    <3>2. created + 1 \notin complete /\ created + 1 \in Nat
      BY DEF NewVolumesOK, TypeOK
    <3>3. complete' = complete
      BY <2>2, <3>2
    <3>4. ProcVolumesOK(proc'[g], complete, created')
      <4>1. proc'[g] = At(proc[g].node, "copying", proc[g].req, created + 1)
        BY <2>2 DEF TypeOK
      <4>2. created + 1 # proc[g].req.volumeID
        BY <1>p, <3>2, DownloadAssumption DEF ProcVolumesOK
      <4> QED
        BY <1>p, <2>2, <3>2, <4>1, <4>2 DEF ProcVolumesOK, At
    <3>5. created <= created' /\ \A v \in complete : v <= created'
      BY <2>2 DEF NewVolumesOK, TypeOK
    <3> QED
      BY <3>1, <3>3, <3>4, <3>5, GoroutineVolumes DEF NewVolumesOK
  <2> QED
    BY <1>4, <2>1, <2>2 DEF CopyFromRepo
<1>5. CASE CopyReturns(g)
  <2>1. UNCHANGED <<created, download>> /\ proc[g].pc = "copying"
    BY <1>5 DEF CopyReturns
  <2>2. proc[g].vol \in Nat /\ proc[g].vol <= created /\ proc[g].vol # proc[g].req.volumeID
    BY <1>p, <2>1 DEF CopyingOK, ProcVolumesOK
  <2>3. CASE complete' = complete \cup {proc[g].vol} /\ StartPatch(g, "Completed", proc[g].vol)
    <3>1. ProcVolumesOK(proc'[g], complete', created)
      BY <1>p, <2>2, <2>3 DEF TypeOK, StartPatch, Patching, ProcVolumesOK
    <3>2. \A v \in complete' : v <= created
      BY <2>2, <2>3 DEF NewVolumesOK
    <3>3. complete \subseteq complete' /\ created <= created'
      BY <2>1, <2>3 DEF TypeOK
    <3>4. /\ download'.volumeID \in complete' \cup {None}
          /\ download'.phase = "Completed" => download'.volumeID # None
      BY <2>1, <3>3 DEF NewVolumesOK
    <3>5. ProcVolumesOK(proc'[g], complete', created') /\ \A v \in complete' : v <= created'
      BY <2>1, <3>1, <3>2
    <3> QED
      BY <3>3, <3>4, <3>5, GoroutineVolumes
  <2>4. CASE StartPatch(g, "Retry", None) /\ UNCHANGED complete
    <3>1. ProcVolumesOK(proc'[g], complete, created)
      BY <1>p, <2>4 DEF TypeOK, StartPatch, Patching, ProcVolumesOK
    <3> QED
      BY <2>1, <2>4, <3>1, GoroutineVolumes DEF NewVolumesOK, TypeOK
  <2> QED
    BY <1>5, <2>3, <2>4 DEF CopyReturns
<1> QED
  BY <1>1, <1>2, <1>3, <1>4, <1>5 DEF ProcessDownload

\* With a new volume, every step keeps the volumes in order.
LEMMA StepVolumes ==
  ASSUME TypeOK, CopyingOK, TypeOK', ~overwrite => NewVolumesOK, [Next]_vars
  PROVE  ~overwrite' => NewVolumesOK'
<1>0. overwrite' = overwrite
  BY DEF vars, Next, volumeVars, CreateVolumeFromSnapshot, CreateDownload, PollDownload, UpdateClone,
         DeliverEvent, EnqueueDownloadItem, ProcessDownloadItem, Elect, OnNewLeader, OnStartedLeading,
         LoseLease, Crash, Restart, ProcessDownload, GetDownload, PatchDownloadByStatus,
         GetBackupRepositoryFails, CopyFromRepo, CopyReturns
<1> SUFFICES ASSUME ~overwrite, NewVolumesOK PROVE NewVolumesOK'
  BY <1>0
<1>1. CASE UNCHANGED vars
  BY <1>1 DEF vars, NewVolumesOK
<1>2. CASE CreateVolumeFromSnapshot
  <2>1. UNCHANGED <<complete, created, proc>>
    BY <1>2 DEF CreateVolumeFromSnapshot, CreateDownload, PollDownload, UpdateClone, volumeVars
  <2>2. download' \in {download, NewDownload}
    BY <1>2 DEF CreateVolumeFromSnapshot, CreateDownload, PollDownload, UpdateClone
  <2>3. caller'.pc \in {"clone", "done"} => caller'.vol \in complete
    BY <1>2 DEF CreateVolumeFromSnapshot, CreateDownload, PollDownload, UpdateClone, Caller, NewVolumesOK
  <2> QED
    BY <2>1, <2>2, <2>3 DEF NewVolumesOK, NewDownload, DownloadIn
<1>3. ASSUME NEW n \in Node,
             \/ DeliverEvent(n) \/ EnqueueDownloadItem(n) \/ ProcessDownloadItem(n)
             \/ Elect(n) \/ LoseLease(n) \/ Crash(n) \/ Restart(n)
      PROVE  NewVolumesOK'
  <2>1. UNCHANGED <<volumeVars, caller>> /\ (download' = download \/ download' = NoDownload)
    BY <1>3, NodeGoroutines
  <2>2. ASSUME NEW g \in Goroutine PROVE ProcVolumesOK(proc'[g], complete, created)
    <3>1. \/ proc'[g] = proc[g]
          \/ proc'[g] = IdleProc
          \/ proc'[g] = At(n, "get", NoDownload, None)
      BY <1>3, NodeGoroutines
    <3> QED
      BY <3>1, FreshVolumes DEF NewVolumesOK
  <2> QED
    BY <2>1, <2>2 DEF NewVolumesOK, NoDownload, DownloadIn, volumeVars
<1>4. ASSUME NEW g \in Goroutine, ProcessDownload(g) PROVE NewVolumesOK'
  BY <1>4, ProcessVolumes
<1> QED
  BY <1>1, <1>2, <1>3, <1>4 DEF Next

-----------------------------------------------------------------------------
(* A download whose lease is never lost *)

\* Every running goroutine is awaited by the worker of the node that the lease
\* names, so there is at most one.
Alone ==
  \A g \in Goroutine : proc[g].pc # "idle" =>
    /\ proc[g].node \in Node
    /\ worker[proc[g].node] = g
    /\ lease = proc[g].node

\* CreateVolumeFromSnapshot has been told of a volume.
Told == caller.pc \in {"clone", "done"}

\* A goroutine on its way to a copy, in it, or back from a failed one.
Working(s) == s.pc \in {"copy", "copying"} \/ (s.pc = "patch" /\ s.want # "Completed")

\* As long as a goroutine works, nobody has been told of a volume; one that
\* patches to Completed has a complete volume, and its patch carries both the
\* phase and the volume or neither.
ReadyProcOK(s, phase, told, whole) ==
  /\ Working(s) =>
       /\ phase # "Completed" /\ ~told
       /\ s.req.phase # "Completed" /\ s.req.volumeID = None
  /\ s.pc = "patch" /\ s.want = "Completed" =>
       /\ s.vol \in whole
       /\ \/ s.req.phase # "Completed" /\ s.req.volumeID = None
          \/ s.req.phase = "Completed" /\ s.req.volumeID = s.vol

ReadyOK ==
  /\ download.phase # "Completed" => download.volumeID = None
  /\ download.phase = "Completed" => download.volumeID \in complete
  /\ Told => caller.vol \in complete /\ download.phase \in {"Completed", "Gone"}
  /\ \A g \in Goroutine : ReadyProcOK(proc[g], download.phase, Told, complete)

\* Faults are never forgotten.
LEMMA FaultsStay ==
  ASSUME TypeOK, [Next]_vars, ~Happened("lease")'
  PROVE  ~Happened("lease")
<1>1. faults' = faults \/ \E kind : Fault(kind)
  BY DEF vars, Next, CreateVolumeFromSnapshot, CreateDownload, PollDownload, UpdateClone,
         DeliverEvent, EnqueueDownloadItem, ProcessDownloadItem, Elect, OnNewLeader, OnStartedLeading,
         LoseLease, Crash, Restart, ProcessDownload, GetDownload, PatchDownloadByStatus,
         GetBackupRepositoryFails, CopyFromRepo, CopyReturns
<1> QED
  BY <1>1 DEF Fault, Happened

\* A step of processDownload leaves the lease alone; it ends the goroutine or
\* leaves it awaited by the same worker.
LEMMA GoroutineLease ==
  ASSUME TypeOK, NEW g \in Goroutine, ProcessDownload(g)
  PROVE  /\ proc[g].pc # "idle" /\ lease' = lease
         /\ \/ \E err \in BOOLEAN : Return(g, err)
            \/ worker' = worker /\ proc'[g].node = proc[g].node
<1>1. CASE GetDownload(g)
  <2>1. \/ \E err \in BOOLEAN : Return(g, err)
        \/ /\ worker' = worker
           /\ proc' = [proc EXCEPT ![g] =
                IF download.phase = "InProgress"
                  THEN At(proc[g].node, "copy", download, None)
                  ELSE Patching(proc[g].node, download, "InProgress", None, 0)]
    BY <1>1 DEF GetDownload
  <2> QED
    BY <1>1, <2>1 DEF GetDownload, TypeOK, At, Patching
<1>2. CASE PatchDownloadByStatus(g)
  <2> DEFINE p == proc[g]
             req == Mutate(p.req, p.want, p.vol)
             patched == MergePatch(download, p.req, req)
  <2>1. (p.want = "Retry") \in BOOLEAN /\ TRUE \in BOOLEAN
    OBVIOUS
  <2>2. \/ \E err \in BOOLEAN : Return(g, err)
        \/ worker' = worker /\ proc' = [proc EXCEPT ![g] = At(p.node, "copy", patched, None)]
        \/ worker' = worker /\ proc' = [proc EXCEPT ![g] = Patching(p.node, req, p.want, p.vol, p.tries + 1)]
    BY <1>2, <2>1, Zenon DEF PatchDownloadByStatus
  <2>3. proc[g].pc # "idle" /\ lease' = lease
    BY <1>2 DEF PatchDownloadByStatus
  <2>4. ASSUME NEW r \in {At(p.node, "copy", patched, None),
                          Patching(p.node, req, p.want, p.vol, p.tries + 1)},
               proc' = [proc EXCEPT ![g] = r]
        PROVE  proc'[g].node = proc[g].node
    BY <2>4 DEF TypeOK, At, Patching
  <2> QED
    BY <2>2, <2>3, <2>4
<1>3. CASE GetBackupRepositoryFails(g)
  BY <1>3 DEF GetBackupRepositoryFails
<1>4. CASE CopyFromRepo(g) \/ CopyReturns(g)
  BY <1>4 DEF CopyFromRepo, CopyReturns, StartPatch, TypeOK, At, Patching, nodeVars
<1> QED
  BY <1>1, <1>2, <1>3, <1>4 DEF ProcessDownload

\* Two running goroutines are the same one.
LEMMA Sole ==
  ASSUME Alone, NEW g \in Goroutine, NEW h \in Goroutine,
         proc[g].pc # "idle", proc[h].pc # "idle"
  PROVE  g = h
BY DEF Alone

\* As long as the lease is not lost, at most one goroutine runs.
LEMMA StepAlone ==
  ASSUME TypeOK, Alone, [Next]_vars, ~Happened("lease")'
  PROVE  Alone'
<1>1. CASE UNCHANGED vars
  BY <1>1 DEF vars, Alone
<1>2. CASE CreateVolumeFromSnapshot
  BY <1>2 DEF Alone, CreateVolumeFromSnapshot, CreateDownload, PollDownload, UpdateClone, nodeVars
<1>3. ASSUME NEW n \in Node, DeliverEvent(n) \/ EnqueueDownloadItem(n) \/ Restart(n) PROVE Alone'
  BY <1>3 DEF Alone, DeliverEvent, EnqueueDownloadItem, Restart, nodeVars
<1>4. ASSUME NEW n \in Node, ProcessDownloadItem(n) \/ OnNewLeader(n) PROVE Alone'
  <2>1. worker[n] \notin Goroutine /\ UNCHANGED <<proc, lease>>
    BY <1>4, DownloadAssumption DEF ProcessDownloadItem, OnNewLeader
  <2>2. \A m \in Node : m # n => worker'[m] = worker[m]
    BY <1>4 DEF TypeOK, ProcessDownloadItem, OnNewLeader
  <2> QED
    BY <2>1, <2>2 DEF Alone
<1>5. ASSUME NEW n \in Node, OnStartedLeading(n) PROVE Alone'
  <2>1. \A h \in Goroutine : proc[h].pc = "idle"
    BY <1>5, DownloadAssumption DEF Alone, OnStartedLeading, MayLead, Renewing
  <2>2. PICK g \in Goroutine : /\ worker' = [worker EXCEPT ![n] = g]
                               /\ proc' = [proc EXCEPT ![g] = At(n, "get", NoDownload, None)]
    <3>1. (CHOOSE h \in FreeSlots : TRUE) \in Goroutine
      BY <1>5 DEF OnStartedLeading, FreeSlots
    <3> QED
      BY <1>5, <3>1 DEF OnStartedLeading
  <2>3. lease' = n /\ worker'[n] = g /\ proc'[g].node = n
    BY <1>5, <2>2 DEF OnStartedLeading, TypeOK, At
  <2>4. \A h \in Goroutine : h # g => proc'[h].pc = "idle"
    BY <2>1, <2>2 DEF TypeOK
  <2> QED
    BY <2>3, <2>4 DEF Alone
<1>6. ASSUME NEW n \in Node, LoseLease(n) PROVE Alone'
  BY <1>6 DEF LoseLease, Fault, Happened
<1>7. ASSUME NEW n \in Node, Crash(n) PROVE Alone'
  <2>1. lease' = lease /\ \A m \in Node : m # n => worker'[m] = worker[m]
    BY <1>7 DEF TypeOK, Crash
  <2>2. \A h \in Goroutine : proc'[h].pc = "idle" \/ (proc'[h] = proc[h] /\ proc[h].node # n)
    BY <1>7 DEF TypeOK, Crash, IdleProc, At
  <2>3. ASSUME NEW h \in Goroutine, proc'[h].pc # "idle"
        PROVE  proc'[h].node \in Node /\ worker'[proc'[h].node] = h /\ lease' = proc'[h].node
    <3>1. proc'[h] = proc[h] /\ proc[h].node # n
      BY <2>2, <2>3
    <3>2. proc[h].node \in Node /\ worker[proc[h].node] = h /\ lease = proc[h].node
      BY <2>3, <3>1 DEF Alone
    <3> QED
      BY <2>1, <3>1, <3>2
  <2> QED
    BY <2>3 DEF Alone
<1>8. ASSUME NEW g \in Goroutine, ProcessDownload(g) PROVE Alone'
  <2>1. /\ proc[g].pc # "idle" /\ lease' = lease
        /\ \A h \in Goroutine : h # g => proc'[h] = proc[h] /\ proc[h].pc = "idle"
    BY <1>8, GoroutineLease, OthersStay, Sole
  <2>2. CASE \E err \in BOOLEAN : Return(g, err)
    <3>1. proc'[g].pc = "idle"
      BY <2>2 DEF TypeOK, Return, IdleProc, At
    <3> QED
      BY <2>1, <3>1 DEF Alone
  <2>3. CASE worker' = worker /\ proc'[g].node = proc[g].node
    BY <2>1, <2>3 DEF Alone
  <2> QED
    BY <1>8, <2>2, <2>3, GoroutineLease
<1> QED
  BY <1>1, <1>2, <1>3, <1>4, <1>5, <1>6, <1>7, <1>8 DEF Next, Elect

\* The only running goroutine may do what leaves itself and the Download in
\* order.
LEMMA GoroutineReady ==
  ASSUME TypeOK, Alone, ReadyOK, NEW g \in Goroutine, ProcessDownload(g),
         download'.phase # "Completed" => download'.volumeID = None,
         download'.phase = "Completed" => download'.volumeID \in complete',
         Told => caller.vol \in complete' /\ download'.phase \in {"Completed", "Gone"},
         ReadyProcOK(proc'[g], download'.phase, Told, complete')
  PROVE  ReadyOK'
<1>1. caller' = caller
  BY DEF ProcessDownload, GetDownload, PatchDownloadByStatus, GetBackupRepositoryFails, CopyFromRepo, CopyReturns
<1>2. \A h \in Goroutine : h # g => proc'[h] = proc[h] /\ proc[h].pc = "idle"
  BY GoroutineLease, OthersStay, Sole
<1>3. ASSUME NEW h \in Goroutine PROVE ReadyProcOK(proc'[h], download'.phase, Told, complete')
  BY <1>2 DEF ReadyProcOK, Working
<1> QED
  BY <1>1, <1>3 DEF ReadyOK, Told

\* A goroutine that is idle or starts afresh promises nothing.
LEMMA FreshReady ==
  ASSUME NEW phase, NEW told, NEW whole, NEW n
  PROVE  /\ ReadyProcOK(IdleProc, phase, told, whole)
         /\ ReadyProcOK(At(n, "get", NoDownload, None), phase, told, whole)
BY DEF ReadyProcOK, Working, IdleProc, At

\* What the patch of goroutine state s makes of the Download cur, and leaves of s.
PatchedOK(cur, s, told, whole) ==
  LET req == Mutate(s.req, s.want, s.vol)
      new == MergePatch(cur, s.req, req)
  IN  /\ new.phase # "Completed" => new.volumeID = None
      /\ new.phase = "Completed" => new.volumeID \in whole
      /\ told /\ cur.phase # "Gone" => new.phase = "Completed"
      /\ s.want = "InProgress" =>
           ReadyProcOK(At(s.node, "copy", new, None), new.phase, told, whole)
      /\ \A t \in Nat, phase \in {cur.phase, new.phase} :
           ReadyProcOK(Patching(s.node, req, s.want, s.vol, t), phase, told, whole)

\* The patch of a goroutine that worked in vain leaves the Download without a
\* volume; the one of a goroutine with a complete volume completes it.
LEMMA PatchedReady ==
  ASSUME NEW cur \in Download, NEW s \in ProcState, NEW told \in BOOLEAN, NEW whole \in SUBSET Nat,
         s.pc = "patch", ReadyProcOK(s, cur.phase, told, whole),
         cur.phase # "Completed" => cur.volumeID = None,
         cur.phase = "Completed" => cur.volumeID \in whole,
         told => cur.phase \in {"Completed", "Gone"}
  PROVE  PatchedOK(cur, s, told, whole)
<1> DEFINE req == Mutate(s.req, s.want, s.vol)
           new == MergePatch(cur, s.req, req)
<1>1. CASE s.want = "Completed"
  <2>1. req.phase = "Completed" /\ req.volumeID = s.vol
    BY <1>1 DEF Mutate, DownloadIn
  <2>2. s.vol \in whole /\ s.vol # None
    BY <1>1, DownloadAssumption DEF ReadyProcOK
  <2>3. \/ new.phase = "Completed" /\ new.volumeID = s.vol
        \/ new.phase = cur.phase /\ new.volumeID = cur.volumeID
    BY <1>1, <2>1, <2>2 DEF MergePatch, DownloadIn, ReadyProcOK
  <2>4. \A t, phase : ReadyProcOK(Patching(s.node, req, s.want, s.vol, t), phase, told, whole)
    BY <1>1, <2>1, <2>2 DEF ReadyProcOK, Patching, Working
  <2> QED
    BY <1>1, <2>2, <2>3, <2>4 DEF PatchedOK
<1>2. CASE s.want # "Completed"
  <2>1. req.phase # "Completed" /\ req.volumeID = s.req.volumeID
    BY <1>2 DEF Mutate, DownloadIn
  <2>2. /\ cur.phase # "Completed" /\ ~told
        /\ s.req.phase # "Completed" /\ s.req.volumeID = None
    BY <1>2 DEF ReadyProcOK, Working
  <2>3. new.phase # "Completed" /\ new.volumeID = None
    BY <2>1, <2>2 DEF MergePatch, DownloadIn
  <2>4. ReadyProcOK(At(s.node, "copy", new, None), new.phase, told, whole)
    BY <2>2, <2>3 DEF ReadyProcOK, At, Working
  <2>5. \A t, phase : phase # "Completed" =>
          ReadyProcOK(Patching(s.node, req, s.want, s.vol, t), phase, told, whole)
    BY <1>2, <2>1, <2>2 DEF ReadyProcOK, Patching, Working
  <2> QED
    BY <2>2, <2>3, <2>4, <2>5 DEF PatchedOK
<1> QED
  BY <1>1, <1>2

\* As long as the lease is not lost, a step of processDownload keeps a volume
\* that the caller was told of.
LEMMA ProcessReady ==
  ASSUME TypeOK, Alone, ReadyOK, NEW g \in Goroutine, ProcessDownload(g)
  PROVE  ReadyOK'
<1> DEFINE ph == download.phase
<1>p. proc[g] \in ProcState /\ ReadyProcOK(proc[g], ph, Told, complete)
  BY DEF TypeOK, ReadyOK
<1>b. Told \in BOOLEAN
  BY DEF Told
<1>r. ASSUME NEW err, Return(g, err), NEW phase PROVE ReadyProcOK(proc'[g], phase, Told, complete)
  BY <1>r, FreshReady DEF TypeOK, Return
<1>1. CASE GetDownload(g)
  <2>1. UNCHANGED <<complete, download>>
    BY <1>1 DEF GetDownload, volumeVars
  <2>2. ReadyProcOK(proc'[g], ph, Told, complete)
    <3>1. CASE \E err \in BOOLEAN : Return(g, err)
      BY <3>1, <1>r
    <3>2. CASE /\ ph \notin Skipped \cup {"Gone"}
               /\ proc' = [proc EXCEPT ![g] =
                    IF ph = "InProgress"
                      THEN At(proc[g].node, "copy", download, None)
                      ELSE Patching(proc[g].node, download, "InProgress", None, 0)]
      <4>1. ph # "Completed" /\ ~Told /\ download.volumeID = None
        BY <3>2 DEF Skipped, ReadyOK
      <4>2. /\ ReadyProcOK(At(proc[g].node, "copy", download, None), ph, Told, complete)
            /\ ReadyProcOK(Patching(proc[g].node, download, "InProgress", None, 0), ph, Told, complete)
        BY <4>1 DEF ReadyProcOK, At, Patching
      <4> QED
        BY <3>2, <4>2 DEF TypeOK
    <3> QED
      BY <1>1, <3>1, <3>2 DEF GetDownload
  <2> QED
    BY <2>1, <2>2, GoroutineReady DEF ReadyOK
<1>2. CASE PatchDownloadByStatus(g)
  <2> DEFINE p == proc[g]
             req == Mutate(p.req, p.want, p.vol)
             patched == MergePatch(download, p.req, req)
  <2>1. UNCHANGED complete /\ p.pc = "patch" /\ download' \in {download, patched}
        /\ (ph = "Gone" => download' = download)
    BY <1>2 DEF PatchDownloadByStatus, volumeVars
  <2>2. /\ patched.phase # "Completed" => patched.volumeID = None
        /\ patched.phase = "Completed" => patched.volumeID \in complete
        /\ Told /\ ph # "Gone" => patched.phase = "Completed"
        /\ p.want = "InProgress" =>
             ReadyProcOK(At(p.node, "copy", patched, None), patched.phase, Told, complete)
        /\ \A t \in Nat, phase \in {ph, patched.phase} :
             ReadyProcOK(Patching(p.node, req, p.want, p.vol, t), phase, Told, complete)
    <3>1. /\ download \in Download /\ complete \in SUBSET Nat
          /\ ph # "Completed" => download.volumeID = None
          /\ ph = "Completed" => download.volumeID \in complete
          /\ Told => ph \in {"Completed", "Gone"}
      BY DEF TypeOK, ReadyOK
    <3>2. PatchedOK(download, p, Told, complete)
      BY <1>p, <1>b, <2>1, <3>1, PatchedReady
    <3> QED
      BY <3>2 DEF PatchedOK
  <2>3. p.tries + 1 \in Nat
    BY <1>p, TriesType
  <2>4. ReadyProcOK(proc'[g], download'.phase, Told, complete)
    <3>1. CASE \E err \in BOOLEAN : Return(g, err)
      BY <3>1, <1>r
    <3>2. CASE /\ proc' = [proc EXCEPT ![g] = At(p.node, "copy", patched, None)]
               /\ p.want = "InProgress" /\ download' = patched
      BY <2>2, <3>2 DEF TypeOK
    <3>3. CASE proc' = [proc EXCEPT ![g] = Patching(p.node, req, p.want, p.vol, p.tries + 1)]
      BY <2>1, <2>2, <2>3, <3>3 DEF TypeOK
    <3>4. (p.want = "Retry") \in BOOLEAN /\ TRUE \in BOOLEAN
      OBVIOUS
    <3> QED
      BY <1>2, <3>1, <3>2, <3>3, <3>4, Zenon DEF PatchDownloadByStatus
  <2>5. /\ download'.phase # "Completed" => download'.volumeID = None
        /\ download'.phase = "Completed" => download'.volumeID \in complete
        /\ Told => caller.vol \in complete /\ download'.phase \in {"Completed", "Gone"}
    BY <2>1, <2>2 DEF ReadyOK
  <2> QED
    BY <2>1, <2>4, <2>5, GoroutineReady
<1>3. CASE GetBackupRepositoryFails(g)
  <2>1. UNCHANGED <<complete, download>> /\ ReadyProcOK(proc'[g], ph, Told, complete)
    BY <1>3, <1>r DEF GetBackupRepositoryFails, volumeVars
  <2> QED
    BY <2>1, GoroutineReady DEF ReadyOK
<1>4. CASE CopyFromRepo(g)
  <2>1. /\ download' = download /\ Working(proc[g])
        /\ \/ StartPatch(g, "Retry", None)
           \/ \E vol : proc' = [proc EXCEPT ![g] = At(proc[g].node, "copying", proc[g].req, vol)]
    BY <1>4 DEF CopyFromRepo, Working
  <2>2. /\ ph # "Completed" /\ ~Told
        /\ proc[g].req.phase # "Completed" /\ proc[g].req.volumeID = None
    BY <1>p, <2>1 DEF ReadyProcOK
  <2>3. ReadyProcOK(proc'[g], ph, Told, complete')
    <3>1. proc'[g].pc # "patch" \/ proc'[g].want = "Retry"
      BY <2>1 DEF TypeOK, StartPatch, At, Patching
    <3>2. proc'[g].req = proc[g].req
      BY <2>1 DEF TypeOK, StartPatch, At, Patching
    <3> QED
      BY <2>2, <3>1, <3>2 DEF ReadyProcOK
  <2> QED
    BY <2>1, <2>2, <2>3, GoroutineReady DEF ReadyOK
<1>5. CASE CopyReturns(g)
  <2>1. download' = download /\ Working(proc[g])
    BY <1>5 DEF CopyReturns, Working
  <2>2. /\ ph # "Completed" /\ ~Told
        /\ proc[g].req.phase # "Completed" /\ proc[g].req.volumeID = None
    BY <1>p, <2>1 DEF ReadyProcOK
  <2>3. ReadyProcOK(proc'[g], ph, Told, complete')
    <3>1. CASE complete' = complete \cup {proc[g].vol} /\ StartPatch(g, "Completed", proc[g].vol)
      BY <2>2, <3>1 DEF ReadyProcOK, TypeOK, StartPatch, Patching, Working
    <3>2. CASE StartPatch(g, "Retry", None)
      BY <2>2, <3>2 DEF ReadyProcOK, TypeOK, StartPatch, Patching, Working
    <3> QED
      BY <1>5, <3>1, <3>2 DEF CopyReturns
  <2> QED
    BY <2>1, <2>2, <2>3, GoroutineReady DEF ReadyOK
<1> QED
  BY <1>1, <1>2, <1>3, <1>4, <1>5 DEF ProcessDownload

\* As long as the lease is not lost, every step keeps a volume that the caller
\* was told of.
LEMMA StepReady ==
  ASSUME TypeOK, Alone, ReadyOK, [Next]_vars
  PROVE  ReadyOK'
<1>1. CASE UNCHANGED vars
  BY <1>1 DEF vars, ReadyOK, Told
<1>2. CASE CreateVolumeFromSnapshot
  <2>0. UNCHANGED <<complete, proc>>
    BY <1>2 DEF CreateVolumeFromSnapshot, CreateDownload, PollDownload, UpdateClone, volumeVars
  <2>1. CASE CreateDownload
    <3>1. ~Told /\ ~Told' /\ download' \in {download, NewDownload}
      BY <2>1 DEF CreateDownload, Caller, Told
    <3>2. \A g \in Goroutine : ReadyProcOK(proc[g], download'.phase, Told', complete)
      <4>1. download'.phase = "Completed" => download'.phase = download.phase
        BY <3>1 DEF NewDownload, DownloadIn
      <4> QED
        BY <3>1, <4>1 DEF ReadyOK, ReadyProcOK
    <3> QED
      BY <2>0, <3>1, <3>2 DEF ReadyOK, NewDownload, DownloadIn
  <2>2. CASE PollDownload
    <3>1. /\ download' = download
          /\ Told' => download.phase = "Completed" /\ caller'.vol = download.volumeID
      BY <2>2 DEF PollDownload, Caller, Told
    <3>2. \A g \in Goroutine : ReadyProcOK(proc[g], download.phase, Told', complete)
      BY <3>1 DEF ReadyOK, ReadyProcOK
    <3> QED
      BY <2>0, <3>1, <3>2 DEF ReadyOK
  <2>3. CASE UpdateClone
    <3>1. download' = download /\ Told /\ (Told' => caller'.vol = caller.vol)
      BY <2>3 DEF UpdateClone, Caller, Told
    <3>2. \A g \in Goroutine : ReadyProcOK(proc[g], download.phase, Told', complete)
      BY <3>1 DEF ReadyOK, ReadyProcOK
    <3> QED
      BY <2>0, <3>1, <3>2 DEF ReadyOK
  <2> QED
    BY <1>2, <2>1, <2>2, <2>3 DEF CreateVolumeFromSnapshot
<1>3. ASSUME NEW n \in Node,
             \/ DeliverEvent(n) \/ EnqueueDownloadItem(n) \/ ProcessDownloadItem(n)
             \/ Elect(n) \/ LoseLease(n) \/ Crash(n) \/ Restart(n)
      PROVE  ReadyOK'
  <2>1. UNCHANGED <<volumeVars, caller>> /\ (download' = download \/ download' = NoDownload)
    BY <1>3, NodeGoroutines
  <2>2. ASSUME NEW g \in Goroutine PROVE ReadyProcOK(proc'[g], download'.phase, Told, complete)
    <3>1. \/ proc'[g] = proc[g]
          \/ proc'[g] = IdleProc
          \/ proc'[g] = At(n, "get", NoDownload, None)
      BY <1>3, NodeGoroutines
    <3>2. ReadyProcOK(proc[g], download'.phase, Told, complete)
      BY <2>1 DEF ReadyOK, ReadyProcOK, NoDownload, DownloadIn
    <3> QED
      BY <3>1, <3>2, FreshReady
  <2> QED
    BY <2>1, <2>2 DEF ReadyOK, Told, NoDownload, DownloadIn, volumeVars
<1>4. ASSUME NEW g \in Goroutine, ProcessDownload(g) PROVE ReadyOK'
  BY <1>4, ProcessReady
<1> QED
  BY <1>1, <1>2, <1>3, <1>4 DEF Next

-----------------------------------------------------------------------------
(* The inductive invariant and the theorems *)

DownloadInv ==
  /\ TypeOK /\ CopyingOK
  /\ ~overwrite => NewVolumesOK
  /\ ~Happened("lease") => Alone /\ ReadyOK

\* No goroutine runs at first, and there is no Download.
LEMMA InitInv == Init => DownloadInv
<1> SUFFICES ASSUME Init PROVE DownloadInv
  OBVIOUS
<1>1. \A g \in Goroutine : proc[g] = IdleProc
  BY DEF Init
<1>2. \A g \in Goroutine : proc[g].pc = "idle"
  BY <1>1 DEF IdleProc, At
<1>3. CopyingOK /\ Alone
  BY <1>2 DEF CopyingOK, Alone
<1>4. /\ complete = {} /\ download.phase = "Gone" /\ download.volumeID = None
      /\ caller.pc = "create"
  BY DEF Init, NoDownload, DownloadIn, Caller
<1>5. NewVolumesOK
  BY <1>1, <1>4, FreshVolumes DEF NewVolumesOK
<1>6. ReadyOK
  BY <1>1, <1>4, FreshReady DEF ReadyOK, Told
<1> QED
  BY <1>3, <1>5, <1>6, InitType DEF DownloadInv

\* Every step keeps the invariant.
LEMMA StepInv == DownloadInv /\ [Next]_vars => DownloadInv'
<1> SUFFICES ASSUME DownloadInv, [Next]_vars PROVE DownloadInv'
  OBVIOUS
<1>1. TypeOK' /\ CopyingOK'
  BY StepType DEF DownloadInv
<1>2. ~overwrite' => NewVolumesOK'
  BY <1>1, StepVolumes DEF DownloadInv
<1>3. ~Happened("lease")' => Alone' /\ ReadyOK'
  BY FaultsStay, StepAlone, StepReady DEF DownloadInv
<1> QED
  BY <1>1, <1>2, <1>3 DEF DownloadInv

\* The invariant holds in every reachable state.
THEOREM Invariance == Spec => []DownloadInv
BY InitInv, StepInv, PTL DEF Spec

\* Whatever faults, lost leases included, hit the nodes: a new volume that a
\* Completed download names, or that CreateVolumeFromSnapshot got, holds the
\* whole snapshot, because the two status patches of a copy's end go together.
THEOREM NewVolumes == Spec => []NewVolumeHasData
<1>1. DownloadInv => NewVolumeHasData
  BY DEF DownloadInv, NewVolumesOK, NewVolumeHasData
<1> QED
  BY <1>1, Invariance, PTL

\* As long as no lease is lost, a volume that CreateVolumeFromSnapshot returns
\* is complete and stays so, also when it is an existing one that is written
\* over: through crashes, lost answers and retries no further copy starts once
\* the caller was told of a volume.
THEOREM ReadyVolumes == Spec => []VolumeReady
<1>1. DownloadInv => VolumeReady
  BY DEF DownloadInv, ReadyOK, Told, VolumeReady
<1> QED
  BY <1>1, Invariance, PTL

-----------------------------------------------------------------------------
(* The end of a download *)

\* A goroutine that patches to Completed patches in the volume that a Completed
\* download names already.
SameVolume ==
  \A g \in Goroutine :
    proc[g].pc = "patch" /\ proc[g].want = "Completed" /\ download.phase = "Completed" =>
      download.volumeID = proc[g].vol

\* A Completed download stays as it is until it is cleaned up.
DownloadKept ==
  ~Happened("lease")' /\ download.phase = "Completed" =>
    \/ download'.phase = "Completed" /\ download'.volumeID = download.volumeID
    \/ download' = NoDownload

\* What a patch makes of the Download, by a goroutine that has copied or not.
LEMMA PatchEnds ==
  ASSUME TypeOK, ReadyOK, SameVolume, NEW g \in Goroutine, PatchDownloadByStatus(g)
  PROVE  /\ download.phase = "Completed" =>
              download'.phase = "Completed" /\ download'.volumeID = download.volumeID
         /\ proc'[g].pc = "patch" /\ proc'[g].want = "Completed" /\ download'.phase = "Completed" =>
              download'.volumeID = proc'[g].vol
<1> DEFINE p == proc[g]
           req == Mutate(p.req, p.want, p.vol)
           patched == MergePatch(download, p.req, req)
<1>0. p \in ProcState /\ p.pc = "patch" /\ ReadyProcOK(p, download.phase, Told, complete)
  BY DEF PatchDownloadByStatus, TypeOK, ReadyOK
<1>1. download' \in {download, patched}
  BY DEF PatchDownloadByStatus
<1>2. \/ proc'[g].pc # "patch"
      \/ proc'[g].pc = "patch" /\ proc'[g].want = p.want /\ proc'[g].vol = p.vol
  <2>1. \/ \E err \in BOOLEAN : Return(g, err)
        \/ proc' = [proc EXCEPT ![g] = At(p.node, "copy", patched, None)]
        \/ proc' = [proc EXCEPT ![g] = Patching(p.node, req, p.want, p.vol, p.tries + 1)]
    <3>1. (p.want = "Retry") \in BOOLEAN /\ TRUE \in BOOLEAN
      OBVIOUS
    <3> QED
      BY <3>1, Zenon DEF PatchDownloadByStatus
  <2>2. \/ proc'[g] = IdleProc
        \/ proc'[g] = At(p.node, "copy", patched, None)
        \/ proc'[g] = Patching(p.node, req, p.want, p.vol, p.tries + 1)
    BY <2>1 DEF Return, TypeOK
  <2>3. /\ IdleProc.pc = "idle"
        /\ At(p.node, "copy", patched, None).pc = "copy"
        /\ Patching(p.node, req, p.want, p.vol, p.tries + 1).pc = "patch"
        /\ Patching(p.node, req, p.want, p.vol, p.tries + 1).want = p.want
        /\ Patching(p.node, req, p.want, p.vol, p.tries + 1).vol = p.vol
    BY DEF IdleProc, At, Patching
  <2> QED
    BY <2>2, <2>3
<1>3. CASE p.want = "Completed"
  <2>1. req.phase = "Completed" /\ req.volumeID = p.vol
    BY <1>3 DEF Mutate, DownloadIn
  <2>2. p.vol # None
    BY <1>0, <1>3, DownloadAssumption DEF ReadyProcOK, TypeOK, ReadyOK
  <2>3. \/ patched.phase = "Completed" /\ patched.volumeID = p.vol
        \/ patched.phase = download.phase /\ patched.volumeID = download.volumeID
    BY <1>0, <1>3, <2>1, <2>2 DEF MergePatch, DownloadIn, ReadyProcOK
  <2>4. download.phase = "Completed" => download.volumeID = p.vol
    BY <1>0, <1>3 DEF SameVolume
  <2> QED
    BY <1>1, <1>2, <2>3, <2>4
<1>4. CASE p.want # "Completed"
  <2>1. download.phase # "Completed"
    BY <1>0, <1>4 DEF ReadyProcOK, Working
  <2> QED
    BY <1>2, <1>4, <2>1
<1> QED
  BY <1>3, <1>4

\* Every step keeps the volume that a Completed download names.
LEMMA StepEnd ==
  ASSUME DownloadInv, ~Happened("lease") => SameVolume, [Next]_vars, ~Happened("lease")'
  PROVE  SameVolume' /\ DownloadKept
<1>0. TypeOK /\ Alone /\ ReadyOK /\ SameVolume
  BY FaultsStay DEF DownloadInv
<1>1. CASE UNCHANGED <<download, proc>>
  BY <1>0, <1>1 DEF SameVolume, DownloadKept
<1>2. CASE CreateVolumeFromSnapshot
  <2>1. proc' = proc /\ (download' = download \/ (download.phase = "Gone" /\ download' = NewDownload))
    BY <1>2 DEF CreateVolumeFromSnapshot, CreateDownload, PollDownload, UpdateClone
  <2>2. NewDownload.phase = "New"
    BY DEF NewDownload, DownloadIn
  <2> QED
    BY <1>0, <2>1, <2>2 DEF SameVolume, DownloadKept
<1>3. ASSUME NEW n \in Node,
             \/ DeliverEvent(n) \/ EnqueueDownloadItem(n) \/ ProcessDownloadItem(n)
             \/ Elect(n) \/ LoseLease(n) \/ Crash(n) \/ Restart(n)
      PROVE  SameVolume' /\ DownloadKept
  <2>1. download' = download \/ download' = NoDownload
    BY <1>0, <1>3, NodeGoroutines
  <2>2. ASSUME NEW g \in Goroutine PROVE proc'[g] = proc[g] \/ proc'[g].pc # "patch"
    <3>1. \/ proc'[g] = proc[g]
          \/ proc'[g] = IdleProc
          \/ proc'[g] = At(n, "get", NoDownload, None)
      BY <1>0, <1>3, NodeGoroutines
    <3>2. IdleProc.pc = "idle" /\ At(n, "get", NoDownload, None).pc = "get"
      BY DEF IdleProc, At
    <3> QED
      BY <3>1, <3>2
  <2>3. NoDownload.phase = "Gone"
    BY DEF NoDownload, DownloadIn
  <2> QED
    BY <1>0, <2>1, <2>2, <2>3 DEF SameVolume, DownloadKept
<1>4. ASSUME NEW g \in Goroutine, ProcessDownload(g) PROVE SameVolume' /\ DownloadKept
  <2>0. \A h \in Goroutine : h # g => proc'[h] = proc[h] /\ proc[h].pc = "idle"
    BY <1>0, <1>4, GoroutineLease, OthersStay, Sole
  <2>1. CASE PatchDownloadByStatus(g)
    <3>1. /\ download.phase = "Completed" =>
               download'.phase = "Completed" /\ download'.volumeID = download.volumeID
          /\ proc'[g].pc = "patch" /\ proc'[g].want = "Completed" /\ download'.phase = "Completed" =>
               download'.volumeID = proc'[g].vol
      BY <1>0, <2>1, PatchEnds
    <3> QED
      BY <2>0, <3>1 DEF SameVolume, DownloadKept
  <2>2. CASE GetDownload(g) \/ GetBackupRepositoryFails(g)
    <3>1. download' = download
      BY <2>2 DEF GetDownload, GetBackupRepositoryFails
    <3>2. proc'[g].pc # "patch" \/ proc'[g].want # "Completed"
      <4>1. \/ proc'[g] = IdleProc
            \/ proc'[g] = At(proc[g].node, "copy", download, None)
            \/ proc'[g] = Patching(proc[g].node, download, "InProgress", None, 0)
        BY <1>0, <2>2 DEF GetDownload, GetBackupRepositoryFails, Return, TypeOK
      <4>2. /\ IdleProc.pc = "idle" /\ At(proc[g].node, "copy", download, None).pc = "copy"
            /\ Patching(proc[g].node, download, "InProgress", None, 0).want = "InProgress"
        BY DEF IdleProc, At, Patching
      <4> QED
        BY <4>1, <4>2
    <3> QED
      BY <2>0, <3>1, <3>2 DEF SameVolume, DownloadKept
  <2>3. CASE CopyFromRepo(g) \/ CopyReturns(g)
    <3>1. download' = download /\ Working(proc[g])
      BY <2>3 DEF CopyFromRepo, CopyReturns, Working
    <3>2. download.phase # "Completed"
      BY <1>0, <3>1 DEF ReadyOK, ReadyProcOK
    <3> QED
      BY <3>1, <3>2 DEF SameVolume, DownloadKept
  <2> QED
    BY <1>4, <2>1, <2>2, <2>3 DEF ProcessDownload
<1> QED
  BY <1>1, <1>2, <1>3, <1>4 DEF Next, vars

\* As long as no lease is lost, the end of a download is final: through crashes,
\* lost answers and repeated patches, a Completed download names the volume it
\* named when CreateVolumeFromSnapshot polled it, until it is cleaned up.
THEOREM CompletedStays == Spec => [][DownloadKept]_vars
<1> DEFINE EndInv == DownloadInv /\ (~Happened("lease") => SameVolume)
<1>1. Init => EndInv
  <2> SUFFICES ASSUME Init PROVE DownloadInv /\ SameVolume
    OBVIOUS
  <2>1. download.phase = "Gone"
    BY DEF Init, NoDownload, DownloadIn
  <2> QED
    BY <2>1, InitInv DEF SameVolume
<1>2. EndInv /\ [Next]_vars => EndInv' /\ [DownloadKept]_vars
  <2> SUFFICES ASSUME EndInv, [Next]_vars PROVE EndInv' /\ [DownloadKept]_vars
    OBVIOUS
  <2>1. DownloadInv'
    BY StepInv
  <2>2. ~Happened("lease")' => SameVolume' /\ DownloadKept
    BY StepEnd
  <2>3. Happened("lease")' => DownloadKept
    BY DEF DownloadKept
  <2> QED
    BY <2>1, <2>2, <2>3
<1> QED
  BY <1>1, <1>2, PTL DEF Spec

=============================================================================
