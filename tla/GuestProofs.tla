----------------------------- MODULE GuestProofs ------------------------------
(***************************************************************************)
(* Proofs about GuestCluster, for any number of objects in the supervisor  *)
(* cluster and any faults.                                                 *)
(***************************************************************************)
EXTENDS GuestCluster, WellFoundedInduction, SequenceTheorems, TLAPS

\* The guest's Snapshot names a snapshot of the supervisor by its ID too; that
\* one was taken, and nothing is left to do for createSnapshot.  The map holds
\* no other.
NamedOK ==
  /\ snapshot.id = IF snapshot.svc = None THEN None ELSE GuestSnapshotID(snapshot.svc)
  /\ snapshot.svc # None =>
       /\ svc[snapshot.svc].told
       /\ snapshot.phase # "New"
       /\ worker["create"].pc = "idle"
  /\ svcSnapshotMap \subseteq {snapshot.svc}

\* What the two workers know of the supervisor's Snapshots.
WorkerOK ==
  LET c == worker["create"]
      m == worker["mirror"]
  IN /\ c.pc \in {"status", "list", "watch", "metadata"} => c.n \in SvcName
     /\ c.pc \in {"metadata", "get", "put"} /\ c.n # None => svc[c.n].told
     /\ c.pc \in {"get", "put"} => c.want \in {"Snapshotted", "SnapshotFailed"}
     /\ m.n = None /\ m.pc \in {"idle", "get", "put"}
     /\ m.pc \in {"get", "put"} =>
          /\ snapshot.svc # None /\ m.want \in Mirrored
          /\ m.want = "Uploaded" => svc[snapshot.svc].up = "Completed"

\* The phase of a supervisor's Snapshot is the outcome of createSnapshot or that
\* of its Upload.
SvcOK ==
  \A n \in SvcName :
    /\ svc[n].phase \in WaitForPhases => svc[n].told
    /\ svc[n].phase = "Uploaded" => svc[n].up = "Completed"

\* The supervisor's clones are made from the snapshot that the guest's Snapshot
\* names; the volume that the guest's PVC is bound to is one of theirs, unless
\* the creation of a PV failed.
CloneOK ==
  /\ clone # "Absent" \/ restore.pc # "idle" => snapshot.svc # None
  /\ \A n \in SvcName :
       /\ svcClone[n].phase # "Absent" =>
            snapshot.svc # None /\ svcClone[n].id = ConvertSnapshotID(snapshot.id, n)
       /\ svcClone[n].phase = "Completed" => svcClone[n].data
  /\ restore.pc = "wait" => restore.n \in SvcName
  /\ restore.pc \in {"pv", "pvc"} =>
       restore.n \in SvcName /\ svcClone[restore.n].phase = "Completed"
  /\ restore.pc = "pvc" => restore.volume = restore.n \/ Happened("pv")
  /\ claim.exists =>
       \/ claim.volume \in SvcName /\ svcClone[claim.volume].phase = "Completed"
       \/ Happened("pv")
  /\ restore.pc = "update" \/ clone = "Completed" => claim.exists

\* The data of a supervisor's snapshot is gone for good, or its upload has been
\* asked to stop.
Deleted(n) ==
  \/ svc[n].cancel
  \/ ~svc[n].local /\ ~svc[n].remote /\ svc[n].up \in TerminalUploads

DeleteOK ==
  /\ delete.pc # "idle" => delete.phase # "Absent"
  /\ delete.phase # "Absent" => snapshot.svc # None
  /\ svcDelete.phase # "Absent" =>
       snapshot.svc # None /\ svcDelete.id = ReconstructedID(snapshot.id)
  /\ svcDelete.phase = "Completed" => Deleted(snapshot.svc)
  /\ svcDelete.phase = "Failed" => Happened("svc")
  /\ delete.phase = "Completed" \/ delete.pc = "Completed" =>
       delete.phase # "Absent" /\ (Deleted(snapshot.svc) \/ Happened("svc"))

GuestInv ==
  /\ TypeOK /\ NamedOK /\ WorkerOK /\ SvcOK
  /\ UploadedInGuest /\ CloneOK /\ DeleteOK

-----------------------------------------------------------------------------
(* Names and IDs *)

\* A set of numbers that is not empty has a least element: the next name is a
\* free one.
LEMMA MinIn ==
  ASSUME NEW S, S \subseteq Nat, S # {}
  PROVE  Min(S) \in S
<1> DEFINE R == {ss \in Nat \X Nat : ss[1] < ss[2]}
<1>1. IsWellFoundedOn(R, Nat)
  BY NatLessThanWellFounded, Zenon DEF OpToRel
<1>2. \A x, y \in Nat : y < x => <<y, x>> \in R
  OBVIOUS
<1> HIDE DEF R
<1>3. PICK x \in S : \A y \in S : ~(<<y, x>> \in R)
  BY <1>1, WFMin
<1>4. \A y \in S : ~(y < x) => x =< y
  OBVIOUS
<1>5. \A y \in S : x =< y
  BY <1>2, <1>3, <1>4
<1> QED
  BY <1>5 DEF Min

\* No name is None.
LEMMA Names == None \notin SvcName /\ SvcName \subseteq Nat
BY GuestAssumption DEF SvcName

\* SnapshotRef takes a name that is not in use.
LEMMA NewSvcFree ==
  ASSUME NewSvc # None
  PROVE  NewSvc \in SvcName /\ svc[NewSvc] = NoSvc
<1> DEFINE S == {n \in SvcName : svc[n] = NoSvc}
<1>1. S # {} /\ NewSvc = Min(S)
  BY DEF NewSvc, Least
<1>2. Min(S) \in S
  BY <1>1, MinIn, Names
<1> QED
  BY <1>1, <1>2

\* So does CreateFromMetadata.
LEMMA NewCloneFree ==
  ASSUME NewClone # None
  PROVE  NewClone \in SvcName /\ svcClone[NewClone].phase = "Absent"
<1> DEFINE S == {n \in SvcName : svcClone[n].phase = "Absent"}
<1>1. S # {} /\ NewClone = Min(S)
  BY DEF NewClone, Least
<1>2. Min(S) \in S
  BY <1>1, MinIn, Names
<1> QED
  BY <1>1, <1>2

\* An ID of one entity, put behind another entity.
LEMMA ConcatOne ==
  ASSUME NEW a, NEW b
  PROVE  <<a>> \o <<b>> = <<a, b>>
<1> DEFINE S == {a, b}
           s == <<a>> \o <<b>>
           t == <<a, b>>
<1>1. <<a>> \in Seq(S) /\ <<b>> \in Seq(S)
  OBVIOUS
<1>2. t \in Seq(S) /\ Len(t) = 2 /\ t[1] = a /\ t[2] = b
  OBVIOUS
<1>3. s \in Seq(S) /\ Len(s) = 2
  BY <1>1, ConcatProperties
<1>4. s[1] = a /\ s[2] = b
  BY <1>1, ConcatProperties
<1> HIDE DEF S, s, t
<1>5. \A i \in 1..Len(s) : s[i] = t[i]
  BY <1>2, <1>3, <1>4
<1>6. s = t
  BY <1>2, <1>3, <1>5, SeqEqual
<1> QED
  BY <1>6 DEF s, t

\* The same, behind two entities.
LEMMA ConcatTwo ==
  ASSUME NEW a, NEW b, NEW c
  PROVE  <<a, b>> \o <<c>> = <<a, b, c>>
<1> DEFINE S == {a, b, c}
           s == <<a, b>> \o <<c>>
           t == <<a, b, c>>
<1>1. <<a, b>> \in Seq(S) /\ <<c>> \in Seq(S)
  OBVIOUS
<1>2. t \in Seq(S) /\ Len(t) = 3 /\ t[1] = a /\ t[2] = b /\ t[3] = c
  OBVIOUS
<1>3. s \in Seq(S) /\ Len(s) = 3
  BY <1>1, ConcatProperties
<1>4. s[1] = a /\ s[2] = b /\ s[3] = c
  BY <1>1, ConcatProperties
<1> HIDE DEF S, s, t
<1>5. \A i \in 1..Len(s) : s[i] = t[i]
  BY <1>2, <1>3, <1>4
<1>6. s = t
  BY <1>2, <1>3, <1>5, SeqEqual
<1> QED
  BY <1>6 DEF s, t

\* decodeSnapshotID stops at an ivd, at the first place or at the second.
LEMMA DecodeFirst ==
  ASSUME NEW n
  PROVE  DecodeSnapshotID(<<Entity("ivd", n)>>) = <<Entity("ivd", n)>>
<1> DEFINE t == <<Entity("ivd", n)>>
           ends == {i \in DOMAIN t : t[i].type = "ivd" \/ i = Len(t)}
<1>1. Min(ends) = 1
  <2>1. ends = {1}
    OBVIOUS
  <2> QED
    BY <2>1 DEF Min
<1>2. t \in Seq({Entity("ivd", n)}) /\ Len(t) = 1
  OBVIOUS
<1>3. DecodeSnapshotID(t) = SubSeq(t, Min(ends), Len(t))
  BY DEF DecodeSnapshotID
<1> HIDE DEF t, ends
<1>4. DecodeSnapshotID(t) = t
  BY <1>1, <1>2, <1>3, SubSeqFull
<1> QED
  BY <1>4 DEF t

\* An entity before the ivd is skipped.
LEMMA DecodeSecond ==
  ASSUME NEW n
  PROVE  DecodeSnapshotID(<<Entity("paravirt-pv", "pv"), Entity("ivd", n)>>)
           = <<Entity("ivd", n)>>
<1> DEFINE t == <<Entity("paravirt-pv", "pv"), Entity("ivd", n)>>
           ends == {i \in DOMAIN t : t[i].type = "ivd" \/ i = Len(t)}
<1>1. Min(ends) = 2
  <2>1. ends = {2}
    BY DEF Entity
  <2> QED
    BY <2>1 DEF Min
<1>2. /\ t \in Seq({Entity("paravirt-pv", "pv"), Entity("ivd", n)})
      /\ Len(t) = 2 /\ t # <<>> /\ Tail(t) = <<Entity("ivd", n)>>
  OBVIOUS
<1>3. DecodeSnapshotID(t) = SubSeq(t, Min(ends), Len(t))
  BY DEF DecodeSnapshotID
<1> HIDE DEF t, ends
<1>4. DecodeSnapshotID(t) = Tail(t)
  BY <1>1, <1>2, <1>3, TailIsSubSeq, Zenon
<1> QED
  BY <1>2, <1>4 DEF t

\* The entity behind an ID of two parts, the second of which is an ivd.
LEMMA TargetOfPair ==
  ASSUME NEW e, NEW n
  PROVE  Target(<<e, Entity("ivd", n)>>) = Entity("ivd", n)
<1>1. Tail(<<e, Entity("ivd", n)>>) = <<Entity("ivd", n)>>
  OBVIOUS
<1> QED
  BY <1>1, DecodeFirst DEF Target, GetSnapshotID

\* The snapshot ID of the guest, spelled out.
LEMMA GuestIDParts ==
  ASSUME NEW n
  PROVE  GuestSnapshotID(n) =
           <<Entity("pvc", "guest-pvc"), Entity("paravirt-pv", "pv"), Entity("ivd", n)>>
<1>1. GetSnapshotID(SvcSnapshotID(n)) = <<Entity("ivd", n)>>
  BY DEF GetSnapshotID, SvcSnapshotID
<1> QED
  BY <1>1, ConcatTwo DEF GuestSnapshotID

\* Its tail, the snapshot ID of the para-virtual PV.
LEMMA GuestIDTail ==
  ASSUME NEW n
  PROVE  GetSnapshotID(GuestSnapshotID(n)) = <<Entity("paravirt-pv", "pv"), Entity("ivd", n)>>
<1>1. ASSUME NEW a, NEW b, NEW c PROVE Tail(<<a, b, c>>) = <<b, c>>
  OBVIOUS
<1> QED
  BY <1>1, GuestIDParts, Zenon DEF GetSnapshotID

\* What ParaVirt's DeleteSnapshot makes of it.
LEMMA ReconstructedParts ==
  ASSUME NEW n
  PROVE  ReconstructedID(GuestSnapshotID(n)) = <<Entity("pvc", "pv"), Entity("ivd", n)>>
<1>1. ASSUME NEW a, NEW b PROVE Tail(<<a, b>>) = <<b>>
  OBVIOUS
<1>2. GetSnapshotID(GetSnapshotID(GuestSnapshotID(n))) = <<Entity("ivd", n)>>
  BY <1>1, GuestIDTail, Zenon DEF GetSnapshotID
<1> QED
  BY <1>2, ConcatOne, Zenon DEF ReconstructedID

\* What convertSnapshotID makes of it.
LEMMA ConvertedParts ==
  ASSUME NEW n, NEW m
  PROVE  ConvertSnapshotID(GuestSnapshotID(n), m) = <<Entity("pvc", m), Entity("ivd", n)>>
<1>1. DecodeSnapshotID(GetSnapshotID(GuestSnapshotID(n))) = <<Entity("ivd", n)>>
  BY GuestIDTail, DecodeSecond, Zenon
<1> QED
  BY <1>1, ConcatOne, Zenon DEF ConvertSnapshotID

\* Both mean the supervisor's snapshot that the ID was made from.
LEMMA IDTargets ==
  ASSUME NEW n, NEW m
  PROVE  /\ Target(ReconstructedID(GuestSnapshotID(n))) = Entity("ivd", n)
         /\ Target(ConvertSnapshotID(GuestSnapshotID(n), m)) = Entity("ivd", n)
BY ReconstructedParts, ConvertedParts, TargetOfPair

-----------------------------------------------------------------------------
(* What the steps write *)

\* The states of a worker.
LEMMA WorkerFields ==
  /\ \A pc, n : At(pc, n).pc = pc /\ At(pc, n).n = n /\ At(pc, n).want = ""
  /\ \A p, n : Update(p, n).pc = "get" /\ Update(p, n).n = n /\ Update(p, n).want = p
  /\ Idle.pc = "idle" /\ Idle.n = None /\ Idle.want = ""
  /\ \A pc \in {"idle", "repository", "create", "status", "list", "watch", "metadata"},
       n \in SvcName \cup {None} : At(pc, n) \in WorkerState
  /\ \A p \in {"Snapshotted"} \cup Mirrored, n \in SvcName \cup {None} : Update(p, n) \in WorkerState
  /\ Idle \in WorkerState
BY DEF At, Update, Idle, WorkerState

\* The states of the restore.
LEMMA RestoreFields ==
  /\ \A pc, n, v : Restoring(pc, n, v).pc = pc /\ Restoring(pc, n, v).n = n
                   /\ Restoring(pc, n, v).volume = v
  /\ NotRestoring.pc = "idle" /\ NotRestoring.n = None /\ RestoreFails.pc = "fail"
  /\ \A pc \in {"idle", "queued", "create", "wait", "pv", "pvc", "bind", "update", "fail"},
       n, v \in SvcName \cup {None} : Restoring(pc, n, v) \in RestoreState
  /\ NotRestoring \in RestoreState /\ RestoreFails \in RestoreState
BY DEF Restoring, NotRestoring, RestoreFails, RestoreState

\* A worker goes to a new state; the other one stays where it is.
LEMMA GotoFields ==
  ASSUME TypeOK, NEW w \in {"create", "mirror"}, NEW state \in WorkerState, Goto(w, state)
  PROVE  /\ worker' \in [{"create", "mirror"} -> WorkerState]
         /\ worker'[w] = state
         /\ \A v \in {"create", "mirror"} \ {w} : worker'[v] = worker[v]
BY DEF TypeOK, Goto

\* A fault is counted and remembered.
LEMMA FaultType ==
  ASSUME TypeOK, NEW kind, Fault(kind)
  PROVE  FaultsOK' /\ faults.kinds \subseteq faults'.kinds /\ Happened(kind)'
BY DEF TypeOK, FaultsOK, Fault, Happened

\* The supervisor's Snapshot n is now as described, the others are as they were.
SvcBecomes(n, phase, up, told, cancel, local, remote) ==
  /\ svc' \in [SvcName -> SvcSnapshot]
  /\ \A m \in SvcName \ {n} : svc'[m] = svc[m]
  /\ svc'[n].phase = phase /\ svc'[n].up = up /\ svc'[n].told = told
  /\ svc'[n].cancel = cancel /\ svc'[n].local = local /\ svc'[n].remote = remote

\* How the guest's and the supervisor's steps change a supervisor's Snapshot.
SvcChanges(n) ==
  LET s == svc[n] IN
  \/ /\ s = NoSvc
     /\ SvcBecomes(n, "", s.up, s.told, s.cancel, s.local, s.remote)
  \/ SvcBecomes(n, "New", s.up, s.told, s.cancel, s.local, s.remote)
  \/ /\ ~s.told /\ s.phase = "New" /\ s.up = "Absent"
     /\ \E up \in {"Absent", "InProgress"} :
          SvcBecomes(n, "New", up, FALSE, s.cancel, TRUE, s.remote)
  \/ \E p \in WaitForPhases : SvcBecomes(n, p, s.up, TRUE, s.cancel, s.local, s.remote)
  \/ /\ s.up \in {"InProgress", "UploadError"}
     /\ \E up \in DOMAIN SvcPhaseOf, local, remote \in BOOLEAN :
          SvcBecomes(n, s.phase, up, s.told, s.cancel, local, remote)
  \/ /\ s.up # "Absent"
     /\ SvcBecomes(n, SvcPhaseOf[s.up], s.up, s.told, s.cancel, s.local, s.remote)
  \/ SvcBecomes(n, "Gone", s.up, s.told, s.cancel, s.local, s.remote)
  \/ /\ s.up \in TerminalUploads
     /\ SvcBecomes(n, s.phase, s.up, s.told, s.cancel, FALSE, FALSE)
  \/ SvcBecomes(n, s.phase, s.up, s.told, TRUE, s.local, s.remote)

\* How an Upload's phase is mirrored.
LEMMA PhaseOfValues ==
  /\ DOMAIN SvcPhaseOf = {"InProgress", "Completed", "UploadError", "Canceled", "UploadFailedAfterRetry"}
  /\ SvcPhaseOf["InProgress"] = "Uploading" /\ SvcPhaseOf["Completed"] = "Uploaded"
  /\ SvcPhaseOf["UploadError"] = "UploadFailed" /\ SvcPhaseOf["Canceled"] = "Canceled"
  /\ SvcPhaseOf["UploadFailedAfterRetry"] = "UploadFailedAfterRetry"
BY DEF SvcPhaseOf

\* One Snapshot is replaced.
LEMMA SvcPut ==
  ASSUME TypeOK, NEW n \in SvcName, NEW r \in SvcSnapshot, svc' = [svc EXCEPT ![n] = r]
  PROVE  SvcBecomes(n, r.phase, r.up, r.told, r.cancel, r.local, r.remote)
BY DEF TypeOK, SvcBecomes

\* The phase of a Snapshot is written.
LEMMA PhaseWritten ==
  ASSUME TypeOK, NEW n \in SvcName, NEW p, svc' = [svc EXCEPT ![n].phase = p],
         p \in {"", "New", "Gone"} \/ \E u \in DOMAIN SvcPhaseOf : p = SvcPhaseOf[u]
  PROVE  SvcBecomes(n, p, svc[n].up, svc[n].told, svc[n].cancel, svc[n].local, svc[n].remote)
<1> DEFINE r == [svc[n] EXCEPT !.phase = p]
<1>1. p \in {"", "New", "Gone", "Uploading", "Uploaded", "UploadFailed", "Canceled", "UploadFailedAfterRetry"}
  BY PhaseOfValues
<1>2. svc[n] \in SvcSnapshot /\ svc' = [svc EXCEPT ![n] = r]
  BY DEF TypeOK
<1>3. r \in SvcSnapshot
  BY <1>1, <1>2 DEF SvcSnapshot
<1>4. /\ r.phase = p /\ r.up = svc[n].up /\ r.told = svc[n].told
      /\ r.cancel = svc[n].cancel /\ r.local = svc[n].local /\ r.remote = svc[n].remote
  BY <1>2 DEF SvcSnapshot
<1> HIDE DEF r
<1>5. SvcBecomes(n, r.phase, r.up, r.told, r.cancel, r.local, r.remote)
  BY <1>2, <1>3, SvcPut
<1> QED
  BY <1>4, <1>5

\* createSnapshot in the guest writes the phase.
LEMMA WriteSvcFields ==
  ASSUME TypeOK, NEW n \in SvcName, NEW p \in {"", "New"}, NEW next, WriteSvc(n, p, next)
  PROVE  svc' = svc \/ SvcBecomes(n, p, svc[n].up, svc[n].told, svc[n].cancel, svc[n].local, svc[n].remote)
<1>1. svc' = svc \/ svc' = [svc EXCEPT ![n].phase = p]
  BY DEF WriteSvc
<1> QED
  BY <1>1, PhaseWritten

\* The supervisor's createSnapshot takes the local snapshot.
LEMMA SvcTakeFields ==
  ASSUME TypeOK, NEW n \in SvcName, SvcTake(n)
  PROVE  SvcChanges(n)
<1>1. PICK up \in {"Absent", "InProgress"} : svc' = [svc EXCEPT ![n].local = TRUE, ![n].up = up]
  BY DEF SvcTake
<1>2. svc[n].phase = "New" /\ ~svc[n].told /\ svc[n].up = "Absent"
  BY DEF SvcTake
<1> DEFINE r == [svc[n] EXCEPT !.local = TRUE, !.up = up]
<1>3. svc[n] \in SvcSnapshot /\ svc' = [svc EXCEPT ![n] = r]
  BY <1>1 DEF TypeOK
<1>4. r \in SvcSnapshot
  BY <1>3, PhaseOfValues DEF SvcSnapshot
<1>5. /\ r.phase = svc[n].phase /\ r.up = up /\ r.told = svc[n].told
      /\ r.cancel = svc[n].cancel /\ r.local = TRUE /\ r.remote = svc[n].remote
  BY <1>3 DEF SvcSnapshot
<1>6. svc[n].told = FALSE
  BY <1>2, <1>3 DEF SvcSnapshot
<1> HIDE DEF r
<1>7. SvcBecomes(n, r.phase, r.up, r.told, r.cancel, r.local, r.remote)
  BY <1>3, <1>4, SvcPut
<1>8. SvcBecomes(n, "New", up, FALSE, svc[n].cancel, TRUE, svc[n].remote)
  BY <1>2, <1>5, <1>6, <1>7
<1> QED
  BY <1>2, <1>8 DEF SvcChanges

\* It writes its outcome.
LEMMA SvcTellFields ==
  ASSUME TypeOK, NEW n \in SvcName, SvcTell(n)
  PROVE  SvcChanges(n)
<1>1. PICK p \in {"Snapshotted", "SnapshotFailed"} : svc' = [svc EXCEPT ![n].phase = p, ![n].told = TRUE]
  BY DEF SvcTell
<1> DEFINE r == [svc[n] EXCEPT !.phase = p, !.told = TRUE]
<1>2. svc[n] \in SvcSnapshot /\ svc' = [svc EXCEPT ![n] = r]
  BY <1>1 DEF TypeOK
<1>3. r \in SvcSnapshot
  BY <1>2 DEF SvcSnapshot
<1>4. /\ r.phase = p /\ r.up = svc[n].up /\ r.told = TRUE
      /\ r.cancel = svc[n].cancel /\ r.local = svc[n].local /\ r.remote = svc[n].remote
  BY <1>2 DEF SvcSnapshot
<1> HIDE DEF r
<1>5. SvcBecomes(n, r.phase, r.up, r.told, r.cancel, r.local, r.remote)
  BY <1>2, <1>3, SvcPut
<1>6. SvcBecomes(n, p, svc[n].up, TRUE, svc[n].cancel, svc[n].local, svc[n].remote)
  BY <1>4, <1>5
<1> QED
  BY <1>6 DEF SvcChanges, WaitForPhases

\* The data managers work on its Upload.
LEMMA SvcUploadFields ==
  ASSUME TypeOK, NEW n \in SvcName, SvcUpload(n)
  PROVE  SvcChanges(n)
<1>1. \E up \in DOMAIN SvcPhaseOf, local, remote \in BOOLEAN :
        svc' = [svc EXCEPT ![n].up = up, ![n].local = local, ![n].remote = remote]
  <2>1. svc[n] \in SvcSnapshot /\ svc \in [SvcName -> SvcSnapshot]
    BY DEF TypeOK
  <2>2. CASE svc' = [svc EXCEPT ![n].up = "Completed", ![n].remote = TRUE, ![n].local = FALSE]
    <3>1. svc' = [svc EXCEPT ![n].up = "Completed", ![n].local = FALSE, ![n].remote = TRUE]
      BY <2>1, <2>2 DEF SvcSnapshot
    <3> QED
      BY <3>1 DEF SvcPhaseOf
  <2>3. ASSUME NEW up \in DOMAIN SvcPhaseOf, svc' = [svc EXCEPT ![n].up = up]
        PROVE  svc' = [svc EXCEPT ![n].up = up, ![n].local = svc[n].local, ![n].remote = svc[n].remote]
    BY <2>1, <2>3 DEF SvcSnapshot
  <2>4. CASE svc' = [svc EXCEPT ![n].up = "UploadFailedAfterRetry", ![n].local = FALSE]
    <3>1. svc' = [svc EXCEPT ![n].up = "UploadFailedAfterRetry", ![n].local = FALSE, ![n].remote = svc[n].remote]
      BY <2>1, <2>4 DEF SvcSnapshot
    <3>2. svc[n].remote \in BOOLEAN
      BY <2>1 DEF SvcSnapshot
    <3> QED
      BY <3>1, <3>2 DEF SvcPhaseOf
  <2>5. svc[n].local \in BOOLEAN /\ svc[n].remote \in BOOLEAN
    BY <2>1 DEF SvcSnapshot
  <2>6. {"UploadError", "InProgress", "Canceled"} \subseteq DOMAIN SvcPhaseOf
    BY DEF SvcPhaseOf
  <2>7. \/ svc' = [svc EXCEPT ![n].up = "Completed", ![n].remote = TRUE, ![n].local = FALSE]
        \/ svc' = [svc EXCEPT ![n].up = "UploadFailedAfterRetry", ![n].local = FALSE]
        \/ \E up \in {"UploadError", "InProgress", "Canceled"} : svc' = [svc EXCEPT ![n].up = up]
    BY DEF SvcUpload
  <2>8. ASSUME NEW up \in {"UploadError", "InProgress", "Canceled"}, svc' = [svc EXCEPT ![n].up = up]
        PROVE  \E x \in DOMAIN SvcPhaseOf, local, remote \in BOOLEAN :
                 svc' = [svc EXCEPT ![n].up = x, ![n].local = local, ![n].remote = remote]
    <3>1. up \in DOMAIN SvcPhaseOf
      BY <2>6
    <3>2. svc' = [svc EXCEPT ![n].up = up, ![n].local = svc[n].local, ![n].remote = svc[n].remote]
      BY <2>3, <2>8, <3>1
    <3> QED
      BY <2>5, <3>1, <3>2, Zenon
  <2> QED
    BY <2>2, <2>4, <2>7, <2>8, Zenon
<1>2. svc[n].up \in {"InProgress", "UploadError"}
  BY DEF SvcUpload
<1>3. PICK up \in DOMAIN SvcPhaseOf, local, remote \in BOOLEAN :
        svc' = [svc EXCEPT ![n].up = up, ![n].local = local, ![n].remote = remote]
  BY <1>1
<1> DEFINE r == [svc[n] EXCEPT !.up = up, !.local = local, !.remote = remote]
<1>4. svc[n] \in SvcSnapshot /\ svc' = [svc EXCEPT ![n] = r]
  BY <1>3 DEF TypeOK
<1>5. r \in SvcSnapshot
  BY <1>4 DEF SvcSnapshot
<1>6. /\ r.phase = svc[n].phase /\ r.up = up /\ r.told = svc[n].told
      /\ r.cancel = svc[n].cancel /\ r.local = local /\ r.remote = remote
  BY <1>4 DEF SvcSnapshot
<1> HIDE DEF r
<1>7. SvcBecomes(n, r.phase, r.up, r.told, r.cancel, r.local, r.remote)
  BY <1>4, <1>5, SvcPut
<1>8. SvcBecomes(n, svc[n].phase, up, svc[n].told, svc[n].cancel, local, remote)
  BY <1>6, <1>7
<1> QED
  BY <1>2, <1>8 DEF SvcChanges

\* The supervisor's uploadWorker mirrors the Upload, and the Snapshot is cleaned
\* up in the end.
LEMMA SvcPhaseFields ==
  ASSUME TypeOK, NEW n \in SvcName, SvcMirror(n) \/ SvcCleanUp(n)
  PROVE  SvcChanges(n)
<1>1. CASE SvcMirror(n)
  <2>1. svc' = [svc EXCEPT ![n].phase = SvcPhaseOf[svc[n].up]] /\ svc[n].up # "Absent"
    BY <1>1 DEF SvcMirror
  <2>2. svc[n].up \in DOMAIN SvcPhaseOf
    BY <2>1 DEF TypeOK, SvcSnapshot
  <2> QED
    BY <2>1, <2>2, PhaseWritten DEF SvcChanges
<1>2. CASE SvcCleanUp(n)
  <2>1. svc' = [svc EXCEPT ![n].phase = "Gone"]
    BY <1>2 DEF SvcCleanUp
  <2> QED
    BY <2>1, PhaseWritten DEF SvcChanges
<1> QED
  BY <1>1, <1>2

\* The supervisor's deletion: the ID means the snapshot that the guest's
\* Snapshot names.
LEMMA SvcDeleteFields ==
  ASSUME TypeOK, NamedOK, DeleteOK, SvcDeleteEnds
  PROVE  /\ snapshot.svc \in SvcName /\ snapshot' = snapshot
         /\ \/ svc' = svc /\ svcDelete' = [svcDelete EXCEPT !.phase = "Failed"] /\ Fault("svc")
            \/ /\ SvcChanges(snapshot.svc) /\ Deleted(snapshot.svc)'
               /\ svcDelete' = [svcDelete EXCEPT !.phase = "Completed"] /\ faults' = faults
<1>1. snapshot.svc \in SvcName /\ svcDelete.id = ReconstructedID(GuestSnapshotID(snapshot.svc))
  BY DEF SvcDeleteEnds, DeleteOK, NamedOK, TypeOK, GuestSnapshot
<1>2. PICK n \in SvcName : n = snapshot.svc
  BY <1>1
<1>3. Target(svcDelete.id) = Entity("ivd", n)
  BY <1>1, <1>2, IDTargets
<1>4. Target(svcDelete.id).type = "ivd" /\ Target(svcDelete.id).name = n
  BY <1>3 DEF Entity
<1>5. svc[n] \in SvcSnapshot
  BY DEF TypeOK
<1>6. ASSUME svc' = [svc EXCEPT ![n].local = FALSE, ![n].remote = FALSE], svc[n].up \in TerminalUploads
      PROVE  SvcChanges(n) /\ Deleted(n)'
  <2> DEFINE r == [svc[n] EXCEPT !.local = FALSE, !.remote = FALSE]
  <2>1. svc' = [svc EXCEPT ![n] = r]
    BY <1>6 DEF TypeOK
  <2>2. r \in SvcSnapshot
    BY <1>5 DEF SvcSnapshot
  <2>3. /\ r.phase = svc[n].phase /\ r.up = svc[n].up /\ r.told = svc[n].told
        /\ r.cancel = svc[n].cancel /\ r.local = FALSE /\ r.remote = FALSE
    BY <1>5 DEF SvcSnapshot
  <2> HIDE DEF r
  <2>4. SvcBecomes(n, r.phase, r.up, r.told, r.cancel, r.local, r.remote)
    BY <2>1, <2>2, SvcPut
  <2>5. SvcBecomes(n, svc[n].phase, svc[n].up, svc[n].told, svc[n].cancel, FALSE, FALSE)
    BY <2>3, <2>4
  <2>6. Deleted(n)'
    BY <1>6, <2>5 DEF SvcBecomes, Deleted
  <2> QED
    BY <1>6, <2>5, <2>6 DEF SvcChanges
<1>7. ASSUME svc' = [svc EXCEPT ![n].cancel = TRUE]
      PROVE  SvcChanges(n) /\ Deleted(n)'
  <2> DEFINE r == [svc[n] EXCEPT !.cancel = TRUE]
  <2>1. svc' = [svc EXCEPT ![n] = r]
    BY <1>7 DEF TypeOK
  <2>2. r \in SvcSnapshot
    BY <1>5 DEF SvcSnapshot
  <2>3. /\ r.phase = svc[n].phase /\ r.up = svc[n].up /\ r.told = svc[n].told
        /\ r.cancel = TRUE /\ r.local = svc[n].local /\ r.remote = svc[n].remote
    BY <1>5 DEF SvcSnapshot
  <2> HIDE DEF r
  <2>4. SvcBecomes(n, r.phase, r.up, r.told, r.cancel, r.local, r.remote)
    BY <2>1, <2>2, SvcPut
  <2>5. SvcBecomes(n, svc[n].phase, svc[n].up, svc[n].told, TRUE, svc[n].local, svc[n].remote)
    BY <2>3, <2>4
  <2>6. Deleted(n)'
    BY <2>5 DEF SvcBecomes, Deleted
  <2> QED
    BY <2>5, <2>6 DEF SvcChanges
<1>8. snapshot' = snapshot
  BY DEF SvcDeleteEnds, snapshotVars
<1>9. \/ svc' = svc /\ svcDelete' = [svcDelete EXCEPT !.phase = "Failed"] /\ Fault("svc")
      \/ /\ svcDelete' = [svcDelete EXCEPT !.phase = "Completed"] /\ faults' = faults
         /\ \/ svc' = [svc EXCEPT ![n].local = FALSE, ![n].remote = FALSE] /\ svc[n].up \in TerminalUploads
            \/ svc' = [svc EXCEPT ![n].cancel = TRUE]
  BY <1>4 DEF SvcDeleteEnds
<1>10. SvcChanges(n) /\ Deleted(n)' => SvcChanges(snapshot.svc) /\ Deleted(snapshot.svc)'
  BY <1>2, <1>8 DEF Deleted
<1> QED
  BY <1>1, <1>6, <1>7, <1>8, <1>9, <1>10

\* Every step changes at most one of the supervisor's Snapshots.
LEMMA SvcStep ==
  ASSUME TypeOK, NamedOK, WorkerOK, DeleteOK, [Next]_vars
  PROVE  svc' = svc \/ \E n \in SvcName : SvcChanges(n)
<1>1. CASE CreateSvcSnapshot
  <2>1. NewSvc \in SvcName /\ svc[NewSvc] = NoSvc /\ WriteSvc(NewSvc, "", "status")
    BY <1>1, NewSvcFree DEF CreateSvcSnapshot
  <2> QED
    BY <2>1, WriteSvcFields DEF SvcChanges
<1>2. CASE UpdateSvcStatusNew
  <2>1. worker["create"].n \in SvcName /\ WriteSvc(worker["create"].n, "New", "list")
    BY <1>2 DEF UpdateSvcStatusNew, WorkerOK
  <2> QED
    BY <2>1, WriteSvcFields DEF SvcChanges
<1>3. CASE \E n \in SvcName : Supervisor(n)
  BY <1>3, SvcTakeFields, SvcTellFields, SvcUploadFields, SvcPhaseFields DEF Supervisor
<1>4. CASE SvcDeleteEnds
  BY <1>4, SvcDeleteFields
<1>5. CASE svc' = svc
  BY <1>5
<1> QED
  BY <1>1, <1>2, <1>3, <1>4, <1>5 DEF Next, vars, CreateSnapshot, SyncSnapshotByKey, GetNames,
     ListSvcSnapshots, GetMetadata, GetLatest, UpdateStatus, CleanUpSnapshot, DelSnapshot, Crash,
     RequestRestore, CloneFromSnapshot, SyncCloneFromSnapshotByKey, RestoreStep, CreateSvcClone,
     SvcCloneAnswered, CreateGuestPV, CreateGuestPVC, WaitForBound, UpdateGuestClone, FailClone,
     RequestDelete, DeleteSnapshot, CreateSvcDelete, SvcDeleteAnswered, UpdateGuestDelete,
     Mirror, SyncSvcSnapshotByKey, SvcCloneEnds

\* What is known of a supervisor's Snapshot stays true: it was taken, its upload
\* has ended, its data was deleted.
SvcKept ==
  \A n \in SvcName :
    /\ svc[n].told => svc'[n].told
    /\ svc[n].up = "Completed" => svc'[n].up = "Completed"
    /\ svc[n].told /\ Deleted(n) => Deleted(n)'

\* Every change keeps that, and the meaning of the phases.
LEMMA SvcChangesKeep ==
  ASSUME TypeOK, SvcOK, NEW n \in SvcName, SvcChanges(n)
  PROVE  SvcKept /\ SvcOK' /\ svc' \in [SvcName -> SvcSnapshot]
<1>0. svc[n] \in SvcSnapshot
  BY DEF TypeOK
<1> USE DEF SvcBecomes, SvcKept, SvcOK, Deleted
<1>1. ASSUME NEW p \in {"", "New", "Gone"},
             SvcBecomes(n, p, svc[n].up, svc[n].told, svc[n].cancel, svc[n].local, svc[n].remote)
      PROVE  SvcKept /\ SvcOK'
  BY <1>1 DEF WaitForPhases
<1>2. ASSUME ~svc[n].told, NEW up \in {"Absent", "InProgress"}, svc[n].up = "Absent",
             SvcBecomes(n, "New", up, FALSE, svc[n].cancel, TRUE, svc[n].remote)
      PROVE  SvcKept /\ SvcOK'
  BY <1>2 DEF WaitForPhases
<1>3. ASSUME NEW p \in WaitForPhases,
             SvcBecomes(n, p, svc[n].up, TRUE, svc[n].cancel, svc[n].local, svc[n].remote)
      PROVE  SvcKept /\ SvcOK'
  BY <1>3 DEF WaitForPhases
<1>4. ASSUME svc[n].up \in {"InProgress", "UploadError"}, NEW up, NEW local, NEW remote,
             SvcBecomes(n, svc[n].phase, up, svc[n].told, svc[n].cancel, local, remote)
      PROVE  SvcKept /\ SvcOK'
  BY <1>4 DEF TerminalUploads
<1>5. ASSUME svc[n].up # "Absent",
             SvcBecomes(n, SvcPhaseOf[svc[n].up], svc[n].up, svc[n].told, svc[n].cancel, svc[n].local, svc[n].remote)
      PROVE  SvcKept /\ SvcOK'
  <2>1. svc[n].up \in DOMAIN SvcPhaseOf
    BY <1>0, <1>5 DEF SvcSnapshot
  <2>2. /\ SvcPhaseOf[svc[n].up] \notin WaitForPhases
        /\ SvcPhaseOf[svc[n].up] = "Uploaded" => svc[n].up = "Completed"
    BY <2>1, PhaseOfValues DEF WaitForPhases
  <2> QED
    BY <1>5, <2>2
<1>6. ASSUME svc[n].up \in TerminalUploads,
             SvcBecomes(n, svc[n].phase, svc[n].up, svc[n].told, svc[n].cancel, FALSE, FALSE)
      PROVE  SvcKept /\ SvcOK'
  BY <1>6
<1>7. ASSUME SvcBecomes(n, svc[n].phase, svc[n].up, svc[n].told, TRUE, svc[n].local, svc[n].remote)
      PROVE  SvcKept /\ SvcOK'
  BY <1>7
<1>8. svc' \in [SvcName -> SvcSnapshot]
  BY DEF SvcChanges
<1> HIDE DEF SvcBecomes, SvcKept, SvcOK, Deleted
<1> QED
  BY <1>1, <1>2, <1>3, <1>4, <1>5, <1>6, <1>7, <1>8 DEF SvcChanges

\* So does every step.
LEMMA StepSvc ==
  ASSUME TypeOK, NamedOK, WorkerOK, SvcOK, DeleteOK, [Next]_vars
  PROVE  SvcKept /\ SvcOK' /\ svc' \in [SvcName -> SvcSnapshot]
<1>1. CASE svc' = svc
  BY <1>1 DEF SvcKept, SvcOK, Deleted, TypeOK
<1> QED
  BY <1>1, SvcStep, SvcChangesKeep

-----------------------------------------------------------------------------
(* The guest's Snapshot *)

\* What concerns the guest's Snapshot and the workers that write it.
SnapshotSide ==
  /\ snapshot \in GuestSnapshot
  /\ fresh \subseteq {"create", "mirror"}
  /\ worker \in [{"create", "mirror"} -> WorkerState]
  /\ svcSnapshotMap \subseteq SvcName
  /\ NamedOK /\ WorkerOK /\ UploadedInGuest

SideInv == TypeOK /\ NamedOK /\ WorkerOK /\ SvcOK /\ UploadedInGuest

\* What createSnapshot may say of itself.
CreateState(state) ==
  /\ state \in WorkerState
  /\ state.pc \in {"status", "list", "watch", "metadata"} => state.n \in SvcName
  /\ state.pc \in {"metadata", "get", "put"} /\ state.n # None => svc'[state.n].told
  /\ state.pc \in {"get", "put"} => state.want \in {"Snapshotted", "SnapshotFailed"}

\* The states it goes to.
LEMMA CreateStates ==
  /\ CreateState(Idle)
  /\ \A pc \in {"repository", "create"} : CreateState(At(pc, None))
  /\ \A pc \in {"status", "list", "watch"}, n \in SvcName : CreateState(At(pc, n))
  /\ \A n \in SvcName : svc'[n].told => CreateState(At("metadata", n))
  /\ \A p \in {"Snapshotted", "SnapshotFailed"}, n \in SvcName \cup {None} :
       (n # None => svc'[n].told) => CreateState(Update(p, n))
<1>1. CreateState(Idle)
  BY WorkerFields DEF CreateState
<1>2. ASSUME NEW pc \in {"repository", "create"} PROVE CreateState(At(pc, None))
  <2>1. At(pc, None) \in WorkerState /\ At(pc, None).pc = pc
    BY WorkerFields
  <2> QED
    BY <2>1 DEF CreateState
<1>3. ASSUME NEW pc \in {"status", "list", "watch"}, NEW n \in SvcName PROVE CreateState(At(pc, n))
  <2>1. At(pc, n) \in WorkerState /\ At(pc, n).pc = pc /\ At(pc, n).n = n
    BY WorkerFields
  <2> QED
    BY <2>1 DEF CreateState
<1>4. ASSUME NEW n \in SvcName, svc'[n].told PROVE CreateState(At("metadata", n))
  <2>1. At("metadata", n) \in WorkerState /\ At("metadata", n).pc = "metadata" /\ At("metadata", n).n = n
    BY WorkerFields
  <2> QED
    BY <1>4, <2>1 DEF CreateState
<1>5. ASSUME NEW p \in {"Snapshotted", "SnapshotFailed"}, NEW n \in SvcName \cup {None}, n # None => svc'[n].told
      PROVE  CreateState(Update(p, n))
  <2>1. p \in {"Snapshotted"} \cup Mirrored
    BY DEF Mirrored
  <2>2. /\ Update(p, n) \in WorkerState /\ Update(p, n).pc = "get"
        /\ Update(p, n).n = n /\ Update(p, n).want = p
    BY <2>1 DEF Update, WorkerState
  <2> QED
    BY <1>5, <2>2 DEF CreateState
<1> QED
  BY <1>1, <1>2, <1>3, <1>4, <1>5

\* Neither of them moves.
LEMMA NobodyMoves ==
  ASSUME SideInv, SvcKept, worker' = worker, snapshot' = snapshot, fresh' \subseteq {"create", "mirror"},
         svcSnapshotMap' \subseteq SvcName, svcSnapshotMap' \subseteq {snapshot.svc}
  PROVE  SnapshotSide'
<1>1. snapshot.svc \in SvcName \cup {None}
  BY DEF SideInv, TypeOK, GuestSnapshot
<1>2. NamedOK'
  BY <1>1 DEF SideInv, NamedOK, SvcKept
<1>3. WorkerOK'
  <2>1. worker["create"].n \in SvcName \cup {None}
    BY DEF SideInv, TypeOK, WorkerState
  <2> QED
    BY <1>1, <2>1 DEF SideInv, WorkerOK, SvcKept
<1>4. UploadedInGuest'
  BY <1>1 DEF SideInv, UploadedInGuest, SvcKept
<1> QED
  BY <1>2, <1>3, <1>4 DEF SideInv, SnapshotSide, TypeOK

\* createSnapshot goes on, for a Snapshot that names nothing yet.
LEMMA CreateMoves ==
  ASSUME SideInv, SvcKept, snapshot.svc = None, NEW state, CreateState(state), Goto("create", state),
         snapshot' = snapshot, fresh' \subseteq {"create", "mirror"}, svcSnapshotMap' = {}
  PROVE  SnapshotSide'
<1>1. /\ worker' \in [{"create", "mirror"} -> WorkerState]
      /\ worker'["create"] = state /\ worker'["mirror"] = worker["mirror"]
  BY GotoFields DEF SideInv, CreateState
<1>2. NamedOK'
  BY DEF SideInv, NamedOK
<1>3. WorkerOK'
  BY <1>1 DEF SideInv, WorkerOK, CreateState
<1>4. UploadedInGuest'
  BY Names DEF SideInv, UploadedInGuest
<1> QED
  BY <1>1, <1>2, <1>3, <1>4 DEF SideInv, SnapshotSide, TypeOK

\* The svcSnapshotWorker goes on.
LEMMA MirrorMoves ==
  ASSUME SideInv, SvcKept, NEW state \in WorkerState, Goto("mirror", state),
         state.n = None, state.pc \in {"idle", "get", "put"},
         state.pc \in {"get", "put"} =>
           /\ snapshot.svc # None /\ state.want \in Mirrored
           /\ state.want = "Uploaded" => svc[snapshot.svc].up = "Completed",
         snapshot' = snapshot, fresh' \subseteq {"create", "mirror"}, svcSnapshotMap' = svcSnapshotMap
  PROVE  SnapshotSide'
<1>0. snapshot.svc \in SvcName \cup {None}
  BY DEF SideInv, TypeOK, GuestSnapshot
<1>1. /\ worker' \in [{"create", "mirror"} -> WorkerState]
      /\ worker'["mirror"] = state /\ worker'["create"] = worker["create"]
  BY GotoFields DEF SideInv
<1>2. NamedOK'
  BY <1>0, <1>1 DEF SideInv, NamedOK, SvcKept
<1>3. WorkerOK'
  <2>1. worker["create"].n \in SvcName \cup {None}
    BY DEF SideInv, TypeOK, WorkerState
  <2> QED
    BY <1>0, <1>1, <2>1 DEF SideInv, WorkerOK, SvcKept
<1>4. UploadedInGuest'
  BY <1>0 DEF SideInv, UploadedInGuest, SvcKept
<1> QED
  BY <1>1, <1>2, <1>3, <1>4 DEF SideInv, SnapshotSide, TypeOK

\* The driver is started again.
LEMMA WorkersRestart ==
  ASSUME SideInv, SvcKept, DriverRestarts, snapshot' = snapshot
  PROVE  SnapshotSide'
<1>0. snapshot.svc \in SvcName \cup {None}
  BY DEF SideInv, TypeOK, GuestSnapshot
<1>1. /\ worker' \in [{"create", "mirror"} -> WorkerState]
      /\ worker'["mirror"] = Idle /\ worker'["create"] = Idle
  BY WorkerFields DEF SideInv, TypeOK, DriverRestarts
<1>2. NamedOK'
  BY <1>0, <1>1, WorkerFields DEF SideInv, NamedOK, SvcKept, DriverRestarts
<1>3. WorkerOK'
  BY <1>1, WorkerFields DEF WorkerOK
<1>4. UploadedInGuest'
  BY <1>0 DEF SideInv, UploadedInGuest, SvcKept
<1> QED
  BY <1>1, <1>2, <1>3, <1>4 DEF SideInv, SnapshotSide, TypeOK, DriverRestarts

\* createSnapshot writes its outcome, with the ID if there is one.
LEMMA CreateWrites ==
  ASSUME SideInv, worker["create"].pc = "put", Goto("create", Idle), snapshot' = Updated("create"),
         fresh' = {}, svcSnapshotMap' = svcSnapshotMap, svc' = svc
  PROVE  SnapshotSide'
<1>0. /\ worker' \in [{"create", "mirror"} -> WorkerState]
      /\ worker'["create"] = Idle /\ worker'["mirror"] = worker["mirror"]
  BY GotoFields, WorkerFields DEF SideInv
<1>1. PICK n \in SvcName \cup {None}, want \in {"Snapshotted", "SnapshotFailed"} :
        n = worker["create"].n /\ want = worker["create"].want
  BY DEF SideInv, TypeOK, WorkerState, WorkerOK
<1>2. snapshot.svc = None /\ snapshot.id = None /\ svcSnapshotMap = {}
  BY Names DEF SideInv, NamedOK, TypeOK
<1>3. worker["mirror"].pc = "idle"
  BY <1>2 DEF SideInv, WorkerOK
<1>4. /\ snapshot'.phase = want
      /\ snapshot'.id = IF n = None THEN None ELSE GuestSnapshotID(n)
      /\ snapshot'.svc = n
      /\ snapshot' \in GuestSnapshot
  <2>1. snapshot' = [phase |-> want, id |-> IF n = None THEN None ELSE GuestSnapshotID(n), svc |-> n]
    BY <1>1, <1>2 DEF Updated
  <2>2. (IF n = None THEN None ELSE GuestSnapshotID(n)) \in {None} \cup {GuestSnapshotID(m) : m \in SvcName}
    BY <1>1
  <2>3. want \in {"New", "Snapshotted", "Gone"} \cup Mirrored
    BY DEF Mirrored
  <2> QED
    BY <2>1, <2>2, <2>3 DEF GuestSnapshot
<1>5. n # None => svc[n].told
  BY <1>1 DEF SideInv, WorkerOK
<1>6. NamedOK'
  BY <1>0, <1>2, <1>4, <1>5, WorkerFields DEF NamedOK
<1>7. WorkerOK'
  BY <1>0, <1>3, WorkerFields DEF SideInv, WorkerOK
<1>8. UploadedInGuest'
  BY <1>4 DEF UploadedInGuest
<1> QED
  BY <1>0, <1>2, <1>4, <1>6, <1>7, <1>8 DEF SnapshotSide

\* The svcSnapshotWorker writes the supervisor's phase, and nothing else.
LEMMA MirrorWrites ==
  ASSUME SideInv, worker["mirror"].pc = "put", Goto("mirror", Idle), snapshot' = Updated("mirror"),
         fresh' = {}, svcSnapshotMap' = svcSnapshotMap, svc' = svc
  PROVE  SnapshotSide'
<1>0. /\ worker' \in [{"create", "mirror"} -> WorkerState]
      /\ worker'["mirror"] = Idle /\ worker'["create"] = worker["create"]
  BY GotoFields, WorkerFields DEF SideInv
<1>1. PICK want \in Mirrored : want = worker["mirror"].want
  BY DEF SideInv, WorkerOK
<1>2. /\ worker["mirror"].n = None /\ snapshot.svc \in SvcName
      /\ want = "Uploaded" => svc[snapshot.svc].up = "Completed"
  BY <1>1 DEF SideInv, WorkerOK, TypeOK, GuestSnapshot
<1>3. /\ snapshot'.phase = want /\ snapshot'.id = snapshot.id /\ snapshot'.svc = snapshot.svc
      /\ snapshot' \in GuestSnapshot
  <2>1. snapshot' = [phase |-> want, id |-> snapshot.id, svc |-> snapshot.svc]
    BY <1>1, <1>2 DEF Updated
  <2>2. snapshot.id \in {None} \cup {GuestSnapshotID(n) : n \in SvcName} /\ snapshot.svc \in SvcName \cup {None}
    BY DEF SideInv, TypeOK, GuestSnapshot
  <2> QED
    BY <2>1, <2>2 DEF GuestSnapshot
<1>4. want # "New"
  BY DEF Mirrored
<1>5. NamedOK'
  BY <1>0, <1>3, <1>4, Names DEF SideInv, NamedOK
<1>6. WorkerOK'
  BY <1>0, <1>3, WorkerFields DEF SideInv, WorkerOK
<1>7. UploadedInGuest'
  BY <1>2, <1>3 DEF UploadedInGuest
<1> QED
  BY <1>0, <1>3, <1>5, <1>6, <1>7 DEF SideInv, SnapshotSide, TypeOK

\* syncSnapshotByKey, the cleanup and delSnapshot.
LEMMA SyncSide ==
  ASSUME SideInv, SvcKept, SyncSnapshotByKey \/ CleanUpSnapshot \/ DelSnapshot
  PROVE  SnapshotSide'
<1>0. snapshot.svc \in SvcName \cup {None} /\ svcSnapshotMap \subseteq SvcName /\ svcSnapshotMap \subseteq {snapshot.svc}
      /\ fresh \subseteq {"create", "mirror"}
  BY DEF SideInv, TypeOK, GuestSnapshot, NamedOK
<1>1. CASE SyncSnapshotByKey /\ worker' = worker
  <2>1. snapshot' = snapshot /\ fresh' = fresh /\ svcSnapshotMap' = svcSnapshotMap \cup ({snapshot.svc} \ {None})
    BY <1>1 DEF SyncSnapshotByKey
  <2> QED
    BY <1>0, <1>1, <2>1, NobodyMoves
<1>2. CASE SyncSnapshotByKey /\ snapshot.phase = "New" /\ Goto("create", At("repository", None))
  <2>1. snapshot.svc = None
    BY <1>2 DEF SideInv, NamedOK
  <2>2. snapshot' = snapshot /\ fresh' = fresh /\ svcSnapshotMap' = {}
    BY <1>0, <1>2, <2>1, Names DEF SyncSnapshotByKey
  <2>3. CreateState(At("repository", None))
    BY CreateStates
  <2> QED
    BY <1>0, <1>2, <2>1, <2>2, <2>3, CreateMoves
<1>3. CASE CleanUpSnapshot
  <2>1. /\ snapshot'.phase = "Gone" /\ snapshot'.id = snapshot.id /\ snapshot'.svc = snapshot.svc
        /\ snapshot' \in GuestSnapshot
    <3>1. snapshot \in GuestSnapshot /\ snapshot' = [snapshot EXCEPT !.phase = "Gone"]
      BY <1>3 DEF CleanUpSnapshot, SideInv, TypeOK
    <3> QED
      BY <3>1 DEF GuestSnapshot
  <2>2. worker' = worker /\ fresh' = {} /\ svcSnapshotMap' = svcSnapshotMap /\ svc' = svc
    BY <1>3 DEF CleanUpSnapshot
  <2>3. NamedOK'
    BY <2>1, <2>2 DEF SideInv, NamedOK
  <2>4. WorkerOK'
    BY <2>1, <2>2 DEF SideInv, WorkerOK
  <2>5. UploadedInGuest'
    BY <2>1 DEF UploadedInGuest
  <2> QED
    BY <2>1, <2>2, <2>3, <2>4, <2>5 DEF SideInv, SnapshotSide, TypeOK
<1>4. CASE DelSnapshot
  <2>1. snapshot' = snapshot /\ fresh' = fresh /\ worker' = worker /\ svcSnapshotMap' = svcSnapshotMap \ {snapshot.svc}
    BY <1>4 DEF DelSnapshot
  <2> QED
    BY <1>0, <2>1, NobodyMoves
<1> QED
  BY <1>1, <1>2, <1>3, <1>4 DEF SyncSnapshotByKey

\* The steps of createSnapshot up to the status update.
LEMMA CreateSide ==
  ASSUME SideInv, SvcKept,
         GetNames \/ CreateSvcSnapshot \/ UpdateSvcStatusNew \/ ListSvcSnapshots \/ GetMetadata
           \/ GetLatest("create")
  PROVE  SnapshotSide'
<1>1. worker["create"].pc # "idle"
  BY DEF GetNames, CreateSvcSnapshot, UpdateSvcStatusNew, ListSvcSnapshots, GetMetadata, GetLatest
<1>2. snapshot.svc = None
  BY <1>1 DEF SideInv, NamedOK
<1>3. fresh' \subseteq {"create", "mirror"}
  BY DEF SideInv, TypeOK, GetNames, CreateSvcSnapshot, UpdateSvcStatusNew, WriteSvc, ListSvcSnapshots,
     GetMetadata, GetLatest
<1>4. snapshot' = snapshot /\ svcSnapshotMap' = svcSnapshotMap
  BY DEF GetNames, CreateSvcSnapshot, UpdateSvcStatusNew, WriteSvc, ListSvcSnapshots, GetMetadata, GetLatest
<1>5. svcSnapshotMap' = {}
  BY <1>2, <1>4, Names DEF SideInv, NamedOK, TypeOK
<1>6. CreateState(Update("SnapshotFailed", None))
  BY CreateStates
<1>7. SUFFICES \E state : CreateState(state) /\ Goto("create", state)
  BY <1>2, <1>3, <1>4, <1>5, CreateMoves
<1>8. CASE GetNames
  <2>1. CreateState(At("create", None))
    BY CreateStates
  <2> QED
    BY <1>6, <1>8, <2>1 DEF GetNames
<1>9. CASE CreateSvcSnapshot
  <2>1. NewSvc \in SvcName
    BY <1>9, NewSvcFree DEF CreateSvcSnapshot
  <2>2. CreateState(At("status", NewSvc))
    BY <2>1, CreateStates
  <2> QED
    BY <1>6, <1>9, <2>2 DEF CreateSvcSnapshot, WriteSvc
<1>10. CASE UpdateSvcStatusNew
  <2>1. worker["create"].n \in SvcName
    BY <1>10 DEF UpdateSvcStatusNew, SideInv, WorkerOK
  <2>2. CreateState(At("list", worker["create"].n))
    BY <2>1, CreateStates
  <2> QED
    BY <1>6, <1>10, <2>2 DEF UpdateSvcStatusNew, WriteSvc
<1>11. CASE ListSvcSnapshots
  <2>1. PICK n \in SvcName : n = worker["create"].n
    BY <1>11 DEF ListSvcSnapshots, SideInv, WorkerOK
  <2>2. CreateState(At("watch", n))
    BY CreateStates
  <2>3. svc[n].phase \in WaitForPhases => svc'[n].told
    BY DEF SideInv, SvcOK, SvcKept
  <2>4. svc[n].phase \in WaitForPhases => CreateState(Heard(svc[n].phase, n))
    BY <1>6, <2>3, CreateStates DEF Heard
  <2> QED
    BY <1>11, <2>1, <2>2, <2>4 DEF ListSvcSnapshots
<1>12. CASE GetMetadata
  <2>1. PICK n \in SvcName : n = worker["create"].n
    BY <1>12 DEF GetMetadata, SideInv, WorkerOK
  <2>2. svc'[n].told
    BY <1>12, <2>1, Names DEF GetMetadata, SideInv, WorkerOK, SvcKept
  <2>3. CreateState(Update("Snapshotted", n)) /\ CreateState(Update("SnapshotFailed", n))
    BY <2>2, CreateStates
  <2> QED
    BY <1>12, <2>1, <2>3 DEF GetMetadata
<1>13. CASE GetLatest("create")
  <2>1. CreateState(Idle)
    BY CreateStates
  <2>2. CreateState([worker["create"] EXCEPT !.pc = "put"])
    <3>1. PICK c \in WorkerState : c = worker["create"]
      BY DEF SideInv, TypeOK
    <3> DEFINE d == [c EXCEPT !.pc = "put"]
    <3>2. d \in WorkerState /\ d.pc = "put" /\ d.n = c.n /\ d.want = c.want
      BY DEF WorkerState
    <3>3. c.pc = "get" /\ c.n \in SvcName \cup {None}
      BY <1>13, <3>1 DEF GetLatest, WorkerState
    <3>4. (c.n # None => svc'[c.n].told) /\ c.want \in {"Snapshotted", "SnapshotFailed"}
      BY <3>1, <3>3 DEF SideInv, WorkerOK, SvcKept
    <3> HIDE DEF d
    <3>5. CreateState(d)
      BY <3>2, <3>4 DEF CreateState
    <3> QED
      BY <3>1, <3>5 DEF d
  <2> QED
    BY <1>13, <2>1, <2>2 DEF GetLatest
<1> QED
  BY <1>8, <1>9, <1>10, <1>11, <1>12, <1>13

\* The supervisor's outcome reaches createSnapshot.
LEMMA TellSide ==
  ASSUME SideInv, SvcKept, NEW n \in SvcName, SvcTell(n)
  PROVE  SnapshotSide'
<1>1. snapshot' = snapshot /\ svcSnapshotMap' = svcSnapshotMap /\ fresh' = fresh
  BY DEF SvcTell, SvcUnchanged
<1>2. fresh \subseteq {"create", "mirror"} /\ svcSnapshotMap \subseteq SvcName /\ svcSnapshotMap \subseteq {snapshot.svc}
  BY DEF SideInv, TypeOK, NamedOK
<1>3. CASE worker' = worker
  BY <1>1, <1>2, <1>3, NobodyMoves
<1>4. CASE worker["create"] = At("watch", n) /\ \E p \in WaitForPhases : Goto("create", Heard(p, n))
  <2>1. snapshot.svc = None
    <3>1. At("watch", n).pc = "watch"
      BY WorkerFields
    <3> QED
      BY <1>4, <3>1 DEF SideInv, NamedOK
  <2>2. svc'[n].told
    <3>1. svc[n] \in SvcSnapshot /\ svc \in [SvcName -> SvcSnapshot]
      BY DEF SideInv, TypeOK
    <3>2. PICK p : svc' = [svc EXCEPT ![n].phase = p, ![n].told = TRUE]
      BY DEF SvcTell
    <3> QED
      BY <3>1, <3>2 DEF SvcSnapshot
  <2>3. \A p \in WaitForPhases : CreateState(Heard(p, n))
    BY <2>2, CreateStates DEF Heard
  <2> QED
    BY <1>1, <1>2, <1>4, <2>1, <2>3, CreateMoves, Names
<1> QED
  BY <1>3, <1>4 DEF SvcTell, WaitForPhases

\* The steps of the svcSnapshotWorker up to the status update.
LEMMA MirrorSide ==
  ASSUME SideInv, SvcKept, (\E n \in SvcName : SyncSvcSnapshotByKey(n)) \/ GetLatest("mirror")
  PROVE  SnapshotSide'
<1>0. fresh \subseteq {"create", "mirror"}
  BY DEF SideInv, TypeOK
<1>1. ASSUME NEW n \in SvcName, SyncSvcSnapshotByKey(n) PROVE SnapshotSide'
  <2>1. n = snapshot.svc /\ snapshot.svc # None
    BY <1>1, Names DEF SyncSvcSnapshotByKey, SideInv, NamedOK
  <2>2. PICK p \in Mirrored : p = svc[n].phase /\ Goto("mirror", Update(p, None))
    BY <1>1 DEF SyncSvcSnapshotByKey
  <2>3. p = "Uploaded" => svc[snapshot.svc].up = "Completed"
    BY <2>1, <2>2 DEF SideInv, SvcOK
  <2>4. /\ Update(p, None) \in WorkerState /\ Update(p, None).pc = "get"
        /\ Update(p, None).n = None /\ Update(p, None).want = p
    BY DEF Update, WorkerState
  <2>5. snapshot' = snapshot /\ fresh' = fresh /\ svcSnapshotMap' = svcSnapshotMap
    BY <1>1 DEF SyncSvcSnapshotByKey
  <2> QED
    BY <1>0, <2>1, <2>2, <2>3, <2>4, <2>5, MirrorMoves
<1>2. CASE GetLatest("mirror")
  <2>1. snapshot' = snapshot /\ fresh' \subseteq {"create", "mirror"} /\ svcSnapshotMap' = svcSnapshotMap
    BY <1>0, <1>2 DEF GetLatest
  <2>2. CASE Goto("mirror", Idle)
    BY <2>1, <2>2, WorkerFields, MirrorMoves
  <2>3. CASE Goto("mirror", [worker["mirror"] EXCEPT !.pc = "put"])
    <3>1. PICK c \in WorkerState : c = worker["mirror"]
      BY DEF SideInv, TypeOK
    <3> DEFINE d == [c EXCEPT !.pc = "put"]
    <3>2. d \in WorkerState /\ d.pc = "put" /\ d.n = c.n /\ d.want = c.want
      BY DEF WorkerState
    <3>3. c.pc = "get"
      BY <1>2, <3>1 DEF GetLatest
    <3>4. /\ c.n = None /\ snapshot.svc # None /\ c.want \in Mirrored
          /\ c.want = "Uploaded" => svc[snapshot.svc].up = "Completed"
      BY <3>1, <3>3 DEF SideInv, WorkerOK
    <3>5. Goto("mirror", d)
      BY <2>3, <3>1
    <3> HIDE DEF d
    <3> QED
      BY <2>1, <3>2, <3>4, <3>5, MirrorMoves
  <2> QED
    BY <1>2, <2>2, <2>3 DEF GetLatest
<1> QED
  BY <1>1, <1>2

\* Every step keeps what concerns the guest's Snapshot.
LEMMA StepSide ==
  ASSUME SideInv, SvcKept, [Next]_vars
  PROVE  SnapshotSide'
<1>0. fresh \subseteq {"create", "mirror"} /\ svcSnapshotMap \subseteq SvcName /\ svcSnapshotMap \subseteq {snapshot.svc}
  BY DEF SideInv, TypeOK, NamedOK
<1>1. CASE SyncSnapshotByKey \/ CleanUpSnapshot \/ DelSnapshot
  BY <1>1, SyncSide
<1>2. CASE GetNames \/ CreateSvcSnapshot \/ UpdateSvcStatusNew \/ ListSvcSnapshots \/ GetMetadata \/ GetLatest("create")
  BY <1>2, CreateSide
<1>3. CASE (\E n \in SvcName : SyncSvcSnapshotByKey(n)) \/ GetLatest("mirror")
  BY <1>3, MirrorSide
<1>4. ASSUME NEW w \in {"create", "mirror"}, UpdateStatus(w) PROVE SnapshotSide'
  <2>1. /\ worker[w].pc = "put" /\ Goto(w, Idle) /\ svcSnapshotMap' = svcSnapshotMap /\ svc' = svc
        /\ \/ snapshot' = Updated(w) /\ fresh' = {}
           \/ snapshot' = snapshot /\ fresh' \subseteq {"create", "mirror"}
    BY <1>0, <1>4 DEF UpdateStatus
  <2>2. CASE snapshot' = Updated(w) /\ fresh' = {}
    BY <2>1, <2>2, CreateWrites, MirrorWrites
  <2>3. CASE snapshot' = snapshot /\ fresh' \subseteq {"create", "mirror"} /\ w = "create"
    <3>1. snapshot.svc = None
      BY <2>1, <2>3 DEF SideInv, NamedOK
    <3>2. svcSnapshotMap' = {}
      BY <1>0, <2>1, <3>1, Names
    <3> QED
      BY <2>1, <2>3, <3>1, <3>2, CreateStates, CreateMoves
  <2>4. CASE snapshot' = snapshot /\ fresh' \subseteq {"create", "mirror"} /\ w = "mirror"
    BY <2>1, <2>4, WorkerFields, MirrorMoves
  <2> QED
    BY <2>1, <2>2, <2>3, <2>4
<1>5. CASE \E n \in SvcName : SvcTell(n)
  BY <1>5, TellSide
<1>6. CASE DriverRestarts /\ snapshot' = snapshot
  BY <1>6, WorkersRestart
<1>7. CASE UNCHANGED snapshotVars
  BY <1>0, <1>7, NobodyMoves DEF snapshotVars
<1> HIDE DEF SideInv, SnapshotSide, SvcKept
<1>8. CASE CreateSnapshot \/ CleanUpSnapshot \/ DelSnapshot \/ Crash
  BY <1>1, <1>2, <1>4, <1>6, <1>8 DEF CreateSnapshot, Crash
<1>9. ASSUME NEW n \in SvcName, Mirror(n) \/ Supervisor(n) \/ SvcCloneEnds(n) PROVE SnapshotSide'
  <2>1. CASE Mirror(n)
    BY <1>3, <1>4, <2>1 DEF Mirror
  <2>2. CASE SvcTake(n) \/ SvcUpload(n) \/ SvcMirror(n) \/ SvcCloneEnds(n)
    <3>1. UNCHANGED snapshotVars
      BY <2>2 DEF SvcTake, SvcUpload, SvcMirror, SvcCloneEnds, SvcUnchanged, snapshotVars
    <3> QED
      BY <1>7, <3>1
  <2>3. CASE SvcCleanUp(n)
    BY <1>6, <1>7, <2>3 DEF SvcCleanUp
  <2> QED
    BY <1>5, <1>9, <2>1, <2>2, <2>3 DEF Supervisor
<1>10. CASE RequestRestore \/ CloneFromSnapshot \/ RequestDelete \/ DeleteSnapshot \/ SvcDeleteEnds \/ UNCHANGED vars
  <2>1. UNCHANGED snapshotVars
    BY <1>10 DEF vars, RequestRestore, CloneFromSnapshot, SyncCloneFromSnapshotByKey, RestoreStep, CreateSvcClone,
       SvcCloneAnswered, CreateGuestPV, CreateGuestPVC, WaitForBound, UpdateGuestClone, FailClone,
       RequestDelete, DeleteSnapshot, DeleteStep, CreateSvcDelete, SvcDeleteAnswered, UpdateGuestDelete, SvcDeleteEnds
  <2> QED
    BY <1>7, <2>1
<1> QED
  BY <1>8, <1>9, <1>10 DEF Next

\* The ID that the guest's Snapshot has is never changed.
IDKept == snapshot.svc # None => snapshot'.svc = snapshot.svc /\ snapshot'.id = snapshot.id

\* No step changes it: the second write of createSnapshot finds no ID yet, and the
\* mirroring writes the phase only.
LEMMA StepID ==
  ASSUME TypeOK, NamedOK, WorkerOK, [Next]_vars
  PROVE  IDKept
<1>1. CASE UpdateStatus("create")
  BY <1>1 DEF UpdateStatus, NamedOK, IDKept
<1>2. CASE UpdateStatus("mirror")
  <2>1. worker["mirror"].n = None
    BY DEF WorkerOK
  <2> QED
    BY <1>2, <2>1 DEF UpdateStatus, Updated, IDKept
<1>3. CASE CleanUpSnapshot
  <2>1. snapshot \in GuestSnapshot /\ snapshot' = [snapshot EXCEPT !.phase = "Gone"]
    BY <1>3 DEF CleanUpSnapshot, TypeOK
  <2> QED
    BY <2>1 DEF GuestSnapshot, IDKept
<1>4. CASE snapshot' = snapshot
  BY <1>4 DEF IDKept
<1>5. CASE CreateSnapshot \/ CleanUpSnapshot \/ DelSnapshot \/ Crash
  BY <1>1, <1>3, <1>4, <1>5 DEF CreateSnapshot, SyncSnapshotByKey, GetNames, CreateSvcSnapshot, UpdateSvcStatusNew,
     WriteSvc, ListSvcSnapshots, GetMetadata, GetLatest, DelSnapshot, Crash
<1>6. CASE \E n \in SvcName : Mirror(n) \/ Supervisor(n) \/ SvcCloneEnds(n)
  BY <1>2, <1>4, <1>6 DEF Mirror, SyncSvcSnapshotByKey, GetLatest, Supervisor, SvcTake, SvcTell, SvcUpload,
     SvcMirror, SvcCleanUp, SvcCloneEnds, SvcUnchanged, snapshotVars
<1>7. CASE RequestRestore \/ CloneFromSnapshot \/ RequestDelete \/ DeleteSnapshot \/ SvcDeleteEnds \/ UNCHANGED vars
  <2>1. UNCHANGED snapshotVars
    BY <1>7 DEF vars, RequestRestore, CloneFromSnapshot, SyncCloneFromSnapshotByKey, RestoreStep, CreateSvcClone,
       SvcCloneAnswered, CreateGuestPV, CreateGuestPVC, WaitForBound, UpdateGuestClone, FailClone,
       RequestDelete, DeleteSnapshot, DeleteStep, CreateSvcDelete, SvcDeleteAnswered, UpdateGuestDelete, SvcDeleteEnds
  <2> QED
    BY <1>4, <2>1 DEF snapshotVars
<1> QED
  BY <1>5, <1>6, <1>7 DEF Next

-----------------------------------------------------------------------------
(* Faults *)

\* Faults are counted and never forgotten.
FaultsGrow == FaultsOK' /\ faults.kinds \subseteq faults'.kinds

\* That goes for every step.
LEMMA StepFaults ==
  ASSUME TypeOK, [Next]_vars
  PROVE  FaultsGrow
<1>1. CASE faults' = faults
  BY <1>1 DEF TypeOK, FaultsOK, FaultsGrow
<1>2. CASE \E kind : Fault(kind)
  BY <1>2, FaultType DEF FaultsGrow
<1> HIDE DEF FaultsGrow
<1>3. CASE CreateSnapshot \/ CleanUpSnapshot \/ DelSnapshot \/ Crash
  BY <1>1, <1>2, <1>3 DEF CreateSnapshot, SyncSnapshotByKey, GetNames, CreateSvcSnapshot, UpdateSvcStatusNew,
     WriteSvc, ListSvcSnapshots, GetMetadata, GetLatest, UpdateStatus, CleanUpSnapshot, DelSnapshot, Crash
<1>4. CASE \E n \in SvcName : Mirror(n) \/ Supervisor(n) \/ SvcCloneEnds(n)
  BY <1>1, <1>2, <1>4 DEF Mirror, SyncSvcSnapshotByKey, GetLatest, UpdateStatus, Supervisor, SvcTake, SvcTell,
     SvcUpload, SvcMirror, SvcCleanUp, SvcCloneEnds
<1>5. CASE RequestRestore \/ CloneFromSnapshot \/ RequestDelete \/ DeleteSnapshot \/ SvcDeleteEnds \/ UNCHANGED vars
  BY <1>1, <1>2, <1>5 DEF vars, RequestRestore, CloneFromSnapshot, SyncCloneFromSnapshotByKey, CreateSvcClone,
     SvcCloneAnswered, CreateGuestPV, CreateGuestPVC, WaitForBound, UpdateGuestClone, FailClone,
     RequestDelete, DeleteSnapshot, CreateSvcDelete, SvcDeleteAnswered, UpdateGuestDelete, SvcDeleteEnds
<1> QED
  BY <1>3, <1>4, <1>5 DEF Next

-----------------------------------------------------------------------------
(* The restore *)

\* What concerns the restore.
RestoreSide ==
  /\ clone \in {"Absent", "New", "Completed", "Failed"}
  /\ restore \in RestoreState
  /\ svcClone \in [SvcName -> SvcClone]
  /\ claim \in [exists : BOOLEAN, volume : SvcName \cup {None}]
  /\ CloneOK

RestoreInv == TypeOK /\ NamedOK /\ CloneOK

\* The restore goes to state next, or stays where it is, and the supervisor's
\* clones and the guest's PVC do not change.
LEMMA RestoreMoves ==
  ASSUME RestoreInv, IDKept, FaultsGrow, svcClone' = svcClone, claim' = claim,
         clone' \in {"Absent", "New", "Completed", "Failed"}, restore' \in RestoreState,
         clone' # "Absent" \/ restore'.pc # "idle" => snapshot.svc # None,
         restore'.pc = "wait" => restore'.n \in SvcName,
         restore'.pc \in {"pv", "pvc"} => restore'.n \in SvcName /\ svcClone[restore'.n].phase = "Completed",
         restore'.pc = "pvc" => restore'.volume = restore'.n \/ Happened("pv")',
         restore'.pc = "update" \/ clone' = "Completed" => claim.exists
  PROVE  RestoreSide'
<1>1. snapshot.svc # None => snapshot'.svc # None /\ snapshot'.id = snapshot.id
  BY DEF IDKept
<1>2. Happened("pv") => Happened("pv")'
  BY DEF FaultsGrow, Happened
<1>3. CloneOK'
  BY <1>1, <1>2 DEF RestoreInv, CloneOK
<1> QED
  BY <1>3 DEF RestoreInv, TypeOK, RestoreSide

\* CreateFromMetadata creates the supervisor's clone.
LEMMA CreateCloneSide ==
  ASSUME RestoreInv, IDKept, FaultsGrow, CreateSvcClone
  PROVE  RestoreSide'
<1>1. snapshot' = snapshot /\ clone' = clone /\ claim' = claim /\ restore.pc = "create"
  BY DEF CreateSvcClone, RestoreStep, snapshotVars
<1>2. snapshot.svc \in SvcName /\ snapshot.id = GuestSnapshotID(snapshot.svc)
  BY <1>1 DEF RestoreInv, CloneOK, NamedOK, TypeOK, GuestSnapshot
<1>3. PICK m \in SvcName : m = NewClone /\ svcClone[m].phase = "Absent"
  BY NewCloneFree DEF CreateSvcClone
<1>4. clone \in {"Absent", "New", "Completed", "Failed"} /\ (clone = "Completed" => claim.exists)
  BY DEF RestoreInv, TypeOK, CloneOK
<1>5. CASE svcClone' = svcClone /\ restore' = RestoreFails
  <2>1. restore'.pc = "fail" /\ restore' \in RestoreState
    BY <1>5, RestoreFields
  <2> QED
    BY <1>1, <1>2, <1>4, <1>5, <2>1, Names, RestoreMoves
<1>6. ASSUME svcClone' = [svcClone EXCEPT ![m] =
                 [phase |-> "New", id |-> ConvertSnapshotID(snapshot.id, m), data |-> FALSE]],
             restore' = Restoring("wait", m, None) \/ restore' = RestoreFails
      PROVE  RestoreSide'
  <2> DEFINE r == [phase |-> "New", id |-> ConvertSnapshotID(snapshot.id, m), data |-> FALSE]
  <2>1. r \in SvcClone
    BY <1>2 DEF SvcClone
  <2>2. r.phase = "New" /\ r.id = ConvertSnapshotID(snapshot.id, m)
    OBVIOUS
  <2> HIDE DEF r
  <2>3. svcClone' = [svcClone EXCEPT ![m] = r] /\ svcClone \in [SvcName -> SvcClone]
    BY <1>6 DEF r, RestoreInv, TypeOK
  <2>4. svcClone' \in [SvcName -> SvcClone] /\ svcClone'[m] = r /\ \A n \in SvcName \ {m} : svcClone'[n] = svcClone[n]
    BY <2>1, <2>3
  <2>5. /\ restore' \in RestoreState /\ restore'.pc \in {"wait", "fail"}
        /\ restore'.pc = "wait" => restore'.n \in SvcName
    <3>1. Restoring("wait", m, None) \in RestoreState /\ Restoring("wait", m, None).pc = "wait"
          /\ Restoring("wait", m, None).n = m
      BY RestoreFields
    <3> QED
      BY <1>6, <3>1, RestoreFields
  <2>6. \A n \in SvcName : svcClone[n].phase = "Completed" => svcClone'[n] = svcClone[n]
    BY <1>3, <2>4
  <2>7. claim.volume \in SvcName /\ svcClone[claim.volume].phase = "Completed" =>
          svcClone'[claim.volume].phase = "Completed"
    BY <2>6
  <2>8. Happened("pv") => Happened("pv")'
    BY DEF FaultsGrow, Happened
  <2>9. ASSUME NEW n \in SvcName
        PROVE  /\ svcClone'[n].phase # "Absent" => svcClone'[n].id = ConvertSnapshotID(snapshot.id, n)
               /\ svcClone'[n].phase = "Completed" => svcClone'[n].data
    BY <2>2, <2>4 DEF RestoreInv, CloneOK
  <2>10. CloneOK'
    BY <1>1, <1>2, <1>4, <2>5, <2>7, <2>8, <2>9, Names DEF RestoreInv, CloneOK
  <2> QED
    BY <1>1, <2>4, <2>5, <2>10 DEF RestoreInv, TypeOK, RestoreSide
<1> QED
  BY <1>3, <1>5, <1>6 DEF CreateSvcClone, RestoreStep

\* createGuestPVC: the new PVC names the PV of the supervisor's clone, if there
\* is one.
LEMMA CreatePVCSide ==
  ASSUME RestoreInv, IDKept, FaultsGrow, CreateGuestPVC
  PROVE  RestoreSide'
<1>1. /\ snapshot' = snapshot /\ clone' = clone /\ svcClone' = svcClone /\ restore.pc = "pvc"
      /\ restore' = [restore EXCEPT !.pc = "bind"]
  BY DEF CreateGuestPVC, RestoreStep, snapshotVars
<1>2. restore'.pc = "bind" /\ restore' \in RestoreState
  <2>1. restore \in RestoreState
    BY DEF RestoreInv, TypeOK
  <2> QED
    BY <1>1, <2>1 DEF RestoreState
<1>3. clone \in {"Absent", "New", "Completed", "Failed"} /\ snapshot.svc # None /\ (clone = "Completed" => claim.exists)
  BY <1>1 DEF RestoreInv, TypeOK, CloneOK
<1>4. CASE claim' = claim
  BY <1>1, <1>2, <1>3, <1>4, RestoreMoves
<1>5. CASE claim' = [exists |-> TRUE, volume |-> restore.volume]
  <2>1. restore.volume \in SvcName \cup {None}
    BY DEF RestoreInv, TypeOK, RestoreState
  <2>2. claim'.exists /\ claim'.volume = restore.volume /\ claim' \in [exists : BOOLEAN, volume : SvcName \cup {None}]
    BY <1>5, <2>1
  <2>3. \/ restore.volume \in SvcName /\ svcClone[restore.volume].phase = "Completed"
        \/ Happened("pv")
    BY <1>1 DEF RestoreInv, CloneOK
  <2>4. Happened("pv") => Happened("pv")'
    BY DEF FaultsGrow, Happened
  <2>5. CloneOK'
    BY <1>1, <1>2, <1>3, <2>2, <2>3, <2>4 DEF RestoreInv, CloneOK
  <2> QED
    BY <1>1, <1>2, <1>3, <2>2, <2>5 DEF RestoreInv, TypeOK, RestoreSide
<1> QED
  BY <1>4, <1>5 DEF CreateGuestPVC

\* The supervisor's clone completes, with the same ID.
LEMMA CloneCompleted ==
  ASSUME NEW c \in SvcClone, NEW d, d = [c EXCEPT !.phase = "Completed", !.data = TRUE]
  PROVE  d \in SvcClone /\ d.id = c.id /\ d.phase = "Completed" /\ d.data
<1> DEFINE ids == {<<>>} \cup {ConvertSnapshotID(GuestSnapshotID(n), m) : n, m \in SvcName}
           Clones == [phase : {"Absent", "New", "Completed", "Failed"}, id : ids, data : BOOLEAN]
<1>1. SvcClone = Clones
  BY DEF SvcClone
<1> HIDE DEF ids
<1>2. c \in Clones
  BY <1>1
<1>3. d \in Clones /\ d.id = c.id /\ d.phase = "Completed" /\ d.data
  BY <1>2
<1> QED
  BY <1>1, <1>3

\* The supervisor's clone ends.
LEMMA CloneEndsSide ==
  ASSUME RestoreInv, IDKept, FaultsGrow, NEW n \in SvcName, SvcCloneEnds(n)
  PROVE  RestoreSide'
<1>1. snapshot' = snapshot /\ clone' = clone /\ claim' = claim /\ restore' = restore /\ svcClone[n].phase = "New"
  BY DEF SvcCloneEnds, snapshotVars
<1>2. svcClone \in [SvcName -> SvcClone] /\ svcClone[n] \in SvcClone
  BY DEF RestoreInv, TypeOK
<1>3. PICK r : /\ svcClone' = [svcClone EXCEPT ![n] = r] /\ r \in SvcClone
               /\ r.id = svcClone[n].id /\ r.phase \in {"Completed", "Failed"}
               /\ r.phase = "Completed" => r.data
  <2>1. CASE svcClone' = [svcClone EXCEPT ![n].phase = "Completed", ![n].data = TRUE]
    <3> DEFINE r == [svcClone[n] EXCEPT !.phase = "Completed", !.data = TRUE]
    <3>1. r = [svcClone[n] EXCEPT !.phase = "Completed", !.data = TRUE]
      OBVIOUS
    <3>2. svcClone' = [svcClone EXCEPT ![n] = r]
      BY <1>2, <2>1
    <3> HIDE DEF r
    <3>3. r \in SvcClone /\ r.id = svcClone[n].id /\ r.phase = "Completed" /\ r.data
      BY <1>2, <3>1, CloneCompleted
    <3> QED
      BY <3>2, <3>3
  <2>2. CASE svcClone' = [svcClone EXCEPT ![n].phase = "Failed"]
    <3> DEFINE r == [svcClone[n] EXCEPT !.phase = "Failed"]
    <3>1. r \in SvcClone /\ r.id = svcClone[n].id /\ r.phase = "Failed"
      BY <1>2 DEF SvcClone
    <3>2. svcClone' = [svcClone EXCEPT ![n] = r]
      BY <1>2, <2>2
    <3> HIDE DEF r
    <3> QED
      BY <3>1, <3>2
  <2> QED
    BY <2>1, <2>2 DEF SvcCloneEnds
<1>4. svcClone' \in [SvcName -> SvcClone] /\ svcClone'[n] = r /\ \A m \in SvcName \ {n} : svcClone'[m] = svcClone[m]
  BY <1>2, <1>3
<1>5. \A m \in SvcName : svcClone[m].phase = "Completed" => svcClone'[m] = svcClone[m]
  BY <1>1, <1>4
<1>6. ASSUME NEW m \in SvcName
      PROVE  /\ svcClone'[m].phase # "Absent" =>
                  snapshot.svc # None /\ svcClone'[m].id = ConvertSnapshotID(snapshot.id, m)
             /\ svcClone'[m].phase = "Completed" => svcClone'[m].data
  BY <1>1, <1>3, <1>4 DEF RestoreInv, CloneOK
<1>7. Happened("pv") => Happened("pv")'
  BY DEF FaultsGrow, Happened
<1>8. /\ restore.pc \in {"pv", "pvc"} => restore.n \in SvcName /\ svcClone'[restore.n].phase = "Completed"
      /\ claim.exists => \/ claim.volume \in SvcName /\ svcClone'[claim.volume].phase = "Completed"
                         \/ Happened("pv")'
  BY <1>5, <1>7 DEF RestoreInv, CloneOK
<1>9. CloneOK'
  BY <1>1, <1>6, <1>7, <1>8 DEF RestoreInv, CloneOK
<1> QED
  BY <1>1, <1>4, <1>9 DEF RestoreInv, TypeOK, RestoreSide

\* The other steps of the restore.
LEMMA RestoreStepsSide ==
  ASSUME RestoreInv, IDKept, FaultsGrow,
         RequestRestore \/ SyncCloneFromSnapshotByKey \/ SvcCloneAnswered \/ CreateGuestPV \/ WaitForBound
           \/ UpdateGuestClone \/ FailClone
  PROVE  RestoreSide'
<1>1. svcClone' = svcClone /\ claim' = claim
  BY DEF RequestRestore, SyncCloneFromSnapshotByKey, SvcCloneAnswered, CreateGuestPV, WaitForBound,
     UpdateGuestClone, FailClone
<1>2. restore \in RestoreState /\ clone \in {"Absent", "New", "Completed", "Failed"}
      /\ restore.n \in SvcName \cup {None}
  BY DEF RestoreInv, TypeOK, RestoreState
<1>3. CASE RequestRestore
  <2>1. snapshot.svc # None /\ clone' = "New" /\ restore' = Restoring("queued", None, None)
    BY <1>3 DEF RequestRestore, RestoreInv, NamedOK
  <2>2. restore' \in RestoreState /\ restore'.pc = "queued"
    BY <2>1, RestoreFields
  <2> QED
    BY <1>1, <2>1, <2>2, RestoreMoves
<1>4. snapshot.svc # None \/ RequestRestore
  BY DEF RestoreInv, CloneOK, SyncCloneFromSnapshotByKey, SvcCloneAnswered, CreateGuestPV, WaitForBound,
     UpdateGuestClone, FailClone
<1>5. clone = "Completed" => claim.exists
  BY DEF RestoreInv, CloneOK
<1>6. CASE clone' = clone /\ restore' \in RestoreState /\ restore'.pc \in {"idle", "queued", "create", "fail"}
           /\ ~RequestRestore
  BY <1>1, <1>2, <1>4, <1>5, <1>6, RestoreMoves
<1>7. CASE SyncCloneFromSnapshotByKey
  <2>1. restore' = NotRestoring \/ restore' = Restoring("create", None, None)
    BY <1>7 DEF SyncCloneFromSnapshotByKey
  <2>2. restore' \in RestoreState /\ restore'.pc \in {"idle", "create"}
    BY <2>1, RestoreFields
  <2>3. clone' = clone
    BY <1>7 DEF SyncCloneFromSnapshotByKey
  <2> QED
    BY <1>3, <1>6, <2>2, <2>3
<1>8. CASE SvcCloneAnswered
  <2>1. clone' = clone /\ restore.pc = "wait"
    BY <1>8 DEF SvcCloneAnswered, RestoreStep
  <2>2. CASE restore' = RestoreFails
    BY <1>3, <1>6, <2>1, <2>2, RestoreFields
  <2>3. CASE restore' = [restore EXCEPT !.pc = "pv"] /\ svcClone[restore.n].phase = "Completed"
    <3>1. restore' \in RestoreState /\ restore'.pc = "pv" /\ restore'.n = restore.n
      BY <1>2, <2>3 DEF RestoreState
    <3>2. restore.n \in SvcName
      BY <2>1 DEF RestoreInv, CloneOK
    <3>3. snapshot.svc # None
      BY <2>1 DEF RestoreInv, CloneOK
    <3> QED
      BY <1>1, <1>2, <1>5, <2>1, <2>3, <3>1, <3>2, <3>3, RestoreMoves
  <2> QED
    BY <1>8, <2>2, <2>3 DEF SvcCloneAnswered, RestoreStep
<1>9. CASE CreateGuestPV
  <2>1. /\ clone' = clone /\ restore.pc = "pv"
        /\ \/ restore' = Restoring("pvc", restore.n, restore.n)
           \/ restore' = Restoring("pvc", restore.n, None) /\ Fault("pv")
    BY <1>9 DEF CreateGuestPV, RestoreStep
  <2>2. restore.n \in SvcName /\ svcClone[restore.n].phase = "Completed" /\ snapshot.svc # None
    BY <2>1 DEF RestoreInv, CloneOK
  <2>3. Fault("pv") => Happened("pv")'
    BY FaultType DEF RestoreInv
  <2>4. /\ restore' \in RestoreState /\ restore'.pc = "pvc" /\ restore'.n = restore.n
        /\ restore'.volume = restore'.n \/ Happened("pv")'
    BY <2>1, <2>2, <2>3, RestoreFields
  <2> QED
    BY <1>1, <1>2, <1>5, <2>1, <2>2, <2>4, RestoreMoves
<1>10. CASE WaitForBound
  <2>1. clone' = clone /\ restore.pc = "bind"
    BY <1>10 DEF WaitForBound, RestoreStep
  <2>2. CASE restore' = RestoreFails
    BY <1>3, <1>6, <2>1, <2>2, RestoreFields
  <2>3. CASE restore' = [restore EXCEPT !.pc = "update"] /\ claim.exists
    <3>1. restore' \in RestoreState /\ restore'.pc = "update"
      BY <1>2, <2>3 DEF RestoreState
    <3>2. snapshot.svc # None
      BY <2>1 DEF RestoreInv, CloneOK
    <3> QED
      BY <1>1, <1>2, <2>1, <2>3, <3>1, <3>2, RestoreMoves
  <2> QED
    BY <1>10, <2>2, <2>3 DEF WaitForBound, RestoreStep
<1>11. CASE UpdateGuestClone
  <2>1. restore.pc = "update" /\ clone' \in {"Completed", clone} /\ (restore' = NotRestoring \/ restore' = RestoreFails)
    BY <1>11 DEF UpdateGuestClone
  <2>2. claim.exists /\ snapshot.svc # None
    BY <2>1 DEF RestoreInv, CloneOK
  <2>3. restore' \in RestoreState /\ restore'.pc \in {"idle", "fail"}
    BY <2>1, RestoreFields
  <2> QED
    BY <1>1, <1>2, <2>1, <2>2, <2>3, RestoreMoves
<1>12. CASE FailClone
  <2>1. restore.pc = "fail" /\ clone' \in {"Failed", clone} /\ restore' = Restoring("queued", None, None)
    BY <1>12 DEF FailClone
  <2>2. snapshot.svc # None
    BY <2>1 DEF RestoreInv, CloneOK
  <2>3. restore' \in RestoreState /\ restore'.pc = "queued"
    BY <2>1, RestoreFields
  <2> QED
    BY <1>1, <1>2, <1>5, <2>1, <2>2, <2>3, RestoreMoves
<1> QED
  BY <1>3, <1>7, <1>8, <1>9, <1>10, <1>11, <1>12

\* Every step keeps what concerns the restore.
LEMMA StepRestore ==
  ASSUME RestoreInv, IDKept, FaultsGrow, [Next]_vars
  PROVE  RestoreSide'
<1>1. CASE UNCHANGED restoreVars
  <2>1. svcClone' = svcClone /\ claim' = claim /\ clone' = clone /\ restore' = restore
    BY <1>1 DEF restoreVars
  <2>2. restore \in RestoreState /\ clone \in {"Absent", "New", "Completed", "Failed"}
    BY DEF RestoreInv, TypeOK
  <2>3. Happened("pv") => Happened("pv")'
    BY DEF FaultsGrow, Happened
  <2>4. CloneOK
    BY DEF RestoreInv
  <2> QED
    BY <2>1, <2>2, <2>3, <2>4, RestoreMoves DEF CloneOK
<1>2. CASE DriverRestarts /\ UNCHANGED <<clone, svcClone, claim>>
  <2>1. \/ restore' = NotRestoring /\ clone = "Absent"
        \/ restore' = Restoring("queued", None, None) /\ clone # "Absent"
    BY <1>2 DEF DriverRestarts
  <2>2. /\ restore' \in RestoreState
        /\ \/ restore'.pc = "idle" /\ clone = "Absent"
           \/ restore'.pc = "queued" /\ clone # "Absent"
    BY <2>1, RestoreFields
  <2>3. clone \in {"Absent", "New", "Completed", "Failed"} /\ (clone # "Absent" => snapshot.svc # None)
        /\ (clone = "Completed" => claim.exists)
    BY DEF RestoreInv, TypeOK, CloneOK
  <2> QED
    BY <1>2, <2>2, <2>3, RestoreMoves
<1> HIDE DEF RestoreInv, RestoreSide, IDKept, FaultsGrow
<1>3. CASE RequestRestore \/ CloneFromSnapshot
  BY <1>3, RestoreStepsSide, CreateCloneSide, CreatePVCSide DEF CloneFromSnapshot
<1>4. CASE CreateSnapshot \/ CleanUpSnapshot \/ DelSnapshot \/ Crash
  BY <1>1, <1>2, <1>4 DEF CreateSnapshot, SyncSnapshotByKey, GetNames, CreateSvcSnapshot, UpdateSvcStatusNew,
     WriteSvc, ListSvcSnapshots, GetMetadata, GetLatest, UpdateStatus, CleanUpSnapshot, DelSnapshot, Crash
<1>5. ASSUME NEW n \in SvcName, Mirror(n) \/ Supervisor(n) \/ SvcCloneEnds(n) PROVE RestoreSide'
  BY <1>1, <1>2, <1>5, CloneEndsSide DEF Mirror, SyncSvcSnapshotByKey, GetLatest, UpdateStatus, Supervisor, SvcTake,
     SvcTell, SvcUpload, SvcMirror, SvcCleanUp, SvcUnchanged
<1>6. CASE RequestDelete \/ DeleteSnapshot \/ SvcDeleteEnds \/ UNCHANGED vars
  BY <1>1, <1>6 DEF vars, RequestDelete, DeleteSnapshot, DeleteStep, CreateSvcDelete, SvcDeleteAnswered,
     UpdateGuestDelete, SvcDeleteEnds
<1> QED
  BY <1>3, <1>4, <1>5, <1>6 DEF Next

-----------------------------------------------------------------------------
(* The deletion *)

\* What concerns the deletion.
DeleteType ==
  [phase : {"Absent", "New", "Completed", "Failed"}, pc : {"idle", "wait", "Completed", "Failed"}]

SvcDeleteType ==
  [phase : {"Absent", "New", "Completed", "Failed"},
   id : {<<>>} \cup {ReconstructedID(GuestSnapshotID(n)) : n \in SvcName}]

DeleteSide == delete \in DeleteType /\ svcDelete \in SvcDeleteType /\ DeleteOK

DeleteInv == TypeOK /\ NamedOK /\ DeleteOK

\* What is deleted stays deleted, and the guest's Snapshot names the same.
LEMMA DeletedKept ==
  ASSUME DeleteInv, SvcKept, IDKept, snapshot.svc # None
  PROVE  /\ snapshot'.svc = snapshot.svc /\ snapshot'.id = snapshot.id
         /\ Deleted(snapshot.svc) => Deleted(snapshot.svc)'
<1>1. snapshot'.svc = snapshot.svc /\ snapshot'.id = snapshot.id
  BY DEF IDKept
<1>2. PICK n \in SvcName : n = snapshot.svc
  BY DEF DeleteInv, TypeOK, GuestSnapshot
<1>3. svc[n].told
  BY <1>2 DEF DeleteInv, NamedOK
<1>4. Deleted(n) => Deleted(n)'
  BY <1>3 DEF SvcKept
<1>5. Deleted(n)' => Deleted(snapshot.svc)'
  BY <1>1, <1>2 DEF Deleted
<1> QED
  BY <1>1, <1>2, <1>4, <1>5

\* The guest's worker goes on; the supervisor's DeleteSnapshot stays as it is.
LEMMA DeleteMoves ==
  ASSUME DeleteInv, SvcKept, IDKept, FaultsGrow, svcDelete' = svcDelete, delete' \in DeleteType,
         delete'.pc # "idle" => delete'.phase # "Absent",
         delete'.phase # "Absent" => snapshot.svc # None,
         delete'.phase = "Completed" \/ delete'.pc = "Completed" =>
           delete'.phase # "Absent" /\ (Deleted(snapshot.svc) \/ Happened("svc"))
  PROVE  DeleteSide'
<1>1. Happened("svc") => Happened("svc")'
  BY DEF FaultsGrow, Happened
<1>2. svcDelete \in SvcDeleteType
  BY DEF DeleteInv, TypeOK, SvcDeleteType
<1>3. DeleteOK
  BY DEF DeleteInv
<1>4. CASE snapshot.svc # None
  BY <1>1, <1>2, <1>3, <1>4, DeletedKept DEF DeleteOK, DeleteSide
<1>5. CASE snapshot.svc = None
  BY <1>1, <1>2, <1>3, <1>5 DEF DeleteOK, DeleteSide
<1> QED
  BY <1>4, <1>5

\* The fields of the two records.
LEMMA DeleteFields ==
  ASSUME DeleteInv
  PROVE  /\ delete \in DeleteType
         /\ \A phase \in {"Absent", "New", "Completed", "Failed"}, pc \in {"idle", "wait", "Completed", "Failed"} :
              LET d == [phase |-> phase, pc |-> pc] IN d \in DeleteType /\ d.phase = phase /\ d.pc = pc
         /\ \A pc \in {"idle", "wait", "Completed", "Failed"} :
              LET d == [delete EXCEPT !.pc = pc] IN d \in DeleteType /\ d.phase = delete.phase /\ d.pc = pc
BY DEF DeleteInv, TypeOK, DeleteType

\* deleteSnapshot in the guest cluster.
LEMMA DeleteStepsSide ==
  ASSUME DeleteInv, SvcKept, IDKept, FaultsGrow, RequestDelete \/ DeleteSnapshot
  PROVE  DeleteSide'
<1>1. DeleteOK /\ delete \in DeleteType
  BY DeleteFields DEF DeleteInv
<1>2. CASE RequestDelete
  <2>1. delete' = [phase |-> "New", pc |-> "idle"] /\ svcDelete' = svcDelete /\ snapshot.svc # None
    BY <1>2 DEF RequestDelete, DeleteStep, DeleteInv, NamedOK
  <2>2. delete' \in DeleteType /\ delete'.phase = "New" /\ delete'.pc = "idle"
    BY <2>1, DeleteFields
  <2> QED
    BY <2>1, <2>2, DeleteMoves
<1>3. CASE SvcDeleteAnswered
  <2>1. delete' = [delete EXCEPT !.pc = "Completed"] /\ svcDelete' = svcDelete
        /\ delete.pc = "wait" /\ svcDelete.phase \in {"Completed", "Failed"}
    BY <1>3 DEF SvcDeleteAnswered, DeleteStep
  <2>2. delete' \in DeleteType /\ delete'.phase = delete.phase /\ delete'.pc = "Completed"
    BY <2>1, DeleteFields
  <2>3. Deleted(snapshot.svc) \/ Happened("svc")
    BY <1>1, <2>1 DEF DeleteOK
  <2>4. delete.phase # "Absent"
    BY <1>1, <2>1 DEF DeleteOK
  <2> QED
    BY <1>1, <2>1, <2>2, <2>3, <2>4, DeleteMoves DEF DeleteOK
<1>4. CASE UpdateGuestDelete
  <2>1. /\ svcDelete' = svcDelete /\ delete.pc \in {"Completed", "Failed"}
        /\ delete' = [phase |-> delete.pc, pc |-> "idle"] \/ delete' = [delete EXCEPT !.pc = "idle"]
    BY <1>4 DEF UpdateGuestDelete, DeleteStep
  <2>2. delete' \in DeleteType /\ delete'.phase \in {delete.pc, delete.phase} /\ delete'.pc = "idle"
    <3>1. CASE delete' = [phase |-> delete.pc, pc |-> "idle"]
      BY <2>1, <3>1 DEF DeleteType
    <3>2. CASE delete' = [delete EXCEPT !.pc = "idle"]
      BY <3>2, DeleteFields
    <3> QED
      BY <2>1, <3>1, <3>2
  <2>3. delete.phase # "Absent"
    BY <1>1, <2>1 DEF DeleteOK
  <2>4. snapshot.svc # None /\ delete'.phase # "Absent"
    BY <1>1, <2>1, <2>2, <2>3 DEF DeleteOK
  <2>5. delete'.phase = "Completed" => Deleted(snapshot.svc) \/ Happened("svc")
    BY <1>1, <2>2 DEF DeleteOK
  <2> QED
    BY <2>1, <2>2, <2>4, <2>5, DeleteMoves
<1>5. CASE CreateSvcDelete
  <2>1. delete.phase = "New" /\ snapshot.svc # None
    BY <1>1, <1>5 DEF CreateSvcDelete, DeleteOK
  <2>2. CASE delete' = [delete EXCEPT !.pc = "Failed"] /\ svcDelete' = svcDelete
    <3>1. delete' \in DeleteType /\ delete'.phase = "New" /\ delete'.pc = "Failed"
      BY <2>1, <2>2, DeleteFields
    <3> QED
      BY <2>1, <2>2, <3>1, DeleteMoves
  <2>3. CASE /\ delete' = [delete EXCEPT !.pc = "wait"]
             /\ svcDelete' = [phase |-> "New", id |-> ReconstructedID(snapshot.id)]
    <3>1. delete' \in DeleteType /\ delete'.phase = "New" /\ delete'.pc = "wait"
      BY <2>1, <2>3, DeleteFields
    <3>2. snapshot.svc \in SvcName /\ snapshot.id = GuestSnapshotID(snapshot.svc)
      BY <2>1 DEF DeleteInv, TypeOK, NamedOK, GuestSnapshot
    <3>3. svcDelete' \in SvcDeleteType /\ svcDelete'.phase = "New" /\ svcDelete'.id = ReconstructedID(snapshot.id)
      BY <2>3, <3>2 DEF SvcDeleteType
    <3> QED
      BY <2>1, <3>1, <3>3, DeletedKept DEF DeleteSide, DeleteOK
  <2> QED
    BY <1>5, <2>2, <2>3 DEF CreateSvcDelete, DeleteStep
<1> QED
  BY <1>2, <1>3, <1>4, <1>5 DEF DeleteSnapshot

\* Every step keeps what concerns the deletion.
LEMMA StepDelete ==
  ASSUME DeleteInv, SvcKept, IDKept, FaultsGrow, [Next]_vars
  PROVE  DeleteSide'
<1>0. DeleteOK /\ delete \in DeleteType /\ svcDelete \in SvcDeleteType
  BY DeleteFields DEF DeleteInv, TypeOK, SvcDeleteType
<1>1. CASE UNCHANGED deleteVars
  BY <1>0, <1>1, DeleteMoves DEF deleteVars, DeleteOK
<1>2. CASE DriverRestarts /\ svcDelete' = svcDelete
  <2>1. delete' = [delete EXCEPT !.pc = "idle"]
    BY <1>2 DEF DriverRestarts
  <2>2. delete' \in DeleteType /\ delete'.phase = delete.phase /\ delete'.pc = "idle"
    BY <2>1, DeleteFields
  <2> QED
    BY <1>0, <1>2, <2>2, DeleteMoves DEF DeleteOK
<1>3. CASE SvcDeleteEnds
  <2>1. TypeOK /\ NamedOK /\ delete' = delete /\ svcDelete.phase = "New"
    BY <1>3 DEF DeleteInv, SvcDeleteEnds
  <2>2. snapshot.svc \in SvcName /\ snapshot' = snapshot
        /\ \/ svcDelete' = [svcDelete EXCEPT !.phase = "Failed"] /\ Happened("svc")'
           \/ svcDelete' = [svcDelete EXCEPT !.phase = "Completed"] /\ Deleted(snapshot.svc)'
    BY <1>0, <1>3, <2>1, SvcDeleteFields, FaultType
  <2>3. /\ svcDelete' \in SvcDeleteType /\ svcDelete'.id = svcDelete.id
        /\ \/ svcDelete'.phase = "Failed" /\ Happened("svc")'
           \/ svcDelete'.phase = "Completed" /\ Deleted(snapshot.svc)'
    BY <1>0, <2>2 DEF SvcDeleteType
  <2>4. Happened("svc") => Happened("svc")'
    BY DEF FaultsGrow, Happened
  <2>5. snapshot.svc # None
    BY <2>2, Names
  <2> QED
    BY <1>0, <2>1, <2>2, <2>3, <2>4, <2>5, DeletedKept DEF DeleteSide, DeleteOK
<1> HIDE DEF DeleteInv, DeleteSide, SvcKept, IDKept, FaultsGrow
<1>4. CASE CreateSnapshot \/ CleanUpSnapshot \/ DelSnapshot \/ Crash
  BY <1>1, <1>2, <1>4 DEF CreateSnapshot, SyncSnapshotByKey, GetNames, CreateSvcSnapshot, UpdateSvcStatusNew,
     WriteSvc, ListSvcSnapshots, GetMetadata, GetLatest, UpdateStatus, CleanUpSnapshot, DelSnapshot, Crash
<1>5. ASSUME NEW n \in SvcName, Mirror(n) \/ Supervisor(n) \/ SvcCloneEnds(n) PROVE DeleteSide'
  BY <1>1, <1>2, <1>5 DEF Mirror, SyncSvcSnapshotByKey, GetLatest, UpdateStatus, Supervisor, SvcTake,
     SvcTell, SvcUpload, SvcMirror, SvcCleanUp, SvcUnchanged, SvcCloneEnds
<1>6. CASE RequestRestore \/ CloneFromSnapshot \/ UNCHANGED vars
  BY <1>1, <1>6 DEF vars, RequestRestore, CloneFromSnapshot, SyncCloneFromSnapshotByKey, RestoreStep, CreateSvcClone,
     SvcCloneAnswered, CreateGuestPV, CreateGuestPVC, WaitForBound, UpdateGuestClone, FailClone
<1>7. CASE RequestDelete \/ DeleteSnapshot
  BY <1>7, DeleteStepsSide
<1> QED
  BY <1>3, <1>4, <1>5, <1>6, <1>7 DEF Next

-----------------------------------------------------------------------------
(* The theorems *)

\* Whether there is a backup repository, and what will be asked for, does not
\* change.
LEMMA StepMode ==
  ASSUME [Next]_vars
  PROVE  localMode' = localMode /\ request' = request
<1>1. CASE CreateSnapshot \/ CleanUpSnapshot \/ DelSnapshot \/ Crash
  BY <1>1 DEF CreateSnapshot, SyncSnapshotByKey, GetNames, CreateSvcSnapshot, UpdateSvcStatusNew,
     WriteSvc, ListSvcSnapshots, GetMetadata, GetLatest, UpdateStatus, CleanUpSnapshot, DelSnapshot, Crash
<1>2. ASSUME NEW n \in SvcName, Mirror(n) \/ Supervisor(n) \/ SvcCloneEnds(n)
      PROVE  localMode' = localMode /\ request' = request
  BY <1>2 DEF Mirror, SyncSvcSnapshotByKey, GetLatest, UpdateStatus, Supervisor, SvcTake,
     SvcTell, SvcUpload, SvcMirror, SvcCleanUp, SvcUnchanged, SvcCloneEnds
<1>3. CASE RequestRestore \/ CloneFromSnapshot \/ UNCHANGED vars
  BY <1>3 DEF vars, RequestRestore, CloneFromSnapshot, SyncCloneFromSnapshotByKey, RestoreStep, CreateSvcClone,
     SvcCloneAnswered, CreateGuestPV, CreateGuestPVC, WaitForBound, UpdateGuestClone, FailClone
<1>4. CASE RequestDelete \/ DeleteSnapshot \/ SvcDeleteEnds
  BY <1>4 DEF RequestDelete, DeleteSnapshot, DeleteStep, CreateSvcDelete, SvcDeleteAnswered,
     UpdateGuestDelete, SvcDeleteEnds
<1> QED
  BY <1>1, <1>2, <1>3, <1>4 DEF Next

\* The initial states: nothing exists in the supervisor cluster.
LEMMA InitInv == Init => GuestInv
<1> SUFFICES ASSUME Init PROVE GuestInv
  OBVIOUS
<1>1. /\ snapshot.phase = "New" /\ snapshot.id = None /\ snapshot.svc = None /\ snapshot \in GuestSnapshot
  BY DEF Init, GuestSnapshot
<1>2. NoSvc \in SvcSnapshot /\ NoSvc.phase = "Absent" /\ NoSvc.up = "Absent" /\ ~NoSvc.told
  BY DEF NoSvc, SvcSnapshot
<1>3. svc \in [SvcName -> SvcSnapshot] /\ \A n \in SvcName : svc[n] = NoSvc
  BY <1>2 DEF Init
<1>4. Idle \in WorkerState /\ Idle.pc = "idle" /\ Idle.n = None
  BY WorkerFields
<1>5. worker \in [{"create", "mirror"} -> WorkerState] /\ worker["create"] = Idle /\ worker["mirror"] = Idle
  BY <1>4 DEF Init
<1>6. restore \in RestoreState /\ restore.pc = "idle"
  BY RestoreFields DEF Init
<1>7. svcClone \in [SvcName -> SvcClone] /\ \A n \in SvcName : svcClone[n].phase = "Absent"
  <2> DEFINE r == [phase |-> "Absent", id |-> <<>>, data |-> FALSE]
  <2>1. r \in SvcClone /\ r.phase = "Absent"
    BY DEF SvcClone
  <2>2. svcClone = [n \in SvcName |-> r]
    BY DEF Init
  <2> HIDE DEF r
  <2> QED
    BY <2>1, <2>2
<1>8. claim \in [exists : BOOLEAN, volume : SvcName \cup {None}] /\ ~claim.exists
  BY DEF Init
<1>9. delete \in DeleteType /\ delete.phase = "Absent" /\ delete.pc = "idle"
  BY DEF Init, DeleteType
<1>10. svcDelete \in SvcDeleteType /\ svcDelete.phase = "Absent"
  BY DEF Init, SvcDeleteType
<1>11. FaultsOK
  BY EnvironmentAssumption DEF Init, NoFaults, FaultsOK
<1>12. /\ localMode \in BOOLEAN /\ request \in {"restore", "delete"} /\ fresh = {} /\ svcSnapshotMap = {}
       /\ clone = "Absent"
  BY DEF Init
<1>13. TypeOK
  BY <1>1, <1>3, <1>5, <1>6, <1>7, <1>8, <1>9, <1>10, <1>11, <1>12 DEF TypeOK, DeleteType, SvcDeleteType
<1>14. NamedOK /\ WorkerOK /\ UploadedInGuest
  BY <1>1, <1>4, <1>5, <1>12 DEF NamedOK, WorkerOK, UploadedInGuest
<1>15. SvcOK
  BY <1>2, <1>3 DEF SvcOK, WaitForPhases
<1>16. CloneOK
  BY <1>6, <1>7, <1>8, <1>12 DEF CloneOK
<1>17. DeleteOK
  BY <1>9, <1>10 DEF DeleteOK
<1> QED
  BY <1>13, <1>14, <1>15, <1>16, <1>17 DEF GuestInv

\* Every step keeps the invariant.
LEMMA StepInv == GuestInv /\ [Next]_vars => GuestInv' /\ IDKept
<1> SUFFICES ASSUME GuestInv, [Next]_vars PROVE GuestInv' /\ IDKept
  OBVIOUS
<1>1. TypeOK /\ NamedOK /\ WorkerOK /\ SvcOK /\ UploadedInGuest /\ CloneOK /\ DeleteOK
  BY DEF GuestInv
<1>2. SvcKept /\ SvcOK' /\ svc' \in [SvcName -> SvcSnapshot]
  BY <1>1, StepSvc
<1>3. IDKept
  BY <1>1, StepID
<1>4. FaultsGrow
  BY <1>1, StepFaults
<1>5. SnapshotSide'
  BY <1>1, <1>2, StepSide DEF SideInv
<1>6. RestoreSide'
  BY <1>1, <1>3, <1>4, StepRestore DEF RestoreInv
<1>7. DeleteSide'
  BY <1>1, <1>2, <1>3, <1>4, StepDelete DEF DeleteInv
<1>8. localMode' \in BOOLEAN /\ request' \in {"restore", "delete"}
  BY <1>1, StepMode DEF TypeOK
<1>9. TypeOK'
  BY <1>2, <1>4, <1>5, <1>6, <1>7, <1>8
     DEF TypeOK, SnapshotSide, RestoreSide, DeleteSide, DeleteType, SvcDeleteType, FaultsGrow
<1> QED
  BY <1>2, <1>3, <1>5, <1>6, <1>7, <1>9 DEF GuestInv, SnapshotSide, RestoreSide, DeleteSide

\* The guest's backup driver and what it sees of the supervisor's keep the
\* inductive invariant, whatever fails.
THEOREM Invariance == Spec => []GuestInv
BY InitInv, StepInv, PTL DEF Spec

\* The variables of the guest's workers, of its objects and of the supervisor's
\* have their types.
THEOREM TypeCorrect == Spec => []TypeOK
<1>1. GuestInv => TypeOK
  BY DEF GuestInv
<1> QED
  BY <1>1, Invariance, PTL

\* The nested ID that createSnapshot gives to the guest's Snapshot means, to the
\* supervisor's restore and to its deletion, the supervisor's snapshot that it
\* was made from, for any number of snapshots.
THEOREM IDNames == Spec => []IDNamesSnapshot
<1>1. GuestInv => IDNamesSnapshot
  <2> SUFFICES ASSUME GuestInv, snapshot.id # None PROVE IDNamesSnapshot
    BY DEF IDNamesSnapshot
  <2>1. snapshot.svc # None /\ snapshot.id = GuestSnapshotID(snapshot.svc) /\ svc[snapshot.svc].told
    BY DEF GuestInv, NamedOK
  <2>2. snapshot.svc \in SvcName
    BY <2>1 DEF GuestInv, TypeOK, GuestSnapshot
  <2> QED
    BY <2>1, <2>2, IDTargets DEF IDNamesSnapshot
<1> QED
  BY <1>1, Invariance, PTL

\* Once updateSnapshotStatusPhase has given the guest's Snapshot its ID, no step
\* of a worker, no late mirror update and no restart changes it, or the
\* supervisor's Snapshot it names.
THEOREM IDFinal == Spec => [][IDKept]_vars
BY InitInv, StepInv, PTL DEF Spec

\* syncSvcSnapshotByKey makes the guest's Snapshot Uploaded only when the upload
\* of the very snapshot it names has completed.
THEOREM Uploads == Spec => []UploadedInGuest
<1>1. GuestInv => UploadedInGuest
  BY DEF GuestInv
<1> QED
  BY <1>1, Invariance, PTL

\* A restore that updateGuestCloneFromSnapshotStatusWithSupervisor completes has
\* bound the guest's PVC to a volume with the data of the snapshot, unless the
\* error of createGuestPV was dropped.
THEOREM Restores == Spec => []RestoredInGuest
<1>1. GuestInv => RestoredInGuest
  <2> SUFFICES ASSUME GuestInv, clone = "Completed", ~Happened("pv")
               PROVE  /\ claim.volume \in SvcName
                      /\ svcClone[claim.volume].data
                      /\ Target(svcClone[claim.volume].id) = Entity("ivd", snapshot.svc)
    BY DEF RestoredInGuest
  <2>1. CloneOK /\ NamedOK
    BY DEF GuestInv
  <2>2. PICK n \in SvcName : n = claim.volume /\ svcClone[n].phase = "Completed"
    BY <2>1 DEF CloneOK
  <2>3. svcClone[n].data /\ snapshot.svc # None /\ svcClone[n].id = ConvertSnapshotID(snapshot.id, n)
    BY <2>1, <2>2 DEF CloneOK
  <2>4. snapshot.id = GuestSnapshotID(snapshot.svc)
    BY <2>1, <2>3 DEF NamedOK
  <2>5. Target(svcClone[n].id) = Entity("ivd", snapshot.svc)
    BY <2>3, <2>4, IDTargets
  <2> QED
    BY <2>2, <2>3, <2>5
<1> QED
  BY <1>1, Invariance, PTL

\* A deletion that updateDeleteSnapshotStatusPhase completes has deleted both
\* copies of the snapshot, or has asked the upload to stop, unless the
\* supervisor's deletion failed, an outcome that the guest does not look at.
THEOREM Deletes == Spec => []DeletedInGuest
<1>1. GuestInv => DeletedInGuest
  BY DEF GuestInv, DeleteOK, Deleted, DeletedInGuest
<1> QED
  BY <1>1, Invariance, PTL

-----------------------------------------------------------------------------
(* What has ended stays as it is *)

\* Only a DeleteSnapshot that is New has a worker.
DeletePending == delete.pc # "idle" => delete.phase = "New"

\* A DeleteSnapshot that has ended stays as it is, and nothing more is asked of
\* the supervisor for it.
DeleteKept ==
  delete.phase \in {"Completed", "Failed"} => delete' = delete /\ svcDelete'.id = svcDelete.id

\* No step gives it a worker again.
LEMMA StepEnded ==
  ASSUME DeleteInv, DeletePending, [Next]_vars
  PROVE  DeletePending' /\ DeleteKept
<1>0. delete \in DeleteType /\ svcDelete \in SvcDeleteType
  BY DeleteFields DEF DeleteInv, TypeOK, SvcDeleteType
<1>1. CASE UNCHANGED deleteVars
  BY <1>1 DEF deleteVars, DeletePending, DeleteKept
<1>2. CASE DriverRestarts /\ svcDelete' = svcDelete
  <2>1. delete' = [delete EXCEPT !.pc = "idle"]
    BY <1>2 DEF DriverRestarts
  <2>2. delete'.pc = "idle" /\ (delete.pc = "idle" => delete' = delete)
    BY <1>0, <2>1 DEF DeleteType
  <2> QED
    BY <1>2, <2>2 DEF DeletePending, DeleteKept
<1>3. CASE RequestDelete
  <2>1. delete.phase = "Absent" /\ delete' = [phase |-> "New", pc |-> "idle"]
    BY <1>3 DEF RequestDelete, DeleteStep
  <2> QED
    BY <2>1 DEF DeletePending, DeleteKept
<1>4. CASE CreateSvcDelete
  <2>1. delete.phase = "New" /\ \E pc \in {"wait", "Failed"} : delete' = [delete EXCEPT !.pc = pc]
    BY <1>4 DEF CreateSvcDelete, DeleteStep
  <2>2. delete'.phase = "New"
    BY <1>0, <2>1 DEF DeleteType
  <2> QED
    BY <2>1, <2>2 DEF DeletePending, DeleteKept
<1>5. CASE SvcDeleteAnswered
  <2>1. delete.pc = "wait" /\ delete' = [delete EXCEPT !.pc = "Completed"]
    BY <1>5 DEF SvcDeleteAnswered, DeleteStep
  <2>2. delete'.phase = delete.phase
    BY <1>0, <2>1 DEF DeleteType
  <2> QED
    BY <2>1, <2>2 DEF DeletePending, DeleteKept
<1>6. CASE UpdateGuestDelete
  <2>1. /\ delete.pc \in {"Completed", "Failed"}
        /\ delete' = [phase |-> delete.pc, pc |-> "idle"] \/ delete' = [delete EXCEPT !.pc = "idle"]
    BY <1>6 DEF UpdateGuestDelete, DeleteStep
  <2>2. delete'.pc = "idle"
    BY <1>0, <2>1 DEF DeleteType
  <2> QED
    BY <2>1, <2>2 DEF DeletePending, DeleteKept
<1>7. CASE SvcDeleteEnds
  <2>1. delete' = delete /\ \E p \in {"Completed", "Failed"} : svcDelete' = [svcDelete EXCEPT !.phase = p]
    BY <1>7 DEF SvcDeleteEnds
  <2>2. svcDelete'.id = svcDelete.id
    BY <1>0, <2>1 DEF SvcDeleteType
  <2> QED
    BY <2>1, <2>2 DEF DeletePending, DeleteKept
<1> HIDE DEF DeleteInv, DeletePending, DeleteKept
<1>8. CASE CreateSnapshot \/ CleanUpSnapshot \/ DelSnapshot \/ Crash
  BY <1>1, <1>2, <1>8 DEF CreateSnapshot, SyncSnapshotByKey, GetNames, CreateSvcSnapshot, UpdateSvcStatusNew,
     WriteSvc, ListSvcSnapshots, GetMetadata, GetLatest, UpdateStatus, CleanUpSnapshot, DelSnapshot, Crash
<1>9. ASSUME NEW n \in SvcName, Mirror(n) \/ Supervisor(n) \/ SvcCloneEnds(n) PROVE DeletePending' /\ DeleteKept
  BY <1>1, <1>2, <1>9 DEF Mirror, SyncSvcSnapshotByKey, GetLatest, UpdateStatus, Supervisor, SvcTake,
     SvcTell, SvcUpload, SvcMirror, SvcCleanUp, SvcUnchanged, SvcCloneEnds
<1>10. CASE RequestRestore \/ CloneFromSnapshot \/ UNCHANGED vars
  BY <1>1, <1>10 DEF vars, RequestRestore, CloneFromSnapshot, SyncCloneFromSnapshotByKey, RestoreStep, CreateSvcClone,
     SvcCloneAnswered, CreateGuestPV, CreateGuestPVC, WaitForBound, UpdateGuestClone, FailClone
<1> QED
  BY <1>3, <1>4, <1>5, <1>6, <1>7, <1>8, <1>9, <1>10 DEF Next, DeleteSnapshot

\* The guest's DeleteSnapshot, once updateDeleteSnapshotStatusPhase has written
\* Completed or Failed, is never processed again, whatever fails and however often
\* the driver restarts: the outcome stays, and no further DeleteSnapshot is
\* created in the supervisor cluster.
THEOREM DeleteIsFinal == Spec => [][DeleteKept]_vars
<1>1. Init => DeletePending
  BY DEF Init, DeletePending
<1>2. GuestInv /\ DeletePending /\ [Next]_vars => DeletePending' /\ DeleteKept
  BY StepEnded DEF GuestInv, DeleteInv
<1> QED
  BY <1>1, <1>2, Invariance, PTL DEF Spec

\* While no call of the API server has failed, a completed clone has no worker
\* that is past the test of syncCloneFromSnapshotByKey.
CompletedIdle == clone = "Completed" => Happened("api") \/ restore.pc \in {"idle", "queued"}

\* A clone that is Completed stays so, with the guest's PVC that was bound for it.
RestoreKept == clone = "Completed" => Happened("api")' \/ (clone' = clone /\ claim' = claim)

\* No step but an update that failed, and was carried out, takes that away.
LEMMA StepCompleted ==
  ASSUME TypeOK, FaultsGrow, CompletedIdle, [Next]_vars
  PROVE  CompletedIdle' /\ RestoreKept
<1>0. Happened("api") => Happened("api")'
  BY DEF FaultsGrow, Happened
<1>1. CASE UNCHANGED <<clone, restore, claim>>
  BY <1>0, <1>1 DEF CompletedIdle, RestoreKept
<1>2. CASE DriverRestarts /\ UNCHANGED <<clone, claim>>
  <2>1. restore'.pc \in {"idle", "queued"}
    BY <1>2, RestoreFields DEF DriverRestarts
  <2> QED
    BY <1>2, <2>1 DEF CompletedIdle, RestoreKept
<1>3. CASE RequestRestore
  BY <1>3 DEF RequestRestore, CompletedIdle, RestoreKept
<1>4. CASE SyncCloneFromSnapshotByKey
  BY <1>0, <1>4, RestoreFields DEF SyncCloneFromSnapshotByKey, CompletedIdle, RestoreKept
<1>5. CASE CreateSvcClone \/ SvcCloneAnswered \/ CreateGuestPV \/ CreateGuestPVC \/ WaitForBound
  <2>1. clone' = clone /\ restore.pc \notin {"idle", "queued"}
    BY <1>5 DEF CreateSvcClone, SvcCloneAnswered, CreateGuestPV, CreateGuestPVC, WaitForBound, RestoreStep
  <2> QED
    BY <1>0, <2>1 DEF CompletedIdle, RestoreKept
<1>6. CASE UpdateGuestClone
  <2>1. /\ restore.pc = "update"
        /\ restore' = NotRestoring \/ Happened("api")'
    BY <1>6, FaultType DEF UpdateGuestClone
  <2> QED
    BY <1>0, <2>1, RestoreFields DEF CompletedIdle, RestoreKept
<1>7. CASE FailClone
  <2>1. restore.pc = "fail" /\ restore'.pc = "queued"
    BY <1>7, RestoreFields DEF FailClone
  <2> QED
    BY <1>0, <2>1 DEF CompletedIdle, RestoreKept
<1> HIDE DEF CompletedIdle, RestoreKept
<1>8. CASE CreateSnapshot \/ CleanUpSnapshot \/ DelSnapshot \/ Crash
  BY <1>1, <1>2, <1>8 DEF restoreVars, CreateSnapshot, SyncSnapshotByKey, GetNames, CreateSvcSnapshot,
     UpdateSvcStatusNew, WriteSvc, ListSvcSnapshots, GetMetadata, GetLatest, UpdateStatus, CleanUpSnapshot,
     DelSnapshot, Crash
<1>9. ASSUME NEW n \in SvcName, Mirror(n) \/ Supervisor(n) \/ SvcCloneEnds(n) PROVE CompletedIdle' /\ RestoreKept
  BY <1>1, <1>2, <1>9 DEF restoreVars, Mirror, SyncSvcSnapshotByKey, GetLatest, UpdateStatus, Supervisor, SvcTake,
     SvcTell, SvcUpload, SvcMirror, SvcCleanUp, SvcUnchanged, SvcCloneEnds
<1>10. CASE RequestDelete \/ DeleteSnapshot \/ SvcDeleteEnds \/ UNCHANGED vars
  BY <1>1, <1>10 DEF vars, restoreVars, RequestDelete, DeleteSnapshot, DeleteStep, CreateSvcDelete, SvcDeleteAnswered,
     UpdateGuestDelete, SvcDeleteEnds
<1> QED
  BY <1>3, <1>4, <1>5, <1>6, <1>7, <1>8, <1>9, <1>10 DEF Next, CloneFromSnapshot

\* A guest's clone that was Completed is not failed or restored once more by a
\* resync or a restart, as long as no call failed.  An update that reports an
\* error, and was carried out, does take it away: cloneFromSnapshot goes on to
\* fail the clone.
THEOREM RestoreIsFinal == Spec => [][RestoreKept]_vars
<1>1. Init => CompletedIdle
  BY DEF Init, CompletedIdle
<1>2. GuestInv /\ CompletedIdle /\ [Next]_vars => CompletedIdle' /\ RestoreKept
  BY StepCompleted, StepFaults DEF GuestInv
<1> QED
  BY <1>1, <1>2, Invariance, PTL DEF Spec

-----------------------------------------------------------------------------
(* One Snapshot in the supervisor cluster *)

\* No call has failed, the driver has not died, and its informer has listed in
\* time.
Quiet == ~Happened("api") /\ ~Happened("crash") /\ ~Happened("late")

\* The supervisor has at most one Snapshot for the guest's.
OneSvc == \A m, n \in SvcName : svc[m] # NoSvc /\ svc[n] # NoSvc => m = n

\* The phase of a Snapshot that SnapshotRef has just created.
Blank == ""

\* How far createSnapshot is tells how far the supervisor is: before the call
\* of SnapshotRef there is nothing, and while the informer waits, the outcome has
\* not been written.  No one comes between the Get and the UpdateStatus of
\* createSnapshot.
CreateOnce ==
  LET c == worker["create"] IN
  /\ c.pc \in {"repository", "create"} \/ (c.pc = "idle" /\ snapshot.phase = "New") =>
       \A n \in SvcName : svc[n] = NoSvc
  /\ c.pc = "status" => svc[c.n].phase = Blank /\ svc[c.n].up = "Absent" /\ ~svc[c.n].told
  /\ c.pc = "list" => c = At("list", c.n) /\ (svc[c.n].told => svc[c.n].phase \in WaitForPhases)
  /\ c.pc = "watch" => c = At("watch", c.n) /\ ~svc[c.n].told
  /\ c.pc = "put" => "create" \in fresh

\* Without faults the guest's Snapshot has at most one Snapshot in the supervisor
\* cluster.
SingleSvc == Quiet => OneSvc

OnceInv == Quiet => OneSvc /\ CreateOnce

\* A change of one of the supervisor's Snapshots leaves the others alone.
LEMMA OthersKept ==
  ASSUME NEW n \in SvcName, SvcChanges(n)
  PROVE  \A m \in SvcName \ {n} : svc'[m] = svc[m]
BY DEF SvcChanges, SvcBecomes

\* The supervisor works on a Snapshot that exists.  What remains to be shown is
\* what it does to the one that createSnapshot is busy with.
LEMMA ExistingChanges ==
  ASSUME TypeOK, WorkerOK, OneSvc, CreateOnce, NEW n \in SvcName, svc[n] # NoSvc,
         \A m \in SvcName \ {n} : svc'[m] = svc[m],
         snapshot' = snapshot, fresh' = fresh,
         \/ worker'["create"].pc \in {"metadata", "get"}
         \/ /\ worker'["create"] = worker["create"]
            /\ worker["create"].n = n =>
                 /\ worker["create"].pc # "status"
                 /\ worker["create"].pc = "list" /\ svc'[n].told => svc'[n].phase \in WaitForPhases
                 /\ worker["create"].pc = "watch" => ~svc'[n].told
  PROVE  OneSvc' /\ CreateOnce'
<1>1. OneSvc'
  <2> SUFFICES ASSUME NEW m \in SvcName, svc'[m] # NoSvc PROVE m = n
    BY DEF OneSvc
  <2> QED
    BY DEF OneSvc
<1>2. CASE worker'["create"].pc \in {"metadata", "get"}
  BY <1>1, <1>2 DEF CreateOnce
<1>3. CASE worker'["create"] = worker["create"]
  <2> DEFINE c == worker["create"]
  <2>1. c.pc \notin {"repository", "create"} /\ ~(c.pc = "idle" /\ snapshot.phase = "New")
    BY DEF CreateOnce
  <2>2. c.pc \in {"status", "list", "watch"} => c.n \in SvcName
    BY DEF WorkerOK
  <2>3. CASE c.n = n
    BY <1>1, <1>3, <2>1, <2>3 DEF CreateOnce
  <2>4. CASE c.n # n
    <3>1. c.pc \in {"status", "list", "watch"} => svc'[c.n] = svc[c.n]
      BY <2>2, <2>4
    <3> QED
      BY <1>1, <1>3, <2>1, <3>1 DEF CreateOnce
  <2> QED
    BY <2>3, <2>4
<1> QED
  BY <1>1, <1>2, <1>3

\* A Snapshot without a name in the supervisor cluster has no phase and no Upload.
LEMMA NoSvcFields == NoSvc.phase = "Absent" /\ NoSvc.up = "Absent"
BY DEF NoSvc

\* The phase before New is written is none of the others.
LEMMA BlankPhase == Blank \notin {"Absent", "New"}
BY Zenon DEF Blank

\* The supervisor's steps.
LEMMA SupervisorOnce ==
  ASSUME TypeOK, WorkerOK, OneSvc, CreateOnce, NEW n \in SvcName, Supervisor(n), ~Happened("late")'
  PROVE  OneSvc' /\ CreateOnce'
<1>0. /\ svc[n] \in SvcSnapshot /\ svc \in [SvcName -> SvcSnapshot]
      /\ worker \in [{"create", "mirror"} -> WorkerState]
  BY DEF TypeOK
<1>1. \A m \in SvcName \ {n} : svc'[m] = svc[m]
  BY SvcTakeFields, SvcTellFields, SvcUploadFields, SvcPhaseFields, OthersKept DEF Supervisor
<1> DEFINE c == worker["create"]
<1>2. CASE SvcTake(n)
  <2>0. PICK up : svc' = [svc EXCEPT ![n].local = TRUE, ![n].up = up]
    BY <1>2 DEF SvcTake
  <2>1. svc[n].phase = "New" /\ snapshot' = snapshot /\ fresh' = fresh /\ worker' = worker
    BY <1>2 DEF SvcTake, SvcUnchanged
  <2>2. svc'[n].phase = svc[n].phase /\ svc'[n].told = svc[n].told
    BY <1>0, <2>0 DEF SvcSnapshot
  <2>3. c.n = n => /\ c.pc # "status"
                   /\ c.pc = "list" /\ svc'[n].told => svc'[n].phase \in WaitForPhases
                   /\ c.pc = "watch" => ~svc'[n].told
    BY <2>1, <2>2, BlankPhase DEF CreateOnce
  <2> QED
    BY <1>1, <2>1, <2>3, NoSvcFields, ExistingChanges
<1>3. CASE SvcTell(n)
  <2>1. PICK p \in WaitForPhases :
        /\ svc' = [svc EXCEPT ![n].phase = p, ![n].told = TRUE]
        /\ IF c = At("watch", n) THEN Goto("create", Heard(p, n)) ELSE worker' = worker
    BY <1>3 DEF SvcTell, WaitForPhases
  <2>2. svc[n].phase \notin {"Absent", Blank} /\ snapshot' = snapshot /\ fresh' = fresh
    BY <1>3, Zenon DEF SvcTell, SvcUnchanged, Blank
  <2>3. svc'[n].phase = p
    BY <1>0, <2>1 DEF SvcSnapshot
  <2>4. CASE c = At("watch", n)
    <3>1. At("metadata", n).pc = "metadata"
      BY Zenon DEF At
    <3>2. Update("SnapshotFailed", None).pc = "get"
      BY DEF Update
    <3>3. Heard(p, n).pc \in {"metadata", "get"}
      BY <3>1, <3>2 DEF Heard
    <3>4. worker'["create"] = Heard(p, n)
      BY <1>0, <2>1, <2>4 DEF Goto
    <3> QED
      BY <1>1, <2>2, <3>3, <3>4, NoSvcFields, ExistingChanges
  <2>5. CASE c # At("watch", n)
    <3>1. c.n = n => c.pc # "status" /\ c.pc # "watch"
      BY <2>2, <2>5 DEF CreateOnce
    <3> QED
      BY <1>1, <2>1, <2>2, <2>3, <2>5, <3>1, NoSvcFields, ExistingChanges
  <2> QED
    BY <2>4, <2>5
<1>4. CASE SvcUpload(n)
  <2>1. svc[n].up # "Absent" /\ snapshot' = snapshot /\ fresh' = fresh /\ worker' = worker
    BY <1>4 DEF SvcUpload, SvcUnchanged
  <2>2. svc'[n].phase = svc[n].phase /\ svc'[n].told = svc[n].told
    <3>1. ASSUME NEW up, svc' = [svc EXCEPT ![n].up = up]
          PROVE  svc'[n].phase = svc[n].phase /\ svc'[n].told = svc[n].told
      BY <1>0, <3>1 DEF SvcSnapshot
    <3>2. ASSUME NEW up, svc' = [svc EXCEPT ![n].up = up, ![n].local = FALSE]
          PROVE  svc'[n].phase = svc[n].phase /\ svc'[n].told = svc[n].told
      BY <1>0, <3>2 DEF SvcSnapshot
    <3>3. ASSUME NEW up, svc' = [svc EXCEPT ![n].up = up, ![n].remote = TRUE, ![n].local = FALSE]
          PROVE  svc'[n].phase = svc[n].phase /\ svc'[n].told = svc[n].told
      BY <1>0, <3>3 DEF SvcSnapshot
    <3> QED
      BY <1>4, <3>1, <3>2, <3>3 DEF SvcUpload
  <2>3. c.n = n => /\ c.pc # "status"
                   /\ c.pc = "list" /\ svc'[n].told => svc'[n].phase \in WaitForPhases
                   /\ c.pc = "watch" => ~svc'[n].told
    BY <2>1, <2>2 DEF CreateOnce
  <2> QED
    BY <1>1, <2>1, <2>3, NoSvcFields, ExistingChanges
<1>5. CASE SvcMirror(n)
  <2>1. /\ svc[n].up # "Absent" /\ snapshot' = snapshot /\ fresh' = fresh /\ worker' = worker
        /\ svc' = [svc EXCEPT ![n].phase = SvcPhaseOf[svc[n].up]]
        /\ svc[n].told /\ c = At("list", n) => Fault("late")
    BY <1>5 DEF SvcMirror, SvcUnchanged
  <2>2. svc'[n].told = svc[n].told
    BY <1>0, <2>1 DEF SvcSnapshot
  <2>3. ~(svc[n].told /\ c = At("list", n))
    BY <2>1, FaultType
  <2>4. c.n = n => /\ c.pc # "status"
                   /\ c.pc = "list" => ~svc'[n].told
                   /\ c.pc = "watch" => ~svc'[n].told
    BY <2>1, <2>2, <2>3 DEF CreateOnce
  <2> QED
    BY <1>1, <2>1, <2>4, NoSvcFields, ExistingChanges
<1>6. CASE SvcCleanUp(n)
  <2>1. svc[n].phase = "Uploaded" /\ svc[n].told
    BY <1>6 DEF SvcCleanUp
  <2>2. c.n = n => c.pc \notin {"status", "list", "watch"}
    BY <2>1 DEF CreateOnce, WaitForPhases
  <2>3. c # At("watch", n)
    <3>1. At("watch", n).pc = "watch" /\ At("watch", n).n = n
      BY WorkerFields, Zenon
    <3> QED
      BY <2>2, <3>1
  <2>4. snapshot' = snapshot /\ fresh' = fresh /\ worker' = worker
    BY <1>6, <2>3 DEF SvcCleanUp, snapshotVars
  <2> QED
    BY <1>1, <2>1, <2>2, <2>4, NoSvcFields, ExistingChanges
<1> QED
  BY <1>2, <1>3, <1>4, <1>5, <1>6 DEF Supervisor

\* createSnapshot and its worker, up to the supervisor's Snapshot.
LEMMA CallOnce ==
  ASSUME TypeOK, WorkerOK, OneSvc, CreateOnce, Quiet',
         SyncSnapshotByKey \/ GetNames \/ CreateSvcSnapshot \/ UpdateSvcStatusNew
  PROVE  OneSvc' /\ CreateOnce'
<1>0. svc \in [SvcName -> SvcSnapshot] /\ worker \in [{"create", "mirror"} -> WorkerState]
  BY DEF TypeOK
<1>1. ~Fault("api")
  BY FaultType DEF Quiet
<1>2. \A state : Goto("create", state) => worker'["create"] = state
  BY <1>0 DEF Goto
<1>3. CASE SyncSnapshotByKey
  <2>1. /\ svc' = svc /\ snapshot' = snapshot /\ fresh' = fresh /\ worker["create"].pc = "idle"
        /\ \/ snapshot.phase = "New" /\ Goto("create", At("repository", None))
           \/ worker' = worker
    BY <1>3 DEF SyncSnapshotByKey
  <2>2. At("repository", None).pc = "repository"
    BY Zenon DEF At
  <2>3. CASE snapshot.phase = "New" /\ Goto("create", At("repository", None))
    <3>1. worker'["create"].pc = "repository" /\ \A n \in SvcName : svc[n] = NoSvc
      BY <1>2, <2>1, <2>2, <2>3 DEF CreateOnce
    <3> QED
      BY <2>1, <3>1 DEF OneSvc, CreateOnce
  <2>4. CASE worker' = worker
    BY <2>1, <2>4 DEF OneSvc, CreateOnce
  <2> QED
    BY <2>1, <2>3, <2>4
<1>4. CASE GetNames
  <2>1. /\ svc' = svc /\ worker["create"].pc = "repository"
        /\ Goto("create", At("create", None))
    BY <1>1, <1>4 DEF GetNames
  <2>2. At("create", None).pc = "create"
    BY Zenon DEF At
  <2>3. worker'["create"].pc = "create" /\ \A n \in SvcName : svc[n] = NoSvc
    BY <1>2, <2>1, <2>2 DEF CreateOnce
  <2> QED
    BY <2>1, <2>3 DEF OneSvc, CreateOnce
<1>5. CASE CreateSvcSnapshot
  <2>1. PICK n \in SvcName : n = NewSvc /\ svc[n] = NoSvc
    BY <1>5, NewSvcFree DEF CreateSvcSnapshot
  <2>2. /\ worker["create"].pc = "create"
        /\ svc' = [svc EXCEPT ![n].phase = Blank]
        /\ Goto("create", At("status", n))
    BY <1>1, <1>5, <2>1, Zenon DEF CreateSvcSnapshot, WriteSvc, Blank
  <2>3. \A m \in SvcName : svc[m] = NoSvc
    BY <2>2 DEF CreateOnce
  <2>4. \A m \in SvcName \ {n} : svc'[m] = NoSvc
    BY <1>0, <2>2, <2>3
  <2>5. svc'[n] = [NoSvc EXCEPT !.phase = Blank]
    BY <1>0, <2>1, <2>2
  <2>6. svc'[n].phase = Blank /\ svc'[n].up = "Absent" /\ ~svc'[n].told
    BY <2>5 DEF NoSvc
  <2>7. At("status", n).pc = "status" /\ At("status", n).n = n
    BY Zenon DEF At
  <2>8. worker'["create"].pc = "status" /\ worker'["create"].n = n
    BY <1>2, <2>2, <2>7
  <2>9. OneSvc'
    BY <2>4 DEF OneSvc
  <2> QED
    BY <2>6, <2>8, <2>9 DEF CreateOnce
<1>6. CASE UpdateSvcStatusNew
  <2>1. PICK n \in SvcName : n = worker["create"].n
    BY <1>6 DEF UpdateSvcStatusNew, WorkerOK
  <2>2. /\ worker["create"].pc = "status"
        /\ svc' = [svc EXCEPT ![n].phase = "New"]
        /\ Goto("create", At("list", n))
    BY <1>1, <1>6, <2>1 DEF UpdateSvcStatusNew, WriteSvc
  <2>3. svc[n] # NoSvc /\ ~svc[n].told
    BY <2>1, <2>2, NoSvcFields, BlankPhase DEF CreateOnce
  <2>4. (\A m \in SvcName \ {n} : svc'[m] = svc[m]) /\ svc'[n].told = svc[n].told
    BY <1>0, <2>2 DEF SvcSnapshot
  <2>5. At("list", n).pc = "list" /\ At("list", n).n = n
    BY Zenon DEF At
  <2>6. worker'["create"] = At("list", n)
    BY <1>2, <2>2
  <2>7. OneSvc'
    <3> SUFFICES ASSUME NEW m \in SvcName, svc'[m] # NoSvc PROVE m = n
      BY DEF OneSvc
    <3> QED
      BY <2>3, <2>4 DEF OneSvc
  <2> QED
    BY <2>3, <2>4, <2>5, <2>6, <2>7 DEF CreateOnce
<1> QED
  BY <1>3, <1>4, <1>5, <1>6

\* Its wait, and the update of the guest's Snapshot.
LEMMA AnswerOnce ==
  ASSUME TypeOK, WorkerOK, OneSvc, CreateOnce, Quiet',
         ListSvcSnapshots \/ GetMetadata \/ GetLatest("create") \/ UpdateStatus("create")
  PROVE  OneSvc' /\ CreateOnce'
<1>0. svc \in [SvcName -> SvcSnapshot] /\ worker \in [{"create", "mirror"} -> WorkerState]
      /\ worker["create"] \in WorkerState
  BY DEF TypeOK
<1>1. ~Fault("api")
  BY FaultType DEF Quiet
<1>2. \A state : Goto("create", state) => worker'["create"] = state
  BY <1>0 DEF Goto
<1>3. svc' = svc /\ OneSvc'
  BY DEF ListSvcSnapshots, GetMetadata, GetLatest, UpdateStatus, OneSvc
<1>4. \A p, n : Update(p, n).pc = "get"
  BY DEF Update
<1>5. CASE ListSvcSnapshots
  <2>1. PICK n \in SvcName : n = worker["create"].n
    BY <1>5 DEF ListSvcSnapshots, WorkerOK
  <2>2. /\ worker["create"].pc = "list"
        /\ Goto("create", IF svc[n].phase \in WaitForPhases THEN Heard(svc[n].phase, n) ELSE At("watch", n))
    BY <1>5, <2>1 DEF ListSvcSnapshots
  <2>3. CASE svc[n].phase \in WaitForPhases
    <3>1. worker'["create"] = Heard(svc[n].phase, n)
      BY <1>2, <2>2, <2>3
    <3>2. At("metadata", n).pc = "metadata"
      BY Zenon DEF At
    <3>3. worker'["create"].pc \in {"metadata", "get"}
      BY <1>4, <3>1, <3>2 DEF Heard
    <3> QED
      BY <1>3, <3>3 DEF CreateOnce
  <2>4. CASE svc[n].phase \notin WaitForPhases
    <3>1. worker'["create"] = At("watch", n)
      BY <1>2, <2>2, <2>4
    <3>2. At("watch", n).pc = "watch" /\ At("watch", n).n = n
      BY Zenon DEF At
    <3>3. ~svc[n].told
      BY <2>1, <2>2, <2>4 DEF CreateOnce
    <3> QED
      BY <1>3, <3>1, <3>2, <3>3 DEF CreateOnce
  <2> QED
    BY <2>3, <2>4
<1>6. CASE GetMetadata
  <2>1. \E p, n : Goto("create", Update(p, n))
    BY <1>6 DEF GetMetadata
  <2>2. worker'["create"].pc = "get"
    BY <1>2, <1>4, <2>1
  <2> QED
    BY <1>3, <2>2 DEF CreateOnce
<1>7. Idle.pc = "idle"
  BY Zenon DEF Idle, At
<1>8. CASE GetLatest("create")
  <2>1. worker["create"].want \in {"Snapshotted", "SnapshotFailed"} /\ snapshot' = snapshot
    BY <1>8 DEF GetLatest, WorkerOK
  <2>2. \/ snapshot.phase \in {worker["create"].want, "Gone"} /\ Goto("create", Idle)
        \/ Goto("create", [worker["create"] EXCEPT !.pc = "put"]) /\ fresh' = fresh \cup {"create"}
    BY <1>1, <1>8 DEF GetLatest
  <2>3. CASE snapshot.phase \in {worker["create"].want, "Gone"} /\ Goto("create", Idle)
    <3>1. worker'["create"].pc = "idle" /\ snapshot'.phase # "New"
      BY <1>2, <1>7, <2>1, <2>3
    <3> QED
      BY <1>3, <3>1 DEF CreateOnce
  <2>4. CASE Goto("create", [worker["create"] EXCEPT !.pc = "put"]) /\ fresh' = fresh \cup {"create"}
    <3>1. worker'["create"].pc = "put"
      BY <1>0, <1>2, <2>4 DEF WorkerState
    <3> QED
      BY <1>3, <2>4, <3>1 DEF CreateOnce
  <2> QED
    BY <2>2, <2>3, <2>4
<1>9. CASE UpdateStatus("create")
  <2>1. worker["create"].pc = "put" /\ "create" \in fresh
    BY <1>9 DEF UpdateStatus, CreateOnce
  <2>2. worker["create"].want \in {"Snapshotted", "SnapshotFailed"}
    BY <2>1 DEF WorkerOK
  <2>3. Goto("create", Idle) /\ snapshot' = Updated("create")
    BY <1>1, <1>9, <2>1 DEF UpdateStatus
  <2>4. worker'["create"].pc = "idle" /\ snapshot'.phase # "New"
    BY <1>2, <1>7, <2>2, <2>3 DEF Updated
  <2> QED
    BY <1>3, <2>4 DEF CreateOnce
<1> QED
  BY <1>5, <1>6, <1>8, <1>9

\* The other steps of the guest: createSnapshot stays where it is, and what it has
\* read is not overwritten.
LEMMA OtherOnce ==
  ASSUME OneSvc, CreateOnce, svc' = svc, worker'["create"] = worker["create"],
         snapshot'.phase = "New" => snapshot.phase = "New",
         worker["create"].pc = "put" /\ "create" \in fresh => "create" \in fresh'
  PROVE  OneSvc' /\ CreateOnce'
<1>1. OneSvc'
  BY DEF OneSvc
<1> QED
  BY <1>1 DEF CreateOnce

\* The svcSnapshotWorker writes the guest's Snapshot when createSnapshot is done.
LEMMA MirrorOnce ==
  ASSUME TypeOK, NamedOK, WorkerOK, OneSvc, CreateOnce, NEW n \in SvcName, Mirror(n)
  PROVE  OneSvc' /\ CreateOnce'
<1>1. svc' = svc
  BY DEF Mirror, SyncSvcSnapshotByKey, GetLatest, UpdateStatus
<1>2. \E state : Goto("mirror", state)
  BY DEF Mirror, SyncSvcSnapshotByKey, GetLatest, UpdateStatus
<1>3. worker'["create"] = worker["create"]
  BY <1>2 DEF Goto, TypeOK
<1>4. CASE SyncSvcSnapshotByKey(n)
  BY <1>1, <1>3, <1>4, OtherOnce DEF SyncSvcSnapshotByKey
<1>5. CASE GetLatest("mirror")
  BY <1>1, <1>3, <1>5, OtherOnce DEF GetLatest
<1>6. CASE UpdateStatus("mirror")
  <2>1. worker["mirror"].want \in Mirrored /\ snapshot.svc # None
    BY <1>6 DEF UpdateStatus, WorkerOK
  <2>2. worker["create"].pc = "idle"
    BY <2>1 DEF NamedOK
  <2>3. snapshot' = Updated("mirror") \/ snapshot' = snapshot
    BY <1>6 DEF UpdateStatus
  <2>4. snapshot'.phase = "New" => snapshot.phase = "New"
    BY <2>1, <2>3 DEF Updated, Mirrored
  <2> QED
    BY <1>1, <1>3, <2>2, <2>4, OtherOnce
<1> QED
  BY <1>4, <1>5, <1>6 DEF Mirror

\* No step takes away what is known of createSnapshot, as long as nothing fails.
LEMMA StepOnce ==
  ASSUME TypeOK, NamedOK, WorkerOK, DeleteOK, OneSvc, CreateOnce, [Next]_vars, Quiet'
  PROVE  OneSvc' /\ CreateOnce'
<1>1. CASE CreateSnapshot
  BY <1>1, CallOnce, AnswerOnce DEF CreateSnapshot
<1>2. CASE CleanUpSnapshot
  <2>1. /\ worker["create"].pc = "idle" /\ worker' = worker /\ svc' = svc
        /\ snapshot' = [snapshot EXCEPT !.phase = "Gone"]
    BY <1>2 DEF CleanUpSnapshot
  <2>2. snapshot'.phase = "Gone"
    BY <2>1 DEF TypeOK, GuestSnapshot
  <2> QED
    BY <2>1, <2>2, OtherOnce
<1>3. CASE DelSnapshot
  BY <1>3, OtherOnce DEF DelSnapshot
<1>4. CASE Crash
  BY <1>4, FaultType DEF Crash, Quiet
<1>5. CASE UNCHANGED snapshotVars /\ svc' = svc
  BY <1>5, OtherOnce DEF snapshotVars
<1>6. CASE RequestRestore \/ CloneFromSnapshot \/ RequestDelete \/ DeleteSnapshot \/ UNCHANGED vars
  <2>1. UNCHANGED snapshotVars /\ svc' = svc
    BY <1>6 DEF vars, RequestRestore, CloneFromSnapshot, SyncCloneFromSnapshotByKey, RestoreStep, CreateSvcClone,
       SvcCloneAnswered, CreateGuestPV, CreateGuestPVC, WaitForBound, UpdateGuestClone, FailClone,
       RequestDelete, DeleteSnapshot, DeleteStep, CreateSvcDelete, SvcDeleteAnswered, UpdateGuestDelete
  <2> QED
    BY <1>5, <2>1
<1>7. CASE SvcDeleteEnds
  <2>1. /\ snapshot.svc \in SvcName
        /\ svc' = svc \/ SvcChanges(snapshot.svc)
    BY <1>7, SvcDeleteFields
  <2>2. UNCHANGED snapshotVars
    BY <1>7 DEF SvcDeleteEnds
  <2>3. CASE SvcChanges(snapshot.svc)
    <3>1. PICK n \in SvcName : n = snapshot.svc
      BY <2>1
    <3>2. svc[n].told /\ worker["create"].pc = "idle"
      BY <3>1, Names DEF NamedOK
    <3>3. svc[n] # NoSvc
      BY <3>2 DEF NoSvc
    <3>4. \A m \in SvcName \ {n} : svc'[m] = svc[m]
      BY <2>3, <3>1, OthersKept
    <3>5. snapshot' = snapshot /\ fresh' = fresh /\ worker' = worker
      BY <2>2 DEF snapshotVars
    <3> QED
      BY <3>2, <3>3, <3>4, <3>5, ExistingChanges
  <2> QED
    BY <1>5, <2>1, <2>2, <2>3
<1>8. ASSUME NEW n \in SvcName, Mirror(n) \/ Supervisor(n) \/ SvcCloneEnds(n) PROVE OneSvc' /\ CreateOnce'
  <2>1. CASE SvcCloneEnds(n)
    BY <1>5, <2>1 DEF SvcCloneEnds
  <2> QED
    BY <1>8, <2>1, MirrorOnce, SupervisorOnce DEF Quiet
<1> QED
  BY <1>1, <1>2, <1>3, <1>4, <1>6, <1>7, <1>8 DEF Next

\* While no call fails, the driver does not die and its informer lists in time,
\* createSnapshot creates one Snapshot in the supervisor cluster for the guest's,
\* however often resync brings the key back and however late the supervisor
\* answers: no second one is left behind that nothing in the guest names.
THEOREM OneSvcSnapshot == Spec => []SingleSvc
<1>1. Init => OnceInv
  <2> SUFFICES ASSUME Init PROVE OneSvc /\ CreateOnce
    BY DEF OnceInv
  <2>1. (\A n \in SvcName : svc[n] = NoSvc) /\ worker["create"] = Idle
    BY DEF Init
  <2>2. worker["create"].pc = "idle"
    <3>1. Idle.pc = "idle"
      BY Zenon DEF Idle, At
    <3> QED
      BY <2>1, <3>1
  <2>3. OneSvc
    BY <2>1, Zenon DEF OneSvc
  <2>4. CreateOnce
    BY <2>1, <2>2 DEF CreateOnce
  <2> QED
    BY <2>3, <2>4
<1>2. GuestInv /\ OnceInv /\ [Next]_vars => OnceInv'
  <2> SUFFICES ASSUME GuestInv, OnceInv, [Next]_vars, Quiet' PROVE OneSvc' /\ CreateOnce'
    BY DEF OnceInv
  <2>1. TypeOK /\ NamedOK /\ WorkerOK /\ DeleteOK
    BY DEF GuestInv
  <2>2. Quiet
    BY <2>1, StepFaults DEF FaultsGrow, Quiet, Happened
  <2> QED
    BY <2>1, <2>2, StepOnce DEF OnceInv
<1>3. OnceInv => SingleSvc
  BY DEF OnceInv, SingleSvc
<1> QED
  BY <1>1, <1>2, <1>3, Invariance, PTL DEF Spec

=============================================================================
