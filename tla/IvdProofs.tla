------------------------------ MODULE IvdProofs ------------------------------
(***************************************************************************)
(* Proofs about IvdVolumes, for any numbers of concurrent calls, snapshots *)
(* and faults, any capacity of the disk and any topology.                  *)
(***************************************************************************)
EXTENDS IvdVolumes, FiniteSetTheorems, TLAPS

-----------------------------------------------------------------------------
(* Types *)

\* A fault is counted and remembered.
LEMMA FaultType ==
  ASSUME FaultsOK, NEW kind, Fault(kind)
  PROVE  FaultsOK' /\ faults.kinds \subseteq faults'.kinds /\ Happened(kind)'
BY DEF FaultsOK, Fault, Happened

\* Every step either meets a fault or none.
LEMMA FaultsStay ==
  ASSUME TypeOK, [Next]_vars
  PROVE  FaultsOK' /\ \A kind : Happened(kind) => Happened(kind)'
<1>1. faults' = faults \/ \E k : Fault(k)
  BY DEF Next, vars, CheckConnections, Timeout, TakeSnapshot, CreateSnapshot, CreateSnapshotTask,
     RetrieveSnapshotDetails, GetMetadataReader, GetDataReader, RemoveSnapshot, DeleteSnapshot,
     CreateDeleteTask, DeleteSnapshotTask, RestoreVolume, Copy, Retrieve, CreateDiskFromSnapshot,
     UpdateMetadata, CreateCnsVolumeInCluster, GetDataWriter, CopyBuffer, DeleteVolume
<1>2. CASE faults' = faults
  BY <1>2 DEF TypeOK, FaultsOK, Happened
<1>3. ASSUME NEW k, Fault(k) PROVE FaultsOK' /\ \A kind : Happened(kind) => Happened(kind)'
  BY <1>3, FaultType DEF TypeOK, Happened
<1> QED
  BY <1>1, <1>2, <1>3

\* The disk's size, the buffer's size and what is written are numbers.
LEMMA Numbers ==
  /\ UnitsPerMB \in Nat /\ UnitsPerMB > 0 /\ CapacityInMB \in Nat
  /\ Size \in Nat
  /\ \A n \in Nat : Written(n) \in Nat
<1>1. UnitsPerMB \in Nat /\ UnitsPerMB > 0 /\ CapacityInMB \in Nat
  BY IvdAssumption
<1>2. Size \in Nat
  BY <1>1 DEF Size
<1>3. ASSUME NEW n \in Nat PROVE Written(n) \in Nat
  <2>1. n \div BufferSize \in Nat
    BY <1>1 DEF BufferSize
  <2> QED
    BY <1>1, <2>1 DEF Written, BufferSize
<1> QED
  BY <1>1, <1>2, <1>3

\* What a whole disk of data leaves in the buffer that is not flushed: nothing.
LEMMA WholeIsWritten == Written(Size) = Size /\ Written(0) = 0
<1>1. UnitsPerMB \in Nat /\ UnitsPerMB > 0 /\ CapacityInMB \in Nat
  BY IvdAssumption
<1>2. (CapacityInMB * UnitsPerMB) \div UnitsPerMB = CapacityInMB
  <2>1. ASSUME NEW a \in Nat, NEW b \in Nat, b > 0 PROVE (a * b) \div b = a
    BY <2>1, SMTT(30)
  <2> QED
    BY <1>1, <2>1
<1>3. 0 \div UnitsPerMB = 0 /\ 0 * UnitsPerMB = 0
  BY <1>1
<1> QED
  BY <1>1, <1>2, <1>3 DEF Written, Size, BufferSize

\* The initial state is well typed.
LEMMA InitType == Init => TypeOK
<1> SUFFICES ASSUME Init PROVE TypeOK
  OBVIOUS
<1>1. NoDisk \in Disk
  BY DEF NoDisk, Disk
<1>2. [snap |-> Old, labels |-> LabelsOf("them"), vcenter |-> ClientURLHost] \in Entity
  BY IvdAssumption DEF Entity, LabelsOf, Label
<1>3. pc \in [Caller -> PC] /\ snap \in [Caller -> Snapshot \cup {None}] /\ labels \in [Caller -> SUBSET Label]
  BY DEF Init, PC
<1>4. Old \in Snapshot
  BY IvdAssumption
<1>5. disk \in [Restore -> Disk] /\ repo \in SUBSET Entity
  BY <1>1, <1>2 DEF Init
<1> QED
  BY <1>3, <1>4, <1>5 DEF Init, TypeOK, NoFaults, FaultsOK

\* A step of a call moves the call alone, to one of its places.
LEMMA Moves ==
  ASSUME TypeOK, [Next]_vars
  PROVE  pc' \in [Caller -> PC]
<1>1. pc' = pc \/ \E c \in Caller, step \in PC : pc' = [pc EXCEPT ![c] = step]
  <2>1. ASSUME NEW c \in Caller, CheckConnections(c) \/ Timeout(c)
        PROVE  pc' = pc \/ \E step \in PC : pc' = [pc EXCEPT ![c] = step]
    BY <2>1 DEF CheckConnections, Timeout, Go, PC
  <2>2. ASSUME NEW c \in Backup, TakeSnapshot(c)
        PROVE  pc' = pc \/ \E step \in PC : pc' = [pc EXCEPT ![c] = step]
    BY <2>2 DEF TakeSnapshot, CreateSnapshot, StartTask, CreateSnapshotTask, RetrieveSnapshotDetails,
       GetMetadataReader, GetDataReader, Go, PC
  <2>3. ASSUME NEW c \in Delete, RemoveSnapshot(c)
        PROVE  pc' = pc \/ \E step \in PC : pc' = [pc EXCEPT ![c] = step]
    BY <2>3 DEF RemoveSnapshot, DeleteSnapshot, CreateDeleteTask, StartTask, DeleteSnapshotTask, Go, PC
  <2>4. ASSUME NEW c \in Restore, RestoreVolume(c)
        PROVE  pc' = pc \/ \E step \in PC : pc' = [pc EXCEPT ![c] = step]
    BY <2>4 DEF RestoreVolume, Copy, Retrieve, CreateDiskFromSnapshot, UpdateMetadata, CreateCnsVolumeInCluster,
       GetDataWriter, CopyBuffer, Go, PC
  <2>5. DeleteVolume => pc' = pc
    BY DEF DeleteVolume
  <2>6. Backup \subseteq Caller /\ Delete \subseteq Caller /\ Restore \subseteq Caller
    BY DEF Caller
  <2> QED
    BY <2>1, <2>2, <2>3, <2>4, <2>5, <2>6 DEF Next, vars
<1> QED
  BY <1>1 DEF TypeOK

\* The disk of a restore, and its labels, are well typed.
LEMMA RestoreType ==
  ASSUME TypeOK, NEW c \in Restore, RestoreVolume(c)
  PROVE  /\ disk' = disk \/ \E d \in Disk : disk' = [disk EXCEPT ![c] = d]
         /\ labels' = labels \/ \E l \in SUBSET Label : labels' = [labels EXCEPT ![c] = l]
         /\ snap' = snap \/ \E s \in Snapshot : snap' = [snap EXCEPT ![c] = s]
<1>0. disk[c] \in Disk /\ snap[c] \in Snapshot \cup {None} /\ labels[c] \in SUBSET Label
  BY DEF TypeOK, Caller
<1>1. CASE Copy(c)
  <2>1. \A e \in Entity : Made(e) \in Disk /\ e.labels \in SUBSET Label /\ e.snap \in Snapshot
    BY DEF Entity, Made, Disk
  <2>2. repo \subseteq Entity
    BY DEF TypeOK
  <2> QED
    BY <1>1, <2>1, <2>2 DEF Copy
<1>2. \A ds \in Datastore \cup {"source", None}, data \in Nat, ls \in SUBSET Label : NewDisk(c, ds, data, ls) \in Disk
  BY <1>0 DEF NewDisk, Disk
<1>3. CASE CreateDiskFromSnapshot(c)
  <2>1. disk' = disk \/ disk' = [disk EXCEPT ![c] = NewDisk(c, "source", Size, {})]
    BY <1>3 DEF CreateDiskFromSnapshot
  <2> QED
    BY <1>2, <1>3, <2>1, Numbers DEF CreateDiskFromSnapshot
<1>4. CASE UpdateMetadata(c)
  <2> DEFINE ls == FilterLabelsFromMetadataForVslmAPIs(labels[c])
  <2>1. ls \in SUBSET Label
    BY <1>0 DEF FilterLabelsFromMetadataForVslmAPIs, Label, Key, CnsKey
  <2>2. disk[c].on \in Datastore \cup {"source", None}
    BY <1>0 DEF Disk
  <2>3. NewDisk(c, disk[c].on, Size, ls) \in Disk
    BY <1>2, <2>1, <2>2, Numbers
  <2>4. disk' = disk \/ disk' = [disk EXCEPT ![c] = NewDisk(c, disk[c].on, Size, ls)]
    BY <1>4 DEF UpdateMetadata
  <2> QED
    BY <1>4, <2>3, <2>4 DEF UpdateMetadata
<1>5. CASE CreateCnsVolumeInCluster(c)
  <2> DEFINE ls == [key : ReservedKey, of : {"us"}] \cup FilterLabelsFromMetadataForCnsAPIs(labels[c])
  <2>1. ls \in SUBSET Label
    BY <1>0 DEF FilterLabelsFromMetadataForCnsAPIs, Label, Key, CnsKey
  <2>2. Candidates \subseteq Datastore
    BY DEF Candidates, FindSharedDatastoresFromAllNodeVMs
  <2>3. disk' = disk \/ \E ds \in Candidates : disk' = [disk EXCEPT ![c] = NewDisk(c, ds, 0, ls)]
    BY <1>5 DEF CreateCnsVolumeInCluster
  <2>4. \A ds \in Candidates : NewDisk(c, ds, 0, ls) \in Disk
    BY <1>2, <2>1, <2>2
  <2> QED
    BY <1>5, <2>3, <2>4 DEF CreateCnsVolumeInCluster
<1>6. CASE CopyBuffer(c)
  <2> DEFINE d == [disk[c] EXCEPT !.read = disk[c].read + 1, !.data = Written(disk[c].read + 1)]
  <2>1. d \in Disk
    <3>1. disk[c].read + 1 \in Nat
      BY <1>0 DEF Disk
    <3>2. Written(disk[c].read + 1) \in Nat
      BY <3>1, Numbers
    <3> QED
      BY <1>0, <3>1, <3>2 DEF Disk
  <2>2. disk' = disk \/ disk' = [disk EXCEPT ![c] = d]
    BY <1>6 DEF CopyBuffer, TypeOK
  <2> QED
    BY <1>6, <2>1, <2>2 DEF CopyBuffer
<1>7. CASE Retrieve(c) \/ GetDataWriter(c)
  BY <1>7 DEF Retrieve, GetDataWriter
<1> QED
  BY <1>1, <1>3, <1>4, <1>5, <1>6, <1>7 DEF RestoreVolume

\* Every step is well typed.
LEMMA StepType == TypeOK /\ [Next]_vars => TypeOK'
<1> SUFFICES ASSUME TypeOK, [Next]_vars PROVE TypeOK'
  OBVIOUS
<1>0. Backup \subseteq Caller /\ Delete \subseteq Caller /\ Restore \subseteq Caller /\ Old \in Snapshot
  BY IvdAssumption DEF Caller
<1>1. FaultsOK' /\ pc' \in [Caller -> PC]
  BY FaultsStay, Moves
<1>2. CASE UNCHANGED <<volume, catalog, mismatch, used, snap, raced, labels, repo, disk>>
  BY <1>1, <1>2 DEF TypeOK
<1>3. ASSUME NEW c \in Backup, TakeSnapshot(c) PROVE TypeOK'
  <2>1. CASE CreateSnapshot(c)
    BY <1>0, <1>1, <2>1 DEF TypeOK, CreateSnapshot, StartTask
  <2>2. CASE CreateSnapshotTask(c)
    <3>1. CASE \E keep \in BOOLEAN : MakeSnapshot(c, keep)
      <4>1. PICK s \in Snapshot : /\ used' = used \cup {s}
                                  /\ Consolidated({s}, {}) \/ UNCHANGED <<catalog, mismatch>>
                                  /\ snap' = snap \/ snap' = [snap EXCEPT ![c] = s]
        BY <3>1 DEF MakeSnapshot
      <4>2. snap' \in [Caller -> Snapshot \cup {None}]
        BY <1>0, <4>1 DEF TypeOK
      <4>3. catalog' \in SUBSET Snapshot /\ mismatch' \in SUBSET Snapshot /\ used' \in SUBSET Snapshot
        BY <4>1 DEF TypeOK, Consolidated
      <4> QED
        BY <1>1, <2>2, <4>2, <4>3 DEF TypeOK, CreateSnapshotTask
    <3>2. CASE NoSnapshot
      BY <1>1, <2>2, <3>2 DEF TypeOK, CreateSnapshotTask, NoSnapshot
    <3> QED
      BY <2>2, <3>1, <3>2 DEF CreateSnapshotTask
  <2>3. CASE RetrieveSnapshotDetails(c)
    <3>1. snap' = snap \/ snap' = [snap EXCEPT ![c] = None]
      BY <2>3 DEF RetrieveSnapshotDetails
    <3>2. snap' \in [Caller -> Snapshot \cup {None}]
      BY <1>0, <3>1 DEF TypeOK
    <3> QED
      BY <1>1, <2>3, <3>2 DEF TypeOK, RetrieveSnapshotDetails
  <2>4. CASE GetMetadataReader(c)
    <3>1. LabelsOf("us") \in SUBSET Label
      BY DEF LabelsOf, Label
    <3>2. labels' \in [Caller -> SUBSET Label]
      BY <1>0, <2>4, <3>1 DEF TypeOK, GetMetadataReader
    <3> QED
      BY <1>1, <2>4, <3>2 DEF TypeOK, GetMetadataReader
  <2>5. CASE GetDataReader(c)
    <3> DEFINE e == [snap |-> snap[c], labels |-> labels[c], vcenter |-> DataTransport]
    <3>1. snap[c] \in catalog => e \in Entity
      BY <1>0 DEF TypeOK, Entity, DataTransport
    <3>2. repo' \subseteq Entity
      BY <2>5, <3>1 DEF TypeOK, GetDataReader
    <3> QED
      BY <1>1, <2>5, <3>2 DEF TypeOK, GetDataReader
  <2> QED
    BY <1>3, <2>1, <2>2, <2>3, <2>4, <2>5 DEF TakeSnapshot
<1>4. ASSUME NEW c \in Delete, RemoveSnapshot(c) PROVE TypeOK'
  <2>1. CASE DeleteSnapshot(c)
    <3>1. Returned \subseteq Snapshot
      BY <1>0 DEF Returned, TypeOK
    <3>2. snap' \in [Caller -> Snapshot \cup {None}]
      BY <1>0, <2>1, <3>1 DEF TypeOK, DeleteSnapshot
    <3> QED
      BY <1>1, <2>1, <3>2 DEF TypeOK, DeleteSnapshot
  <2>2. CASE CreateDeleteTask(c)
    BY <1>0, <1>1, <2>2 DEF TypeOK, CreateDeleteTask, StartTask
  <2>3. CASE DeleteSnapshotTask(c)
    <3>1. \/ Consolidated({}, {snap[c]})
          \/ snap[c] \in catalog /\ mismatch' = mismatch \cup {snap[c]} /\ UNCHANGED catalog
          \/ NotDeleted
      BY <2>3 DEF DeleteSnapshotTask
    <3>2. catalog' \in SUBSET Snapshot /\ mismatch' \in SUBSET Snapshot
      BY <3>1 DEF TypeOK, Consolidated, NotDeleted
    <3> QED
      BY <1>1, <2>3, <3>2 DEF TypeOK, DeleteSnapshotTask
  <2> QED
    BY <1>4, <2>1, <2>2, <2>3 DEF RemoveSnapshot
<1>5. ASSUME NEW c \in Restore, RestoreVolume(c) PROVE TypeOK'
  <2>1. UNCHANGED <<volume, catalog, mismatch, used, raced, repo>>
    BY <1>5 DEF RestoreVolume, Copy, Retrieve, CreateDiskFromSnapshot, UpdateMetadata, CreateCnsVolumeInCluster,
       GetDataWriter, CopyBuffer
  <2>2. disk' \in [Restore -> Disk]
    BY <1>5, RestoreType DEF TypeOK
  <2>3. labels' \in [Caller -> SUBSET Label]
    BY <1>0, <1>5, RestoreType DEF TypeOK
  <2>4. snap' \in [Caller -> Snapshot \cup {None}]
    BY <1>0, <1>5, RestoreType DEF TypeOK
  <2> QED
    BY <1>1, <2>1, <2>2, <2>3, <2>4 DEF TypeOK
<1>6. CASE DeleteVolume
  BY <1>1, <1>6 DEF TypeOK, DeleteVolume
<1> QED
  BY <1>2, <1>3, <1>4, <1>5, <1>6 DEF Next, vars, CheckConnections, Timeout

-----------------------------------------------------------------------------
(* The snapshots of the disk *)

\* The catalog lists snapshots that were made, mismatched only by deletions,
\* and none of a disk that is gone; a call knows a snapshot when it should.
SnapshotsOK ==
  /\ catalog \subseteq used /\ Old \in used
  /\ \A s \in mismatch : \E d \in Delete : snap[d] = s
  /\ ~volume => catalog = {}
  /\ \A c \in Backup \cup Delete : snap[c] \in used \cup {None}
  /\ \A d \in Delete : pc[d] = "idle" => snap[d] = None
  /\ \A b \in Backup : pc[b] \in {"details", "metadata", "read", "done"} => snap[b] # None
  /\ ReturnedSnapshotExists
  /\ DeletedIsGone

\* Steps that do not touch the snapshots.
LEMMA Quiet ==
  ASSUME TypeOK, SnapshotsOK, UNCHANGED <<volume, catalog, mismatch, used>>,
         Happened("details") => Happened("details")',
         \A c \in Backup \cup Delete : snap'[c] = snap[c],
         \A b \in Backup : /\ pc'[b] \in {"metadata", "read", "done"} => pc[b] \in {"metadata", "read", "done"}
                           /\ pc'[b] = "details" => pc[b] = "details",
         \A d \in Delete : /\ pc'[d] = "idle" => pc[d] = "idle"
                           /\ pc'[d] = "done" => pc[d] = "done" \/ ~volume
  PROVE  SnapshotsOK'
<1>1. ReturnedSnapshotExists'
  <2> SUFFICES ASSUME NEW b \in Backup, pc'[b] \in {"metadata", "read", "done"}
               PROVE  \/ snap'[b] \in catalog'
                      \/ \E d \in Delete : snap'[d] = snap'[b]
                      \/ ~volume' \/ Happened("details")'
    BY DEF ReturnedSnapshotExists, At
  <2>1. \/ snap[b] \in catalog
        \/ \E d \in Delete : snap[d] = snap[b]
        \/ ~volume \/ Happened("details")
    BY DEF SnapshotsOK, ReturnedSnapshotExists, At
  <2> QED
    BY <2>1
<1>2. DeletedIsGone'
  BY DEF SnapshotsOK, DeletedIsGone, At
<1> QED
  BY <1>1, <1>2 DEF SnapshotsOK

\* A new snapshot is one that no call knows of.
LEMMA MakeSnapshots ==
  ASSUME TypeOK, SnapshotsOK, NEW c \in Backup, CreateSnapshotTask(c),
         Happened("details") => Happened("details")'
  PROVE  SnapshotsOK'
<1>0. /\ Backup \subseteq Caller /\ Delete \subseteq Caller /\ Backup \cap Delete = {}
      /\ None \notin Snapshot /\ used \subseteq Snapshot
  BY IvdAssumption DEF Caller, TypeOK
<1>1. PICK step \in {"details", "poll", "error"} : pc' = [pc EXCEPT ![c] = step] /\ volume' = volume
  BY DEF CreateSnapshotTask, Go
<1>2. \A d \in Caller : d # c => pc'[d] = pc[d]
  BY <1>1 DEF TypeOK
<1>3. pc'[c] = step
  BY <1>0, <1>1 DEF TypeOK
<1>4. CASE NoSnapshot /\ step # "details"
  BY <1>0, <1>1, <1>2, <1>3, <1>4, Quiet DEF NoSnapshot
<1>5. ASSUME NEW keep \in BOOLEAN, MakeSnapshot(c, keep), volume, step = "details" => keep PROVE SnapshotsOK'
  <2>1. PICK s \in Snapshot \ used : /\ used' = used \cup {s}
                                     /\ Consolidated({s}, {}) \/ UNCHANGED <<catalog, mismatch>>
                                     /\ snap' = IF keep THEN [snap EXCEPT ![c] = s] ELSE snap
    BY <1>5 DEF MakeSnapshot
  <2>2. \A d \in Caller : d # c => snap'[d] = snap[d]
    BY <2>1 DEF TypeOK
  <2>3. snap'[c] \in {s, snap[c]} /\ (keep => snap'[c] = s)
    BY <1>0, <2>1 DEF TypeOK
  <2>4. /\ catalog' \subseteq catalog \cup {s} /\ catalog \ mismatch \subseteq catalog' /\ mismatch' \subseteq mismatch
        /\ catalog' \ mismatch' \subseteq (catalog \ mismatch) \cup {s}
    BY <2>1 DEF Consolidated
  <2>5. s \notin used /\ s # None
    BY <1>0, <2>1
  <2>6. ReturnedSnapshotExists'
    <3> SUFFICES ASSUME NEW b \in Backup, pc'[b] \in {"metadata", "read", "done"}
                 PROVE  snap'[b] \in catalog' \/ (\E d \in Delete : snap'[d] = snap'[b]) \/ Happened("details")'
      BY DEF ReturnedSnapshotExists, At
    <3>1. b # c /\ pc[b] \in {"metadata", "read", "done"} /\ snap'[b] = snap[b]
      BY <1>0, <1>2, <1>3, <2>2
    <3>2. snap[b] \in catalog \/ (\E d \in Delete : snap[d] = snap[b]) \/ Happened("details")
      BY <1>5, <3>1 DEF SnapshotsOK, ReturnedSnapshotExists, At
    <3>3. snap[b] \in mismatch => \E d \in Delete : snap[d] = snap[b]
      BY DEF SnapshotsOK
    <3>4. \A d \in Delete : snap'[d] = snap[d]
      BY <1>0, <2>2
    <3> QED
      BY <2>4, <3>1, <3>2, <3>3, <3>4
  <2>7. DeletedIsGone'
    <3> SUFFICES ASSUME NEW d \in Delete, pc'[d] = "done" PROVE snap'[d] \notin catalog' \ mismatch'
      BY DEF DeletedIsGone, At
    <3>1. pc[d] = "done" /\ snap'[d] = snap[d]
      BY <1>0, <1>2, <2>2
    <3>2. snap[d] \notin catalog \ mismatch /\ snap[d] # s
      BY <2>5, <3>1 DEF SnapshotsOK, DeletedIsGone, At
    <3> QED
      BY <2>4, <3>1, <3>2
  <2>8. \A t \in mismatch' : \E d \in Delete : snap'[d] = t
    BY <1>0, <2>2, <2>4 DEF SnapshotsOK
  <2>9. \A b \in Backup : pc'[b] \in {"details", "metadata", "read", "done"} => snap'[b] # None
    BY <1>0, <1>2, <1>3, <1>5, <2>2, <2>3, <2>5 DEF SnapshotsOK
  <2>10. \A d \in Backup \cup Delete : snap'[d] \in used' \cup {None}
    BY <1>0, <2>1, <2>2, <2>3 DEF SnapshotsOK
  <2>11. \A d \in Delete : pc'[d] = "idle" => snap'[d] = None
    BY <1>0, <1>2, <2>2 DEF SnapshotsOK
  <2>12. catalog' \subseteq used' /\ Old \in used' /\ volume'
    BY <1>1, <1>5, <2>1, <2>4 DEF SnapshotsOK
  <2> QED
    BY <2>6, <2>7, <2>8, <2>9, <2>10, <2>11, <2>12 DEF SnapshotsOK
<1>6. \/ NoSnapshot /\ step # "details"
      \/ \E keep \in BOOLEAN : MakeSnapshot(c, keep) /\ volume /\ (step = "details" => keep)
  <2>1. \/ volume /\ MakeSnapshot(c, TRUE)
        \/ (NoSnapshot \/ (volume /\ MakeSnapshot(c, FALSE))) /\ (pc' = [pc EXCEPT ![c] = "poll"] \/ pc' = [pc EXCEPT ![c] = "error"])
    BY DEF CreateSnapshotTask, Go
  <2>2. (pc' = [pc EXCEPT ![c] = "poll"] \/ pc' = [pc EXCEPT ![c] = "error"]) => pc'[c] # "details"
    BY <1>0 DEF TypeOK
  <2> QED
    BY <1>3, <2>1, <2>2
<1> QED
  BY <1>4, <1>5, <1>6

\* A deletion takes its own snapshot away, and those that others have deleted.
LEMMA DeleteSnapshots ==
  ASSUME TypeOK, SnapshotsOK, NEW c \in Delete, DeleteSnapshotTask(c),
         Happened("details") => Happened("details")'
  PROVE  SnapshotsOK'
<1>0. Backup \subseteq Caller /\ Delete \subseteq Caller /\ Backup \cap Delete = {}
  BY IvdAssumption DEF Caller
<1>1. PICK step \in {"done", "poll", "error"} : pc' = [pc EXCEPT ![c] = step]
  BY DEF DeleteSnapshotTask, Go
<1>2. (\A d \in Caller : d # c => pc'[d] = pc[d]) /\ pc'[c] = step
  BY <1>0, <1>1 DEF TypeOK
<1>3. UNCHANGED <<volume, used, snap>>
  BY DEF DeleteSnapshotTask
<1>4. CASE NotDeleted /\ (step = "done" => ~volume)
  BY <1>0, <1>2, <1>3, <1>4, Quiet DEF NotDeleted
<1>5. CASE \/ Consolidated({}, {snap[c]})
           \/ mismatch' = mismatch \cup {snap[c]} /\ catalog' = catalog
  <2>1. /\ catalog' \subseteq catalog /\ catalog \ (mismatch \cup {snap[c]}) \subseteq catalog'
        /\ catalog' \ mismatch' \subseteq (catalog \ mismatch) \ {snap[c]}
        /\ mismatch' \subseteq mismatch \cup {snap[c]}
    BY <1>5 DEF Consolidated
  <2>2. ReturnedSnapshotExists'
    <3> SUFFICES ASSUME NEW b \in Backup, pc'[b] \in {"metadata", "read", "done"}
                 PROVE  \/ snap[b] \in catalog' \/ (\E d \in Delete : snap[d] = snap[b])
                        \/ ~volume \/ Happened("details")'
      BY <1>3 DEF ReturnedSnapshotExists, At
    <3>1. pc[b] \in {"metadata", "read", "done"}
      BY <1>0, <1>2
    <3>2. snap[b] \in catalog \/ (\E d \in Delete : snap[d] = snap[b]) \/ ~volume \/ Happened("details")
      BY <3>1 DEF SnapshotsOK, ReturnedSnapshotExists, At
    <3>3. snap[b] \in mismatch => \E d \in Delete : snap[d] = snap[b]
      BY DEF SnapshotsOK
    <3> QED
      BY <2>1, <3>2, <3>3
  <2>3. DeletedIsGone'
    <3> SUFFICES ASSUME NEW d \in Delete, pc'[d] = "done" PROVE snap[d] \notin catalog' \ mismatch'
      BY <1>3 DEF DeletedIsGone, At
    <3>1. d = c \/ snap[d] \notin catalog \ mismatch
      BY <1>0, <1>2 DEF SnapshotsOK, DeletedIsGone, At
    <3> QED
      BY <2>1, <3>1
  <2>4. \A s \in mismatch' : \E d \in Delete : snap[d] = s
    BY <2>1 DEF SnapshotsOK
  <2>5. /\ \A b \in Backup : pc'[b] = pc[b]
        /\ \A d \in Delete : pc'[d] = "idle" => pc[d] = "idle"
    BY <1>0, <1>2
  <2> QED
    BY <1>3, <2>1, <2>2, <2>3, <2>4, <2>5 DEF SnapshotsOK
<1>6. \/ NotDeleted /\ (step = "done" => ~volume)
      \/ Consolidated({}, {snap[c]})
      \/ mismatch' = mismatch \cup {snap[c]} /\ catalog' = catalog
  <2>1. \/ Consolidated({}, {snap[c]})
        \/ mismatch' = mismatch \cup {snap[c]} /\ catalog' = catalog
        \/ NotDeleted /\ (~volume \/ pc' = [pc EXCEPT ![c] = "poll"] \/ pc' = [pc EXCEPT ![c] = "error"])
    BY DEF DeleteSnapshotTask, Go
  <2>2. (pc' = [pc EXCEPT ![c] = "poll"] \/ pc' = [pc EXCEPT ![c] = "error"]) => pc'[c] # "done"
    BY <1>0 DEF TypeOK
  <2> QED
    BY <1>2, <2>1, <2>2
<1> QED
  BY <1>4, <1>5, <1>6

\* All steps keep what is known about the snapshots.
LEMMA StepSnapshots ==
  ASSUME TypeOK, SnapshotsOK, [Next]_vars
  PROVE  SnapshotsOK'
<1>0. /\ Backup \subseteq Caller /\ Delete \subseteq Caller /\ Restore \subseteq Caller
      /\ Backup \cap Delete = {} /\ Backup \cap Restore = {} /\ Delete \cap Restore = {}
      /\ Happened("details") => Happened("details")'
  BY IvdAssumption, FaultsStay DEF Caller
<1>1. CASE UNCHANGED <<volume, catalog, mismatch, used, snap, pc>>
  BY <1>0, <1>1, Quiet
<1>2. ASSUME NEW c \in Caller, NEW step \in PC, pc' = [pc EXCEPT ![c] = step],
             UNCHANGED <<volume, catalog, mismatch, used>>, \A d \in Backup \cup Delete : snap'[d] = snap[d],
             c \in Backup => step \notin {"details", "metadata"} /\ (step \in {"read", "done"} => pc[c] \in {"metadata", "read"}),
             c \in Delete => step # "idle" /\ (step = "done" => ~volume)
      PROVE  SnapshotsOK'
  <2>1. (\A d \in Caller : d # c => pc'[d] = pc[d]) /\ pc'[c] = step
    BY <1>2 DEF TypeOK
  <2>2. \A b \in Backup : /\ pc'[b] \in {"metadata", "read", "done"} => pc[b] \in {"metadata", "read", "done"}
                          /\ pc'[b] = "details" => pc[b] = "details"
    BY <1>0, <1>2, <2>1
  <2>3. \A d \in Delete : /\ pc'[d] = "idle" => pc[d] = "idle"
                          /\ pc'[d] = "done" => pc[d] = "done" \/ ~volume
    BY <1>0, <1>2, <2>1
  <2> QED
    BY <1>0, <1>2, <2>2, <2>3, Quiet
<1>3. ASSUME NEW c \in Caller, CheckConnections(c) \/ Timeout(c) PROVE SnapshotsOK'
  <2>1. UNCHANGED <<volume, catalog, mismatch, used, snap>>
        /\ (pc' = pc \/ \E step \in {"call", "error"} : pc' = [pc EXCEPT ![c] = step])
    BY <1>3 DEF CheckConnections, Timeout, Go
  <2> QED
    BY <1>1, <1>2, <2>1 DEF PC
<1>4. ASSUME NEW c \in Backup, CreateSnapshot(c) \/ GetMetadataReader(c) \/ GetDataReader(c) PROVE SnapshotsOK'
  <2>1. /\ UNCHANGED <<volume, catalog, mismatch, used, snap>>
        /\ \E step \in {"task", "error", "read", "done"} :
             pc' = [pc EXCEPT ![c] = step] /\ (step \in {"read", "done"} => pc[c] \in {"metadata", "read"})
    BY <1>4 DEF CreateSnapshot, StartTask, GetMetadataReader, GetDataReader, Go, At
  <2> QED
    BY <1>0, <1>2, <2>1 DEF PC
<1>5. ASSUME NEW c \in Backup, RetrieveSnapshotDetails(c) PROVE SnapshotsOK'
  <2>1. UNCHANGED <<volume, catalog, mismatch, used>>
    BY <1>5 DEF RetrieveSnapshotDetails
  <2>2. CASE pc' = [pc EXCEPT ![c] = "poll"] /\ snap' = [snap EXCEPT ![c] = None]
    <3>1. /\ \A d \in Caller : d # c => pc'[d] = pc[d] /\ snap'[d] = snap[d]
          /\ pc'[c] = "poll" /\ snap'[c] = None
      BY <1>0, <2>2 DEF TypeOK
    <3>2. \A d \in Delete : pc'[d] = pc[d] /\ snap'[d] = snap[d]
      BY <1>0, <3>1
    <3>3. \A b \in Backup : b = c \/ (pc'[b] = pc[b] /\ snap'[b] = snap[b])
      BY <1>0, <3>1
    <3>4. ReturnedSnapshotExists'
      <4> SUFFICES ASSUME NEW b \in Backup, pc'[b] \in {"metadata", "read", "done"}
                   PROVE  snap'[b] \in catalog' \/ (\E d \in Delete : snap'[d] = snap'[b]) \/ ~volume' \/ Happened("details")'
        BY DEF ReturnedSnapshotExists, At
      <4>1. pc[b] \in {"metadata", "read", "done"} /\ snap'[b] = snap[b]
        BY <3>1, <3>3
      <4>2. snap[b] \in catalog \/ (\E d \in Delete : snap[d] = snap[b]) \/ ~volume \/ Happened("details")
        BY <4>1 DEF SnapshotsOK, ReturnedSnapshotExists, At
      <4> QED
        BY <1>0, <2>1, <3>2, <4>1, <4>2
    <3>5. DeletedIsGone'
      BY <2>1, <3>2 DEF SnapshotsOK, DeletedIsGone, At
    <3>6. /\ \A s \in mismatch' : \E d \in Delete : snap'[d] = s
          /\ \A d \in Backup \cup Delete : snap'[d] \in used' \cup {None}
          /\ \A d \in Delete : pc'[d] = "idle" => snap'[d] = None
      BY <2>1, <3>1, <3>2, <3>3 DEF SnapshotsOK
    <3>7. \A b \in Backup : pc'[b] \in {"details", "metadata", "read", "done"} => snap'[b] # None
      BY <3>1, <3>3 DEF SnapshotsOK
    <3> QED
      BY <2>1, <3>4, <3>5, <3>6, <3>7 DEF SnapshotsOK
  <2>3. CASE /\ pc' = [pc EXCEPT ![c] = "metadata"] /\ snap' = snap
             /\ snap[c] \in catalog \/ Happened("details")'
    <3>1. (\A d \in Caller : d # c => pc'[d] = pc[d]) /\ pc'[c] = "metadata" /\ pc[c] = "details"
      BY <1>0, <1>5, <2>3 DEF TypeOK, RetrieveSnapshotDetails, At
    <3>2. \A d \in Delete : pc'[d] = pc[d]
      BY <1>0, <3>1
    <3>3. \A b \in Backup : b = c \/ pc'[b] = pc[b]
      BY <1>0, <3>1
    <3>4. ReturnedSnapshotExists'
      <4> SUFFICES ASSUME NEW b \in Backup, pc'[b] \in {"metadata", "read", "done"}, b # c
                   PROVE  snap[b] \in catalog \/ (\E d \in Delete : snap[d] = snap[b]) \/ ~volume \/ Happened("details")'
        BY <2>1, <2>3 DEF ReturnedSnapshotExists, At
      <4>1. snap[b] \in catalog \/ (\E d \in Delete : snap[d] = snap[b]) \/ ~volume \/ Happened("details")
        BY <3>3 DEF SnapshotsOK, ReturnedSnapshotExists, At
      <4> QED
        BY <1>0, <4>1
    <3>5. DeletedIsGone'
      BY <2>1, <2>3, <3>2 DEF SnapshotsOK, DeletedIsGone, At
    <3>6. \A b \in Backup : pc'[b] \in {"details", "metadata", "read", "done"} => snap'[b] # None
      BY <2>3, <3>1, <3>3 DEF SnapshotsOK
    <3> QED
      BY <2>1, <2>3, <3>2, <3>4, <3>5, <3>6 DEF SnapshotsOK
  <2> QED
    BY <1>5, <2>2, <2>3, FaultType DEF RetrieveSnapshotDetails, Go, TypeOK
<1>6. ASSUME NEW c \in Delete, DeleteSnapshot(c) PROVE SnapshotsOK'
  <2>1. UNCHANGED <<volume, catalog, mismatch, used>> /\ pc[c] = "idle"
    BY <1>6 DEF DeleteSnapshot, At
  <2>2. PICK s \in Returned : snap' = [snap EXCEPT ![c] = s]
    BY <1>6 DEF DeleteSnapshot
  <2>3. /\ \A d \in Caller : d # c => pc'[d] = pc[d] /\ snap'[d] = snap[d]
        /\ pc'[c] = "poll" /\ snap'[c] = s /\ snap[c] = None
    BY <1>0, <1>6, <2>1, <2>2 DEF TypeOK, DeleteSnapshot, Go, SnapshotsOK
  <2>4. s \in used \cup {Old}
    BY DEF Returned, SnapshotsOK
  <2>5. \A b \in Backup : pc'[b] = pc[b] /\ snap'[b] = snap[b]
    BY <1>0, <2>3
  <2>6. \A t : t # None /\ (\E d \in Delete : snap[d] = t) => \E d \in Delete : snap'[d] = t
    BY <1>0, <2>3
  <2>7. ReturnedSnapshotExists'
    <3> SUFFICES ASSUME NEW b \in Backup, pc'[b] \in {"metadata", "read", "done"}
                 PROVE  snap[b] \in catalog \/ (\E d \in Delete : snap'[d] = snap[b]) \/ ~volume \/ Happened("details")'
      BY <2>1, <2>5 DEF ReturnedSnapshotExists, At
    <3>1. snap[b] \in catalog \/ (\E d \in Delete : snap[d] = snap[b]) \/ ~volume \/ Happened("details")
      BY <2>5 DEF SnapshotsOK, ReturnedSnapshotExists, At
    <3>2. snap[b] # None
      BY <2>5 DEF SnapshotsOK
    <3> QED
      BY <1>0, <2>6, <3>1, <3>2
  <2>8. DeletedIsGone'
    <3> SUFFICES ASSUME NEW d \in Delete, pc'[d] = "done" PROVE snap'[d] \notin catalog \ mismatch
      BY <2>1 DEF DeletedIsGone, At
    <3>1. pc[d] = "done" /\ snap'[d] = snap[d]
      BY <1>0, <2>3
    <3> QED
      BY <3>1 DEF SnapshotsOK, DeletedIsGone, At
  <2>9. None \notin mismatch
    BY IvdAssumption DEF TypeOK
  <2>10. \A t \in mismatch' : \E d \in Delete : snap'[d] = t
    BY <2>1, <2>6, <2>9 DEF SnapshotsOK
  <2>11. \A d \in Backup \cup Delete : snap'[d] \in used' \cup {None}
    <3>1. Old \in used
      BY DEF SnapshotsOK
    <3> QED
      BY <1>0, <2>1, <2>3, <2>4, <3>1 DEF SnapshotsOK
  <2>12. \A d \in Delete : pc'[d] = "idle" => snap'[d] = None
    BY <1>0, <2>3 DEF SnapshotsOK
  <2> QED
    BY <2>1, <2>5, <2>7, <2>8, <2>10, <2>11, <2>12 DEF SnapshotsOK
<1>7. ASSUME NEW c \in Delete, CreateDeleteTask(c) PROVE SnapshotsOK'
  <2>1. /\ UNCHANGED <<volume, catalog, mismatch, used, snap>>
        /\ \E step \in {"task", "error", "done"} : pc' = [pc EXCEPT ![c] = step] /\ (step = "done" => ~volume)
    BY <1>7 DEF CreateDeleteTask, StartTask, Go
  <2> QED
    BY <1>0, <1>2, <2>1 DEF PC
<1>8. ASSUME NEW c \in Restore, RestoreVolume(c) PROVE SnapshotsOK'
  <2>1. UNCHANGED <<volume, catalog, mismatch, used>>
    BY <1>8 DEF RestoreVolume, Copy, Retrieve, CreateDiskFromSnapshot, UpdateMetadata, CreateCnsVolumeInCluster,
       GetDataWriter, CopyBuffer
  <2>2. \A d \in Backup \cup Delete : snap'[d] = snap[d]
    BY <1>0, <1>8, RestoreType DEF TypeOK
  <2>3. pc' = pc \/ \E step : pc' = [pc EXCEPT ![c] = step]
    BY <1>8 DEF RestoreVolume, Copy, Retrieve, CreateDiskFromSnapshot, UpdateMetadata, CreateCnsVolumeInCluster,
       GetDataWriter, CopyBuffer, Go
  <2>4. \A d \in Backup \cup Delete : pc'[d] = pc[d]
    BY <1>0, <2>3 DEF TypeOK
  <2> QED
    BY <1>0, <2>1, <2>2, <2>4, Quiet
<1>9. CASE DeleteVolume
  BY <1>0, <1>9 DEF DeleteVolume, SnapshotsOK, ReturnedSnapshotExists, DeletedIsGone, At
<1> QED
  BY <1>1, <1>3, <1>4, <1>5, <1>6, <1>7, <1>8, <1>9, <1>0, MakeSnapshots, DeleteSnapshots
     DEF Next, vars, TakeSnapshot, RemoveSnapshot

-----------------------------------------------------------------------------
(* The restored volumes *)

\* The labels of a source: its own ones are among them, if they could be read.
Named(ls) == (\E l \in ls : l.key = "app") \/ Happened("metadata")

\* The labels of a volume of this cluster.
Ours(ls) ==
  /\ \A k \in ReservedKey : [key |-> k, of |-> "us"] \in ls
  /\ \A l \in ls : l.key \in ReservedKey => l.of = "us"

\* Where labels come from.
SourcesOK ==
  /\ \A e \in repo : Named(e.labels)
  /\ \A b \in Backup : pc[b] = "read" => Named(labels[b])
  /\ \A r \in Restore : pc[r] \in {"retrieve", "local", "update", "provision"} => Named(labels[r])

\* What was known of labels stays known.
LEMMA NamedStays ==
  ASSUME TypeOK, [Next]_vars, NEW ls, Named(ls)
  PROVE  Named(ls)'
BY FaultsStay DEF Named

\* Both filters keep the source's own labels, and make reserved ones this
\* cluster's.
LEMMA Filters ==
  ASSUME NEW ls \in SUBSET Label
  PROVE  /\ Ours(FilterLabelsFromMetadataForVslmAPIs(ls))
         /\ Named(ls) => Named(FilterLabelsFromMetadataForVslmAPIs(ls))
         /\ Ours([key : ReservedKey, of : {"us"}] \cup FilterLabelsFromMetadataForCnsAPIs(ls))
         /\ Named(ls) => Named([key : ReservedKey, of : {"us"}] \cup FilterLabelsFromMetadataForCnsAPIs(ls))
<1> DEFINE own == [key : ReservedKey, of : {"us"}]
           new(l) == [key |-> l.key, of |-> IF l.key \in ReservedKey THEN "us" ELSE l.of]
<1>1. Ours(own)
  BY DEF Ours
<1>2. \A l \in ls : new(l).key = l.key /\ (l.key \in ReservedKey => new(l).of = "us")
  OBVIOUS
<1>3. FilterLabelsFromMetadataForVslmAPIs(ls) = own \cup {new(l) : l \in ls}
  BY DEF FilterLabelsFromMetadataForVslmAPIs
<1>4. FilterLabelsFromMetadataForCnsAPIs(ls) \subseteq ls
      /\ \A l \in FilterLabelsFromMetadataForCnsAPIs(ls) : l.key \notin ReservedKey
  BY DEF FilterLabelsFromMetadataForCnsAPIs, CnsKey
<1>5. \A l \in ls : l.key = "app" => l \in FilterLabelsFromMetadataForCnsAPIs(ls)
  BY DEF FilterLabelsFromMetadataForCnsAPIs, CnsKey, ReservedKey
<1> HIDE DEF own, new
<1>6. Ours(own \cup {new(l) : l \in ls})
  BY <1>1, <1>2 DEF Ours
<1>7. Named(ls) => Named(own \cup {new(l) : l \in ls})
  BY <1>2 DEF Named
<1>8. Ours(own \cup FilterLabelsFromMetadataForCnsAPIs(ls))
  BY <1>1, <1>4 DEF Ours
<1>9. Named(ls) => Named(own \cup FilterLabelsFromMetadataForCnsAPIs(ls))
  BY <1>5 DEF Named
<1> QED
  BY <1>3, <1>6, <1>7, <1>8, <1>9 DEF own

\* The sources' labels, step by step.
LEMMA StepSources ==
  ASSUME TypeOK, SourcesOK, [Next]_vars
  PROVE  SourcesOK'
<1>0. /\ Backup \subseteq Caller /\ Delete \subseteq Caller /\ Restore \subseteq Caller
      /\ Backup \cap Delete = {} /\ Backup \cap Restore = {} /\ Delete \cap Restore = {}
  BY IvdAssumption DEF Caller
<1>1. \A ls : Named(ls) => Named(ls)'
  BY NamedStays
<1>2. ASSUME repo' = repo, labels' = labels,
             \A b \in Backup : pc'[b] = "read" => pc[b] = "read" \/ Named(labels[b])',
             \A r \in Restore : pc'[r] \in {"retrieve", "local", "update", "provision"} =>
                                  pc[r] \in {"retrieve", "local", "update", "provision"}
      PROVE  SourcesOK'
  BY <1>1, <1>2 DEF SourcesOK, Named
<1>3. ASSUME NEW c \in Caller, NEW step, pc' = [pc EXCEPT ![c] = step], repo' = repo, labels' = labels,
             step \notin {"read", "retrieve", "local", "update", "provision"} 
      PROVE  SourcesOK'
  BY <1>2, <1>3 DEF TypeOK
<1>4. CASE pc' = pc /\ repo' = repo /\ labels' = labels
  BY <1>2, <1>4
<1>5. ASSUME NEW c \in Caller, CheckConnections(c) \/ Timeout(c) PROVE SourcesOK'
  <2>1. repo' = repo /\ labels' = labels /\ (pc' = pc \/ \E step \in {"call", "error"} : pc' = [pc EXCEPT ![c] = step])
    BY <1>5 DEF CheckConnections, Timeout, Go
  <2> QED
    BY <1>3, <1>4, <2>1
<1>6. ASSUME NEW c \in Backup, CreateSnapshot(c) \/ CreateSnapshotTask(c) \/ RetrieveSnapshotDetails(c) PROVE SourcesOK'
  <2>1. /\ repo' = repo /\ labels' = labels
        /\ \E step \in {"task", "error", "details", "poll", "metadata"} : pc' = [pc EXCEPT ![c] = step]
    BY <1>6 DEF CreateSnapshot, StartTask, CreateSnapshotTask, RetrieveSnapshotDetails, Go
  <2> QED
    BY <1>0, <1>3, <2>1
<1>7. ASSUME NEW c \in Backup, GetMetadataReader(c) PROVE SourcesOK'
  <2>1. \A d \in Caller : d # c => pc'[d] = pc[d] /\ labels'[d] = labels[d]
    BY <1>7 DEF TypeOK, GetMetadataReader, Go
  <2>2. pc'[c] = "read" => Named(labels[c])'
    <3>1. CASE labels' = [labels EXCEPT ![c] = LabelsOf("us")]
      <4>1. [key |-> "app", of |-> "us"] \in LabelsOf("us")
        BY DEF LabelsOf, Key
      <4>2. labels'[c] = LabelsOf("us")
        BY <1>0, <3>1 DEF TypeOK
      <4> QED
        BY <4>1, <4>2 DEF Named
    <3>2. CASE Fault("metadata")
      BY <3>2, FaultType DEF Named, TypeOK
    <3>3. CASE pc' = [pc EXCEPT ![c] = "error"]
      BY <1>0, <3>3 DEF TypeOK
    <3> QED
      BY <1>7, <3>1, <3>2, <3>3 DEF GetMetadataReader, Go
  <2>3. repo' = repo
    BY <1>7 DEF GetMetadataReader
  <2>4. \A b \in Backup : pc'[b] = "read" => Named(labels[b])'
    BY <1>0, <1>1, <2>1, <2>2 DEF SourcesOK, Named
  <2>5. \A r \in Restore : pc'[r] = pc[r] /\ labels'[r] = labels[r]
    BY <1>0, <2>1
  <2> QED
    BY <1>1, <2>3, <2>4, <2>5 DEF SourcesOK, Named
<1>8. ASSUME NEW c \in Backup, GetDataReader(c) PROVE SourcesOK'
  <2>1. /\ labels' = labels /\ pc[c] = "read"
        /\ \E step \in {"done", "error"} : pc' = [pc EXCEPT ![c] = step]
    BY <1>8 DEF GetDataReader, Go, At
  <2>2. \A d \in Caller : pc'[d] = pc[d] \/ pc'[d] \in {"done", "error"}
    BY <2>1 DEF TypeOK
  <2>3. \A e \in repo' : e \in repo \/ e.labels = labels[c]
    <3> DEFINE new == [snap |-> snap[c], labels |-> labels[c], vcenter |-> DataTransport]
    <3>2. new.labels = labels[c]
      OBVIOUS
    <3>3. repo' = repo \cup {new} \/ repo' = repo
      BY <1>8 DEF GetDataReader
    <3> HIDE DEF new
    <3> QED
      BY <3>2, <3>3
  <2>4. \A e \in repo' : Named(e.labels)
    BY <2>1, <2>3 DEF SourcesOK
  <2>5. \A b \in Backup : pc'[b] = "read" => pc[b] = "read"
    BY <1>0, <2>2
  <2>6. \A r \in Restore : pc'[r] \in {"retrieve", "local", "update", "provision"} =>
                             pc[r] \in {"retrieve", "local", "update", "provision"}
    BY <1>0, <2>2
  <2> QED
    BY <1>1, <2>1, <2>4, <2>5, <2>6 DEF SourcesOK, Named
<1>9. ASSUME NEW c \in Delete, RemoveSnapshot(c) PROVE SourcesOK'
  <2>1. repo' = repo /\ labels' = labels /\ \E step \in {"task", "error", "done", "poll"} : pc' = [pc EXCEPT ![c] = step]
    BY <1>9 DEF RemoveSnapshot, DeleteSnapshot, CreateDeleteTask, StartTask, DeleteSnapshotTask, Go
  <2> QED
    BY <1>0, <1>3, <2>1
<1>10. ASSUME NEW c \in Restore, Copy(c) PROVE SourcesOK'
  <2>1. repo' = repo
    BY <1>10 DEF Copy
  <2>2. \A d \in Caller : d # c => pc'[d] = pc[d] /\ labels'[d] = labels[d]
    BY <1>10 DEF TypeOK, Copy, Go
  <2>3. \A r \in Restore : pc'[r] \in {"retrieve", "local", "update", "provision"} => Named(labels'[r])
    <3>1. pc'[c] = "error" \/ \E e \in repo : labels'[c] = e.labels
      BY <1>0, <1>10 DEF TypeOK, Copy, Go
    <3>2. pc'[c] = "error" \/ Named(labels'[c])
      BY <3>1 DEF SourcesOK
    <3> QED
      BY <1>0, <2>2, <3>2 DEF SourcesOK
  <2>4. \A b \in Backup : pc'[b] = pc[b] /\ labels'[b] = labels[b]
    BY <1>0, <2>2
  <2> QED
    BY <1>1, <2>1, <2>3, <2>4 DEF SourcesOK, Named
<1>11. ASSUME NEW c \in Restore, RestoreVolume(c), ~Copy(c) PROVE SourcesOK'
  <2>1. /\ repo' = repo /\ labels' = labels
        /\ \/ pc' = pc \/ \E step \in {"error", "done", "open", "copy"} : pc' = [pc EXCEPT ![c] = step]
           \/ /\ pc[c] \in {"retrieve", "local"}
              /\ \E step \in {"local", "provision", "update"} : pc' = [pc EXCEPT ![c] = step]
    BY <1>11 DEF RestoreVolume, Retrieve, CreateDiskFromSnapshot, UpdateMetadata, CreateCnsVolumeInCluster,
       GetDataWriter, CopyBuffer, Go, At
  <2>2. \A d \in Caller : d # c => pc'[d] = pc[d]
    BY <2>1 DEF TypeOK
  <2>3. pc'[c] \in {"retrieve", "local", "update", "provision"} => pc[c] \in {"retrieve", "local", "update", "provision"}
    BY <1>0, <2>1 DEF TypeOK
  <2> QED
    BY <1>0, <1>2, <2>1, <2>2, <2>3
<1>12. CASE DeleteVolume
  BY <1>4, <1>12 DEF DeleteVolume
<1> QED
  BY <1>4, <1>5, <1>6, <1>7, <1>8, <1>9, <1>10, <1>11, <1>12 DEF Next, vars, TakeSnapshot

\* How far one restore has come, as a function of its place, its disk and
\* whether labels were lost.
VolumeOK(step, d, lost) ==
  /\ step \in {"update", "open", "copy", "done"} => d.on # None
  /\ step = "open" => d.read = 0 /\ d.data = 0
  /\ step = "copy" => d.data = Written(d.read)
  /\ step = "done" => d.data = Size
  /\ step \in {"open", "copy", "done"} => Ours(d.labels) /\ ((\E l \in d.labels : l.key = "app") \/ lost)

VolumesOK == \A r \in Restore : VolumeOK(pc[r], disk[r], Happened("metadata"))

\* The fields of a disk that is made.
LEMMA NewDiskFields ==
  ASSUME NEW c, NEW ds, NEW data, NEW ls
  PROVE  /\ NewDisk(c, ds, data, ls).on = ds /\ NewDisk(c, ds, data, ls).data = data
         /\ NewDisk(c, ds, data, ls).read = 0 /\ NewDisk(c, ds, data, ls).labels = ls
BY DEF NewDisk

\* The restores, step by step.
LEMMA StepVolumes ==
  ASSUME TypeOK, SourcesOK, VolumesOK, [Next]_vars
  PROVE  VolumesOK'
<1> DEFINE lost == Happened("metadata")
<1>0. /\ Backup \subseteq Caller /\ Delete \subseteq Caller /\ Restore \subseteq Caller
      /\ Backup \cap Restore = {} /\ Delete \cap Restore = {}
      /\ None \notin Datastore \cup {"source"}
      /\ Happened("metadata") => Happened("metadata")'
  BY IvdAssumption, FaultsStay DEF Caller
<1>1. ASSUME NEW r \in Restore, pc'[r] = pc[r], disk'[r] = disk[r]
      PROVE  VolumeOK(pc'[r], disk'[r], Happened("metadata")')
  <2>1. VolumeOK(pc[r], disk[r], Happened("metadata"))
    BY DEF VolumesOK
  <2> QED
    BY <1>0, <1>1, <2>1 DEF VolumeOK
<1>2. ASSUME NEW c \in Caller, c \notin Restore, disk' = disk, pc' = pc \/ \E step : pc' = [pc EXCEPT ![c] = step]
      PROVE  VolumesOK'
  <2>1. \A r \in Restore : pc'[r] = pc[r] /\ disk'[r] = disk[r]
    BY <1>0, <1>2 DEF TypeOK
  <2> QED
    BY <1>1, <2>1 DEF VolumesOK
<1>3. ASSUME NEW c \in Restore, RestoreVolume(c), VolumeOK(pc'[c], disk'[c], Happened("metadata")') PROVE VolumesOK'
  <2>1. pc' = pc \/ \E step : pc' = [pc EXCEPT ![c] = step]
    BY <1>3 DEF RestoreVolume, Copy, Retrieve, CreateDiskFromSnapshot, UpdateMetadata, CreateCnsVolumeInCluster,
       GetDataWriter, CopyBuffer, Go
  <2>2. \A r \in Restore : r # c => pc'[r] = pc[r]
    BY <1>0, <2>1 DEF TypeOK
  <2>3. \A r \in Restore : r # c => disk'[r] = disk[r]
    BY <1>3, RestoreType DEF TypeOK
  <2> QED
    BY <1>1, <1>3, <2>2, <2>3 DEF VolumesOK
<1>4. ASSUME NEW c \in Restore, RestoreVolume(c) PROVE VolumeOK(pc'[c], disk'[c], Happened("metadata")')
  <2>0. \A step : pc' = [pc EXCEPT ![c] = step] => pc'[c] = step
    BY <1>0 DEF TypeOK
  <2>1. \A d : disk' = [disk EXCEPT ![c] = d] => disk'[c] = d
    BY DEF TypeOK
  <2>2. \A step, d, b : step \notin {"update", "open", "copy", "done"} => VolumeOK(step, d, b)
    BY DEF VolumeOK
  <2>3. VolumeOK(pc[c], disk[c], Happened("metadata"))
    BY DEF VolumesOK
  <2>4. labels[c] \in SUBSET Label
    BY <1>0 DEF TypeOK
  <2>5. CASE pc' = [pc EXCEPT ![c] = "error"]
    BY <2>0, <2>2, <2>5
  <2>6. CASE Copy(c)
    BY <2>0, <2>2, <2>6 DEF Copy, Go
  <2>7. CASE Retrieve(c)
    <3>1. \E step \in {"local", "provision", "error"} : pc' = [pc EXCEPT ![c] = step]
      BY <2>7 DEF Retrieve, Go
    <3> QED
      BY <2>0, <2>2, <3>1
  <2>8. CASE CreateDiskFromSnapshot(c)
    <3>1. CASE pc' = [pc EXCEPT ![c] = "update"] /\ disk' = [disk EXCEPT ![c] = NewDisk(c, "source", Size, {})]
      <4>1. pc'[c] = "update" /\ disk'[c].on = "source"
        <5>1. pc'[c] = "update" /\ disk'[c] = NewDisk(c, "source", Size, {})
          BY <2>0, <2>1, <3>1
        <5> QED
          BY <5>1, NewDiskFields
      <4> QED
        BY <1>0, <4>1 DEF VolumeOK
    <3> QED
      BY <2>5, <2>8, <3>1 DEF CreateDiskFromSnapshot, Go
  <2>9. CASE UpdateMetadata(c)
    <3> DEFINE ls == FilterLabelsFromMetadataForVslmAPIs(labels[c])
    <3>1. CASE pc' = [pc EXCEPT ![c] = "done"] /\ disk' = [disk EXCEPT ![c] = NewDisk(c, disk[c].on, Size, ls)]
      <4>1. pc'[c] = "done" /\ disk'[c].on = disk[c].on /\ disk'[c].data = Size /\ disk'[c].labels = ls
        <5>1. pc'[c] = "done" /\ disk'[c] = NewDisk(c, disk[c].on, Size, ls)
          BY <2>0, <2>1, <3>1
        <5> HIDE DEF ls
        <5> QED
          BY <5>1, NewDiskFields
      <4>2. pc[c] = "update"
        BY <2>9 DEF UpdateMetadata, At
      <4>3. Ours(ls) /\ Named(ls)
        BY <2>4, <4>2, Filters DEF SourcesOK
      <4>4. disk[c].on # None
        BY <2>3, <4>2 DEF VolumeOK
      <4> QED
        BY <1>0, <4>1, <4>3, <4>4 DEF VolumeOK, Named
    <3> QED
      BY <2>5, <2>9, <3>1 DEF UpdateMetadata, Go
  <2>10. CASE CreateCnsVolumeInCluster(c)
    <3> DEFINE ls == [key : ReservedKey, of : {"us"}] \cup FilterLabelsFromMetadataForCnsAPIs(labels[c])
    <3>1. ASSUME NEW ds \in Candidates, pc' = [pc EXCEPT ![c] = "open"], disk' = [disk EXCEPT ![c] = NewDisk(c, ds, 0, ls)]
          PROVE  VolumeOK(pc'[c], disk'[c], Happened("metadata")')
      <4>1. /\ pc'[c] = "open" /\ disk'[c].on = ds /\ disk'[c].read = 0 /\ disk'[c].data = 0
            /\ disk'[c].labels = ls
        <5>1. pc'[c] = "open" /\ disk'[c] = NewDisk(c, ds, 0, ls)
          BY <2>0, <2>1, <3>1
        <5> HIDE DEF ls
        <5> QED
          BY <5>1, NewDiskFields
      <4>2. ds # None
        BY <1>0 DEF Candidates, FindSharedDatastoresFromAllNodeVMs
      <4>3. Ours(ls) /\ Named(ls)
        BY <2>4, <2>10, Filters DEF SourcesOK, CreateCnsVolumeInCluster, At
      <4> QED
        BY <1>0, <4>1, <4>2, <4>3 DEF VolumeOK, Named
    <3> QED
      BY <2>5, <2>10, <3>1 DEF CreateCnsVolumeInCluster, Go
  <2>11. CASE GetDataWriter(c)
    <3>1. CASE pc' = [pc EXCEPT ![c] = "copy"] /\ disk' = disk
      BY <1>0, <2>0, <2>3, <2>11, <3>1, WholeIsWritten DEF VolumeOK, GetDataWriter, At
    <3> QED
      BY <2>5, <2>11, <3>1 DEF GetDataWriter, Go
  <2>12. CASE CopyBuffer(c)
    <3>0. pc[c] = "copy"
      BY <2>12 DEF CopyBuffer, At
    <3>1. CASE /\ pc' = pc
               /\ disk' = [disk EXCEPT ![c].read = disk[c].read + 1, ![c].data = Written(disk[c].read + 1)]
      <4>1. /\ disk'[c].on = disk[c].on /\ disk'[c].labels = disk[c].labels
            /\ disk'[c].read = disk[c].read + 1 /\ disk'[c].data = Written(disk[c].read + 1)
        BY <3>1 DEF TypeOK, Disk
      <4> QED
        BY <1>0, <2>3, <3>0, <3>1, <4>1 DEF VolumeOK
    <3>2. CASE disk[c].read = Size /\ pc' = [pc EXCEPT ![c] = "done"] /\ disk' = disk
      BY <1>0, <2>0, <2>3, <3>0, <3>2, WholeIsWritten DEF VolumeOK
    <3> QED
      BY <2>5, <2>12, <3>1, <3>2 DEF CopyBuffer, Go
  <2> QED
    BY <1>4, <2>6, <2>7, <2>8, <2>9, <2>10, <2>11, <2>12 DEF RestoreVolume
<1>5. ASSUME NEW c \in Caller, CheckConnections(c) \/ Timeout(c) PROVE VolumesOK'
  BY <1>0, <1>2, <1>5 DEF CheckConnections, Timeout, Go
<1>6. ASSUME NEW c \in Backup, TakeSnapshot(c) PROVE VolumesOK'
  BY <1>0, <1>2, <1>6 DEF TakeSnapshot, CreateSnapshot, StartTask, CreateSnapshotTask, RetrieveSnapshotDetails,
     GetMetadataReader, GetDataReader, Go
<1>7. ASSUME NEW c \in Delete, RemoveSnapshot(c) PROVE VolumesOK'
  BY <1>0, <1>2, <1>7 DEF RemoveSnapshot, DeleteSnapshot, CreateDeleteTask, StartTask, DeleteSnapshotTask, Go
<1>8. CASE UNCHANGED <<pc, disk>>
  BY <1>1, <1>8 DEF VolumesOK
<1> QED
  BY <1>3, <1>4, <1>5, <1>6, <1>7, <1>8 DEF Next, vars, DeleteVolume

-----------------------------------------------------------------------------
(* Placement *)

\* A datastore that every node's host can reach.
Reachable(ds) ==
  /\ Topology.type[ds] \in {"VMFS", "NFS"}
  /\ \A n \in Node : Topology.host[n] # None => Topology.host[n] \in Topology.attached[ds]

\* The candidates are exactly such datastores, if there is one: to compare the
\* numbers of hosts first loses none.
LEMMA CandidatesReachable ==
  ASSUME NEW ds \in Candidates, \E s \in Datastore : Reachable(s)
  PROVE  Reachable(ds)
<1> DEFINE shared == FindSharedDatastoresFromAllNodeVMs(Topology)
           hosts == FindHostsOfNodeVMs(Topology)
<1>0. /\ Topology.host \in [Node -> HostSystem \cup {None}]
      /\ Topology.attached \in [Datastore -> SUBSET HostSystem]
      /\ Topology.type \in [Datastore -> {"VMFS", "NFS", "NFS41", "NFS of VMware"}]
  BY TopologyAssumption DEF Topologies
<1>1. \A h : h \in hosts <=> h # None /\ \E n \in Node : h = Topology.host[n]
  BY DEF FindHostsOfNodeVMs
<1>2. PICK s \in Datastore : Reachable(s)
  OBVIOUS
<1>3. hosts \subseteq Topology.attached[s] /\ IsFiniteSet(Topology.attached[s])
  <2>1. Topology.attached[s] \subseteq HostSystem
    BY <1>0
  <2>2. IsFiniteSet(Topology.attached[s])
    BY <2>1, FS_Subset, IvdAssumption
  <2> QED
    BY <1>1, <1>2, <2>2 DEF Reachable
<1>4. Cardinality(hosts) <= Cardinality(Topology.attached[s])
  BY <1>3, FS_Subset
<1>5. Cardinality(hosts) \in Nat /\ Cardinality(Topology.attached[s]) \in Nat
  BY <1>3, FS_Subset, FS_CardinalityType
<1>6. s \in shared
  BY <1>2, <1>3, <1>4, <1>5 DEF FindSharedDatastoresFromAllNodeVMs, Reachable
<1>7. ds \in shared
  BY <1>6 DEF Candidates
<1>8. ds \in Datastore /\ Topology.type[ds] \notin {"NFS41", "NFS of VMware"} /\ \A h \in hosts : h \in Topology.attached[ds]
  BY <1>7 DEF FindSharedDatastoresFromAllNodeVMs
<1> QED
  BY <1>0, <1>1, <1>8 DEF Reachable

\* A new volume is put on such a datastore, and stays there.
LEMMA StepPlaced ==
  ASSUME TypeOK, RestoredIsReachable, [Next]_vars
  PROVE  RestoredIsReachable'
<1>0. RestoredIsReachable <=> \A r \in Restore :
        disk[r].on \in Datastore /\ (\E ds \in Datastore : Reachable(ds)) => Reachable(disk[r].on)
  BY DEF RestoredIsReachable, Reachable
<1> SUFFICES ASSUME NEW r \in Restore, disk'[r].on \in Datastore, \E ds \in Datastore : Reachable(ds)
             PROVE  Reachable(disk'[r].on)
  BY DEF RestoredIsReachable, Reachable
<1>1. CASE disk'[r].on = disk[r].on
  BY <1>0, <1>1
<1>2. CASE disk' = disk
  BY <1>1, <1>2
<1>3. ASSUME NEW c \in Restore, RestoreVolume(c) PROVE disk'[r].on = disk[r].on \/ Reachable(disk'[r].on)
                                                         \/ disk'[r].on \in {None, "source"}
  <2>0. disk' = disk \/ \E d \in Disk : disk' = [disk EXCEPT ![c] = d]
    BY <1>3, RestoreType
  <2>1. CASE r # c
    BY <2>0, <2>1 DEF TypeOK
  <2>2. CASE r = c
    <3>0. \A d : disk' = [disk EXCEPT ![c] = d] => disk'[r] = d
      BY <2>2 DEF TypeOK
    <3>1. CASE Copy(c)
      <4>1. disk' = disk \/ \E e \in repo : disk' = [disk EXCEPT ![c] = Made(e)]
        BY <3>1 DEF Copy
      <4>2. \A e : Made(e).on = None
        BY DEF Made
      <4> QED
        BY <3>0, <4>1, <4>2
    <3>2. CASE CreateDiskFromSnapshot(c)
      <4>1. disk' = disk \/ disk' = [disk EXCEPT ![c] = NewDisk(c, "source", Size, {})]
        BY <3>2 DEF CreateDiskFromSnapshot
      <4> QED
        BY <3>0, <4>1, NewDiskFields
    <3>3. CASE UpdateMetadata(c)
      <4> DEFINE ls == FilterLabelsFromMetadataForVslmAPIs(labels[c])
      <4>1. disk' = disk \/ disk' = [disk EXCEPT ![c] = NewDisk(c, disk[c].on, Size, ls)]
        BY <3>3 DEF UpdateMetadata
      <4> HIDE DEF ls
      <4> QED
        BY <2>2, <3>0, <4>1, NewDiskFields
    <3>4. CASE CreateCnsVolumeInCluster(c)
      <4> DEFINE ls == [key : ReservedKey, of : {"us"}] \cup FilterLabelsFromMetadataForCnsAPIs(labels[c])
      <4>1. disk' = disk \/ \E ds \in Candidates : disk' = [disk EXCEPT ![c] = NewDisk(c, ds, 0, ls)]
        BY <3>4 DEF CreateCnsVolumeInCluster
      <4> HIDE DEF ls
      <4>2. disk' = disk \/ \E ds \in Candidates : disk'[r].on = ds
        BY <3>0, <4>1, NewDiskFields
      <4> QED
        BY <4>2, CandidatesReachable
    <3>5. CASE CopyBuffer(c)
      BY <2>2, <3>5 DEF CopyBuffer, TypeOK, Disk
    <3>6. CASE disk' = disk
      BY <3>6
    <3> QED
      BY <1>3, <3>1, <3>2, <3>3, <3>4, <3>5, <3>6 DEF RestoreVolume, Retrieve, GetDataWriter
  <2> QED
    BY <2>1, <2>2
<1>4. None \notin Datastore /\ "source" \notin Datastore
  BY IvdAssumption
<1> QED
  BY <1>1, <1>2, <1>3, <1>4 DEF Next, vars, CheckConnections, Timeout, TakeSnapshot, CreateSnapshot, CreateSnapshotTask,
     RetrieveSnapshotDetails, GetMetadataReader, GetDataReader, RemoveSnapshot, DeleteSnapshot,
     CreateDeleteTask, DeleteSnapshotTask, DeleteVolume

-----------------------------------------------------------------------------
(* The theorems *)

\* The inductive invariant.
IvdInv == TypeOK /\ SnapshotsOK /\ SourcesOK /\ VolumesOK /\ RestoredIsReachable

\* It holds initially.
LEMMA InitInv == Init => IvdInv
<1> SUFFICES ASSUME Init PROVE IvdInv
  OBVIOUS
<1>0. /\ Backup \subseteq Caller /\ Delete \subseteq Caller /\ Restore \subseteq Caller
      /\ Backup \cap Delete = {} /\ Backup \cap Restore = {} /\ Delete \cap Restore = {} /\ None \notin Datastore
  BY IvdAssumption DEF Caller
<1>1. \A c \in Caller : pc[c] = (IF c \in Backup THEN "poll" ELSE "idle") /\ snap[c] = None
  BY DEF Init
<1>2. SnapshotsOK
  BY <1>0, <1>1 DEF Init, SnapshotsOK, ReturnedSnapshotExists, DeletedIsGone, At
<1>3. \A e \in repo : Named(e.labels)
  <2>1. [key |-> "app", of |-> "them"] \in LabelsOf("them")
    BY DEF LabelsOf, Key
  <2>2. \A e \in repo : e.labels = LabelsOf("them")
    BY DEF Init
  <2> QED
    <3>1. \E l \in LabelsOf("them") : l.key = "app"
      <4> DEFINE app == [key |-> "app", of |-> "them"]
      <4>1. app.key = "app"
        OBVIOUS
      <4> QED
        BY <2>1, <4>1
    <3>2. Named(LabelsOf("them"))
      BY <3>1 DEF Named
    <3> QED
      BY <2>2, <3>2
<1>4. SourcesOK
  BY <1>0, <1>1, <1>3 DEF SourcesOK
<1>5. VolumesOK
  BY <1>0, <1>1 DEF VolumesOK, VolumeOK
<1>6. RestoredIsReachable
  <2>1. \A r \in Restore : disk[r].on = None
    BY DEF Init, NoDisk
  <2> QED
    BY <1>0, <2>1 DEF RestoredIsReachable
<1> QED
  BY <1>2, <1>4, <1>5, <1>6, InitType DEF IvdInv

\* Every reachable state satisfies it, whatever calls are under way at once.
THEOREM Invariance == Spec => []IvdInv
<1>1. IvdInv /\ [Next]_vars => IvdInv'
  BY StepType, StepSnapshots, StepSources, StepVolumes, StepPlaced DEF IvdInv
<1> QED
  BY <1>1, InitInv, PTL DEF Spec

\* A snapshot that IVDProtectedEntity.Snapshot returns exists, in spite of the
\* tasks it raced with, until a call deletes it.
THEOREM ReturnedExist == Spec => []ReturnedSnapshotExists
<1>1. IvdInv => ReturnedSnapshotExists
  BY DEF IvdInv, SnapshotsOK
<1> QED
  BY <1>1, Invariance, PTL

\* A snapshot that DeleteSnapshot has deleted never comes back.
THEOREM DeletedStayGone == Spec => []DeletedIsGone
<1>1. IvdInv => DeletedIsGone
  BY DEF IvdInv, SnapshotsOK
<1> QED
  BY <1>1, Invariance, PTL

\* A volume that Copy has restored holds all data of the snapshot, for any
\* capacity of the disk, although copy does not flush its buffer.
THEOREM RestoredWhole == Spec => []RestoredHasData
<1>1. IvdInv => RestoredHasData
  BY DEF IvdInv, VolumesOK, VolumeOK, RestoredHasData, At
<1> QED
  BY <1>1, Invariance, PTL

\* A restored volume has this cluster's reserved labels and the source's own.
THEOREM RestoredOurs == Spec => []RestoredIsOurs
<1>1. IvdInv => RestoredIsOurs
  BY DEF IvdInv, VolumesOK, VolumeOK, RestoredIsOurs, At, Ours
<1> QED
  BY <1>1, Invariance, PTL

\* A provisioned volume is on a datastore that all known nodes can reach, for
\* any topology that has one.
THEOREM RestoredReachable == Spec => []RestoredIsReachable
<1>1. IvdInv => RestoredIsReachable
  BY DEF IvdInv
<1> QED
  BY <1>1, Invariance, PTL

-----------------------------------------------------------------------------
(* Whose a snapshot is, and for how long *)

\* No two calls of Snapshot know the same snapshot, and none that was there before.
OwnSnapshots ==
  \A b \in Backup :
    snap[b] # None => snap[b] # Old /\ \A c \in Backup : snap[c] = snap[b] => c = b

\* A snapshot that is there stays there, unless a call of DeleteSnapshot is for it
\* or the disk is deleted.
SnapshotsKept ==
  \A s \in catalog \ mismatch :
    s \in catalog' \ mismatch' \/ ~volume' \/ \E d \in Delete : snap[d] = s

\* The calls of Snapshot learn of a snapshot that was just made, or forget theirs.
LEMMA StepOwned ==
  ASSUME TypeOK, SnapshotsOK, OwnSnapshots, [Next]_vars
  PROVE  OwnSnapshots'
<1>0. /\ Backup \subseteq Caller /\ Delete \subseteq Caller /\ Restore \subseteq Caller
      /\ Backup \cap Delete = {} /\ Backup \cap Restore = {} /\ None \notin Snapshot
      /\ snap \in [Caller -> Snapshot \cup {None}]
  BY IvdAssumption DEF Caller, TypeOK
<1>1. CASE \A b \in Backup : snap'[b] = snap[b]
  BY <1>1 DEF OwnSnapshots
<1>2. ASSUME NEW c \in Backup, NEW s, snap' = [snap EXCEPT ![c] = s],
             s = None \/ s \notin used
      PROVE  OwnSnapshots'
  <2>1. snap'[c] = s /\ \A b \in Backup : b # c => snap'[b] = snap[b]
    BY <1>0, <1>2
  <2>2. (\A b \in Backup : snap[b] \in used \cup {None}) /\ Old \in used
    BY DEF SnapshotsOK
  <2> QED
    BY <1>2, <2>1, <2>2 DEF OwnSnapshots
<1>3. ASSUME NEW c \in Caller, CheckConnections(c) \/ Timeout(c) PROVE OwnSnapshots'
  BY <1>1, <1>3 DEF CheckConnections, Timeout
<1>4. ASSUME NEW c \in Backup, TakeSnapshot(c) PROVE OwnSnapshots'
  <2>1. CASE CreateSnapshotTask(c)
    <3>1. snap' = snap \/ \E s \in Snapshot \ used : snap' = [snap EXCEPT ![c] = s]
      BY <2>1 DEF CreateSnapshotTask, MakeSnapshot, NoSnapshot
    <3> QED
      BY <1>1, <1>2, <3>1
  <2>2. CASE RetrieveSnapshotDetails(c)
    <3>1. snap' = snap \/ snap' = [snap EXCEPT ![c] = None]
      BY <2>2 DEF RetrieveSnapshotDetails
    <3> QED
      BY <1>1, <1>2, <3>1
  <2>3. CASE CreateSnapshot(c) \/ GetMetadataReader(c) \/ GetDataReader(c)
    BY <1>1, <2>3 DEF CreateSnapshot, GetMetadataReader, GetDataReader
  <2> QED
    BY <1>4, <2>1, <2>2, <2>3 DEF TakeSnapshot
<1>5. ASSUME NEW c \in Delete \cup Restore, RemoveSnapshot(c) \/ RestoreVolume(c) PROVE OwnSnapshots'
  <2>1. snap' = snap \/ \E s : snap' = [snap EXCEPT ![c] = s]
    BY <1>5 DEF RemoveSnapshot, DeleteSnapshot, CreateDeleteTask, DeleteSnapshotTask, RestoreVolume, Copy, Retrieve,
       CreateDiskFromSnapshot, UpdateMetadata, CreateCnsVolumeInCluster, GetDataWriter, CopyBuffer
  <2>2. \A b \in Backup : b # c
    BY <1>0
  <2>3. \A b \in Backup : snap'[b] = snap[b]
    BY <1>0, <2>1, <2>2
  <2> QED
    BY <1>1, <2>3
<1>6. CASE DeleteVolume \/ UNCHANGED vars
  BY <1>1, <1>6 DEF DeleteVolume, vars
<1> QED
  BY <1>3, <1>4, <1>5, <1>6 DEF Next

\* A snapshot that IVDProtectedEntity.Snapshot knows, and so one that it returns,
\* is its own: whatever the tasks of concurrent calls race with, and however often
\* a reset connection makes the loop take one more, no other call gets it, and it
\* is none of an earlier backup.
THEOREM SnapshotsAreOwn == Spec => []OwnSnapshots
<1>1. Init => OwnSnapshots
  BY DEF Init, OwnSnapshots, Caller
<1>2. IvdInv /\ OwnSnapshots /\ [Next]_vars => OwnSnapshots'
  BY StepOwned DEF IvdInv
<1> QED
  BY <1>1, <1>2, Invariance, PTL DEF Spec

\* No task of another call takes a snapshot away that is there: not the creation
\* of another one, not the deletion of another one, although each of them brings
\* the catalog in line with the disk, and no retry.
THEOREM SnapshotsStay == Spec => [][SnapshotsKept]_vars
<1>1. ASSUME Next PROVE SnapshotsKept
  <2>1. CASE UNCHANGED <<catalog, mismatch>>
    BY <2>1 DEF SnapshotsKept
  <2>2. ASSUME NEW c \in Backup, CreateSnapshotTask(c) PROVE SnapshotsKept
    <3>1. UNCHANGED <<catalog, mismatch>> \/ \E s : Consolidated({s}, {})
      BY <2>2 DEF CreateSnapshotTask, MakeSnapshot, NoSnapshot
    <3> QED
      BY <2>1, <3>1 DEF Consolidated, SnapshotsKept
  <2>3. ASSUME NEW c \in Delete, DeleteSnapshotTask(c) PROVE SnapshotsKept
    <3>1. \/ UNCHANGED <<catalog, mismatch>>
          \/ Consolidated({}, {snap[c]})
          \/ mismatch' = mismatch \cup {snap[c]} /\ catalog' = catalog
      BY <2>3 DEF DeleteSnapshotTask, NotDeleted
    <3> QED
      BY <2>1, <3>1 DEF Consolidated, SnapshotsKept
  <2>4. CASE DeleteVolume
    BY <2>4 DEF DeleteVolume, SnapshotsKept
  <2>5. ASSUME NEW c \in Caller, CheckConnections(c) \/ Timeout(c) PROVE SnapshotsKept
    BY <2>1, <2>5 DEF CheckConnections, Timeout
  <2>6. ASSUME NEW c \in Backup, TakeSnapshot(c) PROVE SnapshotsKept
    BY <2>1, <2>2, <2>6 DEF TakeSnapshot, CreateSnapshot, RetrieveSnapshotDetails, GetMetadataReader, GetDataReader
  <2>7. ASSUME NEW c \in Delete, RemoveSnapshot(c) PROVE SnapshotsKept
    BY <2>1, <2>3, <2>7 DEF RemoveSnapshot, DeleteSnapshot, CreateDeleteTask
  <2>8. ASSUME NEW c \in Restore, RestoreVolume(c) PROVE SnapshotsKept
    BY <2>1, <2>8 DEF RestoreVolume, Copy, Retrieve, CreateDiskFromSnapshot, UpdateMetadata,
       CreateCnsVolumeInCluster, GetDataWriter, CopyBuffer
  <2> QED
    BY <1>1, <2>4, <2>5, <2>6, <2>7, <2>8 DEF Next
<1>2. [Next]_vars => [SnapshotsKept]_vars
  BY <1>1 DEF vars
<1> QED
  BY <1>2, PTL DEF Spec

=============================================================================
