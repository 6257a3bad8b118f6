----------------------------- MODULE IvdVolumes -----------------------------
(***************************************************************************)
(* The protected entities of type ivd (pkg/ivd): snapshots of a First Class*)
(* Disk and volumes restored from a repository, on top of the VSLM and CNS *)
(* services of vCenter.                                                    *)
(*   - IVDProtectedEntity.Snapshot and DeleteSnapshot try again, for up to *)
(*     an hour, after the faults that concurrent tasks on the same disk and*)
(*     lost connections cause;                                             *)
(*   - the metadata and the data of a snapshot are read and copied to the  *)
(*     repository;                                                         *)
(*   - IVDProtectedEntityTypeManager.Copy makes a disk from a local        *)
(*     snapshot, or a new CNS volume that it fills from the repository.    *)
(*                                                                         *)
(* There is one disk.  vCenter runs the tasks of all calls on it at once,  *)
(* and which faults a task meets depends on what else it overlapped with.  *)
(* The contents of the repository outlive the disk and its snapshots.      *)
(***************************************************************************)
EXTENDS Integers, Environment, FiniteSets

CONSTANTS
  Backup,        \* calls that take a snapshot and copy it to the repository
  Delete,        \* calls of DeleteSnapshot
  Restore,       \* calls of Copy
  Snapshot,      \* BOUND: the snapshots that vCenter may make, numbered
  Old,           \* a snapshot that is there, and in the repository, from the start
  None,          \* no snapshot
  CapacityInMB,  \* the size of the disk, in MB
  UnitsPerMB,    \* the bytes of a MB, in units of what a read returns
  Node, HostSystem, Datastore,  \* the cluster's nodes, vSphere's hosts and datastores
  Topology       \* how they are connected

ASSUME IvdAssumption ==
  /\ Snapshot \subseteq Nat /\ Old \in Snapshot /\ None \notin Snapshot /\ IsFiniteSet(Snapshot)
  /\ CapacityInMB \in Nat /\ UnitsPerMB \in Nat \ {0}
  /\ Backup \cap Delete = {} /\ Backup \cap Restore = {} /\ Delete \cap Restore = {}
  /\ IsFiniteSet(HostSystem) /\ None \notin HostSystem \cup Datastore \cup {"source"}
  /\ "source" \notin Datastore

\* How they may be: the host that runs each node's VM, if a VM with the node's
\* name is found; the hosts that each datastore is attached to; its type.
Topologies ==
  [host : [Node -> HostSystem \cup {None}],
   attached : [Datastore -> SUBSET HostSystem],
   type : [Datastore -> {"VMFS", "NFS", "NFS41", "NFS of VMware"}]]

ASSUME TopologyAssumption == Topology \in Topologies

VARIABLES
  volume,    \* whether the disk exists
  catalog,   \* the snapshots that vCenter lists for the disk
  mismatch,  \* those of them that are gone: the next task brings the catalog in line
  used,      \* the snapshots made so far
  pc,        \* the progress of every call
  snap,      \* the snapshot a call has made, deletes or restores
  raced,     \* the calls whose task overlapped with another call's
  labels,    \* the labels a call has read from the source
  repo,      \* the protected entities in the repository
  disk       \* the volume that a restore has made

vars == <<volume, catalog, mismatch, used, pc, snap, raced, labels, repo, disk, faults>>

Caller == Backup \cup Delete \cup Restore

-----------------------------------------------------------------------------
(* Data *)

\* The keys of a disk's labels (ExtendedMetadata).  Those with prefix cns are
\* CNS's own; two of them name the cluster that the volume belongs to.
ReservedKey == {"cns.containerCluster.clusterId", "cns.containerCluster.vSphereUser"}
CnsKey == ReservedKey \cup {"cns.version"}
Key == CnsKey \cup {"app"}

\* A label: a key, and whose value it has, this cluster's or another's.
Label == [key : Key, of : {"us", "them"}]

LabelsOf(cluster) == [key : Key, of : {cluster}]

\* The size of the disk, a whole number of MB.
Size == CapacityInMB * UnitsPerMB

\* Mutant: a buffer of more than a MB.
BufferSizeLarger == UnitsPerMB + 1

\* The size of copy's bufio.Writer: 1024 * 1024 bytes.
BufferSize == UnitsPerMB

\* The vCenter's host as the configuration has it, and as the client's URL does
\* (net.JoinHostPort).
VcHost == "vc"
ClientURLHost == "vc:443"

\* getDataTransports: the vcenter parameter of the vadp transport.  An entity
\* in the repository: its snapshot, its labels, that parameter.
DataTransport == VcHost

Entity == [snap : Snapshot, labels : SUBSET Label, vcenter : {VcHost, ClientURLHost}]

\* A restored volume: its datastore, once it exists, the entity it is made from,
\* the units of data read and written, its labels.
Disk == [on : Datastore \cup {"source", None}, snap : Snapshot \cup {None}, vcenter : {VcHost, ClientURLHost},
         read : Nat, data : Nat, labels : SUBSET Label]

NoDisk == [on |-> None, snap |-> None, vcenter |-> VcHost,
           read |-> 0, data |-> 0, labels |-> {}]

PC == {"idle", "poll", "call", "task", "details", "metadata", "read", "retrieve",
       "local", "update", "provision", "open", "copy", "done", "error"}

TypeOK ==
  /\ volume \in BOOLEAN
  /\ catalog \in SUBSET Snapshot /\ mismatch \in SUBSET Snapshot /\ used \in SUBSET Snapshot
  /\ pc \in [Caller -> PC]
  /\ snap \in [Caller -> Snapshot \cup {None}]
  /\ raced \in SUBSET Caller
  /\ labels \in [Caller -> SUBSET Label]
  /\ repo \in SUBSET Entity
  /\ disk \in [Restore -> Disk]
  /\ FaultsOK

\* An earlier backup is still there, made by another cluster of this vCenter,
\* whose repository holds the vCenter's address with its port.
Init ==
  /\ volume = TRUE
  /\ catalog = {Old} /\ mismatch = {} /\ used = {Old}
  /\ pc = [c \in Caller |-> IF c \in Backup THEN "poll" ELSE "idle"]
  /\ snap = [c \in Caller |-> None]
  /\ raced = {}
  /\ labels = [c \in Caller |-> {}]
  /\ repo = {[snap |-> Old, labels |-> LabelsOf("them"), vcenter |-> ClientURLHost]}
  /\ disk = [c \in Restore |-> NoDisk]
  /\ NoFaults

At(c, step) == pc[c] = step

Go(c, step) == pc' = [pc EXCEPT ![c] = step]

-----------------------------------------------------------------------------
(* The placement of a new volume *)

\* findHostsOfNodeVMs
FindHostsOfNodeVMs(t) == {t.host[n] : n \in Node} \ {None}

\* Mutant: only the number of the hosts is looked at.
FindSharedDatastoresByNumber(t) ==
  {ds \in Datastore :
     /\ t.type[ds] \notin {"NFS41", "NFS of VMware"}
     /\ Cardinality(t.attached[ds]) >= Cardinality(FindHostsOfNodeVMs(t))}

\* findSharedDatastoresFromAllNodeVMs
FindSharedDatastoresFromAllNodeVMs(t) ==
  {ds \in Datastore :
     /\ t.type[ds] \notin {"NFS41", "NFS of VMware"}
     /\ Cardinality(t.attached[ds]) >= Cardinality(FindHostsOfNodeVMs(t))
     /\ \A h \in FindHostsOfNodeVMs(t) : h \in t.attached[ds]}

\* Where CNS may put a volume: on a datastore of the create spec, on any if the
\* spec names none.
Candidates ==
  LET shared == FindSharedDatastoresFromAllNodeVMs(Topology)
  IN IF shared = {} THEN Datastore ELSE shared

-----------------------------------------------------------------------------
(* Tasks of the disk *)

\* A task starts: it and those that are running overlap.
StartTask(c) ==
  LET others == {d \in Caller : At(d, "task")}
  IN /\ Go(c, "task")
     /\ raced' = IF others = {} THEN raced ELSE raced \cup others \cup {c}

\* A task leaves the catalog in line with the disk, with new and without old.
Consolidated(new, old) ==
  /\ catalog' = ((catalog \cup new) \ mismatch) \ old
  /\ mismatch' = {}

\* Both loops: CheckVcenterConnections; a failure is tried again.
CheckConnections(c) ==
  /\ c \in Backup \cup Delete /\ At(c, "poll")
  /\ \/ Go(c, "call") /\ UNCHANGED faults
     \/ Fault("busy") /\ UNCHANGED pc
  /\ UNCHANGED <<volume, catalog, mismatch, used, snap, raced, labels, repo, disk>>

\* Both loops: the hour is over.
Timeout(c) ==
  /\ c \in Backup \cup Delete /\ At(c, "poll")
  /\ Go(c, "error")
  /\ UNCHANGED <<volume, catalog, mismatch, used, snap, raced, labels, repo, disk, faults>>

-----------------------------------------------------------------------------
(* IVDProtectedEntity.Snapshot *)

\* The call that creates the task; its errors end the loop.
CreateSnapshot(c) ==
  /\ c \in Backup /\ At(c, "call")
  /\ \/ volume /\ StartTask(c) /\ UNCHANGED faults
     \/ ~volume /\ Go(c, "error") /\ UNCHANGED <<raced, faults>>
     \/ Fault("call") /\ Go(c, "error") /\ UNCHANGED raced
  /\ UNCHANGED <<volume, catalog, mismatch, used, snap, labels, repo, disk>>

\* vCenter makes a snapshot with the next ID, which the call hears of if it is to
\* keep it.  One whose task raced with another may be missing from the catalog.
MakeSnapshot(c, keep) ==
  \E s \in Snapshot \ used :
    /\ \A t \in Snapshot \ used : s <= t
    /\ used' = used \cup {s}
    /\ \/ Consolidated({s}, {})
       \/ c \in raced /\ UNCHANGED <<catalog, mismatch>>
    /\ snap' = IF keep THEN [snap EXCEPT ![c] = s] ELSE snap

\* No snapshot is made.
NoSnapshot == UNCHANGED <<catalog, mismatch, used, snap>>

\* The task is waited for.  InvalidState, VslmSyncFault and NotFound, the
\* faults of other operations on the disk or its VM, are tried again, and so is
\* a reset connection, whatever became of the task; other errors are not.
CreateSnapshotTask(c) ==
  /\ c \in Backup /\ At(c, "task")
  /\ \/ volume /\ MakeSnapshot(c, TRUE) /\ Go(c, "details") /\ UNCHANGED faults
     \/ (c \in raced \/ ~volume) /\ NoSnapshot /\ Go(c, "poll") /\ UNCHANGED faults
     \/ Fault("busy") /\ NoSnapshot /\ Go(c, "poll")
     \/ /\ Fault("reset") /\ Go(c, "poll")
        /\ NoSnapshot \/ (volume /\ MakeSnapshot(c, FALSE))
     \/ /\ Fault("call") /\ Go(c, "error")
        /\ NoSnapshot \/ (volume /\ MakeSnapshot(c, FALSE))
  /\ raced' = raced \ {c}
  /\ UNCHANGED <<volume, labels, repo, disk>>

\* Mutant: the details of the new snapshot are not asked for.
RetrieveSnapshotDetailsSkipped(c) ==
  /\ c \in Backup /\ At(c, "details")
  /\ Go(c, "metadata")
  /\ UNCHANGED <<volume, catalog, mismatch, used, snap, raced, labels, repo, disk, faults>>

\* RetrieveSnapshotDetails: a snapshot that vCenter does not know is taken
\* anew, also when it only does not know it yet; other errors are ignored.
RetrieveSnapshotDetails(c) ==
  /\ c \in Backup /\ At(c, "details")
  /\ \/ snap[c] \in catalog /\ Go(c, "metadata") /\ UNCHANGED <<snap, faults>>
     \/ snap[c] \notin catalog /\ Go(c, "poll") /\ snap' = [snap EXCEPT ![c] = None]
        /\ UNCHANGED faults
     \/ Fault("late") /\ Go(c, "poll") /\ snap' = [snap EXCEPT ![c] = None]
     \/ Fault("details") /\ Go(c, "metadata") /\ UNCHANGED snap
  /\ UNCHANGED <<volume, catalog, mismatch, used, raced, labels, repo, disk>>

-----------------------------------------------------------------------------
(* Reading a snapshot *)

\* GetMetadataReader: the disk is retrieved; an error of RetrieveMetadata is
\* dropped, and the entity has no labels.
GetMetadataReader(c) ==
  /\ c \in Backup /\ At(c, "metadata")
  /\ \/ volume /\ Go(c, "read") /\ labels' = [labels EXCEPT ![c] = LabelsOf("us")]
        /\ UNCHANGED faults
     \/ volume /\ Fault("metadata") /\ Go(c, "read") /\ UNCHANGED labels
     \/ ~volume /\ Go(c, "error") /\ UNCHANGED <<labels, faults>>
     \/ Fault("call") /\ Go(c, "error") /\ UNCHANGED labels
  /\ UNCHANGED <<volume, catalog, mismatch, used, snap, raced, repo, disk>>

\* GetDataReader opens the snapshot, once more if a former access was not
\* ended; the data mover copies it to the repository.
GetDataReader(c) ==
  /\ c \in Backup /\ At(c, "read")
  /\ \/ /\ volume /\ snap[c] \in catalog
        /\ Go(c, "done")
        /\ repo' = repo \cup {[snap |-> snap[c], labels |-> labels[c],
                               vcenter |-> DataTransport]}
        /\ UNCHANGED faults
     \/ ~(volume /\ snap[c] \in catalog) /\ Go(c, "error") /\ UNCHANGED <<repo, faults>>
     \/ Fault("call") /\ Go(c, "error") /\ UNCHANGED repo
  /\ UNCHANGED <<volume, catalog, mismatch, used, snap, raced, labels, disk>>

-----------------------------------------------------------------------------
(* IVDProtectedEntity.DeleteSnapshot *)

\* The snapshots that callers know of.
Returned ==
  {Old} \cup ({snap[b] : b \in {b \in Backup : pc[b] \in {"metadata", "read", "done", "error"}}}
              \ {None})

DeleteSnapshot(c) ==
  /\ c \in Delete /\ At(c, "idle")
  /\ \E s \in Returned : snap' = [snap EXCEPT ![c] = s]
  /\ Go(c, "poll")
  /\ UNCHANGED <<volume, catalog, mismatch, used, raced, labels, repo, disk, faults>>

\* The call that creates the task: NotFound, of the disk, is a success.
CreateDeleteTask(c) ==
  /\ c \in Delete /\ At(c, "call")
  /\ \/ volume /\ StartTask(c) /\ UNCHANGED faults
     \/ ~volume /\ Go(c, "done") /\ UNCHANGED <<raced, faults>>
     \/ Fault("call") /\ Go(c, "error") /\ UNCHANGED raced
  /\ UNCHANGED <<volume, catalog, mismatch, used, snap, labels, repo, disk>>

\* The snapshot stays as it is.
NotDeleted == UNCHANGED <<catalog, mismatch>>

\* Mutant: the disk's being busy is taken for a success.
DeleteSnapshotTaskLenient(c) ==
  /\ c \in Delete /\ At(c, "task")
  /\ \/ volume /\ Consolidated({}, {snap[c]}) /\ Go(c, "done") /\ UNCHANGED faults
     \/ Fault("busy") /\ NotDeleted /\ Go(c, "done")
  /\ raced' = raced \ {c}
  /\ UNCHANGED <<volume, used, snap, labels, repo, disk>>

\* The task is waited for.
\*   - InvalidArgument, for a snapshot that is not there, is a success;
\*   - NotFound, of a task that raced with another, is a success: the snapshot
\*     is gone but still in the catalog;
\*   - InvalidState, TaskInProgress and FileLocked are tried again, and may
\*     have removed the snapshot's stamp from the catalog;
\*   - a reset connection is tried again, other errors are not.
DeleteSnapshotTask(c) ==
  /\ c \in Delete /\ At(c, "task")
  /\ \/ /\ volume /\ Go(c, "done") /\ UNCHANGED faults
        /\ \/ Consolidated({}, {snap[c]})
           \/ /\ c \in raced /\ snap[c] \in catalog
              /\ mismatch' = mismatch \cup {snap[c]}
              /\ UNCHANGED catalog
     \/ ~volume /\ NotDeleted /\ Go(c, "done") /\ UNCHANGED faults
     \/ /\ IF c \in raced THEN UNCHANGED faults ELSE Fault("busy")
        /\ NotDeleted \/ Consolidated({}, {snap[c]})
        /\ Go(c, "poll")
     \/ Fault("reset") /\ (NotDeleted \/ Consolidated({}, {snap[c]})) /\ Go(c, "poll")
     \/ Fault("call") /\ NotDeleted /\ Go(c, "error")
  /\ raced' = raced \ {c}
  /\ UNCHANGED <<volume, used, snap, labels, repo, disk>>

-----------------------------------------------------------------------------
(* IVDProtectedEntityTypeManager.Copy *)

Made(e) == [on |-> None, snap |-> e.snap, vcenter |-> e.vcenter,
            read |-> 0, data |-> 0, labels |-> {}]

\* Info, data and metadata of an entity of the repository are opened and read.
Copy(c) ==
  /\ c \in Restore /\ At(c, "idle")
  /\ \/ /\ \E e \in repo :
             /\ snap' = [snap EXCEPT ![c] = e.snap]
             /\ labels' = [labels EXCEPT ![c] = e.labels]
             /\ disk' = [disk EXCEPT ![c] = Made(e)]
        /\ Go(c, "retrieve") /\ UNCHANGED faults
     \/ Fault("call") /\ Go(c, "error") /\ UNCHANGED <<snap, labels, disk>>
  /\ UNCHANGED <<volume, catalog, mismatch, used, raced, repo>>

\* copyInt: the source may be a disk of this vCenter.  A fault other than
\* NotFound ends the copy, an error that is no fault is ignored.
Retrieve(c) ==
  /\ c \in Restore /\ At(c, "retrieve")
  /\ LET ourVC == disk[c].vcenter = ClientURLHost
     IN \/ Go(c, IF ourVC /\ volume THEN "local" ELSE "provision") /\ UNCHANGED faults
        \/ ourVC /\ Fault("call") /\ Go(c, "error")
        \/ ourVC /\ Fault("reset") /\ Go(c, "local")
  /\ UNCHANGED <<volume, catalog, mismatch, used, snap, raced, labels, repo, disk>>

\* FilterLabelsFromMetadataForVslmAPIs: this cluster's reserved labels, and
\* those of the source, with this cluster's values where they are reserved.
FilterLabelsFromMetadataForVslmAPIs(ls) ==
  [key : ReservedKey, of : {"us"}]
    \cup {[key |-> l.key, of |-> IF l.key \in ReservedKey THEN "us" ELSE l.of] : l \in ls}

\* FilterLabelsFromMetadataForCnsAPIs
FilterLabelsFromMetadataForCnsAPIs(ls) == {l \in ls : l.key \notin CnsKey}

NewDisk(c, ds, data, ls) ==
  [on |-> ds, snap |-> snap[c], vcenter |-> disk[c].vcenter,
   read |-> 0, data |-> data, labels |-> ls]

\* CreateDiskFromSnapshot and the wait for its task.
CreateDiskFromSnapshot(c) ==
  /\ c \in Restore /\ At(c, "local")
  /\ \/ /\ volume /\ snap[c] \in catalog \ mismatch
        /\ disk' = [disk EXCEPT ![c] = NewDisk(c, "source", Size, {})]
        /\ \/ Go(c, "update") /\ UNCHANGED faults
           \/ Fault("call") /\ Go(c, "error")
     \/ /\ ~(volume /\ snap[c] \in catalog \ mismatch)
        /\ Go(c, "error") /\ UNCHANGED <<disk, faults>>
     \/ Fault("call") /\ Go(c, "error") /\ UNCHANGED disk
  /\ UNCHANGED <<volume, catalog, mismatch, used, snap, raced, labels, repo>>

\* UpdateMetadata and the wait for its task.
UpdateMetadata(c) ==
  /\ c \in Restore /\ At(c, "update")
  /\ \/ /\ disk' = [disk EXCEPT ![c] =
                      NewDisk(c, disk[c].on, Size, FilterLabelsFromMetadataForVslmAPIs(labels[c]))]
        /\ Go(c, "done") /\ UNCHANGED faults
     \/ Fault("call") /\ Go(c, "error") /\ UNCHANGED disk
  /\ UNCHANGED <<volume, catalog, mismatch, used, snap, raced, labels, repo>>

\* Mutant: the source's CNS labels go with the new volume.
CreateCnsVolumeInClusterUnfiltered(c) ==
  /\ c \in Restore /\ At(c, "provision")
  /\ \E ds \in Candidates : disk' = [disk EXCEPT ![c] = NewDisk(c, ds, 0, labels[c])]
  /\ Go(c, "open") /\ UNCHANGED faults
  /\ UNCHANGED <<volume, catalog, mismatch, used, snap, raced, labels, repo>>

\* CreateCnsVolumeInCluster: CNS itself labels the volume with the cluster that
\* the create spec names (fillInClusterSpecificParams).
CreateCnsVolumeInCluster(c) ==
  /\ c \in Restore /\ At(c, "provision")
  /\ \/ /\ FindHostsOfNodeVMs(Topology) # {}
        /\ \E ds \in Candidates :
             disk' = [disk EXCEPT ![c] =
               NewDisk(c, ds, 0, [key : ReservedKey, of : {"us"}]
                                   \cup FilterLabelsFromMetadataForCnsAPIs(labels[c]))]
        /\ \/ Go(c, "open") /\ UNCHANGED faults
           \/ Fault("call") /\ Go(c, "error")
     \/ /\ IF FindHostsOfNodeVMs(Topology) = {} THEN UNCHANGED faults ELSE Fault("call")
        /\ Go(c, "error") /\ UNCHANGED disk
  /\ UNCHANGED <<volume, catalog, mismatch, used, snap, raced, labels, repo>>

\* copy: getDataWriter opens the new volume.
GetDataWriter(c) ==
  /\ c \in Restore /\ At(c, "open")
  /\ \/ Go(c, "copy") /\ UNCHANGED faults
     \/ Fault("call") /\ Go(c, "error")
  /\ UNCHANGED <<volume, catalog, mismatch, used, snap, raced, labels, repo, disk>>

\* The bufio.Writer passes its buffer on when it is full.  It is not flushed at
\* the end.
Written(n) == (n \div BufferSize) * BufferSize

\* copy: io.CopyBuffer reads on until the end of the data.
CopyBuffer(c) ==
  /\ c \in Restore /\ At(c, "copy")
  /\ \/ /\ disk[c].read < Size
        /\ disk' = [disk EXCEPT ![c].read = disk[c].read + 1,
                                ![c].data = Written(disk[c].read + 1)]
        /\ UNCHANGED <<pc, faults>>
     \/ disk[c].read = Size /\ Go(c, "done") /\ UNCHANGED <<disk, faults>>
     \/ Fault("call") /\ Go(c, "error") /\ UNCHANGED disk
  /\ UNCHANGED <<volume, catalog, mismatch, used, snap, raced, labels, repo>>

-----------------------------------------------------------------------------
(* The rest of the world *)

\* The disk is deleted, with its snapshots.
DeleteVolume ==
  /\ volume /\ Fault("gone")
  /\ volume' = FALSE
  /\ catalog' = {} /\ mismatch' = {}
  /\ UNCHANGED <<used, pc, snap, raced, labels, repo, disk>>

TakeSnapshot(c) ==
  \/ CreateSnapshot(c) \/ CreateSnapshotTask(c) \/ RetrieveSnapshotDetails(c)
  \/ GetMetadataReader(c) \/ GetDataReader(c)

RemoveSnapshot(c) == DeleteSnapshot(c) \/ CreateDeleteTask(c) \/ DeleteSnapshotTask(c)

RestoreVolume(c) ==
  \/ Copy(c) \/ Retrieve(c) \/ CreateDiskFromSnapshot(c) \/ UpdateMetadata(c)
  \/ CreateCnsVolumeInCluster(c) \/ GetDataWriter(c) \/ CopyBuffer(c)

Next ==
  \/ \E c \in Caller : CheckConnections(c) \/ Timeout(c)
  \/ \E c \in Backup : TakeSnapshot(c)
  \/ \E c \in Delete : RemoveSnapshot(c)
  \/ \E c \in Restore : RestoreVolume(c)
  \/ DeleteVolume

Spec == Init /\ [][Next]_vars

-----------------------------------------------------------------------------
(* Properties *)

\* A snapshot that Snapshot returns is one that vCenter lists, although vCenter
\* may lose one whose creation races with another task; until it is deleted,
\* or if its details could not be asked for.
ReturnedSnapshotExists ==
  \A b \in Backup :
    At(b, "metadata") \/ At(b, "read") \/ At(b, "done") =>
      \/ snap[b] \in catalog
      \/ \E d \in Delete : snap[d] = snap[b]
      \/ ~volume \/ Happened("details")

\* A snapshot whose DeleteSnapshot succeeded is gone, whatever faults the
\* attempts met: at most the catalog still lists it.
DeletedIsGone ==
  \A d \in Delete : At(d, "done") => snap[d] \notin catalog \ mismatch

\* A restored volume holds all the data of the snapshot: the buffer that is not
\* flushed is empty, because a disk's capacity is a whole number of MB.
RestoredHasData == \A r \in Restore : At(r, "done") => disk[r].on # None /\ disk[r].data = Size

\* A restored volume belongs to this cluster, whichever cluster it was backed
\* up in, and keeps the labels that are not CNS's, unless they could not be
\* read when it was backed up.
RestoredIsOurs ==
  \A r \in Restore : At(r, "done") =>
    /\ \A k \in ReservedKey : [key |-> k, of |-> "us"] \in disk[r].labels
    /\ \A l \in disk[r].labels : l.key \in ReservedKey => l.of = "us"
    /\ (\E l \in disk[r].labels : l.key = "app") \/ Happened("metadata")

\* A volume that is provisioned for a restore is on a datastore that every node
\* whose VM was found can reach, if there is one of a supported type.
RestoredIsReachable ==
  LET Reachable(ds) ==
        /\ Topology.type[ds] \in {"VMFS", "NFS"}
        /\ \A n \in Node : Topology.host[n] # None => Topology.host[n] \in Topology.attached[ds]
  IN \A r \in Restore :
       disk[r].on \in Datastore /\ (\E ds \in Datastore : Reachable(ds)) => Reachable(disk[r].on)

=============================================================================
