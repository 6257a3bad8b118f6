-------------------------- MODULE RestoreItemAction ---------------------------
(***************************************************************************)
(* What NewPVCRestoreItemAction.Execute decides about an item of a backup  *)
(* before it asks for a clone (pkg/plugin, pkg/plugin/util): whether the   *)
(* item is blocked, handed back to Velero, skipped, refused or restored    *)
(* from its snapshot, and into which namespace and storage class.          *)
(* Everything is a function of the item, the Restore and the objects that  *)
(* are read; CloneController takes the steps.                              *)
(***************************************************************************)
EXTENDS Naturals

\* BOUND: the kinds of items: the one that is handled, the one that is trimmed,
\* two that are always skipped and two that the block list may hold.
Kind == {"PersistentVolumeClaim", "Pod", "Image", "NSXLoadBalancerMonitor",
         "SecurityPolicy", "Gateway"}

\* The names of their resources, as the API server has them.
Resource == [PersistentVolumeClaim |-> "persistentvolumeclaims",
             Pod |-> "pods",
             Image |-> "images.imagecontroller.vmware.com",
             NSXLoadBalancerMonitor |-> "nsxlbmonitors.vmware.com",
             SecurityPolicy |-> "securitypolicies.crd.nsx.vmware.com",
             Gateway |-> "gateways.networking.x-k8s.io"]

\* UnstructuredToCRDName: an s is added, a final y becomes ies, and the group
\* of a custom resource is appended; not every plural is formed like this.
CRDName == [Resource EXCEPT
              !.NSXLoadBalancerMonitor = "nsxloadbalancermonitors.vmware.com",
              !.Gateway = "gatewaies.networking.x-k8s.io"]

ResourcesToBlockOnRestore ==
  {"pods", "images.imagecontroller.vmware.com",
   "nsxlbmonitors.vmware.com", "nsxloadbalancermonitors.vmware.com"}

\* What the block list says of the item's resource: there is no ConfigMap, it
\* has no such key, or a value that ParseBool takes for false or true.
Listing == {"missing", "absent", "false", "true"}

\* The storage classes of the cluster bind at once or at the first consumer;
\* "deleted" is no longer there and "" is no class at all.
StorageClasses == {"immediate", "late"}
Class == StorageClasses \cup {"deleted", ""}

\* BOUND: the namespace of the backup and the one it may be mapped to.
Namespace == {"backedUp", "mapped"}

\* BOUND: the storage class mapping maps some of two classes ("" stands for
\* EmptyStorageClass) to one class.
Mapping == UNION {[D -> {c}] : D \in SUBSET {"", "immediate"}, c \in Class \ {""}}

\* The item, the options of the Restore that are about it, how many ConfigMaps
\* have the label of the storage class mapping, the mapping of the first, and
\* the feature flag of the local mode.
Item == [kind : Kind, vmUUID : BOOLEAN, restorePVs : BOOLEAN, snapshot : BOOLEAN,
         namespaceMapping : BOOLEAN, class : Class,
         configMaps : 0..2, mapping : Mapping, localMode : BOOLEAN]

\* BOUND: what does not matter for an item has one value.
Plain(item) ==
  /\ item.vmUUID => item.kind = "Pod"
  /\ item.snapshot \/ ~item.restorePVs => item.kind = "PersistentVolumeClaim"
  /\ item.namespaceMapping \/ item.class # "" \/ item.configMaps # 0 \/ item.localMode =>
       item.snapshot /\ item.restorePVs
  /\ item.configMaps = 1 \/ DOMAIN item.mapping = {}

-----------------------------------------------------------------------------
(* Blocked items *)

\* Mutant: an empty selector, which Velero takes for all resources.
AppliesToAll(item, listing) == item.kind \in Kind /\ listing \in Listing

\* AppliesTo: Velero hands over the items of these resources only.
AppliesTo(item, listing) ==
  \/ Resource[item.kind] = "persistentvolumeclaims"
  \/ listing \in {"false", "true"}
  \/ Resource[item.kind] \in ResourcesToBlockOnRestore

\* IsObjectBlocked, which looks for the name it has made up, and the resources
\* that are blocked on restore only.
Blocked(item, listing) ==
  \/ listing = "true" /\ CRDName[item.kind] = Resource[item.kind]
  \/ CRDName[item.kind] \in ResourcesToBlockOnRestore

\* A blocked item: createPod drops annotations of a pod that is a VM and gives
\* back any other pod as it is; the others are skipped or refused.
WhenBlocked(item) ==
  LET crd == CRDName[item.kind] IN
  CASE crd = "pods" -> IF item.vmUUID THEN "trimmed" ELSE "item"
    [] crd # "pods" /\ crd \in ResourcesToBlockOnRestore -> "skipped"
    [] OTHER -> "error"

-----------------------------------------------------------------------------
(* The namespace and the storage class *)

\* UpdateSnapshotWithNewNamespace
TargetNamespace(item) == IF item.namespaceMapping THEN "mapped" ELSE "backedUp"

\* UpdateSnapshotWithNewStorageClass: the class after the mapping, or "error":
\* there is neither a class nor a mapping of the empty one, or the new class
\* does not exist.
UpdateSnapshotWithNewStorageClass(class, mapping) ==
  CASE class \notin DOMAIN mapping -> IF class = "" THEN "error" ELSE class
    [] class \in DOMAIN mapping /\ mapping[class] \in StorageClasses -> mapping[class]
    [] OTHER -> "error"

\* RetrieveStorageClassMapping and its use: with two ConfigMaps there is an
\* error, with none, or an empty one, the class stays.
NewStorageClass(item) ==
  CASE item.configMaps = 2 -> "error"
    [] item.configMaps = 1 /\ DOMAIN item.mapping # {} ->
         UpdateSnapshotWithNewStorageClass(item.class, item.mapping)
    [] OTHER -> item.class

\* ValidateRestoreStorageClass: only a class that exists and binds at once.
ValidateRestoreStorageClass(class) == class \in StorageClasses /\ class # "late"

-----------------------------------------------------------------------------
(* Execute *)

\* The item is no vSphere snapshot that is to be restored: Execute gives back
\* the PVC that it has made of the item, without its health annotations.
\* SkipPVCCreation looks for the PVC in the namespace it is restored to.
HandedBack(item, existing) ==
  ~item.restorePVs \/ ~item.snapshot \/ TargetNamespace(item) \in existing

\* What Execute does with an item: existing are the namespaces that have a PVC
\* of its name.  "create" is the request of a clone.
Execute(item, listing, existing) ==
  CASE Blocked(item, listing) -> WhenBlocked(item)
    [] ~Blocked(item, listing) /\ HandedBack(item, existing) -> "pvc"
    [] OTHER -> IF ValidateRestoreStorageClass(NewStorageClass(item)) THEN "create" ELSE "error"

=============================================================================
