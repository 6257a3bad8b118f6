---------------------------- MODULE ClusterConfig -----------------------------
(***************************************************************************)
(* How a server finds out in what kind of cluster it runs and which Secret *)
(* has the vCenter's credentials (pkg/utils).  RetrieveVcConfigSecret, by  *)
(* which the Secret is read, and GetVcConfigSecretFilterFunc, by which it  *)
(* is watched, work that out independently.  A look-up that fails is taken *)
(* for one that found nothing: failed is the set of these look-ups.        *)
(***************************************************************************)
EXTENDS Sequences

\* The look-ups: the flavor in the plugin's ConfigMap, the CSI controller for
\* its flavor and its version, the feature flags, and the names in the ConfigMap.
Lookup == {"config", "csiFlavor", "csiVersion", "feature", "names"}

VCSecret(namespace) == <<namespace, "vsphere-config-secret">>
VCSecretTKG(namespace) == <<namespace, "csi-vsphere-config">>
DefaultSecret == <<"velero", "velero-vsphere-config-secret">>

\* BOUND: the one that the plugin's ConfigMap may name.
NamedSecret == <<"custom", "credentials">>

Secret == {DefaultSecret, NamedSecret} \cup
          UNION {{VCSecret(ns), VCSecretTKG(ns)} : ns \in {"vmware-system-csi", "kube-system"}}

\* What there is in a cluster: the plugin's ConfigMap, its flavor and whether
\* it names a Secret; the flag decouple-vsphere-csi-driver; the CSI controller,
\* its CLUSTER_FLAVOR and version; the Secret with the credentials.
Cluster ==
  [config : {"missing", "", "VANILLA", "SUPERVISOR", "GUEST", "other"}, named : BOOLEAN,
   decouple : {"unset", "true", "false"},
   csi : {"missing", "vmware-system-csi", "kube-system"},
   csiFlavor : {"", "WORKLOAD", "GUEST_CLUSTER", "other"},
   csiVersion : {"v2.2", "v2.3", "dev", "invalid"},
   secret : Secret]

-----------------------------------------------------------------------------
(* The flavor of the cluster *)

\* GetClusterTypeFromConfig and ConvertConfigClusterFlavor
GetClusterTypeFromConfig(c, failed) ==
  IF "config" \notin failed /\ c.config \in {"VANILLA", "SUPERVISOR", "GUEST"}
  THEN c.config ELSE "Unknown"

\* GetCSIClusterType and GetCSIClusterTypeFromEnv
GetCSIClusterType(c, failed) ==
  CASE "csiFlavor" \in failed \/ c.csi = "missing" \/ c.csiFlavor = "other" -> "Unknown"
    [] OTHER -> CASE c.csiFlavor = "WORKLOAD" -> "SUPERVISOR"
                  [] c.csiFlavor = "GUEST_CLUSTER" -> "GUEST"
                  [] c.csiFlavor = "" -> "VANILLA"

\* retrieveClusterFlavor: the first that is known, and VANILLA if none is.
RetrieveClusterFlavor(c, failed) ==
  Head(SelectSeq(<<GetClusterTypeFromConfig(c, failed), GetCSIClusterType(c, failed), "VANILLA">>,
                 LAMBDA flavor : flavor # "Unknown"))

-----------------------------------------------------------------------------
(* The Secret *)

\* IsFeatureEnabled of decouple-vsphere-csi-driver, whose default is true.
Decoupled(c, failed) == "feature" \in failed \/ c.decouple # "false"

\* GetSecretNamespaceAndName
GetSecretNamespaceAndName(c, failed) ==
  IF "names" \notin failed /\ c.config # "missing" /\ c.named
  THEN NamedSecret ELSE DefaultSecret

\* GetCSIInstalledVersion fails.
NoCSIVersion(c, failed) ==
  "csiVersion" \in failed \/ c.csi = "missing" \/ c.csiVersion = "invalid"

\* The namespace of the Secret that comes with the CSI driver: a version that
\* is not known is an old one, and a developer's version as old as its place.
CSINamespace(c, failed) ==
  IF /\ ~NoCSIVersion(c, failed)
     /\ c.csiVersion = "v2.3" \/ (c.csiVersion = "dev" /\ c.csi = "vmware-system-csi")
  THEN "vmware-system-csi" ELSE "kube-system"

\* Mutant: the CSI driver's Secret of a supervisor is looked for as in a
\* vanilla cluster.
WatchedSecretVanilla(c, failed) ==
  IF Decoupled(c, failed) THEN GetSecretNamespaceAndName(c, failed)
  ELSE VCSecret(CSINamespace(c, failed))

\* GetVcConfigSecretFilterFunc: the Secret that is watched; none in a guest.
WatchedSecret(c, failed) ==
  LET flavor == RetrieveClusterFlavor(c, failed) IN
  CASE flavor = "GUEST" -> <<"", "">>
    [] flavor = "SUPERVISOR" -> VCSecret("vmware-system-csi")
    [] OTHER -> IF Decoupled(c, failed) THEN GetSecretNamespaceAndName(c, failed)
                ELSE VCSecret(CSINamespace(c, failed))

\* RetrieveVcConfigSecret: the Secrets it tries to read, in this order; the one
\* of TKG after the driver's own.
ReadSecrets(c, failed) ==
  LET flavor == RetrieveClusterFlavor(c, failed)
      ofCSI(ns) == <<VCSecret(ns), VCSecretTKG(ns)>>
  IN CASE flavor = "GUEST" -> <<>>
       [] flavor = "SUPERVISOR" -> ofCSI("vmware-system-csi")
       [] OTHER ->
            CASE Decoupled(c, failed) -> <<GetSecretNamespaceAndName(c, failed)>>
              [] ~Decoupled(c, failed) /\ NoCSIVersion(c, failed) -> <<>>
              [] OTHER -> ofCSI(CSINamespace(c, failed))

\* RetrieveVcConfigSecret finds the credentials.
SecretIsRead(c, failed) ==
  \E i \in DOMAIN ReadSecrets(c, failed) : ReadSecrets(c, failed)[i] = c.secret

=============================================================================
