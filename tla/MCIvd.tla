-------------------------------- MODULE MCIvd --------------------------------
(* An instance of IvdVolumes for TLC. *)
EXTENDS IvdVolumes

CONSTANTS n1, n2, n3, h1, h2, h3, ds1, ds2, ds3

\* The VM of one node is not found.  ds1 is attached to as many hosts as run
\* nodes, but not to the same ones; ds2's type is not supported.
MCTopology ==
  [host |-> [n \in Node |-> CASE n = n1 -> h1 [] n = n2 -> h2 [] OTHER -> None],
   attached |-> [ds \in Datastore |->
                   CASE ds = ds1 -> {h1, h3} [] ds = ds2 -> {h1, h2} [] OTHER -> HostSystem],
   type |-> [ds \in Datastore |-> IF ds = ds2 THEN "NFS41" ELSE "VMFS"]]
=============================================================================
