---------------------------- MODULE MCStorageNode ----------------------------
(* Small instances of StorageNode for TLC.                                 *)
EXTENDS StorageNode, TLC

\* No hypervisor or VM is compared except for equality.  Not for liveness.
Symmetry == Permutations(Hypervisors) \cup Permutations(VMs)
=============================================================================
