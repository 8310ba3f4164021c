---------------------------- MODULE MCVolumeSM ----------------------------
(* Small instances of VolumeSM for TLC.                                    *)
EXTENDS VolumeSM_refines, TLC

\* Two quotas an operator may set: one volume and one snapshot, or two
\* volumes of together 3 GB and no snapshot.
MCQuotas == {[volumes |-> 1, gb |-> 2, snapshots |-> 1],
             [volumes |-> 2, gb |-> 3, snapshots |-> 0]}

MCNoQuotas == {}

\* No constant of these kinds is compared except for equality.
Symmetry == Permutations(Hypervisors) \cup Permutations(VMs)
            \cup Permutations(Ssts) \cup Permutations(Snapshots)
            \cup Permutations(Zones) \cup Permutations(Volumes)
            \cup Permutations(Names) \cup Permutations(Projects)
=============================================================================
