--------------------------- MODULE VolumePlacement ---------------------------
(***************************************************************************)
(* What the control plane promises the hypervisors about a volume: who     *)
(* serves it, for which VM, and under which placement generation.  This is *)
(* the abstract specification that the storage state machine (VolumeSM)    *)
(* implements and that the storage reconciler (StorageNode) relies on.     *)
(*                                                                         *)
(* A volume is                                                             *)
(*   Gone        not recorded, or a tombstone                              *)
(*   Unassigned  Available without a hypervisor                            *)
(*   Idle        Available on a hypervisor, no VM uses it yet              *)
(*   Bound       Attached to a VM on a hypervisor                          *)
(*   Moving      Migrating: nobody serves it                               *)
(***************************************************************************)
EXTENDS Naturals

CONSTANTS
    Volumes,      \* volume ids
    Hypervisors,  \* hypervisor ids
    VMs,          \* VM ids
    None          \* Option::None

VARIABLE placement  \* the placement of each volume

Placement ==
    [state : {"Gone", "Unassigned", "Idle", "Bound", "Moving"},
     hv : Hypervisors \cup {None}, vm : VMs \cup {None}, gen : Nat, life : Nat]

\* The placement of a volume that has been created `life` times and is gone.
Gone(life) ==
    [state |-> "Gone", hv |-> None, vm |-> None, gen |-> 0, life |-> life]

\* A volume created for a hypervisor starts there at generation 1.
Create(v, h) ==
    /\ placement[v].state = "Gone"
    /\ placement' = [placement EXCEPT ![v] =
                       [state |-> IF h = None THEN "Unassigned" ELSE "Idle",
                        hv |-> h, vm |-> None,
                        gen |-> IF h = None THEN 0 ELSE 1,
                        life |-> placement[v].life + 1]]

\* Mutant: a volume that is bound already keeps its generation.
Grant_SameGeneration(S, m, h) ==
    /\ \A v \in S : placement[v].state \in {"Unassigned", "Idle", "Bound"}
    /\ placement' = [v \in Volumes |->
                       IF v \in S
                       THEN [state |-> "Bound", hv |-> h, vm |-> m,
                             gen |-> IF placement[v].state = "Bound"
                                     THEN placement[v].gen
                                     ELSE placement[v].gen + 1,
                             life |-> placement[v].life]
                       ELSE placement[v]]

\* The volumes of S go to VM m on h, each under its next generation.  A VM
\* that is rescheduled takes all its volumes along in one step.
Grant(S, m, h) ==
    /\ \A v \in S : placement[v].state \in {"Unassigned", "Idle", "Bound"}
    /\ placement' = [v \in Volumes |->
                       IF v \in S
                       THEN [state |-> "Bound", hv |-> h, vm |-> m,
                             gen |-> placement[v].gen + 1,
                             life |-> placement[v].life]
                       ELSE placement[v]]

Release(v) ==
    /\ placement[v].state = "Bound"
    /\ placement' = [placement EXCEPT ![v] =
                       [state |-> "Unassigned", hv |-> None, vm |-> None,
                        gen |-> placement[v].gen, life |-> placement[v].life]]

\* A migration takes the volume away from everyone under a new generation...
BeginMove(v) ==
    /\ placement[v].state \in {"Unassigned", "Idle"}
    /\ placement' = [placement EXCEPT ![v] =
                       [state |-> "Moving", hv |-> None, vm |-> None,
                        gen |-> placement[v].gen + 1,
                        life |-> placement[v].life]]

\* ... and ends, by completion or rollback, with one server or none.
EndMove(v, h, m) ==
    /\ placement[v].state = "Moving"
    /\ h = None => m = None
    /\ placement' = [placement EXCEPT ![v] =
                       [state |-> IF h = None THEN "Unassigned" ELSE "Idle",
                        hv |-> h, vm |-> m, gen |-> placement[v].gen,
                        life |-> placement[v].life]]

Retire(v) ==
    /\ placement[v].state # "Gone"
    /\ placement' = [placement EXCEPT ![v] = Gone(placement[v].life)]

PlacementInit == placement = [v \in Volumes |-> Gone(0)]

PlacementNext ==
    \/ \E v \in Volumes, h \in Hypervisors \cup {None} : Create(v, h)
    \/ \E S \in SUBSET Volumes, m \in VMs, h \in Hypervisors : Grant(S, m, h)
    \/ \E v \in Volumes : Release(v)
    \/ \E v \in Volumes : BeginMove(v)
    \/ \E v \in Volumes, h \in Hypervisors \cup {None},
          m \in VMs \cup {None} : EndMove(v, h, m)
    \/ \E v \in Volumes : Retire(v)

PlacementSpec == PlacementInit /\ [][PlacementNext]_placement

=============================================================================
