-------------------------- MODULE VolumeSM_refines --------------------------
(***************************************************************************)
(* The storage state machine implements VolumePlacement.  A reconciler     *)
(* sees a volume through desired_volumes, pending_detaches and             *)
(* deleted_volumes only: a volume in migration and a tombstone are nobody's.*)
(***************************************************************************)
EXTENDS VolumeSM

\* What the hypervisors see of a volume record in its given life.
SeenAs(r, life) ==
    LET kind == CASE r.state \in {"Absent", "Deleted"} -> "Gone"
                  [] r.state = "Migrating" -> "Moving"
                  [] r.state = "Attached" -> "Bound"
                  [] OTHER -> IF r.hv = None THEN "Unassigned" ELSE "Idle"
        served == kind \in {"Idle", "Bound"}
    IN  [state |-> kind,
         hv |-> IF served THEN r.hv ELSE None,
         vm |-> IF served THEN r.vm ELSE None,
         gen |-> IF kind = "Gone" THEN 0 ELSE r.gen,
         life |-> life]

PlacementSeen == [v \in Volumes |-> SeenAs(volumes[v], lives[v])]

Seen == INSTANCE VolumePlacement WITH placement <- PlacementSeen

\* Every command of the storage state machine is, to the hypervisors, a step
\* of VolumePlacement or nothing at all: whatever the zones, snapshots,
\* quotas and manifests do, a volume changes hands only under a new
\* generation.
ImplementsPlacement == Seen!PlacementSpec
=============================================================================
