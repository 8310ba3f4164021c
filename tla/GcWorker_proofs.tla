---------------------------- MODULE GcWorker_proofs ----------------------------
(***************************************************************************)
(* Proofs about the garbage collector, for any number of nodes, objects    *)
(* and faults.                                                             *)
(*                                                                         *)
(* What a node has counted as deleted in its cycle is gone from S3, and no *)
(* step brings an object back (DeletedGone): so a report completes only    *)
(* what is gone, however late it is applied.  The positions the collector  *)
(* reports lie among those snapshots were taken at (WalKnown, LimitsOK),   *)
(* and nothing it does changes who serves a volume (Recorded), so each of  *)
(* its steps is a command of the storage state machine or none.            *)
(***************************************************************************)
EXTENDS GcWorker, VolumeSM_proofs

GcTypeOK ==
    /\ pc \in [Nodes -> {"idle", "ssts", "wal", "segments", "report", "orphans", "collect"}]
    /\ batch \in [Nodes -> SUBSET Ssts]
    /\ deleted \in [Nodes -> SUBSET Ssts]
    /\ aged \in [Nodes -> SUBSET Ssts]
    /\ seen \in [Nodes -> SUBSET Ssts]
    /\ walLimit \in [Nodes -> WalPositions \cup {None}]
    /\ segments \subseteq WalPositions

DeletedGone == \A n \in Nodes : deleted[n] \cap objects = {}

\* Live snapshots were taken at known positions, and so is the retained one.
WalKnown ==
    /\ \A s \in Snapshots : Live(s) => snapshots[s].wal \in WalPositions
    /\ minWal \in WalPositions \cup {None}

LimitsOK == \A n \in Nodes : pc[n] \in {"segments", "report"} => walLimit[n] \in WalPositions

GcOK == TypeOK /\ Recorded /\ WalKnown /\ GcTypeOK /\ DeletedGone /\ LimitsOK

-----------------------------------------------------------------------------
(* What the commands do to the retained WAL position and to pending.       *)

\* A nonempty set of naturals below a bound has a maximum: the last of the
\* segments deleted.
LEMMA MaxType ==
  ASSUME NEW S \in SUBSET Nat, S # {}, NEW b \in Nat, \A x \in S : x < b
  PROVE  Max(S) \in S
<1> DEFINE T == {b - x : x \in S}
<1>1. T \in SUBSET Nat /\ T # {}
  <2>1. \A x \in S : b - x \in Nat
    <3> SUFFICES ASSUME NEW x \in S PROVE b - x \in Nat
      OBVIOUS
    <3>1. x \in Nat /\ x < b
      OBVIOUS
    <3> QED
      BY <3>1
  <2> QED
    BY <2>1
<1>2. PICK x \in S : Min(T) = b - x
  BY <1>1, MinType
<1>3. \A y \in S : x >= y
  <2> SUFFICES ASSUME NEW y \in S PROVE x >= y
    OBVIOUS
  <2>1. b - x <= b - y
    BY <1>1, <1>2, MinType
  <2>2. x \in Nat /\ y \in Nat
    OBVIOUS
  <2> HIDE DEF T
  <2> QED
    BY <2>1, <2>2
<1> QED
  BY <1>3 DEF Max

LEMMA RetireWal ==
  ASSUME TypeOK, WalKnown, NEW D \in SUBSET Snapshots, Retire(D)
  PROVE  WalKnown'
<1>1. \A s \in Snapshots : Live(s)' => Live(s) /\ snapshots'[s].wal = snapshots[s].wal
  <2> SUFFICES ASSUME NEW s \in Snapshots, Live(s)'
               PROVE  Live(s) /\ snapshots'[s].wal = snapshots[s].wal
    OBVIOUS
  <2>1. snapshots[s] \in SnapshotRecord
    BY DEF TypeOK
  <2>2. s \notin D
    BY <2>1 DEF Retire, Live, SnapshotRecord
  <2> QED
    BY <2>2 DEF Retire, Live
<1>2. MinWalOf(LiveSnapshots \ D) \in WalPositions \cup {None}
  <2> DEFINE W == {snapshots[s].wal : s \in LiveSnapshots \ D}
  <2>1. W \subseteq WalPositions /\ W \in SUBSET Nat
    BY ConstantsAssumption DEF WalKnown, LiveSnapshots
  <2>2. CASE LiveSnapshots \ D # {}
    <3>1. Min(W) \in W
      <4>1. W # {}
        BY <2>2
      <4> HIDE DEF W
      <4> QED
        BY <2>1, <4>1, MinType
    <3> QED
      BY <2>1, <2>2, <3>1 DEF MinWalOf
  <2> QED
    BY <2>2 DEF MinWalOf
<1> QED
  BY <1>1, <1>2 DEF WalKnown, Retire

LEMMA WalKept ==
  ASSUME WalKnown, UNCHANGED <<snapshots, minWal>>
  PROVE  WalKnown'
  BY DEF WalKnown, Live

LEMMA CreateSnapshotWal ==
  ASSUME TypeOK, WalKnown, NEW s \in Snapshots, NEW v \in Volumes, NEW X \in SUBSET Ssts,
         NEW wal \in WalPositions, CreateSnapshot(s, v, X, wal)
  PROVE  WalKnown'
<1>1. \A r \in Snapshots : Live(r)' => snapshots'[r].wal \in WalPositions
  BY DEF TypeOK, WalKnown, Live, CreateSnapshot
<1>2. CASE minWal = None
  BY <1>1, <1>2 DEF WalKnown, CreateSnapshot
<1>3. CASE minWal # None
  <2>1. {minWal, wal} \in SUBSET Nat /\ {minWal, wal} \subseteq WalPositions
    BY <1>3, ConstantsAssumption DEF WalKnown
  <2>2. Min({minWal, wal}) \in {minWal, wal}
    BY <2>1, MinType
  <2> QED
    BY <1>1, <1>3, <2>1, <2>2 DEF WalKnown, CreateSnapshot
<1> QED
  BY <1>2, <1>3

LEMMA WalStep ==
  ASSUME TypeOK, WalKnown, Next
  PROVE  WalKnown'
<1>1. CASE PlacementStep \/ MigrationStep \/ SettingStep
  BY <1>1, WalKept DEF PlacementStep, PlaceVm, RemoveVm, RescheduleVm, MigrationStep,
     MigrateVolumeToZone, CompleteMigration, RollbackMigration, SettingStep,
     SetStorageQuota, SetStorageConfig
<1>2. CASE VolumeStep
  <2>1. ASSUME NEW v \in Volumes, NEW c \in BOOLEAN, NEW t \in Times, DeleteVolume(v, c, t)
        PROVE  WalKnown'
    <3> DEFINE D == {s \in LiveSnapshots : snapshots[s].source = v}
    <3>1. D \in SUBSET Snapshots
      BY DEF LiveSnapshots
    <3>2. Retire(D) \/ UNCHANGED <<snapshots, minWal>>
      BY <2>1 DEF DeleteVolume
    <3> QED
      BY <3>1, <3>2, RetireWal, WalKept
  <2> QED
    BY ZenonT(60), <1>2, <2>1, WalKept DEF VolumeStep, CreateVolume, PurgeTombstones, VolumeAttach,
       VolumeDetach, RescheduleVolume, ResizeVolume
<1>3. CASE SnapshotStep
  <2>1. ASSUME NEW s \in Snapshots, DeleteSnapshot(s)
        PROVE  WalKnown'
    BY <2>1, RetireWal DEF DeleteSnapshot
  <2> QED
    BY <1>3, <2>1, CreateSnapshotWal, WalKept
       DEF SnapshotStep, RestoreSnapshot, MarkRestoreBegin, MarkRestoreComplete
<1>4. CASE GcStep
  <2>1. ASSUME NEW below \in WalPositions, GcCompleteWalSegments(below)
        PROVE  WalKnown'
    BY <2>1 DEF GcCompleteWalSegments, WalKnown, Live
  <2> QED
    BY <1>4, <2>1, WalKept DEF GcStep, CommitManifest, GcCompleteSsts
<1> QED
  BY <1>1, <1>2, <1>3, <1>4 DEF Next

\* No command but the completion of a collection takes SSTs off the list.
LEMMA PendingGrows == VolumeStep \/ SnapshotStep => pending \subseteq pending'
  BY ZenonT(60) DEF VolumeStep, CreateVolume, DeleteVolume, PurgeTombstones, VolumeAttach,
     VolumeDetach, RescheduleVolume, ResizeVolume, SnapshotStep, CreateSnapshot,
     DeleteSnapshot, RestoreSnapshot, MarkRestoreBegin, MarkRestoreComplete, Retire

-----------------------------------------------------------------------------
(* Every step of the collector is a command of the state machine or none.  *)

LEMMA AssignmentsKept ==
  ASSUME UNCHANGED <<volumes, lives>>
  PROVE  Assignments' = Assignments
  BY DEF Assignments, Desired, VolumesByHypervisor

LEMMA LoopIsStep ==
  ASSUME GcOK, NEW n \in Nodes, Loop(n)
  PROVE  [Next]_vars
<1>1. CASE ReportSsts(n)
  <2>1. CASE GcCompleteSsts(deleted[n]) /\ UNCHANGED assigned
    <3>1. deleted[n] \in SUBSET Ssts
      BY DEF GcOK, GcTypeOK
    <3>2. assigned' = assigned \cup Assignments'
      BY <2>1, AssignmentsKept DEF GcCompleteSsts, GcOK, Recorded
    <3> QED
      BY <2>1, <3>1, <3>2 DEF Next, GcStep
  <2>2. CASE UNCHANGED vars
    BY <2>2
  <2> QED
    BY <1>1, <2>1, <2>2 DEF ReportSsts
<1>2. CASE ReportSegments(n)
  <2>1. CASE GcCompleteWalSegments(walLimit[n]) /\ UNCHANGED assigned
    <3>1. walLimit[n] \in WalPositions
      BY <1>2 DEF ReportSegments, GcOK, LimitsOK
    <3>2. assigned' = assigned \cup Assignments'
      BY <2>1, AssignmentsKept DEF GcCompleteWalSegments, GcOK, Recorded
    <3> QED
      BY <2>1, <3>1, <3>2 DEF Next, GcStep
  <2>2. CASE UNCHANGED vars
    BY <2>2
  <2> QED
    BY <1>2, <2>1, <2>2 DEF ReportSegments
<1>3. ~ReportSsts(n) /\ ~ReportSegments(n) => UNCHANGED vars
  BY DEF Loop, SkipCycle, ScanSsts, DeleteSst, ReadMinWal, DeleteSegments,
     ReadGenerations, CollectOrphans
<1> QED
  BY <1>1, <1>2, <1>3

LEMMA CollectorIsStep ==
  ASSUME GcOK, [GcNext]_gcVars
  PROVE  [Next]_vars
<1>1. CASE Command
  BY <1>1 DEF Command, Next
<1>2. ASSUME NEW n \in Nodes, GracePasses(n) \/ LeadershipChanges(n)
      PROVE  UNCHANGED vars
  BY <1>2 DEF GracePasses, LeadershipChanges
<1>3. CASE UNCHANGED gcVars
  BY <1>3 DEF gcVars
<1> QED
  BY <1>1, <1>2, <1>3, LoopIsStep DEF GcNext

-----------------------------------------------------------------------------
(* The loop's own state.                                                   *)

LoopOK == GcTypeOK /\ DeletedGone /\ LimitsOK

LEMMA LoopKept ==
  ASSUME GcOK, UNCHANGED <<pc, batch, deleted, walLimit, segments, objects>>,
         aged' \in [Nodes -> SUBSET Ssts], seen' \in [Nodes -> SUBSET Ssts]
  PROVE  LoopOK'
  BY DEF GcOK, LoopOK, GcTypeOK, DeletedGone, LimitsOK

LEMMA SstPhase ==
  ASSUME GcOK, NEW n \in Nodes
  PROVE  /\ \A X \in SUBSET Ssts : ScanSsts(n, X) => LoopOK'
         /\ \A x \in Ssts : DeleteSst(n, x) => LoopOK'
         /\ ReportSsts(n) => LoopOK'
<1> pending \subseteq Ssts
  BY DEF GcOK, TypeOK
<1>1. ASSUME NEW X \in SUBSET Ssts, ScanSsts(n, X) PROVE LoopOK'
  <2>1. GcTypeOK'
    BY <1>1 DEF GcOK, GcTypeOK, ScanSsts, UpdateTracking, s3
  <2>2. DeletedGone'
    BY <1>1 DEF GcOK, GcTypeOK, DeletedGone, ScanSsts, s3
  <2>3. LimitsOK'
    BY <1>1 DEF GcOK, GcTypeOK, LimitsOK, ScanSsts
  <2> QED
    BY <2>1, <2>2, <2>3 DEF LoopOK
<1>2. ASSUME NEW x \in Ssts, DeleteSst(n, x) PROVE LoopOK'
  <2>1. GcTypeOK'
    BY <1>2 DEF GcOK, GcTypeOK, DeleteSst
  <2>2. DeletedGone'
    BY <1>2 DEF GcOK, GcTypeOK, DeletedGone, DeleteSst
  <2>3. LimitsOK'
    BY <1>2 DEF GcOK, LimitsOK, DeleteSst
  <2> QED
    BY <2>1, <2>2, <2>3 DEF LoopOK
<1>3. ASSUME ReportSsts(n) PROVE LoopOK'
  BY <1>3 DEF GcOK, LoopOK, GcTypeOK, DeletedGone, LimitsOK, ReportSsts, s3
<1> QED
  BY <1>1, <1>2, <1>3

LEMMA WalPhase ==
  ASSUME GcOK, NEW n \in Nodes
  PROVE  /\ ReadMinWal(n) => LoopOK'
         /\ \A F \in SUBSET segments : DeleteSegments(n, F) => LoopOK'
         /\ ReportSegments(n) => LoopOK'
<1>1. ASSUME ReadMinWal(n) PROVE LoopOK'
  BY <1>1 DEF GcOK, WalKnown, LoopOK, GcTypeOK, DeletedGone, LimitsOK, ReadMinWal, s3
<1>2. ASSUME NEW F \in SUBSET segments, DeleteSegments(n, F) PROVE LoopOK'
  <2> DEFINE gone == Obsolete(n) \ F
  <2>1. walLimit[n] \in WalPositions /\ walLimit[n] \in Nat
    BY <1>2, ConstantsAssumption DEF GcOK, LimitsOK, DeleteSegments
  <2>2. gone \in SUBSET Nat /\ gone \subseteq WalPositions /\ \A p \in gone : p < walLimit[n]
    BY ConstantsAssumption DEF GcOK, GcTypeOK, Obsolete
  <2>3. gone # {} => Max(gone) + 1 \in WalPositions
    <3> HIDE DEF gone
    <3> SUFFICES ASSUME gone # {} PROVE Max(gone) + 1 \in WalPositions
      OBVIOUS
    <3>1. Max(gone) \in gone
      BY <2>1, <2>2, MaxType
    <3> QED
      BY <2>1, <2>2, <3>1, GcAssumption
  <2>4. /\ segments' = segments \ gone
        /\ walLimit' = [walLimit EXCEPT ![n] = IF gone = {} THEN None ELSE Max(gone) + 1]
        /\ pc' = [pc EXCEPT ![n] = IF gone = {} THEN "orphans" ELSE "report"]
        /\ UNCHANGED <<objects, seen, aged, batch, deleted>>
    BY <1>2 DEF DeleteSegments
  <2> HIDE DEF gone
  <2> QED
    BY <2>3, <2>4 DEF GcOK, LoopOK, GcTypeOK, DeletedGone, LimitsOK
<1>3. ASSUME ReportSegments(n) PROVE LoopOK'
  BY <1>3 DEF GcOK, LoopOK, GcTypeOK, DeletedGone, LimitsOK, ReportSegments, s3
<1> QED
  BY <1>1, <1>2, <1>3

LEMMA OrphanPhase ==
  ASSUME GcOK, NEW n \in Nodes
  PROVE  /\ \A F \in SUBSET Volumes : ReadGenerations(n, F) => LoopOK'
         /\ \A F \in SUBSET objects : CollectOrphans(n, F) => LoopOK'
<1>1. ASSUME NEW F \in SUBSET Volumes, ReadGenerations(n, F) PROVE LoopOK'
  <2>1. /\ pc' = [pc EXCEPT ![n] = IF doomed'[n] = {} THEN "idle" ELSE "collect"]
        /\ UNCHANGED <<objects, segments, seen, aged, batch, deleted, walLimit>>
    BY <1>1 DEF ReadGenerations, s3
  <2> QED
    BY <2>1 DEF GcOK, LoopOK, GcTypeOK, DeletedGone, LimitsOK
<1>2. ASSUME NEW F \in SUBSET objects, CollectOrphans(n, F) PROVE LoopOK'
  <2>1. /\ pc' = [pc EXCEPT ![n] = "idle"] /\ objects' \subseteq objects
        /\ UNCHANGED <<segments, seen, aged, batch, deleted, walLimit>>
    BY <1>2 DEF CollectOrphans
  <2> QED
    BY <2>1 DEF GcOK, LoopOK, GcTypeOK, DeletedGone, LimitsOK
<1> QED
  BY <1>1, <1>2

LEMMA LoopKeeps ==
  ASSUME GcOK, [GcNext]_gcVars
  PROVE  LoopOK'
<1>1. ASSUME NEW n \in Nodes, SkipCycle(n) PROVE LoopOK'
  BY <1>1, LoopKept DEF GcOK, GcTypeOK, SkipCycle, s3
<1>2. ASSUME NEW n \in Nodes, Loop(n) PROVE LoopOK'
  BY <1>1, <1>2, SstPhase, WalPhase, OrphanPhase DEF Loop
<1>3. ASSUME NEW n \in Nodes, GracePasses(n) PROVE LoopOK'
  BY <1>3, LoopKept DEF GcOK, GcTypeOK, GracePasses, s3
<1>4. ASSUME NEW n \in Nodes, LeadershipChanges(n) PROVE LoopOK'
  BY <1>4, LoopKept DEF GcOK, GcTypeOK, LeadershipChanges, s3
<1>5. CASE Command
  BY <1>5, LoopKept DEF GcOK, GcTypeOK, Command, s3, gc
<1>6. CASE UNCHANGED gcVars
  BY <1>6, LoopKept DEF GcOK, GcTypeOK, gcVars, s3, gc
<1> QED
  BY <1>2, <1>3, <1>4, <1>5, <1>6 DEF GcNext

-----------------------------------------------------------------------------
(* The invariant and what follows from it.                                 *)

LEMMA GcStart == GcInit => GcOK
<1> SUFFICES ASSUME GcInit PROVE GcOK
  OBVIOUS
<1>1. TypeOK
  BY TypeStart DEF GcInit
<1>2. Recorded
  BY DEF GcInit, Init, Recorded, Assignments, Desired, VolumesByHypervisor, NoVolume
<1>3. WalKnown
  BY DEF GcInit, Init, WalKnown, Live, NoSnapshot
<1>4. GcTypeOK /\ DeletedGone /\ LimitsOK
  BY DEF GcInit, GcTypeOK, DeletedGone, LimitsOK
<1> QED
  BY <1>1, <1>2, <1>3, <1>4 DEF GcOK

LEMMA GcKeeps == GcOK /\ [GcNext]_gcVars => GcOK'
<1> SUFFICES ASSUME GcOK, [GcNext]_gcVars PROVE GcOK'
  OBVIOUS
<1>1. [Next]_vars
  BY CollectorIsStep
<1>2. TypeOK'
  BY <1>1, TypeStep DEF GcOK
<1>3. Recorded'
  <2>1. CASE Next
    BY <2>1 DEF Next, Recorded
  <2>2. CASE UNCHANGED vars
    BY <2>2, AssignmentsKept DEF vars, state, GcOK, Recorded
  <2> QED
    BY <1>1, <2>1, <2>2
<1>4. WalKnown'
  <2>1. CASE UNCHANGED vars
    BY <2>1, WalKept DEF vars, state, GcOK
  <2> QED
    BY <1>1, <2>1, WalStep DEF GcOK
<1> QED
  BY <1>2, <1>3, <1>4, LoopKeeps DEF GcOK, LoopOK

LEMMA GcInvariant == GcSpec => []GcOK
  BY GcStart, GcKeeps, PTL DEF GcSpec

\* An SST leaves pending_gc_ssts only after it is gone from S3, whichever
\* nodes believe to lead, whichever requests fail and however long after the
\* scan the report is applied: for any number of nodes, SSTs and faults
\* (gc.rs run_gc_cycle, state_machine.rs GcCompleteSsts).
THEOREM NothingLeaks == GcSpec => CompletedIsGone
<1>1. GcOK /\ [GcNext]_gcVars =>
        [\A x \in pending : x \notin pending' => x \notin objects']_gcVars
  <2> SUFFICES ASSUME GcOK, GcNext, NEW x \in pending, x \notin pending'
               PROVE  x \notin objects'
    OBVIOUS
  <2>1. ~Command
    BY PendingGrows DEF Command
  <2>2. PICK n \in Nodes : ReportSsts(n)
    BY ZenonT(60), <2>1 DEF GcNext, Loop, SkipCycle, ScanSsts, DeleteSst, ReadMinWal, DeleteSegments,
       ReportSegments, GcCompleteWalSegments, ReadGenerations, CollectOrphans, GracePasses,
       LeadershipChanges, vars, state
  <2>3. x \in deleted[n]
    BY <2>2 DEF ReportSsts, GcCompleteSsts, vars, state
  <2>4. UNCHANGED objects
    BY <2>2 DEF ReportSsts, s3
  <2> QED
    BY <2>3, <2>4 DEF GcOK, DeletedGone
<1> QED
  BY GcInvariant, <1>1, PTL DEF GcSpec, CompletedIsGone

\* The storage state machine with the collector at work is the storage state
\* machine: every step of the loop is a command Raft could have applied, or
\* leaves the replicated state alone.  So all that is proved of Spec, the
\* reference counts and the fencing among it, holds with collection going on.
THEOREM CollectorIsClient == GcSpec => Spec
<1>1. GcInit => Init
  BY DEF GcInit
<1>2. GcOK /\ [GcNext]_gcVars => [Next]_vars
  BY CollectorIsStep
<1> QED
  BY GcInvariant, <1>1, <1>2, PTL DEF GcSpec, Spec

===============================================================================
