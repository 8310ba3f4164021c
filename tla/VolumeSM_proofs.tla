-------------------------- MODULE VolumeSM_proofs --------------------------
(***************************************************************************)
(* Theorems about VolumeSM, for every set of volumes, hypervisors, VMs,    *)
(* snapshots, SSTs, zones and quotas: type correctness, one writer per     *)
(* generation, fenced manifests, the balance of the SST counters,          *)
(* consistent placements, unique names, snapshots kept for a restore, and  *)
(* the refinement of VolumePlacement.                                      *)
(***************************************************************************)
EXTENDS VolumeSM_refines, FiniteSetTheorems, WellFoundedInduction, TLAPS

-----------------------------------------------------------------------------
(* Facts about the operators.                                              *)

LEMMA NoMigrationType == NoMigration \in MigrationRecord
  BY DEF NoMigration, MigrationRecord

LEMMA NoVolumeType == NoVolume \in VolumeRecord
  BY NoMigrationType DEF NoVolume, VolumeRecord

LEMMA NewVolumeType ==
  ASSUME NEW n \in Names, NEW p \in Projects \cup {None},
         NEW t \in Types \cup {None}, NEW size \in Nat,
         NEW h \in Hypervisors \cup {None}, NEW z \in Zones \cup {None}
  PROVE  NewVolume(n, p, t, size, h, z) \in VolumeRecord
<1>1. NoMigration \in MigrationRecord
  BY NoMigrationType
<1>2. (IF h = None THEN 0 ELSE 1) \in Nat
  OBVIOUS
<1> QED
  BY <1>1, <1>2 DEF VolumeRecord, NewVolume

\* What the commands that place a volume write into its record.
LEMMA MovedVolumeType ==
  ASSUME NEW r \in VolumeRecord,
         NEW st \in {"Available", "Attached", "Migrating", "Deleted"},
         NEW m \in VMs \cup {None}, NEW h \in Hypervisors \cup {None},
         NEW g \in Nat, NEW mig \in MigrationRecord
  PROVE  /\ [r EXCEPT !.state = st, !.vm = m, !.hv = h] \in VolumeRecord
         /\ [r EXCEPT !.state = st, !.vm = m, !.hv = h, !.gen = g] \in VolumeRecord
         /\ [r EXCEPT !.state = st, !.vm = m, !.hv = h, !.gen = g,
                      !.migration = mig] \in VolumeRecord
<1> DEFINE r1 == [r EXCEPT !.state = st, !.vm = m, !.hv = h]
           r2 == [r1 EXCEPT !.gen = g]
<1>1. r1 \in VolumeRecord
  BY ZenonT(60) DEF VolumeRecord
<1>2. r2 \in VolumeRecord
  <2> HIDE DEF r1
  <2> QED
    BY <1>1 DEF VolumeRecord
<1>3. [r2 EXCEPT !.migration = mig] \in VolumeRecord
  <2> HIDE DEF r2
  <2> QED
    BY <1>2 DEF VolumeRecord
<1> QED
  BY <1>1, <1>2, <1>3

LEMMA DeletedVolumeType ==
  ASSUME NEW r \in VolumeRecord, NEW t \in Times
  PROVE  [r EXCEPT !.state = "Deleted", !.vm = None, !.hv = None,
                   !.deleted_at = t] \in VolumeRecord
<1> DEFINE r1 == [r EXCEPT !.state = "Deleted", !.vm = None, !.hv = None]
<1>1. r1 \in VolumeRecord
  BY DEF VolumeRecord
<1>2. [r1 EXCEPT !.deleted_at = t] \in VolumeRecord
  <2> HIDE DEF r1
  <2> QED
    BY <1>1 DEF VolumeRecord
<1> QED
  BY <1>2

\* The counters of Retire stay natural numbers.
LEMMA MonusType ==
  ASSUME NEW a \in Nat, NEW b \in Nat
  PROVE  Monus(a, b) \in Nat
  BY DEF Monus

\* A nonempty set of naturals has a minimum: min_wal_position of Retire.
LEMMA MinType ==
  ASSUME NEW S \in SUBSET Nat, S # {}
  PROVE  Min(S) \in S /\ \A y \in S : Min(S) <= y
<1> DEFINE Below(x) == {y \in S : y <= x}
           T == {Below(x) : x \in S}
<1>1. T \subseteq FiniteSubsetsOf(Nat)
  <2> SUFFICES ASSUME NEW x \in S
               PROVE  Below(x) \in FiniteSubsetsOf(Nat)
    OBVIOUS
  <2>1. Below(x) \in SUBSET (0..x)
    <3> SUFFICES ASSUME NEW y \in S, y <= x
                 PROVE  y \in 0..x
      OBVIOUS
    <3> x \in Nat /\ y \in Nat
      OBVIOUS
    <3> QED
      OBVIOUS
  <2>2. IsFiniteSet(0..x)
    BY FS_Interval
  <2> QED
    BY <2>1, <2>2, FS_Subset DEF FiniteSubsetsOf
<1>2. T # {}
  OBVIOUS
<1>3. PICK B \in T : \A C \in T : ~ (<<C, B>> \in StrictSubsetOrdering(Nat))
  <2>1. IsWellFoundedOn(StrictSubsetOrdering(Nat), FiniteSubsetsOf(Nat))
    BY FS_StrictSubsetOrderingWellFounded
  <2> HIDE DEF T
  <2> QED
    BY <1>1, <1>2, <2>1, WFMin
<1>4. PICK x \in S : B = Below(x)
  OBVIOUS
<1>5. \A y \in S : x <= y
  <2> SUFFICES ASSUME NEW y \in S, y < x
               PROVE  FALSE
    OBVIOUS
  <2>1. Below(y) \subseteq Below(x) /\ x \in Below(x) /\ x \notin Below(y)
    <3>1. x \in Nat /\ y \in Nat /\ \A z \in S : z \in Nat
      OBVIOUS
    <3>2. \A z \in S : z <= y => z <= x
      BY <3>1
    <3>3. x <= x /\ ~(x <= y)
      BY <3>1
    <3> QED
      BY <3>2, <3>3
  <2>2. <<Below(y), Below(x)>> \in StrictSubsetOrdering(Nat)
    BY <2>1 DEF StrictSubsetOrdering
  <2> QED
    BY <1>3, <1>4, <2>2
<1> QED
  BY <1>5 DEF Min

LEMMA HoldingFinite ==
  ASSUME NEW x, NEW D \in SUBSET Snapshots
  PROVE  /\ IsFiniteSet(Holding(x, D))
         /\ Cardinality(Holding(x, D)) \in Nat
<1>1. Holding(x, D) \in SUBSET Snapshots
  BY DEF Holding
<1> QED
  BY <1>1, ConstantsAssumption, FS_Subset, FS_CardinalityType

LEMMA MinWalType ==
  ASSUME TypeOK, NEW D \in SUBSET Snapshots
  PROVE  MinWalOf(D) \in Nat \cup {None}
<1> DEFINE W == {snapshots[s].wal : s \in D}
<1>1. W \in SUBSET Nat /\ (D # {} => W # {})
  BY DEF TypeOK, SnapshotRecord
<1>2. D # {} => Min(W) \in Nat
  <2> HIDE DEF W
  <2> QED
    BY <1>1, MinType
<1> QED
  BY <1>2 DEF MinWalOf

LEMMA RetireType ==
  ASSUME TypeOK, NEW D \in SUBSET Snapshots, Retire(D)
  PROVE  /\ snapshots' \in [Snapshots -> SnapshotRecord]
         /\ refs' \in [Ssts -> Nat]
         /\ pending' \subseteq Ssts
         /\ minWal' \in Nat \cup {None}
<1>1. snapshots' \in [Snapshots -> SnapshotRecord]
  <2> SUFFICES ASSUME NEW s \in Snapshots
               PROVE  snapshots'[s] \in SnapshotRecord
    BY DEF Retire
  <2> snapshots[s] \in SnapshotRecord
    BY DEF TypeOK
  <2>1. [snapshots[s] EXCEPT !.state = "Deleted"] \in SnapshotRecord
    BY DEF SnapshotRecord
  <2> QED
    BY <2>1 DEF Retire
<1>2. refs' \in [Ssts -> Nat]
  BY HoldingFinite, MonusType DEF TypeOK, Retire
<1>3. pending' \subseteq Ssts
  BY DEF TypeOK, Retire
<1>4. minWal' \in Nat \cup {None}
  <2>1. LiveSnapshots \ D \in SUBSET Snapshots
    BY DEF LiveSnapshots
  <2> QED
    BY <2>1, MinWalType DEF Retire
<1> QED
  BY <1>1, <1>2, <1>3, <1>4

-----------------------------------------------------------------------------
(* Type correctness.                                                       *)

\* Everything TypeOK says but the history of assignments, which Next adds to
\* after any command.
StateTypeOK ==
    /\ volumes \in [Volumes -> VolumeRecord]
    /\ snapshots \in [Snapshots -> SnapshotRecord]
    /\ refs \in [Ssts -> Nat]
    /\ pending \subseteq Ssts
    /\ restores \subseteq Snapshots
    /\ minWal \in Nat \cup {None}
    /\ manifests \in [Volumes -> ManifestPointerRecord]
    /\ quotas \in [Projects \cup {Org} -> Quotas \cup {None}]
    /\ configs \subseteq Zones
    /\ placements \in [VMs -> PlacementRecord]
    /\ lives \in [Volumes -> Nat]
    /\ restored \subseteq [vol : Volumes, life : Nat, ssts : SUBSET Ssts]

LEMMA PlacementStepType ==
  ASSUME TypeOK, PlacementStep
  PROVE  StateTypeOK'
<1>1. CASE \E m \in VMs, h \in Hypervisors, g \in VmGenerations : PlaceVm(m, h, g)
  BY <1>1, ConstantsAssumption DEF TypeOK, StateTypeOK, PlaceVm, PlacementRecord
<1>2. CASE \E m \in VMs : RemoveVm(m)
  BY <1>2 DEF TypeOK, StateTypeOK, RemoveVm, PlacementRecord, NoPlacement
<1>3. ASSUME NEW m \in VMs, NEW from \in Hypervisors, NEW to \in Hypervisors,
             NEW g \in VmGenerations, RescheduleVm(m, from, to, g)
      PROVE  StateTypeOK'
  <2>1. volumes' \in [Volumes -> VolumeRecord]
    <3> SUFFICES ASSUME NEW v \in Volumes
                 PROVE  volumes'[v] \in VolumeRecord
      BY <1>3 DEF RescheduleVm
    <3> volumes[v] \in VolumeRecord
      BY DEF TypeOK
    <3> volumes[v].gen + 1 \in Nat
      BY DEF VolumeRecord
    <3>1. [volumes[v] EXCEPT !.hv = to, !.gen = @ + 1] \in VolumeRecord
      BY DEF VolumeRecord
    <3> QED
      BY <1>3, <3>1 DEF RescheduleVm
  <2>2. placements' \in [VMs -> PlacementRecord]
    BY <1>3, ConstantsAssumption DEF TypeOK, RescheduleVm, PlacementRecord
  <2> QED
    BY <1>3, <2>1, <2>2 DEF TypeOK, StateTypeOK, RescheduleVm
<1> QED
  BY <1>1, <1>2, <1>3 DEF PlacementStep

LEMMA VolumeStepType ==
  ASSUME TypeOK, VolumeStep
  PROVE  StateTypeOK'
<1>1. ASSUME NEW v \in Volumes, NEW n \in Names, NEW p \in Projects,
             NEW t \in Types, NEW size \in Sizes,
             NEW h \in Hypervisors \cup {None}, NEW z \in Zones \cup {None},
             CreateVolume(v, n, p, t, size, h, z)
      PROVE  StateTypeOK'
  <2>1. volumes' \in [Volumes -> VolumeRecord]
    <3> volumes[v] \in VolumeRecord
      BY DEF TypeOK
    <3>1. NewVolume(n, p, t, size, h, z) \in VolumeRecord
      BY NewVolumeType, ConstantsAssumption
    <3> QED
      BY <1>1, <3>1 DEF TypeOK, CreateVolume
  <2> QED
    BY <1>1, <2>1 DEF TypeOK, StateTypeOK, CreateVolume
<1>2. ASSUME NEW v \in Volumes, NEW c \in BOOLEAN, NEW t \in Times,
             DeleteVolume(v, c, t)
      PROVE  StateTypeOK'
  <2> DEFINE D == {s \in LiveSnapshots : snapshots[s].source = v}
  <2>1. D \in SUBSET Snapshots
    BY DEF LiveSnapshots
  <2>2. volumes' \in [Volumes -> VolumeRecord]
    <3> volumes[v] \in VolumeRecord
      BY DEF TypeOK
    <3>1. [volumes[v] EXCEPT !.state = "Deleted", !.vm = None,
                             !.hv = None, !.deleted_at = t] \in VolumeRecord
      BY DeletedVolumeType
    <3> QED
      BY <1>2, <3>1 DEF TypeOK, DeleteVolume
  <2>3. /\ snapshots' \in [Snapshots -> SnapshotRecord]
        /\ refs' \in [Ssts -> Nat]
        /\ pending' \subseteq Ssts
        /\ minWal' \in Nat \cup {None}
    <3>1. CASE c
      <4>1. Retire(D)
        BY <1>2, <3>1 DEF DeleteVolume
      <4> HIDE DEF D
      <4> QED
        BY <2>1, <4>1, RetireType
    <3>2. CASE ~c
      BY <1>2, <3>2 DEF DeleteVolume, TypeOK
    <3> QED
      BY <3>1, <3>2
  <2> QED
    BY <1>2, <2>2, <2>3 DEF TypeOK, StateTypeOK, DeleteVolume
<1>3. ASSUME NEW now \in Times, NEW age \in Times, PurgeTombstones(now, age)
      PROVE  StateTypeOK'
  <2>1. volumes' \in [Volumes -> VolumeRecord]
    BY <1>3, NoVolumeType DEF TypeOK, PurgeTombstones
  <2> QED
    BY <1>3, <2>1 DEF TypeOK, StateTypeOK, PurgeTombstones
<1>4. ASSUME NEW v \in Volumes, NEW m \in VMs, NEW h \in Hypervisors,
             VolumeAttach(v, m, h)
      PROVE  StateTypeOK'
  <2>1. volumes' \in [Volumes -> VolumeRecord]
    <3> volumes[v] \in VolumeRecord
      BY DEF TypeOK
    <3> volumes[v].gen + 1 \in Nat
      BY DEF VolumeRecord
    <3>1. [volumes[v] EXCEPT !.state = "Attached", !.vm = m, !.hv = h,
                             !.gen = volumes[v].gen + 1] \in VolumeRecord
      BY NoMigrationType, MovedVolumeType
    <3> QED
      BY <1>4, <3>1 DEF TypeOK, VolumeAttach
  <2> QED
    BY <1>4, <2>1 DEF TypeOK, StateTypeOK, VolumeAttach
<1>5. ASSUME NEW v \in Volumes, VolumeDetach(v)
      PROVE  StateTypeOK'
  <2>1. volumes' \in [Volumes -> VolumeRecord]
    <3> volumes[v] \in VolumeRecord
      BY DEF TypeOK
    <3>1. volumes'[v] \in VolumeRecord
      BY <1>5 DEF TypeOK, VolumeDetach, VolumeRecord
    <3> QED
      BY <1>5, <3>1 DEF TypeOK, VolumeDetach
  <2>2. manifests' \in [Volumes -> ManifestPointerRecord]
    BY <1>5 DEF TypeOK, VolumeDetach, ManifestPointerRecord, NoManifest
  <2> QED
    BY <1>5, <2>1, <2>2 DEF TypeOK, StateTypeOK, VolumeDetach
<1>6. ASSUME NEW v \in Volumes, NEW from \in Hypervisors, NEW to \in Hypervisors,
             NEW m \in VMs, RescheduleVolume(v, from, to, m)
      PROVE  StateTypeOK'
  <2>1. volumes' \in [Volumes -> VolumeRecord]
    <3> volumes[v] \in VolumeRecord
      BY DEF TypeOK
    <3> volumes[v].gen + 1 \in Nat
      BY DEF VolumeRecord
    <3>1. [volumes[v] EXCEPT !.hv = to, !.vm = m,
                             !.gen = volumes[v].gen + 1] \in VolumeRecord
      BY DEF VolumeRecord
    <3> QED
      BY <1>6, <3>1 DEF TypeOK, RescheduleVolume
  <2> QED
    BY <1>6, <2>1 DEF TypeOK, StateTypeOK, RescheduleVolume
<1>7. ASSUME NEW v \in Volumes, NEW size \in Sizes, ResizeVolume(v, size)
      PROVE  StateTypeOK'
  <2>1. volumes' \in [Volumes -> VolumeRecord]
    <3> volumes[v] \in VolumeRecord
      BY DEF TypeOK
    <3>1. [volumes[v] EXCEPT !.size = size] \in VolumeRecord
      BY ConstantsAssumption DEF VolumeRecord
    <3> QED
      BY <1>7, <3>1 DEF TypeOK, ResizeVolume
  <2> QED
    BY <1>7, <2>1 DEF TypeOK, StateTypeOK, ResizeVolume
<1> QED
  BY <1>1, <1>2, <1>3, <1>4, <1>5, <1>6, <1>7 DEF VolumeStep

LEMMA MigrationStepType ==
  ASSUME TypeOK, MigrationStep
  PROVE  StateTypeOK'
<1>1. ASSUME NEW v \in Volumes, NEW source \in Zones, NEW target \in Zones,
             NEW h \in Hypervisors, NEW m \in VMs \cup {None},
             MigrateVolumeToZone(v, source, target, h, m)
      PROVE  StateTypeOK'
  <2>1. volumes' \in [Volumes -> VolumeRecord]
    <3> volumes[v] \in VolumeRecord
      BY DEF TypeOK
    <3> volumes[v].gen + 1 \in Nat
      BY DEF VolumeRecord
    <3> DEFINE mig == [source_zone |-> source, target_zone |-> target,
                       pre_hv |-> volumes[v].hv, pre_vm |-> volumes[v].vm]
    <3>2. mig \in MigrationRecord
      BY DEF VolumeRecord, MigrationRecord
    <3>1. [volumes[v] EXCEPT !.state = "Migrating", !.vm = m, !.hv = h,
                             !.gen = volumes[v].gen + 1, !.migration = mig] \in VolumeRecord
      <4> HIDE DEF mig
      <4> QED
        BY ZenonT(60), <3>2, MovedVolumeType
    <3> QED
      BY <1>1, <3>1 DEF TypeOK, MigrateVolumeToZone
  <2> QED
    BY <1>1, <2>1 DEF TypeOK, StateTypeOK, MigrateVolumeToZone
<1>2. ASSUME NEW v \in Volumes, CompleteMigration(v)
      PROVE  StateTypeOK'
  <2>1. volumes' \in [Volumes -> VolumeRecord]
    <3> volumes[v] \in VolumeRecord
      BY DEF TypeOK
    <3>1. [volumes[v] EXCEPT !.state = "Available", !.migration = NoMigration] \in VolumeRecord
      BY NoMigrationType DEF VolumeRecord
    <3> QED
      BY <1>2, <3>1 DEF TypeOK, CompleteMigration
  <2> QED
    BY <1>2, <2>1 DEF TypeOK, StateTypeOK, CompleteMigration
<1>3. ASSUME NEW v \in Volumes, RollbackMigration(v)
      PROVE  StateTypeOK'
  <2>1. volumes' \in [Volumes -> VolumeRecord]
    <3> volumes[v] \in VolumeRecord
      BY DEF TypeOK
    <3>2. /\ volumes[v].migration.pre_vm \in VMs \cup {None}
          /\ volumes[v].migration.pre_hv \in Hypervisors \cup {None}
      BY DEF VolumeRecord, MigrationRecord
    <3>1. [volumes[v] EXCEPT !.state = "Available",
              !.vm = volumes[v].migration.pre_vm,
              !.hv = volumes[v].migration.pre_hv,
              !.migration = NoMigration] \in VolumeRecord
      BY <3>2, NoMigrationType DEF VolumeRecord
    <3> QED
      BY <1>3, <3>1 DEF TypeOK, RollbackMigration
  <2> QED
    BY <1>3, <2>1 DEF TypeOK, StateTypeOK, RollbackMigration
<1> QED
  BY <1>1, <1>2, <1>3 DEF MigrationStep

LEMMA SnapshotStepType ==
  ASSUME TypeOK, SnapshotStep
  PROVE  StateTypeOK'
<1>1. ASSUME NEW s \in Snapshots, NEW v \in Volumes, NEW X \in SUBSET Ssts,
             NEW wal \in WalPositions, CreateSnapshot(s, v, X, wal)
      PROVE  StateTypeOK'
  <2> volumes[v] \in VolumeRecord
    BY DEF TypeOK
  <2>1. snapshots' \in [Snapshots -> SnapshotRecord]
    BY <1>1, ConstantsAssumption
       DEF TypeOK, CreateSnapshot, VolumeRecord, SnapshotRecord
  <2>2. refs' \in [Ssts -> Nat]
    BY <1>1 DEF TypeOK, CreateSnapshot, AddRefs
  <2>3. minWal' \in Nat \cup {None}
    <3>1. CASE minWal = None
      BY <1>1, <3>1, ConstantsAssumption DEF CreateSnapshot
    <3>2. CASE minWal # None
      <4>1. {minWal, wal} \in SUBSET Nat
        BY <3>2, ConstantsAssumption DEF TypeOK
      <4> QED
        BY <1>1, <3>2, <4>1, MinType DEF CreateSnapshot
    <3> QED
      BY <3>1, <3>2
  <2> QED
    BY <1>1, <2>1, <2>2, <2>3 DEF TypeOK, StateTypeOK, CreateSnapshot
<1>2. ASSUME NEW s \in Snapshots, DeleteSnapshot(s)
      PROVE  StateTypeOK'
  <2>1. /\ snapshots' \in [Snapshots -> SnapshotRecord]
        /\ refs' \in [Ssts -> Nat]
        /\ pending' \subseteq Ssts
        /\ minWal' \in Nat \cup {None}
    <3>1. {s} \in SUBSET Snapshots /\ Retire({s})
      BY <1>2 DEF DeleteSnapshot
    <3> QED
      BY <3>1, RetireType
  <2> QED
    BY <1>2, <2>1 DEF TypeOK, StateTypeOK, DeleteSnapshot
<1>3. ASSUME NEW s \in Snapshots, NEW v \in Volumes, NEW n \in Names,
             RestoreSnapshot(s, v, n)
      PROVE  StateTypeOK'
  <2> snapshots[s] \in SnapshotRecord /\ lives[v] + 1 \in Nat
    BY DEF TypeOK
  <2>1. volumes' \in [Volumes -> VolumeRecord]
    <3> volumes[v] \in VolumeRecord
      BY DEF TypeOK
    <3>1. NewVolume(n, snapshots[s].project, snapshots[s].type,
                    snapshots[s].size, None, None) \in VolumeRecord
      BY NewVolumeType DEF SnapshotRecord
    <3> QED
      BY <1>3, <3>1 DEF TypeOK, RestoreSnapshot
  <2>2. refs' \in [Ssts -> Nat]
    BY <1>3 DEF TypeOK, RestoreSnapshot, AddRefs
  <2>3. manifests' \in [Volumes -> ManifestPointerRecord]
    BY <1>3 DEF TypeOK, RestoreSnapshot, ManifestPointerRecord
  <2>4. restored' \subseteq [vol : Volumes, life : Nat, ssts : SUBSET Ssts]
    BY <1>3 DEF TypeOK, RestoreSnapshot, SnapshotRecord
  <2> QED
    BY <1>3, <2>1, <2>2, <2>3, <2>4 DEF TypeOK, StateTypeOK, RestoreSnapshot
<1>4. CASE \E s \in Snapshots : MarkRestoreBegin(s)
  BY <1>4 DEF TypeOK, StateTypeOK, MarkRestoreBegin
<1>5. CASE \E s \in Snapshots : MarkRestoreComplete(s)
  BY <1>5 DEF TypeOK, StateTypeOK, MarkRestoreComplete
<1> QED
  BY <1>1, <1>2, <1>3, <1>4, <1>5 DEF SnapshotStep

LEMMA GcStepType ==
  ASSUME TypeOK, GcStep
  PROVE  StateTypeOK'
<1>1. ASSUME NEW v \in Volumes, NEW g \in 0..MaxGeneration,
             NEW n \in 1..MaxVersion, NEW h \in Hypervisors,
             CommitManifest(v, g, n, h)
      PROVE  StateTypeOK'
  <2> g \in Nat /\ n \in Nat
    BY ConstantsAssumption
  <2>1. manifests' \in [Volumes -> ManifestPointerRecord]
    BY <1>1 DEF TypeOK, CommitManifest, ManifestPointerRecord
  <2> QED
    BY <1>1, <2>1 DEF TypeOK, StateTypeOK, CommitManifest
<1>2. CASE \E X \in SUBSET Ssts : GcCompleteSsts(X)
  BY <1>2 DEF TypeOK, StateTypeOK, GcCompleteSsts
<1>3. CASE \E below \in WalPositions : GcCompleteWalSegments(below)
  BY <1>3, ConstantsAssumption DEF TypeOK, StateTypeOK, GcCompleteWalSegments
<1> QED
  BY <1>1, <1>2, <1>3 DEF GcStep

LEMMA SettingStepType ==
  ASSUME TypeOK, SettingStep
  PROVE  StateTypeOK'
<1>1. CASE \E q \in Projects \cup {Org}, limit \in Quotas : SetStorageQuota(q, limit)
  BY <1>1 DEF TypeOK, StateTypeOK, SetStorageQuota
<1>2. CASE \E z \in Zones : SetStorageConfig(z)
  BY <1>2 DEF TypeOK, StateTypeOK, SetStorageConfig
<1> QED
  BY <1>1, <1>2 DEF SettingStep

LEMMA TypeStep == TypeOK /\ [Next]_vars => TypeOK'
<1> SUFFICES ASSUME TypeOK, [Next]_vars
             PROVE  TypeOK'
  OBVIOUS
<1>1. CASE Next
  <2>1. StateTypeOK'
    BY <1>1, PlacementStepType, VolumeStepType, MigrationStepType,
       SnapshotStepType, GcStepType, SettingStepType DEF Next
  <2>2. Assignments' \subseteq [vol : Volumes, life : Nat, gen : Nat, hv : Hypervisors]
    BY <2>1 DEF StateTypeOK, Assignments, Desired, VolumesByHypervisor, VolumeRecord
  <2> QED
    BY <1>1, <2>1, <2>2 DEF Next, TypeOK, StateTypeOK
<1>2. CASE UNCHANGED vars
  BY <1>2 DEF TypeOK, vars, state
<1> QED
  BY <1>1, <1>2

LEMMA TypeStart == Init => TypeOK
  BY NoVolumeType
     DEF Init, TypeOK, SnapshotRecord, NoSnapshot, ManifestPointerRecord,
         NoManifest, PlacementRecord, NoPlacement

\* Type correctness of the replicated storage state under every command.
THEOREM TypeCorrect == Spec => []TypeOK
  BY TypeStart, TypeStep, PTL DEF Spec


-----------------------------------------------------------------------------
(* Writers.  A command does one of six things to a volume; what it does    *)
(* decides whether a new assignment can appear and under which generation. *)

Born(v) ==
    /\ ~Present(v)
    /\ lives'[v] = lives[v] + 1

Bumped(v) ==
    /\ Present(v) /\ lives'[v] = lives[v]
    /\ volumes'[v].gen > volumes[v].gen

Kept(v) ==
    /\ Present(v) /\ lives'[v] = lives[v]
    /\ volumes'[v].gen = volumes[v].gen
    /\ volumes'[v].hv = volumes[v].hv
    /\ volumes'[v].state = volumes[v].state

Dropped(v) ==
    /\ Present(v) /\ lives'[v] = lives[v]
    /\ volumes'[v].gen = volumes[v].gen
    /\ volumes'[v].hv = None
    /\ volumes'[v].state # "Migrating"

Settled(v) ==
    /\ volumes[v].state = "Migrating" /\ lives'[v] = lives[v]
    /\ volumes'[v].gen = volumes[v].gen
    /\ volumes'[v].state = "Available"

Gone(v) ==
    /\ volumes'[v].state = "Absent"
    /\ lives'[v] = lives[v]

Moves(v) == \/ Born(v) \/ Bumped(v) \/ Kept(v) \/ Dropped(v) \/ Settled(v) \/ Gone(v)

LEMMA StillMoves ==
  ASSUME TypeOK, NEW v \in Volumes,
         volumes'[v] = volumes[v], lives'[v] = lives[v]
  PROVE  Moves(v)
  BY DEF Moves, Kept, Gone, Present

\* Every command treats every volume in one of the six ways.
LEMMA StepMoves ==
  ASSUME TypeOK, Next, NEW v \in Volumes
  PROVE  Moves(v)
<1> volumes[v] \in VolumeRecord /\ lives[v] \in Nat
  BY DEF TypeOK
<1> volumes[v].gen \in Nat
  BY DEF VolumeRecord
<1>1. CASE PlacementStep
  <2>1. CASE \E m \in VMs, h \in Hypervisors, g \in VmGenerations : PlaceVm(m, h, g)
    BY <2>1, StillMoves DEF PlaceVm
  <2>2. CASE \E m \in VMs : RemoveVm(m)
    BY <2>2, StillMoves DEF RemoveVm
  <2>3. ASSUME NEW m \in VMs, NEW from \in Hypervisors, NEW to \in Hypervisors,
               NEW g \in VmGenerations, RescheduleVm(m, from, to, g)
        PROVE  Moves(v)
    <3>1. CASE v \in VolumesOf(m, from)
      <4>1. /\ volumes'[v].gen = volumes[v].gen + 1
            /\ lives'[v] = lives[v]
        BY <2>3, <3>1 DEF RescheduleVm, VolumeRecord
      <4> QED
        BY <3>1, <4>1 DEF Moves, Bumped, Present, VolumesOf
    <3>2. CASE v \notin VolumesOf(m, from)
      BY <2>3, <3>2, StillMoves DEF RescheduleVm
    <3> QED
      BY <3>1, <3>2
  <2> QED
    BY <1>1, <2>1, <2>2, <2>3 DEF PlacementStep
<1>2. CASE VolumeStep
  <2>1. ASSUME NEW u \in Volumes, NEW n \in Names, NEW p \in Projects,
               NEW t \in Types, NEW size \in Sizes,
               NEW h \in Hypervisors \cup {None}, NEW z \in Zones \cup {None},
               CreateVolume(u, n, p, t, size, h, z)
        PROVE  Moves(v)
    <3>1. CASE u = v
      BY <2>1, <3>1 DEF TypeOK, CreateVolume, Moves, Born
    <3>2. CASE u # v
      BY <2>1, <3>2, StillMoves DEF TypeOK, CreateVolume
    <3> QED
      BY <3>1, <3>2
  <2>2. ASSUME NEW u \in Volumes, NEW c \in BOOLEAN, NEW t \in Times,
               DeleteVolume(u, c, t)
        PROVE  Moves(v)
    <3>1. CASE u = v
      <4>1. volumes'[v] = [volumes[v] EXCEPT !.state = "Deleted", !.vm = None,
                                             !.hv = None, !.deleted_at = t]
        BY <2>2, <3>1 DEF TypeOK, DeleteVolume
      <4>2. /\ volumes'[v].gen = volumes[v].gen
            /\ volumes'[v].hv = None
            /\ volumes'[v].state = "Deleted"
        BY <4>1 DEF VolumeRecord
      <4>3. Present(v) /\ lives'[v] = lives[v]
        BY <2>2, <3>1 DEF DeleteVolume, Present
      <4> QED
        BY <4>2, <4>3 DEF Moves, Dropped
    <3>2. CASE u # v
      BY <2>2, <3>2, StillMoves DEF TypeOK, DeleteVolume
    <3> QED
      BY <3>1, <3>2
  <2>3. ASSUME NEW now \in Times, NEW age \in Times, PurgeTombstones(now, age)
        PROVE  Moves(v)
    <3>1. CASE Expired(v, now, age)
      BY <2>3, <3>1 DEF PurgeTombstones, NoVolume, Moves, Gone
    <3>2. CASE ~Expired(v, now, age)
      BY <2>3, <3>2, StillMoves DEF PurgeTombstones
    <3> QED
      BY <3>1, <3>2
  <2>4. ASSUME NEW u \in Volumes, NEW m \in VMs, NEW h \in Hypervisors,
               VolumeAttach(u, m, h)
        PROVE  Moves(v)
    <3>1. CASE u = v
      <4>1. volumes'[v].gen = volumes[v].gen + 1
        BY <2>4, <3>1 DEF TypeOK, VolumeAttach, VolumeRecord
      <4> QED
        BY <2>4, <3>1, <4>1 DEF VolumeAttach, Moves, Bumped, Present
    <3>2. CASE u # v
      BY <2>4, <3>2, StillMoves DEF TypeOK, VolumeAttach
    <3> QED
      BY <3>1, <3>2
  <2>5. ASSUME NEW u \in Volumes, VolumeDetach(u)
        PROVE  Moves(v)
    <3>1. CASE u = v
      <4>1. /\ volumes'[v].gen = volumes[v].gen
            /\ volumes'[v].hv = None
            /\ volumes'[v].state = "Available"
        BY <2>5, <3>1 DEF TypeOK, VolumeDetach, VolumeRecord
      <4> QED
        BY <2>5, <3>1, <4>1 DEF VolumeDetach, Moves, Dropped, Present
    <3>2. CASE u # v
      BY <2>5, <3>2, StillMoves DEF TypeOK, VolumeDetach
    <3> QED
      BY <3>1, <3>2
  <2>6. ASSUME NEW u \in Volumes, NEW from \in Hypervisors, NEW to \in Hypervisors,
               NEW m \in VMs, RescheduleVolume(u, from, to, m)
        PROVE  Moves(v)
    <3>1. CASE u = v
      <4>1. volumes'[v].gen = volumes[v].gen + 1
        BY <2>6, <3>1 DEF TypeOK, RescheduleVolume, VolumeRecord
      <4> QED
        BY <2>6, <3>1, <4>1 DEF RescheduleVolume, Moves, Bumped, Present
    <3>2. CASE u # v
      BY <2>6, <3>2, StillMoves DEF TypeOK, RescheduleVolume
    <3> QED
      BY <3>1, <3>2
  <2>7. ASSUME NEW u \in Volumes, NEW size \in Sizes, ResizeVolume(u, size)
        PROVE  Moves(v)
    <3>1. CASE u = v
      <4>1. /\ volumes'[v].gen = volumes[v].gen
            /\ volumes'[v].hv = volumes[v].hv
            /\ volumes'[v].state = volumes[v].state
        BY <2>7, <3>1 DEF TypeOK, ResizeVolume, VolumeRecord
      <4> QED
        BY <2>7, <3>1, <4>1 DEF ResizeVolume, Moves, Kept, Gone, Present
    <3>2. CASE u # v
      BY <2>7, <3>2, StillMoves DEF TypeOK, ResizeVolume
    <3> QED
      BY <3>1, <3>2
  <2> QED
    BY <1>2, <2>1, <2>2, <2>3, <2>4, <2>5, <2>6, <2>7 DEF VolumeStep
<1>3. CASE MigrationStep
  <2>1. ASSUME NEW u \in Volumes, NEW source \in Zones, NEW target \in Zones,
               NEW h \in Hypervisors, NEW m \in VMs \cup {None},
               MigrateVolumeToZone(u, source, target, h, m)
        PROVE  Moves(v)
    <3>1. CASE u = v
      <4> DEFINE mig == [source_zone |-> source, target_zone |-> target,
                         pre_hv |-> volumes[v].hv, pre_vm |-> volumes[v].vm]
      <4>1. volumes'[v] = [volumes[v] EXCEPT !.state = "Migrating", !.vm = m,
                             !.hv = h, !.gen = volumes[v].gen + 1,
                             !.migration = mig]
        BY <2>1, <3>1 DEF TypeOK, MigrateVolumeToZone
      <4>2. volumes'[v].gen = volumes[v].gen + 1
        <5> HIDE DEF mig
        <5> QED
          BY <4>1 DEF VolumeRecord
      <4>3. Present(v) /\ lives'[v] = lives[v]
        BY <2>1, <3>1 DEF MigrateVolumeToZone, Present
      <4> QED
        BY <4>2, <4>3 DEF Moves, Bumped
    <3>2. CASE u # v
      BY <2>1, <3>2, StillMoves DEF TypeOK, MigrateVolumeToZone
    <3> QED
      BY <3>1, <3>2
  <2>2. ASSUME NEW u \in Volumes, CompleteMigration(u)
        PROVE  Moves(v)
    <3>1. CASE u = v
      <4>1. /\ volumes'[v].gen = volumes[v].gen
            /\ volumes'[v].state = "Available"
        BY <2>2, <3>1 DEF TypeOK, CompleteMigration, VolumeRecord
      <4> QED
        BY <2>2, <3>1, <4>1 DEF CompleteMigration, Moves, Settled
    <3>2. CASE u # v
      BY <2>2, <3>2, StillMoves DEF TypeOK, CompleteMigration
    <3> QED
      BY <3>1, <3>2
  <2>3. ASSUME NEW u \in Volumes, RollbackMigration(u)
        PROVE  Moves(v)
    <3>1. CASE u = v
      <4>1. /\ volumes'[v].gen = volumes[v].gen
            /\ volumes'[v].state = "Available"
        BY <2>3, <3>1 DEF TypeOK, RollbackMigration, VolumeRecord
      <4> QED
        BY <2>3, <3>1, <4>1 DEF RollbackMigration, Moves, Settled
    <3>2. CASE u # v
      BY <2>3, <3>2, StillMoves DEF TypeOK, RollbackMigration
    <3> QED
      BY <3>1, <3>2
  <2> QED
    BY <1>3, <2>1, <2>2, <2>3 DEF MigrationStep
<1>4. CASE SnapshotStep
  <2>1. ASSUME NEW s \in Snapshots, NEW u \in Volumes, NEW n \in Names,
               RestoreSnapshot(s, u, n)
        PROVE  Moves(v)
    <3>1. CASE u = v
      BY <2>1, <3>1 DEF TypeOK, RestoreSnapshot, Moves, Born
    <3>2. CASE u # v
      BY <2>1, <3>2, StillMoves DEF TypeOK, RestoreSnapshot
    <3> QED
      BY <3>1, <3>2
  <2> QED
    BY <1>4, <2>1, StillMoves
       DEF SnapshotStep, CreateSnapshot, DeleteSnapshot, MarkRestoreBegin,
           MarkRestoreComplete
<1>5. CASE GcStep
  BY <1>5, StillMoves
     DEF GcStep, CommitManifest, GcCompleteSsts, GcCompleteWalSegments
<1>6. CASE SettingStep
  BY <1>6, StillMoves DEF SettingStep, SetStorageQuota, SetStorageConfig
<1> QED
  BY <1>1, <1>2, <1>3, <1>4, <1>5, <1>6 DEF Next


\* No assignment is ahead of its volume's life or generation.
NotAhead ==
    \A a \in assigned :
        /\ a.life <= lives[a.vol]
        /\ a.life = lives[a.vol] /\ Present(a.vol) => a.gen <= volumes[a.vol].gen

\* Whoever is asked to serve a volume now is on record.
Recorded == Assignments \subseteq assigned

\* While the current generation has a recorded writer the volume is not
\* migrating, and it is with that writer or with nobody.
CurrentWriter ==
    \A a \in assigned :
        /\ a.life = lives[a.vol] /\ Present(a.vol)
        /\ a.gen = volumes[a.vol].gen
        => /\ volumes[a.vol].state # "Migrating"
           /\ volumes[a.vol].hv \in {None, a.hv}

Writers == NotAhead /\ Recorded /\ CurrentWriter /\ OneWriterPerGeneration

LEMMA AssignmentMember ==
  ASSUME NEW v \in Volumes, NEW h \in Hypervisors,
         volumes[v].hv = h, volumes[v].state \in {"Available", "Attached"}
  PROVE  [vol |-> v, life |-> lives[v], gen |-> volumes[v].gen, hv |-> h]
           \in Assignments
  BY DEF Assignments, Desired, VolumesByHypervisor

\* What a step adds to the history, in terms of the state it leads to.
LEMMA NewAssignments ==
  ASSUME TypeOK', Next, NEW a \in assigned' \ assigned
  PROVE  /\ a \in [vol : Volumes, life : Nat, gen : Nat, hv : Hypervisors]
         /\ a.life = lives'[a.vol]
         /\ a.gen = volumes'[a.vol].gen
         /\ a.hv = volumes'[a.vol].hv
         /\ volumes'[a.vol].state \in {"Available", "Attached"}
<1>1. a \in Assignments'
  BY DEF Next
<1>2. PICK h \in Hypervisors, v \in Volumes :
         /\ v \in (Desired(h))'
         /\ a = [vol |-> v, life |-> lives'[v], gen |-> volumes'[v].gen, hv |-> h]
  BY <1>1 DEF Assignments, Desired, VolumesByHypervisor
<1>3. volumes'[v].hv = h /\ volumes'[v].state \in {"Available", "Attached"}
  BY <1>2 DEF Desired, VolumesByHypervisor
<1>4. lives'[v] \in Nat /\ volumes'[v].gen \in Nat
  BY <1>3 DEF TypeOK, VolumeRecord
<1> QED
  BY <1>2, <1>3, <1>4

\* An assignment a step adds is newer than every earlier one of that life.
LEMMA StepNewer ==
  ASSUME TypeOK, TypeOK', Writers, Next,
         NEW a \in assigned' \ assigned, NEW b \in assigned,
         a.vol = b.vol, a.life = b.life
  PROVE  a.gen > b.gen
<1> DEFINE v == a.vol
<1>1. /\ v \in Volumes
      /\ a = [vol |-> v, life |-> lives'[v], gen |-> volumes'[v].gen,
              hv |-> volumes'[v].hv]
      /\ a.hv \in Hypervisors
      /\ volumes'[v].state \in {"Available", "Attached"}
  BY NewAssignments
<1>2. /\ b.gen \in Nat /\ b.life \in Nat
      /\ lives[v] \in Nat /\ volumes[v].gen \in Nat /\ volumes'[v].gen \in Nat
  BY <1>1 DEF TypeOK, VolumeRecord
<1>3. b.life <= lives[v] /\ (b.life = lives[v] /\ Present(v) => b.gen <= volumes[v].gen)
  BY DEF Writers, NotAhead
<1>4. Moves(v)
  BY <1>1, StepMoves
<1>5. ~Born(v)
  BY <1>1, <1>2, <1>3 DEF Born
<1>6. CASE Bumped(v)
  BY <1>1, <1>2, <1>3, <1>6 DEF Bumped
<1>7. ~Kept(v)
  <2> SUFFICES ASSUME Kept(v)
               PROVE  FALSE
    OBVIOUS
  <2>1. /\ volumes[v].hv \in Hypervisors /\ volumes[v].hv = a.hv
        /\ volumes[v].state \in {"Available", "Attached"}
        /\ a = [vol |-> v, life |-> lives[v], gen |-> volumes[v].gen,
                hv |-> volumes[v].hv]
    BY <1>1 DEF Kept
  <2>2. a \in Assignments
    BY <1>1, <2>1, AssignmentMember
  <2> QED
    BY <2>2 DEF Writers, Recorded
<1>8. ~Dropped(v)
  BY <1>1, ConstantsAssumption DEF Dropped
<1>9. CASE Settled(v)
  <2>1. b.life = lives[v] /\ Present(v) /\ b.gen # volumes[v].gen
    BY <1>1, <1>9 DEF Settled, Present, Writers, CurrentWriter
  <2> QED
    BY <1>1, <1>2, <1>3, <1>9, <2>1 DEF Settled
<1>10. ~Gone(v)
  BY <1>1 DEF Gone
<1> QED
  BY <1>4, <1>5, <1>6, <1>7, <1>8, <1>9, <1>10 DEF Moves

LEMMA WritersStep ==
  ASSUME TypeOK, TypeOK', Writers, Next
  PROVE  Writers'
<1>1. ASSUME NEW a \in assigned
      PROVE  /\ a.vol \in Volumes /\ a.life \in Nat /\ a.gen \in Nat
             /\ lives[a.vol] \in Nat /\ lives'[a.vol] \in Nat
             /\ volumes[a.vol].gen \in Nat /\ volumes'[a.vol].gen \in Nat
             /\ Moves(a.vol)
             /\ a.life <= lives[a.vol]
             /\ a.life = lives[a.vol] /\ Present(a.vol) => a.gen <= volumes[a.vol].gen
  <2>1. a.vol \in Volumes /\ a.life \in Nat /\ a.gen \in Nat
    BY DEF TypeOK
  <2>2. /\ lives[a.vol] \in Nat /\ lives'[a.vol] \in Nat
        /\ volumes[a.vol].gen \in Nat /\ volumes'[a.vol].gen \in Nat
    BY <2>1 DEF TypeOK, VolumeRecord
  <2> QED
    BY <2>1, <2>2, StepMoves DEF Writers, NotAhead
<1>2. NotAhead'
  <2> SUFFICES ASSUME NEW a \in assigned'
               PROVE  /\ a.life <= lives'[a.vol]
                      /\ a.life = lives'[a.vol] /\ (Present(a.vol))' =>
                            a.gen <= volumes'[a.vol].gen
    BY DEF NotAhead
  <2>1. CASE a \in assigned
    BY <1>1, <2>1
       DEF Moves, Born, Bumped, Kept, Dropped, Settled, Gone, Present
  <2>2. CASE a \notin assigned
    BY <2>2, NewAssignments
  <2> QED
    BY <2>1, <2>2
<1>3. Recorded'
  BY DEF Recorded, Next
<1>4. CurrentWriter'
  <2> SUFFICES ASSUME NEW a \in assigned',
                      a.life = lives'[a.vol], (Present(a.vol))',
                      a.gen = volumes'[a.vol].gen
               PROVE  /\ volumes'[a.vol].state # "Migrating"
                      /\ volumes'[a.vol].hv \in {None, a.hv}
    BY DEF CurrentWriter
  <2>1. CASE a \in assigned
    <3>1. ~Born(a.vol) /\ ~Bumped(a.vol) /\ ~Gone(a.vol)
      BY <1>1, <2>1 DEF Born, Bumped, Gone, Present
    <3>2. lives'[a.vol] = lives[a.vol] /\ volumes'[a.vol].gen = volumes[a.vol].gen
      BY <1>1, <2>1, <3>1 DEF Moves, Kept, Dropped, Settled
    <3>3. Present(a.vol)
      BY <1>1, <2>1, <3>1 DEF Moves, Kept, Dropped, Settled, Present
    <3>4. volumes[a.vol].state # "Migrating" /\ volumes[a.vol].hv \in {None, a.hv}
      BY <2>1, <3>2, <3>3 DEF Writers, CurrentWriter
    <3> QED
      BY <1>1, <2>1, <3>1, <3>4 DEF Moves, Kept, Dropped, Settled
  <2>2. CASE a \notin assigned
    BY <2>2, NewAssignments
  <2> QED
    BY <2>1, <2>2
<1>5. OneWriterPerGeneration'
  <2> SUFFICES ASSUME NEW a \in assigned', NEW b \in assigned',
                      a.vol = b.vol, a.life = b.life, a.gen = b.gen
               PROVE  a.hv = b.hv
    BY DEF OneWriterPerGeneration
  <2>1. CASE a \in assigned /\ b \in assigned
    BY <2>1 DEF Writers, OneWriterPerGeneration
  <2>2. CASE a \notin assigned /\ b \notin assigned
    BY <2>2, NewAssignments
  <2>3. CASE a \in assigned /\ b \notin assigned
    BY <1>1, <2>3, StepNewer
  <2>4. CASE a \notin assigned /\ b \in assigned
    BY <1>1, <2>4, StepNewer
  <2> QED
    BY <2>1, <2>2, <2>3, <2>4
<1> QED
  BY <1>2, <1>3, <1>4, <1>5 DEF Writers

LEMMA WritersInvariant == Spec => []Writers
<1>1. Init => Writers
  BY DEF Init, Writers, NotAhead, Recorded, CurrentWriter,
         OneWriterPerGeneration, Assignments, Desired, VolumesByHypervisor,
         NoVolume
<1>2. TypeOK /\ TypeOK' /\ Writers /\ [Next]_vars => Writers'
  <2> SUFFICES ASSUME TypeOK, TypeOK', Writers, [Next]_vars
               PROVE  Writers'
    OBVIOUS
  <2>1. CASE Next
    BY <2>1, WritersStep
  <2>2. CASE UNCHANGED vars
    BY <2>2 DEF vars, state, Writers, NotAhead, Recorded, CurrentWriter,
       OneWriterPerGeneration, Assignments, Desired, VolumesByHypervisor, Present
  <2> QED
    BY <2>1, <2>2
<1> QED
  BY <1>1, <1>2, TypeCorrect, PTL DEF Spec

\* No two hypervisors are ever asked to serve the same generation of the same
\* life of a volume, for any number of volumes, hypervisors, VMs and zones.
THEOREM OneWriter == Spec => []OneWriterPerGeneration
<1>1. Writers => OneWriterPerGeneration
  BY DEF Writers
<1> QED
  BY <1>1, WritersInvariant, PTL

\* A hypervisor that becomes the writer gets a generation above all earlier
\* ones of that life of the volume.
THEOREM NewerAssignee == Spec => NewAssigneeIsNewer
<1>1. TypeOK /\ TypeOK' /\ Writers /\ [Next]_vars =>
        [\A a \in assigned' \ assigned, b \in assigned :
            a.vol = b.vol /\ a.life = b.life => a.gen > b.gen]_vars
  BY StepNewer
<1> QED
  BY <1>1, TypeCorrect, WritersInvariant, PTL DEF Spec, NewAssigneeIsNewer


-----------------------------------------------------------------------------
(* Manifests.                                                              *)

ManifestKept(v) == manifests'[v] = manifests[v]

ManifestCleared(v) == manifests'[v] = NoManifest

ManifestSeeded(v) ==
    /\ manifests'[v].gen = 0 /\ manifests'[v].by = None
    /\ manifests'[v].life = lives'[v]

ManifestCommitted(v) ==
    /\ volumes[v].state = "Attached" /\ volumes[v].hv \in Hypervisors
    /\ manifests'[v].gen = volumes[v].gen /\ manifests'[v].by = volumes[v].hv
    /\ manifests'[v].life = lives[v]
    /\ volumes'[v] = volumes[v] /\ lives'[v] = lives[v]

\* What one command does to a manifest pointer.
LEMMA StepManifests ==
  ASSUME TypeOK, Next, NEW v \in Volumes
  PROVE  ManifestKept(v) \/ ManifestCleared(v) \/ ManifestSeeded(v) \/ ManifestCommitted(v)
<1> manifests[v] \in ManifestPointerRecord /\ lives[v] \in Nat
  BY DEF TypeOK
<1>1. CASE PlacementStep \/ MigrationStep \/ SettingStep
  BY <1>1 DEF PlacementStep, PlaceVm, RemoveVm, RescheduleVm, MigrationStep,
     MigrateVolumeToZone, CompleteMigration, RollbackMigration, SettingStep,
     SetStorageQuota, SetStorageConfig, ManifestKept
<1>2. CASE VolumeStep
  <2>1. ASSUME NEW u \in Volumes, VolumeDetach(u)
        PROVE  ManifestKept(v) \/ ManifestCleared(v)
    BY <2>1 DEF TypeOK, VolumeDetach, ManifestKept, ManifestCleared
  <2> QED
    BY ZenonT(60), <1>2, <2>1 DEF VolumeStep, CreateVolume, DeleteVolume, PurgeTombstones,
       VolumeAttach, RescheduleVolume, ResizeVolume, ManifestKept
<1>3. CASE SnapshotStep
  <2>1. ASSUME NEW s \in Snapshots, NEW u \in Volumes, NEW n \in Names,
               RestoreSnapshot(s, u, n)
        PROVE  ManifestKept(v) \/ ManifestSeeded(v)
    BY <2>1 DEF TypeOK, RestoreSnapshot, ManifestKept, ManifestSeeded
  <2> QED
    BY <1>3, <2>1 DEF SnapshotStep, CreateSnapshot, DeleteSnapshot,
       MarkRestoreBegin, MarkRestoreComplete, ManifestKept
<1>4. CASE GcStep
  <2>1. ASSUME NEW u \in Volumes, NEW g \in 0..MaxGeneration,
               NEW n \in 1..MaxVersion, NEW h \in Hypervisors,
               CommitManifest(u, g, n, h)
        PROVE  ManifestKept(v) \/ ManifestCommitted(v)
    BY <2>1 DEF TypeOK, CommitManifest, ManifestKept, ManifestCommitted
  <2> QED
    BY <1>4, <2>1 DEF GcStep, GcCompleteSsts, GcCompleteWalSegments, ManifestKept
<1> QED
  BY <1>1, <1>2, <1>3, <1>4 DEF Next

Fenced == (\A v \in Volumes : manifests[v].life <= lives[v]) /\ ManifestFenced

LEMMA FencedStep ==
  ASSUME TypeOK, TypeOK', Writers, Fenced, Next
  PROVE  Fenced'
<1> SUFFICES ASSUME NEW v \in Volumes
             PROVE  /\ manifests'[v].life <= lives'[v]
                    /\ manifests'[v].version > 0 /\ (Present(v))' /\ manifests'[v].life = lives'[v]
                       => /\ manifests'[v].gen <= volumes'[v].gen
                          /\ manifests'[v].by # None =>
                               [vol |-> v, life |-> manifests'[v].life,
                                gen |-> manifests'[v].gen, hv |-> manifests'[v].by]
                                 \in assigned'
  BY DEF Fenced, ManifestFenced
<1>1. /\ lives[v] \in Nat /\ lives'[v] \in Nat
      /\ volumes[v].gen \in Nat /\ volumes'[v].gen \in Nat
      /\ manifests[v].gen \in Nat /\ manifests[v].life \in Nat
  BY DEF TypeOK, VolumeRecord, ManifestPointerRecord
<1>2. /\ manifests[v].life <= lives[v]
      /\ manifests[v].version > 0 /\ Present(v) /\ manifests[v].life = lives[v]
         => /\ manifests[v].gen <= volumes[v].gen
            /\ manifests[v].by # None =>
                 [vol |-> v, life |-> manifests[v].life,
                  gen |-> manifests[v].gen, hv |-> manifests[v].by] \in assigned
  BY DEF Fenced, ManifestFenced
<1>3. Moves(v)
  BY StepMoves
<1>4. assigned \subseteq assigned'
  BY DEF Next
<1>5. CASE ManifestKept(v)
  <2>1. CASE Born(v)
    BY <1>1, <1>2, <1>5, <2>1 DEF Born, ManifestKept
  <2>2. CASE ~Born(v)
    <3>1. lives'[v] = lives[v]
      BY <1>3, <2>2 DEF Moves, Bumped, Kept, Dropped, Settled, Gone
    <3>2. (Present(v))' => Present(v) /\ volumes[v].gen <= volumes'[v].gen
      BY <1>1, <1>3, <2>2
         DEF Moves, Bumped, Kept, Dropped, Settled, Gone, Present
    <3> QED
      BY <1>1, <1>2, <1>4, <1>5, <3>1, <3>2 DEF ManifestKept
  <2> QED
    BY <2>1, <2>2
<1>6. CASE ManifestCleared(v)
  BY <1>1, <1>6 DEF ManifestCleared, NoManifest
<1>7. CASE ManifestSeeded(v)
  BY <1>1, <1>7 DEF ManifestSeeded
<1>8. CASE ManifestCommitted(v)
  <2>1. [vol |-> v, life |-> lives[v], gen |-> volumes[v].gen, hv |-> volumes[v].hv]
          \in assigned
    BY <1>8, AssignmentMember DEF ManifestCommitted, Writers, Recorded
  <2> QED
    BY <1>1, <1>4, <1>8, <2>1 DEF ManifestCommitted
<1> QED
  BY <1>5, <1>6, <1>7, <1>8, StepManifests

\* The committed manifest pointer never overtakes the volume's generation, and
\* its publisher had been assigned the generation it published for.
THEOREM ManifestsFenced == Spec => []ManifestFenced
<1>1. Init => Fenced
  BY DEF Init, Fenced, ManifestFenced, NoManifest
<1>2. TypeOK /\ TypeOK' /\ Writers /\ Fenced /\ [Next]_vars => Fenced'
  <2> SUFFICES ASSUME TypeOK, TypeOK', Writers, Fenced, [Next]_vars
               PROVE  Fenced'
    OBVIOUS
  <2>1. CASE Next
    BY <2>1, FencedStep
  <2>2. CASE UNCHANGED vars
    BY <2>2 DEF vars, state, Fenced, ManifestFenced, Present
  <2> QED
    BY <2>1, <2>2
<1>3. Fenced => ManifestFenced
  BY DEF Fenced
<1> QED
  BY <1>1, <1>2, <1>3, TypeCorrect, WritersInvariant, PTL DEF Spec


-----------------------------------------------------------------------------
(* SST reference counts.                                                   *)

\* The restores are finitely many, one per life of a volume.
RestoresBounded ==
    /\ IsFiniteSet(restored)
    /\ \A r \in restored : r.life <= lives[r.vol]

Counted == RefcountExact /\ RestoresBounded

\* The live snapshots that list x, and the restores that took it.
LEMMA CountsFinite ==
  ASSUME RestoresBounded, NEW x
  PROVE  /\ IsFiniteSet(Holding(x, LiveSnapshots))
         /\ Cardinality(Holding(x, LiveSnapshots)) \in Nat
         /\ IsFiniteSet(RestoreRefs(x))
         /\ Cardinality(RestoreRefs(x)) \in Nat
<1>1. LiveSnapshots \in SUBSET Snapshots
  BY DEF LiveSnapshots
<1>2. RestoreRefs(x) \in SUBSET restored
  BY DEF RestoreRefs
<1> QED
  BY <1>1, <1>2, HoldingFinite, FS_Subset, FS_CardinalityType DEF RestoresBounded

\* Retiring live snapshots lowers each counter by the snapshots that held it.
LEMMA RetireCounts ==
  ASSUME TypeOK, Counted, NEW D \in SUBSET LiveSnapshots, Retire(D),
         restored' = restored, NEW x \in Ssts
  PROVE  refs'[x] = Cardinality((Holding(x, LiveSnapshots))')
                    + Cardinality((RestoreRefs(x))')
<1>1. (LiveSnapshots)' = LiveSnapshots \ D
  <2> SUFFICES ASSUME NEW s \in Snapshots
               PROVE  snapshots'[s].state = "Available" <=>
                        snapshots[s].state = "Available" /\ s \notin D
    BY DEF LiveSnapshots, Live
  <2>1. CASE s \in D
    BY <2>1 DEF Retire, TypeOK, SnapshotRecord
  <2>2. CASE s \notin D
    BY <2>2 DEF Retire
  <2> QED
    BY <2>1, <2>2
<1>2. \A s \in Snapshots : snapshots'[s].ssts = snapshots[s].ssts
  BY DEF Retire, TypeOK, SnapshotRecord
<1> DEFINE H == Holding(x, LiveSnapshots)
           K == Holding(x, D)
           R == RestoreRefs(x)
<1>3. (Holding(x, LiveSnapshots))' = H \ K /\ H \cap K = K
  BY <1>1, <1>2 DEF Holding, LiveSnapshots
<1>4. (RestoreRefs(x))' = R
  BY DEF RestoreRefs
<1>5. /\ IsFiniteSet(H) /\ Cardinality(H) \in Nat /\ Cardinality(R) \in Nat
  BY CountsFinite DEF Counted
<1>6. /\ IsFiniteSet(H \ K) /\ Cardinality(H \ K) \in Nat
      /\ Cardinality(H \ K) = Cardinality(H) - Cardinality(K)
      /\ Cardinality(K) \in Nat
  <2>1. D \in SUBSET Snapshots
    BY DEF LiveSnapshots
  <2>2. Cardinality(K) \in Nat
    BY <2>1, HoldingFinite
  <2> HIDE DEF H, K
  <2> QED
    BY <1>3, <1>5, <2>2, FS_Difference, FS_CardinalityType
<1>7. refs[x] = Cardinality(H) + Cardinality(R)
  BY DEF Counted, RefcountExact
<1>8. refs'[x] = Monus(refs[x], Cardinality(K))
  BY DEF Retire
<1> HIDE DEF H, K, R
<1>9. Monus(refs[x], Cardinality(K)) = Cardinality(H \ K) + Cardinality(R)
  BY <1>5, <1>6, <1>7 DEF Monus
<1> QED
  BY <1>3, <1>4, <1>8, <1>9

LEMMA CountsKept ==
  ASSUME Counted, UNCHANGED <<snapshots, refs, restored>>
  PROVE  RefcountExact'
  BY DEF Counted, RefcountExact, Holding, LiveSnapshots, Live, RestoreRefs

\* Every command keeps the counters exact.
LEMMA RefcountStep ==
  ASSUME TypeOK, Counted, Next
  PROVE  RefcountExact'
<1>1. CASE PlacementStep
  BY <1>1, CountsKept DEF PlacementStep, PlaceVm, RemoveVm, RescheduleVm
<1>2. CASE MigrationStep
  BY <1>2, CountsKept DEF MigrationStep, MigrateVolumeToZone,
     CompleteMigration, RollbackMigration
<1>3. CASE GcStep \/ SettingStep
  BY <1>3, CountsKept DEF GcStep, CommitManifest, GcCompleteSsts,
     GcCompleteWalSegments, SettingStep, SetStorageQuota, SetStorageConfig
<1>4. CASE VolumeStep
  <2>1. ASSUME NEW v \in Volumes, NEW c \in BOOLEAN, NEW t \in Times,
               DeleteVolume(v, c, t)
        PROVE  RefcountExact'
    <3> DEFINE D == {s \in LiveSnapshots : snapshots[s].source = v}
    <3>1. CASE c
      <4>1. D \in SUBSET LiveSnapshots /\ Retire(D) /\ restored' = restored
        BY <2>1, <3>1 DEF DeleteVolume
      <4> HIDE DEF D
      <4>2. \A x \in Ssts : refs'[x] = Cardinality((Holding(x, LiveSnapshots))')
                                       + Cardinality((RestoreRefs(x))')
        BY <4>1, RetireCounts
      <4> QED
        BY <4>2 DEF RefcountExact
    <3>2. CASE ~c
      BY <2>1, <3>2, CountsKept DEF DeleteVolume
    <3> QED
      BY <3>1, <3>2
  <2> QED
    BY ZenonT(60), <1>4, <2>1, CountsKept DEF VolumeStep, CreateVolume, PurgeTombstones,
       VolumeAttach, VolumeDetach, RescheduleVolume, ResizeVolume
<1>5. CASE SnapshotStep
  <2>1. ASSUME NEW s \in Snapshots, NEW v \in Volumes, NEW X \in SUBSET Ssts,
               NEW wal \in WalPositions, CreateSnapshot(s, v, X, wal)
        PROVE  RefcountExact'
    <3> SUFFICES ASSUME NEW x \in Ssts
                 PROVE  refs'[x] = Cardinality((Holding(x, LiveSnapshots))')
                                   + Cardinality((RestoreRefs(x))')
      BY DEF RefcountExact
    <3> DEFINE H == Holding(x, LiveSnapshots)
               R == RestoreRefs(x)
    <3>1. (LiveSnapshots)' = LiveSnapshots \cup {s} /\ s \notin LiveSnapshots
      BY <2>1 DEF CreateSnapshot, LiveSnapshots, Live, TypeOK
    <3>2. /\ snapshots'[s].ssts = X
          /\ \A t \in Snapshots : t # s => snapshots'[t].ssts = snapshots[t].ssts
      BY <2>1 DEF CreateSnapshot, TypeOK
    <3>3. (Holding(x, LiveSnapshots))' = IF x \in X THEN H \cup {s} ELSE H
      BY <3>1, <3>2 DEF Holding, LiveSnapshots
    <3>4. s \notin H
      BY <3>1 DEF Holding
    <3>5. (RestoreRefs(x))' = R
      BY <2>1 DEF CreateSnapshot, RestoreRefs
    <3>6. IsFiniteSet(H) /\ Cardinality(H) \in Nat /\ Cardinality(R) \in Nat
      BY CountsFinite DEF Counted
    <3>7. refs[x] = Cardinality(H) + Cardinality(R)
      BY DEF Counted, RefcountExact
    <3>8. refs'[x] = IF x \in X THEN refs[x] + 1 ELSE refs[x]
      BY <2>1 DEF CreateSnapshot, AddRefs
    <3> HIDE DEF H, R
    <3>9. Cardinality(H \cup {s}) = Cardinality(H) + 1
      BY <3>4, <3>6, FS_AddElement
    <3> QED
      BY <3>3, <3>5, <3>6, <3>7, <3>8, <3>9
  <2>2. ASSUME NEW s \in Snapshots, DeleteSnapshot(s)
        PROVE  RefcountExact'
    <3>1. {s} \in SUBSET LiveSnapshots /\ Retire({s}) /\ restored' = restored
      BY <2>2 DEF DeleteSnapshot, LiveSnapshots
    <3>2. \A x \in Ssts : refs'[x] = Cardinality((Holding(x, LiveSnapshots))')
                                     + Cardinality((RestoreRefs(x))')
      BY <3>1, RetireCounts
    <3> QED
      BY <3>2 DEF RefcountExact
  <2>3. ASSUME NEW s \in Snapshots, NEW v \in Volumes, NEW n \in Names,
               RestoreSnapshot(s, v, n)
        PROVE  RefcountExact'
    <3> SUFFICES ASSUME NEW x \in Ssts
                 PROVE  refs'[x] = Cardinality((Holding(x, LiveSnapshots))')
                                   + Cardinality((RestoreRefs(x))')
      BY DEF RefcountExact
    <3> DEFINE H == Holding(x, LiveSnapshots)
               R == RestoreRefs(x)
               X == snapshots[s].ssts
               r == [vol |-> v, life |-> lives[v] + 1, ssts |-> X]
    <3>1. (Holding(x, LiveSnapshots))' = H
      BY <2>3 DEF RestoreSnapshot, Holding, LiveSnapshots, Live
    <3>2. (RestoreRefs(x))' = IF x \in X THEN R \cup {r} ELSE R
      BY <2>3 DEF RestoreSnapshot, RestoreRefs
    <3>3. r \notin R
      <4>1. lives[v] \in Nat /\ r.vol = v /\ r.life = lives[v] + 1
        BY DEF TypeOK
      <4>2. \A q \in R : q.life <= lives[q.vol]
        BY DEF Counted, RestoresBounded, RestoreRefs
      <4> HIDE DEF R, r
      <4> QED
        BY <4>1, <4>2
    <3>4. /\ Cardinality(H) \in Nat
          /\ IsFiniteSet(R) /\ Cardinality(R) \in Nat
      BY CountsFinite DEF Counted
    <3>5. refs[x] = Cardinality(H) + Cardinality(R)
      BY DEF Counted, RefcountExact
    <3>6. refs'[x] = IF x \in X THEN refs[x] + 1 ELSE refs[x]
      BY <2>3 DEF RestoreSnapshot, AddRefs
    <3> HIDE DEF H, R, X, r
    <3>7. Cardinality(R \cup {r}) = Cardinality(R) + 1
      BY <3>3, <3>4, FS_AddElement
    <3> QED
      BY <3>1, <3>2, <3>4, <3>5, <3>6, <3>7
  <2> QED
    BY <1>5, <2>1, <2>2, <2>3, CountsKept
       DEF SnapshotStep, MarkRestoreBegin, MarkRestoreComplete
<1> QED
  BY <1>1, <1>2, <1>3, <1>4, <1>5 DEF Next

LEMMA RestoresBoundedStep ==
  ASSUME TypeOK, TypeOK', RestoresBounded, Next
  PROVE  RestoresBounded'
<1>1. \A v \in Volumes : lives[v] <= lives'[v]
  BY StepMoves DEF TypeOK, Moves, Born, Bumped, Kept, Dropped, Settled, Gone
<1>2. CASE \E s \in Snapshots, v \in Volumes, n \in Names : RestoreSnapshot(s, v, n)
  <2> PICK s \in Snapshots, v \in Volumes, n \in Names : RestoreSnapshot(s, v, n)
    BY <1>2
  <2> DEFINE r == [vol |-> v, life |-> lives[v] + 1, ssts |-> snapshots[s].ssts]
  <2>1. restored' = restored \cup {r}
    BY DEF RestoreSnapshot
  <2>2. lives'[v] = lives[v] + 1 /\ lives[v] \in Nat
    BY DEF RestoreSnapshot, TypeOK
  <2>3. r.life <= lives'[r.vol]
    BY <2>2
  <2>4. \A q \in restored : /\ q.life \in Nat /\ q.vol \in Volumes
                            /\ q.life <= lives[q.vol]
                            /\ lives[q.vol] \in Nat /\ lives'[q.vol] \in Nat
    BY DEF TypeOK, RestoresBounded
  <2> HIDE DEF r
  <2>5. IsFiniteSet(restored')
    BY <2>1, FS_AddElement DEF RestoresBounded
  <2> QED
    BY <1>1, <2>1, <2>3, <2>4, <2>5 DEF RestoresBounded
<1>3. CASE restored' = restored
  <2>1. \A q \in restored : /\ q.life \in Nat /\ q.vol \in Volumes
                            /\ q.life <= lives[q.vol]
                            /\ lives[q.vol] \in Nat /\ lives'[q.vol] \in Nat
    BY DEF TypeOK, RestoresBounded
  <2> QED
    BY <1>1, <1>3, <2>1 DEF RestoresBounded
<1>4. \/ restored' = restored
      \/ \E s \in Snapshots, v \in Volumes, n \in Names : RestoreSnapshot(s, v, n)
  <2>1. CASE PlacementStep \/ MigrationStep
    BY <2>1 DEF PlacementStep, PlaceVm, RemoveVm, RescheduleVm, MigrationStep,
       MigrateVolumeToZone, CompleteMigration, RollbackMigration
  <2>2. CASE VolumeStep
    BY ZenonT(60), <2>2 DEF VolumeStep, CreateVolume, DeleteVolume, PurgeTombstones,
       VolumeAttach, VolumeDetach, RescheduleVolume, ResizeVolume
  <2>3. CASE SnapshotStep
    BY <2>3 DEF SnapshotStep, CreateSnapshot, DeleteSnapshot,
       MarkRestoreBegin, MarkRestoreComplete
  <2>4. CASE GcStep \/ SettingStep
    BY <2>4 DEF GcStep, CommitManifest, GcCompleteSsts, GcCompleteWalSegments,
       SettingStep, SetStorageQuota, SetStorageConfig
  <2> QED
    BY <2>1, <2>2, <2>3, <2>4 DEF Next
<1> QED
  BY <1>2, <1>3, <1>4

\* The increments and decrements of every command balance: an SST's counter is
\* the number of live snapshots that list it plus the restores that took it.
THEOREM RefcountsBalance == Spec => []RefcountExact
<1>1. Init => Counted
  <2> SUFFICES ASSUME Init
               PROVE  Counted
    OBVIOUS
  <2>1. LiveSnapshots = {} /\ restored = {}
    BY DEF Init, LiveSnapshots, Live, NoSnapshot
  <2>2. IsFiniteSet(restored)
    BY <2>1, FS_EmptySet
  <2>3. \A x \in Ssts : Holding(x, LiveSnapshots) = {} /\ RestoreRefs(x) = {}
    BY <2>1 DEF Holding, RestoreRefs
  <2>4. Cardinality({}) = 0
    BY FS_EmptySet
  <2>5. RefcountExact
    <3> SUFFICES ASSUME NEW x \in Ssts
                 PROVE  refs[x] = Cardinality(Holding(x, LiveSnapshots))
                                  + Cardinality(RestoreRefs(x))
      BY DEF RefcountExact
    <3>1. refs[x] = 0
      BY DEF Init
    <3>2. Cardinality(Holding(x, LiveSnapshots)) = 0 /\ Cardinality(RestoreRefs(x)) = 0
      BY <2>3, <2>4
    <3> QED
      BY <3>1, <3>2
  <2> QED
    BY <2>1, <2>2, <2>5 DEF Counted, RestoresBounded
<1>2. TypeOK /\ TypeOK' /\ Counted /\ [Next]_vars => Counted'
  <2> SUFFICES ASSUME TypeOK, TypeOK', Counted, [Next]_vars
               PROVE  Counted'
    OBVIOUS
  <2>1. CASE Next
    BY <2>1, RefcountStep, RestoresBoundedStep DEF Counted
  <2>2. CASE UNCHANGED vars
    BY <2>2, CountsKept DEF vars, state, Counted, RestoresBounded
  <2> QED
    BY <2>1, <2>2
<1>3. Counted => RefcountExact
  BY DEF Counted
<1> QED
  BY <1>1, <1>2, <1>3, TypeCorrect, PTL DEF Spec

-----------------------------------------------------------------------------
(* Placement of volumes, their names, and deletions during a restore.      *)

\* PlacementConsistent of one volume record, with the zones configured in c.
RecordConsistent(r, c) ==
    /\ r.state = "Attached" => r.vm # None /\ r.hv # None /\ r.gen > 0
    /\ r.state = "Deleted" => r.vm = None /\ r.hv = None
    /\ r.state = "Migrating" =>
          /\ {r.migration.source_zone, r.migration.target_zone} \subseteq c
          /\ r.migration.source_zone # r.migration.target_zone
    /\ r.state \in {"Available", "Attached"} => r.migration = NoMigration

LEMMA ConsistentRecords ==
  /\ PlacementConsistent <=> \A v \in Volumes : RecordConsistent(volumes[v], configs)
  /\ PlacementConsistent' <=> \A v \in Volumes : RecordConsistent(volumes'[v], configs')
  BY DEF PlacementConsistent, RecordConsistent

\* Only zones are added to the configuration.
LEMMA ConsistentKept ==
  ASSUME NEW v \in Volumes, RecordConsistent(volumes[v], configs),
         volumes'[v] = volumes[v], configs \subseteq configs'
  PROVE  RecordConsistent(volumes'[v], configs')
  BY DEF RecordConsistent

LEMMA NewConsistent ==
  ASSUME NEW n, NEW p, NEW t, NEW size, NEW h, NEW z, NEW c
  PROVE  RecordConsistent(NewVolume(n, p, t, size, h, z), c)
  BY DEF RecordConsistent, NewVolume

LEMMA ConsistentVolumeStep ==
  ASSUME TypeOK, VolumeStep, NEW v \in Volumes, RecordConsistent(volumes[v], configs)
  PROVE  RecordConsistent(volumes'[v], configs')
<1> volumes[v] \in VolumeRecord
  BY DEF TypeOK
<1> volumes[v].gen \in Nat
  BY DEF VolumeRecord
<1>1. ASSUME NEW u \in Volumes, NEW n \in Names, NEW p \in Projects,
             NEW t \in Types, NEW size \in Sizes,
             NEW h \in Hypervisors \cup {None}, NEW z \in Zones \cup {None},
             CreateVolume(u, n, p, t, size, h, z)
      PROVE  RecordConsistent(volumes'[v], configs')
  <2>1. CASE u = v
    BY <1>1, <2>1, NewConsistent DEF TypeOK, CreateVolume
  <2>2. CASE u # v
    BY <1>1, <2>2, ConsistentKept DEF TypeOK, CreateVolume
  <2> QED
    BY <2>1, <2>2
<1>2. ASSUME NEW u \in Volumes, NEW c \in BOOLEAN, NEW t \in Times,
             DeleteVolume(u, c, t)
      PROVE  RecordConsistent(volumes'[v], configs')
  <2>1. CASE u = v
    <3>1. volumes'[v] = [volumes[v] EXCEPT !.state = "Deleted", !.vm = None,
                                           !.hv = None, !.deleted_at = t]
      BY <1>2, <2>1 DEF TypeOK, DeleteVolume
    <3>2. /\ volumes'[v].state = "Deleted"
          /\ volumes'[v].vm = None /\ volumes'[v].hv = None
      BY <3>1 DEF VolumeRecord
    <3> QED
      BY <3>2 DEF RecordConsistent
  <2>2. CASE u # v
    BY <1>2, <2>2, ConsistentKept DEF TypeOK, DeleteVolume
  <2> QED
    BY <2>1, <2>2
<1>3. ASSUME NEW now \in Times, NEW age \in Times, PurgeTombstones(now, age)
      PROVE  RecordConsistent(volumes'[v], configs')
  <2>1. CASE Expired(v, now, age)
    BY <1>3, <2>1 DEF PurgeTombstones, NoVolume, RecordConsistent
  <2>2. CASE ~Expired(v, now, age)
    BY <1>3, <2>2, ConsistentKept DEF PurgeTombstones
  <2> QED
    BY <2>1, <2>2
<1>4. ASSUME NEW u \in Volumes, NEW m \in VMs, NEW h \in Hypervisors,
             VolumeAttach(u, m, h)
      PROVE  RecordConsistent(volumes'[v], configs')
  <2>1. CASE u = v
    <3>1. volumes'[v] = [volumes[v] EXCEPT !.state = "Attached", !.vm = m,
                           !.hv = h, !.gen = volumes[v].gen + 1]
      BY <1>4, <2>1 DEF TypeOK, VolumeAttach
    <3>2. /\ volumes'[v].state = "Attached"
          /\ volumes'[v].vm = m /\ volumes'[v].hv = h
          /\ volumes'[v].gen > 0
          /\ volumes'[v].migration = volumes[v].migration
      BY <3>1 DEF VolumeRecord
    <3>3. volumes[v].migration = NoMigration
      BY <1>4, <2>1 DEF VolumeAttach, RecordConsistent
    <3>4. m # None /\ h # None
      BY ConstantsAssumption
    <3> QED
      BY <3>2, <3>3, <3>4 DEF RecordConsistent
  <2>2. CASE u # v
    BY <1>4, <2>2, ConsistentKept DEF TypeOK, VolumeAttach
  <2> QED
    BY <2>1, <2>2
<1>5. ASSUME NEW u \in Volumes, VolumeDetach(u)
      PROVE  RecordConsistent(volumes'[v], configs')
  <2>1. CASE u = v
    <3>1. /\ volumes'[v].state = "Available"
          /\ volumes'[v].migration = volumes[v].migration
      BY <1>5, <2>1 DEF TypeOK, VolumeDetach, VolumeRecord
    <3> QED
      BY <1>5, <2>1, <3>1 DEF VolumeDetach, RecordConsistent
  <2>2. CASE u # v
    BY <1>5, <2>2, ConsistentKept DEF TypeOK, VolumeDetach
  <2> QED
    BY <2>1, <2>2
<1>6. ASSUME NEW u \in Volumes, NEW from \in Hypervisors, NEW to \in Hypervisors,
             NEW m \in VMs, RescheduleVolume(u, from, to, m)
      PROVE  RecordConsistent(volumes'[v], configs')
  <2>1. CASE u = v
    <3>1. volumes'[v] = [volumes[v] EXCEPT !.hv = to, !.vm = m,
                                           !.gen = volumes[v].gen + 1]
      BY <1>6, <2>1 DEF TypeOK, RescheduleVolume
    <3>2. /\ volumes'[v].state = volumes[v].state
          /\ volumes'[v].vm = m /\ volumes'[v].hv = to
          /\ volumes'[v].gen > 0
          /\ volumes'[v].migration = volumes[v].migration
      BY <3>1 DEF VolumeRecord
    <3>3. m # None /\ to # None
      BY ConstantsAssumption
    <3> QED
      BY <1>6, <2>1, <3>2, <3>3 DEF RescheduleVolume, RecordConsistent
  <2>2. CASE u # v
    BY <1>6, <2>2, ConsistentKept DEF TypeOK, RescheduleVolume
  <2> QED
    BY <2>1, <2>2
<1>7. ASSUME NEW u \in Volumes, NEW size \in Sizes, ResizeVolume(u, size)
      PROVE  RecordConsistent(volumes'[v], configs')
  <2>1. CASE u = v
    <3>1. /\ volumes'[v].state = volumes[v].state
          /\ volumes'[v].migration = volumes[v].migration
      BY <1>7, <2>1 DEF TypeOK, ResizeVolume, VolumeRecord
    <3> QED
      BY <1>7, <2>1, <3>1 DEF ResizeVolume, RecordConsistent
  <2>2. CASE u # v
    BY <1>7, <2>2, ConsistentKept DEF TypeOK, ResizeVolume
  <2> QED
    BY <2>1, <2>2
<1> QED
  BY <1>1, <1>2, <1>3, <1>4, <1>5, <1>6, <1>7 DEF VolumeStep

LEMMA ConsistentMigrationStep ==
  ASSUME TypeOK, MigrationStep, NEW v \in Volumes, RecordConsistent(volumes[v], configs)
  PROVE  RecordConsistent(volumes'[v], configs')
<1> volumes[v] \in VolumeRecord
  BY DEF TypeOK
<1>1. ASSUME NEW u \in Volumes, NEW source \in Zones, NEW target \in Zones,
             NEW h \in Hypervisors, NEW m \in VMs \cup {None},
             MigrateVolumeToZone(u, source, target, h, m)
      PROVE  RecordConsistent(volumes'[v], configs')
  <2>1. CASE u = v
    <3> DEFINE mig == [source_zone |-> source, target_zone |-> target,
                       pre_hv |-> volumes[v].hv, pre_vm |-> volumes[v].vm]
    <3>1. volumes'[v] = [volumes[v] EXCEPT !.state = "Migrating", !.vm = m,
                           !.hv = h, !.gen = volumes[v].gen + 1,
                           !.migration = mig]
      BY <1>1, <2>1 DEF TypeOK, MigrateVolumeToZone
    <3>2. volumes'[v].state = "Migrating" /\ volumes'[v].migration = mig
      <4> HIDE DEF mig
      <4> QED
        BY <3>1 DEF VolumeRecord
    <3>3. mig.source_zone = source /\ mig.target_zone = target
      OBVIOUS
    <3>4. {source, target} \subseteq configs' /\ source # target
      BY <1>1 DEF MigrateVolumeToZone
    <3> HIDE DEF mig
    <3> QED
      BY <3>2, <3>3, <3>4 DEF RecordConsistent
  <2>2. CASE u # v
    BY <1>1, <2>2, ConsistentKept DEF TypeOK, MigrateVolumeToZone
  <2> QED
    BY <2>1, <2>2
<1>2. ASSUME NEW u \in Volumes, CompleteMigration(u)
      PROVE  RecordConsistent(volumes'[v], configs')
  <2>1. CASE u = v
    <3>1. /\ volumes'[v].state = "Available"
          /\ volumes'[v].migration = NoMigration
      BY <1>2, <2>1 DEF TypeOK, CompleteMigration, VolumeRecord
    <3> QED
      BY <3>1 DEF RecordConsistent
  <2>2. CASE u # v
    BY <1>2, <2>2, ConsistentKept DEF TypeOK, CompleteMigration
  <2> QED
    BY <2>1, <2>2
<1>3. ASSUME NEW u \in Volumes, RollbackMigration(u)
      PROVE  RecordConsistent(volumes'[v], configs')
  <2>1. CASE u = v
    <3>1. /\ volumes'[v].state = "Available"
          /\ volumes'[v].migration = NoMigration
      BY <1>3, <2>1 DEF TypeOK, RollbackMigration, VolumeRecord
    <3> QED
      BY <3>1 DEF RecordConsistent
  <2>2. CASE u # v
    BY <1>3, <2>2, ConsistentKept DEF TypeOK, RollbackMigration
  <2> QED
    BY <2>1, <2>2
<1> QED
  BY <1>1, <1>2, <1>3 DEF MigrationStep

LEMMA ConsistentStep ==
  ASSUME TypeOK, Next, NEW v \in Volumes, RecordConsistent(volumes[v], configs)
  PROVE  RecordConsistent(volumes'[v], configs')
<1> volumes[v] \in VolumeRecord
  BY DEF TypeOK
<1> volumes[v].gen \in Nat
  BY DEF VolumeRecord
<1>1. ASSUME NEW m \in VMs, NEW from \in Hypervisors, NEW to \in Hypervisors,
             NEW g \in VmGenerations, RescheduleVm(m, from, to, g)
      PROVE  RecordConsistent(volumes'[v], configs')
  <2>1. CASE v \in VolumesOf(m, from)
    <3>1. volumes'[v] = [volumes[v] EXCEPT !.hv = to, !.gen = @ + 1]
      BY <1>1, <2>1 DEF RescheduleVm
    <3>2. /\ volumes'[v].state = volumes[v].state
          /\ volumes'[v].vm = volumes[v].vm /\ volumes'[v].hv = to
          /\ volumes'[v].gen > 0
          /\ volumes'[v].migration = volumes[v].migration
      BY <3>1 DEF VolumeRecord
    <3>3. to # None
      BY ConstantsAssumption
    <3> QED
      BY <2>1, <3>2, <3>3 DEF VolumesOf, RecordConsistent
  <2>2. CASE v \notin VolumesOf(m, from)
    BY <1>1, <2>2, ConsistentKept DEF RescheduleVm
  <2> QED
    BY <2>1, <2>2
<1>2. CASE PlacementStep
  BY <1>1, <1>2, ConsistentKept DEF PlacementStep, PlaceVm, RemoveVm
<1>3. ASSUME NEW s \in Snapshots, NEW u \in Volumes, NEW n \in Names,
             RestoreSnapshot(s, u, n)
      PROVE  RecordConsistent(volumes'[v], configs')
  <2>1. CASE u = v
    BY <1>3, <2>1, NewConsistent DEF TypeOK, RestoreSnapshot
  <2>2. CASE u # v
    BY <1>3, <2>2, ConsistentKept DEF TypeOK, RestoreSnapshot
  <2> QED
    BY <2>1, <2>2
<1>4. CASE SnapshotStep
  BY <1>3, <1>4, ConsistentKept
     DEF SnapshotStep, CreateSnapshot, DeleteSnapshot, MarkRestoreBegin,
         MarkRestoreComplete
<1>5. CASE GcStep
  BY <1>5, ConsistentKept
     DEF GcStep, CommitManifest, GcCompleteSsts, GcCompleteWalSegments
<1>6. CASE SettingStep
  BY <1>6, ConsistentKept DEF SettingStep, SetStorageQuota, SetStorageConfig
<1> QED
  BY <1>2, <1>4, <1>5, <1>6, ConsistentVolumeStep, ConsistentMigrationStep DEF Next

\* However a volume is moved, an attached one names its VM and hypervisor, a
\* tombstone names neither, a migration runs between two configured zones, and
\* completing or rolling it back leaves no trace of it.
THEOREM PlacementsConsistent == Spec => []PlacementConsistent
<1>1. Init => PlacementConsistent
  BY DEF Init, PlacementConsistent, NoVolume
<1>2. TypeOK /\ PlacementConsistent /\ [Next]_vars => PlacementConsistent'
  <2> SUFFICES ASSUME TypeOK, PlacementConsistent, [Next]_vars, NEW v \in Volumes
               PROVE  RecordConsistent(volumes'[v], configs')
    BY ConsistentRecords
  <2>1. RecordConsistent(volumes[v], configs)
    BY ConsistentRecords
  <2>2. CASE Next
    BY <2>1, <2>2, ConsistentStep
  <2>3. CASE UNCHANGED vars
    BY <2>1, <2>3 DEF vars, state
  <2> QED
    BY <2>2, <2>3
<1> QED
  BY <1>1, <1>2, TypeCorrect, PTL DEF Spec

\* A step keeps a volume's name and project, or forgets the volume.
KeepsName(v) ==
    volumes'[v].state # "Absent" =>
       /\ Present(v)
       /\ volumes'[v].name = volumes[v].name
       /\ volumes'[v].project = volumes[v].project

\* A step creates a volume under a free name and touches no other volume.
TakesFreeName(v) ==
    /\ ~NameTaken(volumes'[v].name, volumes'[v].project)
    /\ \A w \in Volumes \ {v} : volumes'[w] = volumes[w]

LEMMA StillNamed ==
  ASSUME NEW v \in Volumes, volumes'[v] = volumes[v]
  PROVE  KeepsName(v)
  BY DEF KeepsName, Present

LEMMA NameStep ==
  ASSUME TypeOK, Next
  PROVE  \/ \A v \in Volumes : KeepsName(v)
         \/ \E v \in Volumes : TakesFreeName(v)
<1>1. ASSUME NEW u \in Volumes, NEW n \in Names, NEW p \in Projects,
             NEW t \in Types, NEW size \in Sizes,
             NEW h \in Hypervisors \cup {None}, NEW z \in Zones \cup {None},
             CreateVolume(u, n, p, t, size, h, z)
      PROVE  TakesFreeName(u)
  <2>1. volumes'[u].name = n /\ volumes'[u].project = p
    BY <1>1 DEF TypeOK, CreateVolume, NewVolume
  <2>2. ~NameTaken(n, p) /\ \A w \in Volumes \ {u} : volumes'[w] = volumes[w]
    BY <1>1 DEF TypeOK, CreateVolume
  <2> QED
    BY <2>1, <2>2 DEF TakesFreeName
<1>2. ASSUME NEW s \in Snapshots, NEW u \in Volumes, NEW n \in Names,
             RestoreSnapshot(s, u, n)
      PROVE  TakesFreeName(u)
  <2>1. volumes'[u].name = n /\ volumes'[u].project = snapshots[s].project
    BY <1>2 DEF TypeOK, RestoreSnapshot, NewVolume
  <2>2. /\ ~NameTaken(n, snapshots[s].project)
        /\ \A w \in Volumes \ {u} : volumes'[w] = volumes[w]
    BY <1>2 DEF TypeOK, RestoreSnapshot
  <2> QED
    BY <2>1, <2>2 DEF TakesFreeName
<1>3. ASSUME \A u \in Volumes, n \in Names, p \in Projects, t \in Types,
                size \in Sizes, h \in Hypervisors \cup {None},
                z \in Zones \cup {None} : ~CreateVolume(u, n, p, t, size, h, z),
             \A s \in Snapshots, u \in Volumes, n \in Names :
                ~RestoreSnapshot(s, u, n),
             NEW v \in Volumes
      PROVE  KeepsName(v)
  <2> volumes[v] \in VolumeRecord
    BY DEF TypeOK
  <2>1. CASE PlacementStep
    <3>1. ASSUME NEW m \in VMs, NEW from \in Hypervisors, NEW to \in Hypervisors,
                 NEW g \in VmGenerations, RescheduleVm(m, from, to, g)
          PROVE  KeepsName(v)
      <4>1. CASE v \in VolumesOf(m, from)
        <5>1. volumes'[v] = [volumes[v] EXCEPT !.hv = to, !.gen = @ + 1]
          BY <3>1, <4>1 DEF RescheduleVm
        <5>2. /\ volumes'[v].name = volumes[v].name
              /\ volumes'[v].project = volumes[v].project
          BY <5>1 DEF VolumeRecord
        <5> QED
          BY <4>1, <5>2 DEF VolumesOf, KeepsName, Present
      <4>2. CASE v \notin VolumesOf(m, from)
        BY <3>1, <4>2, StillNamed DEF RescheduleVm
      <4> QED
        BY <4>1, <4>2
    <3> QED
      BY <2>1, <3>1, StillNamed DEF PlacementStep, PlaceVm, RemoveVm
  <2>2. CASE VolumeStep
    <3>1. ASSUME NEW u \in Volumes, NEW c \in BOOLEAN, NEW t \in Times,
                 DeleteVolume(u, c, t)
          PROVE  KeepsName(v)
      <4>1. CASE u = v
        <5>1. volumes'[v] = [volumes[v] EXCEPT !.state = "Deleted", !.vm = None,
                                               !.hv = None, !.deleted_at = t]
          BY <3>1, <4>1 DEF TypeOK, DeleteVolume
        <5>2. /\ volumes'[v].name = volumes[v].name
              /\ volumes'[v].project = volumes[v].project
          BY <5>1 DEF VolumeRecord
        <5> QED
          BY <3>1, <4>1, <5>2 DEF DeleteVolume, KeepsName, Present
      <4>2. CASE u # v
        BY <3>1, <4>2, StillNamed DEF TypeOK, DeleteVolume
      <4> QED
        BY <4>1, <4>2
    <3>2. ASSUME NEW now \in Times, NEW age \in Times, PurgeTombstones(now, age)
          PROVE  KeepsName(v)
      BY <3>2 DEF PurgeTombstones, NoVolume, KeepsName, Present
    <3>3. ASSUME NEW u \in Volumes, NEW m \in VMs, NEW h \in Hypervisors,
                 VolumeAttach(u, m, h)
          PROVE  KeepsName(v)
      <4>1. CASE u = v
        <5>1. volumes'[v] = [volumes[v] EXCEPT !.state = "Attached", !.vm = m,
                               !.hv = h, !.gen = volumes[v].gen + 1]
          BY <3>3, <4>1 DEF TypeOK, VolumeAttach
        <5>2. /\ volumes'[v].name = volumes[v].name
              /\ volumes'[v].project = volumes[v].project
          BY <5>1 DEF VolumeRecord
        <5> QED
          BY <3>3, <4>1, <5>2 DEF VolumeAttach, KeepsName, Present
      <4>2. CASE u # v
        BY <3>3, <4>2, StillNamed DEF TypeOK, VolumeAttach
      <4> QED
        BY <4>1, <4>2
    <3>4. ASSUME NEW u \in Volumes,
                 \/ VolumeDetach(u)
                 \/ \E from, to \in Hypervisors, m \in VMs :
                       RescheduleVolume(u, from, to, m)
                 \/ \E size \in Sizes : ResizeVolume(u, size)
          PROVE  KeepsName(v)
      <4>1. CASE u = v
        <5>1. /\ volumes'[v].name = volumes[v].name
              /\ volumes'[v].project = volumes[v].project
          <6>1. CASE VolumeDetach(v)
            BY <6>1 DEF TypeOK, VolumeDetach, VolumeRecord
          <6>2. ASSUME NEW from \in Hypervisors, NEW to \in Hypervisors,
                       NEW m \in VMs, RescheduleVolume(v, from, to, m)
                PROVE  /\ volumes'[v].name = volumes[v].name
                       /\ volumes'[v].project = volumes[v].project
            BY <6>2 DEF TypeOK, RescheduleVolume, VolumeRecord
          <6>3. ASSUME NEW size \in Sizes, ResizeVolume(v, size)
                PROVE  /\ volumes'[v].name = volumes[v].name
                       /\ volumes'[v].project = volumes[v].project
            BY <6>3 DEF TypeOK, ResizeVolume, VolumeRecord
          <6> QED
            BY <3>4, <4>1, <6>1, <6>2, <6>3
        <5>2. Present(v)
          BY <3>4, <4>1 DEF VolumeDetach, RescheduleVolume, ResizeVolume, Present
        <5> QED
          BY <5>1, <5>2 DEF KeepsName
      <4>2. CASE u # v
        BY <3>4, <4>2, StillNamed DEF TypeOK, VolumeDetach, RescheduleVolume,
                                      ResizeVolume
      <4> QED
        BY <4>1, <4>2
    <3> QED
      BY <1>3, <2>2, <3>1, <3>2, <3>3, <3>4 DEF VolumeStep
  <2>3. CASE MigrationStep
    <3>1. ASSUME NEW u \in Volumes, NEW source \in Zones, NEW target \in Zones,
                 NEW h \in Hypervisors, NEW m \in VMs \cup {None},
                 MigrateVolumeToZone(u, source, target, h, m)
          PROVE  KeepsName(v)
      <4>1. CASE u = v
        <5> DEFINE mig == [source_zone |-> source, target_zone |-> target,
                           pre_hv |-> volumes[v].hv, pre_vm |-> volumes[v].vm]
        <5>1. volumes'[v] = [volumes[v] EXCEPT !.state = "Migrating", !.vm = m,
                               !.hv = h, !.gen = volumes[v].gen + 1,
                               !.migration = mig]
          BY <3>1, <4>1 DEF TypeOK, MigrateVolumeToZone
        <5>2. /\ volumes'[v].name = volumes[v].name
              /\ volumes'[v].project = volumes[v].project
          <6> HIDE DEF mig
          <6> QED
            BY <5>1 DEF VolumeRecord
        <5>3. Present(v)
          BY <3>1, <4>1 DEF MigrateVolumeToZone, Present
        <5> QED
          BY <5>2, <5>3 DEF KeepsName
      <4>2. CASE u # v
        BY <3>1, <4>2, StillNamed DEF TypeOK, MigrateVolumeToZone
      <4> QED
        BY <4>1, <4>2
    <3>2. ASSUME NEW u \in Volumes, CompleteMigration(u) \/ RollbackMigration(u)
          PROVE  KeepsName(v)
      <4>1. CASE u = v
        <5>1. /\ volumes'[v].name = volumes[v].name
              /\ volumes'[v].project = volumes[v].project
          <6>1. CASE CompleteMigration(v)
            BY <6>1 DEF TypeOK, CompleteMigration, VolumeRecord
          <6>2. CASE RollbackMigration(v)
            BY <6>2 DEF TypeOK, RollbackMigration, VolumeRecord
          <6> QED
            BY <3>2, <4>1, <6>1, <6>2
        <5>2. Present(v)
          BY <3>2, <4>1 DEF CompleteMigration, RollbackMigration, Present
        <5> QED
          BY <5>1, <5>2 DEF KeepsName
      <4>2. CASE u # v
        BY <3>2, <4>2, StillNamed DEF TypeOK, CompleteMigration, RollbackMigration
      <4> QED
        BY <4>1, <4>2
    <3> QED
      BY <2>3, <3>1, <3>2 DEF MigrationStep
  <2>4. CASE SnapshotStep
    BY <1>3, <2>4, StillNamed
       DEF SnapshotStep, CreateSnapshot, DeleteSnapshot, MarkRestoreBegin,
           MarkRestoreComplete
  <2>5. CASE GcStep
    BY <2>5, StillNamed
       DEF GcStep, CommitManifest, GcCompleteSsts, GcCompleteWalSegments
  <2>6. CASE SettingStep
    BY <2>6, StillNamed DEF SettingStep, SetStorageQuota, SetStorageConfig
  <2> QED
    BY <2>1, <2>2, <2>3, <2>4, <2>5, <2>6 DEF Next
<1> QED
  BY <1>1, <1>2, <1>3

\* Two recorded volumes of one project never share a name, tombstones
\* included, whether CreateVolume or RestoreSnapshot made them.
THEOREM VolumeNamesUnique == Spec => []NamesUnique
<1>1. Init => NamesUnique
  BY DEF Init, NamesUnique, NoVolume, Present
<1>2. TypeOK /\ NamesUnique /\ [Next]_vars => NamesUnique'
  <2> SUFFICES ASSUME TypeOK, NamesUnique, [Next]_vars,
                      NEW v \in Volumes, NEW w \in Volumes,
                      volumes'[v].state # "Absent", volumes'[w].state # "Absent",
                      volumes'[v].name = volumes'[w].name,
                      volumes'[v].project = volumes'[w].project
               PROVE  v = w
    BY DEF NamesUnique, Present
  <2>1. CASE \A u \in Volumes : KeepsName(u)
    BY <2>1 DEF NamesUnique, KeepsName
  <2>2. ASSUME NEW u \in Volumes, TakesFreeName(u)
        PROVE  v = w
    <3>1. ASSUME NEW x \in Volumes, x # u, volumes'[x].state # "Absent"
          PROVE  volumes'[x].name # volumes'[u].name
                 \/ volumes'[x].project # volumes'[u].project
      BY <2>2, <3>1 DEF TakesFreeName, NameTaken, Present
    <3>2. CASE v = u \/ w = u
      BY <3>1, <3>2
    <3>3. CASE v # u /\ w # u
      <4>1. volumes'[v] = volumes[v] /\ volumes'[w] = volumes[w]
        BY <2>2, <3>3 DEF TakesFreeName
      <4> QED
        BY <4>1 DEF NamesUnique, Present
    <3> QED
      BY <3>2, <3>3
  <2>3. CASE UNCHANGED vars
    BY <2>3 DEF vars, state, NamesUnique, Present
  <2> QED
    BY <2>1, <2>2, <2>3, NameStep
<1> QED
  BY <1>1, <1>2, TypeCorrect, PTL DEF Spec

\* Neither DeleteSnapshot nor the cascade of DeleteVolume takes a snapshot
\* away while a restore of it is in progress.
THEOREM RestoreProtects == Spec => RestoreBlocksDelete
<1>1. ASSUME TypeOK, [Next]_vars, NEW s \in Snapshots, Live(s),
             snapshots'[s].state = "Deleted"
      PROVE  s \notin restores
  <2>1. snapshots'[s] # snapshots[s]
    BY <1>1 DEF Live
  <2>2. ASSUME NEW D \in SUBSET Snapshots, Retire(D)
        PROVE  s \in D
    BY <2>1, <2>2 DEF Retire
  <2>3. ASSUME NEW v \in Volumes, NEW c \in BOOLEAN, NEW t \in Times,
               DeleteVolume(v, c, t)
        PROVE  s \notin restores
    <3> DEFINE D == {x \in LiveSnapshots : snapshots[x].source = v}
    <3>1. c
      BY <2>1, <2>3 DEF DeleteVolume
    <3>2. Retire(D) /\ D \cap restores = {}
      BY <2>3, <3>1 DEF DeleteVolume
    <3>3. D \in SUBSET Snapshots
      BY DEF LiveSnapshots
    <3> HIDE DEF D
    <3> QED
      BY <2>2, <3>2, <3>3
  <2>4. ASSUME NEW x \in Snapshots, DeleteSnapshot(x)
        PROVE  s \notin restores
    <3>1. {x} \in SUBSET Snapshots /\ Retire({x}) /\ x \notin restores
      BY <2>4 DEF DeleteSnapshot
    <3> QED
      BY <2>2, <3>1
  <2>5. ASSUME NEW x \in Snapshots, NEW v \in Volumes, NEW X \in SUBSET Ssts,
               NEW wal \in WalPositions, CreateSnapshot(x, v, X, wal)
        PROVE  FALSE
    <3>1. x # s
      BY <1>1, <2>5 DEF CreateSnapshot, Live
    <3> QED
      BY <2>1, <2>5, <3>1, <1>1 DEF CreateSnapshot, TypeOK
  <2>6. CASE PlacementStep \/ MigrationStep
    BY <2>1, <2>6 DEF PlacementStep, PlaceVm, RemoveVm, RescheduleVm, MigrationStep,
       MigrateVolumeToZone, CompleteMigration, RollbackMigration
  <2>7. CASE VolumeStep
    BY <2>1, <2>3, <2>7 DEF VolumeStep, CreateVolume, PurgeTombstones,
       VolumeAttach, VolumeDetach, RescheduleVolume, ResizeVolume
  <2>8. CASE SnapshotStep
    BY <2>1, <2>4, <2>5, <2>8 DEF SnapshotStep, RestoreSnapshot,
       MarkRestoreBegin, MarkRestoreComplete
  <2>9. CASE GcStep \/ SettingStep
    BY <2>1, <2>9 DEF GcStep, CommitManifest, GcCompleteSsts, GcCompleteWalSegments,
       SettingStep, SetStorageQuota, SetStorageConfig
  <2>10. CASE UNCHANGED vars
    BY <2>1, <2>10 DEF vars, state
  <2> QED
    BY <1>1, <2>6, <2>7, <2>8, <2>9, <2>10 DEF Next
<1>2. TypeOK /\ [Next]_vars =>
        [\A s \in Snapshots :
            Live(s) /\ snapshots'[s].state = "Deleted" => s \notin restores]_vars
  BY <1>1
<1> QED
  BY <1>2, TypeCorrect, PTL DEF Spec, RestoreBlocksDelete

-----------------------------------------------------------------------------
(* The refinement of VolumePlacement: each command maps to one step of the *)
(* abstract specification or leaves what the hypervisors see as it is.     *)
(* First what is seen of a record, state by state.                         *)

LEMMA SeenGone ==
  ASSUME NEW r, NEW n, r.state \in {"Absent", "Deleted"}
  PROVE  SeenAs(r, n) = [state |-> "Gone", hv |-> None, vm |-> None,
                         gen |-> 0, life |-> n]
  BY DEF SeenAs

LEMMA SeenMoving ==
  ASSUME NEW r, NEW n, r.state = "Migrating"
  PROVE  SeenAs(r, n) = [state |-> "Moving", hv |-> None, vm |-> None,
                         gen |-> r.gen, life |-> n]
  BY DEF SeenAs

LEMMA SeenBound ==
  ASSUME NEW r, NEW n, r.state = "Attached"
  PROVE  SeenAs(r, n) = [state |-> "Bound", hv |-> r.hv, vm |-> r.vm,
                         gen |-> r.gen, life |-> n]
  BY DEF SeenAs

LEMMA SeenAvailable ==
  ASSUME NEW r, NEW n, r.state = "Available"
  PROVE  SeenAs(r, n) = [state |-> IF r.hv = None THEN "Unassigned" ELSE "Idle",
                         hv |-> r.hv,
                         vm |-> IF r.hv = None THEN None ELSE r.vm,
                         gen |-> r.gen, life |-> n]
  BY DEF SeenAs

\* A command that touches one volume changes one entry of what is seen.
LEMMA SeenUpdate ==
  ASSUME TypeOK, NEW u \in Volumes, NEW r, NEW n,
         volumes' = [volumes EXCEPT ![u] = r],
         lives' = [lives EXCEPT ![u] = n]
  PROVE  PlacementSeen' = [PlacementSeen EXCEPT ![u] = SeenAs(r, n)]
  BY DEF TypeOK, PlacementSeen

LEMMA SeenKept ==
  ASSUME TypeOK, NEW u \in Volumes, NEW r,
         volumes' = [volumes EXCEPT ![u] = r], lives' = lives
  PROVE  PlacementSeen' = [PlacementSeen EXCEPT ![u] = SeenAs(r, lives[u])]
  BY DEF TypeOK, PlacementSeen

LEMMA SeenSame ==
  ASSUME volumes' = volumes, lives' = lives
  PROVE  PlacementSeen' = PlacementSeen
  BY DEF PlacementSeen

-----------------------------------------------------------------------------
(* The steps.                                                              *)

\* A new volume appears, on a hypervisor or on none.
LEMMA NewIsCreate ==
  ASSUME TypeOK, NEW u \in Volumes, NEW h \in Hypervisors \cup {None},
         NEW n, NEW p, NEW t, NEW size, NEW z, ~Present(u),
         volumes' = [volumes EXCEPT ![u] = NewVolume(n, p, t, size, h, z)],
         lives' = [lives EXCEPT ![u] = lives[u] + 1]
  PROVE  Seen!PlacementNext
<1> DEFINE r == NewVolume(n, p, t, size, h, z)
<1>1. PlacementSeen' = [PlacementSeen EXCEPT ![u] = SeenAs(r, lives[u] + 1)]
  BY SeenUpdate
<1>2. r.state = "Available" /\ r.hv = h /\ r.vm = None
      /\ r.gen = (IF h = None THEN 0 ELSE 1)
  BY DEF NewVolume
<1>3. SeenAs(r, lives[u] + 1) =
        [state |-> IF h = None THEN "Unassigned" ELSE "Idle", hv |-> h, vm |-> None,
         gen |-> IF h = None THEN 0 ELSE 1, life |-> lives[u] + 1]
  <2> HIDE DEF r
  <2> QED
    BY <1>2, SeenAvailable
<1>4. PlacementSeen[u].state = "Gone" /\ PlacementSeen[u].life = lives[u]
  <2>1. PlacementSeen[u] = SeenAs(volumes[u], lives[u])
    BY DEF PlacementSeen
  <2> QED
    BY <2>1, SeenGone DEF Present
<1> HIDE DEF r
<1>5. Seen!Create(u, h)
  BY <1>1, <1>3, <1>4 DEF Seen!Create
<1> QED
  BY <1>5 DEF Seen!PlacementNext

\* Volumes that go to a VM, each under its next generation.
LEMMA SeenGrant ==
  ASSUME NEW S \in SUBSET Volumes, NEW m \in VMs, NEW h \in Hypervisors,
         \A v \in S : PlacementSeen[v].state \in {"Unassigned", "Idle", "Bound"},
         \A v \in S : PlacementSeen'[v] =
                        [state |-> "Bound", hv |-> h, vm |-> m,
                         gen |-> PlacementSeen[v].gen + 1,
                         life |-> PlacementSeen[v].life],
         \A v \in Volumes \ S : PlacementSeen'[v] = PlacementSeen[v]
  PROVE  Seen!PlacementNext
<1>1. PlacementSeen' = [v \in Volumes |-> PlacementSeen'[v]]
  BY DEF PlacementSeen
<1>2. PlacementSeen' = [v \in Volumes |->
                          IF v \in S
                          THEN [state |-> "Bound", hv |-> h, vm |-> m,
                                gen |-> PlacementSeen[v].gen + 1,
                                life |-> PlacementSeen[v].life]
                          ELSE PlacementSeen[v]]
  BY <1>1
<1>3. Seen!Grant(S, m, h)
  BY <1>2 DEF Seen!Grant
<1> QED
  BY <1>3 DEF Seen!PlacementNext

\* One volume that is attached, or rescheduled while attached.
LEMMA AttachIsGrant ==
  ASSUME TypeOK, NEW u \in Volumes, NEW m \in VMs, NEW h \in Hypervisors,
         volumes[u].state \in {"Available", "Attached"}, NEW r,
         volumes' = [volumes EXCEPT ![u] = r], lives' = lives,
         r.state = "Attached", r.vm = m, r.hv = h, r.gen = volumes[u].gen + 1
  PROVE  Seen!PlacementNext
<1>1. PlacementSeen' = [PlacementSeen EXCEPT ![u] = SeenAs(r, lives[u])]
  BY SeenKept
<1>2. SeenAs(r, lives[u]) = [state |-> "Bound", hv |-> h, vm |-> m,
                             gen |-> volumes[u].gen + 1, life |-> lives[u]]
  BY SeenBound
<1>3. /\ PlacementSeen[u].state \in {"Unassigned", "Idle", "Bound"}
      /\ PlacementSeen[u].gen = volumes[u].gen
      /\ PlacementSeen[u].life = lives[u]
  <2>1. PlacementSeen[u] = SeenAs(volumes[u], lives[u])
    BY DEF PlacementSeen
  <2>2. CASE volumes[u].state = "Available"
    BY <2>1, <2>2, SeenAvailable
  <2>3. CASE volumes[u].state = "Attached"
    BY <2>1, <2>3, SeenBound
  <2> QED
    BY <2>2, <2>3
<1>4. PlacementSeen'[u] = [state |-> "Bound", hv |-> h, vm |-> m,
                           gen |-> PlacementSeen[u].gen + 1,
                           life |-> PlacementSeen[u].life]
  BY <1>1, <1>2, <1>3 DEF PlacementSeen
<1>5. \A v \in Volumes \ {u} : PlacementSeen'[v] = PlacementSeen[v]
  BY <1>1 DEF PlacementSeen
<1>6. PICK S \in SUBSET Volumes : S = {u}
  OBVIOUS
<1>7. \A v \in S : PlacementSeen[v].state \in {"Unassigned", "Idle", "Bound"}
  BY <1>3, <1>6
<1>8. \A v \in S : PlacementSeen'[v] =
                     [state |-> "Bound", hv |-> h, vm |-> m,
                      gen |-> PlacementSeen[v].gen + 1,
                      life |-> PlacementSeen[v].life]
  BY <1>4, <1>6
<1>9. \A v \in Volumes \ S : PlacementSeen'[v] = PlacementSeen[v]
  BY <1>5, <1>6
<1> QED
  BY <1>7, <1>8, <1>9, SeenGrant

LEMMA RescheduleVmIsGrant ==
  ASSUME TypeOK, NEW m \in VMs, NEW from \in Hypervisors, NEW to \in Hypervisors,
         NEW g \in VmGenerations, RescheduleVm(m, from, to, g)
  PROVE  Seen!PlacementNext
<1>1. PICK S \in SUBSET Volumes : S = VolumesOf(m, from)
  BY DEF VolumesOf
<1>2. ASSUME NEW v \in S
      PROVE  /\ PlacementSeen[v].state = "Bound"
             /\ PlacementSeen[v].gen = volumes[v].gen
             /\ PlacementSeen[v].life = lives[v]
  <2>1. v \in Volumes /\ volumes[v].state = "Attached"
    BY <1>1 DEF VolumesOf
  <2>2. PlacementSeen[v] = SeenAs(volumes[v], lives[v])
    BY <2>1 DEF PlacementSeen
  <2> QED
    BY <2>1, <2>2, SeenBound
<1>3. ASSUME NEW v \in S
      PROVE  PlacementSeen'[v] =
               [state |-> "Bound", hv |-> to, vm |-> m,
                gen |-> PlacementSeen[v].gen + 1, life |-> PlacementSeen[v].life]
  <2>0. v \in Volumes /\ volumes[v] \in VolumeRecord
    BY DEF TypeOK
  <2>1. volumes'[v] = [volumes[v] EXCEPT !.hv = to, !.gen = @ + 1]
    BY <1>1, <2>0 DEF RescheduleVm
  <2>2. volumes[v].state = "Attached" /\ volumes[v].vm = m
    BY <1>1 DEF VolumesOf
  <2>3. /\ volumes'[v].state = "Attached" /\ volumes'[v].vm = m
        /\ volumes'[v].hv = to /\ volumes'[v].gen = volumes[v].gen + 1
    BY <2>0, <2>1, <2>2 DEF VolumeRecord
  <2>4. PlacementSeen'[v] = SeenAs(volumes'[v], lives[v])
    BY <2>0 DEF PlacementSeen, RescheduleVm
  <2> QED
    BY <1>2, <2>3, <2>4, SeenBound
<1>4. \A v \in Volumes \ S : PlacementSeen'[v] = PlacementSeen[v]
  BY <1>1 DEF PlacementSeen, RescheduleVm
<1> QED
  BY ZenonT(60), <1>2, <1>3, <1>4, SeenGrant

LEMMA DetachIsRelease ==
  ASSUME TypeOK, NEW u \in Volumes, VolumeDetach(u)
  PROVE  Seen!PlacementNext
<1> DEFINE r == [volumes[u] EXCEPT !.state = "Available", !.vm = None, !.hv = None]
<1>1. volumes[u] \in VolumeRecord /\ volumes[u].state = "Attached"
  BY DEF TypeOK, VolumeDetach
<1>2. r.state = "Available" /\ r.hv = None /\ r.gen = volumes[u].gen
  BY <1>1 DEF VolumeRecord
<1>3. volumes' = [volumes EXCEPT ![u] = r] /\ lives' = lives
  BY DEF VolumeDetach
<1> HIDE DEF r
<1>4. PlacementSeen' = [PlacementSeen EXCEPT ![u] = SeenAs(r, lives[u])]
  BY <1>3, SeenKept
<1>5. SeenAs(r, lives[u]) = [state |-> "Unassigned", hv |-> None, vm |-> None,
                             gen |-> volumes[u].gen, life |-> lives[u]]
  BY <1>2, SeenAvailable
<1>6. /\ PlacementSeen[u].state = "Bound"
      /\ PlacementSeen[u].gen = volumes[u].gen
      /\ PlacementSeen[u].life = lives[u]
  <2>1. PlacementSeen[u] = SeenAs(volumes[u], lives[u])
    BY DEF PlacementSeen
  <2> QED
    BY <1>1, <2>1, SeenBound
<1>7. Seen!Release(u)
  BY <1>4, <1>5, <1>6 DEF Seen!Release
<1> QED
  BY <1>7 DEF Seen!PlacementNext

LEMMA MigrateIsBeginMove ==
  ASSUME TypeOK, NEW u \in Volumes, NEW source \in Zones, NEW target \in Zones,
         NEW h \in Hypervisors, NEW m \in VMs \cup {None},
         MigrateVolumeToZone(u, source, target, h, m)
  PROVE  Seen!PlacementNext
<1> DEFINE mig == [source_zone |-> source, target_zone |-> target,
                   pre_hv |-> volumes[u].hv, pre_vm |-> volumes[u].vm]
           r == [volumes[u] EXCEPT !.state = "Migrating", !.vm = m, !.hv = h,
                                   !.gen = volumes[u].gen + 1, !.migration = mig]
<1>1. volumes[u] \in VolumeRecord /\ volumes[u].state = "Available"
  BY DEF TypeOK, MigrateVolumeToZone
<1>2. volumes' = [volumes EXCEPT ![u] = r] /\ lives' = lives
  BY DEF MigrateVolumeToZone
<1> HIDE DEF mig
<1>3. r.state = "Migrating" /\ r.gen = volumes[u].gen + 1
  BY <1>1 DEF VolumeRecord
<1> HIDE DEF r
<1>4. PlacementSeen' = [PlacementSeen EXCEPT ![u] = SeenAs(r, lives[u])]
  BY <1>2, SeenKept
<1>5. SeenAs(r, lives[u]) = [state |-> "Moving", hv |-> None, vm |-> None,
                             gen |-> volumes[u].gen + 1, life |-> lives[u]]
  BY <1>3, SeenMoving
<1>6. /\ PlacementSeen[u].state \in {"Unassigned", "Idle"}
      /\ PlacementSeen[u].gen = volumes[u].gen
      /\ PlacementSeen[u].life = lives[u]
  <2>1. PlacementSeen[u] = SeenAs(volumes[u], lives[u])
    BY DEF PlacementSeen
  <2> QED
    BY <1>1, <2>1, SeenAvailable
<1>7. Seen!BeginMove(u)
  BY <1>4, <1>5, <1>6 DEF Seen!BeginMove
<1> QED
  BY <1>7 DEF Seen!PlacementNext

\* Completion and rollback alike.
LEMMA SettleIsEndMove ==
  ASSUME TypeOK, NEW u \in Volumes, NEW r, volumes[u].state = "Migrating",
         volumes' = [volumes EXCEPT ![u] = r], lives' = lives,
         r.state = "Available", r.gen = volumes[u].gen,
         r.hv \in Hypervisors \cup {None}, r.vm \in VMs \cup {None}
  PROVE  Seen!PlacementNext
<1>1. PlacementSeen' = [PlacementSeen EXCEPT ![u] = SeenAs(r, lives[u])]
  BY SeenKept
<1>2. /\ PlacementSeen[u].state = "Moving"
      /\ PlacementSeen[u].gen = volumes[u].gen
      /\ PlacementSeen[u].life = lives[u]
  <2>1. PlacementSeen[u] = SeenAs(volumes[u], lives[u])
    BY DEF PlacementSeen
  <2> QED
    BY <2>1, SeenMoving
<1>3. PICK m \in VMs \cup {None} : m = IF r.hv = None THEN None ELSE r.vm
  OBVIOUS
<1>4. SeenAs(r, lives[u]) =
        [state |-> IF r.hv = None THEN "Unassigned" ELSE "Idle", hv |-> r.hv,
         vm |-> m, gen |-> volumes[u].gen, life |-> lives[u]]
  BY <1>3, SeenAvailable
<1>5. Seen!EndMove(u, r.hv, m)
  BY <1>1, <1>2, <1>3, <1>4 DEF Seen!EndMove
<1> QED
  BY <1>5 DEF Seen!PlacementNext

LEMMA DeleteIsRetire ==
  ASSUME TypeOK, NEW u \in Volumes, NEW c \in BOOLEAN, NEW t \in Times,
         DeleteVolume(u, c, t)
  PROVE  Seen!PlacementNext
<1> DEFINE r == [volumes[u] EXCEPT !.state = "Deleted", !.vm = None, !.hv = None,
                                   !.deleted_at = t]
<1>1. /\ volumes[u] \in VolumeRecord
      /\ volumes[u].state \in {"Available", "Attached", "Migrating"}
  BY DEF TypeOK, DeleteVolume, VolumeRecord
<1>2. volumes' = [volumes EXCEPT ![u] = r] /\ lives' = lives
  BY DEF DeleteVolume
<1>3. r.state = "Deleted"
  BY <1>1 DEF VolumeRecord
<1> HIDE DEF r
<1>4. PlacementSeen' = [PlacementSeen EXCEPT ![u] = SeenAs(r, lives[u])]
  BY <1>2, SeenKept
<1>5. SeenAs(r, lives[u]) = [state |-> "Gone", hv |-> None, vm |-> None,
                             gen |-> 0, life |-> lives[u]]
  BY <1>3, SeenGone
<1>6. PlacementSeen[u].state # "Gone" /\ PlacementSeen[u].life = lives[u]
  <2>1. PlacementSeen[u] = SeenAs(volumes[u], lives[u])
    BY DEF PlacementSeen
  <2> QED
    BY <1>1, <2>1, SeenAvailable, SeenBound, SeenMoving
<1>7. Seen!Retire(u)
  BY <1>4, <1>5, <1>6 DEF Seen!Retire, Seen!Gone
<1> QED
  BY <1>7 DEF Seen!PlacementNext

\* A tombstone and a purged volume look the same.
LEMMA PurgeIsUnseen ==
  ASSUME NEW now \in Times, NEW age \in Times, PurgeTombstones(now, age)
  PROVE  PlacementSeen' = PlacementSeen
<1>1. ASSUME NEW v \in Volumes
      PROVE  SeenAs(volumes'[v], lives'[v]) = SeenAs(volumes[v], lives[v])
  <2>1. CASE Expired(v, now, age)
    <3>1. volumes'[v].state = "Absent" /\ lives'[v] = lives[v]
      BY <2>1 DEF PurgeTombstones, NoVolume
    <3>2. volumes[v].state = "Deleted"
      BY <2>1 DEF Expired
    <3> QED
      BY <3>1, <3>2, SeenGone
  <2>2. CASE ~Expired(v, now, age)
    BY <2>2 DEF PurgeTombstones
  <2> QED
    BY <2>1, <2>2
<1> QED
  BY <1>1 DEF PlacementSeen

LEMMA ResizeIsUnseen ==
  ASSUME TypeOK, NEW u \in Volumes, NEW size \in Sizes, ResizeVolume(u, size)
  PROVE  PlacementSeen' = PlacementSeen
<1> DEFINE r == [volumes[u] EXCEPT !.size = size]
<1>1. volumes[u] \in VolumeRecord /\ volumes[u].state = "Available"
  BY DEF TypeOK, ResizeVolume
<1>2. r.state = "Available" /\ r.hv = volumes[u].hv /\ r.vm = volumes[u].vm
      /\ r.gen = volumes[u].gen
  BY <1>1 DEF VolumeRecord
<1>3. volumes' = [volumes EXCEPT ![u] = r] /\ lives' = lives
  BY DEF ResizeVolume
<1> HIDE DEF r
<1>4. PlacementSeen' = [PlacementSeen EXCEPT ![u] = SeenAs(r, lives[u])]
  BY <1>3, SeenKept
<1>5. SeenAs(r, lives[u]) = SeenAs(volumes[u], lives[u])
  BY <1>1, <1>2, SeenAvailable
<1> QED
  BY <1>4, <1>5 DEF PlacementSeen

LEMMA StepImplements ==
  ASSUME TypeOK, Next
  PROVE  Seen!PlacementNext \/ PlacementSeen' = PlacementSeen
<1>1. CASE PlacementStep
  BY <1>1, SeenSame, RescheduleVmIsGrant DEF PlacementStep, PlaceVm, RemoveVm
<1>2. CASE VolumeStep
  <2>1. ASSUME NEW u \in Volumes, NEW n \in Names, NEW p \in Projects,
               NEW t \in Types, NEW size \in Sizes,
               NEW h \in Hypervisors \cup {None}, NEW z \in Zones \cup {None},
               CreateVolume(u, n, p, t, size, h, z)
        PROVE  Seen!PlacementNext
    <3>1. /\ ~Present(u)
          /\ volumes' = [volumes EXCEPT ![u] = NewVolume(n, p, t, size, h, z)]
          /\ lives' = [lives EXCEPT ![u] = lives[u] + 1]
      BY <2>1 DEF CreateVolume
    <3> QED
      BY <3>1, NewIsCreate
  <2>2. ASSUME NEW u \in Volumes, NEW m \in VMs, NEW h \in Hypervisors,
               VolumeAttach(u, m, h)
        PROVE  Seen!PlacementNext
    <3> DEFINE r == [volumes[u] EXCEPT !.state = "Attached", !.vm = m, !.hv = h,
                                       !.gen = volumes[u].gen + 1]
    <3>1. volumes[u] \in VolumeRecord /\ volumes[u].state = "Available"
      BY <2>2 DEF TypeOK, VolumeAttach
    <3>2. /\ r.state = "Attached" /\ r.vm = m /\ r.hv = h
          /\ r.gen = volumes[u].gen + 1
      BY <3>1 DEF VolumeRecord
    <3>3. volumes' = [volumes EXCEPT ![u] = r] /\ lives' = lives
      BY <2>2 DEF VolumeAttach
    <3> HIDE DEF r
    <3> QED
      BY <3>1, <3>2, <3>3, AttachIsGrant
  <2>3. ASSUME NEW u \in Volumes, NEW from \in Hypervisors,
               NEW to \in Hypervisors, NEW m \in VMs,
               RescheduleVolume(u, from, to, m)
        PROVE  Seen!PlacementNext
    <3> DEFINE r == [volumes[u] EXCEPT !.hv = to, !.vm = m,
                                       !.gen = volumes[u].gen + 1]
    <3>1. volumes[u] \in VolumeRecord /\ volumes[u].state = "Attached"
      BY <2>3 DEF TypeOK, RescheduleVolume
    <3>2. /\ r.state = "Attached" /\ r.vm = m /\ r.hv = to
          /\ r.gen = volumes[u].gen + 1
      BY <3>1 DEF VolumeRecord
    <3>3. volumes' = [volumes EXCEPT ![u] = r] /\ lives' = lives
      BY <2>3 DEF RescheduleVolume
    <3> HIDE DEF r
    <3> QED
      BY <3>1, <3>2, <3>3, AttachIsGrant
  <2> QED
    BY <1>2, <2>1, <2>2, <2>3, DeleteIsRetire, PurgeIsUnseen, DetachIsRelease,
       ResizeIsUnseen DEF VolumeStep
<1>3. CASE MigrationStep
  <2>1. ASSUME NEW u \in Volumes, CompleteMigration(u)
        PROVE  Seen!PlacementNext
    <3> DEFINE r == [volumes[u] EXCEPT !.state = "Available",
                                       !.migration = NoMigration]
    <3>1. volumes[u] \in VolumeRecord /\ volumes[u].state = "Migrating"
      BY <2>1 DEF TypeOK, CompleteMigration
    <3>2. /\ r.state = "Available" /\ r.gen = volumes[u].gen
          /\ r.hv \in Hypervisors \cup {None} /\ r.vm \in VMs \cup {None}
      BY <3>1 DEF VolumeRecord
    <3>3. volumes' = [volumes EXCEPT ![u] = r] /\ lives' = lives
      BY <2>1 DEF CompleteMigration
    <3> HIDE DEF r
    <3> QED
      BY <3>1, <3>2, <3>3, SettleIsEndMove
  <2>2. ASSUME NEW u \in Volumes, RollbackMigration(u)
        PROVE  Seen!PlacementNext
    <3> DEFINE m == volumes[u].migration.pre_vm
               h == volumes[u].migration.pre_hv
               r == [volumes[u] EXCEPT !.state = "Available", !.vm = m, !.hv = h,
                                       !.migration = NoMigration]
    <3>1. volumes[u] \in VolumeRecord /\ volumes[u].state = "Migrating"
      BY <2>2 DEF TypeOK, RollbackMigration
    <3>2. m \in VMs \cup {None} /\ h \in Hypervisors \cup {None}
      BY <3>1 DEF VolumeRecord, MigrationRecord
    <3>3. volumes' = [volumes EXCEPT ![u] = r] /\ lives' = lives
      BY <2>2 DEF RollbackMigration
    <3> HIDE DEF m, h
    <3>4. /\ r.state = "Available" /\ r.gen = volumes[u].gen
          /\ r.hv = h /\ r.vm = m
      BY <3>1 DEF VolumeRecord
    <3> HIDE DEF r
    <3> QED
      BY <3>1, <3>2, <3>3, <3>4, SettleIsEndMove
  <2> QED
    BY <1>3, <2>1, <2>2, MigrateIsBeginMove DEF MigrationStep
<1>4. CASE SnapshotStep
  <2>1. ASSUME NEW s \in Snapshots, NEW u \in Volumes, NEW n \in Names,
               RestoreSnapshot(s, u, n)
        PROVE  Seen!PlacementNext
    <3>1. PICK p, t, size :
            volumes' = [volumes EXCEPT ![u] = NewVolume(n, p, t, size, None, None)]
      BY <2>1 DEF RestoreSnapshot
    <3>2. ~Present(u) /\ lives' = [lives EXCEPT ![u] = lives[u] + 1]
      BY <2>1 DEF RestoreSnapshot
    <3> QED
      BY <3>1, <3>2, NewIsCreate
  <2> QED
    BY <1>4, <2>1, SeenSame
       DEF SnapshotStep, CreateSnapshot, DeleteSnapshot, MarkRestoreBegin,
           MarkRestoreComplete
<1>5. CASE GcStep
  BY <1>5, SeenSame DEF GcStep, CommitManifest, GcCompleteSsts, GcCompleteWalSegments
<1>6. CASE SettingStep
  BY <1>6, SeenSame DEF SettingStep, SetStorageQuota, SetStorageConfig
<1> QED
  BY <1>1, <1>2, <1>3, <1>4, <1>5, <1>6 DEF Next

\* The storage state machine implements VolumePlacement for every set of
\* volumes, hypervisors, VMs and snapshots: whatever commands are applied, a
\* volume changes hands only under a new placement generation.
THEOREM Implements == Spec => ImplementsPlacement
<1>1. Init => Seen!PlacementInit
  <2> SUFFICES ASSUME Init PROVE Seen!PlacementInit
    OBVIOUS
  <2>1. ASSUME NEW v \in Volumes
        PROVE  SeenAs(volumes[v], lives[v]) = Seen!Gone(0)
    BY SeenGone DEF Init, NoVolume, Seen!Gone
  <2> QED
    BY <2>1 DEF PlacementSeen, Seen!PlacementInit
<1>2. TypeOK /\ [Next]_vars => [Seen!PlacementNext]_PlacementSeen
  <2> SUFFICES ASSUME TypeOK, [Next]_vars
               PROVE  Seen!PlacementNext \/ PlacementSeen' = PlacementSeen
    OBVIOUS
  <2>1. CASE Next
    BY <2>1, StepImplements
  <2>2. CASE UNCHANGED vars
    BY <2>2, SeenSame DEF vars, state
  <2> QED
    BY <2>1, <2>2
<1> QED
  BY <1>1, <1>2, TypeCorrect, PTL DEF Spec, ImplementsPlacement, Seen!PlacementSpec
=============================================================================
