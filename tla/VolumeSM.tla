------------------------------ MODULE VolumeSM ------------------------------
(***************************************************************************)
(* The storage half of the replicated state machine of the control plane   *)
(* (layers/controlplane/src/state_machine.rs): volumes and their placement *)
(* generation, manifest pointers, snapshots, SST reference counts, quotas, *)
(* cross-zone migration, tombstones, and the VM placements whose           *)
(* rescheduling moves volumes.                                             *)
(*                                                                         *)
(* Raft serialises apply_command, so one action is one applied command.  A *)
(* command that is answered with an Error changes nothing: its guard is    *)
(* false here.  Absent map entries are records whose state is "Absent",    *)
(* and Option::None is the constant None.  The redb mirror kept by         *)
(* sync_volume_to_store is a function of volumes, see VolumesByHypervisor. *)
(***************************************************************************)
EXTENDS Naturals, FiniteSets, FiniteSetsExt

CONSTANTS
    Volumes,       \* volume ids
    Snapshots,     \* snapshot ids
    Ssts,          \* SST object keys
    Hypervisors,   \* hypervisor ids
    VMs,           \* VM ids
    Zones,         \* zones that can be given a storage config
    Projects,      \* the projects of one organisation, one environment each
    Org,           \* the quota scope of that organisation
    Names,         \* volume names
    Types,         \* the volume types in use, among "Root" and "Data"
    Sizes,         \* volume sizes in GB
    Quotas,        \* the quota records an operator may set
    WalPositions,  \* WAL positions
    Times,         \* wall-clock seconds carried by commands
    VmGenerations, \* generations a scheduler writes into VM placements
    None,          \* Option::None
    MaxGeneration, \* bound on placement_generation
    MaxVersion,    \* bound on manifest_version
    MaxLives       \* bound on how often one volume id is created

ASSUME ConstantsAssumption ==
    /\ MaxGeneration \in Nat /\ MaxVersion \in Nat /\ MaxLives \in Nat
    /\ None \notin Hypervisors \cup VMs \cup Zones
    /\ Org \notin Projects
    /\ Types \subseteq {"Root", "Data"}
    /\ VmGenerations \subseteq Nat
    /\ Sizes \subseteq Nat /\ WalPositions \subseteq Nat /\ Times \subseteq Nat
    /\ None \notin WalPositions /\ None \notin Times /\ None \notin Quotas /\ None \notin Nat
    /\ Quotas \subseteq [volumes : Nat, gb : Nat, snapshots : Nat]
    /\ IsFiniteSet(Snapshots) /\ IsFiniteSet(Volumes)

VARIABLES
    volumes,     \* StorageState.volumes
    snapshots,   \* StorageState.snapshots
    refs,        \* StorageState.sst_refcounts, 0 for an absent key
    pending,     \* StorageState.pending_gc_ssts, as a set
    restores,    \* StorageState.restores_in_progress
    minWal,      \* StorageState.min_wal_position
    manifests,   \* StorageState.manifest_pointers, version 0 when absent
    quotas,      \* StorageState.quotas
    configs,     \* zones with a StorageState.storage_configs entry
    placements,  \* PlacementStore: the hypervisor and generation of each VM
    lives,       \* history: how often each volume id has been created
    assigned,    \* history: who was ever asked to serve which generation
    restored     \* history: the SSTs each RestoreSnapshot took references on

state == <<volumes, snapshots, refs, pending, restores, minWal, manifests,
           quotas, configs, placements>>
vars == <<state, lives, assigned, restored>>

-----------------------------------------------------------------------------
(* Records.                                                                *)

\* The migration_* and pre_migration_* fields of a volume.
MigrationRecord ==
    [source_zone : Zones \cup {None}, target_zone : Zones \cup {None},
     pre_hv : Hypervisors \cup {None}, pre_vm : VMs \cup {None}]

NoMigration ==
    [source_zone |-> None, target_zone |-> None, pre_hv |-> None, pre_vm |-> None]

VolumeRecord ==
    [state : {"Absent", "Available", "Attached", "Migrating", "Deleted"},
     name : Names \cup {None}, project : Projects \cup {None},
     type : Types \cup {None}, size : Nat,
     vm : VMs \cup {None}, hv : Hypervisors \cup {None}, gen : Nat,
     zone : Zones \cup {None}, deleted_at : Times \cup {None},
     migration : MigrationRecord]

NoVolume ==
    [state |-> "Absent", name |-> None, project |-> None, type |-> None,
     size |-> 0, vm |-> None, hv |-> None, gen |-> 0, zone |-> None,
     deleted_at |-> None, migration |-> NoMigration]

\* A fresh volume.  One created for a hypervisor starts at generation 1 there.
NewVolume(n, p, t, size, h, z) ==
    [state |-> "Available", name |-> n, project |-> p, type |-> t,
     size |-> size, vm |-> None, hv |-> h,
     gen |-> IF h = None THEN 0 ELSE 1, zone |-> z,
     deleted_at |-> None, migration |-> NoMigration]

SnapshotRecord ==
    [state : {"Absent", "Available", "Deleted"}, source : Volumes \cup {None},
     ssts : SUBSET Ssts, wal : Nat, project : Projects \cup {None},
     size : Nat, type : Types \cup {None}]

NoSnapshot ==
    [state |-> "Absent", source |-> None, ssts |-> {}, wal |-> 0,
     project |-> None, size |-> 0, type |-> None]

ManifestPointerRecord ==
    [gen : Nat, version : Nat, by : Hypervisors \cup {None}, life : Nat]

PlacementRecord == [hv : Hypervisors \cup {None}, gen : Nat]

NoPlacement == [hv |-> None, gen |-> 0]

NoManifest == [gen |-> 0, version |-> 0, by |-> None, life |-> 0]

Present(v) == volumes[v].state # "Absent"

Live(s) == snapshots[s].state = "Available"

LiveSnapshots == {s \in Snapshots : Live(s)}

-----------------------------------------------------------------------------
(* Quotas.  A project's own quota hides the organisation's.                *)

EffectiveScope(p) == IF quotas[p] # None THEN p ELSE Org

InScope(q, p) == q = Org \/ q = p

ScopeVolumes(q) ==
    {v \in Volumes : /\ volumes[v].state \notin {"Absent", "Deleted"}
                     /\ InScope(q, volumes[v].project)}

ScopeSnapshots(q) == {s \in LiveSnapshots : InScope(q, snapshots[s].project)}

TotalGb(q) == MapThenSumSet(LAMBDA v : volumes[v].size, ScopeVolumes(q))

Limited(p) == quotas[EffectiveScope(p)] # None

\* Mutant: a full scope takes one volume more.
VolumeQuotaOk_OffByOne(p, size) ==
    LET q == EffectiveScope(p)
    IN  Limited(p) => /\ Cardinality(ScopeVolumes(q)) <= quotas[q].volumes
                      /\ TotalGb(q) + size <= quotas[q].gb

VolumeQuotaOk(p, size) ==
    LET q == EffectiveScope(p)
    IN  Limited(p) => /\ Cardinality(ScopeVolumes(q)) < quotas[q].volumes
                      /\ TotalGb(q) + size <= quotas[q].gb

ResizeQuotaOk(p, delta) ==
    LET q == EffectiveScope(p)
    IN  Limited(p) => TotalGb(q) + delta <= quotas[q].gb

SnapshotQuotaOk(p) ==
    LET q == EffectiveScope(p)
    IN  Limited(p) => Cardinality(ScopeSnapshots(q)) < quotas[q].snapshots

-----------------------------------------------------------------------------
(* Placements of VMs and the volumes that follow them.                     *)

PlaceVm(m, h, g) ==
    /\ placements' = [placements EXCEPT ![m] = [hv |-> h, gen |-> g]]
    /\ UNCHANGED <<volumes, snapshots, refs, pending, restores, minWal,
                   manifests, quotas, configs, lives, restored>>

RemoveVm(m) ==
    /\ placements[m] # NoPlacement
    /\ placements' = [placements EXCEPT ![m] = NoPlacement]
    /\ UNCHANGED <<volumes, snapshots, refs, pending, restores, minWal,
                   manifests, quotas, configs, lives, restored>>

\* The volumes attached to VM m on hypervisor h.
VolumesOf(m, h) ==
    {v \in Volumes : /\ volumes[v].state = "Attached"
                     /\ volumes[v].vm = m
                     /\ volumes[v].hv = h}

\* Mutant: the volumes move without a new generation.
RescheduleVm_NoBump(m, from, to, g) ==
    /\ placements[m] # NoPlacement
    /\ placements' = [placements EXCEPT ![m] = [hv |-> to, gen |-> g]]
    /\ volumes' = [v \in Volumes |->
                     IF v \in VolumesOf(m, from)
                     THEN [volumes[v] EXCEPT !.hv = to] ELSE volumes[v]]
    /\ UNCHANGED <<snapshots, refs, pending, restores, minWal, manifests,
                   quotas, configs, lives, restored>>

\* The placement is rewritten whatever hypervisor it named; only the volumes
\* that are on `from` follow.
RescheduleVm(m, from, to, g) ==
    /\ placements[m] # NoPlacement
    /\ \A v \in VolumesOf(m, from) : volumes[v].gen < MaxGeneration
    /\ placements' = [placements EXCEPT ![m] = [hv |-> to, gen |-> g]]
    /\ volumes' = [v \in Volumes |->
                     IF v \in VolumesOf(m, from)
                     THEN [volumes[v] EXCEPT !.hv = to, !.gen = @ + 1]
                     ELSE volumes[v]]
    /\ UNCHANGED <<snapshots, refs, pending, restores, minWal, manifests,
                   quotas, configs, lives, restored>>

-----------------------------------------------------------------------------
(* Volumes.                                                                *)

\* Mutant: tombstones are not compared.
NameTaken_LiveOnly(n, p) ==
    \E v \in Volumes : /\ volumes[v].state \notin {"Absent", "Deleted"}
                       /\ volumes[v].name = n
                       /\ volumes[v].project = p

\* Names are compared with tombstones too.
NameTaken(n, p) ==
    \E v \in Volumes : /\ Present(v)
                       /\ volumes[v].name = n
                       /\ volumes[v].project = p

CreateVolume(v, n, p, t, size, h, z) ==
    /\ VolumeQuotaOk(p, size)
    /\ ~NameTaken(n, p)
    /\ ~Present(v)
    /\ lives[v] < MaxLives
    /\ volumes' = [volumes EXCEPT ![v] = NewVolume(n, p, t, size, h, z)]
    /\ lives' = [lives EXCEPT ![v] = @ + 1]
    /\ UNCHANGED <<snapshots, refs, pending, restores, minWal, manifests,
                   quotas, configs, placements, restored>>

\* The counters of the SSTs of the snapshots D are decremented; an SST whose
\* count reaches zero is queued for collection.  (DeleteSnapshot skips a key
\* without a counter and the cascade of DeleteVolume queues it; RefcountExact
\* excludes that case.)  The retained WAL position is recomputed.
Holding(x, D) == {s \in D : x \in snapshots[s].ssts}

Monus(a, b) == IF a >= b THEN a - b ELSE 0

MinWalOf(D) == IF D = {} THEN None ELSE Min({snapshots[s].wal : s \in D})

\* Mutant: an SST shared by several of the snapshots is released once.
Retire_Once(D) ==
    /\ snapshots' = [s \in Snapshots |->
                       IF s \in D THEN [snapshots[s] EXCEPT !.state = "Deleted"]
                                  ELSE snapshots[s]]
    /\ refs' = [x \in Ssts |-> IF Holding(x, D) = {} THEN refs[x]
                                                    ELSE Monus(refs[x], 1)]
    /\ pending' = pending \cup {x \in Ssts : Holding(x, D) # {} /\ refs[x] <= 1}
    /\ minWal' = MinWalOf(LiveSnapshots \ D)

Retire(D) ==
    /\ snapshots' = [s \in Snapshots |->
                       IF s \in D THEN [snapshots[s] EXCEPT !.state = "Deleted"]
                                  ELSE snapshots[s]]
    /\ refs' = [x \in Ssts |-> Monus(refs[x], Cardinality(Holding(x, D)))]
    /\ pending' = pending \cup
                  {x \in Ssts : /\ Holding(x, D) # {}
                                /\ refs[x] <= Cardinality(Holding(x, D))}
    /\ minWal' = MinWalOf(LiveSnapshots \ D)

\* Mutant: the cascade does not look at the restores in progress.
DeleteVolume_NoRestoreGuard(v, cascade, t) ==
    LET D == {s \in LiveSnapshots : snapshots[s].source = v}
    IN  /\ volumes[v].state \notin {"Absent", "Deleted"}
        /\ volumes[v].state = "Attached" => volumes[v].type = "Root"
        /\ D # {} => cascade
        /\ IF cascade THEN Retire(D)
                      ELSE UNCHANGED <<snapshots, refs, pending, minWal>>
        /\ volumes' = [volumes EXCEPT ![v] =
                     [@ EXCEPT !.state = "Deleted", !.vm = None, !.hv = None,
                               !.deleted_at = t]]
        /\ UNCHANGED <<restores, manifests, quotas, configs, placements,
                       lives, restored>>

\* A root volume may be deleted while attached.  (deletion_protection, also
\* tested here, is set by no command.)  Generation, migration fields and the
\* manifest pointer survive in the tombstone.
DeleteVolume(v, cascade, t) ==
    LET D == {s \in LiveSnapshots : snapshots[s].source = v}
    IN  /\ volumes[v].state \notin {"Absent", "Deleted"}
        /\ volumes[v].state = "Attached" => volumes[v].type = "Root"
        /\ D # {} => cascade
        /\ cascade => D \cap restores = {}
        /\ IF cascade THEN Retire(D)
                      ELSE UNCHANGED <<snapshots, refs, pending, minWal>>
        /\ volumes' = [volumes EXCEPT ![v] =
                     [@ EXCEPT !.state = "Deleted", !.vm = None, !.hv = None,
                               !.deleted_at = t]]
        /\ UNCHANGED <<restores, manifests, quotas, configs, placements,
                       lives, restored>>

Expired(v, now, age) ==
    /\ volumes[v].state = "Deleted"
    /\ Monus(now, volumes[v].deleted_at) >= age

\* Manifest pointers of the purged volumes stay behind.
PurgeTombstones(now, age) ==
    /\ volumes' = [v \in Volumes |->
                     IF Expired(v, now, age) THEN NoVolume ELSE volumes[v]]
    /\ UNCHANGED <<snapshots, refs, pending, restores, minWal, manifests,
                   quotas, configs, placements, lives, restored>>

\* Mutant: attaching keeps the generation.
VolumeAttach_NoBump(v, m, h) ==
    /\ volumes[v].state = "Available"
    /\ volumes' = [volumes EXCEPT ![v] =
                     [@ EXCEPT !.state = "Attached", !.vm = m, !.hv = h]]
    /\ UNCHANGED <<snapshots, refs, pending, restores, minWal, manifests,
                   quotas, configs, placements, lives, restored>>

VolumeAttach(v, m, h) ==
    /\ volumes[v].state = "Available"
    /\ volumes[v].gen < MaxGeneration
    /\ volumes' = [volumes EXCEPT ![v] =
                     [@ EXCEPT !.state = "Attached", !.vm = m, !.hv = h,
                               !.gen = volumes[v].gen + 1]]
    /\ UNCHANGED <<snapshots, refs, pending, restores, minWal, manifests,
                   quotas, configs, placements, lives, restored>>

\* Clears the manifest pointer: the next writer starts again at version 1.
VolumeDetach(v) ==
    /\ volumes[v].type # "Root"
    /\ volumes[v].state = "Attached"
    /\ volumes' = [volumes EXCEPT ![v] =
                     [@ EXCEPT !.state = "Available", !.vm = None, !.hv = None]]
    /\ manifests' = [manifests EXCEPT ![v] = NoManifest]
    /\ UNCHANGED <<snapshots, refs, pending, restores, minWal, quotas,
                   configs, placements, lives, restored>>

\* Mutant: the generation is kept.
RescheduleVolume_NoBump(v, from, to, m) ==
    /\ from # to
    /\ volumes[v].state = "Attached"
    /\ volumes[v].hv = from
    /\ volumes' = [volumes EXCEPT ![v] = [@ EXCEPT !.hv = to, !.vm = m]]
    /\ UNCHANGED <<snapshots, refs, pending, restores, minWal, manifests,
                   quotas, configs, placements, lives, restored>>

RescheduleVolume(v, from, to, m) ==
    /\ from # to
    /\ volumes[v].state = "Attached"
    /\ volumes[v].hv = from
    /\ volumes[v].gen < MaxGeneration
    /\ volumes' = [volumes EXCEPT ![v] =
                     [@ EXCEPT !.hv = to, !.vm = m, !.gen = volumes[v].gen + 1]]
    /\ UNCHANGED <<snapshots, refs, pending, restores, minWal, manifests,
                   quotas, configs, placements, lives, restored>>

ResizeVolume(v, size) ==
    /\ volumes[v].state = "Available"
    /\ size > volumes[v].size
    /\ ResizeQuotaOk(volumes[v].project, size - volumes[v].size)
    /\ volumes' = [volumes EXCEPT ![v] = [@ EXCEPT !.size = size]]
    /\ UNCHANGED <<snapshots, refs, pending, restores, minWal, manifests,
                   quotas, configs, placements, lives, restored>>

-----------------------------------------------------------------------------
(* Cross-zone migration.                                                   *)

\* The source zone named by the caller is not compared with the volume's.
MigrateVolumeToZone(v, source, target, h, m) ==
    /\ source # target
    /\ {source, target} \subseteq configs
    /\ volumes[v].state = "Available"
    /\ volumes[v].gen < MaxGeneration
    /\ volumes' = [volumes EXCEPT ![v] =
                     [@ EXCEPT !.state = "Migrating", !.vm = m, !.hv = h,
                               !.gen = volumes[v].gen + 1,
                               !.migration = [source_zone |-> source,
                                              target_zone |-> target,
                                              pre_hv |-> volumes[v].hv,
                                              pre_vm |-> volumes[v].vm]]]
    /\ UNCHANGED <<snapshots, refs, pending, restores, minWal, manifests,
                   quotas, configs, placements, lives, restored>>

CompleteMigration(v) ==
    /\ volumes[v].state = "Migrating"
    /\ volumes' = [volumes EXCEPT ![v] =
                     [@ EXCEPT !.state = "Available", !.migration = NoMigration]]
    /\ UNCHANGED <<snapshots, refs, pending, restores, minWal, manifests,
                   quotas, configs, placements, lives, restored>>

\* Mutant: the saved placement is copied, not taken.
RollbackMigration_Copy(v) ==
    /\ volumes[v].state = "Migrating"
    /\ volumes' = [volumes EXCEPT ![v] =
                     [@ EXCEPT !.state = "Available",
                               !.vm = volumes[v].migration.pre_vm,
                               !.hv = volumes[v].migration.pre_hv]]
    /\ UNCHANGED <<snapshots, refs, pending, restores, minWal, manifests,
                   quotas, configs, placements, lives, restored>>

RollbackMigration(v) ==
    /\ volumes[v].state = "Migrating"
    /\ volumes' = [volumes EXCEPT ![v] =
                     [@ EXCEPT !.state = "Available",
                               !.vm = volumes[v].migration.pre_vm,
                               !.hv = volumes[v].migration.pre_hv,
                               !.migration = NoMigration]]
    /\ UNCHANGED <<snapshots, refs, pending, restores, minWal, manifests,
                   quotas, configs, placements, lives, restored>>

-----------------------------------------------------------------------------
(* Snapshots and restores.                                                 *)

\* Takes one reference on every SST of X.
AddRefs(X) == refs' = [x \in Ssts |-> IF x \in X THEN refs[x] + 1 ELSE refs[x]]

\* The source volume only has to be recorded: a tombstone will do.
CreateSnapshot(s, v, X, wal) ==
    /\ Present(v)
    /\ SnapshotQuotaOk(volumes[v].project)
    /\ snapshots[s].state = "Absent"
    /\ AddRefs(X)
    /\ snapshots' = [snapshots EXCEPT ![s] =
                       [state |-> "Available", source |-> v, ssts |-> X,
                        wal |-> wal, project |-> volumes[v].project,
                        size |-> volumes[v].size, type |-> volumes[v].type]]
    /\ minWal' = IF minWal = None THEN wal ELSE Min({minWal, wal})
    /\ UNCHANGED <<volumes, pending, restores, manifests, quotas, configs,
                   placements, lives, restored>>

DeleteSnapshot(s) ==
    /\ s \notin restores
    /\ Live(s)
    /\ Retire({s})
    /\ UNCHANGED <<volumes, restores, manifests, quotas, configs, placements,
                   lives, restored>>

\* The restored volume takes references on the snapshot's SSTs and starts
\* from a seeded manifest pointer (generation 0, version 1).
RestoreSnapshot(s, v, n) ==
    /\ Live(s)
    /\ VolumeQuotaOk(snapshots[s].project, snapshots[s].size)
    /\ ~NameTaken(n, snapshots[s].project)
    /\ ~Present(v)
    /\ lives[v] < MaxLives
    /\ AddRefs(snapshots[s].ssts)
    /\ manifests' = [manifests EXCEPT ![v] =
                       [gen |-> 0, version |-> 1, by |-> None,
                        life |-> lives[v] + 1]]
    /\ volumes' = [volumes EXCEPT ![v] =
                     NewVolume(n, snapshots[s].project, snapshots[s].type,
                               snapshots[s].size, None, None)]
    /\ lives' = [lives EXCEPT ![v] = @ + 1]
    /\ restored' = restored \cup {[vol |-> v, life |-> lives[v] + 1,
                                   ssts |-> snapshots[s].ssts]}
    /\ UNCHANGED <<snapshots, pending, restores, minWal, quotas, configs,
                   placements>>

\* A deleted snapshot can be marked as well.
MarkRestoreBegin(s) ==
    /\ snapshots[s].state # "Absent"
    /\ restores' = restores \cup {s}
    /\ UNCHANGED <<volumes, snapshots, refs, pending, minWal, manifests,
                   quotas, configs, placements, lives, restored>>

MarkRestoreComplete(s) ==
    /\ restores' = restores \ {s}
    /\ UNCHANGED <<volumes, snapshots, refs, pending, minWal, manifests,
                   quotas, configs, placements, lives, restored>>

-----------------------------------------------------------------------------
(* Manifests and garbage collection.                                       *)

\* Mutant: any hypervisor may publish for the current generation.
CommitManifest_AnyPublisher(v, g, version, h) ==
    /\ volumes[v].state = "Attached"
    /\ g = volumes[v].gen
    /\ version = manifests[v].version + 1
    /\ manifests' = [manifests EXCEPT ![v] =
                       [gen |-> g, version |-> version, by |-> h,
                        life |-> lives[v]]]
    /\ UNCHANGED <<volumes, snapshots, refs, pending, restores, minWal,
                   quotas, configs, placements, lives, restored>>

CommitManifest(v, g, version, h) ==
    /\ volumes[v].state = "Attached"
    /\ g = volumes[v].gen
    /\ h = volumes[v].hv
    /\ version = manifests[v].version + 1
    /\ manifests' = [manifests EXCEPT ![v] =
                       [gen |-> g, version |-> version, by |-> h,
                        life |-> lives[v]]]
    /\ UNCHANGED <<volumes, snapshots, refs, pending, restores, minWal,
                   quotas, configs, placements, lives, restored>>

GcCompleteSsts(X) ==
    /\ pending' = pending \ X
    /\ UNCHANGED <<volumes, snapshots, refs, restores, minWal, manifests,
                   quotas, configs, placements, lives, restored>>

GcCompleteWalSegments(below) ==
    /\ minWal' = IF minWal = None \/ below > minWal THEN below ELSE minWal
    /\ UNCHANGED <<volumes, snapshots, refs, pending, restores, manifests,
                   quotas, configs, placements, lives, restored>>

-----------------------------------------------------------------------------
(* Operator settings.                                                      *)

SetStorageQuota(q, limit) ==
    /\ quotas' = [quotas EXCEPT ![q] = limit]
    /\ UNCHANGED <<volumes, snapshots, refs, pending, restores, minWal,
                   manifests, configs, placements, lives, restored>>

\* Mutant: an empty zone key is stored.
SetStorageConfig_NoZone(z) ==
    /\ configs' = configs \cup {None}
    /\ UNCHANGED <<volumes, snapshots, refs, pending, restores, minWal,
                   manifests, quotas, placements, lives, restored>>

SetStorageConfig(z) ==
    /\ configs' = configs \cup {z}
    /\ UNCHANGED <<volumes, snapshots, refs, pending, restores, minWal,
                   manifests, quotas, placements, lives, restored>>

-----------------------------------------------------------------------------
(* What the hypervisors read.                                              *)

\* The secondary index sync_volume_to_store keeps in redb.
VolumesByHypervisor(h) == {v \in Volumes : volumes[v].hv = h}

\* The volumes whose ZeroFS process the reconciler of h keeps running.
Desired(h) ==
    {v \in VolumesByHypervisor(h) : volumes[v].state \in {"Available", "Attached"}}

Assignments ==
    UNION {{[vol |-> v, life |-> lives[v], gen |-> volumes[v].gen, hv |-> h] :
              v \in Desired(h)} : h \in Hypervisors}

-----------------------------------------------------------------------------
Init ==
    /\ volumes = [v \in Volumes |-> NoVolume]
    /\ snapshots = [s \in Snapshots |-> NoSnapshot]
    /\ refs = [x \in Ssts |-> 0]
    /\ pending = {}
    /\ restores = {}
    /\ minWal = None
    /\ manifests = [v \in Volumes |-> NoManifest]
    /\ quotas = [q \in Projects \cup {Org} |-> None]
    /\ configs = {}
    /\ placements = [m \in VMs |-> NoPlacement]
    /\ lives = [v \in Volumes |-> 0]
    /\ assigned = {}
    /\ restored = {}

PlacementStep ==
    \/ \E m \in VMs, h \in Hypervisors, g \in VmGenerations : PlaceVm(m, h, g)
    \/ \E m \in VMs : RemoveVm(m)
    \/ \E m \in VMs, from, to \in Hypervisors, g \in VmGenerations :
          RescheduleVm(m, from, to, g)

VolumeStep ==
    \/ \E v \in Volumes, n \in Names, p \in Projects, t \in Types,
          size \in Sizes, h \in Hypervisors \cup {None},
          z \in Zones \cup {None} : CreateVolume(v, n, p, t, size, h, z)
    \/ \E v \in Volumes, c \in BOOLEAN, t \in Times : DeleteVolume(v, c, t)
    \/ \E now, age \in Times : PurgeTombstones(now, age)
    \/ \E v \in Volumes, m \in VMs, h \in Hypervisors : VolumeAttach(v, m, h)
    \/ \E v \in Volumes : VolumeDetach(v)
    \/ \E v \in Volumes, from, to \in Hypervisors, m \in VMs :
          RescheduleVolume(v, from, to, m)
    \/ \E v \in Volumes, size \in Sizes : ResizeVolume(v, size)

MigrationStep ==
    \/ \E v \in Volumes, source, target \in Zones, h \in Hypervisors,
          m \in VMs \cup {None} : MigrateVolumeToZone(v, source, target, h, m)
    \/ \E v \in Volumes : CompleteMigration(v)
    \/ \E v \in Volumes : RollbackMigration(v)

SnapshotStep ==
    \/ \E s \in Snapshots, v \in Volumes, X \in SUBSET Ssts,
          wal \in WalPositions : CreateSnapshot(s, v, X, wal)
    \/ \E s \in Snapshots : DeleteSnapshot(s)
    \/ \E s \in Snapshots, v \in Volumes, n \in Names : RestoreSnapshot(s, v, n)
    \/ \E s \in Snapshots : MarkRestoreBegin(s)
    \/ \E s \in Snapshots : MarkRestoreComplete(s)

GcStep ==
    \/ \E v \in Volumes, g \in 0..MaxGeneration, n \in 1..MaxVersion,
          h \in Hypervisors : CommitManifest(v, g, n, h)
    \/ \E X \in SUBSET Ssts : GcCompleteSsts(X)
    \/ \E below \in WalPositions : GcCompleteWalSegments(below)

SettingStep ==
    \/ \E q \in Projects \cup {Org}, limit \in Quotas : SetStorageQuota(q, limit)
    \/ \E z \in Zones : SetStorageConfig(z)

Next ==
    /\ PlacementStep \/ VolumeStep \/ MigrationStep \/ SnapshotStep
       \/ GcStep \/ SettingStep
    /\ assigned' = assigned \cup Assignments'

Spec == Init /\ [][Next]_vars

-----------------------------------------------------------------------------
(* Properties.                                                             *)

\* Type correctness of StorageState, the placement table and the histories.
TypeOK ==
    /\ volumes \in [Volumes -> VolumeRecord]
    /\ snapshots \in [Snapshots -> SnapshotRecord]
    /\ refs \in [Ssts -> Nat]
    /\ pending \subseteq Ssts
    /\ restores \subseteq Snapshots
    /\ minWal \in Nat \cup {None}
    /\ manifests \in [Volumes -> ManifestPointerRecord]
    /\ quotas \in [Projects \cup {Org} -> Quotas \cup {None}]
    /\ configs \subseteq Zones
    /\ placements \in [VMs -> PlacementRecord]
    /\ lives \in [Volumes -> Nat]
    /\ assigned \subseteq [vol : Volumes, life : Nat, gen : Nat, hv : Hypervisors]
    /\ restored \subseteq [vol : Volumes, life : Nat, ssts : SUBSET Ssts]

\* As long as a volume lives, no two hypervisors are ever asked to serve the
\* same generation of it, whatever mix of attach, detach, reschedule, VM
\* reschedule, migration and rollback commands moved it: the prefix
\* gen-{placement_generation}/ has one writer.
OneWriterPerGeneration ==
    \A a, b \in assigned :
        a.vol = b.vol /\ a.life = b.life /\ a.gen = b.gen => a.hv = b.hv

\* A hypervisor that becomes the writer of a volume gets a generation above
\* every one handed out before in this life of the volume, so an older writer
\* recognises itself as stale (storage_reconciler compares generations).
NewAssigneeIsNewer ==
    [][\A a \in assigned' \ assigned, b \in assigned :
          a.vol = b.vol /\ a.life = b.life => a.gen > b.gen]_vars

\* The committed manifest pointer of a volume is never ahead of its
\* generation, and whoever published it had been assigned that generation:
\* CommitManifest admits no stale or foreign writer, in any order of moves.
ManifestFenced ==
    \A v \in Volumes :
        LET m == manifests[v]
        IN  m.version > 0 /\ Present(v) /\ m.life = lives[v] =>
               /\ m.gen <= volumes[v].gen
               /\ m.by # None => [vol |-> v, life |-> m.life, gen |-> m.gen,
                                  hv |-> m.by] \in assigned

\* An attached volume names its VM and its hypervisor, a tombstone names
\* neither, and a volume outside migration or the tombstone keeps no trace of
\* a migration, so that a rollback always finds where to return to.
PlacementConsistent ==
    \A v \in Volumes :
        LET r == volumes[v]
        IN  /\ r.state = "Attached" => r.vm # None /\ r.hv # None /\ r.gen > 0
            /\ r.state = "Deleted" => r.vm = None /\ r.hv = None
            /\ r.state = "Migrating" =>
                  /\ {r.migration.source_zone, r.migration.target_zone} \subseteq configs
                  /\ r.migration.source_zone # r.migration.target_zone
            /\ r.state \in {"Available", "Attached"} => r.migration = NoMigration

\* The reference count of an SST is the number of live snapshots that list it
\* plus the number of restores that took it: the increments and decrements of
\* CreateSnapshot, RestoreSnapshot, DeleteSnapshot and a cascading
\* DeleteVolume balance, and no live snapshot's SST is ever at zero.
RestoreRefs(x) == {r \in restored : x \in r.ssts}

RefcountExact ==
    \A x \in Ssts : refs[x] = Cardinality(Holding(x, LiveSnapshots))
                              + Cardinality(RestoreRefs(x))

\* No command deletes a snapshot whose restore is in progress, neither
\* DeleteSnapshot nor the cascade of DeleteVolume.
RestoreBlocksDelete ==
    [][\A s \in Snapshots :
          Live(s) /\ snapshots'[s].state = "Deleted" => s \notin restores]_vars

\* A command that adds a volume or enlarges one leaves the usage of the scope
\* that governs it within that scope's limits (check_volume_quota,
\* check_resize_quota), and so does one that adds a snapshot.
QuotaRespected ==
    [][\A q \in Projects \cup {Org} : quotas[q] # None =>
          /\ \A v \in Volumes :
                /\ volumes'[v].size > volumes[v].size
                /\ q = EffectiveScope(volumes'[v].project)
                => /\ TotalGb(q)' <= quotas[q].gb
                   /\ ~Present(v) => Cardinality(ScopeVolumes(q)') <= quotas[q].volumes
          /\ \A s \in Snapshots :
                /\ ~Live(s) /\ snapshots'[s].state = "Available"
                /\ q = EffectiveScope(snapshots'[s].project)
                => Cardinality(ScopeSnapshots(q)') <= quotas[q].snapshots]_vars

\* Two recorded volumes of one project never share a name, whether they were
\* created or restored.
NamesUnique ==
    \A v, w \in Volumes :
        /\ Present(v) /\ Present(w)
        /\ volumes[v].name = volumes[w].name
        /\ volumes[v].project = volumes[w].project
        => v = w
=============================================================================
