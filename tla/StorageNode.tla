----------------------------- MODULE StorageNode -----------------------------
(***************************************************************************)
(* The storage reconciler of every hypervisor                              *)
(* (layers/forge/src/storage_reconciler.rs) and the ZeroFS processes it    *)
(* keeps (layers/storage/src/volume_mgr.rs), driven by the placements the  *)
(* Raft log delivers.                                                      *)
(*                                                                         *)
(* Each node applies the log at its own pace.  A pass reads its replica    *)
(* twice, once for the pending detaches and once for the desired volumes,  *)
(* and works on what it read while the log moves on.  ZeroFS processes may *)
(* die, operations on them may fail, and the daemon may be restarted: its  *)
(* processes survive (kill_on_drop(false)) but are forgotten, and the      *)
(* in-memory storage state is replayed from the beginning of the log.      *)
(***************************************************************************)
EXTENDS VolumePlacement, Sequences, FiniteSets

CONSTANTS
    Wired,         \* TRUE: with a disk attacher and a Cloud Hypervisor client,
                   \* FALSE: without, as the daemon calls run_loop
    MaxGeneration, \* bound on placement generations
    MaxLives,      \* bound on how often one volume id is created
    MaxLog,        \* bound on the length of the log
    MaxFaults      \* bound on crashes, failed operations and restarts

ASSUME NodeAssumption ==
    /\ Wired \in BOOLEAN
    /\ {MaxGeneration, MaxLives, MaxLog, MaxFaults} \subseteq Nat
    /\ None \notin Hypervisors \cup VMs

VARIABLES
    config,    \* whether the zone of the nodes has a storage config
    log,       \* the storage states the Raft log leads through
    applied,   \* how much of the log each replica has applied
    pc,        \* where each reconciler is in its pass
    detaches,  \* pending_detach_ids of the current pass
    desired,   \* desired_map of the current pass, generation 0 when absent
    tracked,   \* VolumeMgr.processes: the generation served, 0 when absent
    dead,      \* tracked volumes whose ZeroFS process has exited
    attached,  \* StorageReconciler.attached_volumes
    strays,    \* running ZeroFS processes no VolumeMgr knows of
    faults     \* how many faults have happened

raft == <<placement, config, log>>
local == <<pc, detaches, desired, tracked, dead, attached>>
vars == <<raft, applied, local, strays, faults>>

-----------------------------------------------------------------------------
(* What a node reads.                                                      *)

Blank == [gen |-> 0, vm |-> None]

\* The state of h's replica; empty until Raft hands over its state machine.
View(h) ==
    IF applied[h] = 0
    THEN [placement |-> [v \in Volumes |-> Gone(0)], config |-> FALSE]
    ELSE log[applied[h]]

PendingDetaches(h) ==
    {v \in Volumes : /\ View(h).placement[v].state = "Idle"
                     /\ View(h).placement[v].hv = h}

\* Mutant: a volume is started wherever it is read.
DesiredVolumes_Everywhere(h) ==
    [v \in Volumes |->
       LET p == View(h).placement[v]
       IN  IF p.state \in {"Idle", "Bound"}
           THEN [gen |-> p.gen, vm |-> p.vm] ELSE Blank]

\* A volume on h is desired whether or not a VM uses it already.
DesiredVolumes(h) ==
    [v \in Volumes |->
       LET p == View(h).placement[v]
       IN  IF p.state \in {"Idle", "Bound"} /\ p.hv = h
           THEN [gen |-> p.gen, vm |-> p.vm] ELSE Blank]

-----------------------------------------------------------------------------
(* Processes.                                                              *)

IsRunning(h, v) == tracked[h][v] # 0

Process(h, v) == [hv |-> h, vol |-> v, gen |-> tracked[h][v]]

\* Every ZeroFS process that may be writing to S3.
Writers ==
    strays \cup
    UNION {{Process(h, v) : v \in {w \in Volumes : IsRunning(h, w)} \ dead[h]} :
             h \in Hypervisors}

\* stop_volume forgets the process before it tries to end it, so one whose
\* end fails (F) is a stray.
StraysOf(h, F) == {Process(h, v) : v \in F \ dead[h]}

\* A fault is counted whenever one of these sets of failures is not empty.
Count(F) == faults' = IF F = {} THEN faults ELSE faults + 1

CanFail(F) == F = {} \/ faults < MaxFaults

-----------------------------------------------------------------------------
(* The pass.                                                               *)

\* Steps 1 and 2: exited processes are reaped, pending detaches are carried
\* out.  A volume without a VM is simply stopped; for the others the device
\* must be removed from the VM first, and R are those where that worked.
\* attached_volumes is not touched.
Detach(h, R, F) ==
    LET pend == PendingDetaches(h)
        live == {v \in Volumes : IsRunning(h, v) /\ v \notin dead[h]}
        stop == {v \in pend \cap live :
                   View(h).placement[v].vm = None \/ v \in R}
    IN  /\ pc[h] = "sleep"
        /\ R \subseteq (IF Wired THEN pend \cap live ELSE {})
        /\ F \subseteq stop /\ CanFail(F) /\ Count(F)
        /\ pc' = [pc EXCEPT ![h] = "read"]
        /\ detaches' = [detaches EXCEPT ![h] = pend]
        /\ tracked' = [tracked EXCEPT ![h] =
                         [v \in Volumes |-> IF v \in live \ stop
                                            THEN tracked[h][v] ELSE 0]]
        /\ dead' = [dead EXCEPT ![h] = {}]
        /\ strays' = strays \cup StraysOf(h, F)
        /\ UNCHANGED <<raft, applied, desired, attached>>

\* Step 3: without a storage config the pass ends here.
ReadDesired(h) ==
    /\ pc[h] = "read"
    /\ IF View(h).config
       THEN /\ pc' = [pc EXCEPT ![h] = "converge"]
            /\ desired' = [desired EXCEPT ![h] = DesiredVolumes(h)]
            /\ UNCHANGED detaches
       ELSE /\ pc' = [pc EXCEPT ![h] = "sleep"]
            /\ detaches' = [detaches EXCEPT ![h] = {}]
            /\ UNCHANGED desired
    /\ UNCHANGED <<raft, applied, tracked, dead, attached, strays, faults>>

Wanted(h) == {v \in Volumes : desired[h][v] # Blank}

\* Mutant: only a process ahead of the desired generation is stopped.
Stale_AheadOnly(h) ==
    {v \in Wanted(h) : IsRunning(h, v) /\ tracked[h][v] > desired[h][v].gen}

\* Step 5: running with another generation than the desired one.
Stale(h) ==
    {v \in Wanted(h) : IsRunning(h, v) /\ tracked[h][v] # desired[h][v].gen}

\* Mutant: the test for pending detaches is inverted.
Unwanted_DetachingOnly(h) ==
    {v \in Volumes \ Wanted(h) : IsRunning(h, v) /\ v \in detaches[h]}

\* Step 7: running but not desired, except where a detach failed.
Unwanted(h) ==
    {v \in Volumes \ Wanted(h) : IsRunning(h, v) /\ v \notin detaches[h]}

\* Steps 5 to 7: fence, start, stop, attach.  F are the stops that fail, G
\* the starts that fail, L those of G that leave their process behind (mount
\* could not be executed), A the volumes add-fs succeeds for.
Converge(h, F, G, L, A) ==
    LET stop == Stale(h) \cup Unwanted(h)
        start == {v \in Wanted(h) : ~IsRunning(h, v) \/ v \in Stale(h)}
        now == [v \in Volumes |->
                  IF v \in start THEN IF v \in G THEN 0 ELSE desired[h][v].gen
                  ELSE IF v \in stop THEN 0 ELSE tracked[h][v]]
        attach == {v \in Wanted(h) : /\ Wired /\ desired[h][v].vm # None
                                     /\ now[v] # 0
                                     /\ v \notin attached[h] \ (Stale(h) \ F)}
    IN  /\ pc[h] = "converge"
        /\ F \subseteq stop \ dead[h] /\ G \subseteq start /\ L \subseteq G
        /\ A \subseteq attach
        /\ CanFail(F \cup G) /\ Count(F \cup G)
        /\ pc' = [pc EXCEPT ![h] = "sleep"]
        /\ detaches' = [detaches EXCEPT ![h] = {}]
        /\ desired' = [desired EXCEPT ![h] = [v \in Volumes |-> Blank]]
        /\ tracked' = [tracked EXCEPT ![h] = now]
        /\ dead' = [dead EXCEPT ![h] = @ \ stop]
        /\ attached' = [attached EXCEPT ![h] = (@ \ (stop \ F)) \cup A]
        /\ strays' = strays \cup StraysOf(h, F)
                     \cup {[hv |-> h, vol |-> v, gen |-> desired[h][v].gen] : v \in L}
        /\ UNCHANGED <<raft, applied>>

-----------------------------------------------------------------------------
(* The environment.                                                        *)

\* A command is committed; the ones no reconciler can tell apart are left out.
Commit ==
    /\ Len(log) < MaxLog
    /\ \/ PlacementNext /\ placement' # placement /\ UNCHANGED config
       \/ ~config /\ config' = TRUE /\ UNCHANGED placement
    /\ \A v \in Volumes : /\ placement'[v].gen <= MaxGeneration
                          /\ placement'[v].life <= MaxLives
    /\ log' = Append(log, [placement |-> placement', config |-> config'])
    /\ UNCHANGED <<applied, local, strays, faults>>

\* Mutant: one entry past the end of the log is applied.
Apply_OffByOne(h) ==
    /\ applied[h] <= Len(log)
    /\ applied' = [applied EXCEPT ![h] = @ + 1]
    /\ UNCHANGED <<raft, local, strays, faults>>

Apply(h) ==
    /\ applied[h] < Len(log)
    /\ applied' = [applied EXCEPT ![h] = @ + 1]
    /\ UNCHANGED <<raft, local, strays, faults>>

ProcessExits(h, v) ==
    /\ faults < MaxFaults
    /\ IsRunning(h, v) /\ v \notin dead[h]
    /\ dead' = [dead EXCEPT ![h] = @ \cup {v}]
    /\ faults' = faults + 1
    /\ UNCHANGED <<raft, applied, pc, detaches, desired, tracked, attached, strays>>

StrayExits(p) ==
    /\ strays' = strays \ {p}
    /\ UNCHANGED <<raft, applied, local, faults>>

\* The daemon ends, anywhere in a pass, and starts again.  The processes S
\* outlive it: all of them when it was killed, those still flushing after
\* the SIGTERM of VolumeMgr::drop otherwise.
Restart(h, S) ==
    /\ faults < MaxFaults
    /\ S \subseteq {v \in Volumes : IsRunning(h, v)} \ dead[h]
    /\ strays' = strays \cup StraysOf(h, S)
    /\ applied' = [applied EXCEPT ![h] = 0]
    /\ pc' = [pc EXCEPT ![h] = "sleep"]
    /\ detaches' = [detaches EXCEPT ![h] = {}]
    /\ desired' = [desired EXCEPT ![h] = [v \in Volumes |-> Blank]]
    /\ tracked' = [tracked EXCEPT ![h] = [v \in Volumes |-> 0]]
    /\ dead' = [dead EXCEPT ![h] = {}]
    /\ attached' = [attached EXCEPT ![h] = {}]
    /\ faults' = faults + 1
    /\ UNCHANGED raft

-----------------------------------------------------------------------------
Init ==
    /\ PlacementInit
    /\ config = FALSE
    /\ log = <<>>
    /\ applied = [h \in Hypervisors |-> 0]
    /\ pc = [h \in Hypervisors |-> "sleep"]
    /\ detaches = [h \in Hypervisors |-> {}]
    /\ desired = [h \in Hypervisors |-> [v \in Volumes |-> Blank]]
    /\ tracked = [h \in Hypervisors |-> [v \in Volumes |-> 0]]
    /\ dead = [h \in Hypervisors |-> {}]
    /\ attached = [h \in Hypervisors |-> {}]
    /\ strays = {}
    /\ faults = 0

PassStep(h) ==
    \/ \E R, F \in SUBSET Volumes : Detach(h, R, F)
    \/ ReadDesired(h)
    \/ \E F, G, L, A \in SUBSET Volumes : Converge(h, F, G, L, A)

Next ==
    \/ Commit
    \/ \E h \in Hypervisors :
          \/ Apply(h)
          \/ PassStep(h)
          \/ \E v \in Volumes : ProcessExits(h, v)
          \/ \E S \in SUBSET Volumes : Restart(h, S)
    \/ \E p \in strays : StrayExits(p)

Spec == Init /\ [][Next]_vars

\* run_loop runs a pass every interval_secs, and Raft keeps applying what it
\* has committed.  Commands, faults and the end of strays are not promised.
FairSpec ==
    /\ Spec
    /\ \A h \in Hypervisors : WF_vars(Apply(h)) /\ WF_vars(PassStep(h))

-----------------------------------------------------------------------------
(* Properties.                                                             *)

\* Types, and the shape of a pass: what it read is kept only while it runs.
TypeOK ==
    /\ placement \in [Volumes -> Placement]
    /\ config \in BOOLEAN
    /\ log \in Seq([placement : [Volumes -> Placement], config : BOOLEAN])
    /\ applied \in [Hypervisors -> 0..Len(log)]
    /\ pc \in [Hypervisors -> {"sleep", "read", "converge"}]
    /\ detaches \in [Hypervisors -> SUBSET Volumes]
    /\ desired \in [Hypervisors -> [Volumes -> [gen : Nat, vm : VMs \cup {None}]]]
    /\ tracked \in [Hypervisors -> [Volumes -> Nat]]
    /\ dead \in [Hypervisors -> SUBSET Volumes]
    /\ attached \in [Hypervisors -> SUBSET Volumes]
    /\ strays \subseteq [hv : Hypervisors, vol : Volumes, gen : Nat]
    /\ faults \in 0..MaxFaults

\* No two hypervisors ever run ZeroFS on the same write prefix
\* gen-{placement_generation}/ of a volume, however far their replicas lag,
\* whatever fails, and whatever they start again while they replay the log
\* after a restart; strays count as well.  (For one life of a volume id:
\* generations restart at 1 when an id returns after a purge.)
OneWriterPerPrefix ==
    \A a, b \in Writers : a.vol = b.vol /\ a.gen = b.gen => a.hv = b.hv

\* No ZeroFS process ever serves a generation that the log did not hand to
\* that very hypervisor, although a pass works on placements that may be
\* outdated when it acts on them.
ServesWhatWasGranted ==
    \A p \in Writers :
        \E i \in 1..Len(log) :
            /\ log[i].placement[p.vol].hv = p.hv
            /\ log[i].placement[p.vol].gen = p.gen

\* Under fairness, a volume that stays bound to one hypervisor whose zone is
\* configured is eventually served there, for good, under its generation:
\* failed starts, crashed processes and restarts are repaired by later passes.
BoundIsServed ==
    \A h \in Hypervisors, v \in Volumes :
        <>[](placement[v].state = "Bound" /\ placement[v].hv = h /\ config)
        => <>[](tracked[h][v] = placement[v].gen /\ v \notin dead[h])

\* Under fairness, a hypervisor that lost a volume to another one, or to a
\* detach, migration or delete, stops the process it tracks for it.
LoserStops ==
    \A h \in Hypervisors, v \in Volumes :
        []<>(~IsRunning(h, v) \/ placement[v].hv = h)

=============================================================================
