------------------------------ MODULE GcWorker ------------------------------
(***************************************************************************)
(* The garbage collector (layers/forge/src/gc.rs) over the storage state   *)
(* machine and the objects in S3.  Every node runs the loop; a cycle has   *)
(* three phases (SSTs, WAL segments, orphaned generations) and each reads  *)
(* the state machine first and deletes later, while commands go on being   *)
(* applied.  S3 deletions and submissions may fail, leadership may move at *)
(* any time, also in the middle of a cycle, and two nodes may believe to   *)
(* lead at once.                                                           *)
(*                                                                         *)
(* gc.rs fixes the reader and the submitter as traits.  They are taken to  *)
(* be what their comments say: reads of the applied storage state and the  *)
(* two GcComplete commands.  Time is abstracted to "the grace period has   *)
(* passed since first_seen".                                               *)
(***************************************************************************)
EXTENDS VolumeSM

CONSTANTS
    Nodes,        \* the nodes that run the loop
    Origin,       \* [Ssts -> [vol, gen]]: the prefix an SST was written under
    IdContains,   \* pairs of a snapshot id and a volume id that is a part of it
    MaxDeletes,   \* max_deletes_per_cycle
    MaxFaults     \* bound on failed requests and changes of leadership

\* Two WAL positions have no gap between them.
ASSUME GcAssumption ==
    /\ {MaxDeletes, MaxFaults} \subseteq Nat
    /\ \A p, q \in WalPositions : p < q => p + 1 \in WalPositions

VARIABLES
    objects,    \* the SST objects that exist in S3
    segments,   \* the WAL segments that exist in S3, by position
    leads,      \* the nodes whose is_leader() answers true
    pc,         \* where each node is in its cycle
    seen,       \* first_seen: the tracked SSTs
    aged,       \* those of seen whose grace period has passed
    batch,      \* eligible SSTs not yet tried in this cycle
    deleted,    \* SSTs deleted in this cycle
    walLimit,   \* the min_wal_position read in this cycle, or None
    orphans,    \* orphaned_gen_first_seen
    agedOrphans,\* those of orphans whose grace period has passed
    doomed,     \* the orphaned generations this cycle deletes
    faults      \* how many faults have happened

s3 == <<objects, segments>>
gc == <<leads, pc, seen, aged, batch, deleted, walLimit, orphans, agedOrphans,
        doomed>>
gcVars == <<vars, s3, gc, faults>>

Faulty == faults < MaxFaults /\ faults' = faults + 1

-----------------------------------------------------------------------------
(* Phase 1: SSTs.                                                          *)

\* A node that does not lead forgets when it saw what.
SkipCycle(n) ==
    /\ pc[n] = "idle" /\ n \notin leads
    /\ seen' = [seen EXCEPT ![n] = {}]
    /\ aged' = [aged EXCEPT ![n] = {}]
    /\ orphans' = [orphans EXCEPT ![n] = {}]
    /\ agedOrphans' = [agedOrphans EXCEPT ![n] = {}]
    /\ UNCHANGED <<vars, s3, leads, pc, batch, deleted, walLimit, doomed, faults>>

\* Mutant: the clock of a pending SST starts again with every scan.
UpdateTracking_Restart(n) ==
    /\ seen' = [seen EXCEPT ![n] = pending]
    /\ aged' = [aged EXCEPT ![n] = {}]

\* New keys are tracked from now on, keys no longer pending are dropped.
UpdateTracking(n) ==
    /\ seen' = [seen EXCEPT ![n] = pending]
    /\ aged' = [aged EXCEPT ![n] = @ \cap pending]

\* No SST is eligible while any restore is in progress; otherwise as many as
\* max_deletes_per_cycle of those past their grace period, in any order.
Eligible(n, X) ==
    IF restores # {} THEN X = {}
    ELSE /\ X \subseteq aged'[n]
         /\ Cardinality(X) = Min({MaxDeletes, Cardinality(aged'[n])})

ScanSsts(n, X) ==
    /\ pc[n] = "idle" /\ n \in leads
    /\ UpdateTracking(n)
    /\ Eligible(n, X)
    /\ batch' = [batch EXCEPT ![n] = X]
    /\ deleted' = [deleted EXCEPT ![n] = {}]
    /\ pc' = [pc EXCEPT ![n] = "ssts"]
    /\ UNCHANGED <<vars, s3, leads, walLimit, orphans, agedOrphans, doomed,
                   faults>>

\* Mutant: a key counts as deleted whatever S3 answered.
DeleteSst_IgnoreError(n, x) ==
    /\ pc[n] = "ssts" /\ x \in batch[n]
    /\ batch' = [batch EXCEPT ![n] = @ \ {x}]
    /\ deleted' = [deleted EXCEPT ![n] = @ \cup {x}]
    /\ \/ objects' = objects \ {x} /\ UNCHANGED faults
       \/ Faulty /\ UNCHANGED objects
    /\ UNCHANGED <<vars, segments, leads, pc, seen, aged, walLimit, orphans,
                   agedOrphans, doomed>>

\* One S3 DELETE of the batch.  A failed one is simply left for later.
DeleteSst(n, x) ==
    /\ pc[n] = "ssts" /\ x \in batch[n]
    /\ batch' = [batch EXCEPT ![n] = @ \ {x}]
    /\ \/ /\ objects' = objects \ {x}
          /\ deleted' = [deleted EXCEPT ![n] = @ \cup {x}]
          /\ UNCHANGED faults
       \/ Faulty /\ UNCHANGED <<objects, deleted>>
    /\ UNCHANGED <<vars, segments, leads, pc, seen, aged, walLimit, orphans,
                   agedOrphans, doomed>>

\* The deleted SSTs are reported to Raft; a failed submission is not retried
\* in this cycle.
ReportSsts(n) ==
    /\ pc[n] = "ssts" /\ batch[n] = {}
    /\ IF deleted[n] = {} THEN UNCHANGED <<vars, faults>>
       ELSE \/ /\ GcCompleteSsts(deleted[n])
               /\ UNCHANGED <<assigned, faults>>
            \/ Faulty /\ UNCHANGED vars
    /\ pc' = [pc EXCEPT ![n] = "wal"]
    /\ UNCHANGED <<s3, leads, seen, aged, batch, deleted, walLimit, orphans,
                   agedOrphans, doomed>>

-----------------------------------------------------------------------------
(* Phase 2: WAL segments.                                                  *)

\* The retained position is read; without one, or at zero, nothing is done.
ReadMinWal(n) ==
    /\ pc[n] = "wal"
    /\ walLimit' = [walLimit EXCEPT ![n] = minWal]
    /\ pc' = [pc EXCEPT ![n] = IF minWal = None \/ minWal = 0
                               THEN "orphans" ELSE "segments"]
    /\ UNCHANGED <<vars, s3, leads, seen, aged, batch, deleted, orphans,
                   agedOrphans, doomed, faults>>

Obsolete(n) == {p \in segments : p < walLimit[n]}

\* The listed segments below it are deleted, except the ones in F whose
\* DELETE fails (all of them when they cannot be listed), and the highest one
\* deleted is reported.
DeleteSegments(n, F) ==
    LET gone == Obsolete(n) \ F
    IN  /\ pc[n] = "segments"
        /\ F \subseteq Obsolete(n)
        /\ IF F = {} THEN UNCHANGED faults ELSE Faulty
        /\ segments' = segments \ gone
        /\ walLimit' = [walLimit EXCEPT ![n] =
                          IF gone = {} THEN None ELSE Max(gone) + 1]
        /\ pc' = [pc EXCEPT ![n] = IF gone = {} THEN "orphans" ELSE "report"]
        /\ UNCHANGED <<vars, objects, leads, seen, aged, batch, deleted,
                       orphans, agedOrphans, doomed>>

ReportSegments(n) ==
    /\ pc[n] = "report"
    /\ \/ /\ GcCompleteWalSegments(walLimit[n])
          /\ UNCHANGED <<assigned, faults>>
       \/ Faulty /\ UNCHANGED vars
    /\ pc' = [pc EXCEPT ![n] = "orphans"]
    /\ UNCHANGED <<s3, leads, seen, aged, batch, deleted, walLimit, orphans,
                   agedOrphans, doomed>>

-----------------------------------------------------------------------------
(* Phase 3: orphaned generations.                                          *)

\* The restores are looked up by whether their snapshot's id contains the
\* volume's id.
Skipped(v) == \E s \in restores : <<s, v>> \in IdContains

\* The generations below the current one that still have objects.
OrphanedGenerations ==
    {Origin[x] : x \in {y \in objects :
        LET o == Origin[y]
        IN  Present(o.vol) /\ o.gen < volumes[o.vol].gen}}

\* The generations and the restores are read, and the objects of all volumes
\* are listed, except for the volumes in F where that fails.  Doomed is what
\* was first seen longer than the grace period ago; no manifest is consulted.
\* Generations that are no longer orphaned are dropped, unless there is no
\* volume at all.
ReadGenerations(n, F) ==
    LET listed == {o \in OrphanedGenerations : ~Skipped(o.vol) /\ o.vol \notin F}
        kept == {o \in orphans[n] : /\ Present(o.vol)
                                    /\ o.gen < volumes[o.vol].gen}
    IN  /\ pc[n] = "orphans"
        /\ F \subseteq {v \in Volumes : Present(v)}
        /\ IF F = {} THEN UNCHANGED faults ELSE Faulty
        /\ doomed' = [doomed EXCEPT ![n] = listed \cap agedOrphans[n]]
        /\ IF \E v \in Volumes : Present(v)
           THEN /\ orphans' = [orphans EXCEPT ![n] = kept \cup listed]
                /\ agedOrphans' = [agedOrphans EXCEPT ![n] = @ \cap kept]
           ELSE UNCHANGED <<orphans, agedOrphans>>
        /\ pc' = [pc EXCEPT ![n] = IF doomed'[n] = {} THEN "idle" ELSE "collect"]
        /\ UNCHANGED <<vars, s3, leads, seen, aged, batch, deleted, walLimit>>

\* Their objects are deleted, except the ones in F whose DELETE fails.
CollectOrphans(n, F) ==
    LET due == {x \in objects : Origin[x] \in doomed[n]}
    IN  /\ pc[n] = "collect"
        /\ F \subseteq due
        /\ IF F = {} THEN UNCHANGED faults ELSE Faulty
        /\ objects' = objects \ (due \ F)
        /\ doomed' = [doomed EXCEPT ![n] = {}]
        /\ pc' = [pc EXCEPT ![n] = "idle"]
        /\ UNCHANGED <<vars, segments, leads, seen, aged, batch, deleted,
                       walLimit, orphans, agedOrphans>>

-----------------------------------------------------------------------------
(* The environment.                                                        *)

\* The grace period of everything tracked so far has passed.
GracePasses(n) ==
    /\ aged' = [aged EXCEPT ![n] = seen[n]]
    /\ agedOrphans' = [agedOrphans EXCEPT ![n] = orphans[n]]
    /\ UNCHANGED <<vars, s3, leads, pc, seen, batch, deleted, walLimit,
                   orphans, doomed, faults>>

LeadershipChanges(n) ==
    /\ Faulty
    /\ leads' = IF n \in leads THEN leads \ {n} ELSE leads \cup {n}
    /\ UNCHANGED <<vars, s3, pc, seen, aged, batch, deleted, walLimit,
                   orphans, agedOrphans, doomed>>

\* Any other command on volumes and snapshots.  A manifest that ZeroFS captures
\* for a snapshot lists objects that exist.
Command ==
    /\ VolumeStep \/ SnapshotStep
    /\ \A s \in Snapshots : ~Live(s) /\ snapshots'[s].state = "Available" =>
                               snapshots'[s].ssts \subseteq objects
    /\ assigned' = assigned \cup Assignments'
    /\ UNCHANGED <<s3, gc, faults>>

-----------------------------------------------------------------------------
GcInit ==
    /\ Init
    /\ objects = Ssts
    /\ segments = WalPositions
    /\ leads \in {{n} : n \in Nodes}
    /\ pc = [n \in Nodes |-> "idle"]
    /\ seen = [n \in Nodes |-> {}]
    /\ aged = [n \in Nodes |-> {}]
    /\ batch = [n \in Nodes |-> {}]
    /\ deleted = [n \in Nodes |-> {}]
    /\ walLimit = [n \in Nodes |-> None]
    /\ orphans = [n \in Nodes |-> {}]
    /\ agedOrphans = [n \in Nodes |-> {}]
    /\ doomed = [n \in Nodes |-> {}]
    /\ faults = 0

\* What run_gc_loop does by itself, including the passage of time it waits for.
Loop(n) ==
    \/ SkipCycle(n)
    \/ \E X \in SUBSET Ssts : ScanSsts(n, X)
    \/ \E x \in Ssts : DeleteSst(n, x)
    \/ ReportSsts(n)
    \/ ReadMinWal(n)
    \/ \E F \in SUBSET segments : DeleteSegments(n, F)
    \/ ReportSegments(n)
    \/ \E F \in SUBSET Volumes : ReadGenerations(n, F)
    \/ \E F \in SUBSET objects : CollectOrphans(n, F)

GcNext ==
    \/ Command
    \/ \E n \in Nodes : Loop(n) \/ GracePasses(n) \/ LeadershipChanges(n)

GcSpec == GcInit /\ [][GcNext]_gcVars

\* The loop keeps running and its grace periods end.  Commands and faults are
\* not promised; faults are bounded by MaxFaults.
FairGcSpec ==
    GcSpec /\ \A n \in Nodes : WF_gcVars(Loop(n)) /\ WF_gcVars(GracePasses(n))

-----------------------------------------------------------------------------
(* Properties.                                                             *)

\* An SST leaves pending_gc_ssts only after it is gone from S3, whatever
\* requests failed and whoever led meanwhile: no object is leaked for ever.
CompletedIsGone ==
    [][\A x \in pending : x \notin pending' => x \notin objects']_gcVars

\* Under fairness, and once restores end, every SST queued for collection is
\* collected, although failures and leader changes postpone it: some node goes
\* on leading.
PendingIsCollected ==
    <>[](restores = {} /\ \E n \in Nodes : leads = {n})
    => \A x \in Ssts : (x \in pending) ~> (x \notin pending)
=============================================================================
