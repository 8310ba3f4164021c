-------------------------- MODULE StorageNode_proofs --------------------------
(***************************************************************************)
(* Theorems about StorageNode, for every number of hypervisors, volumes,   *)
(* log entries and faults: type correctness, no process without a grant,   *)
(* and one writer per write prefix.                                        *)
(***************************************************************************)
EXTENDS StorageNode, TLAPS

-----------------------------------------------------------------------------
(* Types.                                                                  *)

LogEntry == [placement : [Volumes -> Placement], config : BOOLEAN]

LEMMA GoneType ==
  ASSUME NEW n \in Nat
  PROVE  Gone(n) \in Placement
  BY DEF Gone, Placement

\* The placements that the abstract commands write.
LEMMA PlacementNextType ==
  ASSUME placement \in [Volumes -> Placement], PlacementNext
  PROVE  placement' \in [Volumes -> Placement]
<1> \A v \in Volumes : /\ placement[v] \in Placement
                       /\ placement[v].gen \in Nat
                       /\ placement[v].life \in Nat
  BY DEF Placement
<1>1. ASSUME NEW v \in Volumes, NEW h \in Hypervisors \cup {None}, Create(v, h)
      PROVE  placement' \in [Volumes -> Placement]
  <2> DEFINE r == [state |-> IF h = None THEN "Unassigned" ELSE "Idle",
                   hv |-> h, vm |-> None, gen |-> IF h = None THEN 0 ELSE 1,
                   life |-> placement[v].life + 1]
  <2>1. r \in Placement
    BY DEF Placement
  <2> QED
    BY <1>1, <2>1 DEF Create
<1>2. ASSUME NEW S \in SUBSET Volumes, NEW m \in VMs, NEW h \in Hypervisors,
             Grant(S, m, h)
      PROVE  placement' \in [Volumes -> Placement]
  <2>1. \A v \in Volumes : [state |-> "Bound", hv |-> h, vm |-> m,
                            gen |-> placement[v].gen + 1,
                            life |-> placement[v].life] \in Placement
    <3> SUFFICES ASSUME NEW v \in Volumes
                 PROVE  [state |-> "Bound", hv |-> h, vm |-> m,
                         gen |-> placement[v].gen + 1,
                         life |-> placement[v].life] \in Placement
      OBVIOUS
    <3>1. placement[v].gen + 1 \in Nat /\ placement[v].life \in Nat
      OBVIOUS
    <3> QED
      BY <3>1 DEF Placement
  <2>2. \A v \in Volumes : (IF v \in S
                            THEN [state |-> "Bound", hv |-> h, vm |-> m,
                                  gen |-> placement[v].gen + 1,
                                  life |-> placement[v].life]
                            ELSE placement[v]) \in Placement
    BY <2>1
  <2> QED
    BY <1>2, <2>2 DEF Grant
<1>3. ASSUME NEW v \in Volumes, Release(v)
      PROVE  placement' \in [Volumes -> Placement]
  <2> DEFINE r == [state |-> "Unassigned", hv |-> None, vm |-> None,
                   gen |-> placement[v].gen, life |-> placement[v].life]
  <2>1. r \in Placement
    BY DEF Placement
  <2> QED
    BY <1>3, <2>1 DEF Release
<1>4. ASSUME NEW v \in Volumes, BeginMove(v)
      PROVE  placement' \in [Volumes -> Placement]
  <2> DEFINE r == [state |-> "Moving", hv |-> None, vm |-> None,
                   gen |-> placement[v].gen + 1, life |-> placement[v].life]
  <2>1. r \in Placement
    BY DEF Placement
  <2> QED
    BY <1>4, <2>1 DEF BeginMove
<1>5. ASSUME NEW v \in Volumes, NEW h \in Hypervisors \cup {None},
             NEW m \in VMs \cup {None}, EndMove(v, h, m)
      PROVE  placement' \in [Volumes -> Placement]
  <2> DEFINE r == [state |-> IF h = None THEN "Unassigned" ELSE "Idle",
                   hv |-> h, vm |-> m, gen |-> placement[v].gen,
                   life |-> placement[v].life]
  <2>1. r \in Placement
    BY DEF Placement
  <2> QED
    BY <1>5, <2>1 DEF EndMove
<1>6. ASSUME NEW v \in Volumes, Retire(v)
      PROVE  placement' \in [Volumes -> Placement]
  BY <1>6, GoneType DEF Retire
<1> QED
  BY <1>1, <1>2, <1>3, <1>4, <1>5, <1>6 DEF PlacementNext

\* What a node reads is a placement of the log, or the empty one.
LEMMA ViewType ==
  ASSUME TypeOK, NEW h \in Hypervisors
  PROVE  View(h).placement \in [Volumes -> Placement]
<1>1. CASE applied[h] = 0
  BY <1>1, GoneType DEF View
<1>2. CASE applied[h] # 0
  <2>1. applied[h] \in 1..Len(log)
    BY <1>2 DEF TypeOK
  <2>2. log[applied[h]] \in LogEntry
    <3>1. log \in Seq(LogEntry)
      BY DEF TypeOK, LogEntry
    <3> QED
      BY <2>1, <3>1
  <2>3. View(h) = log[applied[h]]
    BY <1>2 DEF View
  <2> QED
    BY <2>2, <2>3 DEF LogEntry
<1> QED
  BY <1>1, <1>2

LEMMA DesiredType ==
  ASSUME TypeOK, NEW h \in Hypervisors
  PROVE  DesiredVolumes(h) \in [Volumes -> [gen : Nat, vm : VMs \cup {None}]]
  BY ViewType DEF DesiredVolumes, Blank, Placement

\* What a stop leaves behind.
LEMMA StraysType ==
  ASSUME TypeOK, NEW h \in Hypervisors, NEW F \in SUBSET Volumes
  PROVE  StraysOf(h, F) \subseteq [hv : Hypervisors, vol : Volumes, gen : Nat]
  BY DEF TypeOK, StraysOf, Process

LEMMA CommitType ==
  ASSUME TypeOK, Commit
  PROVE  TypeOK'
<1>1. placement' \in [Volumes -> Placement] /\ config' \in BOOLEAN
  BY PlacementNextType DEF TypeOK, Commit
<1>2. log' \in Seq(LogEntry) /\ Len(log') = Len(log) + 1
  BY <1>1 DEF TypeOK, Commit, LogEntry
<1>3. applied' \in [Hypervisors -> 0..Len(log')]
  <2>1. Len(log) \in Nat
    BY DEF TypeOK
  <2>2. 0..Len(log) \subseteq 0..Len(log')
    BY <1>2, <2>1
  <2> QED
    BY <2>2 DEF TypeOK, Commit
<1> QED
  BY <1>1, <1>2, <1>3 DEF TypeOK, Commit, LogEntry, local

LEMMA DetachType ==
  ASSUME TypeOK, NEW h \in Hypervisors, NEW R \in SUBSET Volumes,
         NEW F \in SUBSET Volumes, Detach(h, R, F)
  PROVE  TypeOK'
<1>1. faults' \in 0..MaxFaults
  BY NodeAssumption DEF TypeOK, Detach, CanFail, Count
<1>2. strays' \subseteq [hv : Hypervisors, vol : Volumes, gen : Nat]
  BY StraysType DEF TypeOK, Detach
<1>3. detaches' \in [Hypervisors -> SUBSET Volumes]
  BY DEF TypeOK, Detach, PendingDetaches
<1>4. tracked' \in [Hypervisors -> [Volumes -> Nat]]
  BY DEF TypeOK, Detach
<1>5. pc' \in [Hypervisors -> {"sleep", "read", "converge"}]
      /\ dead' \in [Hypervisors -> SUBSET Volumes]
  BY DEF TypeOK, Detach
<1> QED
  BY <1>1, <1>2, <1>3, <1>4, <1>5 DEF TypeOK, Detach, raft

LEMMA ReadType ==
  ASSUME TypeOK, NEW h \in Hypervisors, ReadDesired(h)
  PROVE  TypeOK'
<1>1. desired' \in [Hypervisors -> [Volumes -> [gen : Nat, vm : VMs \cup {None}]]]
  BY ZenonT(60), DesiredType DEF TypeOK, ReadDesired
<1>2. /\ pc' \in [Hypervisors -> {"sleep", "read", "converge"}]
      /\ detaches' \in [Hypervisors -> SUBSET Volumes]
  BY DEF TypeOK, ReadDesired
<1> QED
  BY <1>1, <1>2 DEF TypeOK, ReadDesired, raft

LEMMA ConvergeType ==
  ASSUME TypeOK, NEW h \in Hypervisors, NEW F \in SUBSET Volumes,
         NEW G \in SUBSET Volumes, NEW L \in SUBSET Volumes,
         NEW A \in SUBSET Volumes, Converge(h, F, G, L, A)
  PROVE  TypeOK'
<1>1. faults' \in 0..MaxFaults
  BY NodeAssumption DEF TypeOK, Converge, CanFail, Count
<1>2. strays' \subseteq [hv : Hypervisors, vol : Volumes, gen : Nat]
  <2>1. {[hv |-> h, vol |-> v, gen |-> desired[h][v].gen] : v \in L}
          \subseteq [hv : Hypervisors, vol : Volumes, gen : Nat]
    BY DEF TypeOK
  <2> QED
    BY <2>1, StraysType DEF TypeOK, Converge
<1>3. Blank \in [gen : Nat, vm : VMs \cup {None}]
  BY DEF Blank
<1>4. desired' \in [Hypervisors -> [Volumes -> [gen : Nat, vm : VMs \cup {None}]]]
  BY <1>3 DEF TypeOK, Converge
<1>5. tracked' \in [Hypervisors -> [Volumes -> Nat]]
  BY DEF TypeOK, Converge
<1>6. /\ pc' \in [Hypervisors -> {"sleep", "read", "converge"}]
      /\ detaches' \in [Hypervisors -> SUBSET Volumes]
      /\ dead' \in [Hypervisors -> SUBSET Volumes]
      /\ attached' \in [Hypervisors -> SUBSET Volumes]
  BY DEF TypeOK, Converge
<1> QED
  BY <1>1, <1>2, <1>4, <1>5, <1>6 DEF TypeOK, Converge, raft

LEMMA RestartType ==
  ASSUME TypeOK, NEW h \in Hypervisors, NEW S \in SUBSET Volumes, Restart(h, S)
  PROVE  TypeOK'
<1>1. faults' \in 0..MaxFaults
  BY NodeAssumption DEF TypeOK, Restart
<1>2. strays' \subseteq [hv : Hypervisors, vol : Volumes, gen : Nat]
  BY StraysType DEF TypeOK, Restart
<1>3. Blank \in [gen : Nat, vm : VMs \cup {None}]
  BY DEF Blank
<1>4. desired' \in [Hypervisors -> [Volumes -> [gen : Nat, vm : VMs \cup {None}]]]
  BY <1>3 DEF TypeOK, Restart
<1>5. /\ tracked' \in [Hypervisors -> [Volumes -> Nat]]
      /\ applied' \in [Hypervisors -> 0..Len(log)]
  BY DEF TypeOK, Restart
<1>6. /\ pc' \in [Hypervisors -> {"sleep", "read", "converge"}]
      /\ detaches' \in [Hypervisors -> SUBSET Volumes]
      /\ dead' \in [Hypervisors -> SUBSET Volumes]
      /\ attached' \in [Hypervisors -> SUBSET Volumes]
  BY DEF TypeOK, Restart
<1> QED
  BY <1>1, <1>2, <1>4, <1>5, <1>6 DEF TypeOK, Restart, raft

\* Type correctness of the reconcilers, of their replicas and of the log.
THEOREM NodeTypeCorrect == Spec => []TypeOK
<1>1. Init => TypeOK
  <2> SUFFICES ASSUME Init PROVE TypeOK
    OBVIOUS
  <2>1. placement \in [Volumes -> Placement]
    BY GoneType DEF Init, PlacementInit
  <2>2. Blank \in [gen : Nat, vm : VMs \cup {None}]
    BY DEF Blank
  <2>3. log \in Seq([placement : [Volumes -> Placement], config : BOOLEAN])
    BY DEF Init
  <2>4. applied \in [Hypervisors -> 0..Len(log)]
    <3>1. Len(log) = 0
      BY DEF Init
    <3> QED
      BY <3>1 DEF Init
  <2>5. faults \in 0..MaxFaults
    BY NodeAssumption DEF Init
  <2> QED
    BY <2>1, <2>2, <2>3, <2>4, <2>5 DEF Init, TypeOK
<1>2. TypeOK /\ [Next]_vars => TypeOK'
  <2> SUFFICES ASSUME TypeOK, [Next]_vars PROVE TypeOK'
    OBVIOUS
  <2>1. CASE Commit
    BY <2>1, CommitType
  <2>2. ASSUME NEW h \in Hypervisors, Apply(h)
        PROVE  TypeOK'
    <3>1. applied' \in [Hypervisors -> 0..Len(log)]
      BY <2>2 DEF TypeOK, Apply
    <3> QED
      BY <2>2, <3>1 DEF TypeOK, Apply, raft, local
  <2>3. ASSUME NEW h \in Hypervisors, PassStep(h)
        PROVE  TypeOK'
    BY <2>3, DetachType, ReadType, ConvergeType DEF PassStep
  <2>4. ASSUME NEW h \in Hypervisors, NEW v \in Volumes, ProcessExits(h, v)
        PROVE  TypeOK'
    <3>1. dead' \in [Hypervisors -> SUBSET Volumes] /\ faults' \in 0..MaxFaults
      BY <2>4, NodeAssumption DEF TypeOK, ProcessExits
    <3> QED
      BY <2>4, <3>1 DEF TypeOK, ProcessExits, raft
  <2>5. ASSUME NEW h \in Hypervisors, NEW S \in SUBSET Volumes, Restart(h, S)
        PROVE  TypeOK'
    BY <2>5, RestartType
  <2>6. ASSUME NEW p \in strays, StrayExits(p)
        PROVE  TypeOK'
    BY <2>6 DEF TypeOK, StrayExits, raft, local
  <2>7. CASE UNCHANGED vars
    BY <2>7 DEF TypeOK, vars, raft, local
  <2> QED
    BY <2>1, <2>2, <2>3, <2>4, <2>5, <2>6, <2>7 DEF Next
<1> QED
  BY <1>1, <1>2, PTL DEF Spec

-----------------------------------------------------------------------------
(* Grants.  What runs, what a pass is about to start and what was left     *)
(* behind all go back to an entry of the log.                              *)

Granted(h, v, g) ==
    \E i \in 1..Len(log) : /\ log[i].placement[v].hv = h
                           /\ log[i].placement[v].gen = g

RunningGranted ==
    \A h \in Hypervisors, v \in Volumes :
        IsRunning(h, v) => Granted(h, v, tracked[h][v])

DesiredGranted ==
    \A h \in Hypervisors, v \in Volumes :
        desired[h][v] # Blank => Granted(h, v, desired[h][v].gen)

StraysGranted == \A p \in strays : Granted(p.hv, p.vol, p.gen)

Grants == RunningGranted /\ DesiredGranted /\ StraysGranted

\* The log only grows, so a grant is never taken back.
LEMMA LogGrows ==
  ASSUME TypeOK, Commit, NEW i \in 1..Len(log)
  PROVE  i \in 1..Len(log') /\ log'[i] = log[i]
<1>1. PICK e : log' = Append(log, e)
  BY DEF Commit
<1>2. log \in Seq(LogEntry)
  BY DEF TypeOK, LogEntry
<1> QED
  BY <1>1, <1>2

LEMMA GrantedKept ==
  ASSUME TypeOK, Commit \/ log' = log, NEW h, NEW v, NEW g, Granted(h, v, g)
  PROVE  (Granted(h, v, g))'
<1>1. CASE log' = log
  BY <1>1 DEF Granted
<1>2. CASE Commit
  <2>1. PICK i \in 1..Len(log) : /\ log[i].placement[v].hv = h
                                 /\ log[i].placement[v].gen = g
    BY DEF Granted
  <2>2. i \in 1..Len(log') /\ log'[i] = log[i]
    BY <1>2, LogGrows
  <2> QED
    BY <2>1, <2>2 DEF Granted
<1> QED
  BY <1>1, <1>2

\* A stop, whether or not it ends the process, is about a running process.
LEMMA StopGranted ==
  ASSUME Grants, NEW h \in Hypervisors, NEW F \in SUBSET Volumes,
         \A v \in F : IsRunning(h, v)
  PROVE  \A p \in StraysOf(h, F) : Granted(p.hv, p.vol, p.gen)
<1> SUFFICES ASSUME NEW p \in StraysOf(h, F)
             PROVE  Granted(p.hv, p.vol, p.gen)
  OBVIOUS
<1>1. PICK v \in F : p = [hv |-> h, vol |-> v, gen |-> tracked[h][v]]
  BY DEF StraysOf, Process
<1>2. Granted(h, v, tracked[h][v])
  BY DEF Grants, RunningGranted
<1>3. p.hv = h /\ p.vol = v /\ p.gen = tracked[h][v]
  BY <1>1
<1> QED
  BY <1>2, <1>3

\* A pass reads its desired volumes in an entry it has applied.
LEMMA ReadGranted ==
  ASSUME TypeOK, NEW h \in Hypervisors, NEW v \in Volumes,
         DesiredVolumes(h)[v] # Blank
  PROVE  Granted(h, v, DesiredVolumes(h)[v].gen)
<1>1. /\ View(h).placement[v].state \in {"Idle", "Bound"}
      /\ View(h).placement[v].hv = h
      /\ DesiredVolumes(h)[v].gen = View(h).placement[v].gen
  BY DEF DesiredVolumes
<1>2. applied[h] # 0
  BY <1>1 DEF View, Gone
<1>3. applied[h] \in 1..Len(log)
  BY <1>2 DEF TypeOK
<1>4. View(h) = log[applied[h]]
  BY <1>2 DEF View
<1> QED
  BY <1>1, <1>3, <1>4 DEF Granted

LEMMA DetachGrants ==
  ASSUME TypeOK, Grants, NEW h \in Hypervisors, NEW R \in SUBSET Volumes,
         NEW F \in SUBSET Volumes, Detach(h, R, F)
  PROVE  Grants'
<1>1. log' = log /\ desired' = desired
  BY DEF Detach, raft
<1>2. \A k \in Hypervisors, v \in Volumes : tracked'[k][v] \in {0, tracked[k][v]}
  BY DEF TypeOK, Detach
<1>3. \A v \in F : IsRunning(h, v)
  BY DEF Detach
<1>4. strays' = strays \cup StraysOf(h, F)
  BY DEF Detach
<1>5. RunningGranted'
  BY <1>1, <1>2 DEF Grants, RunningGranted, IsRunning, Granted
<1>6. DesiredGranted'
  BY <1>1 DEF Grants, DesiredGranted, Granted
<1>7. StraysGranted'
  <2>1. \A p \in strays' : Granted(p.hv, p.vol, p.gen)
    BY <1>3, <1>4, StopGranted DEF Grants, StraysGranted
  <2> QED
    BY <1>1, <2>1 DEF StraysGranted, Granted
<1> QED
  BY <1>5, <1>6, <1>7 DEF Grants

LEMMA ReadGrants ==
  ASSUME TypeOK, Grants, NEW h \in Hypervisors, ReadDesired(h)
  PROVE  Grants'
<1>1. log' = log /\ tracked' = tracked /\ strays' = strays
  BY DEF ReadDesired, raft
<1>2. \A k \in Hypervisors, v \in Volumes :
         desired'[k][v] # Blank => Granted(k, v, desired'[k][v].gen)
  <2>1. CASE View(h).config
    <3>1. desired' = [desired EXCEPT ![h] = DesiredVolumes(h)]
      BY <2>1 DEF ReadDesired
    <3> QED
      BY <3>1, ReadGranted DEF TypeOK, Grants, DesiredGranted
  <2>2. CASE ~View(h).config
    BY <2>2 DEF ReadDesired, Grants, DesiredGranted
  <2> QED
    BY <2>1, <2>2
<1> QED
  BY <1>1, <1>2 DEF Grants, RunningGranted, DesiredGranted, StraysGranted,
                    IsRunning, Granted

LEMMA ConvergeGrants ==
  ASSUME TypeOK, Grants, NEW h \in Hypervisors, NEW F \in SUBSET Volumes,
         NEW G \in SUBSET Volumes, NEW L \in SUBSET Volumes,
         NEW A \in SUBSET Volumes, Converge(h, F, G, L, A)
  PROVE  Grants'
<1>1. log' = log
  BY DEF Converge, raft
<1>2. \A v \in F : IsRunning(h, v)
  BY DEF Converge, Stale, Unwanted
<1>3. \A v \in L : v \in Wanted(h)
  BY DEF Converge, Stale
<1>4. \A v \in Volumes : \/ tracked'[h][v] \in {0, tracked[h][v]}
                         \/ v \in Wanted(h) /\ tracked'[h][v] = desired[h][v].gen
  BY DEF TypeOK, Converge, Stale
<1>5. \A k \in Hypervisors \ {h} : tracked'[k] = tracked[k]
  BY DEF TypeOK, Converge
<1>6. \A v \in Wanted(h) : Granted(h, v, desired[h][v].gen)
  BY DEF Grants, DesiredGranted, Wanted
<1>7. RunningGranted'
  <2> SUFFICES ASSUME NEW k \in Hypervisors, NEW v \in Volumes,
                      tracked'[k][v] # 0
               PROVE  Granted(k, v, tracked'[k][v])
    BY <1>1 DEF RunningGranted, IsRunning, Granted
  <2> QED
    BY <1>4, <1>5, <1>6 DEF Grants, RunningGranted, IsRunning
<1>8. DesiredGranted'
  <2>1. \A k \in Hypervisors, v \in Volumes : desired'[k][v] \in {Blank, desired[k][v]}
    BY DEF TypeOK, Converge
  <2> QED
    BY <1>1, <2>1 DEF Grants, DesiredGranted, Granted
<1>9. StraysGranted'
  <2>1. strays' = strays \cup StraysOf(h, F)
                  \cup {[hv |-> h, vol |-> v, gen |-> desired[h][v].gen] : v \in L}
    BY DEF Converge
  <2>2. \A p \in {[hv |-> h, vol |-> v, gen |-> desired[h][v].gen] : v \in L} :
           Granted(p.hv, p.vol, p.gen)
    BY <1>3, <1>6
  <2>3. \A p \in strays' : Granted(p.hv, p.vol, p.gen)
    BY <1>2, <2>1, <2>2, StopGranted DEF Grants, StraysGranted
  <2> QED
    BY <1>1, <2>3 DEF StraysGranted, Granted
<1> QED
  BY <1>7, <1>8, <1>9 DEF Grants

LEMMA RestartGrants ==
  ASSUME TypeOK, Grants, NEW h \in Hypervisors, NEW S \in SUBSET Volumes,
         Restart(h, S)
  PROVE  Grants'
<1>1. log' = log
  BY DEF Restart, raft
<1>2. \A k \in Hypervisors, v \in Volumes :
        /\ tracked'[k][v] \in {0, tracked[k][v]}
        /\ desired'[k][v] \in {Blank, desired[k][v]}
  BY DEF TypeOK, Restart
<1>3. \A v \in S : IsRunning(h, v)
  BY DEF Restart
<1>4. strays' = strays \cup StraysOf(h, S)
  BY DEF Restart
<1>5. RunningGranted'
  BY <1>1, <1>2 DEF Grants, RunningGranted, IsRunning, Granted
<1>6. DesiredGranted'
  BY <1>1, <1>2 DEF Grants, DesiredGranted, Granted
<1>7. StraysGranted'
  <2>1. \A p \in strays' : Granted(p.hv, p.vol, p.gen)
    BY <1>3, <1>4, StopGranted DEF Grants, StraysGranted
  <2> QED
    BY <1>1, <2>1 DEF StraysGranted, Granted
<1> QED
  BY <1>5, <1>6, <1>7 DEF Grants

LEMMA GrantsInvariant == Spec => []Grants
<1>1. Init => Grants
  BY DEF Init, Grants, RunningGranted, DesiredGranted, StraysGranted, IsRunning, Blank
<1>2. TypeOK /\ Grants /\ [Next]_vars => Grants'
  <2> SUFFICES ASSUME TypeOK, Grants, [Next]_vars PROVE Grants'
    OBVIOUS
  <2>1. ASSUME Commit \/ log' = log, tracked' = tracked, desired' = desired,
               strays' \subseteq strays
        PROVE  Grants'
    <3>1. RunningGranted'
      <4> SUFFICES ASSUME NEW h \in Hypervisors, NEW v \in Volumes, IsRunning(h, v)
                   PROVE  (Granted(h, v, tracked[h][v]))'
        BY <2>1 DEF RunningGranted, IsRunning
      <4>1. PICK g : g = tracked[h][v]
        OBVIOUS
      <4>2. (Granted(h, v, g))'
        BY <2>1, <4>1, GrantedKept DEF Grants, RunningGranted
      <4> QED
        BY <2>1, <4>1, <4>2 DEF Granted
    <3>2. DesiredGranted'
      <4> SUFFICES ASSUME NEW h \in Hypervisors, NEW v \in Volumes,
                          desired[h][v] # Blank
                   PROVE  (Granted(h, v, desired[h][v].gen))'
        BY <2>1 DEF DesiredGranted
      <4>1. PICK g : g = desired[h][v].gen
        OBVIOUS
      <4>2. (Granted(h, v, g))'
        BY <2>1, <4>1, GrantedKept DEF Grants, DesiredGranted
      <4> QED
        BY <2>1, <4>1, <4>2 DEF Granted
    <3>3. StraysGranted'
      <4> SUFFICES ASSUME NEW p \in strays
                   PROVE  (Granted(p.hv, p.vol, p.gen))'
        BY <2>1 DEF StraysGranted
      <4> QED
        BY <2>1, GrantedKept DEF Grants, StraysGranted
    <3> QED
      BY <3>1, <3>2, <3>3 DEF Grants
  <2>2. CASE Commit
    BY <2>1, <2>2 DEF Commit, local
  <2>3. ASSUME NEW h \in Hypervisors, Apply(h)
        PROVE  Grants'
    BY <2>1, <2>3 DEF Apply, raft, local
  <2>4. ASSUME NEW h \in Hypervisors, PassStep(h)
        PROVE  Grants'
    BY <2>4, DetachGrants, ReadGrants, ConvergeGrants DEF PassStep
  <2>5. ASSUME NEW h \in Hypervisors, NEW v \in Volumes, ProcessExits(h, v)
        PROVE  Grants'
    BY <2>1, <2>5 DEF ProcessExits, raft
  <2>6. ASSUME NEW h \in Hypervisors, NEW S \in SUBSET Volumes, Restart(h, S)
        PROVE  Grants'
    BY <2>6, RestartGrants
  <2>7. ASSUME NEW p \in strays, StrayExits(p)
        PROVE  Grants'
    BY <2>1, <2>7 DEF StrayExits, raft, local
  <2>8. CASE UNCHANGED vars
    BY <2>1, <2>8 DEF vars, raft, local
  <2> QED
    BY <2>2, <2>3, <2>4, <2>5, <2>6, <2>7, <2>8 DEF Next
<1> QED
  BY <1>1, <1>2, NodeTypeCorrect, PTL DEF Spec

\* A process, tracked or stray, is one of the above.
LEMMA WritersGranted ==
  ASSUME Grants, NEW p \in Writers
  PROVE  Granted(p.hv, p.vol, p.gen)
<1>1. CASE p \in strays
  BY <1>1 DEF Grants, StraysGranted
<1>2. CASE p \notin strays
  <2>1. PICK h \in Hypervisors, v \in Volumes : p = Process(h, v) /\ IsRunning(h, v)
    BY <1>2 DEF Writers
  <2>2. p.hv = h /\ p.vol = v /\ p.gen = tracked[h][v]
    BY <2>1 DEF Process
  <2>3. Granted(h, v, tracked[h][v])
    BY <2>1 DEF Grants, RunningGranted
  <2> QED
    BY <2>2, <2>3
<1> QED
  BY <1>1, <1>2

\* No ZeroFS process ever serves a generation that the log did not hand to
\* that very hypervisor.
THEOREM OnlyGranted == Spec => []ServesWhatWasGranted
<1>1. Grants => ServesWhatWasGranted
  BY WritersGranted DEF ServesWhatWasGranted, Granted
<1> QED
  BY <1>1, GrantsInvariant, PTL

-----------------------------------------------------------------------------
(* One writer.  The log is compared with the placement it has led to.      *)

\* What a command does to one volume: p before, q after.
Moved(p, q) ==
    \/ q = p
    \/ q.life = p.life + 1 /\ p.state = "Gone"
    \/ q.life = p.life /\ p.state # "Gone" /\ q.gen = p.gen + 1
    \/ q.life = p.life /\ q.gen = p.gen /\ p.state # "Gone" /\ q.hv = None /\ q.state # "Moving"
    \/ q.life = p.life /\ q.gen = p.gen /\ p.state = "Moving"
    \/ q.life = p.life /\ q.state = "Gone" /\ q.hv = None

LEMMA PlacementMoves ==
  ASSUME placement \in [Volumes -> Placement], PlacementNext, NEW w \in Volumes
  PROVE  Moved(placement[w], placement'[w])
<1>1. ASSUME NEW v \in Volumes, NEW h \in Hypervisors \cup {None}, Create(v, h)
      PROVE  Moved(placement[w], placement'[w])
  BY <1>1 DEF Create, Moved
<1>2. ASSUME NEW S \in SUBSET Volumes, NEW m \in VMs, NEW h \in Hypervisors,
             Grant(S, m, h)
      PROVE  Moved(placement[w], placement'[w])
  BY <1>2 DEF Grant, Moved
<1>3. ASSUME NEW v \in Volumes, Release(v)
      PROVE  Moved(placement[w], placement'[w])
  BY <1>3 DEF Release, Moved
<1>4. ASSUME NEW v \in Volumes, BeginMove(v)
      PROVE  Moved(placement[w], placement'[w])
  BY <1>4 DEF BeginMove, Moved
<1>5. ASSUME NEW v \in Volumes, NEW h \in Hypervisors \cup {None},
             NEW m \in VMs \cup {None}, EndMove(v, h, m)
      PROVE  Moved(placement[w], placement'[w])
  BY <1>5 DEF EndMove, Moved
<1>6. ASSUME NEW v \in Volumes, Retire(v)
      PROVE  Moved(placement[w], placement'[w])
  BY <1>6 DEF Retire, Gone, Moved
<1> QED
  BY <1>1, <1>2, <1>3, <1>4, <1>5, <1>6 DEF PlacementNext

\* A log entry p that names a server is not ahead of the placement q; if it
\* has the same life and generation, q is with that server or with nobody,
\* and is not in migration (so that the end of a migration hands out a
\* generation nobody was ever given).
Precedes(p, q) ==
    p.hv # None =>
       /\ p.life <= q.life
       /\ p.life = q.life /\ q.state # "Gone" =>
             /\ p.gen <= q.gen
             /\ p.gen = q.gen => q.state # "Moving" /\ q.hv \in {None, p.hv}

Compatible(p, q) ==
    p.hv # None /\ q.hv # None /\ p.life = q.life /\ p.gen = q.gen => p.hv = q.hv

\* A hypervisor is named only for a volume it serves, and only a volume that
\* was created is served.
NamedAlive(p) ==
    /\ p.hv # None => p.state \in {"Idle", "Bound"}
    /\ p.state # "Gone" => p.life > 0

Alive == \A v \in Volumes : NamedAlive(placement[v])

LEMMA AliveKept ==
  ASSUME placement \in [Volumes -> Placement], Alive, PlacementNext,
         NEW w \in Volumes
  PROVE  NamedAlive(placement'[w])
<1> /\ NamedAlive(placement[w]) /\ placement[w].life \in Nat
  BY DEF Alive, Placement
<1>1. ASSUME NEW v \in Volumes, NEW h \in Hypervisors \cup {None}, Create(v, h)
      PROVE  NamedAlive(placement'[w])
  BY <1>1 DEF Create, NamedAlive
<1>2. ASSUME NEW S \in SUBSET Volumes, NEW m \in VMs, NEW h \in Hypervisors,
             Grant(S, m, h)
      PROVE  NamedAlive(placement'[w])
  BY <1>2 DEF Grant, NamedAlive
<1>3. ASSUME NEW v \in Volumes, Release(v)
      PROVE  NamedAlive(placement'[w])
  BY <1>3 DEF Release, NamedAlive
<1>4. ASSUME NEW v \in Volumes, BeginMove(v)
      PROVE  NamedAlive(placement'[w])
  BY <1>4 DEF BeginMove, NamedAlive
<1>5. ASSUME NEW v \in Volumes, NEW h \in Hypervisors \cup {None},
             NEW m \in VMs \cup {None}, EndMove(v, h, m)
      PROVE  NamedAlive(placement'[w])
  BY <1>5 DEF EndMove, NamedAlive
<1>6. ASSUME NEW v \in Volumes, Retire(v)
      PROVE  NamedAlive(placement'[w])
  BY <1>6 DEF Retire, Gone, NamedAlive
<1> QED
  BY <1>1, <1>2, <1>3, <1>4, <1>5, <1>6 DEF PlacementNext

Ordered ==
    \A i \in 1..Len(log), v \in Volumes :
        /\ NamedAlive(log[i].placement[v])
        /\ log[i].placement[v].life <= MaxLives
        /\ Precedes(log[i].placement[v], placement[v])

OneServer ==
    \A i, j \in 1..Len(log), v \in Volumes :
        Compatible(log[i].placement[v], log[j].placement[v])

LogInv == Alive /\ Ordered /\ OneServer

LEMMA EntryType ==
  ASSUME TypeOK, NEW i \in 1..Len(log), NEW v \in Volumes
  PROVE  log[i].placement[v] \in Placement
<1>1. log \in Seq(LogEntry)
  BY DEF TypeOK, LogEntry
<1>2. log[i] \in LogEntry
  BY <1>1
<1>3. log[i].placement \in [Volumes -> Placement]
  BY <1>2 DEF LogEntry
<1> QED
  BY <1>3

LEMMA MovedPrecedes ==
  ASSUME NEW p \in Placement, NEW q \in Placement, NEW r \in Placement,
         Precedes(p, q), Moved(q, r), NamedAlive(q)
  PROVE  Precedes(p, r) /\ Compatible(p, r)
<1> /\ p.gen \in Nat /\ q.gen \in Nat /\ r.gen \in Nat
    /\ p.life \in Nat /\ q.life \in Nat /\ r.life \in Nat
  BY DEF Placement
<1> QED
  BY DEF Precedes, Moved, Compatible, NamedAlive

LEMMA CommitLog ==
  ASSUME TypeOK, LogInv, Commit
  PROVE  LogInv'
<1>1. placement' \in [Volumes -> Placement] /\ log \in Seq(LogEntry)
  BY CommitType DEF TypeOK, LogEntry
<1>2. \A v \in Volumes : Moved(placement[v], placement'[v])
  BY PlacementMoves DEF TypeOK, Commit, Moved
<1>3. PICK e : /\ log' = Append(log, e) /\ e.placement = placement'
  BY DEF Commit
<1>4. /\ Len(log') = Len(log) + 1
      /\ log'[Len(log) + 1].placement = placement'
      /\ \A i \in 1..Len(log) : log'[i] = log[i]
      /\ \A i \in 1..Len(log') : i \in 1..Len(log) \/ i = Len(log) + 1
  BY <1>1, <1>3
<1>5. \A i \in 1..Len(log), v \in Volumes :
         log[i].placement[v] \in Placement
  BY EntryType
<1>6. \A v \in Volumes : NamedAlive(placement'[v])
  BY AliveKept DEF TypeOK, LogInv, Alive, Commit
<1>7. \A i \in 1..Len(log), v \in Volumes :
        /\ Precedes(log[i].placement[v], placement'[v])
        /\ Compatible(log[i].placement[v], placement'[v])
  <2> SUFFICES ASSUME NEW i \in 1..Len(log), NEW v \in Volumes
               PROVE  /\ Precedes(log[i].placement[v], placement'[v])
                      /\ Compatible(log[i].placement[v], placement'[v])
    OBVIOUS
  <2>1. /\ Precedes(log[i].placement[v], placement[v])
        /\ NamedAlive(placement[v])
        /\ Moved(placement[v], placement'[v])
    BY <1>2 DEF LogInv, Ordered, Alive
  <2>2. /\ log[i].placement[v] \in Placement /\ placement[v] \in Placement
        /\ placement'[v] \in Placement
    BY <1>1, <1>5 DEF TypeOK
  <2> QED
    BY <2>1, <2>2, MovedPrecedes
<1>8. \A v \in Volumes : /\ Precedes(placement'[v], placement'[v])
                         /\ Compatible(placement'[v], placement'[v])
                         /\ placement'[v].life <= MaxLives
  <2> SUFFICES ASSUME NEW v \in Volumes
               PROVE  /\ Precedes(placement'[v], placement'[v])
                      /\ Compatible(placement'[v], placement'[v])
                      /\ placement'[v].life <= MaxLives
    OBVIOUS
  <2>1. placement'[v].life <= MaxLives
    BY DEF Commit
  <2>2. placement'[v].state = "Moving" => placement'[v].hv = None
    BY <1>6 DEF NamedAlive
  <2>3. placement'[v].gen \in Nat /\ placement'[v].life \in Nat
    BY <1>1 DEF Placement
  <2> QED
    BY <2>1, <2>2, <2>3 DEF Precedes, Compatible
<1>9. Alive'
  BY <1>6 DEF Alive
<1>10. Ordered'
  BY <1>4, <1>6, <1>7, <1>8 DEF Ordered, LogInv
<1>11. OneServer'
  BY <1>4, <1>7, <1>8 DEF OneServer, LogInv, Compatible
<1> QED
  BY <1>9, <1>10, <1>11 DEF LogInv

LEMMA LogInvariant == Spec => []LogInv
<1>1. Init => LogInv
  BY DEF Init, PlacementInit, Gone, LogInv, Alive, NamedAlive, Ordered, OneServer
<1>2. TypeOK /\ LogInv /\ [Next]_vars => LogInv'
  <2> SUFFICES ASSUME TypeOK, LogInv, [Next]_vars PROVE LogInv'
    OBVIOUS
  <2>1. CASE Commit
    BY <2>1, CommitLog
  <2>2. CASE ~Commit
    <3>1. log' = log /\ placement' = placement
      <4>1. ASSUME NEW h \in Hypervisors, PassStep(h)
            PROVE  log' = log /\ placement' = placement
        BY <4>1 DEF PassStep, Detach, ReadDesired, Converge, raft
      <4>2. ASSUME NEW h \in Hypervisors, NEW S \in SUBSET Volumes, Restart(h, S)
            PROVE  log' = log /\ placement' = placement
        BY <4>2 DEF Restart, raft
      <4>3. ASSUME NEW h \in Hypervisors, NEW v \in Volumes, ProcessExits(h, v)
            PROVE  log' = log /\ placement' = placement
        BY <4>3 DEF ProcessExits, raft
      <4>4. ASSUME NEW h \in Hypervisors, Apply(h)
            PROVE  log' = log /\ placement' = placement
        BY <4>4 DEF Apply, raft
      <4>5. ASSUME NEW p \in strays, StrayExits(p)
            PROVE  log' = log /\ placement' = placement
        BY <4>5 DEF StrayExits, raft
      <4>6. CASE UNCHANGED vars
        BY <4>6 DEF vars, raft
      <4> QED
        BY <2>2, <4>1, <4>2, <4>3, <4>4, <4>5, <4>6 DEF Next
    <3> QED
      BY <3>1 DEF LogInv, Alive, Ordered, OneServer
  <2> QED
    BY <2>1, <2>2
<1> QED
  BY <1>1, <1>2, NodeTypeCorrect, PTL DEF Spec

\* When no volume id is created twice, two hypervisors never run ZeroFS on
\* the same write prefix: not while replicas lag, not after failed stops,
\* crashes and restarts, and for any number of hypervisors and commands.
THEOREM OneWriterPerPrefixHolds ==
  ASSUME MaxLives = 1
  PROVE  Spec => []OneWriterPerPrefix
<1>1. TypeOK /\ Grants /\ LogInv => OneWriterPerPrefix
  <2> SUFFICES ASSUME TypeOK, Grants, LogInv, NEW a \in Writers, NEW b \in Writers,
                      a.vol = b.vol, a.gen = b.gen
               PROVE  a.hv = b.hv
    BY DEF OneWriterPerPrefix
  <2>1. /\ a.vol \in Volumes /\ a.hv \in Hypervisors
        /\ b.vol \in Volumes /\ b.hv \in Hypervisors
    BY DEF TypeOK, Writers, Process
  <2>2. PICK i \in 1..Len(log) : /\ log[i].placement[a.vol].hv = a.hv
                                 /\ log[i].placement[a.vol].gen = a.gen
    BY WritersGranted DEF Granted
  <2>3. PICK j \in 1..Len(log) : /\ log[j].placement[b.vol].hv = b.hv
                                 /\ log[j].placement[b.vol].gen = b.gen
    BY WritersGranted DEF Granted
  <2> DEFINE p == log[i].placement[a.vol]
             q == log[j].placement[a.vol]
  <2>4. p \in Placement /\ q \in Placement
    BY <2>1, EntryType
  <2>5. p.hv # None /\ q.hv # None
    BY <2>1, <2>2, <2>3, NodeAssumption
  <2>6. /\ NamedAlive(p) /\ p.life <= 1
        /\ NamedAlive(q) /\ q.life <= 1
    BY <2>1 DEF LogInv, Ordered
  <2>7. p.life = 1 /\ q.life = 1
    <3>1. p.life \in Nat /\ q.life \in Nat
      BY <2>4 DEF Placement
    <3> QED
      BY <2>5, <2>6, <3>1 DEF NamedAlive
  <2>8. Compatible(p, q)
    BY <2>1 DEF LogInv, OneServer
  <2> QED
    BY <2>2, <2>3, <2>5, <2>7, <2>8 DEF Compatible
<1> QED
  BY <1>1, NodeTypeCorrect, GrantsInvariant, LogInvariant, PTL

=============================================================================
