--------------------------- MODULE ControlCluster ---------------------------
(***************************************************************************)
(* How nodes of the mesh become members of the Raft cluster: the bootstrap *)
(* of the first node, the loop by which later nodes join, and the join,    *)
(* promote and demote handlers of the leader (layers/fabric/src/daemon.rs, *)
(* layers/controlplane/src/server.rs).                                     *)
(*                                                                         *)
(* openraft is external and modelled by what the handlers rely on: a       *)
(* membership change takes effect when the leader appends it, is committed *)
(* once majorities of the old and of the new voters run, excludes a second *)
(* one until then, and may be lost with the leader that appended it.       *)
(***************************************************************************)
EXTENDS Naturals, FiniteSets

CONSTANTS
    Nodes,
    Founder,     \* the node on which `syfrah fabric init` is run
    MaxVoters,   \* RaftServerState.max_voters
    MaxCrashes,  \* bound on crashes
    MaxAdmin,    \* bound on manual promotions and demotions
    None

ASSUME ClusterAssumption ==
    /\ Founder \in Nodes /\ None \notin Nodes /\ IsFiniteSet(Nodes)
    /\ MaxVoters \in Nat \ {0} /\ {MaxCrashes, MaxAdmin} \subseteq Nat

VARIABLES
    mesh,      \* the nodes that belong to the mesh
    at,        \* a node's daemon: "down", "boot", "initialized" or "run"
    log,       \* the nodes whose Raft log has been initialised
    sentinel,  \* the nodes with the file raft_initialized
    serving,   \* the nodes whose Raft server runs
    leader,    \* the leader, or None
    voters, learners,
    pending,   \* the membership before a change that is not committed, or None
    join,      \* a join: "idle", "found", "waiting" or "answered"
    target,    \* the leader a joining node was told of
    tasks,     \* the nodes the leader has a promotion task for
    crashes, admin

clusterVars == <<mesh, at, log, sentinel, serving, leader, voters, learners, pending, join,
                 target, tasks, crashes, admin>>
disk == <<log, sentinel>>
membership == <<voters, learners, pending>>
joining == <<join, target>>
bounds == <<crashes, admin>>

ClusterInit ==
    /\ mesh = {Founder} /\ at = [n \in Nodes |-> "down"] /\ log = {} /\ sentinel = {}
    /\ serving = {} /\ leader = None /\ voters = {} /\ learners = {} /\ pending = None
    /\ join = [n \in Nodes |-> "idle"] /\ target = [n \in Nodes |-> None]
    /\ tasks = {} /\ crashes = 0 /\ admin = 0

Majority(config) == 2 * Cardinality(config \cap serving) > Cardinality(config)
Quorum == Majority(voters) /\ (pending # None => Majority(pending.voters))

\* A change to the membership, appended by the leader; `who` asked to join.
Append(who, new, others) ==
    /\ pending = None
    /\ pending' = [voters |-> voters, learners |-> learners, by |-> leader, who |-> who]
    /\ voters' = new /\ learners' = others

----------------------------------------------------------------------------
\* Starting a node.

\* The daemon of a member accepts the node.
JoinMesh(n) ==
    /\ n \notin mesh /\ (\E m \in mesh : at[m] = "run") /\ mesh' = mesh \cup {n}
    /\ UNCHANGED <<at, disk, serving, leader, membership, joining, tasks, bounds>>

\* A node without the sentinel and without peers goes on to bootstrap.
Start(n) ==
    /\ n \in mesh /\ at[n] = "down"
    /\ at' = [at EXCEPT ![n] = IF n \in sentinel \/ mesh # {n} THEN "run" ELSE "boot"]
    /\ UNCHANGED <<mesh, disk, serving, leader, membership, joining, tasks, bounds>>

\* A log that is initialised already is refused, and the daemon exits.
Initialize(n) ==
    /\ at[n] = "boot"
    /\ IF n \in log THEN at' = [at EXCEPT ![n] = "down"] /\ UNCHANGED <<log, voters>>
       ELSE /\ at' = [at EXCEPT ![n] = "initialized"] /\ log' = log \cup {n}
            /\ voters' = {n}
    /\ UNCHANGED <<mesh, sentinel, serving, leader, learners, pending, joining, tasks, bounds>>

WriteSentinel(n) ==
    /\ at[n] = "initialized" /\ at' = [at EXCEPT ![n] = "run"] /\ sentinel' = sentinel \cup {n}
    /\ UNCHANGED <<mesh, log, serving, leader, membership, joining, tasks, bounds>>

\* With the sentinel the daemon runs Raft on the stored log.
Serve(n) ==
    /\ at[n] = "run" /\ n \in sentinel \ serving /\ serving' = serving \cup {n}
    /\ log' = log \cup {n}
    /\ UNCHANGED <<mesh, at, sentinel, leader, membership, joining, tasks, bounds>>

----------------------------------------------------------------------------
\* Joining the cluster: the loop of a node without the sentinel.

\* A peer whose server runs tells who leads.
Probe(n) ==
    /\ at[n] = "run" /\ n \notin sentinel /\ join[n] = "idle"
    /\ leader # None /\ serving \cap (mesh \ {n}) # {}
    /\ join' = [join EXCEPT ![n] = "found"] /\ target' = [target EXCEPT ![n] = leader]
    /\ UNCHANGED <<mesh, at, disk, serving, leader, membership, tasks, bounds>>

Post_Unwaited(n) ==
    /\ join[n] = "found" /\ target[n] = leader /\ join' = [join EXCEPT ![n] = "answered"]
    /\ Append(n, voters, learners \cup ({n} \ voters))
    /\ UNCHANGED <<mesh, at, disk, serving, leader, target, tasks, bounds>>
\* The request reaches the leader it was told of, which adds a learner, or
\* fails: the leader is gone, or a change is in progress.
Post(n) ==
    /\ join[n] = "found"
    /\ \/ /\ target[n] = leader /\ Append(n, voters, learners \cup ({n} \ voters))
          /\ join' = [join EXCEPT ![n] = "waiting"]
       \/ /\ target[n] # leader \/ pending # None
          /\ join' = [join EXCEPT ![n] = "idle"] /\ UNCHANGED membership
    /\ UNCHANGED <<mesh, at, disk, serving, leader, target, tasks, bounds>>

Awaited(n) == pending # None /\ pending.who = n

\* Once the learner is committed the leader counts the voters and starts a
\* task that will promote it.
Answer(n) ==
    /\ join[n] = "waiting" /\ ~Awaited(n)
    /\ join' = [join EXCEPT ![n] = "answered"]
    /\ tasks' = IF Cardinality(voters) < MaxVoters THEN tasks \cup {n} ELSE tasks
    /\ UNCHANGED <<mesh, at, disk, serving, leader, membership, target, bounds>>

\* The leader can not commit, and the client gives up.
GiveUp(n) ==
    /\ join[n] = "waiting" /\ Awaited(n) /\ ~Quorum
    /\ join' = [join EXCEPT ![n] = "idle"]
    /\ UNCHANGED <<mesh, at, disk, serving, leader, membership, target, tasks, bounds>>

JoinSentinel_Forgotten(n) ==
    /\ join[n] = "answered" /\ join' = [join EXCEPT ![n] = "idle"]
    /\ UNCHANGED <<mesh, at, disk, serving, leader, membership, target, tasks, bounds>>
JoinSentinel(n) ==
    /\ join[n] = "answered" /\ sentinel' = sentinel \cup {n}
    /\ join' = [join EXCEPT ![n] = "idle"]
    /\ UNCHANGED <<mesh, at, log, serving, leader, membership, target, tasks, bounds>>

----------------------------------------------------------------------------
\* Promotion and demotion.

\* The task does not look at the number of voters again.
Promote(n) ==
    /\ n \in tasks /\ leader # None /\ pending = None /\ tasks' = tasks \ {n}
    /\ IF n \in voters THEN UNCHANGED membership
       ELSE Append(None, voters \cup {n}, learners \ {n})
    /\ UNCHANGED <<mesh, at, disk, serving, leader, joining, bounds>>

\* After a minute of changes in progress the node stays a learner.
Expire(n) ==
    /\ n \in tasks /\ pending # None /\ tasks' = tasks \ {n}
    /\ UNCHANGED <<mesh, at, disk, serving, leader, membership, joining, bounds>>

PromoteNow(n) ==
    /\ admin < MaxAdmin /\ admin' = admin + 1 /\ leader # None /\ n \in learners
    /\ Append(None, voters \cup {n}, learners \ {n})
    /\ UNCHANGED <<mesh, at, disk, serving, leader, joining, tasks, crashes>>

Demote(n) ==
    /\ admin < MaxAdmin /\ admin' = admin + 1 /\ leader # None /\ n \in voters /\ voters # {n}
    /\ Append(None, voters \ {n}, learners \cup {n})
    /\ UNCHANGED <<mesh, at, disk, serving, leader, joining, tasks, crashes>>

----------------------------------------------------------------------------
\* openraft and the failures.

\* The leadership ends, and with it the tasks and requests at the leader.
StepDown(lost) ==
    /\ leader' = None /\ tasks' = {}
    /\ join' = [m \in Nodes |-> IF m \in lost \/ join[m] = "waiting" THEN "idle" ELSE join[m]]

\* A leader that is no longer a voter steps down.
Commit ==
    /\ pending # None /\ leader # None /\ Quorum /\ pending' = None
    /\ IF leader \in voters THEN UNCHANGED <<leader, tasks, join>> ELSE StepDown({})
    /\ UNCHANGED <<mesh, at, disk, serving, voters, learners, target, bounds>>

\* The winner has the change that was pending, or never received it.
Elect(n) ==
    /\ leader = None /\ n \in serving /\ leader' = n
    /\ \/ /\ n \in voters /\ Quorum
          /\ pending' = IF pending = None THEN None ELSE [pending EXCEPT !.by = n]
          /\ UNCHANGED <<voters, learners>>
       \/ /\ pending # None /\ pending.by # n /\ n \in pending.voters /\ Majority(pending.voters)
          /\ voters' = pending.voters /\ learners' = pending.learners /\ pending' = None
    /\ UNCHANGED <<mesh, at, disk, serving, joining, tasks, bounds>>

Crash(n) ==
    /\ crashes < MaxCrashes /\ crashes' = crashes + 1 /\ at[n] # "down"
    /\ at' = [at EXCEPT ![n] = "down"] /\ serving' = serving \ {n}
    /\ IF leader = n THEN StepDown({n})
       ELSE join' = [join EXCEPT ![n] = "idle"] /\ UNCHANGED <<leader, tasks>>
    /\ UNCHANGED <<mesh, disk, membership, target, admin>>

Boots(n) == Start(n) \/ Initialize(n) \/ WriteSentinel(n) \/ Serve(n)
JoinLoop(n) == Probe(n) \/ Post(n) \/ Answer(n) \/ GiveUp(n) \/ JoinSentinel(n)

ClusterNext ==
    \/ \E n \in Nodes : \/ JoinMesh(n) \/ Boots(n) \/ JoinLoop(n) \/ Promote(n) \/ Expire(n)
                        \/ PromoteNow(n) \/ Demote(n) \/ Elect(n) \/ Crash(n)
    \/ Commit

ClusterSpec == ClusterInit /\ [][ClusterNext]_clusterVars

\* A daemon that ends is started again, its join loop never gives up, and
\* openraft commits and elects while a majority runs.
FairClusterSpec ==
    /\ ClusterSpec /\ WF_clusterVars(Commit) /\ WF_clusterVars(\E n \in Nodes : Elect(n))
    /\ \A n \in Nodes : WF_clusterVars(Boots(n)) /\ WF_clusterVars(JoinLoop(n))

----------------------------------------------------------------------------
\* A node that will start Raft from its own disk is a member, although the
\* leader that accepted it may fail and its change be lost (daemon.rs auto-join
\* writes the sentinel after the join is answered, server.rs join_handler).
SentinelIsMember == sentinel \subseteq voters \cup learners

\* A node that died between its first effect on the cluster and its sentinel:
\* a bootstrap that can not be repeated, or a voter that has no server.
Torn == \E n \in mesh \ sentinel : n \in log \/ n \in voters

\* Every node of the mesh ends up with a running Raft server, whatever joins
\* collide, leaders fail and answers are lost, unless a node is torn (daemon.rs
\* auto_bootstrap_raft, auto-join loop).
MembersServe == <>[](mesh \subseteq serving \/ Torn)
=============================================================================
