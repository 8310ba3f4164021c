------------------------- MODULE ControlCluster_proofs -------------------------
(***************************************************************************)
(* Proof that a node with the sentinel is a member of the Raft cluster,    *)
(* for any number of nodes, crashes and manual changes.                    *)
(*                                                                         *)
(* A change that is not committed may be lost with its leader, so the      *)
(* claim has to hold of the membership before the change as well: that is  *)
(* what the answer to a join waits for (MemberOK).  A request waits only   *)
(* while its leader leads, so none is answered after a change is lost      *)
(* (JoinOK).  The bootstrap replaces the whole membership; it can, because *)
(* a node that bootstraps is alone in the mesh (BootOK) and nobody has     *)
(* served, led or changed anything yet (RunOK).                            *)
(***************************************************************************)
EXTENDS ControlCluster, TLAPS

Changes == [voters : SUBSET Nodes, learners : SUBSET Nodes,
            by : Nodes \cup {None}, who : Nodes \cup {None}]

ClusterTypeOK ==
    /\ mesh \subseteq Nodes /\ sentinel \subseteq Nodes /\ serving \subseteq Nodes
    /\ at \in [Nodes -> {"down", "boot", "initialized", "run"}]
    /\ leader \in Nodes \cup {None}
    /\ voters \subseteq Nodes /\ learners \subseteq Nodes
    /\ pending \in Changes \cup {None}
    /\ join \in [Nodes -> {"idle", "found", "waiting", "answered"}]
    /\ target \in [Nodes -> Nodes \cup {None}]

\* The members, and the members before the change that is not committed.
Members == voters \cup learners
Before == IF pending = None THEN Members ELSE pending.voters \cup pending.learners

\* A node that bootstraps is the only one of the mesh.
BootOK ==
    \A n \in Nodes :
        /\ at[n] # "down" => n \in mesh
        /\ at[n] \in {"boot", "initialized"} => mesh = {n} /\ n \notin sentinel
        /\ at[n] = "initialized" => n \in voters

\* Only nodes with the sentinel serve and lead; changes need a leader.
RunOK ==
    /\ sentinel \subseteq mesh /\ serving \subseteq sentinel
    /\ leader # None => leader \in serving
    /\ pending # None => sentinel # {}

\* A join is at work on a running node that was told of a leader, and waits
\* only while somebody leads.
JoinOK ==
    \A n \in Nodes : /\ join[n] # "idle" => at[n] = "run" /\ target[n] # None
                     /\ join[n] = "waiting" => leader # None

\* Who has the sentinel, or is about to write it, is a member whatever
\* becomes of the change; who waits is one unless its own change is lost.
MemberOK ==
    \A n \in Nodes :
        /\ n \in sentinel \/ join[n] = "answered" => n \in Members \cap Before
        /\ join[n] = "waiting" => n \in Members /\ (Awaited(n) \/ n \in Before)

ClusterOK == ClusterTypeOK /\ BootOK /\ RunOK /\ JoinOK /\ MemberOK

-----------------------------------------------------------------------------
(* The initial state, and the steps of the start of a node.                *)

LEMMA ClusterStart == ClusterInit => ClusterOK
  BY ClusterAssumption DEF ClusterInit, ClusterOK, ClusterTypeOK, BootOK, RunOK, JoinOK,
     MemberOK

LEMMA ClusterSame ==
  ASSUME ClusterOK,
         UNCHANGED <<mesh, at, sentinel, serving, leader, voters, learners, pending, join,
                     target>>
  PROVE  ClusterOK'
  BY DEF ClusterOK, ClusterTypeOK, BootOK, RunOK, JoinOK, MemberOK, Members, Before,
     Awaited

LEMMA JoinMeshStep ==
  ASSUME ClusterOK, NEW n \in Nodes, JoinMesh(n) PROVE ClusterOK'
<1>1. ClusterTypeOK'
      BY DEF ClusterOK, ClusterTypeOK, JoinMesh, disk, membership, joining
<1>2. BootOK'
      BY DEF ClusterOK, BootOK, JoinMesh
<1>3. RunOK'
      BY DEF ClusterOK, RunOK, JoinMesh, disk, membership
<1>4. JoinOK'
      BY DEF ClusterOK, JoinOK, JoinMesh, joining
<1>5. MemberOK'
      BY DEF ClusterOK, MemberOK, Members, Before, Awaited, JoinMesh, disk, membership,
         joining
<1> QED BY <1>1, <1>2, <1>3, <1>4, <1>5 DEF ClusterOK

LEMMA StartStep ==
  ASSUME ClusterOK, NEW n \in Nodes, Start(n) PROVE ClusterOK'
<1>1. ClusterTypeOK'
      BY DEF ClusterOK, ClusterTypeOK, Start, disk, membership, joining
<1>2. BootOK'
      BY DEF ClusterOK, ClusterTypeOK, BootOK, Start, disk
<1>3. RunOK'
      BY DEF ClusterOK, RunOK, Start, disk, membership
<1>4. JoinOK'
      BY DEF ClusterOK, ClusterTypeOK, JoinOK, Start, joining
<1>5. MemberOK'
      BY DEF ClusterOK, MemberOK, Members, Before, Awaited, Start, disk, membership,
         joining
<1> QED BY <1>1, <1>2, <1>3, <1>4, <1>5 DEF ClusterOK

LEMMA InitializeStep ==
  ASSUME ClusterOK, NEW n \in Nodes, Initialize(n) PROVE ClusterOK'
<1>1. ClusterTypeOK'
      BY DEF ClusterOK, ClusterTypeOK, Initialize, joining
<1>2. BootOK'
      BY DEF ClusterOK, ClusterTypeOK, BootOK, Initialize
<1>3. RunOK'
      BY DEF ClusterOK, RunOK, Initialize
<1>4. JoinOK'
      BY DEF ClusterOK, ClusterTypeOK, BootOK, JoinOK, Initialize, joining
<1>5. MemberOK'
      BY DEF ClusterOK, BootOK, RunOK, JoinOK, MemberOK, Initialize, joining
<1> QED BY <1>1, <1>2, <1>3, <1>4, <1>5 DEF ClusterOK

LEMMA WriteSentinelStep ==
  ASSUME ClusterOK, NEW n \in Nodes, WriteSentinel(n) PROVE ClusterOK'
<1>1. ClusterTypeOK'
      BY DEF ClusterOK, ClusterTypeOK, WriteSentinel, membership, joining
<1>2. BootOK'
      BY DEF ClusterOK, ClusterTypeOK, BootOK, WriteSentinel
<1>3. RunOK'
      BY DEF ClusterOK, BootOK, RunOK, WriteSentinel
<1>4. JoinOK'
      BY DEF ClusterOK, ClusterTypeOK, JoinOK, WriteSentinel, joining
<1>5. MemberOK'
      BY DEF ClusterOK, BootOK, RunOK, MemberOK, Members, Before, WriteSentinel,
         membership, joining
<1> QED BY <1>1, <1>2, <1>3, <1>4, <1>5 DEF ClusterOK

LEMMA ServeStep ==
  ASSUME ClusterOK, NEW n \in Nodes, Serve(n) PROVE ClusterOK'
<1>1. ClusterTypeOK'
      BY DEF ClusterOK, ClusterTypeOK, Serve, membership, joining
<1>2. BootOK'
      BY DEF ClusterOK, BootOK, Serve
<1>3. RunOK'
      BY DEF ClusterOK, RunOK, Serve
<1>4. JoinOK'
      BY DEF ClusterOK, JoinOK, Serve, joining
<1>5. MemberOK'
      BY DEF ClusterOK, MemberOK, Members, Before, Awaited, Serve, membership, joining
<1> QED BY <1>1, <1>2, <1>3, <1>4, <1>5 DEF ClusterOK

-----------------------------------------------------------------------------
(* The join loop.                                                          *)

LEMMA ProbeStep ==
  ASSUME ClusterOK, NEW n \in Nodes, Probe(n) PROVE ClusterOK'
<1>1. ClusterTypeOK'
      BY DEF ClusterOK, ClusterTypeOK, Probe, disk, membership
<1>2. BootOK'
      BY DEF ClusterOK, BootOK, Probe
<1>3. RunOK'
      BY DEF ClusterOK, RunOK, Probe, disk
<1>4. JoinOK'
      BY DEF ClusterOK, ClusterTypeOK, JoinOK, Probe
<1>5. MemberOK'
      BY DEF ClusterOK, ClusterTypeOK, MemberOK, Members, Before, Awaited, Probe, disk,
         membership
<1> QED BY <1>1, <1>2, <1>3, <1>4, <1>5 DEF ClusterOK

LEMMA PostStep ==
  ASSUME ClusterOK, NEW n \in Nodes, Post(n) PROVE ClusterOK'
<1>1. ClusterTypeOK'
      BY DEF ClusterOK, ClusterTypeOK, Changes, Post, Append, disk, membership
<1>2. BootOK'
      BY DEF ClusterOK, BootOK, Post, Append, disk, membership
<1>3. RunOK'
      BY DEF ClusterOK, RunOK, JoinOK, Post, disk, membership
<1>4. JoinOK'
      BY DEF ClusterOK, ClusterTypeOK, JoinOK, Post
<1>5. MemberOK'
      BY DEF ClusterOK, ClusterTypeOK, MemberOK, Members, Before, Awaited, Post, Append,
         disk, membership
<1> QED BY <1>1, <1>2, <1>3, <1>4, <1>5 DEF ClusterOK

LEMMA AnswerStep ==
  ASSUME ClusterOK, NEW n \in Nodes, Answer(n) PROVE ClusterOK'
<1>1. ClusterTypeOK'
      BY DEF ClusterOK, ClusterTypeOK, Answer, disk, membership
<1>2. BootOK'
      BY DEF ClusterOK, BootOK, Answer, disk, membership
<1>3. RunOK'
      BY DEF ClusterOK, RunOK, Answer, disk, membership
<1>4. JoinOK'
      BY DEF ClusterOK, ClusterTypeOK, JoinOK, Answer
<1>5. MemberOK'
      BY DEF ClusterOK, ClusterTypeOK, MemberOK, Members, Before, Awaited, Answer, disk,
         membership
<1> QED BY <1>1, <1>2, <1>3, <1>4, <1>5 DEF ClusterOK

LEMMA GiveUpStep ==
  ASSUME ClusterOK, NEW n \in Nodes, GiveUp(n) PROVE ClusterOK'
<1>1. ClusterTypeOK'
      BY DEF ClusterOK, ClusterTypeOK, GiveUp, disk, membership
<1>2. BootOK'
      BY DEF ClusterOK, BootOK, GiveUp, disk, membership
<1>3. RunOK'
      BY DEF ClusterOK, RunOK, GiveUp, disk, membership
<1>4. JoinOK'
      BY DEF ClusterOK, ClusterTypeOK, JoinOK, GiveUp
<1>5. MemberOK'
      BY DEF ClusterOK, ClusterTypeOK, MemberOK, Members, Before, Awaited, GiveUp, disk,
         membership
<1> QED BY <1>1, <1>2, <1>3, <1>4, <1>5 DEF ClusterOK

LEMMA JoinSentinelStep ==
  ASSUME ClusterOK, NEW n \in Nodes, JoinSentinel(n) PROVE ClusterOK'
<1>1. ClusterTypeOK'
      BY DEF ClusterOK, ClusterTypeOK, JoinSentinel, membership
<1>2. BootOK'
      BY DEF ClusterOK, ClusterTypeOK, BootOK, JoinOK, JoinSentinel
<1>3. RunOK'
      BY DEF ClusterOK, BootOK, RunOK, JoinOK, JoinSentinel
<1>4. JoinOK'
      BY DEF ClusterOK, ClusterTypeOK, JoinOK, JoinSentinel
<1>5. MemberOK'
      BY DEF ClusterOK, ClusterTypeOK, MemberOK, Members, Before, Awaited, JoinSentinel,
         membership
<1> QED BY <1>1, <1>2, <1>3, <1>4, <1>5 DEF ClusterOK

-----------------------------------------------------------------------------
(* Promotion and demotion keep the members, elections and crashes too.     *)

LEMMA PromoteStep ==
  ASSUME ClusterOK, NEW n \in Nodes, Promote(n) PROVE ClusterOK'
<1>1. ClusterTypeOK'
      BY DEF ClusterOK, ClusterTypeOK, Changes, Promote, Append, disk, membership, joining
<1>2. BootOK'
      BY DEF ClusterOK, BootOK, Promote, Append, disk, membership
<1>3. RunOK'
      BY DEF ClusterOK, RunOK, Promote, disk
<1>4. JoinOK'
      BY DEF ClusterOK, JoinOK, Promote, joining
<1>5. MemberOK'
      BY DEF ClusterOK, MemberOK, Members, Before, Promote, Append, disk, membership,
         joining
<1> QED BY <1>1, <1>2, <1>3, <1>4, <1>5 DEF ClusterOK

LEMMA PromoteNowStep ==
  ASSUME ClusterOK, NEW n \in Nodes, PromoteNow(n) PROVE ClusterOK'
<1>1. ClusterTypeOK'
      BY DEF ClusterOK, ClusterTypeOK, Changes, PromoteNow, Append, disk, joining
<1>2. BootOK'
      BY DEF ClusterOK, BootOK, PromoteNow, Append, disk
<1>3. RunOK'
      BY DEF ClusterOK, RunOK, PromoteNow, disk
<1>4. JoinOK'
      BY DEF ClusterOK, JoinOK, PromoteNow, joining
<1>5. MemberOK'
      BY DEF ClusterOK, MemberOK, Members, Before, PromoteNow, Append, disk, joining
<1> QED BY <1>1, <1>2, <1>3, <1>4, <1>5 DEF ClusterOK

LEMMA DemoteStep ==
  ASSUME ClusterOK, NEW n \in Nodes, Demote(n) PROVE ClusterOK'
<1>1. ClusterTypeOK'
      BY DEF ClusterOK, ClusterTypeOK, Changes, Demote, Append, disk, joining
<1>2. BootOK'
      BY DEF ClusterOK, BootOK, RunOK, Demote
<1>3. RunOK'
      BY DEF ClusterOK, RunOK, Demote, disk
<1>4. JoinOK'
      BY DEF ClusterOK, JoinOK, Demote, joining
<1>5. MemberOK'
      BY DEF ClusterOK, MemberOK, Members, Before, Demote, Append, disk, joining
<1> QED BY <1>1, <1>2, <1>3, <1>4, <1>5 DEF ClusterOK

LEMMA CommitStep ==
  ASSUME ClusterOK, Commit PROVE ClusterOK'
<1>1. ClusterTypeOK'
      BY DEF ClusterOK, ClusterTypeOK, Commit, StepDown, disk
<1>2. BootOK'
      BY DEF ClusterOK, BootOK, Commit, disk
<1>3. RunOK'
      BY DEF ClusterOK, RunOK, Commit, StepDown, disk
<1>4. JoinOK'
      BY DEF ClusterOK, ClusterTypeOK, JoinOK, Commit, StepDown
<1>5. MemberOK'
      BY DEF ClusterOK, ClusterTypeOK, MemberOK, Members, Before, Commit, StepDown, disk
<1> QED BY <1>1, <1>2, <1>3, <1>4, <1>5 DEF ClusterOK

LEMMA ElectStep ==
  ASSUME ClusterOK, NEW n \in Nodes, Elect(n) PROVE ClusterOK'
<1>1. ClusterTypeOK'
      BY DEF ClusterOK, ClusterTypeOK, Changes, Elect, disk, joining
<1>2. BootOK'
      BY DEF ClusterOK, BootOK, RunOK, Elect
<1>3. RunOK'
      BY DEF ClusterOK, RunOK, Elect, disk
<1>4. JoinOK'
      BY DEF ClusterOK, JoinOK, Elect, joining
<1>5. MemberOK'
  <2>1. UNCHANGED <<sentinel, join>> /\ \A m \in Nodes : join[m] # "waiting"
        BY DEF ClusterOK, JoinOK, Elect, disk, joining
  <2>2. CASE /\ pending' = IF pending = None THEN None ELSE [pending EXCEPT !.by = n]
             /\ UNCHANGED <<voters, learners>>
    <3>1. pending # None => /\ [pending EXCEPT !.by = n].voters = pending.voters
                            /\ [pending EXCEPT !.by = n].learners = pending.learners
          OBVIOUS
    <3> QED BY <2>1, <2>2, <3>1 DEF ClusterOK, MemberOK, Members, Before
  <2>3. CASE /\ pending # None /\ pending' = None
             /\ voters' = pending.voters /\ learners' = pending.learners
        BY <2>1, <2>3 DEF ClusterOK, MemberOK, Members, Before
  <2> QED BY <2>2, <2>3 DEF Elect
<1> QED BY <1>1, <1>2, <1>3, <1>4, <1>5 DEF ClusterOK

LEMMA CrashStep ==
  ASSUME ClusterOK, NEW n \in Nodes, Crash(n) PROVE ClusterOK'
<1>1. ClusterTypeOK'
      BY DEF ClusterOK, ClusterTypeOK, Crash, StepDown, disk, membership
<1>2. BootOK'
      BY DEF ClusterOK, ClusterTypeOK, BootOK, Crash, disk, membership
<1>3. RunOK'
      BY DEF ClusterOK, RunOK, Crash, StepDown, disk, membership
<1>4. JoinOK'
      BY DEF ClusterOK, ClusterTypeOK, JoinOK, Crash, StepDown
<1>5. MemberOK'
      BY DEF ClusterOK, ClusterTypeOK, MemberOK, Members, Before, Awaited, Crash,
         StepDown, disk, membership
<1> QED BY <1>1, <1>2, <1>3, <1>4, <1>5 DEF ClusterOK
-----------------------------------------------------------------------------
(* The invariant.                                                          *)

LEMMA ClusterStep == ClusterOK /\ [ClusterNext]_clusterVars => ClusterOK'
<1> SUFFICES ASSUME ClusterOK, [ClusterNext]_clusterVars PROVE ClusterOK'
    OBVIOUS
<1>1. ASSUME NEW n \in Nodes, JoinMesh(n) \/ Boots(n) PROVE ClusterOK'
      BY <1>1, JoinMeshStep, StartStep, InitializeStep, WriteSentinelStep, ServeStep
         DEF Boots
<1>2. ASSUME NEW n \in Nodes, JoinLoop(n) PROVE ClusterOK'
      BY <1>2, ProbeStep, PostStep, AnswerStep, GiveUpStep, JoinSentinelStep DEF JoinLoop
<1>3. ASSUME NEW n \in Nodes, Promote(n) \/ PromoteNow(n) \/ Demote(n) PROVE ClusterOK'
      BY <1>3, PromoteStep, PromoteNowStep, DemoteStep
<1>4. ASSUME NEW n \in Nodes, Expire(n) PROVE ClusterOK'
      BY <1>4, ClusterSame DEF Expire, disk, membership, joining
<1>5. ASSUME NEW n \in Nodes, Elect(n) \/ Crash(n) PROVE ClusterOK'
      BY <1>5, ElectStep, CrashStep
<1>6. CASE Commit
      BY <1>6, CommitStep
<1>7. CASE UNCHANGED clusterVars
      BY <1>7, ClusterSame DEF clusterVars
<1> QED BY <1>1, <1>2, <1>3, <1>4, <1>5, <1>6, <1>7 DEF ClusterNext

\* A node that will start Raft from its own disk is a member, for any number
\* of nodes: joins that collide, answers that race the commit, leaders that
\* crash with a change not committed, elections that drop it, promotions,
\* demotions and a bootstrap never leave a sentinel behind on a node the
\* cluster does not know (daemon.rs auto-join, server.rs join_handler).
THEOREM SentinelsAreMembers == ClusterSpec => []SentinelIsMember
<1>1. ClusterOK => SentinelIsMember
      BY DEF ClusterOK, ClusterTypeOK, MemberOK, Members, SentinelIsMember
<1> QED BY ClusterStart, ClusterStep, <1>1, PTL DEF ClusterSpec
===============================================================================
