----------------------------- MODULE FabricMesh -----------------------------
(***************************************************************************)
(* The WireGuard mesh of the fabric layer: how a node joins through any    *)
(* member (PIN or manual acceptance), how members learn of each other      *)
(* (announcements on acceptance, gossip of new records, periodic           *)
(* self-announcement), how records age, are removed and collected, how the *)
(* interface follows the store, and how the mesh secret is rotated         *)
(* (layers/fabric/src/daemon.rs, peering.rs, store.rs, wg.rs).             *)
(*                                                                         *)
(* A WireGuard key pair is made for every attempt to join, so a node that  *)
(* leaves and comes back has another key.  A record is its key and its     *)
(* status; name, endpoint and addresses follow from the owner of the key.  *)
(* Secrets are versions.  A daemon keeps three: the stored one, the shared *)
(* one in memory, and the one its listener, its TLS server and its         *)
(* announcing tasks captured when it started.                              *)
(***************************************************************************)
EXTENDS Naturals, FiniteSets

CONSTANTS
    Nodes,        \* the machines
    Members,      \* the nodes of the mesh at the start
    Keys,         \* WireGuard keys, <<owner, attempt>>
    MaxPending,   \* max_pending_joins
    MaxPeers,     \* max_peers
    MaxVersion,   \* bound on rotations of the secret
    MaxEvents,    \* bound on what the network, the operator or a crash may do
    None

ASSUME MeshAssumption ==
    /\ Keys \subseteq Nodes \X (Nat \ {0}) /\ IsFiniteSet(Keys)
    /\ Members \subseteq Nodes /\ \A n \in Members : <<n, 1>> \in Keys
    /\ {MaxPending, MaxPeers, MaxVersion, MaxEvents} \subseteq Nat
    /\ None \notin Keys \cup Nodes \cup Nat

VARIABLES
    life,     \* "out" (no state), "waiting" (join sent), "stopped" or "up"
    key,      \* the node's current WireGuard key, or None
    tries,    \* how many keys the node has made
    asked,    \* the member a joining node waits for, or None
    secret,   \* the stored version of the mesh secret
    shared,   \* the version in the daemon's shared cell
    captured, \* the version the daemon captured when it started
    auto,     \* the version in the PIN auto-accept configuration, or None
    store,    \* the peers table: "Active", "Unreachable", "Removed" or "none"
    wg,       \* the peers configured on the interface
    pending,  \* the manual join requests that wait
    accepted, \* accepted joins whose task has not run
    gossip,   \* announcements under way: [from, to, key, ver]
    health,   \* the records a health check is about to write back, or None
    rotation, \* a rotation between load and save: [peers, ver], or None
    events    \* how many losses, crashes and operator commands have happened

meshVars == <<life, key, tries, asked, secret, shared, captured, auto, store, wg,
              pending, accepted, gossip, health, rotation, events>>
daemonVars == <<auto, pending, accepted, health, rotation>>

Owner(k) == k[1]
Up(n) == life[n] = "up"
Known(n) == {k \in Keys : store[n][k] # "none"}
Wired(peers) == {k \in Keys : peers[k] \in {"Active", "Unreachable"}}
NoPeers == [k \in Keys |-> "none"]

Event == events < MaxEvents /\ events' = events + 1

\* The members know each other, as after joins that went well; a mesh that
\* was just created has one.  Some have peering open.
MeshInit ==
    /\ life = [n \in Nodes |-> IF n \in Members THEN "up" ELSE "out"]
    /\ key = [n \in Nodes |-> IF n \in Members THEN <<n, 1>> ELSE None]
    /\ tries = [n \in Nodes |-> IF n \in Members THEN 1 ELSE 0]
    /\ asked = [n \in Nodes |-> None]
    /\ secret = [n \in Nodes |-> 0]
    /\ shared = [n \in Nodes |-> 0]
    /\ captured = [n \in Nodes |-> 0]
    /\ auto \in [Nodes -> {0, None}] /\ \A n \in Nodes \ Members : auto[n] = None
    /\ store = [n \in Nodes |-> [k \in Keys |->
                  IF /\ n \in Members /\ Owner(k) # n /\ k[2] = 1
                     /\ Owner(k) \in Members
                  THEN "Active" ELSE "none"]]
    /\ wg = [n \in Nodes |-> {k \in Keys : store[n][k] = "Active"}]
    /\ pending = [n \in Nodes |-> {}]
    /\ accepted = [n \in Nodes |-> {}]
    /\ gossip = {}
    /\ health = [n \in Nodes |-> None]
    /\ rotation = [n \in Nodes |-> None]
    /\ events = 0

-----------------------------------------------------------------------------
(* The life of a daemon.                                                   *)

\* A daemon starts: the interface is set up with the stored peers and the
\* stored secret becomes the shared and the captured one.
Start(n) ==
    /\ life[n] = "stopped"
    /\ life' = [life EXCEPT ![n] = "up"]
    /\ wg' = [wg EXCEPT ![n] = Wired(store[n])]
    /\ shared' = [shared EXCEPT ![n] = secret[n]]
    /\ captured' = [captured EXCEPT ![n] = secret[n]]
    /\ UNCHANGED <<key, tries, asked, secret, store, daemonVars, gossip, events>>

\* What a process that ends takes with it: its tasks, its pending requests,
\* and the announcements it was sending.
Forget(n) ==
    /\ auto' = [auto EXCEPT ![n] = None]
    /\ pending' = [pending EXCEPT ![n] = {}]
    /\ accepted' = [accepted EXCEPT ![n] = {}]
    /\ health' = [health EXCEPT ![n] = None]
    /\ rotation' = [rotation EXCEPT ![n] = None]
    /\ gossip' = {g \in gossip : g.from # n}
    /\ wg' = [wg EXCEPT ![n] = {}]

\* A daemon stops or crashes; the store keeps what was written.
Stop(n) ==
    /\ Up(n) /\ Event
    /\ life' = [life EXCEPT ![n] = "stopped"]
    /\ Forget(n)
    /\ UNCHANGED <<key, tries, asked, secret, shared, captured, store>>

\* Leaving clears the whole state.  The other members are not told.
Leave(n) ==
    /\ life[n] \in {"up", "stopped"} /\ Event
    /\ life' = [life EXCEPT ![n] = "out"]
    /\ key' = [key EXCEPT ![n] = None]
    /\ store' = [store EXCEPT ![n] = NoPeers]
    /\ Forget(n)
    /\ UNCHANGED <<tries, asked, secret, shared, captured>>

-----------------------------------------------------------------------------
(* Joining.                                                                *)

\* The records a joiner is given: those of the member and the member itself.
Roster(n) == [store[n] EXCEPT ![key[n]] = "Active"]

\* A joiner makes a key pair; nothing is stored until it is accepted.
NewKey(j, k) ==
    /\ life[j] = "out"
    /\ k = <<j, tries[j] + 1>> /\ k \in Keys
    /\ key' = [key EXCEPT ![j] = k]
    /\ tries' = [tries EXCEPT ![j] = @ + 1]

\* The joiner takes the response: the peers are saved with the secret.
Admit(j, roster, ver) ==
    /\ life' = [life EXCEPT ![j] = "stopped"]
    /\ asked' = [asked EXCEPT ![j] = None]
    /\ secret' = [secret EXCEPT ![j] = ver]
    /\ store' = [store EXCEPT ![j] = roster]

\* A request with the PIN of an open auto-accept configuration is answered at
\* once, with the secret that configuration was opened with, unless the
\* member has max_peers records.
JoinByPin(j, n, k) ==
    /\ Up(n) /\ auto[n] # None
    /\ NewKey(j, k)
    /\ Cardinality(Known(n)) < MaxPeers
    /\ Admit(j, Roster(n), auto[n])
    /\ accepted' = [accepted EXCEPT ![n] = @ \cup {k}]
    /\ UNCHANGED <<shared, captured, auto, wg, pending, gossip, health,
                   rotation, events>>

\* A request without a (right) PIN waits for the operator.  It replaces a
\* waiting request of the same name; beyond max_pending_joins it is refused.
RequestJoin(j, n, k) ==
    LET others == {p \in pending[n] : Owner(p) # j}
    IN  /\ Up(n)
        /\ NewKey(j, k)
        /\ Cardinality(others) < MaxPending
        /\ life' = [life EXCEPT ![j] = "waiting"]
        /\ asked' = [asked EXCEPT ![j] = n]
        /\ pending' = [pending EXCEPT ![n] = others \cup {k}]
        /\ UNCHANGED <<secret, shared, captured, auto, store, wg, accepted,
                       gossip, health, rotation, events>>

\* The joiner's own ten seconds pass, the request was rejected, or the
\* member is gone: nothing of the attempt is left on the joiner.
GiveUp(j) ==
    /\ life[j] = "waiting"
    /\ life' = [life EXCEPT ![j] = "out"]
    /\ key' = [key EXCEPT ![j] = None]
    /\ asked' = [asked EXCEPT ![j] = None]
    /\ UNCHANGED <<tries, secret, shared, captured, daemonVars, store, wg,
                   gossip, events>>

\* The member's ten seconds pass, or its operator rejects the request.
DropRequest(n, k) ==
    /\ Up(n) /\ k \in pending[n]
    /\ pending' = [pending EXCEPT ![n] = @ \ {k}]
    /\ UNCHANGED <<life, key, tries, asked, secret, shared, captured, auto,
                   store, wg, accepted, gossip, health, rotation, events>>

\* The operator accepts a waiting request.  The response goes to the joiner if
\* it still waits with this key; the member records the peer in any case.
AcceptJoin(n, k) ==
    /\ Up(n) /\ k \in pending[n]
    /\ pending' = [pending EXCEPT ![n] = @ \ {k}]
    /\ accepted' = [accepted EXCEPT ![n] = @ \cup {k}]
    /\ IF life[Owner(k)] = "waiting" /\ key[Owner(k)] = k
       THEN Admit(Owner(k), Roster(n), secret[n])
       ELSE UNCHANGED <<life, asked, secret, store>>
    /\ UNCHANGED <<key, tries, shared, captured, auto, wg, gossip, health,
                   rotation, events>>

-----------------------------------------------------------------------------
(* Records of peers.                                                       *)

\* Both bounded upserts let a known key through and refuse a new one at the
\* limit.
HasRoom(n, k) == k \in Known(n) \/ Cardinality(Known(n)) < MaxPeers

\* An announcement of k is sent to every record of peers, Removed ones and
\* k itself included, with the captured secret.
Wave(n, peers, k) ==
    {[from |-> n, to |-> Owner(p), key |-> k, ver |-> captured[n]] :
       p \in {q \in Keys : peers[q] # "none"}}

\* The task of an accepted join: older records of the same name are marked
\* Removed, the peer is wired and stored, and announced to all known peers.
RunAccepted(n, k) ==
    LET purged == [p \in Keys |-> IF /\ Owner(p) = Owner(k) /\ p # k
                                     /\ store[n][p] # "none"
                                  THEN "Removed" ELSE store[n][p]]
        peers == IF HasRoom(n, k) THEN [purged EXCEPT ![k] = "Active"]
                                  ELSE purged
    IN  /\ Up(n) /\ k \in accepted[n]
        /\ accepted' = [accepted EXCEPT ![n] = @ \ {k}]
        /\ store' = [store EXCEPT ![n] = peers]
        /\ wg' = [wg EXCEPT ![n] = IF HasRoom(n, k) THEN @ \cup {k} ELSE @]
        /\ gossip' = gossip \cup Wave(n, peers, k)
        /\ UNCHANGED <<life, key, tries, asked, secret, shared, captured, auto,
                       pending, health, rotation, events>>

\* What an announcement does to the receiver's tables.  A record with the
\* receiver's own endpoint is ignored.
RecordPeer(n, k, regossip) ==
    IF Owner(k) = n \/ ~HasRoom(n, k)
    THEN UNCHANGED <<store, wg>> /\ gossip' = regossip
    ELSE /\ store' = [store EXCEPT ![n][k] = "Active"]
         /\ wg' = [wg EXCEPT ![n] = @ \cup {k}]
         /\ gossip' = regossip

\* Both TLS and the record's encryption need equal secrets.
Reaches(g) == Up(g.to) /\ captured[g.to] = g.ver

\* An announcement arrives: a record that was not known is passed on.
Announced(g) ==
    LET n == g.to
        peers == IF HasRoom(n, g.key) THEN [store[n] EXCEPT ![g.key] = "Active"]
                                      ELSE store[n]
        more == IF g.key \in Known(n) \/ Owner(g.key) = n THEN {}
                ELSE Wave(n, peers, g.key)
    IN  /\ g \in gossip /\ Reaches(g)
        /\ RecordPeer(n, g.key, (gossip \ {g}) \cup more)
        /\ UNCHANGED <<life, key, tries, asked, secret, shared, captured,
                       daemonVars, events>>

\* All tasks are busy: the announcement waits in the retry queue, and what
\* the queue applies is not passed on.
AnnouncedQueued(g) ==
    /\ g \in gossip /\ Reaches(g) /\ Event
    /\ RecordPeer(g.to, g.key, gossip \ {g})
    /\ UNCHANGED <<life, key, tries, asked, secret, shared, captured,
                   daemonVars>>

\* The three tries of an announcement fail, or queue and tasks are full.
Lost(g) ==
    /\ g \in gossip
    /\ IF Reaches(g) THEN Event ELSE UNCHANGED events
    /\ gossip' = gossip \ {g}
    /\ UNCHANGED <<life, key, tries, asked, secret, shared, captured, daemonVars,
                   store, wg>>

\* Mutant: a peer that was removed is not told.
SelfAnnounce_NotRemoved(n, k) ==
    LET m == Owner(k)
        more == IF key[n] \in Known(m) \/ m = n THEN {}
                ELSE Wave(m, [store[m] EXCEPT ![key[n]] = "Active"], key[n])
    IN  /\ Up(n) /\ k \in Wired(store[n]) /\ Up(m)
        /\ captured[m] = captured[n]
        /\ RecordPeer(m, key[n], gossip \cup more)
        /\ UNCHANGED <<life, key, tries, asked, secret, shared, captured,
                       daemonVars, events>>

\* One announcement of the node's own record, to one of its records, Removed
\* ones included.  (An attempt that fails changes nothing.)
SelfAnnounce(n, k) ==
    LET m == Owner(k)
        more == IF key[n] \in Known(m) \/ m = n THEN {}
                ELSE Wave(m, [store[m] EXCEPT ![key[n]] = "Active"], key[n])
    IN  /\ Up(n) /\ k \in Known(n) /\ Up(m)
        /\ captured[m] = captured[n]
        /\ RecordPeer(m, key[n], gossip \cup more)
        /\ UNCHANGED <<life, key, tries, asked, secret, shared, captured,
                       daemonVars, events>>

\* Mutant: the loop only adds what is missing.
Reconcile_AddOnly(n) ==
    /\ Up(n)
    /\ wg' = [wg EXCEPT ![n] = @ \cup Wired(store[n])]
    /\ UNCHANGED <<life, key, tries, asked, secret, shared, captured,
                   daemonVars, store, gossip, events>>

\* The WireGuard reconcile loop: the interface gets the records that are not
\* Removed, and only those.
Reconcile(n) ==
    /\ Up(n)
    /\ wg' = [wg EXCEPT ![n] = Wired(store[n])]
    /\ UNCHANGED <<life, key, tries, asked, secret, shared, captured,
                   daemonVars, store, gossip, events>>

\* The operator removes a peer: the record is marked, the interface synced.
\* The announcement of the removal is refused by every receiver.
RemovePeer(n, k) ==
    /\ Up(n) /\ k \in Wired(store[n]) /\ Event
    /\ store' = [store EXCEPT ![n][k] = "Removed"]
    /\ wg' = [wg EXCEPT ![n] = Wired(store'[n])]
    /\ UNCHANGED <<life, key, tries, asked, secret, shared, captured,
                   daemonVars, gossip>>

\* A record that has been Removed long enough is deleted.
GcRemoved(n, k) ==
    /\ Up(n) /\ store[n][k] = "Removed"
    /\ store' = [store EXCEPT ![n][k] = "none"]
    /\ UNCHANGED <<life, key, tries, asked, secret, shared, captured,
                   daemonVars, wg, gossip, events>>

-----------------------------------------------------------------------------
(* Health checks.                                                          *)

\* A handshake needs both ends wired.
Handshakes(n, k) ==
    /\ Up(Owner(k)) /\ key[Owner(k)] = k
    /\ k \in wg[n] /\ key[n] \in wg[Owner(k)]

\* The keys whose last handshake or announcement is older than the timeout
\* can only be among those without handshakes.
Silent(n) == {k \in Keys : store[n][k] = "Active" /\ ~Handshakes(n, k)}

\* Mutant: only recoveries are noted.
EvaluateHealth_Recover(n, X) ==
    [k \in Keys |->
       IF store[n][k] = "Unreachable" /\ Handshakes(n, k) THEN "Active"
       ELSE store[n][k]]

\* The statuses after a check in which the timeout of X has passed.
EvaluateHealth(n, X) ==
    [k \in Keys |->
       IF k \in X THEN "Unreachable"
       ELSE IF store[n][k] = "Unreachable" /\ Handshakes(n, k) THEN "Active"
       ELSE store[n][k]]

Gone(k) == key[Owner(k)] # k

\* The check reads the interface and all records, and evaluates them.  That
\* handshakes with a key somebody holds stop for so long is an event.
HealthRead(n, X) ==
    /\ Up(n) /\ health[n] = None
    /\ X \subseteq Silent(n)
    /\ IF \A k \in X : Gone(k) THEN UNCHANGED events ELSE Event
    /\ EvaluateHealth(n, X) # store[n]
    /\ health' = [health EXCEPT ![n] = EvaluateHealth(n, X)]
    /\ UNCHANGED <<life, key, tries, asked, secret, shared, captured, auto,
                   store, wg, pending, accepted, gossip, rotation>>

\* If any record changed, every record it read is written back, over what
\* happened to the table in between; records it did not read stay.
HealthWrite(n) ==
    /\ Up(n) /\ health[n] # None
    /\ store' = [store EXCEPT ![n] =
                   [k \in Keys |-> IF health[n][k] = "none" THEN @[k]
                                                            ELSE health[n][k]]]
    /\ health' = [health EXCEPT ![n] = None]
    /\ UNCHANGED <<life, key, tries, asked, secret, shared, captured, auto, wg,
                   pending, accepted, gossip, rotation, events>>

-----------------------------------------------------------------------------
(* The secret.                                                             *)

\* The operator opens peering with a PIN (the stored secret is copied), or
\* closes it.
PeeringStart(n) ==
    /\ Up(n) /\ auto[n] # secret[n] /\ Event
    /\ auto' = [auto EXCEPT ![n] = secret[n]]
    /\ UNCHANGED <<life, key, tries, asked, secret, shared, captured, store, wg,
                   pending, accepted, gossip, health, rotation>>

PeeringStop(n) ==
    /\ Up(n) /\ auto[n] # None
    /\ auto' = [auto EXCEPT ![n] = None]
    /\ UNCHANGED <<life, key, tries, asked, secret, shared, captured, store, wg,
                   pending, accepted, gossip, health, rotation, events>>

\* The members that can read a rotation sent by n: those it holds Active,
\* that run, and whose listener captured the secret n shares now.
Readers(n) ==
    {m \in Nodes \ {n} : /\ Up(m) /\ captured[m] = shared[n]
                         /\ \E k \in Keys : Owner(k) = m /\ store[n][k] = "Active"}

\* The operator rotates the secret: it is sent, encrypted with the old one,
\* to the Active peers; some are not reached.  Every reader, and the node
\* itself at last, loads its state to save it with the new secret.
RotateSecret(n, R) ==
    /\ Up(n) /\ shared[n] < MaxVersion
    /\ \A m \in Nodes : shared[m] <= shared[n]
    /\ rotation[n] = None
    /\ R \subseteq Readers(n)
    /\ Event
    /\ rotation' = [m \in Nodes |->
                      IF m = n \/ m \in R
                      THEN [peers |-> store[m], ver |-> shared[n] + 1]
                      ELSE rotation[m]]
    /\ UNCHANGED <<life, key, tries, asked, secret, shared, captured, auto,
                   store, wg, pending, accepted, gossip, health>>

\* The loaded state is saved: the peers table is rewritten with the peers it
\* had when it was loaded.  What the daemon captured stays.
SaveRotation(n) ==
    /\ Up(n) /\ rotation[n] # None
    /\ secret' = [secret EXCEPT ![n] = rotation[n].ver]
    /\ shared' = [shared EXCEPT ![n] = rotation[n].ver]
    /\ store' = [store EXCEPT ![n] = rotation[n].peers]
    /\ rotation' = [rotation EXCEPT ![n] = None]
    /\ UNCHANGED <<life, key, tries, asked, captured, auto, wg, pending,
                   accepted, gossip, health, events>>

-----------------------------------------------------------------------------
MeshNext ==
    \/ \E n \in Nodes :
          \/ Start(n) \/ Stop(n) \/ Leave(n) \/ GiveUp(n)
          \/ Reconcile(n) \/ HealthWrite(n)
          \/ PeeringStart(n) \/ PeeringStop(n) \/ SaveRotation(n)
          \/ \E X \in SUBSET Keys : HealthRead(n, X)
          \/ \E R \in SUBSET Nodes : RotateSecret(n, R)
          \/ \E k \in Keys : \/ DropRequest(n, k) \/ AcceptJoin(n, k)
                             \/ RunAccepted(n, k) \/ SelfAnnounce(n, k)
                             \/ RemovePeer(n, k) \/ GcRemoved(n, k)
          \/ \E j \in Nodes, k \in Keys : JoinByPin(j, n, k) \/ RequestJoin(j, n, k)
    \/ \E g \in gossip : Announced(g) \/ AnnouncedQueued(g) \/ Lost(g)

MeshSpec == MeshInit /\ [][MeshNext]_meshVars

\* The loops of a daemon run for ever: reconcile, health check, self-announce;
\* a started task is run to its end.  A self-announcement is repeated, so one
\* that is possible again and again is made.
MeshFairness ==
    \A n \in Nodes :
      /\ WF_meshVars(Reconcile(n))
      /\ WF_meshVars(HealthWrite(n))
      /\ WF_meshVars(SaveRotation(n))
      /\ WF_meshVars(HealthRead(n, {k \in Silent(n) : Gone(k)}))
      /\ \A k \in Keys : WF_meshVars(SelfAnnounce(n, k))

FairMeshSpec == MeshSpec /\ MeshFairness

-----------------------------------------------------------------------------
\* Whatever order acceptances, removals, health checks and rotations write the
\* tables in, the interfaces of the running daemons come to agree with them
\* again (reconcile loop, daemon.rs:4253).
WireFollowsStore ==
    []<>(\A n \in Nodes : Up(n) => wg[n] = Wired(store[n]))

\* Two running daemons that captured the same secret: if one has a record of
\* the other, the other comes to have a record of it, although acceptances
\* and announcements are lost and rotations overwrite the table
\* (self-announce loop, daemon.rs:4580).
Aware(n, m) ==
    /\ Up(n) /\ Up(m) /\ n # m /\ captured[n] = captured[m]
    /\ key[m] \in Known(n)

KnowledgeIsMutual ==
    []<>(\A n, m \in Nodes :
           Aware(n, m) => Aware(m, n) \/ ~HasRoom(m, key[n]))

\* A key that no node holds any more (an attempt that was given up but
\* accepted, a node that left) does not stay Active in any running store
\* (evaluate_peer_health, daemon.rs:5451).
GonePeersFade ==
    []<>(\A n \in Nodes, k \in Keys :
           Up(n) /\ Gone(k) => store[n][k] # "Active")
=============================================================================
