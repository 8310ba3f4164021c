----------------------------- MODULE VmProvision -----------------------------
(***************************************************************************)
(* How a VM comes to run on a hypervisor: the create and delete requests   *)
(* of the compute handler (layers/fabric/src/raft_compute_handler.rs), the *)
(* VM records, registry and addresses of the state machine                 *)
(* (layers/controlplane/src/state_machine.rs), the scheduler               *)
(* (scheduler.rs), the remote create (remote_create.rs, layers/forge/src/  *)
(* api.rs), the hypervisor handlers and the address store (layers/org/src/ *)
(* hypervisor.rs, ipam.rs).                                                *)
(*                                                                         *)
(* Raft is external: a write is applied on every replica at once when a    *)
(* leader exists, and may fail with or without having been applied.  The   *)
(* tables are kept per replica, for some requests write to one of them     *)
(* only.  One VM takes one unit of a hypervisor's capacity.                *)
(***************************************************************************)
EXTENDS Integers, FiniteSets

CONSTANTS
    Nodes,      \* hypervisors, each with a replica
    Requests,   \* create requests
    Networked,  \* the requests that name a subnet
    Names,      \* names of VMs
    Addrs,      \* addresses of the one subnet, numbers
    Total,      \* allocatable units of a hypervisor
    MaxEvents,  \* bound on administrative commands, lost writes and crashes
    None, Absent

ASSUME ProvisionAssumption ==
    /\ Addrs \subseteq Nat /\ IsFiniteSet(Addrs) /\ Total \in Nat \ {0}
    /\ MaxEvents \in Nat /\ None \notin Nodes \cup Addrs
    /\ Absent \notin Addrs /\ Networked \subseteq Requests

VARIABLES
    leader,    \* the leader of the Raft group, or None
    registry,  \* per replica: a hypervisor's [state, tainted, known, used], or Absent
    storage,   \* the zone has storage configured
    records,   \* the phase of a VM record, or Absent
    bitmap,    \* per node: the addresses marked in use
    alloc,     \* per node: the state of an address's allocation record
    used,      \* per node: the units its capacity tracker counts
    drain,     \* the nodes whose agent drains
    vm,        \* the VM a request created: its node and address, or Absent
    req,       \* the progress of a request
    admin, faults

provisionVars == <<leader, registry, storage, records, bitmap, alloc, used, drain, vm, req,
                   admin, faults>>
ipam == <<bitmap, alloc>>
hosts == <<used, drain>>
control == <<leader, registry, storage>>
bounds == <<admin, faults>>

Fault == admin + faults < MaxEvents /\ faults' = faults + 1
Sound == UNCHANGED faults

\* A write reaches the leader and is answered, or is not applied.
Written == leader # None /\ Sound
Unwritten == (leader = None /\ Sound) \/ (leader # None /\ Fault)

Idle == [at |-> "idle", name |-> None, node |-> None, target |-> None,
         addr |-> None, seen |-> {}, via |-> None]
Go(r, point) == req' = [req EXCEPT ![r].at = point]
Done(r) == req' = [req EXCEPT ![r] = [Idle EXCEPT !.at = "done"]]

Fresh == [state |-> "NotReady", tainted |-> FALSE, known |-> FALSE, used |-> 0]

\* A new cluster, or one that has been set up.
ProvisionInit ==
    /\ leader = None /\ storage \in BOOLEAN
    /\ registry = [m \in Nodes |-> [n \in Nodes |->
           IF storage THEN [Fresh EXCEPT !.state = "Available"] ELSE Absent]]
    /\ records = [v \in Names |-> Absent]
    /\ bitmap = [n \in Nodes |-> {}] /\ alloc = [n \in Nodes |-> [a \in Addrs |-> "Free"]]
    /\ used = [n \in Nodes |-> 0] /\ drain = {} /\ vm = [r \in Requests |-> Absent]
    /\ req = [r \in Requests |-> Idle]
    /\ admin = 0 /\ faults = 0

----------------------------------------------------------------------------
\* The registry of hypervisors.

Admin == admin + faults < MaxEvents /\ admin' = admin + 1 /\ Sound
Others == UNCHANGED <<records, ipam, hosts, vm, req>>

ValidTransition(from, to) ==
    <<from, to>> \in {<<"NotReady", "Available">>, <<"Available", "Draining">>,
        <<"Available", "Maintenance">>, <<"Available", "Decommissioned">>,
        <<"Draining", "Available">>, <<"Draining", "Maintenance">>,
        <<"Maintenance", "Available">>, <<"Maintenance", "Decommissioned">>}

UpdateState(hv, to) == IF hv # Absent /\ ValidTransition(hv.state, to)
                       THEN [hv EXCEPT !.state = to] ELSE hv

RegisterHypervisor_Reset(h) ==
    /\ leader # None /\ registry' = [m \in Nodes |-> [registry[m] EXCEPT ![h] = Fresh]]
    /\ Others /\ UNCHANGED <<leader, storage, bounds>>
\* A node registers when it starts; a known hypervisor keeps its state.
RegisterHypervisor(h) ==
    /\ leader # None /\ IF registry[leader][h] = Absent THEN Admin ELSE UNCHANGED bounds
    /\ registry' = [m \in Nodes |-> [registry[m] EXCEPT ![h] = IF @ = Absent THEN Fresh ELSE @]]
    /\ Others /\ UNCHANGED <<leader, storage>>

Change(h, to) ==
    /\ leader # None /\ Admin
    /\ registry' = [m \in Nodes |-> [registry[m] EXCEPT ![h] = UpdateState(@, to)]]
    /\ Others /\ UNCHANGED <<leader, storage>>

EnableHypervisor(h) == storage /\ Change(h, "Available")
DrainHypervisor(h) == Change(h, "Draining")
DecommissionHypervisor(h) == Change(h, "Decommissioned")

\* The taints given replace the ones that were set.
UpdateHypervisorTaints(h, tainted) ==
    /\ leader # None /\ Admin
    /\ registry' = [m \in Nodes |-> [registry[m] EXCEPT
           ![h] = IF @ = Absent THEN @ ELSE [@ EXCEPT !.tainted = tainted]]]
    /\ Others /\ UNCHANGED <<leader, storage>>

\* Requests that no Raft command exists for change one replica: entering
\* maintenance, refused while the node has VMs, and removing a taint.
LocalMaintenance(m, h) ==
    /\ Admin /\ \A r \in Requests : vm[r] # Absent => vm[r].node # h
    /\ registry' = [registry EXCEPT ![m][h] = UpdateState(@, "Maintenance")]
    /\ Others /\ UNCHANGED <<leader, storage>>

LocalTaintRemove(m, h) ==
    /\ Admin /\ registry[m][h] # Absent
    /\ registry' = [registry EXCEPT ![m][h].tainted = FALSE]
    /\ Others /\ UNCHANGED <<leader, storage>>

\* A zone's storage configuration is set and never removed.
SetStorage ==
    /\ leader # None /\ Admin /\ storage' = TRUE
    /\ Others /\ UNCHANGED <<leader, registry>>

\* The drain switch of a node's agent is not in the registry.
DrainAgent(n) ==
    /\ Admin /\ drain' = IF n \in drain THEN drain \ {n} ELSE drain \cup {n}
    /\ UNCHANGED <<control, records, ipam, used, vm, req>>

Capacity(n, units) ==
    [m \in Nodes |-> [registry[m] EXCEPT
        ![n] = IF @ = Absent THEN @ ELSE [@ EXCEPT !.known = TRUE, !.used = units]]]

ReportCapacity_Stuck(n) ==
    /\ leader # None /\ registry' = Capacity(n, registry[n][n].used) /\ registry[n][n] # Absent
    /\ Others /\ UNCHANGED <<leader, storage, bounds>>
\* The report of the tracker, every ten seconds.
ReportCapacity(n) ==
    /\ leader # None /\ registry' = Capacity(n, used[n])
    /\ Others /\ UNCHANGED <<leader, storage, bounds>>

----------------------------------------------------------------------------
\* The scheduler, on the replica of the node that runs it.

Candidates(n) ==
    {h \in Nodes : LET hv == registry[n][h]
                   IN /\ hv # Absent /\ hv.state = "Available" /\ ~hv.tainted
                      /\ hv.known => Total - hv.used >= 1}

\* A free share of 100 for a free node, less 5 for the local one and less
\* 200 for one whose capacity is not known, which counts as full.
Score(n, h) ==
    (IF registry[n][h].known THEN 100 * (Total - registry[n][h].used) ELSE -(200 * Total))
      - (IF h = n THEN 5 * Total ELSE 0)

\* The winners; names break ties.  With no hypervisor registered the VM is
\* placed locally, without storage in the zone it is not placed.
Schedule(n) ==
    IF \A h \in Nodes : registry[n][h] = Absent THEN {n}
    ELSE {h \in Candidates(n) : storage /\ \A o \in Candidates(n) : Score(n, o) <= Score(n, h)}

----------------------------------------------------------------------------
\* The create request and the VM record.

Submit(r) ==
    \E v \in Names, n \in Nodes :
        /\ req[r].at = "idle"
        /\ req' = [req EXCEPT ![r] = [@ EXCEPT !.at = "intent", !.name = v, !.node = n]]
        /\ UNCHANGED <<control, records, ipam, hosts, vm, bounds>>

CreateVmIntent(v) == records[v] = Absent /\ records' = [records EXCEPT ![v] = "Pending"]

UpdateVmPhase(v, phase) ==
    records' = [records EXCEPT ![v] = IF @ = Absent THEN Absent ELSE phase]

\* The intent is accepted and the VM is created in the background, on the
\* node that took the request; or the name is taken.
WriteIntent(r) ==
    LET v == req[r].name
    IN /\ req[r].at = "intent" /\ Written
       /\ \/ CreateVmIntent(v)
             /\ req' = [req EXCEPT ![r] = [@ EXCEPT !.at = "scheduling", !.via = "intent"]]
          \/ records[v] # Absent /\ UNCHANGED records /\ Done(r)
       /\ UNCHANGED <<control, ipam, hosts, vm, admin>>

\* The write fails, or its answer is lost after it was applied.
IntentLost(r) ==
    /\ req[r].at = "intent" /\ Go(r, "legacy")
    /\ \/ Unwritten /\ UNCHANGED records
       \/ leader # None /\ Fault /\ CreateVmIntent(req[r].name)
    /\ UNCHANGED <<control, ipam, hosts, vm, admin>>

\* One phase update of the background task; its failure is ignored.
SetPhase(r, phase) ==
    \/ Written /\ UpdateVmPhase(req[r].name, phase)
    \/ Unwritten /\ UNCHANGED records

Scheduling(r) ==
    /\ req[r].at = "scheduling" /\ SetPhase(r, "Scheduling") /\ Go(r, "creating")
    /\ UNCHANGED <<control, ipam, hosts, vm, admin>>

Creating(r) ==
    /\ req[r].at = "creating" /\ SetPhase(r, "Creating")
    /\ req' = [req EXCEPT ![r] = [@ EXCEPT !.at = IF r \in Networked THEN "reserve" ELSE "boot",
                                           !.target = req[r].node]]
    /\ UNCHANGED <<control, ipam, hosts, vm, admin>>

\* Without an intent: the leader schedules, another node forwards to it.
Legacy(r) ==
    LET n == req[r].node
        To(point, t, via) == req' = [req EXCEPT ![r] = [@ EXCEPT !.at = point, !.target = t, !.via = via]]
    IN /\ req[r].at = "legacy"
       /\ \/ leader = None /\ Done(r)
          \/ leader \notin {None, n} /\ To("forge", leader, "forge")
          \/ leader = n /\ Schedule(n) = {} /\ Done(r)
          \/ leader = n /\ n \in Schedule(n)
             /\ To(IF r \in Networked THEN "reserve" ELSE "boot", n, "handler")
          \/ leader = n /\ \E t \in Schedule(n) \ {n} :
                 To(IF r \in Networked THEN "allocate" ELSE "forge", t, "forge")
       /\ UNCHANGED <<control, records, ipam, hosts, vm, bounds>>

\* The leader asks for an address of subnet "vpc/name" where the table is
\* keyed by subnet ids: the command answers that there is no such subnet.
AllocateIp(r) ==
    /\ req[r].at = "allocate" /\ Done(r)
    /\ UNCHANGED <<control, records, ipam, hosts, vm, bounds>>

\* The agent of the target admits the VM, or refuses or does not answer.
ForgeCreate(r) ==
    LET t == req[r].target
    IN /\ req[r].at = "forge"
       /\ \/ t \notin drain /\ used[t] < Total /\ used' = [used EXCEPT ![t] = @ + 1] /\ Sound
             /\ Go(r, IF r \in Networked THEN "reserve" ELSE "boot")
          \/ (t \in drain \/ used[t] >= Total) /\ Sound /\ Done(r) /\ UNCHANGED used
          \/ Fault /\ Done(r) /\ UNCHANGED used
       /\ UNCHANGED <<control, records, ipam, drain, vm, admin>>

----------------------------------------------------------------------------
\* Creating the VM on its node: an address is reserved in two steps, for the
\* bitmap is read outside the batch that writes it.

Free(n) == Addrs \ bitmap[n]

Release(n, a) ==
    IF alloc[n][a] # "Free"
    THEN /\ bitmap' = [bitmap EXCEPT ![n] = @ \ {a}]
         /\ alloc' = [alloc EXCEPT ![n][a] = "Free"]
    ELSE UNCHANGED ipam

ReadBitmap(r) ==
    LET t == req[r].target
        a == CHOOSE x \in Free(t) : \A y \in Free(t) : x <= y
    IN /\ req[r].at = "reserve"
       /\ IF Free(t) = {} THEN Go(r, "failed")
          ELSE req' = [req EXCEPT ![r] = [@ EXCEPT !.at = "write", !.addr = a,
                                                   !.seen = bitmap[t] \cup {a}]]
       /\ UNCHANGED <<control, records, ipam, hosts, vm, bounds>>

WriteBitmap(r) ==
    LET t == req[r].target
    IN /\ req[r].at = "write"
       /\ bitmap' = [bitmap EXCEPT ![t] = req[r].seen]
       /\ alloc' = [alloc EXCEPT ![t][req[r].addr] = "Reserved"]
       /\ req' = [req EXCEPT ![r] = [@ EXCEPT !.at = "boot", !.seen = {}]]
       /\ UNCHANGED <<control, records, hosts, vm, bounds>>

\* The VM boots and its address is assigned.
Boot(r) ==
    LET t == req[r].target
        a == req[r].addr
    IN /\ req[r].at = "boot" /\ Go(r, "running")
       /\ vm' = [vm EXCEPT ![r] = [node |-> t, addr |-> a]]
       /\ alloc' = IF a = None THEN alloc
                   ELSE [alloc EXCEPT ![t][a] = IF @ = "Reserved" THEN "Assigned" ELSE @]
       /\ UNCHANGED <<control, records, bitmap, hosts, bounds>>

\* A failure of the network step releases the address, a later one does not.
BootFails(r) ==
    /\ req[r].at = "boot" /\ Go(r, "failed")
    /\ \/ UNCHANGED ipam
       \/ req[r].addr # None /\ Release(req[r].target, req[r].addr)
    /\ UNCHANGED <<control, records, hosts, vm, bounds>>

Finish_Silent(r) ==
    /\ req[r].at \in {"running", "failed"} /\ Done(r)
    /\ IF req[r].at = "running" /\ req[r].via = "intent" THEN SetPhase(r, "Running")
       ELSE Sound /\ UNCHANGED records
    /\ UNCHANGED <<control, ipam, hosts, vm, admin>>
\* How the path that created the VM ends: the background task writes the
\* phase, the agent commits its capacity and reports it or gives it back.
Finish(r) ==
    LET p == req[r].at
        t == req[r].target
    IN /\ p \in {"running", "failed"} /\ Done(r)
       /\ \/ /\ req[r].via = "intent" /\ UNCHANGED <<registry, used>>
             /\ SetPhase(r, IF p = "running" THEN "Running" ELSE "Failed")
          \/ req[r].via = "handler" /\ Sound /\ UNCHANGED <<registry, used, records>>
          \/ /\ req[r].via = "forge" /\ p = "running" /\ UNCHANGED <<used, records>>
             /\ \/ Written /\ registry' = Capacity(t, used[t])
                \/ Unwritten /\ UNCHANGED registry
          \/ /\ req[r].via = "forge" /\ p = "failed" /\ Sound /\ UNCHANGED <<registry, records>>
             /\ used' = [used EXCEPT ![t] = IF @ > 0 THEN @ - 1 ELSE 0]
       /\ UNCHANGED <<leader, storage, ipam, drain, vm, admin>>

----------------------------------------------------------------------------
\* Delete, crash, election.

\* The delete releases the address on the VM's node and leaves the record;
\* through the agent, which only the leader serves, it releases a unit.
DeleteVm(r) ==
    LET n == vm[r].node
    IN /\ vm[r] # Absent /\ req[r].at = "done" /\ vm' = [vm EXCEPT ![r] = Absent]
       /\ IF vm[r].addr = None THEN UNCHANGED ipam ELSE Release(n, vm[r].addr)
       /\ \/ UNCHANGED <<used, registry>>
          \/ /\ leader = n /\ used' = [used EXCEPT ![n] = IF @ > 0 THEN @ - 1 ELSE 0]
             /\ registry' = Capacity(n, used'[n])
       /\ UNCHANGED <<leader, storage, records, drain, req, bounds>>

Crash(n) ==
    /\ Fault /\ used' = [used EXCEPT ![n] = 0] /\ drain' = drain \ {n}
    /\ leader' = IF leader = n THEN None ELSE leader
    /\ req' = [r \in Requests |->
           IF n \in {req[r].node, req[r].target} /\ req[r].at # "idle"
           THEN [Idle EXCEPT !.at = "done"] ELSE req[r]]
    /\ UNCHANGED <<registry, storage, records, ipam, vm, admin>>

LoseLeader ==
    /\ leader # None /\ leader' = None /\ Fault
    /\ UNCHANGED <<registry, storage, records, ipam, hosts, vm, req, admin>>

Elect(n) ==
    /\ leader = None /\ leader' = n
    /\ UNCHANGED <<registry, storage, records, ipam, hosts, vm, req, bounds>>

Registry ==
    \E h \in Nodes :
        \/ RegisterHypervisor(h) \/ EnableHypervisor(h) \/ DrainHypervisor(h)
        \/ DecommissionHypervisor(h) \/ DrainAgent(h)
        \/ \E b \in BOOLEAN : UpdateHypervisorTaints(h, b)
        \/ \E m \in Nodes : LocalMaintenance(m, h) \/ LocalTaintRemove(m, h)

Proceed(r) ==
    \/ WriteIntent(r) \/ IntentLost(r) \/ Scheduling(r) \/ Creating(r) \/ Legacy(r)
    \/ AllocateIp(r) \/ ForgeCreate(r) \/ ReadBitmap(r) \/ WriteBitmap(r)
    \/ Boot(r) \/ BootFails(r) \/ Finish(r)

ProvisionNext ==
    \/ Registry \/ SetStorage \/ LoseLeader
    \/ \E r \in Requests : Submit(r) \/ Proceed(r) \/ DeleteVm(r)
    \/ \E n \in Nodes : ReportCapacity(n) \/ Crash(n) \/ Elect(n)

ProvisionSpec == ProvisionInit /\ [][ProvisionNext]_provisionVars

\* Tasks run to their end, the report is a timer, and elections end.
FairProvisionSpec ==
    /\ ProvisionSpec /\ WF_provisionVars(\E n \in Nodes : Elect(n))
    /\ \A r \in Requests : WF_provisionVars(Proceed(r))
    /\ \A n \in Nodes : WF_provisionVars(ReportCapacity(n))

----------------------------------------------------------------------------
\* An accepted intent ends as Running or Failed, unless a write was lost or a
\* node crashed (raft_compute_handler.rs background task).
IntentSettles ==
    \A v \in Names :
        records[v] = "Pending" ~> (records[v] \in {"Running", "Failed"} \/ faults > 0)

\* No replica takes a decommissioned hypervisor back: not by the registration
\* of a restarting node, nor by commands applied where the replicas differ
\* (hypervisor.rs validate_state_transition, state_machine.rs RegisterHypervisor).
DecommissionedStays ==
    [][\A m, n \in Nodes : registry[m][n] # Absent /\ registry[m][n].state = "Decommissioned"
         => registry'[m][n].state = "Decommissioned"]_provisionVars

\* Every replica's count of a hypervisor's used units becomes the count of
\* its tracker, after lost reports, crashes and concurrent creates (daemon.rs
\* capacity loop, state_machine.rs UpdateHypervisorCapacity).
CapacityConverges ==
    <>[](\A m, n \in Nodes : registry[m][n] # Absent => registry[m][n].used = used[n])

\* No two VMs of the subnet have one address (adr-005: "No other node can
\* allocate the same IP"; ipam.rs reserve_ip, network_setup.rs).
NoDuplicateIps ==
    \A r, s \in Requests : (r # s /\ vm[r] # Absent /\ vm[s] # Absent /\ vm[r].addr # None)
                             => vm[r].addr # vm[s].addr
=============================================================================
