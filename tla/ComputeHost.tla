----------------------------- MODULE ComputeHost -----------------------------
(***************************************************************************)
(* The VMs of one hypervisor: the forge's create and delete requests with  *)
(* their admission control, the VM manager's registry, the runtime that    *)
(* keeps a process (Cloud Hypervisor) or a container alive across daemon   *)
(* restarts, the monitor, and the reconnect at start                       *)
(* (layers/forge/src/api.rs, capacity.rs, drain.rs and                     *)
(* layers/compute/src/manager.rs, process.rs, runtime_ch.rs,               *)
(* runtime_container.rs, network_setup.rs).                                *)
(*                                                                         *)
(* Every create makes a fresh VM id, so an id is created once.  A VM needs *)
(* one unit of capacity.  The network of a VM is its interface, rules and  *)
(* placement record; its addresses are not told apart.  A request is a     *)
(* sequence of steps between awaits: other requests, the monitor, a dying  *)
(* process or the end of the daemon come in between.                       *)
(***************************************************************************)
EXTENDS Naturals, FiniteSets

CONSTANTS
    Vms,        \* VM ids, each the subject of at most one create request
    Deletes,    \* delete requests under way at once
    Total,      \* the allocatable capacity
    MaxEvents,  \* bound on failures, deaths of processes, crashes of the daemon,
                \* expired reservations and operator commands
    None

ASSUME HostAssumption ==
    /\ {Total, MaxEvents} \subseteq Nat
    /\ IsFiniteSet(Vms) /\ None \notin Vms
    /\ None \notin [vm : Vms, net : BOOLEAN, disk : BOOLEAN, at : {"kill", "clean", "forget"}]

VARIABLES
    kind,      \* the runtime backend: "vm" or "container"
    up,        \* the daemon runs
    again,     \* the second reconnect of this start has not run yet
    stage,     \* the step a create request is at
    vms,       \* the registry: [phase (VmPhase), net, disk] or None
    starting,  \* the VMs whose lock a start request holds
    dels,      \* delete requests: [vm, net, disk, at] or None
    proc,      \* the process: "none", "running", "hung" or "dead"
    dir,       \* the runtime directory: "none", "bare" (no meta.json) or "full"
    disk,      \* the VMs with an instance directory
    net,       \* the VMs with an interface and a placement record
    used,      \* the committed capacity
    resv,      \* the VMs with an unexpired reservation
    draining,  \* the drain flag
    events     \* how many of the bounded events have happened

hostVars == <<kind, up, again, stage, vms, starting, dels, proc, dir, disk, net,
              used, resv, draining, events>>
books == <<used, resv, draining>>
world == <<proc, dir, disk, net>>
daemon == <<kind, up, again>>

Event == events < MaxEvents /\ events' = events + 1
Alive(v) == proc[v] \in {"running", "hung"}

HostInit ==
    /\ kind \in {"vm", "container"} /\ up = TRUE /\ again = FALSE
    /\ stage = [v \in Vms |-> "new"] /\ vms = [v \in Vms |-> None]
    /\ starting = {} /\ dels = [d \in Deletes |-> None]
    /\ proc = [v \in Vms |-> "none"] /\ dir = [v \in Vms |-> "none"]
    /\ disk = {} /\ net = {} /\ used = 0 /\ resv = {} /\ draining = FALSE
    /\ events = 0

----------------------------------------------------------------------------
\* Admission control.

Fits == used + Cardinality(resv) < Total

\* A create request passes the drain check and reserves its capacity.
TryReserve(v) ==
    /\ up /\ stage[v] = "new" /\ ~draining /\ Fits
    /\ resv' = resv \cup {v} /\ stage' = [stage EXCEPT ![v] = "network"]
    /\ UNCHANGED <<daemon, vms, starting, dels, world, used, draining, events>>

\* A reservation expires after a minute while its create is still at work.
Lapse(v) ==
    /\ up /\ v \in resv /\ Event
    /\ resv' = resv \ {v}
    /\ UNCHANGED <<daemon, stage, vms, starting, dels, world, used, draining>>

\* release lowers the committed capacity, whether or not it was committed.
Release == used' = IF used = 0 THEN 0 ELSE used - 1

\* Commit takes the reservation away, unlocks, and then raises used.
CommitDrop(v) ==
    /\ up /\ stage[v] = "drop" /\ stage' = [stage EXCEPT ![v] = "use"]
    /\ resv' = resv \ {v}
    /\ UNCHANGED <<daemon, vms, starting, dels, world, used, draining, events>>

CommitUse(v) ==
    /\ up /\ stage[v] = "use" /\ stage' = [stage EXCEPT ![v] = "done"]
    /\ used' = used + 1
    /\ UNCHANGED <<daemon, vms, starting, dels, world, resv, draining, events>>

\* Draining refuses new creates; those already admitted go on.
Drain ==
    /\ up /\ Event /\ draining' = ~draining
    /\ UNCHANGED <<daemon, stage, vms, starting, dels, world, used, resv>>

----------------------------------------------------------------------------
\* Creating a VM: network, disk, process, registration.

Advance(v, from, to) == up /\ stage[v] = from /\ stage' = [stage EXCEPT ![v] = to]
\* A create that fails gives its reservation back.
FailCreate(v, at) ==
    /\ Advance(v, at, "done") /\ Event /\ resv' = resv \ {v} /\ Release
    /\ UNCHANGED <<daemon, vms, starting, dels, draining>>

\* VXLAN, bridge, interface, rules, placement and NIC records.
NetworkResources(v) == net' = net \cup {v}

SetupNetwork(v) ==
    /\ Advance(v, "network", "image") /\ NetworkResources(v)
    /\ UNCHANGED <<daemon, vms, starting, dels, proc, dir, disk, books, events>>

\* The subnet is not found, or a step of the setup fails; the address is
\* released, the interface may stay.
SetupNetworkFails(v) ==
    /\ FailCreate(v, "network")
    /\ NetworkResources(v) \/ UNCHANGED net
    /\ UNCHANGED <<proc, dir, disk>>

PrepareDisk(v) ==
    /\ Advance(v, "image", "spawn") /\ disk' = disk \cup {v}
    /\ UNCHANGED <<daemon, vms, starting, dels, proc, dir, net, books, events>>

\* No image, the wrong architecture, no space: the network is left behind.
PrepareDiskFails(v) == FailCreate(v, "image") /\ UNCHANGED world

\* The process or container starts in a directory that has no meta.json yet.
Spawn(v) ==
    /\ Advance(v, "spawn", "meta")
    /\ proc' = [proc EXCEPT ![v] = "running"] /\ dir' = [dir EXCEPT ![v] = "bare"]
    /\ UNCHANGED <<daemon, vms, starting, dels, disk, net, books, events>>

\* What the manager undoes when the runtime's create fails.
Teardown(v) == disk' = disk \ {v} /\ net' = net \ {v}

SpawnFails(v) ==
    /\ FailCreate(v, "spawn") /\ Teardown(v)
    /\ dir' = [dir EXCEPT ![v] = IF kind = "vm" THEN "none" ELSE "bare"] /\ UNCHANGED proc

WriteMeta(v) ==
    /\ Advance(v, "meta", "boot") /\ dir[v] # "none" /\ dir' = [dir EXCEPT ![v] = "full"]
    /\ UNCHANGED <<daemon, vms, starting, dels, proc, disk, net, books, events>>

\* The error returns before anything is killed: the process runs on.
WriteMetaFails(v) ==
    /\ FailCreate(v, "meta") /\ Teardown(v)
    /\ dir' = [dir EXCEPT ![v] = IF kind = "vm" THEN "none" ELSE @] /\ UNCHANGED proc

\* A VM answers the ping, is created and boots; a container's interface moves
\* into its namespace.
Boot(v) ==
    /\ Advance(v, "boot", "register")
    /\ kind = "container" \/ proc[v] = "running"
    /\ UNCHANGED <<daemon, vms, starting, dels, world, books, events>>

\* A VM that does not come up is killed and cleaned; a container whose
\* interface cannot be configured is left as it is.
BootFails(v) ==
    /\ FailCreate(v, "boot")
    /\ \/ /\ kind = "vm" /\ Teardown(v)
          /\ proc' = [proc EXCEPT ![v] = "none"] /\ dir' = [dir EXCEPT ![v] = "none"]
       \/ kind = "container" /\ UNCHANGED world

Register(v) ==
    /\ Advance(v, "register", "drop")
    /\ vms' = [vms EXCEPT ![v] = [phase |-> "Running", net |-> TRUE, disk |-> TRUE]]
    /\ UNCHANGED <<daemon, starting, dels, world, books, events>>

----------------------------------------------------------------------------
\* Start, stop and delete of a registered VM.

Unlocked(v) == up /\ vms[v] # None /\ v \notin starting
SetPhase(v, p) == vms' = [vms EXCEPT ![v].phase = p]

\* Only a stopped VM may start: the others are refused by the phase table.
BeginStart(v) ==
    /\ Unlocked(v) /\ vms[v].phase = "Stopped" /\ Event
    /\ SetPhase(v, "Starting") /\ starting' = starting \cup {v}
    /\ UNCHANGED <<daemon, stage, dels, world, books>>

\* Cloud Hypervisor VMs cannot be started again.  A container is run from
\* its directory, and may run although the start fails afterwards.
FinishStart(v) ==
    /\ up /\ v \in starting /\ starting' = starting \ {v}
    /\ LET Outcome(p, ph) ==
             /\ proc' = [proc EXCEPT ![v] = p]
             /\ vms' = [vms EXCEPT ![v] = IF @ = None THEN None ELSE [@ EXCEPT !.phase = ph]]
       IN \/ kind = "vm" /\ Outcome(proc[v], "Failed") /\ UNCHANGED events
          \/ kind = "container" /\ dir[v] = "full" /\ Outcome("running", "Running") /\ UNCHANGED events
          \/ kind = "container" /\ dir[v] # "full" /\ Outcome("none", "Failed") /\ UNCHANGED events
          \/ kind = "container" /\ Event /\ \E p \in {"none", "running"} : Outcome(p, "Failed")
    /\ UNCHANGED <<daemon, stage, dels, dir, disk, net, books>>

\* Killing escalates to SIGKILL; a Cloud Hypervisor VM also loses its
\* runtime directory.  A container that does not run cannot be signalled.
KillVm(v) ==
    /\ kind = "container" => Alive(v)
    /\ proc' = [proc EXCEPT ![v] = IF Alive(v) THEN "dead" ELSE @]
    /\ dir' = [dir EXCEPT ![v] = IF kind = "vm" THEN "none" ELSE @]

Stop_Hopeful(v) ==
    /\ Unlocked(v) /\ Event /\ SetPhase(v, "Stopped")
    /\ KillVm(v) \/ UNCHANGED <<proc, dir>>
    /\ UNCHANGED <<daemon, stage, starting, dels, disk, net, books>>
Stop(v) ==
    /\ Unlocked(v) /\ Event /\ SetPhase(v, "Stopped") /\ KillVm(v)
    /\ UNCHANGED <<daemon, stage, starting, dels, disk, net, books>>

\* The lock is held only while the entry is copied.
BeginDelete(d, v) ==
    /\ Unlocked(v) /\ dels[d] = None
    /\ dels' = [dels EXCEPT ![d] = [vm |-> v, net |-> vms[v].net, disk |-> vms[v].disk, at |-> "kill"]]
    /\ UNCHANGED <<daemon, stage, vms, starting, world, books, events>>

Deleting(d, at) == up /\ dels[d] # None /\ dels[d].at = at
RuntimeDelete_CleanFirst(d) ==
    /\ Deleting(d, "kill")
    /\ LET v == dels[d].vm
       IN /\ net' = net \ {v} /\ UNCHANGED disk
          /\ \/ /\ dels' = [dels EXCEPT ![d].at = "clean"]
                /\ proc' = [proc EXCEPT ![v] = "none"] /\ dir' = [dir EXCEPT ![v] = "none"]
                /\ UNCHANGED <<used, events>>
             \/ /\ dels' = [dels EXCEPT ![d] = None] /\ Event /\ Release /\ UNCHANGED <<proc, dir>>
    /\ UNCHANGED <<daemon, stage, vms, starting, resv, draining>>
\* The process is killed and the runtime directory removed.  When that fails
\* the VM stays registered, and the handler releases its capacity all the same.
RuntimeDelete(d) ==
    /\ Deleting(d, "kill")
    /\ LET v == dels[d].vm
       IN \/ /\ dels' = [dels EXCEPT ![d].at = "clean"]
             /\ proc' = [proc EXCEPT ![v] = "none"] /\ dir' = [dir EXCEPT ![v] = "none"]
             /\ UNCHANGED <<used, events>>
          \/ dels' = [dels EXCEPT ![d] = None] /\ Event /\ Release /\ UNCHANGED <<proc, dir>>
    /\ UNCHANGED <<daemon, stage, vms, starting, disk, net, resv, draining>>

\* Network and instance directory go, if the copied entry knew of them.
CleanUp(d) ==
    /\ Deleting(d, "clean") /\ dels' = [dels EXCEPT ![d].at = "forget"]
    /\ net' = IF dels[d].net THEN net \ {dels[d].vm} ELSE net
    /\ disk' = IF dels[d].disk THEN disk \ {dels[d].vm} ELSE disk
    /\ UNCHANGED <<daemon, stage, vms, starting, proc, dir, books, events>>

Forget(d) ==
    /\ Deleting(d, "forget") /\ dels' = [dels EXCEPT ![d] = None]
    /\ vms' = [vms EXCEPT ![dels[d].vm] = None] /\ Release
    /\ UNCHANGED <<daemon, stage, starting, world, resv, draining, events>>

----------------------------------------------------------------------------
\* Processes die, the monitor notices; the daemon ends and starts again.

Fail(v) ==
    /\ Alive(v) /\ Event
    /\ \/ proc' = [proc EXCEPT ![v] = "dead"]
       \/ kind = "vm" /\ proc[v] = "running" /\ proc' = [proc EXCEPT ![v] = "hung"]
    /\ UNCHANGED <<daemon, stage, vms, starting, dels, dir, disk, net, books>>

Monitor_PingOnly(v) ==
    /\ Unlocked(v) /\ vms[v].phase \in {"Running", "Starting"}
    /\ proc[v] = "hung" /\ SetPhase(v, "Failed")
    /\ UNCHANGED <<daemon, stage, starting, dels, world, books, events>>
\* A pass of the monitor skips locked VMs; a dead process, or a VM whose
\* socket does not answer, makes the entry Failed.
Monitor(v) ==
    /\ Unlocked(v) /\ vms[v].phase \in {"Running", "Starting"}
    /\ proc[v] # "running" /\ SetPhase(v, "Failed")
    /\ UNCHANGED <<daemon, stage, starting, dels, world, books, events>>

\* The processes outlive the daemon; its requests and its books do not.
Crash ==
    /\ up /\ Event /\ up' = FALSE /\ again' = FALSE
    /\ stage' = [v \in Vms |-> IF stage[v] = "new" THEN "new" ELSE "done"]
    /\ vms' = [v \in Vms |-> None] /\ starting' = {} /\ dels' = [d \in Deletes |-> None]
    /\ used' = 0 /\ resv' = {} /\ draining' = FALSE
    /\ UNCHANGED <<kind, world>>

Adoptable_VmsOnly(v) == kind = "vm" /\ dir[v] = "full" /\ proc[v] = "running"
Adoptable(v) == dir[v] = "full" /\ proc[v] = "running"

Stale(v) == dir[v] = "bare" \/ (kind = "container" /\ proc[v] # "running")

\* Runtime directories that tell of a running process are adopted, without
\* what only the creating daemon knew.  Bare directories are removed, and so
\* are those of containers that do not run.
Reconnect ==
    /\ vms' = [v \in Vms |->
         IF Adoptable(v) THEN [phase |-> "Running", net |-> FALSE, disk |-> FALSE] ELSE vms[v]]
    /\ dir' = [v \in Vms |->
         IF Stale(v) THEN "none" ELSE dir[v]]

Restart ==
    /\ ~up /\ up' = TRUE /\ again' = TRUE /\ Reconnect
    /\ UNCHANGED <<kind, stage, starting, dels, proc, disk, net, books, events>>

\* Once Raft is up, reconnect runs a second time over whatever is there.
ReconnectAgain ==
    /\ up /\ again /\ again' = FALSE /\ Reconnect
    /\ UNCHANGED <<kind, up, stage, starting, dels, proc, disk, net, books, events>>

----------------------------------------------------------------------------
CreateStep(v) ==
    \/ TryReserve(v) \/ SetupNetwork(v) \/ SetupNetworkFails(v) \/ PrepareDisk(v) \/ PrepareDiskFails(v)
    \/ Spawn(v) \/ SpawnFails(v) \/ WriteMeta(v) \/ WriteMetaFails(v) \/ Boot(v) \/ BootFails(v)
    \/ Register(v) \/ CommitDrop(v) \/ CommitUse(v)

HostNext ==
    \/ \E v \in Vms : CreateStep(v) \/ Lapse(v) \/ BeginStart(v) \/ FinishStart(v) \/ Stop(v)
                      \/ Fail(v) \/ Monitor(v)
    \/ \E d \in Deletes : (\E v \in Vms : BeginDelete(d, v)) \/ RuntimeDelete(d) \/ CleanUp(d) \/ Forget(d)
    \/ Drain \/ Crash \/ Restart \/ ReconnectAgain

HostSpec == HostInit /\ [][HostNext]_hostVars

\* The monitor is a loop, a request that has the lock goes on, and the
\* supervisor starts the daemon again.
FairHostSpec ==
    /\ HostSpec /\ WF_hostVars(Restart)
    /\ \A v \in Vms : WF_hostVars(Monitor(v)) /\ WF_hostVars(FinishStart(v))

----------------------------------------------------------------------------
\* A registered VM keeps the interface, placement and disk its entry names
\* until a delete has got its process out of the way: neither a failed
\* delete nor a concurrent request takes them from under it
\* (manager.rs delete_vm_with_options).
RegisteredKeepsResources ==
    \A v \in Vms :
        vms[v] # None /\ ~(\E d \in Deletes : dels[d] # None /\ dels[d].vm = v /\ dels[d].at # "kill") =>
            /\ vms[v].net => v \in net
            /\ vms[v].disk => v \in disk

\* A VM the registry calls Stopped has no live process, whichever requests
\* overlapped (manager.rs shutdown_vm, runtime_ch.rs stop).
StoppedIsDead ==
    \A v \in Vms : vms[v] # None /\ vms[v].phase = "Stopped" => ~Alive(v)

\* A registered VM is not shown as Running for ever once its process is gone
\* or silent: the monitor gets to it although it skips locked VMs and starts
\* from scratch after a crash (process.rs monitor_loop).
CrashNoticed ==
    \A v \in Vms : []<>~(up /\ vms[v] # None /\ vms[v].phase = "Running" /\ proc[v] # "running")

\* A VM that runs while the daemon is down, with its meta.json written, is
\* registered again by the daemon's next start or has stopped running
\* (manager.rs reconnect).
RunningIsAdopted ==
    \A v \in Vms : (~up /\ dir[v] = "full" /\ proc[v] = "running") ~> (vms[v] # None \/ proc[v] # "running")
=============================================================================
