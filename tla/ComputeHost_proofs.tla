-------------------------- MODULE ComputeHost_proofs --------------------------
(***************************************************************************)
(* Proofs about the VMs of one hypervisor, for any number of VMs and of    *)
(* delete requests under way at once.                                      *)
(*                                                                         *)
(* A registry entry is correct about the interface and the disk because of *)
(* what is true while the VM is still being created: its create request    *)
(* has the resources of the steps behind it (StageOK), and whatever the    *)
(* second reconnect adopts meanwhile, and whatever delete is begun on what *)
(* it adopted, knows of no resources and so takes none (UnknownOK).  A     *)
(* Stopped entry stays without a process because no entry exists when the  *)
(* create spawns it (EarlyOK).                                             *)
(***************************************************************************)
EXTENDS ComputeHost, TLAPS

Stages == {"new", "network", "image", "spawn", "meta", "boot", "register", "drop", "use", "done"}
Phases == {"Running", "Stopped", "Starting", "Failed"}
Entries == [phase : Phases, net : BOOLEAN, disk : BOOLEAN]
Requests == [vm : Vms, net : BOOLEAN, disk : BOOLEAN, at : {"kill", "clean", "forget"}]

HostTypeOK ==
    /\ stage \in [Vms -> Stages]
    /\ vms \in [Vms -> Entries \cup {None}]
    /\ dels \in [Deletes -> Requests \cup {None}]
    /\ proc \in [Vms -> {"none", "running", "hung", "dead"}]
    /\ dir \in [Vms -> {"none", "bare", "full"}]

HasNet == {"image", "spawn", "meta", "boot", "register"}
HasDisk == HasNet \ {"image"}
Early == {"new", "network", "image", "spawn"}
Unregistered == Early \cup HasDisk

\* The create request holds what the steps behind it have made.
StageOK ==
    \A v \in Vms : /\ stage[v] \in HasNet => v \in net
                   /\ stage[v] \in HasDisk => v \in disk

\* Before the registration neither entry nor delete knows of resources.
UnknownOK ==
    \A v \in Vms : stage[v] \in Unregistered =>
        /\ vms[v] # None => ~vms[v].net /\ ~vms[v].disk
        /\ \A d \in Deletes : dels[d] # None /\ dels[d].vm = v => ~dels[d].net /\ ~dels[d].disk

\* Until the process is spawned there is nothing to adopt.
EarlyOK == \A v \in Vms : stage[v] \in Early => vms[v] = None /\ dir[v] # "full"

HostOK ==
    /\ HostTypeOK /\ StageOK /\ UnknownOK /\ EarlyOK
    /\ RegisteredKeepsResources /\ StoppedIsDead

-----------------------------------------------------------------------------
(* The initial states, and the steps that touch none of the state HostOK   *)
(* speaks of.                                                              *)

LEMMA HostStart == HostInit => HostOK
  BY DEF HostInit, HostOK, HostTypeOK, StageOK, UnknownOK, EarlyOK,
     RegisteredKeepsResources, StoppedIsDead, Stages, HasNet, HasDisk

LEMMA HostSame ==
  ASSUME HostOK, UNCHANGED <<stage, vms, dels, proc, dir, disk, net>>
  PROVE  HostOK'
  BY DEF HostOK, HostTypeOK, StageOK, UnknownOK, EarlyOK, RegisteredKeepsResources,
     StoppedIsDead, Alive

-----------------------------------------------------------------------------
(* The create request: which part of the invariant each step could break.  *)

LEMMA TryReserveStep ==
  ASSUME HostOK, NEW v \in Vms, TryReserve(v) PROVE HostOK'
<1>1. HostTypeOK'
      BY DEF HostOK, HostTypeOK, Stages, TryReserve, world
<1>2. StageOK'
      BY DEF HostOK, HostTypeOK, StageOK, HasNet, HasDisk, TryReserve, world
<1>3. UnknownOK'
      BY DEF HostOK, HostTypeOK, UnknownOK, Early, Unregistered, TryReserve
<1>4. EarlyOK'
      BY DEF HostOK, HostTypeOK, EarlyOK, Early, TryReserve, world
<1>5. RegisteredKeepsResources'
      BY DEF HostOK, HostTypeOK, RegisteredKeepsResources, TryReserve, world
<1>6. StoppedIsDead'
      BY DEF HostOK, HostTypeOK, StoppedIsDead, Alive, TryReserve, world
<1> QED BY <1>1, <1>2, <1>3, <1>4, <1>5, <1>6 DEF HostOK

LEMMA CommitDropStep ==
  ASSUME HostOK, NEW v \in Vms, CommitDrop(v) PROVE HostOK'
<1>1. HostTypeOK'
      BY DEF HostOK, HostTypeOK, Stages, CommitDrop, world
<1>2. StageOK'
      BY DEF HostOK, HostTypeOK, StageOK, HasNet, HasDisk, CommitDrop, world
<1>3. UnknownOK'
      BY DEF HostOK, HostTypeOK, UnknownOK, HasNet, HasDisk, Early, Unregistered,
         CommitDrop
<1>4. EarlyOK'
      BY DEF HostOK, HostTypeOK, EarlyOK, Early, CommitDrop, world
<1>5. RegisteredKeepsResources'
      BY DEF HostOK, HostTypeOK, RegisteredKeepsResources, CommitDrop, world
<1>6. StoppedIsDead'
      BY DEF HostOK, HostTypeOK, StoppedIsDead, Alive, CommitDrop, world
<1> QED BY <1>1, <1>2, <1>3, <1>4, <1>5, <1>6 DEF HostOK

LEMMA CommitUseStep ==
  ASSUME HostOK, NEW v \in Vms, CommitUse(v) PROVE HostOK'
<1>1. HostTypeOK'
      BY DEF HostOK, HostTypeOK, Stages, CommitUse, world
<1>2. StageOK'
      BY DEF HostOK, HostTypeOK, StageOK, HasNet, HasDisk, CommitUse, world
<1>3. UnknownOK'
      BY DEF HostOK, HostTypeOK, UnknownOK, HasNet, HasDisk, Early, Unregistered,
         CommitUse
<1>4. EarlyOK'
      BY DEF HostOK, HostTypeOK, EarlyOK, Early, CommitUse, world
<1>5. RegisteredKeepsResources'
      BY DEF HostOK, HostTypeOK, RegisteredKeepsResources, CommitUse, world
<1>6. StoppedIsDead'
      BY DEF HostOK, HostTypeOK, StoppedIsDead, Alive, CommitUse, world
<1> QED BY <1>1, <1>2, <1>3, <1>4, <1>5, <1>6 DEF HostOK

LEMMA SetupNetworkStep ==
  ASSUME HostOK, NEW v \in Vms, SetupNetwork(v) PROVE HostOK'
<1>1. HostTypeOK'
      BY DEF HostOK, HostTypeOK, Stages, SetupNetwork, Advance
<1>2. StageOK'
      BY DEF HostOK, HostTypeOK, StageOK, HasDisk, SetupNetwork, Advance, NetworkResources
<1>3. UnknownOK'
      BY DEF HostOK, HostTypeOK, UnknownOK, Early, Unregistered, SetupNetwork, Advance
<1>4. EarlyOK'
      BY DEF HostOK, HostTypeOK, EarlyOK, Early, SetupNetwork, Advance
<1>5. RegisteredKeepsResources'
      BY DEF HostOK, HostTypeOK, RegisteredKeepsResources, SetupNetwork, NetworkResources
<1>6. StoppedIsDead'
      BY DEF HostOK, HostTypeOK, StoppedIsDead, Alive, SetupNetwork
<1> QED BY <1>1, <1>2, <1>3, <1>4, <1>5, <1>6 DEF HostOK

LEMMA SetupNetworkFailsStep ==
  ASSUME HostOK, NEW v \in Vms, SetupNetworkFails(v) PROVE HostOK'
<1>1. HostTypeOK'
      BY DEF HostOK, HostTypeOK, Stages, SetupNetworkFails, FailCreate, Advance
<1>2. StageOK'
      BY DEF HostOK, HostTypeOK, StageOK, HasNet, HasDisk, SetupNetworkFails, FailCreate,
         Advance, NetworkResources
<1>3. UnknownOK'
      BY DEF HostOK, HostTypeOK, UnknownOK, Early, Unregistered, SetupNetworkFails,
         FailCreate, Advance
<1>4. EarlyOK'
      BY DEF HostOK, HostTypeOK, EarlyOK, Early, SetupNetworkFails, FailCreate, Advance
<1>5. RegisteredKeepsResources'
      BY DEF HostOK, HostTypeOK, RegisteredKeepsResources, SetupNetworkFails, FailCreate,
         NetworkResources
<1>6. StoppedIsDead'
      BY DEF HostOK, HostTypeOK, StoppedIsDead, Alive, SetupNetworkFails, FailCreate
<1> QED BY <1>1, <1>2, <1>3, <1>4, <1>5, <1>6 DEF HostOK

LEMMA PrepareDiskStep ==
  ASSUME HostOK, NEW v \in Vms, PrepareDisk(v) PROVE HostOK'
<1>1. HostTypeOK'
      BY DEF HostOK, HostTypeOK, Stages, PrepareDisk, Advance
<1>2. StageOK'
      BY DEF HostOK, HostTypeOK, StageOK, HasNet, PrepareDisk, Advance
<1>3. UnknownOK'
      BY DEF HostOK, HostTypeOK, UnknownOK, Early, Unregistered, PrepareDisk, Advance
<1>4. EarlyOK'
      BY DEF HostOK, HostTypeOK, EarlyOK, Early, PrepareDisk, Advance
<1>5. RegisteredKeepsResources'
      BY DEF HostOK, HostTypeOK, RegisteredKeepsResources, PrepareDisk
<1>6. StoppedIsDead'
      BY DEF HostOK, HostTypeOK, StoppedIsDead, Alive, PrepareDisk
<1> QED BY <1>1, <1>2, <1>3, <1>4, <1>5, <1>6 DEF HostOK

LEMMA PrepareDiskFailsStep ==
  ASSUME HostOK, NEW v \in Vms, PrepareDiskFails(v) PROVE HostOK'
<1>1. HostTypeOK'
      BY DEF HostOK, HostTypeOK, Stages, PrepareDiskFails, FailCreate, Advance, world
<1>2. StageOK'
      BY DEF HostOK, HostTypeOK, StageOK, HasNet, HasDisk, PrepareDiskFails, FailCreate,
         Advance, world
<1>3. UnknownOK'
      BY DEF HostOK, HostTypeOK, UnknownOK, Early, Unregistered, PrepareDiskFails,
         FailCreate, Advance
<1>4. EarlyOK'
      BY DEF HostOK, HostTypeOK, EarlyOK, Early, PrepareDiskFails, FailCreate, Advance,
         world
<1>5. RegisteredKeepsResources'
      BY DEF HostOK, HostTypeOK, RegisteredKeepsResources, PrepareDiskFails, FailCreate,
         world
<1>6. StoppedIsDead'
      BY DEF HostOK, HostTypeOK, StoppedIsDead, Alive, PrepareDiskFails, FailCreate, world
<1> QED BY <1>1, <1>2, <1>3, <1>4, <1>5, <1>6 DEF HostOK

LEMMA SpawnStep ==
  ASSUME HostOK, NEW v \in Vms, Spawn(v) PROVE HostOK'
<1>1. HostTypeOK'
      BY DEF HostOK, HostTypeOK, Stages, Spawn, Advance
<1>2. StageOK'
      BY DEF HostOK, HostTypeOK, StageOK, HasNet, HasDisk, Spawn, Advance
<1>3. UnknownOK'
      BY DEF HostOK, HostTypeOK, UnknownOK, Early, Unregistered, Spawn, Advance
<1>4. EarlyOK'
      BY DEF HostOK, HostTypeOK, EarlyOK, Early, Spawn, Advance
<1>5. RegisteredKeepsResources'
      BY DEF HostOK, HostTypeOK, RegisteredKeepsResources, Spawn
<1>6. StoppedIsDead'
      BY DEF HostOK, HostTypeOK, EarlyOK, StoppedIsDead, Early, Alive, Spawn, Advance
<1> QED BY <1>1, <1>2, <1>3, <1>4, <1>5, <1>6 DEF HostOK

LEMMA SpawnFailsStep ==
  ASSUME HostOK, NEW v \in Vms, SpawnFails(v) PROVE HostOK'
<1>1. HostTypeOK'
      BY DEF HostOK, HostTypeOK, Stages, SpawnFails, FailCreate, Advance
<1>2. StageOK'
      BY DEF HostOK, HostTypeOK, StageOK, HasNet, HasDisk, SpawnFails, FailCreate,
         Advance, Teardown
<1>3. UnknownOK'
      BY DEF HostOK, HostTypeOK, UnknownOK, Early, Unregistered, SpawnFails, FailCreate,
         Advance
<1>4. EarlyOK'
      BY DEF HostOK, HostTypeOK, EarlyOK, Early, SpawnFails, FailCreate, Advance
<1>5. RegisteredKeepsResources'
      BY DEF HostOK, HostTypeOK, EarlyOK, RegisteredKeepsResources, Early, SpawnFails,
         FailCreate, Advance, Teardown
<1>6. StoppedIsDead'
      BY DEF HostOK, HostTypeOK, StoppedIsDead, Alive, SpawnFails, FailCreate
<1> QED BY <1>1, <1>2, <1>3, <1>4, <1>5, <1>6 DEF HostOK

LEMMA WriteMetaStep ==
  ASSUME HostOK, NEW v \in Vms, WriteMeta(v) PROVE HostOK'
<1>1. HostTypeOK'
      BY DEF HostOK, HostTypeOK, Stages, WriteMeta, Advance
<1>2. StageOK'
      BY DEF HostOK, HostTypeOK, StageOK, HasNet, HasDisk, WriteMeta, Advance
<1>3. UnknownOK'
      BY DEF HostOK, HostTypeOK, UnknownOK, HasNet, HasDisk, Unregistered, WriteMeta,
         Advance
<1>4. EarlyOK'
      BY DEF HostOK, HostTypeOK, EarlyOK, Early, WriteMeta, Advance
<1>5. RegisteredKeepsResources'
      BY DEF HostOK, HostTypeOK, RegisteredKeepsResources, WriteMeta
<1>6. StoppedIsDead'
      BY DEF HostOK, HostTypeOK, StoppedIsDead, Alive, WriteMeta
<1> QED BY <1>1, <1>2, <1>3, <1>4, <1>5, <1>6 DEF HostOK

LEMMA WriteMetaFailsStep ==
  ASSUME HostOK, NEW v \in Vms, WriteMetaFails(v) PROVE HostOK'
<1>1. HostTypeOK'
      BY DEF HostOK, HostTypeOK, Stages, WriteMetaFails, FailCreate, Advance
<1>2. StageOK'
      BY DEF HostOK, HostTypeOK, StageOK, HasNet, HasDisk, WriteMetaFails, FailCreate,
         Advance, Teardown
<1>3. UnknownOK'
      BY DEF HostOK, HostTypeOK, UnknownOK, HasNet, HasDisk, Unregistered, WriteMetaFails,
         FailCreate, Advance
<1>4. EarlyOK'
      BY DEF HostOK, HostTypeOK, EarlyOK, Early, WriteMetaFails, FailCreate, Advance
<1>5. RegisteredKeepsResources'
      BY DEF HostOK, HostTypeOK, UnknownOK, RegisteredKeepsResources, HasNet, HasDisk,
         Unregistered, WriteMetaFails, FailCreate, Advance, Teardown
<1>6. StoppedIsDead'
      BY DEF HostOK, HostTypeOK, StoppedIsDead, Alive, WriteMetaFails, FailCreate
<1> QED BY <1>1, <1>2, <1>3, <1>4, <1>5, <1>6 DEF HostOK

LEMMA BootStep ==
  ASSUME HostOK, NEW v \in Vms, Boot(v) PROVE HostOK'
<1>1. HostTypeOK'
      BY DEF HostOK, HostTypeOK, Stages, Boot, Advance, world
<1>2. StageOK'
      BY DEF HostOK, HostTypeOK, StageOK, HasNet, HasDisk, Boot, Advance, world
<1>3. UnknownOK'
      BY DEF HostOK, HostTypeOK, UnknownOK, HasNet, HasDisk, Unregistered, Boot, Advance
<1>4. EarlyOK'
      BY DEF HostOK, HostTypeOK, EarlyOK, Early, Boot, Advance, world
<1>5. RegisteredKeepsResources'
      BY DEF HostOK, HostTypeOK, RegisteredKeepsResources, Boot, world
<1>6. StoppedIsDead'
      BY DEF HostOK, HostTypeOK, StoppedIsDead, Alive, Boot, world
<1> QED BY <1>1, <1>2, <1>3, <1>4, <1>5, <1>6 DEF HostOK

LEMMA BootFailsStep ==
  ASSUME HostOK, NEW v \in Vms, BootFails(v) PROVE HostOK'
<1>1. HostTypeOK'
      BY DEF HostOK, HostTypeOK, Stages, BootFails, FailCreate, Advance, world
<1>2. StageOK'
      BY DEF HostOK, HostTypeOK, StageOK, HasNet, HasDisk, BootFails, FailCreate, Advance,
         Teardown, world
<1>3. UnknownOK'
      BY DEF HostOK, HostTypeOK, UnknownOK, HasNet, HasDisk, Unregistered, BootFails,
         FailCreate, Advance
<1>4. EarlyOK'
      BY DEF HostOK, HostTypeOK, EarlyOK, Early, BootFails, FailCreate, Advance, world
<1>5. RegisteredKeepsResources'
      BY DEF HostOK, HostTypeOK, UnknownOK, RegisteredKeepsResources, HasNet, HasDisk,
         Unregistered, BootFails, FailCreate, Advance, Teardown, world
<1>6. StoppedIsDead'
      BY DEF HostOK, HostTypeOK, StoppedIsDead, Alive, BootFails, FailCreate, world
<1> QED BY <1>1, <1>2, <1>3, <1>4, <1>5, <1>6 DEF HostOK

LEMMA RegisterStep ==
  ASSUME HostOK, NEW v \in Vms, Register(v) PROVE HostOK'
<1>1. HostTypeOK'
      BY DEF HostOK, HostTypeOK, Stages, Phases, Entries, Register, Advance, world
<1>2. StageOK'
      BY DEF HostOK, HostTypeOK, StageOK, HasNet, HasDisk, Register, Advance, world
<1>3. UnknownOK'
      BY DEF HostOK, HostTypeOK, UnknownOK, HasNet, HasDisk, Early, Unregistered,
         Register, Advance
<1>4. EarlyOK'
      BY DEF HostOK, HostTypeOK, EarlyOK, Early, Register, Advance, world
<1>5. RegisteredKeepsResources'
      BY DEF HostOK, HostTypeOK, StageOK, RegisteredKeepsResources, HasNet, HasDisk,
         Register, Advance, world
<1>6. StoppedIsDead'
      BY DEF HostOK, HostTypeOK, StoppedIsDead, Alive, Register, world
<1> QED BY <1>1, <1>2, <1>3, <1>4, <1>5, <1>6 DEF HostOK

-----------------------------------------------------------------------------
(* Start, stop and delete.                                                 *)

LEMMA BeginStartStep ==
  ASSUME HostOK, NEW v \in Vms, BeginStart(v) PROVE HostOK'
<1>1. HostTypeOK'
      BY DEF HostOK, HostTypeOK, Phases, Entries, BeginStart, Unlocked, SetPhase, world
<1>2. StageOK'
      BY DEF HostOK, HostTypeOK, StageOK, BeginStart, world
<1>3. UnknownOK'
      BY DEF HostOK, HostTypeOK, UnknownOK, BeginStart, Unlocked, SetPhase
<1>4. EarlyOK'
      BY DEF HostOK, HostTypeOK, EarlyOK, BeginStart, Unlocked, SetPhase, world
<1>5. RegisteredKeepsResources'
      BY DEF HostOK, HostTypeOK, RegisteredKeepsResources, BeginStart, Unlocked, SetPhase,
         world
<1>6. StoppedIsDead'
      BY DEF HostOK, HostTypeOK, StoppedIsDead, Alive, BeginStart, SetPhase, world
<1> QED BY <1>1, <1>2, <1>3, <1>4, <1>5, <1>6 DEF HostOK

LEMMA FinishStartStep ==
  ASSUME HostOK, NEW v \in Vms, FinishStart(v) PROVE HostOK'
<1>1. PICK p \in {"none", "running", "hung", "dead"}, ph \in {"Failed", "Running"} :
        /\ proc' = [proc EXCEPT ![v] = p]
        /\ vms' = [vms EXCEPT ![v] = IF @ = None THEN None ELSE [@ EXCEPT !.phase = ph]]
      BY DEF HostOK, HostTypeOK, FinishStart
<1>2. UNCHANGED <<stage, dels, dir, disk, net>>
      BY DEF FinishStart
<1>3. vms'[v] # None =>
        vms[v] \in Entries /\ vms[v] # None /\ vms'[v] = [vms[v] EXCEPT !.phase = ph]
      BY <1>1 DEF HostOK, HostTypeOK
<1>4. vms'[v] # None =>
        /\ vms'[v].net = vms[v].net /\ vms'[v].disk = vms[v].disk
        /\ vms'[v].phase = ph /\ ph # "Stopped"
      BY <1>3 DEF Entries
<1>5. \A x \in Vms \ {v} : vms'[x] = vms[x] /\ proc'[x] = proc[x]
      BY <1>1
<1>6. vms[v] = None => vms'[v] = None
      BY <1>1
<1>7. HostTypeOK'
      BY <1>1, <1>2 DEF HostOK, HostTypeOK, Phases, Entries
<1>8. StageOK' /\ EarlyOK'
      BY <1>2, <1>5, <1>6 DEF HostOK, StageOK, EarlyOK
<1>9. UnknownOK'
      BY <1>2, <1>3, <1>4, <1>5 DEF HostOK, UnknownOK
<1>10. RegisteredKeepsResources'
      BY <1>2, <1>3, <1>4, <1>5 DEF HostOK, RegisteredKeepsResources
<1>11. StoppedIsDead'
      BY <1>4, <1>5 DEF HostOK, StoppedIsDead, Alive
<1> QED BY <1>7, <1>8, <1>9, <1>10, <1>11 DEF HostOK

LEMMA StopStep ==
  ASSUME HostOK, NEW v \in Vms, Stop(v) PROVE HostOK'
<1>1. HostTypeOK'
      BY DEF HostOK, HostTypeOK, Phases, Entries, Stop, Unlocked, SetPhase, KillVm
<1>2. StageOK'
      BY DEF HostOK, HostTypeOK, StageOK, Stop
<1>3. UnknownOK'
      BY DEF HostOK, HostTypeOK, UnknownOK, Stop, Unlocked, SetPhase
<1>4. EarlyOK'
      BY DEF HostOK, HostTypeOK, EarlyOK, Stop, Unlocked, SetPhase, KillVm
<1>5. RegisteredKeepsResources'
      BY DEF HostOK, HostTypeOK, RegisteredKeepsResources, Stop, Unlocked, SetPhase
<1>6. StoppedIsDead'
      BY DEF HostOK, HostTypeOK, StoppedIsDead, Alive, Stop, SetPhase, KillVm, Alive
<1> QED BY <1>1, <1>2, <1>3, <1>4, <1>5, <1>6 DEF HostOK

LEMMA BeginDeleteStep ==
  ASSUME HostOK, NEW v \in Vms, NEW d \in Deletes, BeginDelete(d, v) PROVE HostOK'
<1>1. HostTypeOK'
      BY DEF HostOK, HostTypeOK, Entries, Requests, BeginDelete, Unlocked, world
<1>2. StageOK'
      BY DEF HostOK, HostTypeOK, StageOK, BeginDelete, world
<1>3. UnknownOK'
      BY DEF HostOK, HostTypeOK, UnknownOK, BeginDelete, Unlocked
<1>4. EarlyOK'
      BY DEF HostOK, HostTypeOK, EarlyOK, BeginDelete, world
<1>5. RegisteredKeepsResources'
      BY DEF HostOK, HostTypeOK, RegisteredKeepsResources, BeginDelete, world
<1>6. StoppedIsDead'
      BY DEF HostOK, HostTypeOK, StoppedIsDead, Alive, BeginDelete, world
<1> QED BY <1>1, <1>2, <1>3, <1>4, <1>5, <1>6 DEF HostOK

LEMMA RuntimeDeleteStep ==
  ASSUME HostOK, NEW d \in Deletes, RuntimeDelete(d) PROVE HostOK'
<1>1. HostTypeOK'
      BY DEF HostOK, HostTypeOK, Requests, RuntimeDelete, Deleting
<1>2. StageOK'
      BY DEF HostOK, HostTypeOK, StageOK, RuntimeDelete
<1>3. UnknownOK'
  <2>1. UNCHANGED <<stage, vms>>
        BY DEF RuntimeDelete
  <2>2. \A e \in Deletes : dels'[e] # None =>
          dels[e] # None /\ dels'[e].vm = dels[e].vm /\ dels'[e].net = dels[e].net
                         /\ dels'[e].disk = dels[e].disk
        BY DEF HostOK, HostTypeOK, Requests, RuntimeDelete, Deleting
  <2> QED BY <2>1, <2>2 DEF HostOK, UnknownOK
<1>4. EarlyOK'
      BY DEF HostOK, HostTypeOK, EarlyOK, RuntimeDelete
<1>5. RegisteredKeepsResources'
      BY DEF HostOK, HostTypeOK, RegisteredKeepsResources, RuntimeDelete, Deleting
<1>6. StoppedIsDead'
      BY DEF HostOK, HostTypeOK, StoppedIsDead, Alive, RuntimeDelete
<1> QED BY <1>1, <1>2, <1>3, <1>4, <1>5, <1>6 DEF HostOK

LEMMA CleanUpStep ==
  ASSUME HostOK, NEW d \in Deletes, CleanUp(d) PROVE HostOK'
<1>1. HostTypeOK'
      BY DEF HostOK, HostTypeOK, Requests, CleanUp, Deleting
<1>2. StageOK'
  <2>1. dels[d] # None /\ dels[d].vm \in Vms
        BY DEF HostOK, HostTypeOK, Requests, CleanUp, Deleting
  <2>2. ASSUME NEW v \in Vms, stage[v] \in HasNet
        PROVE  (v \in net => v \in net') /\ (v \in disk => v \in disk')
    <3>1. stage[v] \in Unregistered
          BY <2>2 DEF HasDisk, Early, Unregistered
    <3>2. dels[d].vm = v => ~dels[d].net /\ ~dels[d].disk
          BY <3>1, <2>1 DEF HostOK, UnknownOK
    <3> QED BY <3>2 DEF CleanUp
  <2>3. UNCHANGED stage
        BY DEF CleanUp
  <2> QED BY <2>2, <2>3 DEF HostOK, StageOK, HasDisk
<1>3. UnknownOK'
      BY DEF HostOK, HostTypeOK, UnknownOK, CleanUp, Deleting
<1>4. EarlyOK'
      BY DEF HostOK, HostTypeOK, EarlyOK, CleanUp
<1>5. RegisteredKeepsResources'
      BY HostAssumption DEF HostOK, HostTypeOK, RegisteredKeepsResources, CleanUp,
         Deleting, Requests
<1>6. StoppedIsDead'
      BY DEF HostOK, HostTypeOK, StoppedIsDead, Alive, CleanUp
<1> QED BY <1>1, <1>2, <1>3, <1>4, <1>5, <1>6 DEF HostOK

LEMMA ForgetStep ==
  ASSUME HostOK, NEW d \in Deletes, Forget(d) PROVE HostOK'
<1>1. HostTypeOK'
      BY DEF HostOK, HostTypeOK, Requests, Forget, Deleting, world
<1>2. StageOK'
      BY DEF HostOK, HostTypeOK, StageOK, Forget, world
<1>3. UnknownOK'
      BY DEF HostOK, HostTypeOK, UnknownOK, Forget
<1>4. EarlyOK'
      BY DEF HostOK, HostTypeOK, EarlyOK, Forget, world
<1>5. RegisteredKeepsResources'
      BY DEF HostOK, HostTypeOK, RegisteredKeepsResources, Forget, world
<1>6. StoppedIsDead'
      BY DEF HostOK, HostTypeOK, StoppedIsDead, Alive, Forget, world
<1> QED BY <1>1, <1>2, <1>3, <1>4, <1>5, <1>6 DEF HostOK

-----------------------------------------------------------------------------
(* Failures, the monitor, the end and the start of the daemon.             *)

LEMMA FailStep ==
  ASSUME HostOK, NEW v \in Vms, Fail(v) PROVE HostOK'
<1>1. HostTypeOK'
      BY DEF HostOK, HostTypeOK, Fail
<1>2. StageOK'
      BY DEF HostOK, HostTypeOK, StageOK, Fail
<1>3. UnknownOK'
      BY DEF HostOK, HostTypeOK, UnknownOK, Fail
<1>4. EarlyOK'
      BY DEF HostOK, HostTypeOK, EarlyOK, Fail
<1>5. RegisteredKeepsResources'
      BY DEF HostOK, HostTypeOK, RegisteredKeepsResources, Fail
<1>6. StoppedIsDead'
      BY DEF HostOK, HostTypeOK, StoppedIsDead, Alive, Fail, Alive
<1> QED BY <1>1, <1>2, <1>3, <1>4, <1>5, <1>6 DEF HostOK

LEMMA MonitorStep ==
  ASSUME HostOK, NEW v \in Vms, Monitor(v) PROVE HostOK'
<1>1. HostTypeOK'
      BY DEF HostOK, HostTypeOK, Phases, Entries, Monitor, Unlocked, SetPhase, world
<1>2. StageOK'
      BY DEF HostOK, HostTypeOK, StageOK, Monitor, world
<1>3. UnknownOK'
      BY DEF HostOK, HostTypeOK, UnknownOK, Monitor, Unlocked, SetPhase
<1>4. EarlyOK'
      BY DEF HostOK, HostTypeOK, EarlyOK, Monitor, Unlocked, SetPhase, world
<1>5. RegisteredKeepsResources'
      BY DEF HostOK, HostTypeOK, RegisteredKeepsResources, Monitor, Unlocked, SetPhase,
         world
<1>6. StoppedIsDead'
      BY DEF HostOK, HostTypeOK, StoppedIsDead, Alive, Monitor, SetPhase, world
<1> QED BY <1>1, <1>2, <1>3, <1>4, <1>5, <1>6 DEF HostOK

LEMMA CrashStep ==
  ASSUME HostOK, Crash PROVE HostOK'
<1>1. HostTypeOK'
      BY DEF HostOK, HostTypeOK, Stages, Crash, world
<1>2. StageOK'
      BY DEF StageOK, HasNet, HasDisk, Crash
<1>3. UnknownOK'
      BY DEF UnknownOK, Crash
<1>4. EarlyOK'
      BY DEF HostOK, HostTypeOK, EarlyOK, Early, Crash, world
<1>5. RegisteredKeepsResources'
      BY DEF RegisteredKeepsResources, Crash
<1>6. StoppedIsDead'
      BY DEF StoppedIsDead, Crash
<1> QED BY <1>1, <1>2, <1>3, <1>4, <1>5, <1>6 DEF HostOK

LEMMA RestartStep ==
  ASSUME HostOK, Restart PROVE HostOK'
<1>1. HostTypeOK'
      BY DEF HostOK, HostTypeOK, Phases, Entries, Restart, Reconnect
<1>2. StageOK'
      BY DEF HostOK, HostTypeOK, StageOK, Restart
<1>3. UnknownOK'
      BY DEF HostOK, HostTypeOK, UnknownOK, Restart, Reconnect
<1>4. EarlyOK'
      BY DEF HostOK, HostTypeOK, EarlyOK, Restart, Reconnect, Adoptable
<1>5. RegisteredKeepsResources'
      BY DEF HostOK, HostTypeOK, RegisteredKeepsResources, Restart, Reconnect
<1>6. StoppedIsDead'
      BY DEF HostOK, HostTypeOK, StoppedIsDead, Alive, Restart, Reconnect
<1> QED BY <1>1, <1>2, <1>3, <1>4, <1>5, <1>6 DEF HostOK

LEMMA ReconnectAgainStep ==
  ASSUME HostOK, ReconnectAgain PROVE HostOK'
<1>1. HostTypeOK'
      BY DEF HostOK, HostTypeOK, Phases, Entries, ReconnectAgain, Reconnect
<1>2. StageOK'
      BY DEF HostOK, HostTypeOK, StageOK, ReconnectAgain
<1>3. UnknownOK'
      BY DEF HostOK, HostTypeOK, UnknownOK, ReconnectAgain, Reconnect
<1>4. EarlyOK'
      BY DEF HostOK, HostTypeOK, EarlyOK, ReconnectAgain, Reconnect, Adoptable
<1>5. RegisteredKeepsResources'
      BY DEF HostOK, HostTypeOK, RegisteredKeepsResources, ReconnectAgain, Reconnect
<1>6. StoppedIsDead'
      BY DEF HostOK, HostTypeOK, StoppedIsDead, Alive, ReconnectAgain, Reconnect
<1> QED BY <1>1, <1>2, <1>3, <1>4, <1>5, <1>6 DEF HostOK

-----------------------------------------------------------------------------
(* The invariant.                                                          *)

LEMMA CreateStepKeeps ==
  ASSUME HostOK, NEW v \in Vms, CreateStep(v) PROVE HostOK'
  BY TryReserveStep, SetupNetworkStep, SetupNetworkFailsStep, PrepareDiskStep,
     PrepareDiskFailsStep, SpawnStep, SpawnFailsStep, WriteMetaStep, WriteMetaFailsStep,
     BootStep, BootFailsStep, RegisterStep, CommitDropStep, CommitUseStep
     DEF CreateStep

LEMMA HostStep == HostOK /\ [HostNext]_hostVars => HostOK'
<1> SUFFICES ASSUME HostOK, [HostNext]_hostVars PROVE HostOK'
    OBVIOUS
<1>1. ASSUME NEW v \in Vms, CreateStep(v) PROVE HostOK'
      BY <1>1, CreateStepKeeps
<1>2. ASSUME NEW v \in Vms, Lapse(v) PROVE HostOK'
      BY <1>2, HostSame DEF Lapse, world
<1>3. ASSUME NEW v \in Vms, BeginStart(v) \/ FinishStart(v) \/ Stop(v) PROVE HostOK'
      BY <1>3, BeginStartStep, FinishStartStep, StopStep
<1>4. ASSUME NEW v \in Vms, Fail(v) \/ Monitor(v) PROVE HostOK'
      BY <1>4, FailStep, MonitorStep
<1>5. ASSUME NEW d \in Deletes, NEW v \in Vms, BeginDelete(d, v) PROVE HostOK'
      BY <1>5, BeginDeleteStep
<1>6. ASSUME NEW d \in Deletes, RuntimeDelete(d) \/ CleanUp(d) \/ Forget(d) PROVE HostOK'
      BY <1>6, RuntimeDeleteStep, CleanUpStep, ForgetStep
<1>7. CASE Drain
      BY <1>7, HostSame DEF Drain, world
<1>8. CASE Crash \/ Restart \/ ReconnectAgain
      BY <1>8, CrashStep, RestartStep, ReconnectAgainStep
<1>9. CASE UNCHANGED hostVars
      BY <1>9, HostSame DEF hostVars
<1> QED BY <1>1, <1>2, <1>3, <1>4, <1>5, <1>6, <1>7, <1>8, <1>9 DEF HostNext

LEMMA HostInvariant == HostSpec => []HostOK
  BY HostStart, HostStep, PTL DEF HostSpec

\* A registered VM keeps the interface, the placement and the disk its entry
\* names until a delete has killed its process, however many VMs and deletes
\* there are: creates that fail and roll back, repeated and overlapping
\* deletes, crashes and both reconnects take nothing from it
\* (manager.rs create_vm, delete_vm_with_options, reconnect).
THEOREM ResourcesStay == HostSpec => []RegisteredKeepsResources
<1>1. HostOK => RegisteredKeepsResources
      BY DEF HostOK
<1> QED BY HostInvariant, <1>1, PTL

\* A VM the registry calls Stopped has no live process: neither a create
\* still under way, nor a start, nor an adoption brings one back without
\* changing the phase (manager.rs shutdown_vm, process.rs kill_vm).
THEOREM StoppedStaysDead == HostSpec => []StoppedIsDead
<1>1. HostOK => StoppedIsDead
      BY DEF HostOK
<1> QED BY HostInvariant, <1>1, PTL
==============================================================================
