-------------------------- MODULE VmProvision_proofs --------------------------
(***************************************************************************)
(* Proof that a decommissioned hypervisor is never taken back, for any     *)
(* number of replicas, requests, events and faults, with the type of the   *)
(* registry and of the trackers whose counts are reported into it.         *)
(***************************************************************************)
EXTENDS VmProvision, TLAPS

Hypervisor ==
    [state : {"NotReady", "Available", "Draining", "Maintenance", "Decommissioned"},
     tainted : BOOLEAN, known : BOOLEAN, used : Nat]

RegistryOK ==
    /\ registry \in [Nodes -> [Nodes -> Hypervisor \cup {Absent}]]
    /\ used \in [Nodes -> Nat]

\* What a step may do to an entry: it stays what it is, appears, leaves a state
\* that can be left, or is changed in its other fields.
Follows(old, new) ==
    old # Absent /\ old.state = "Decommissioned" => new.state = "Decommissioned"

Follow == \A m, n \in Nodes : Follows(registry[m][n], registry'[m][n])

LEMMA FreshType == Fresh \in Hypervisor
  BY DEF Fresh, Hypervisor

LEMMA UpdateStateType ==
  ASSUME NEW hv \in Hypervisor \cup {Absent},
         NEW to \in {"Available", "Draining", "Maintenance", "Decommissioned"}
  PROVE  /\ UpdateState(hv, to) \in Hypervisor \cup {Absent}
         /\ Follows(hv, UpdateState(hv, to))
  BY DEF UpdateState, ValidTransition, Hypervisor, Follows

LEMMA RegistrySame ==
  ASSUME RegistryOK, UNCHANGED registry, used' \in [Nodes -> Nat]
  PROVE  RegistryOK' /\ Follow
  BY DEF RegistryOK, Follow, Follows

-----------------------------------------------------------------------------
(* The commands on the registry.                                           *)

LEMMA RegisterStep ==
  ASSUME RegistryOK, NEW h \in Nodes, RegisterHypervisor(h)
  PROVE  RegistryOK' /\ Follow
  BY FreshType DEF RegistryOK, RegisterHypervisor, Others, hosts, Follow, Follows

LEMMA ChangeStep ==
  ASSUME RegistryOK, NEW h \in Nodes, NEW to \in {"Available", "Draining", "Decommissioned"},
         Change(h, to)
  PROVE  RegistryOK' /\ Follow
<1>1. registry' = [m \in Nodes |-> [registry[m] EXCEPT ![h] = UpdateState(@, to)]]
  BY DEF Change
<1>2. ASSUME NEW m \in Nodes, NEW n \in Nodes
      PROVE  registry'[m][n] = IF n = h THEN UpdateState(registry[m][n], to) ELSE registry[m][n]
  <2>1. registry[m] \in [Nodes -> Hypervisor \cup {Absent}]
    BY DEF RegistryOK
  <2>2. registry'[m] = [registry[m] EXCEPT ![h] = UpdateState(@, to)]
    BY <1>1
  <2> QED
    BY <2>1, <2>2
<1>3. registry' \in [Nodes -> [Nodes -> Hypervisor \cup {Absent}]]
  BY UpdateStateType DEF RegistryOK, Change
<1> QED
  BY <1>2, <1>3, UpdateStateType DEF RegistryOK, Change, Others, hosts, Follow, Follows

\* Taints and capacity are fields of their own.
LEMMA OtherFields ==
  ASSUME NEW hv \in Hypervisor, NEW b \in BOOLEAN, NEW units \in Nat
  PROVE  /\ [hv EXCEPT !.tainted = b] \in Hypervisor
         /\ [hv EXCEPT !.tainted = b].state = hv.state
         /\ [hv EXCEPT !.known = TRUE, !.used = units] \in Hypervisor
         /\ [hv EXCEPT !.known = TRUE, !.used = units].state = hv.state
  BY DEF Hypervisor

LEMMA TaintStep ==
  ASSUME RegistryOK, NEW h \in Nodes, NEW b \in BOOLEAN, UpdateHypervisorTaints(h, b)
  PROVE  RegistryOK' /\ Follow
<1> DEFINE Tainted(hv) == IF hv = Absent THEN hv ELSE [hv EXCEPT !.tainted = b]
<1>1. registry' = [m \in Nodes |-> [registry[m] EXCEPT ![h] = Tainted(@)]]
  BY DEF UpdateHypervisorTaints
<1>2. \A hv \in Hypervisor \cup {Absent} :
        Tainted(hv) \in Hypervisor \cup {Absent} /\ Follows(hv, Tainted(hv))
  BY OtherFields DEF Follows
<1> HIDE DEF Tainted
<1>3. ASSUME NEW m \in Nodes
      PROVE  /\ registry'[m] \in [Nodes -> Hypervisor \cup {Absent}]
             /\ \A n \in Nodes : Follows(registry[m][n], registry'[m][n])
  <2>1. registry[m] \in [Nodes -> Hypervisor \cup {Absent}]
    BY DEF RegistryOK
  <2>2. registry'[m] = [registry[m] EXCEPT ![h] = Tainted(@)]
    BY <1>1
  <2> QED
    BY <1>2, <2>1, <2>2 DEF Follows
<1> QED
  BY <1>1, <1>3 DEF RegistryOK, UpdateHypervisorTaints, Others, hosts, Follow

LEMMA LocalMaintenanceStep ==
  ASSUME RegistryOK, NEW h \in Nodes, NEW m \in Nodes, LocalMaintenance(m, h)
  PROVE  RegistryOK' /\ Follow
<1>1. registry' = [registry EXCEPT ![m][h] = UpdateState(@, "Maintenance")]
  BY DEF LocalMaintenance
<1>2. registry' \in [Nodes -> [Nodes -> Hypervisor \cup {Absent}]]
  BY <1>1, UpdateStateType DEF RegistryOK
<1>3. \A i, n \in Nodes :
        registry'[i][n] = IF i = m /\ n = h THEN UpdateState(registry[i][n], "Maintenance")
                          ELSE registry[i][n]
  BY <1>1 DEF RegistryOK
<1> QED
  BY <1>2, <1>3, UpdateStateType DEF RegistryOK, LocalMaintenance, Others, hosts, Follow, Follows

LEMMA LocalTaintRemoveStep ==
  ASSUME RegistryOK, NEW h \in Nodes, NEW m \in Nodes, LocalTaintRemove(m, h)
  PROVE  RegistryOK' /\ Follow
<1>1. registry[m] \in [Nodes -> Hypervisor \cup {Absent}] /\ registry[m][h] \in Hypervisor
  BY DEF RegistryOK, LocalTaintRemove
<1> DEFINE hv == [registry[m][h] EXCEPT !.tainted = FALSE]
<1>2. registry' = [registry EXCEPT ![m] = [registry[m] EXCEPT ![h] = hv]]
  BY DEF RegistryOK, LocalTaintRemove
<1>3. hv \in Hypervisor /\ hv.state = registry[m][h].state
  BY <1>1, OtherFields
<1> HIDE DEF hv
<1>4. registry' \in [Nodes -> [Nodes -> Hypervisor \cup {Absent}]]
  BY <1>1, <1>2, <1>3 DEF RegistryOK
<1>5. \A i, n \in Nodes :
        registry'[i][n] = IF i = m /\ n = h THEN hv ELSE registry[i][n]
  BY <1>1, <1>2 DEF RegistryOK
<1>6. Follow
  BY <1>3, <1>5 DEF Follow, Follows
<1> QED
  BY <1>4, <1>6 DEF RegistryOK, LocalTaintRemove, Others, hosts

\* A report of capacity changes what is known of the capacity.
LEMMA CapacityStep ==
  ASSUME RegistryOK, NEW n, NEW units, n \in Nodes => units \in Nat,
         registry' = Capacity(n, units), used' \in [Nodes -> Nat]
  PROVE  RegistryOK' /\ Follow
<1> DEFINE Told(hv) == IF hv = Absent THEN hv ELSE [hv EXCEPT !.known = TRUE, !.used = units]
<1>1. registry' = [m \in Nodes |-> [registry[m] EXCEPT ![n] = Told(@)]]
  BY DEF Capacity
<1>2. n \in Nodes => \A hv \in Hypervisor \cup {Absent} :
        Told(hv) \in Hypervisor \cup {Absent} /\ Follows(hv, Told(hv))
  BY OtherFields DEF Follows
<1> HIDE DEF Told
<1>3. ASSUME NEW m \in Nodes
      PROVE  /\ registry'[m] \in [Nodes -> Hypervisor \cup {Absent}]
             /\ \A i \in Nodes : Follows(registry[m][i], registry'[m][i])
  <2>1. registry[m] \in [Nodes -> Hypervisor \cup {Absent}]
    BY DEF RegistryOK
  <2>2. registry'[m] = [registry[m] EXCEPT ![n] = Told(@)]
    BY <1>1
  <2>3. CASE n \in Nodes
    BY <1>2, <2>1, <2>2, <2>3 DEF Follows
  <2>4. CASE n \notin Nodes
    BY <2>1, <2>2, <2>4 DEF Follows
  <2> QED
    BY <2>3, <2>4
<1> QED
  BY <1>1, <1>3 DEF RegistryOK, Follow

LEMMA RegistryStep ==
  ASSUME RegistryOK, Registry
  PROVE  RegistryOK' /\ Follow
<1> PICK h \in Nodes :
        \/ RegisterHypervisor(h) \/ EnableHypervisor(h) \/ DrainHypervisor(h)
        \/ DecommissionHypervisor(h) \/ DrainAgent(h)
        \/ \E b \in BOOLEAN : UpdateHypervisorTaints(h, b)
        \/ \E m \in Nodes : LocalMaintenance(m, h) \/ LocalTaintRemove(m, h)
  BY DEF Registry
<1>1. CASE EnableHypervisor(h) \/ DrainHypervisor(h) \/ DecommissionHypervisor(h)
  BY <1>1, ChangeStep DEF EnableHypervisor, DrainHypervisor, DecommissionHypervisor
<1>2. CASE DrainAgent(h)
  BY <1>2, RegistrySame DEF DrainAgent, control, RegistryOK
<1> QED
  BY <1>1, <1>2, RegisterStep, TaintStep, LocalMaintenanceStep, LocalTaintRemoveStep

-----------------------------------------------------------------------------
(* Requests, reports and failures.                                         *)

LEMMA ProceedStep ==
  ASSUME RegistryOK, NEW r \in Requests, Proceed(r)
  PROVE  RegistryOK' /\ Follow
<1>1. CASE Finish(r)
  <2> DEFINE t == req[r].target
  <2>1. used' \in [Nodes -> Nat]
    BY <1>1 DEF Finish, RegistryOK
  <2>2. registry' = Capacity(t, used[t]) \/ UNCHANGED registry
    BY <1>1 DEF Finish
  <2>3. t \in Nodes => used[t] \in Nat
    BY DEF RegistryOK
  <2> QED
    BY <2>1, <2>2, <2>3, CapacityStep, RegistrySame
<1>2. CASE ForgeCreate(r)
  <2>1. used' \in [Nodes -> Nat]
    BY <1>2 DEF ForgeCreate, RegistryOK
  <2> QED
    BY <1>2, <2>1, RegistrySame DEF ForgeCreate, control
<1>3. CASE ~Finish(r) /\ ~ForgeCreate(r)
  BY <1>3, RegistrySame DEF Proceed, WriteIntent, IntentLost, Scheduling, Creating, Legacy,
     AllocateIp, ReadBitmap, WriteBitmap, Boot, BootFails, control, hosts, RegistryOK
<1> QED
  BY <1>1, <1>2, <1>3

LEMMA DeleteVmStep ==
  ASSUME RegistryOK, NEW r \in Requests, DeleteVm(r)
  PROVE  RegistryOK' /\ Follow
<1> DEFINE n == vm[r].node
<1>1. used' \in [Nodes -> Nat]
  BY DEF DeleteVm, RegistryOK
<1>2. registry' = Capacity(n, used'[n]) \/ UNCHANGED registry
  BY DEF DeleteVm
<1>3. n \in Nodes => used'[n] \in Nat
  BY <1>1
<1> QED
  BY <1>1, <1>2, <1>3, CapacityStep, RegistrySame

LEMMA ProvisionStep ==
  ASSUME RegistryOK, [ProvisionNext]_provisionVars
  PROVE  RegistryOK' /\ Follow
<1>1. CASE SetStorage \/ LoseLeader
  BY <1>1, RegistrySame DEF SetStorage, LoseLeader, Others, hosts, RegistryOK
<1>2. ASSUME NEW r \in Requests, Submit(r) PROVE RegistryOK' /\ Follow
  BY <1>2, RegistrySame DEF Submit, control, hosts, RegistryOK
<1>3. ASSUME NEW n \in Nodes, ReportCapacity(n) PROVE RegistryOK' /\ Follow
  BY <1>3, CapacityStep DEF ReportCapacity, Others, hosts, RegistryOK
<1>4. ASSUME NEW n \in Nodes, Crash(n) \/ Elect(n) PROVE RegistryOK' /\ Follow
  BY <1>4, RegistrySame DEF Crash, Elect, hosts, RegistryOK
<1>5. CASE UNCHANGED provisionVars
  BY <1>5, RegistrySame DEF provisionVars, RegistryOK
<1> QED
  BY <1>1, <1>2, <1>3, <1>4, <1>5, RegistryStep, ProceedStep, DeleteVmStep DEF ProvisionNext

\* No replica takes a decommissioned hypervisor back, for any number of nodes
\* and requests: the registration of a restarting node, enable and drain,
\* maintenance entered on one replica only, taints and capacity reports that
\* arrive late all leave it decommissioned (hypervisor.rs
\* validate_state_transition, state_machine.rs RegisterHypervisor,
\* UpdateHypervisorCapacity).
THEOREM DecommissionIsFinal == ProvisionSpec => DecommissionedStays
<1>1. ProvisionInit => RegistryOK
  <2>1. [Fresh EXCEPT !.state = "Available"] \in Hypervisor
    BY DEF Fresh, Hypervisor
  <2> QED
    BY <2>1 DEF ProvisionInit, RegistryOK
<1>2. RegistryOK /\ [ProvisionNext]_provisionVars => RegistryOK'
  BY ProvisionStep
<1>3. RegistryOK /\ [ProvisionNext]_provisionVars =>
        [\A m, n \in Nodes : registry[m][n] # Absent /\ registry[m][n].state = "Decommissioned"
           => registry'[m][n].state = "Decommissioned"]_provisionVars
  BY ProvisionStep DEF Follow, Follows
<1> QED
  BY <1>1, <1>2, <1>3, PTL DEF ProvisionSpec, DecommissionedStays
===============================================================================
