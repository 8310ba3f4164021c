----------------------------- MODULE OverlayNode -----------------------------
(***************************************************************************)
(* The data plane of one VPC on one hypervisor: the VXLAN and bridge that  *)
(* local VMs share, the FDB and ARP entries that lead to remote VMs, the   *)
(* wire to a peered VPC, and the three paths that keep them up to date:    *)
(* the steps of a VM's create and delete, the placement events of the      *)
(* state machine, and the periodic reconciliation (layers/overlay/src/     *)
(* fdb.rs, reconcile.rs, layers/compute/src/network_setup.rs, network.rs,  *)
(* layers/fabric/src/daemon.rs).                                           *)
(*                                                                         *)
(* The kernel is modelled as the code uses it: `bridge fdb add` fails for  *)
(* a MAC that has an entry or when the VXLAN is missing, deleting the      *)
(* VXLAN drops its entries, deleting the bridge detaches its interfaces.   *)
(* The placement table is the replica of this hypervisor.                  *)
(***************************************************************************)
EXTENDS Naturals, Sequences, FiniteSets

LOCAL INSTANCE SequencesExt

CONSTANTS
    LocalVms,       \* VMs created on this hypervisor
    RemoteVms,      \* VMs of the VPC that live elsewhere
    Local,          \* this hypervisor
    Others,         \* the other hypervisors
    ChannelLen,     \* capacity of the placement event channel
    MaxPlacements,  \* bound on placement commands and on local creates
    MaxChanges,     \* bound on peering changes, restarts and failures
    Absent

ASSUME OverlayAssumption ==
    /\ LocalVms \cap RemoteVms = {} /\ Local \notin Others
    /\ Absent \notin Others \cup {Local}
    /\ ChannelLen \in Nat \ {0} /\ {MaxPlacements, MaxChanges} \subseteq Nat

VARIABLES
    placed,    \* the placement table: the hypervisor of a VM, or Absent
    channel,   \* placement events not yet received: [what, vm, at]
    lagged,    \* the receiver has missed events
    bridge,    \* the bridge of the VPC exists
    vxlan,     \* the VXLAN of the VPC exists
    attached,  \* the local VMs whose interface is in the bridge
    fdb,       \* the hypervisor a remote VM's MAC leads to, or Absent
    arp,       \* the remote VMs with an ARP proxy entry
    step,      \* where a local VM's create or delete is
    last,      \* the deletes that counted no other VM on the bridge
    peered,    \* the VPC has an active peering
    wire,      \* the veth pair of the peering exists
    turn,      \* what the reconciliation pass does next
    placements, changes

overlayVars == <<placed, channel, lagged, bridge, vxlan, attached, fdb, arp, step, last,
                 peered, wire, turn, placements, changes>>
links == <<bridge, vxlan, attached>>
entries == <<fdb, arp>>
events == <<channel, lagged>>
counters == <<placements, changes>>

AllVms == LocalVms \cup RemoteVms

OverlayInit ==
    /\ placed = [v \in AllVms |-> Absent] /\ channel = <<>> /\ lagged = FALSE
    /\ bridge = FALSE /\ vxlan = FALSE /\ attached = {}
    /\ fdb = [v \in RemoteVms |-> Absent] /\ arp = {}
    /\ step = [v \in LocalVms |-> "none"] /\ last = {}
    /\ peered = FALSE /\ wire = FALSE /\ turn = "bridge" /\ placements = 0 /\ changes = 0

----------------------------------------------------------------------------
\* Placement commands, as this replica applies them.

Placement == placements < MaxPlacements /\ placements' = placements + 1 /\ UNCHANGED changes
Change == changes < MaxChanges /\ changes' = changes + 1 /\ UNCHANGED placements

\* The broadcast channel drops its oldest event when it is full.
Send(es) ==
    LET all == channel \o es
        over == Len(all) - ChannelLen
    IN /\ channel' = IF over > 0 THEN SubSeq(all, over + 1, Len(all)) ELSE all
       /\ lagged' = (lagged \/ over > 0)

PlaceVm(v, h) ==
    /\ Placement /\ placed' = [placed EXCEPT ![v] = h]
    /\ Send(<<[what |-> "Added", vm |-> v, at |-> h]>>)
    /\ UNCHANGED <<links, entries, step, last, peered, wire, turn>>

RemoveVm(v) ==
    /\ placed[v] # Absent /\ Placement /\ placed' = [placed EXCEPT ![v] = Absent]
    /\ Send(<<[what |-> "Removed", vm |-> v, at |-> placed[v]]>>)
    /\ UNCHANGED <<links, entries, step, last, peered, wire, turn>>

\* Rescheduling rewrites the record and emits no event.
RescheduleVm(v, h) ==
    /\ placed[v] # Absent /\ Placement /\ placed' = [placed EXCEPT ![v] = h]
    /\ UNCHANGED <<links, entries, events, step, last, peered, wire, turn>>

\* A snapshot that is installed announces every placement once more.
InstallSnapshot ==
    /\ Change
    /\ \E order \in SetToSeqs({v \in AllVms : placed[v] # Absent}) :
         Send([i \in DOMAIN order |-> [what |-> "Added", vm |-> order[i], at |-> placed[order[i]]]])
    /\ UNCHANGED <<placed, links, entries, step, last, peered, wire, turn>>

----------------------------------------------------------------------------
\* FDB and ARP entries.

Remote(v) == v \in RemoteVms /\ placed[v] \notin {Absent, Local}

\* Adds entries for the VMs of `at`; an entry that exists makes the command
\* fail, and then the ARP entry is not written either.
AddEntries(at) ==
    LET new == {v \in DOMAIN at : vxlan /\ fdb[v] = Absent}
    IN /\ fdb' = [v \in RemoteVms |-> IF v \in new THEN at[v] ELSE fdb[v]]
       /\ arp' = arp \cup new

RemoveEntries(v) ==
    /\ fdb' = [fdb EXCEPT ![v] = Absent]
    /\ arp' = IF vxlan /\ fdb[v] # Absent THEN arp \ {v} ELSE arp

\* Every placement on another hypervisor.
RebuildFdb == AddEntries([v \in {w \in RemoteVms : Remote(w)} |-> placed[v]])

\* The event of a remote VM changes its entries; that of a local VM adds the
\* entries of all remote ones, for the VXLAN may be new.
SyncPlacement(e) ==
    CASE e.at # Local /\ e.what = "Added" -> AddEntries([v \in {e.vm} \cap RemoteVms |-> e.at])
      [] e.at # Local /\ e.what = "Removed" -> RemoveEntries(e.vm)
      [] e.at = Local /\ e.what = "Added" -> RebuildFdb
      [] OTHER -> UNCHANGED entries

\* One turn of the receiving task.
Receive ==
    /\ \/ lagged /\ lagged' = FALSE /\ RebuildFdb /\ UNCHANGED channel
       \/ /\ ~lagged /\ channel # <<>> /\ channel' = Tail(channel) /\ UNCHANGED lagged
          /\ SyncPlacement(Head(channel))
    /\ UNCHANGED <<placed, links, step, last, peered, wire, turn, counters>>

----------------------------------------------------------------------------
\* The network steps of a local VM's create and delete.

CreateLinks(v) ==
    /\ step[v] = "none" /\ Placement /\ step' = [step EXCEPT ![v] = "tap"]
    /\ vxlan' = TRUE /\ bridge' = TRUE
    /\ UNCHANGED <<placed, events, attached, entries, last, peered, wire, turn>>

AttachTap(v) ==
    /\ step[v] = "tap" /\ bridge /\ step' = [step EXCEPT ![v] = "place"]
    /\ attached' = attached \cup {v}
    /\ UNCHANGED <<placed, events, bridge, vxlan, entries, last, peered, wire, turn, counters>>

\* Attaching fails, or a later command does: the create is given up and
\* what was made stays.
SetupFails(v) ==
    /\ step[v] \in {"tap", "place"} /\ step' = [step EXCEPT ![v] = "none"] /\ Change
    /\ UNCHANGED <<placed, events, links, entries, last, peered, wire, turn>>

StorePlacement(v) ==
    /\ step[v] = "place" /\ step' = [step EXCEPT ![v] = "up"]
    /\ placed' = [placed EXCEPT ![v] = Local]
    /\ Send(<<[what |-> "Added", vm |-> v, at |-> Local]>>)
    /\ UNCHANGED <<links, entries, last, peered, wire, turn, counters>>

Unplace(v) ==
    /\ step[v] = "up" /\ step' = [step EXCEPT ![v] = "count"]
    /\ placed' = [placed EXCEPT ![v] = Absent]
    /\ UNCHANGED <<events, links, entries, last, peered, wire, turn, counters>>

\* The VMs that remain are counted by their placements, remote ones included.
CountVms(v) ==
    /\ step[v] = "count" /\ step' = [step EXCEPT ![v] = "clean"]
    /\ last' = IF \E w \in AllVms : placed[w] # Absent THEN last ELSE last \cup {v}
    /\ UNCHANGED <<placed, events, links, entries, peered, wire, turn, counters>>

CleanLinks(v) ==
    /\ step[v] = "clean" /\ step' = [step EXCEPT ![v] = "none"] /\ last' = last \ {v}
    /\ IF v \in last
       THEN /\ bridge' = FALSE /\ vxlan' = FALSE /\ attached' = {}
            /\ fdb' = [w \in RemoteVms |-> Absent] /\ arp' = {}
       ELSE attached' = attached \ {v} /\ UNCHANGED <<bridge, vxlan, entries>>
    /\ UNCHANGED <<placed, events, peered, wire, turn, counters>>

----------------------------------------------------------------------------
\* The reconciliation pass, every thirty seconds, and a restart.

ChangePeering ==
    /\ Change /\ peered' = ~peered
    /\ UNCHANGED <<placed, events, links, entries, step, last, wire, turn>>

CheckBridges_Skip ==
    /\ turn = "bridge" /\ turn' = "peering"
    /\ UNCHANGED <<placed, events, links, entries, step, last, peered, wire, counters>>
\* A bridge is expected where a VM is placed here, and only the bridge is made.
CheckBridges ==
    /\ turn = "bridge" /\ turn' = "peering"
    /\ bridge' = (bridge \/ \E v \in AllVms : placed[v] = Local)
    /\ UNCHANGED <<placed, events, vxlan, attached, entries, step, last, peered, wire, counters>>

ReconcilePeerings_AddOnly ==
    /\ turn = "peering" /\ turn' = "fdb" /\ wire' = (wire \/ (peered /\ bridge))
    /\ UNCHANGED <<placed, events, links, entries, step, last, peered, counters>>
\* A peering is wired once its bridges exist; a wire no peering asks for goes.
ReconcilePeerings ==
    /\ turn = "peering" /\ turn' = "fdb" /\ wire' = (peered /\ (wire \/ bridge))
    /\ UNCHANGED <<placed, events, links, entries, step, last, peered, counters>>

ReconcileFdb_Skip ==
    /\ turn = "fdb" /\ turn' = "bridge"
    /\ UNCHANGED <<placed, events, links, entries, step, last, peered, wire, counters>>
ReconcileFdb ==
    /\ turn = "fdb" /\ turn' = "bridge" /\ RebuildFdb
    /\ UNCHANGED <<placed, events, links, step, last, peered, wire, counters>>

\* The events and the requests of the daemon are lost, the kernel's state is
\* not, and the start rebuilds the entries.
RestartDaemon ==
    /\ Change /\ channel' = <<>> /\ lagged' = FALSE /\ RebuildFdb
    /\ step' = [v \in LocalVms |-> IF step[v] = "up" THEN "up" ELSE "none"]
    /\ last' = {} /\ turn' = "bridge"
    /\ UNCHANGED <<placed, links, peered, wire>>

Pass == CheckBridges \/ ReconcilePeerings \/ ReconcileFdb

OverlayNext ==
    \/ \E v \in RemoteVms : RemoveVm(v) \/ \E h \in Others : PlaceVm(v, h) \/ RescheduleVm(v, h)
    \/ \E v \in LocalVms : \/ CreateLinks(v) \/ AttachTap(v) \/ SetupFails(v) \/ StorePlacement(v)
                           \/ Unplace(v) \/ CountVms(v) \/ CleanLinks(v)
    \/ InstallSnapshot \/ Receive \/ ChangePeering \/ Pass \/ RestartDaemon

OverlaySpec == OverlayInit /\ [][OverlayNext]_overlayVars

\* The reconciliation pass is a loop with a timer, the receiver a task of its own.
FairOverlaySpec == OverlaySpec /\ WF_overlayVars(Pass) /\ WF_overlayVars(Receive)

----------------------------------------------------------------------------
\* Once the placements settle, every remote VM has an FDB entry wherever the
\* VXLAN exists, although events are dropped, arrive before the VXLAN or are
\* overtaken by a late removal (daemon.rs FDB task and reconciliation).
RemoteReachable ==
    <>[](\A v \in RemoteVms : vxlan /\ placed[v] # Absent => fdb[v] # Absent)

\* A bridge that a concurrent delete or a failure took from under placed VMs
\* comes back (reconcile.rs check_bridges).
BridgeReturns ==
    <>[]((\E v \in LocalVms : placed[v] = Local) => bridge)

\* The wire of a peering follows the peering (reconcile.rs reconcile_peerings).
WireFollowsPeering ==
    <>[]((wire => peered) /\ (peered /\ bridge => wire))
=============================================================================
