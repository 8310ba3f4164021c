--------------------------- MODULE MCOverlayNode ---------------------------
(* Model of OverlayNode: two local VMs, one remote VM and two other hypervisors. *)
EXTENDS OverlayNode
=============================================================================
