--------------------------- MODULE MCVmProvision ---------------------------
(* Model of VmProvision: two hypervisors and two requests. *)
EXTENDS VmProvision
=============================================================================
