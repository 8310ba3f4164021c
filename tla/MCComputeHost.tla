--------------------------- MODULE MCComputeHost ---------------------------
(* Model of ComputeHost: two VMs on a host of two units. *)
EXTENDS ComputeHost
=============================================================================
