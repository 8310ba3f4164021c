-------------------------- MODULE MCControlCluster --------------------------
(* Model of ControlCluster: a founder and the nodes that join it. *)
EXTENDS ControlCluster
=============================================================================
