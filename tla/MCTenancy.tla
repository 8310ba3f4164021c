------------------------------ MODULE MCTenancy ------------------------------
(* Instances of Tenancy for TLC.                                             *)
EXTENDS Tenancy, TLC

\* Two neighbouring /24.
MCVpcCidrs == {{0, 1}, {2, 3}}

\* Names of VPCs are only compared for equality.
VpcSymmetry == Permutations(VpcNames)
=============================================================================
