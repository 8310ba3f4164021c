----------------------------- MODULE MCVpcNetwork -----------------------------
(* Instances of VpcNetwork for TLC.                                          *)
EXTENDS VpcNetwork, TLC

CONSTANTS v1, v2

\* Every VPC is a /23, or the smallest that holds a subnet, a /24.
MCSlash23 == {0, 1, 2, 3}
MCSlash24 == {0, 1}
MCSlash23s == {MCSlash23}
MCSlash24s == {MCSlash24}

\* The upper /25 of the first /24: asked for as a subnet, and as a destination.
MCUpperHalf == {{1}}

\* The name v2 ends in "-default" and belongs to project p.
MCDefaultOwner == v2 :> <<1, "p">>

\* Names of subnets are only compared for equality.
SubnetSymmetry == Permutations(SubnetNames)
=============================================================================
