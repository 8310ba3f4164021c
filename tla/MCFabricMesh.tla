---------------------------- MODULE MCFabricMesh ----------------------------
(* Instances of FabricMesh for TLC.                                          *)
EXTENDS FabricMesh

CONSTANTS a, b, c

MCNodes == {a, b, c}
MCKeys == {<<a, 1>>, <<b, 1>>, <<c, 1>>}
MCMembers == {a, c}
=============================================================================
