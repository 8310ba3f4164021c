----------------------------- MODULE MCGcWorker -----------------------------
(* Small instances of GcWorker for TLC.                                    *)
EXTENDS GcWorker, TLC

CONSTANTS v1, a, b

\* Both SSTs were written under the first generation of the volume.
MCOrigin == [x \in Ssts |-> [vol |-> v1, gen |-> 1]]

MCNoQuotas == {}
=============================================================================
