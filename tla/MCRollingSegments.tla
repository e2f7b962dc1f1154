------------------------- MODULE MCRollingSegments -------------------------
(* Instances of RollingSegments for TLC.                                    *)
EXTENDS RollingSegments

MCCapacity == [s \in Streams |-> 2]
=============================================================================
