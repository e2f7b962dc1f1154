-------------------------- MODULE MCMediaRecorder --------------------------
(* Instances of MediaRecorder for TLC.                                      *)
EXTENDS MediaRecorder

MCCapacity == [s \in Streams |-> 1]
=============================================================================
