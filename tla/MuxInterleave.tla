--------------------------- MODULE MuxInterleave ---------------------------
(* What the merge loop of RollingSegment::save_av_to_ts leaves written of a *)
(* snapshot of nv video frames and one of na audio frames, for              *)
(* RollingSegments, which does not look at timestamps.                      *)
(*                                                                          *)
(* The loop writes the frame with the earlier timestamp and ends as soon as *)
(* EITHER snapshot is exhausted: what is left of the other one is never     *)
(* written. Which prefixes it passes through depends on the timestamps, on  *)
(* frames that were dropped and on times that repeat. MuxLoop.tla has the   *)
(* loop step by step, on any two snapshots the buffers can hold, and shows  *)
(* that it leaves none but these.                                           *)
EXTENDS Integers

(* The values <<video_idx, audio_idx>> takes. A frame is written only while *)
(* both snapshots have one, so not both are ever exhausted; the video       *)
(* starts at time zero or before, and only the first audio packet, the      *)
(* codec's priming, may be earlier.                                         *)
MuxPrefixes(nv, na) ==
    {p \in (0 .. nv) \X (0 .. na) :
        /\ p # <<nv, na>>
        /\ p[2] > 1 => p[1] > 0}
=============================================================================
