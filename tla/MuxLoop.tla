------------------------------ MODULE MuxLoop ------------------------------
(* The merge loop of RollingSegment::save_av_to_ts, iteration by iteration,  *)
(* on any two snapshots the buffers can hold: it rebases the timestamps,     *)
(* writes the earlier frame, and stops at the end of either snapshot or at   *)
(* a packet that cannot be written. MuxInterleave.tla states what            *)
(* RollingSegments uses of it.                                               *)
(* Definitions marked "Slip:" are plausible errors, used by no specification:*)
(* substituted for the definition they precede, each breaks a property.      *)
EXTENDS MuxInterleave, Sequences, SequencesExt

CONSTANTS
    VideoTicks,    \* duration of a video frame, in a unit common to both streams
    AudioTicks,    \* duration of an encoded audio frame, in the same unit
    MaxSnapshot,   \* bound on the frames of a snapshot
    MaxStart       \* bound on the first timestamp of a snapshot

ASSUME TicksAssumption ==
    VideoTicks \in Nat \ {0} /\ AudioTicks \in Nat \ {0}

ASSUME SnapshotAssumption == MaxSnapshot \in Nat /\ MaxStart \in Nat

VARIABLES
    video, audio,            \* the pts_ of the snapshots, in frame durations
    video_idx, audio_idx,    \* frames written so far
    written,                 \* the packets written, with their rebased time
    pc                       \* "loop", then "trailer"

vars == <<video, audio, video_idx, audio_idx, written, pc>>

(* Timestamps count frames. Video frames dropped before the encoder leave   *)
(* gaps. The mixer's pts_ advances by one frame per packet, so audio has    *)
(* none; a time repeats where a frame gave no packet, and the codec's       *)
(* priming packet precedes zero.                                            *)
VideoSnapshots ==
    {s \in UNION {[1 .. n -> 0 .. MaxStart + 2 * n] : n \in 1 .. MaxSnapshot} :
        /\ s[1] <= MaxStart
        /\ \A i \in 1 .. Len(s) - 1 : s[i + 1] - s[i] \in {1, 2}}

AudioSnapshots ==
    {s \in UNION {[1 .. n -> -1 .. MaxStart + n] : n \in 1 .. MaxSnapshot} :
        /\ s[1] <= MaxStart
        /\ \A i \in 1 .. Len(s) - 1 : s[i + 1] >= 0 /\ s[i + 1] - s[i] \in {0, 1}}

Init ==
    /\ video \in VideoSnapshots
    /\ audio \in AudioSnapshots
    /\ video_idx = 0
    /\ audio_idx = 0
    /\ written = <<>>
    /\ pc = "loop"

----------------------------------------------------------------------------
(* Slip: the snapshots are not rebased. *)
NoDiff(frames) == 0

(* video_frames_diff, audio_frames_diff: what makes the last frame of an    *)
(* n-frame snapshot number n - 1, unless that would move it later.          *)
Diff(frames) ==
    LET d == Last(frames) - (Len(frames) - 1) IN IF d < 0 THEN 0 ELSE d

VideoTime(i) == (video[i] - Diff(video)) * VideoTicks
AudioTime(i) == (audio[i] - Diff(audio)) * AudioTicks

(* Slip: the streams are swapped in the comparison. *)
AudioIsNext ==
    AudioTime(audio_idx + 1) <= VideoTime(video_idx + 1)

(* Slip: the timestamps are compared before they are rebased. *)
VideoIsNextRaw ==
    video[video_idx + 1] * VideoTicks <= audio[audio_idx + 1] * AudioTicks

(* Slip: a tie goes to the audio frame. *)
VideoIsStrictlyNext ==
    VideoTime(video_idx + 1) < AudioTime(audio_idx + 1)

VideoIsNext ==
    VideoTime(video_idx + 1) <= AudioTime(audio_idx + 1)

BothHaveMore == video_idx < Len(video) /\ audio_idx < Len(audio)

WriteVideo ==
    /\ pc = "loop" /\ BothHaveMore /\ VideoIsNext
    /\ written' = Append(written, VideoTime(video_idx + 1))
    /\ video_idx' = video_idx + 1
    /\ UNCHANGED <<video, audio, audio_idx, pc>>

WriteAudio ==
    /\ pc = "loop" /\ BothHaveMore /\ ~VideoIsNext
    /\ written' = Append(written, AudioTime(audio_idx + 1))
    /\ audio_idx' = audio_idx + 1
    /\ UNCHANGED <<video, audio, video_idx, pc>>

(* write_packet_to_stream fails, for a packet of either stream *)
WriteFails ==
    /\ pc = "loop" /\ BothHaveMore
    /\ pc' = "trailer"
    /\ UNCHANGED <<video, audio, video_idx, audio_idx, written>>

LoopEnds ==
    /\ pc = "loop" /\ ~BothHaveMore
    /\ pc' = "trailer"
    /\ UNCHANGED <<video, audio, video_idx, audio_idx, written>>

Next == WriteVideo \/ WriteAudio \/ WriteFails \/ LoopEnds

Spec == Init /\ [][Next]_vars

----------------------------------------------------------------------------
(* Properties                                                               *)

(* The type invariant. *)
TypeOK ==
    /\ video_idx \in 0 .. Len(video)
    /\ audio_idx \in 0 .. Len(audio)
    /\ written \in Seq(Int)
    /\ pc \in {"loop", "trailer"}

(* What RollingSegments takes of the loop is right, whatever was dropped or *)
(* dated twice and wherever the loop is cut short: it never exhausts both   *)
(* snapshots, and writes no second audio packet before a video frame.       *)
LeavesMuxPrefix == <<video_idx, audio_idx>> \in MuxPrefixes(Len(video), Len(audio))

(* Packets reach the muxer in the order of their rebased times, whatever   *)
(* the gaps and whichever stream they are from.                            *)
WrittenInOrder ==
    \A i \in 1 .. Len(written) - 1 : written[i] <= written[i + 1]

(* What the loop leaves unwritten is a tail: none of it is earlier than    *)
(* anything written, so no segment has a hole, only a missing end.         *)
OnlyTailLost ==
    \A t \in ToSet(written) :
        /\ \A i \in video_idx + 1 .. Len(video) : t <= VideoTime(i)
        /\ \A i \in audio_idx + 1 .. Len(audio) : t <= AudioTime(i)

(* The frames missing between the first and the last of a snapshot;         *)
(* negative if some are dated twice.                                        *)
Missing(s) == Last(s) - s[1] - (Len(s) - 1)

(* How far apart the streams of a segment start, whenever the two encoders  *)
(* began to count: both at time zero if nothing is missing; otherwise the   *)
(* video early by the frames that were dropped, the audio late by the times *)
(* that repeat, unless the clamp keeps its own time.                        *)
StartApartByLosses ==
    /\ VideoTime(1) = (-Missing(video)) * VideoTicks
    /\ AudioTime(1) = (IF Last(audio) < Len(audio) - 1
                       THEN audio[1] ELSE -Missing(audio)) * AudioTicks
=============================================================================
