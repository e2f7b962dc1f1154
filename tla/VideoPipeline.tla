--------------------------- MODULE VideoPipeline ---------------------------
(* From the screen to the encoded frames (src/src/core/video, with the      *)
(* X11 capture of src/src/platform/ScreenRecorderLinux.cpp).                *)
(*                                                                          *)
(* The capture thread numbers each frame and offers it to a bounded queue,  *)
(* which drops it when full. The encoding thread takes frames out, encodes  *)
(* them and pushes what comes out into a CircularBuffer; an encoder may     *)
(* keep frames for a while and returns at most one per call. stop() joins   *)
(* the capture thread, then the encoding thread, which first encodes what   *)
(* is left in the queue, and then clears the buffer.                        *)
(*                                                                          *)
(* A frame is its timestamp. *)
EXTENDS Integers, SequencesExt

CONSTANTS
    MaxPts,      \* bound on the frames the capture thread numbers
    QueueSize,   \* frames try_enqueue accepts without allocating, 1024 or more
    Capacity,    \* recording_length_seconds_ * fps_, the buffer's capacity_
    MaxDelay     \* frames the codec may hold back

ASSUME PipelineAssumption ==
    /\ MaxPts \in Nat
    /\ QueueSize \in Nat \ {0}
    /\ Capacity \in Nat
    /\ MaxDelay \in Nat

VARIABLES
    owner,     \* where the thread that calls start() and stop() is
    stops,     \* the threads whose stop token is set
    capture,   \* where the capture thread record_thread_ is
    encoder,   \* where the encoding thread encoding_thread_ is
    pts,       \* last_frame_pts_
    keeps,     \* the captured image outlives capture_frame (SHM or rotated)
    last,      \* what last_frame_ points to
    queue,     \* frame_queue_
    held,      \* the frame encode_frame is called with, if any
    inside,    \* frames the codec has accepted and not given back
    buffer,    \* encoded_buffer_
    newest,    \* history: the last frame pushed into the buffer
    lost,      \* history: frames dropped at the queue or by the codec
    garbage    \* history: frames whose bytes no capture has produced

captureVars == <<capture, pts, last, garbage>>
encoderVars == <<encoder, held, inside, newest>>
vars == <<owner, stops, capture, encoder, pts, keeps, last, queue, held,
          inside, buffer, newest, lost, garbage>>

Threads == {"capture", "encoder"}

----------------------------------------------------------------------------
(* How images will be captured: through SHM or not, rotated or not. *)
InitPlatform == keeps \in BOOLEAN

(* After initialize(). No constructor sets last_frame_. *)
Init ==
    /\ owner = "initialized"
    /\ stops = {}
    /\ capture = "none"
    /\ encoder = "none"
    /\ pts = 0
    /\ InitPlatform
    /\ last = "unset"
    /\ queue = <<>>
    /\ held = <<>>
    /\ inside = <<>>
    /\ buffer = <<>>
    /\ newest = -1
    /\ lost = {}
    /\ garbage = {}

Start ==
    /\ owner = "initialized"
    /\ owner' = "running"
    /\ capture' = "test"
    /\ encoder' = "test"
    /\ UNCHANGED <<stops, pts, keeps, last, queue, held, inside, buffer,
                   newest, lost, garbage>>

----------------------------------------------------------------------------
(* The capture thread                                                       *)

(* while (!st.stop_requested()), after the sleep that keeps the frame rate *)
CaptureTest ==
    /\ capture = "test"
    /\ capture' = IF "capture" \in stops THEN "done" ELSE "grab"
    /\ UNCHANGED <<owner, stops, pts, keeps, last, garbage, queue, buffer, lost,
                   encoderVars>>

(* get_next_frame_pts, then push_frame: a frame that finds the queue full is *)
(* dropped, with its timestamp.                                              *)
PushFrame ==
    /\ pts < MaxPts
    /\ pts' = pts + 1
    /\ IF Len(queue) < QueueSize
       THEN queue' = Append(queue, pts) /\ UNCHANGED lost
       ELSE lost' = lost \cup {pts} /\ UNCHANGED queue

(* An image was captured. Without SHM and rotation, XDestroyImage frees it *)
(* and last_frame_ dangles.                                                *)
CaptureFrame ==
    /\ capture = "grab"
    /\ capture' = "test"
    /\ PushFrame
    /\ last' = IF keeps THEN "held" ELSE "freed"
    /\ UNCHANGED <<owner, stops, keeps, garbage, buffer, encoderVars>>

(* No image, or not one of 32 bits per pixel: last_frame_ is pushed again.   *)
(* It may be unset or dangling and still not null: then other bytes are read. *)
CaptureReuses ==
    /\ capture = "grab"
    /\ capture' = "test"
    /\ PushFrame
    /\ garbage' = IF last = "held" THEN garbage ELSE garbage \cup {pts}
    /\ UNCHANGED <<owner, stops, keeps, last, buffer, encoderVars>>

(* No image, and an unset last_frame_ happens to be null; also once MaxPts *)
(* frames are numbered.                                                    *)
CaptureNothing ==
    /\ capture = "grab"
    /\ last = "unset" \/ pts = MaxPts
    /\ capture' = "test"
    /\ UNCHANGED <<owner, stops, pts, keeps, last, garbage, queue, buffer, lost,
                   encoderVars>>

(* The memory an unset or dangling last_frame_ points to is not mapped. *)
CaptureCrashes ==
    /\ capture = "grab"
    /\ last \in {"unset", "freed"}
    /\ owner' = "crashed"
    /\ capture' = "done"
    /\ encoder' = "done"
    /\ UNCHANGED <<stops, pts, keeps, last, queue, held, inside, buffer,
                   newest, lost, garbage>>

----------------------------------------------------------------------------
(* The encoding thread                                                      *)

(* Slip: the loop ends without the second one. *)
EncoderTestNoDrain ==
    /\ encoder = "test"
    /\ encoder' = IF "encoder" \in stops THEN "done" ELSE "take"
    /\ UNCHANGED <<owner, stops, keeps, captureVars, queue, held, inside,
                   buffer, newest, lost>>

EncoderTest ==
    /\ encoder = "test"
    /\ encoder' = IF "encoder" \in stops THEN "drain" ELSE "take"
    /\ UNCHANGED <<owner, stops, keeps, captureVars, queue, held, inside,
                   buffer, newest, lost>>

Taking == encoder \in {"take", "drain"} /\ held = <<>>

(* Slip: to catch up, only the latest frame is encoded. *)
EncoderTakesLatest ==
    /\ Taking
    /\ queue # <<>>
    /\ held' = <<Last(queue)>>
    /\ queue' = <<>>
    /\ UNCHANGED <<owner, stops, keeps, captureVars, encoder, inside, buffer,
                   newest, lost>>

(* try_dequeue *)
EncoderTakes ==
    /\ Taking
    /\ queue # <<>>
    /\ held' = <<Head(queue)>>
    /\ queue' = Tail(queue)
    /\ UNCHANGED <<owner, stops, keeps, captureVars, encoder, inside, buffer,
                   newest, lost>>

(* Nothing to take: sleep and test again, or leave the second loop. *)
EncoderFindsNone ==
    /\ Taking
    /\ queue = <<>>
    /\ encoder' = IF encoder = "take" THEN "test" ELSE "done"
    /\ UNCHANGED <<owner, stops, keeps, captureVars, queue, held, inside,
                   buffer, newest, lost>>

(* encode_frame returns, and the frame is done with. *)
Encoded ==
    /\ held # <<>>
    /\ encoder \in {"take", "drain"}
    /\ held' = <<>>
    /\ encoder' = IF encoder = "take" THEN "test" ELSE "drain"
    /\ UNCHANGED <<owner, stops, keeps, captureVars, queue>>

(* avcodec_send_frame fails. *)
SendFails ==
    /\ Encoded
    /\ lost' = lost \cup ToSet(held)
    /\ UNCHANGED <<inside, buffer, newest>>

(* The frame is sent and no packet is ready: an error to the caller, but the *)
(* codec has the frame.                                                      *)
NoPacketYet ==
    /\ Encoded
    /\ Len(inside) < MaxDelay
    /\ inside' = inside \o held
    /\ UNCHANGED <<lost, buffer, newest>>

(* The frame is sent and the packet of the oldest one cannot be received. *)
ReceiveFails ==
    /\ Encoded
    /\ inside' = Tail(inside \o held)
    /\ lost' = lost \cup {Head(inside \o held)}
    /\ UNCHANGED <<buffer, newest>>

(* Slip: nothing is evicted. *)
PushUnbounded(p) == buffer' = Append(buffer, p)

(* CircularBuffer::push with enforce_capacity *)
Push(p) ==
    LET grown == Append(buffer, p)
    IN  buffer' = IF Capacity > 0 /\ Len(grown) > Capacity THEN Tail(grown)
                  ELSE grown

(* Slip: the packet is stamped with the timestamp of the frame just sent. *)
PacketStampedWithInput ==
    /\ Encoded
    /\ inside' = Tail(inside \o held)
    /\ Push(held[1])
    /\ newest' = held[1]
    /\ UNCHANGED lost

(* The frame is sent, and the packet of the oldest frame inside comes out. *)
PacketComesOut ==
    /\ Encoded
    /\ inside' = Tail(inside \o held)
    /\ Push(Head(inside \o held))
    /\ newest' = Head(inside \o held)
    /\ UNCHANGED lost

----------------------------------------------------------------------------
(* The ring and the owner                                                   *)

(* The tick thread, which MediaRecorder joins before it stops the recorder, *)
(* clears the buffer after it has saved a segment from it.                  *)
TickClears ==
    /\ owner = "running"
    /\ buffer # <<>>
    /\ buffer' = <<>>
    /\ UNCHANGED <<owner, stops, keeps, captureVars, encoderVars, queue, lost>>

StopStep(from, to) ==
    /\ owner = from
    /\ owner' = to
    /\ UNCHANGED <<keeps, captureVars, encoderVars, queue, lost>>

(* ScreenRecorderBase::stop *)
StopCapture ==
    /\ StopStep("running", "joinCapture")
    /\ stops' = stops \cup {"capture"}
    /\ UNCHANGED buffer

(* Slip: the capture thread is not waited for. *)
LeaveCapture == StopStep("joinCapture", "stopEncoder") /\ UNCHANGED <<stops, buffer>>

JoinCapture ==
    /\ StopStep("joinCapture", "stopEncoder")
    /\ capture = "done"
    /\ UNCHANGED <<stops, buffer>>

(* Slip: joined without being asked to stop. *)
StopEncoderUnasked ==
    /\ StopStep("stopEncoder", "joinEncoder")
    /\ UNCHANGED <<stops, buffer>>

(* VideoEncoderQueue::stop *)
StopEncoder ==
    /\ StopStep("stopEncoder", "joinEncoder")
    /\ stops' = stops \cup {"encoder"}
    /\ UNCHANGED buffer

JoinEncoder ==
    /\ StopStep("joinEncoder", "clear")
    /\ encoder = "done"
    /\ UNCHANGED <<stops, buffer>>

ClearFrames ==
    /\ StopStep("clear", "stopped")
    /\ buffer' = <<>>
    /\ UNCHANGED stops

----------------------------------------------------------------------------
CaptureStep == CaptureTest \/ CaptureFrame \/ CaptureReuses \/ CaptureNothing
               \/ CaptureCrashes

EncodeStep == SendFails \/ NoPacketYet \/ ReceiveFails \/ PacketComesOut

EncoderStep == EncoderTest \/ EncoderTakes \/ EncoderFindsNone \/ EncodeStep

FinishStop == JoinCapture \/ StopEncoder \/ JoinEncoder \/ ClearFrames

Next == Start \/ CaptureStep \/ EncoderStep \/ TickClears \/ StopCapture
        \/ FinishStop

(* Threads that can run do: the two loops, and a stop() once called. *)
Fairness == WF_vars(CaptureStep) /\ WF_vars(EncoderStep) /\ WF_vars(FinishStop)

Spec == Init /\ [][Next]_vars /\ Fairness

----------------------------------------------------------------------------
(* Properties                                                               *)

Pts == 0 .. MaxPts - 1

TypeOK ==
    /\ owner \in {"initialized", "running", "joinCapture", "stopEncoder",
                  "joinEncoder", "clear", "stopped", "crashed"}
    /\ stops \subseteq Threads
    /\ capture \in {"none", "test", "grab", "done"}
    /\ encoder \in {"none", "test", "take", "drain", "done"}
    /\ pts \in 0 .. MaxPts
    /\ keeps \in BOOLEAN
    /\ last \in {"unset", "held", "freed"}
    /\ \A line \in {queue, held, inside, buffer} : line \in Seq(Pts)
    /\ Len(queue) <= QueueSize /\ Len(held) <= 1 /\ Len(inside) <= MaxDelay
    /\ newest \in Pts \cup {-1}
    /\ lost \subseteq Pts /\ garbage \subseteq Pts

(* All frames on their way, the oldest first. *)
Line == buffer \o inside \o held \o queue

(* Wherever a frame is, everything behind it is later: neither drops, nor   *)
(* the codec's delay, nor a packet that follows failed ones, lets a segment *)
(* get a timestamp that goes backwards or occurs twice.                     *)
InOrder ==
    /\ \A i, j \in 1 .. Len(Line) : i < j => Line[i] < Line[j]
    /\ \A i \in 1 .. Len(Line) : Line[i] < pts

(* A hole in the timestamps is a frame that was dropped or failed: from the *)
(* oldest frame in the buffer on, every number the capture thread has taken *)
(* is on its way or accounted as lost, and not both.                        *)
HolesAreLosses ==
    /\ ToSet(Line) \cap lost = {}
    /\ Line # <<>> => (Head(Line) .. pts - 1) \subseteq ToSet(Line) \cup lost

(* After stop() has returned there is no thread left to put anything into    *)
(* the queue or the buffer, and nothing in them: the encoding thread stops   *)
(* after the last frame has been enqueued, and the clear comes after both.   *)
QuietAfterStop ==
    owner = "stopped" =>
        /\ capture = "done" /\ encoder = "done"
        /\ queue = <<>> /\ held = <<>> /\ buffer = <<>>

(* Every frame that found room in the queue reaches the codec, also when     *)
(* stop() is called first, unless the process crashes.                       *)
QueuedFramesAreEncoded ==
    \A p \in Pts : p \in ToSet(queue) ~>
                       (p \notin ToSet(queue \o held) \/ owner = "crashed")

(* stop() returns: it waits for one pass of the capture loop and for as many *)
(* calls of the encoder as there are frames in the queue.                    *)
StopReturns == (owner = "joinCapture") ~> (owner \in {"stopped", "crashed"})

(* The buffer is a FrameFeed: the promise RollingSegments builds on. *)
Feed == INSTANCE FrameFeed WITH window <- buffer

FeedsTheRing == Feed!Spec

(* "If we have a previous frame, re-encode it" (ScreenRecorderLinux.cpp:250): *)
(* what is encoded was captured.                                              *)
EncodesOnlyCaptured == garbage = {}
=============================================================================
