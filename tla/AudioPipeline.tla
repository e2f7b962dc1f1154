--------------------------- MODULE AudioPipeline ---------------------------
(* From the sound devices to the encoded audio (src/src/core/audio).         *)
(*                                                                           *)
(* RtAudio calls back on a thread of its own for each open stream; the       *)
(* callback queues the frame under the id of the device. The mixing thread   *)
(* waits until every queue has a frame, takes one from each, adds them up    *)
(* and encodes the sum. start() opens the streams before it starts the       *)
(* mixer and lets callbacks in last; stop() goes the same way and then joins *)
(* the mixer, wherever it waits, and clears the buffer.                      *)
(*                                                                           *)
(* Time is counted in frames. A frame is its moment, since callbacks were    *)
(* let in, and what its device had lost before it: nothing of a frame says   *)
(* in the code when it was recorded. Queues are Fifos (ReaderWriterQueue).   *)
(* The sound is mono (the default, AudioConfig.hpp:13).                      *)
EXTENDS Integers, SequencesExt

CONSTANTS
    MaxFrames,     \* bound on the frames a device records
    MaxLosses,     \* bound on those it loses
    Capacity,      \* seconds * sample rate / frame size, the buffer's capacity_
    MaxFailures    \* bound on frames that fail to encode

ASSUME AudioAssumption ==
    MaxFrames \in Nat /\ MaxLosses \in Nat /\ Capacity \in Nat /\ MaxFailures \in Nat

VARIABLES
    owner,          \* where the thread that calls start() and stop() is
    mic,            \* mic_device_id_; system_device_id_ is SystemId
    queues,         \* audio_streams_: a queue for each registered device id
    stream,         \* of the RtAudio streams: "closed", "open" or "running"
    callback,       \* "idle", or "in": beyond the is_capturing_ test
    captured,       \* history: frames each stream's device has recorded
    lost,           \* history: those of them that were never queued
    is_capturing,
    mixer,          \* where the mixing thread is
    mixer_stop,     \* its stop token
    mix,            \* current_frames: by device id, of the queues that had one
    pts,            \* pts_
    codec,          \* codec_ctx_ is set
    inside,         \* times of the frames the codec has accepted and not given back
    buffer,         \* audio_buffer_: the times of the packets
    failures        \* history: frames that failed to encode

streamVars == <<stream, callback, captured, lost, queues>>
codecVars == <<pts, codec, inside, buffer, failures>>
mixerVars == <<mixer, mix, codecVars>>
ownerVars == <<owner, mic, is_capturing, mixer_stop>>
vars == <<ownerVars, streamVars, mixerVars>>

Streams == {"system", "mic"}

NoDevice == -1
SystemId == 1

(* The device id a stream queues its frames under. *)
Id(s) == IF s = "system" THEN SystemId ELSE mic

Registered == DOMAIN queues

----------------------------------------------------------------------------
(* Starting                                                                  *)

(* find_loopback_device: the ids are unsigned, so that there always is one.  *)
(* find_microphone_device: another one, the same one, or none with inputs.   *)
Microphones == {NoDevice, SystemId, SystemId + 1}

(* Slip: the microphone gets a queue of its own although its stream will not *)
(* be opened.                                                                *)
DevicesByStream == IF mic = NoDevice THEN {SystemId} ELSE {SystemId, SystemId + 1}

(* add_stream refuses an id it has, so that one device has one queue. *)
Devices == {SystemId, mic} \ {NoDevice}

Init ==
    /\ owner = "created"
    /\ mic \in Microphones
    /\ queues = [id \in {} |-> <<>>]
    /\ stream = [s \in Streams |-> "closed"]
    /\ callback = [s \in Streams |-> "idle"]
    /\ captured = [s \in Streams |-> 0]
    /\ lost = [s \in Streams |-> 0]
    /\ is_capturing = FALSE
    /\ mixer = "none"
    /\ mixer_stop = FALSE
    /\ mix = << >>
    /\ pts = 0
    /\ codec = FALSE
    /\ inside = <<>>
    /\ buffer = <<>>
    /\ failures = 0

(* initialize: AudioEncoder::create, then the devices and their queues. *)
Initialize ==
    /\ owner = "created"
    /\ owner' = "initialized"
    /\ codec' = TRUE
    /\ queues' = [id \in Devices |-> <<>>]
    /\ UNCHANGED <<mic, is_capturing, mixer_stop, stream, callback, captured,
                   lost, mixer, mix, pts, inside, buffer, failures>>

(* A part of the encoder is missing or refuses the configuration: what was   *)
(* allocated is freed, and crash_error ends the process.                     *)
InitializeFails ==
    /\ owner = "created"
    /\ owner' = "crashed"
    /\ UNCHANGED <<mic, is_capturing, mixer_stop, streamVars, mixerVars>>

OpensStream(s) ==
    /\ stream' = [stream EXCEPT ![s] = "running"]
    /\ UNCHANGED <<mic, is_capturing, mixer_stop, callback, captured, lost, queues,
                   mixerVars>>

(* openStream and startStream, for the system's sound first. *)
StartSystem ==
    /\ owner = "initialized"
    /\ owner' = IF mic \notin {NoDevice, SystemId} THEN "startMic" ELSE "startMixer"
    /\ OpensStream("system")

StartMic ==
    /\ owner = "startMic"
    /\ owner' = "startMixer"
    /\ OpensStream("mic")

(* A stream cannot be opened, or not be started. The other stream is left    *)
(* running: the process ends with crash_error.                               *)
StartFails ==
    /\ owner \in {"initialized", "startMic"}
    /\ owner' = "crashed"
    /\ UNCHANGED <<mic, is_capturing, mixer_stop, streamVars, mixerVars>>

StartMixer ==
    /\ owner = "startMixer"
    /\ owner' = "letIn"
    /\ mixer' = "test"
    /\ UNCHANGED <<mic, is_capturing, mixer_stop, streamVars, mix, codecVars>>

LetCallbacksIn ==
    /\ owner = "letIn"
    /\ owner' = "running"
    /\ is_capturing' = TRUE
    /\ UNCHANGED <<mic, mixer_stop, streamVars, mixerVars>>

----------------------------------------------------------------------------
(* system_audio_callback, mic_audio_callback                                 *)

Records(s) ==
    /\ owner # "crashed"
    /\ stream[s] = "running"
    /\ callback[s] = "idle"
    /\ is_capturing
    /\ captured[s] < MaxFrames

(* A frame arrives. Before is_capturing_ is set it is ignored. *)
CallbackEnters(s) ==
    /\ Records(s)
    /\ callback' = [callback EXCEPT ![s] = "in"]
    /\ UNCHANGED <<ownerVars, stream, captured, lost, queues, mixerVars>>

FrameIsLost(s) ==
    /\ lost[s] < MaxLosses
    /\ lost' = [lost EXCEPT ![s] = @ + 1]
    /\ captured' = [captured EXCEPT ![s] = @ + 1]
    /\ UNCHANGED <<ownerVars, stream, queues, mixerVars>>

(* The device overflows before the callback reads it. The status of the next *)
(* call says so, which is logged and no more.                                *)
DeviceOverflows(s) == Records(s) /\ FrameIsLost(s) /\ UNCHANGED callback

CallbackReturns(s) ==
    /\ callback[s] = "in"
    /\ callback' = [callback EXCEPT ![s] = "idle"]

(* A callback without an input buffer queues nothing. *)
CallbackGetsNothing(s) == CallbackReturns(s) /\ FrameIsLost(s)

(* push_audio: enqueue allocates and does not refuse. *)
CallbackPushes(s) ==
    /\ CallbackReturns(s)
    /\ captured' = [captured EXCEPT ![s] = @ + 1]
    /\ queues' = [queues EXCEPT ![Id(s)] =
                     Append(@, [at |-> captured[s] + 1, lost |-> lost[s]])]
    /\ UNCHANGED <<ownerVars, stream, lost, mixerVars>>

----------------------------------------------------------------------------
(* The mixing thread                                                         *)

mixerFrame == <<ownerVars, stream, callback, captured, lost>>

MixerTest ==
    /\ mixer = "test"
    /\ mixer' = IF mixer_stop THEN "done" ELSE "wait"
    /\ UNCHANGED <<mixerFrame, queues, mix, codecVars>>

(* Slip: one queue with a frame in it is enough. *)
SomeReady == mixer_stop \/ \E id \in Registered : queues[id] # <<>>

(* Slip: only frames end the wait, not the stop token. *)
OnlyFramesEndIt == \A id \in Registered : queues[id] # <<>>

(* wait_for_all_stream polls until every queue has a frame, or until the     *)
(* thread is asked to stop.                                                  *)
AllReady == mixer_stop \/ \A id \in Registered : queues[id] # <<>>

(* What a frame taken from a queue leaves there. *)
LeftIn(id) == IF queues[id] = <<>> THEN <<>> ELSE Tail(queues[id])

MixerTakes ==
    /\ mixer = "wait"
    /\ AllReady
    /\ mixer' = "encode"
    /\ mix' = [id \in {i \in Registered : queues[i] # <<>>} |-> Head(queues[id])]
    /\ queues' = [id \in Registered |-> LeftIn(id)]
    /\ UNCHANGED <<mixerFrame, codecVars>>

EncodeReturns ==
    /\ mixer = "encode"
    /\ mixer' = "test"
    /\ mix' = << >>
    /\ UNCHANGED <<mixerFrame, queues>>

(* Slip: time passes for a frame that fails, too. *)
TimePassesAnyway ==
    /\ EncodeReturns
    /\ failures < MaxFailures
    /\ failures' = failures + 1
    /\ pts' = pts + 1
    /\ UNCHANGED buffer

EncodeFails ==
    /\ EncodeReturns
    /\ failures < MaxFailures
    /\ failures' = failures + 1
    /\ UNCHANGED <<pts, buffer>>

(* There is no frame, no conversion, no packet to be had, or the frame       *)
(* cannot be sent.                                                           *)
FrameIsNotSent == EncodeFails /\ UNCHANGED <<codec, inside>>

(* av_frame_get_buffer fails: encode_frame cleans up, codec and all. *)
CodecIsLost == EncodeFails /\ codec /\ codec' = FALSE /\ inside' = <<>>

(* From then on nothing is encoded. *)
NoCodec ==
    /\ EncodeReturns
    /\ ~codec
    /\ UNCHANGED codecVars

(* The times the codec has to give back once it has the mixed frame, whose   *)
(* time is pts_. The first frame becomes two packets: one of the padding the *)
(* codec puts before it, which it dates a frame earlier, and its own.        *)
IsFirst == inside = <<>>

WithMixed == IF IsFirst THEN <<pts - 1, pts>> ELSE Append(inside, pts)

(* avcodec_send_frame succeeds and avcodec_receive_packet does not. *)
ReceiveFails ==
    /\ EncodeFails
    /\ codec
    /\ inside' = WithMixed
    /\ UNCHANGED codec

(* AVERROR(EAGAIN): the codec keeps the first frame until it has another;    *)
(* pts_ stays, so that the next frame has the same time.                     *)
NoPacketYet ==
    /\ EncodeReturns
    /\ codec
    /\ IsFirst
    /\ inside' = WithMixed
    /\ UNCHANGED <<pts, codec, buffer, failures>>

PacketComesOut ==
    /\ EncodeReturns
    /\ codec
    /\ ~IsFirst
    /\ inside' = Tail(WithMixed)
    /\ pts' = pts + 1
    /\ buffer' = Append(IF Capacity > 0 /\ Len(buffer) >= Capacity
                        THEN Tail(buffer) ELSE buffer, Head(WithMixed))
    /\ UNCHANGED <<codec, failures>>

----------------------------------------------------------------------------
(* The ring and stopping                                                     *)

(* RollingSegment's thread clears the buffer after saving a segment from it. *)
TickClears ==
    /\ owner = "running"
    /\ buffer # <<>>
    /\ buffer' = <<>>
    /\ UNCHANGED <<ownerVars, streamVars, mixer, mix, pts, codec, inside, failures>>

StopStep(from, to) == owner = from /\ owner' = to /\ UNCHANGED <<mic, is_capturing>>

(* closeStream returns when no callback of the stream runs any more. *)
Close(s) ==
    /\ callback[s] = "idle"
    /\ stream' = [stream EXCEPT ![s] = "closed"]
    /\ UNCHANGED <<mixer_stop, callback, captured, lost, queues, mixerVars>>

CloseSystem == StopStep("running", "closeMic") /\ Close("system")

CloseMic == StopStep("closeMic", "stopMixer") /\ Close("mic")

(* mixer_thread_ = {}: asks the thread to stop, then waits for it. *)
StopMixer ==
    /\ StopStep("stopMixer", "joinMixer")
    /\ mixer_stop' = TRUE
    /\ UNCHANGED <<streamVars, mixerVars>>

(* Slip: the buffer is cleared without waiting for the mixing thread. *)
ClearsAtOnce ==
    /\ StopStep("joinMixer", "letOut")
    /\ buffer' = <<>>
    /\ UNCHANGED <<mixer_stop, streamVars, mixer, mix, pts, codec, inside, failures>>

JoinMixer ==
    /\ StopStep("joinMixer", "letOut")
    /\ mixer = "done"
    /\ buffer' = <<>>
    /\ UNCHANGED <<mixer_stop, streamVars, mixer, mix, pts, codec, inside, failures>>

LetCallbacksOut ==
    /\ owner = "letOut"
    /\ owner' = "stopped"
    /\ is_capturing' = FALSE
    /\ UNCHANGED <<mic, mixer_stop, streamVars, mixerVars>>

----------------------------------------------------------------------------
Starting ==
    \/ Initialize \/ InitializeFails \/ StartSystem \/ StartMic \/ StartFails
    \/ StartMixer \/ LetCallbacksIn

Encode ==
    \/ FrameIsNotSent \/ CodecIsLost \/ NoCodec \/ ReceiveFails \/ NoPacketYet
    \/ PacketComesOut

MixerStep == MixerTest \/ MixerTakes \/ Encode

FinishStop == CloseMic \/ StopMixer \/ JoinMixer \/ LetCallbacksOut

Next ==
    \/ Starting
    \/ \E s \in Streams :
         \/ CallbackEnters(s) \/ DeviceOverflows(s)
         \/ CallbackGetsNothing(s) \/ CallbackPushes(s)
    \/ MixerStep \/ TickClears \/ CloseSystem \/ FinishStop

(* Devices may fall silent for good; a callback, the mixing thread and a     *)
(* stop() that are under way go on.                                          *)
Fairness ==
    /\ \A s \in Streams : WF_vars(CallbackGetsNothing(s) \/ CallbackPushes(s))
    /\ WF_vars(MixerStep)
    /\ WF_vars(FinishStop)

Spec == Init /\ [][Next]_vars /\ Fairness

----------------------------------------------------------------------------
(* Properties                                                                *)

(* Frames that are mixed were recorded as far apart as what one device has   *)
(* lost more than the other before them: together if neither lost any, and   *)
(* however far one device is ahead of the other. A frame that is lost, by an *)
(* overflow or a call without a buffer, so shifts one sound against the      *)
(* other for good; nothing else does. No device is left out before stop()    *)
(* has closed all streams.                                                   *)
MixedInStep ==
    mixer = "encode" =>
        /\ DOMAIN mix = Registered \/ \A s \in Streams : stream[s] = "closed"
        /\ \A id, other \in DOMAIN mix :
              mix[id].at - mix[other].at = mix[id].lost - mix[other].lost

(* The times of the packets go up one by one. Only time 0, since the codec   *)
(* keeps the first frame back, and frames that fail to encode date two       *)
(* packets the same; nothing makes a gap, and no packet but the first is     *)
(* dated before 0. MuxLoop's audio snapshots rest on this.                   *)
Gapless ==
    /\ \A i \in 1 .. Len(buffer) : buffer[i] >= (IF i = 1 THEN -1 ELSE 0)
    /\ \A i \in 1 .. Len(buffer) - 1 :
          \/ buffer[i + 1] = buffer[i] + 1
          \/ buffer[i + 1] = buffer[i] /\ (buffer[i] = 0 \/ failures > 0)

(* After stop() neither a callback nor the mixing thread runs, and the last  *)
(* packet, mixed after the thread was asked to stop from whatever the queues *)
(* held, is not left in the buffer.                                          *)
QuietAfterStop ==
    owner = "stopped" =>
        /\ \A s \in Streams : stream[s] = "closed" /\ callback[s] = "idle"
        /\ mixer = "done" /\ buffer = <<>>

(* stop() returns even if a device has fallen silent and the mixing thread   *)
(* waits for it.                                                             *)
StopReturns == (owner = "closeMic") ~> (owner = "stopped")

(* Once each open stream has queued n frames, the n-th of each is mixed: the *)
(* mixer waits for the devices that were opened and for no other.            *)
DeliveredIsMixed ==
    \A n \in 1 .. MaxFrames :
        (\A s \in Streams : stream[s] = "running" => captured[s] - lost[s] >= n)
            /\ owner = "running"
        ~> \/ owner # "running"
           \/ \A id \in Registered : \A i \in DOMAIN queues[id] :
                 queues[id][i].at - queues[id][i].lost # n
=============================================================================
