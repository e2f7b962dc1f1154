------------------------ MODULE AudioPipelineProofs ------------------------
(* Proofs about AudioPipeline, for any number of frames, of losses and of   *)
(* failures, and any capacity of the buffer.                                *)
EXTENDS AudioPipeline, TLAPS

----------------------------------------------------------------------------
(* The inductive invariant                                                  *)

Owners == {"created", "initialized", "startMic", "startMixer", "letIn", "running",
           "closeMic", "stopMixer", "joinMixer", "letOut", "stopped", "crashed"}

Frames == [at : Nat, lost : Nat]

(* A frame's place among those its device queues. *)
Place(f) == f.at - f.lost

(* The type invariant. *)
TypeOK ==
    /\ owner \in Owners
    /\ mic \in Microphones
    /\ Registered \in {{}, Devices}
    /\ queues \in [Registered -> Seq(Frames)]
    /\ stream \in [Streams -> {"closed", "running"}]
    /\ callback \in [Streams -> {"idle", "in"}]
    /\ captured \in [Streams -> Nat]
    /\ lost \in [Streams -> Nat]
    /\ is_capturing \in BOOLEAN
    /\ mixer \in {"none", "test", "wait", "encode", "done"}
    /\ mixer_stop \in BOOLEAN
    /\ pts \in Nat
    /\ codec \in BOOLEAN
    /\ inside \in Seq(Int)
    /\ buffer \in Seq(Int)
    /\ failures \in Nat

(* The streams that are opened: a device that serves as both has one.       *)
Opened == {s \in Streams : s = "system" \/ mic \notin {NoDevice, SystemId}}

(* The order in which start() and stop() deal with streams and mixer.       *)
Control ==
    /\ owner = "created" => /\ \A s \in Streams : captured[s] = 0 /\ lost[s] = 0
                                                /\ stream[s] = "closed"
                           /\ pts = 0 /\ inside = <<>> /\ buffer = <<>>
    /\ owner \notin {"created", "crashed"} => Registered = Devices
    /\ owner = "startMic" => mic \notin {NoDevice, SystemId}
    /\ \A s \in Streams : stream[s] = "running" => s \in Opened /\ Registered = Devices
    /\ \A s \in Streams : callback[s] = "in" => stream[s] = "running"
    /\ owner \in {"closeMic", "stopMixer", "joinMixer", "letOut", "stopped"} =>
          stream["system"] = "closed"
    /\ owner \in {"stopMixer", "joinMixer", "letOut", "stopped"} => stream["mic"] = "closed"
    /\ mixer # "none" => owner \in {"letIn", "running", "closeMic", "stopMixer", "joinMixer",
                                    "letOut", "stopped"}
    /\ mixer_stop => owner \in {"joinMixer", "letOut", "stopped"}
    /\ owner \in {"letOut", "stopped"} => mixer = "done" /\ buffer = <<>>

(* The frames in a queue, from place k + 1 on. *)
InPlace(q, k) == \A i \in 1 .. Len(q) : Place(q[i]) = k + i

(* Every queue lacks the same k frames at its front, and holds the others   *)
(* its stream has queued.                                                   *)
Lacking(k) ==
    \A s \in Opened : Id(s) \in Registered =>
        /\ Len(queues[Id(s)]) = captured[s] - lost[s] - k
        /\ InPlace(queues[Id(s)], k)

(* The queues stay in step until the one round that stop() cuts short.      *)
InStep == (mixer_stop => mixer = "wait") => \E k \in Nat : Lacking(k)

(* A packet's time follows another's when f frames have failed to encode:   *)
(* the next one, or the same if any has failed or it is time 0.             *)
Follows(f, x, y) == y = x + 1 \/ (y = x /\ (x = 0 \/ f > 0))

GoesUp(f, s) == \A i \in 1 .. Len(s) - 1 : Follows(f, s[i], s[i + 1])

(* Only the first may be dated before 0. *)
Dated(s) == \A i \in 1 .. Len(s) : s[i] >= (IF i = 1 THEN -1 ELSE 0)

(* Gapless, from the buffer through the codec to pts_.                      *)
Times ==
    /\ GoesUp(failures, buffer) /\ GoesUp(failures, inside)
    /\ Dated(buffer) /\ Dated(inside)
    /\ buffer # <<>> /\ inside # <<>> =>
          Follows(failures, buffer[Len(buffer)], inside[1]) /\ inside[1] >= 0
    /\ codec /\ inside # <<>> => Follows(failures, inside[Len(inside)], pts)
    /\ codec /\ inside = <<>> => pts = 0
    /\ pts = 0 => buffer = <<>>

IInv == TypeOK /\ Control /\ InStep /\ MixedInStep /\ Times

----------------------------------------------------------------------------
LEMMA InitInv == Init => IInv
  <1> SUFFICES ASSUME Init PROVE IInv
    OBVIOUS
  <1>1. TypeOK
    <2>1. DOMAIN queues = {} /\ queues \in [{} -> Seq(Frames)]
      BY DEF Init
    <2>2. /\ stream \in [Streams -> {"closed", "running"}]
          /\ callback \in [Streams -> {"idle", "in"}]
          /\ captured \in [Streams -> Nat] /\ lost \in [Streams -> Nat]
      BY DEF Init
    <2>3. inside \in Seq(Int) /\ buffer \in Seq(Int)
      BY DEF Init
    <2> QED BY <2>1, <2>2, <2>3 DEF Init, TypeOK, Owners, Registered
  <1>2. Control
    BY DEF Init, Control, Registered, Streams
  <1>3. InStep /\ MixedInStep
    <2>1. \A s \in Opened : Id(s) \notin Registered
      BY DEF Init, Registered
    <2> QED BY <2>1 DEF Init, InStep, Lacking, MixedInStep
  <1>4. Times
    BY DEF Init, Times, GoesUp, Dated
  <1> QED BY <1>1, <1>2, <1>3, <1>4 DEF IInv

(* The steps of the mixing thread after it has taken frames. *)
LEMMA EncodeFrame ==
  ASSUME Encode
  PROVE  /\ mixer = "encode" /\ mixer' = "test"
         /\ UNCHANGED <<mixerFrame, queues>>
  BY DEF Encode, FrameIsNotSent, CodecIsLost, NoCodec, ReceiveFails, NoPacketYet,
         PacketComesOut, EncodeFails, EncodeReturns

(* The times in the codec with the mixed frame among them. *)
LEMMA WithMixedType ==
  ASSUME TypeOK
  PROVE  /\ WithMixed \in Seq(Int) /\ WithMixed # <<>>
         /\ Len(WithMixed) = IF inside = <<>> THEN 2 ELSE Len(inside) + 1
  <1>1. inside \in Seq(Int) /\ pts \in Int /\ pts - 1 \in Int
    BY DEF TypeOK
  <1>2. CASE inside = <<>>
    <2>1. WithMixed = <<pts - 1, pts>>
      BY <1>2 DEF WithMixed, IsFirst
    <2> QED BY <1>1, <1>2, <2>1
  <1>3. CASE inside # <<>>
    <2>1. WithMixed = Append(inside, pts)
      BY <1>3 DEF WithMixed, IsFirst
    <2>2. /\ Append(inside, pts) \in Seq(Int) /\ Append(inside, pts) # <<>>
          /\ Len(Append(inside, pts)) = Len(inside) + 1
      BY <1>1
    <2> QED BY <1>3, <2>1, <2>2
  <1> QED BY <1>2, <1>3

LEMMA EncodeType ==
  ASSUME TypeOK, Encode
  PROVE  /\ pts' \in Nat /\ codec' \in BOOLEAN /\ failures' \in Nat
         /\ inside' \in Seq(Int) /\ buffer' \in Seq(Int)
  <1>1. CASE FrameIsNotSent \/ CodecIsLost \/ ReceiveFails
    <2>1. EncodeFails /\ codec' \in BOOLEAN
      BY <1>1 DEF TypeOK, FrameIsNotSent, CodecIsLost, ReceiveFails
    <2>2. inside' \in {inside, <<>>, WithMixed}
      BY <1>1 DEF FrameIsNotSent, CodecIsLost, ReceiveFails
    <2>3. inside' \in Seq(Int)
      <3>1. <<>> \in Seq(Int) /\ inside \in Seq(Int)
        BY DEF TypeOK
      <3>2. WithMixed \in Seq(Int)
        BY WithMixedType
      <3> QED BY <2>2, <3>1, <3>2
    <2>4. pts' \in Nat /\ failures' \in Nat /\ buffer' \in Seq(Int)
      BY <2>1 DEF TypeOK, EncodeFails
    <2> QED BY <2>1, <2>3, <2>4
  <1>2. CASE NoCodec
    BY <1>2 DEF TypeOK, NoCodec, codecVars
  <1>3. CASE NoPacketYet
    BY <1>3, WithMixedType DEF TypeOK, NoPacketYet
  <1>4. CASE PacketComesOut
    <2>1. Tail(WithMixed) \in Seq(Int) /\ Head(WithMixed) \in Int
      BY WithMixedType
    <2>2. buffer' \in Seq(Int)
      BY <1>4, <2>1, AudioAssumption DEF TypeOK, PacketComesOut
    <2> QED BY <1>4, <2>1, <2>2 DEF TypeOK, PacketComesOut
  <1> QED BY <1>1, <1>2, <1>3, <1>4 DEF Encode

LEMMA TypeStep == TypeOK /\ Control /\ [Next]_vars => TypeOK'
  <1> SUFFICES ASSUME TypeOK, Control, [Next]_vars PROVE TypeOK'
    OBVIOUS
  <1> USE DEF TypeOK, Registered, Devices
  <1>1. CASE Starting
    <2>1. CASE Initialize
      BY <2>1 DEF Initialize, Owners, Control
    <2>2. CASE StartSystem
      BY <2>2 DEF StartSystem, OpensStream, mixerVars, codecVars, Owners, Control
    <2>3. CASE StartMic
      BY <2>3 DEF StartMic, OpensStream, mixerVars, codecVars, Owners, Control
    <2>4. CASE InitializeFails \/ StartFails \/ StartMixer \/ LetCallbacksIn
      BY <2>4
      DEF InitializeFails, StartFails, StartMixer, LetCallbacksIn, streamVars,
          mixerVars, codecVars, Owners, Control
    <2> QED BY <1>1, <2>1, <2>2, <2>3, <2>4 DEF Starting
  <1>2. ASSUME NEW s \in Streams, CallbackEnters(s) PROVE TypeOK'
    BY <1>2 DEF CallbackEnters, ownerVars, mixerVars, codecVars
  <1>3. ASSUME NEW s \in Streams, CallbackPushes(s) PROVE TypeOK'
    <2>1. DOMAIN queues' = DOMAIN queues
      BY <1>3 DEF CallbackPushes
    <2>2. [at |-> captured[s] + 1, lost |-> lost[s]] \in Frames
      BY DEF Frames
    <2>3. \A id \in DOMAIN queues : queues'[id] \in Seq(Frames)
      BY <1>3, <2>2 DEF CallbackPushes
    <2>4. queues' \in [DOMAIN queues -> Seq(Frames)]
      BY <1>3, <2>1, <2>3 DEF CallbackPushes
    <2> QED BY <1>3, <2>1, <2>4
            DEF CallbackPushes, CallbackReturns, ownerVars, mixerVars, codecVars
  <1>4. CASE MixerTest
    BY <1>4 DEF MixerTest, mixerFrame, ownerVars, codecVars
  <1>5. CASE MixerTakes
    <2>1. \A id \in Registered : LeftIn(id) \in Seq(Frames)
      BY DEF LeftIn
    <2> QED BY <1>5, <2>1 DEF MixerTakes, mixerFrame, ownerVars, codecVars
  <1>10. ASSUME NEW s \in Streams, DeviceOverflows(s) \/ CallbackGetsNothing(s)
         PROVE  TypeOK'
    <2>1. /\ callback' \in [Streams -> {"idle", "in"}]
          /\ UNCHANGED <<ownerVars, stream, queues, mixerVars>>
      BY <1>10 DEF DeviceOverflows, CallbackGetsNothing, CallbackReturns, FrameIsLost
    <2>2. captured' \in [Streams -> Nat] /\ lost' \in [Streams -> Nat]
      <3>1. FrameIsLost(s)
        BY <1>10 DEF DeviceOverflows, CallbackGetsNothing
      <3>2. captured \in [Streams -> Nat] /\ lost \in [Streams -> Nat]
        BY DEF TypeOK
      <3>3. \A f \in [Streams -> Nat] : [f EXCEPT ![s] = f[s] + 1] \in [Streams -> Nat]
        OBVIOUS
      <3> QED BY <3>1, <3>2, <3>3 DEF FrameIsLost
    <2> QED BY <2>1, <2>2 DEF ownerVars, mixerVars, codecVars
  <1>6. CASE Encode
    BY <1>6, EncodeFrame, EncodeType DEF mixerFrame, ownerVars
  <1>7. CASE TickClears
    BY <1>7 DEF TickClears, ownerVars, streamVars
  <1>8. CASE CloseSystem \/ FinishStop
    <2>1. CASE CloseSystem
      BY <2>1 DEF CloseSystem, StopStep, Close, mixerVars, codecVars, Owners
    <2>2. CASE CloseMic
      BY <2>2 DEF CloseMic, StopStep, Close, mixerVars, codecVars, Owners
    <2>3. CASE StopMixer
      BY <2>3 DEF StopMixer, StopStep, streamVars, mixerVars, codecVars, Owners
    <2>4. CASE JoinMixer
      BY <2>4 DEF JoinMixer, StopStep, streamVars, Owners
    <2>5. CASE LetCallbacksOut
      BY <2>5 DEF LetCallbacksOut, streamVars, mixerVars, codecVars, Owners
    <2> QED BY <1>8, <2>1, <2>2, <2>3, <2>4, <2>5 DEF FinishStop
  <1>9. CASE UNCHANGED vars
    BY <1>9 DEF vars, ownerVars, streamVars, mixerVars, codecVars
  <1> QED BY <1>1, <1>2, <1>3, <1>4, <1>5, <1>6, <1>7, <1>8, <1>9, <1>10
          DEF Next, MixerStep

LEMMA ControlStep == TypeOK /\ Control /\ [Next]_vars => Control'
  <1> SUFFICES ASSUME TypeOK, Control, [Next]_vars PROVE Control'
    OBVIOUS
  <1> USE DEF Control, Opened, Registered, Streams, Devices
  <1>1. CASE Starting
    <2>1. CASE Initialize
      BY <2>1 DEF Initialize, TypeOK
    <2>2. CASE StartSystem
      BY <2>2 DEF StartSystem, OpensStream, mixerVars, codecVars, TypeOK
    <2>3. CASE StartMic
      BY <2>3 DEF StartMic, OpensStream, mixerVars, codecVars, TypeOK
    <2>4. CASE InitializeFails
      BY <2>4 DEF InitializeFails, streamVars, mixerVars, codecVars, TypeOK
    <2>5. CASE StartFails
      BY <2>5 DEF StartFails, streamVars, mixerVars, codecVars, TypeOK
    <2>6. CASE StartMixer
      BY <2>6 DEF StartMixer, streamVars, codecVars, TypeOK
    <2>7. CASE LetCallbacksIn
      BY <2>7 DEF LetCallbacksIn, streamVars, mixerVars, codecVars, TypeOK
    <2> QED BY <1>1, <2>1, <2>2, <2>3, <2>4, <2>5, <2>6, <2>7 DEF Starting
  <1>2. ASSUME NEW s \in Streams, CallbackEnters(s) PROVE Control'
    BY <1>2 DEF CallbackEnters, Records, ownerVars, mixerVars, codecVars, TypeOK
  <1>3. ASSUME NEW s \in Streams, CallbackPushes(s) PROVE Control'
    <2>1. DOMAIN queues' = DOMAIN queues
      BY <1>3 DEF CallbackPushes
    <2>2. owner # "created"
      BY <1>3 DEF CallbackPushes, CallbackReturns
    <2> QED BY <1>3, <2>1, <2>2
            DEF CallbackPushes, CallbackReturns, ownerVars, mixerVars, codecVars, TypeOK
  <1>10. ASSUME NEW s \in Streams, DeviceOverflows(s) \/ CallbackGetsNothing(s)
         PROVE  Control'
    <2>1. stream[s] = "running" /\ owner # "created"
      BY <1>10 DEF DeviceOverflows, Records, CallbackGetsNothing, CallbackReturns
    <2>2. /\ UNCHANGED <<ownerVars, stream, queues, mixerVars>>
          /\ \A t \in Streams : callback'[t] = "in" => callback[t] = "in"
      BY <1>10
      DEF DeviceOverflows, CallbackGetsNothing, CallbackReturns, FrameIsLost, TypeOK
    <2> QED BY <2>1, <2>2 DEF ownerVars, mixerVars, codecVars
  <1>4. CASE MixerTest
    BY <1>4 DEF MixerTest, mixerFrame, ownerVars, codecVars
  <1>5. CASE MixerTakes
    BY <1>5 DEF MixerTakes, mixerFrame, ownerVars, codecVars
  <1>6. CASE Encode
    BY <1>6, EncodeFrame DEF mixerFrame, ownerVars
  <1>7. CASE TickClears
    BY <1>7 DEF TickClears, ownerVars, streamVars
  <1>8. CASE CloseSystem \/ FinishStop
    <2>1. CASE CloseSystem
      BY <2>1 DEF CloseSystem, StopStep, Close, mixerVars, codecVars, TypeOK
    <2>2. CASE CloseMic
      BY <2>2 DEF CloseMic, StopStep, Close, mixerVars, codecVars, TypeOK
    <2>3. CASE StopMixer
      BY <2>3 DEF StopMixer, StopStep, streamVars, mixerVars, codecVars, TypeOK
    <2>4. CASE JoinMixer
      BY <2>4 DEF JoinMixer, StopStep, streamVars, TypeOK
    <2>5. CASE LetCallbacksOut
      BY <2>5 DEF LetCallbacksOut, streamVars, mixerVars, codecVars, TypeOK
    <2> QED BY <1>8, <2>1, <2>2, <2>3, <2>4, <2>5 DEF FinishStop
  <1>9. CASE UNCHANGED vars
    BY <1>9 DEF vars, ownerVars, streamVars, mixerVars, codecVars
  <1> QED BY <1>1, <1>2, <1>3, <1>4, <1>5, <1>6, <1>7, <1>8, <1>9, <1>10
          DEF Next, MixerStep

(* A stream that is open queues its frames under an id of its own. *)
LEMMA OwnQueue ==
  ASSUME TypeOK, Control
  PROVE  /\ \A s \in Streams : callback[s] = "in" => s \in Opened /\ Id(s) \in Registered
         /\ \A s \in Opened, t \in Opened : Id(s) = Id(t) => s = t
         /\ \A id \in Registered : \E s \in Opened : Id(s) = id
  <1>1. \A s \in Opened : Registered = Devices => Id(s) \in Registered
    BY DEF Opened, Id, Streams, Devices, NoDevice, SystemId
  <1>2. \A s \in Streams : callback[s] = "in" => s \in Opened /\ Registered = Devices
    BY DEF Control
  <1>3. \A s \in Opened, t \in Opened : Id(s) = Id(t) => s = t
    BY DEF Opened, Id, Streams
  <1>4. \A id \in Devices : \E s \in Opened : Id(s) = id
    <2>1. "system" \in Opened /\ Id("system") = SystemId
      BY DEF Opened, Id, Streams
    <2>2. mic \notin {NoDevice, SystemId} => "mic" \in Opened /\ Id("mic") = mic
      BY DEF Opened, Id, Streams
    <2> QED BY <2>1, <2>2 DEF Devices
  <1>5. Registered = {} \/ Registered = Devices
    BY DEF TypeOK
  <1> QED BY <1>1, <1>2, <1>3, <1>4, <1>5

(* A queue with its frames in place keeps them so at either end. *)
LEMMA OrderedQueue ==
  ASSUME NEW q \in Seq(Frames), NEW k \in Nat, InPlace(q, k)
  PROVE  /\ \A f \in Frames : Place(f) = k + Len(q) + 1 =>
               Len(Append(q, f)) = Len(q) + 1 /\ InPlace(Append(q, f), k)
         /\ q # <<>> => /\ Place(Head(q)) = k + 1 /\ Len(Tail(q)) = Len(q) - 1
                        /\ InPlace(Tail(q), k + 1)
  <1>1. ASSUME q # <<>>
        PROVE  /\ Place(Head(q)) = k + 1 /\ Len(Tail(q)) = Len(q) - 1
               /\ InPlace(Tail(q), k + 1)
    <2>1. Len(q) \in Nat /\ 1 \in 1 .. Len(q) /\ Head(q) = q[1]
      BY <1>1
    <2>2. /\ Len(Tail(q)) = Len(q) - 1
          /\ \A i \in 1 .. Len(q) - 1 : Tail(q)[i] = q[i + 1] /\ i + 1 \in 1 .. Len(q)
      BY <1>1
    <2>3. \A i \in 1 .. Len(q) - 1 : Place(Tail(q)[i]) = k + (i + 1)
      BY <2>2 DEF InPlace
    <2>4. \A i \in 1 .. Len(q) - 1 : k + (i + 1) = (k + 1) + i
      BY <2>1
    <2>5. Place(Head(q)) = k + 1
      BY <2>1 DEF InPlace
    <2>6. InPlace(Tail(q), k + 1)
      BY <2>2, <2>3, <2>4 DEF InPlace
    <2> QED BY <2>2, <2>5, <2>6
  <1>2. ASSUME NEW f \in Frames, Place(f) = k + Len(q) + 1
        PROVE  Len(Append(q, f)) = Len(q) + 1 /\ InPlace(Append(q, f), k)
    <2> DEFINE r == Append(q, f)
    <2>1. Len(q) \in Nat /\ Len(r) = Len(q) + 1
      OBVIOUS
    <2>2. \A i \in 1 .. Len(q) : r[i] = q[i]
      OBVIOUS
    <2>3. r[Len(q) + 1] = f
      OBVIOUS
    <2> HIDE DEF r
    <2>4. ASSUME NEW i \in 1 .. Len(q) + 1 PROVE Place(r[i]) = k + i
      <3>1. CASE i \in 1 .. Len(q)
        BY <2>2, <3>1 DEF InPlace
      <3>2. CASE i = Len(q) + 1
        BY <1>2, <2>1, <2>3, <3>2
      <3> QED BY <2>1, <3>1, <3>2
    <2> QED BY <2>1, <2>4 DEF r, InPlace
  <1> QED BY <1>1, <1>2

(* A step that leaves the queues alone leaves them in step. *)
LEMMA QueuesUntouched ==
  ASSUME InStep, UNCHANGED <<mic, queues, captured, lost>>,
         (mixer_stop' => mixer' = "wait") => (mixer_stop => mixer = "wait")
  PROVE  InStep'
  BY DEF InStep, Lacking, Opened, Id, Registered, Streams

(* So does a frame that is lost: its device has queued as many as before.   *)
LEMMA LossKeepsStep ==
  ASSUME TypeOK, InStep, NEW s \in Streams, FrameIsLost(s)
  PROVE  InStep'
  <1>1. UNCHANGED <<mic, queues, mixer, mixer_stop>>
    BY DEF FrameIsLost, ownerVars, mixerVars
  <1>2. ASSUME NEW t \in Streams PROVE captured'[t] - lost'[t] = captured[t] - lost[t]
    <2>1. captured[t] \in Nat /\ lost[t] \in Nat
      BY DEF TypeOK
    <2>2. CASE t = s
      <3>1. captured'[t] = captured[t] + 1 /\ lost'[t] = lost[t] + 1
        BY <2>2 DEF FrameIsLost, TypeOK
      <3> QED BY <2>1, <3>1
    <2>3. CASE t # s
      BY <2>3 DEF FrameIsLost, TypeOK
    <2> QED BY <2>2, <2>3
  <1>3. \A k \in Nat : Lacking(k) => Lacking(k)'
    BY <1>1, <1>2 DEF Lacking, Opened, Id, Registered
  <1> QED BY <1>1, <1>3 DEF InStep

LEMMA PushKeepsStep ==
  ASSUME TypeOK, Control, InStep, NEW s \in Streams, CallbackPushes(s)
  PROVE  InStep'
  <1> SUFFICES ASSUME NEW k \in Nat, Lacking(k) PROVE Lacking(k)'
    BY DEF InStep, CallbackPushes, ownerVars, mixerVars
  <1>1. s \in Opened /\ Id(s) \in Registered
    BY OwnQueue DEF CallbackPushes, CallbackReturns
  <1>2. /\ Registered' = Registered /\ Opened' = Opened /\ lost' = lost
        /\ \A t \in Streams : Id(t)' = Id(t)
    BY DEF CallbackPushes, ownerVars, Registered, Opened, Id
  <1> SUFFICES ASSUME NEW t \in Opened, Id(t) \in Registered
               PROVE  /\ Len(queues'[Id(t)]) = captured'[t] - lost[t] - k
                      /\ InPlace(queues'[Id(t)], k)
    BY <1>2 DEF Lacking, Opened, InPlace
  <1>3. CASE t = s
    <2> DEFINE frame == [at |-> captured[s] + 1, lost |-> lost[s]]
    <2>1. /\ queues[Id(s)] \in Seq(Frames) /\ captured[s] \in Nat /\ lost[s] \in Nat
          /\ Len(queues[Id(s)]) = captured[s] - lost[s] - k
          /\ InPlace(queues[Id(s)], k)
      BY <1>1 DEF TypeOK, Lacking
    <2>2. /\ queues'[Id(s)] = Append(queues[Id(s)], frame)
          /\ captured'[s] = captured[s] + 1
      BY <1>1 DEF CallbackPushes, TypeOK, Registered
    <2>3. frame \in Frames /\ Place(frame) = captured[s] + 1 - lost[s]
      BY <2>1 DEF Frames, Place
    <2> HIDE DEF frame
    <2>4. PICK q \in Seq(Frames) : q = queues[Id(s)]
      BY <2>1
    <2>5. PICK n \in Nat : n = Len(q)
      OBVIOUS
    <2>6. /\ captured[s] + 1 - lost[s] = k + n + 1
          /\ captured'[s] - lost[s] - k = n + 1
      BY <2>1, <2>2, <2>4, <2>5
    <2>7. Len(Append(q, frame)) = n + 1 /\ InPlace(Append(q, frame), k)
      BY <2>1, <2>3, <2>4, <2>5, <2>6, OrderedQueue
    <2> QED BY <1>3, <2>2, <2>4, <2>6, <2>7
  <1>4. CASE t # s
    <2>1. Id(t) # Id(s)
      BY <1>1, <1>4, OwnQueue
    <2>2. queues'[Id(t)] = queues[Id(t)] /\ captured'[t] = captured[t]
      BY <1>4, <2>1 DEF CallbackPushes, TypeOK, Registered, Opened
    <2> QED BY <2>2 DEF Lacking
  <1> QED BY <1>3, <1>4

(* What the mixing thread takes when the queues lack their first k frames.  *)
LEMMA TakeKeepsStep ==
  ASSUME TypeOK, Control, InStep, MixerTakes
  PROVE  InStep' /\ MixedInStep'
  <1>1. PICK k \in Nat : Lacking(k)
    BY DEF InStep, MixerTakes
  <1>2. ASSUME NEW s \in Opened, Id(s) \in Registered, queues[Id(s)] # <<>>
        PROVE  /\ Head(queues[Id(s)]) \in Frames /\ Place(Head(queues[Id(s)])) = k + 1
               /\ Len(LeftIn(Id(s))) = captured[s] - lost[s] - (k + 1)
               /\ InPlace(LeftIn(Id(s)), k + 1)
    <2>1. /\ queues[Id(s)] \in Seq(Frames) /\ captured[s] \in Nat /\ lost[s] \in Nat
          /\ Len(queues[Id(s)]) = captured[s] - lost[s] - k
          /\ InPlace(queues[Id(s)], k)
      BY <1>1, <1>2 DEF TypeOK, Lacking, Opened
    <2>2. LeftIn(Id(s)) = Tail(queues[Id(s)])
      BY <1>2 DEF LeftIn
    <2>3. captured[s] - lost[s] - k - 1 = captured[s] - lost[s] - (k + 1)
      BY <2>1
    <2>4. /\ Place(Head(queues[Id(s)])) = k + 1
          /\ Len(Tail(queues[Id(s)])) = Len(queues[Id(s)]) - 1
          /\ InPlace(Tail(queues[Id(s)]), k + 1)
      BY <1>2, <2>1, OrderedQueue
    <2>5. Head(queues[Id(s)]) \in Frames
      BY <1>2, <2>1
    <2> QED BY <2>1, <2>2, <2>3, <2>4, <2>5
  <1>3. /\ mix' = [id \in {i \in Registered : queues[i] # <<>>} |-> Head(queues[id])]
        /\ queues' = [id \in Registered |-> LeftIn(id)]
        /\ UNCHANGED <<mic, captured, lost, stream, mixer_stop>> /\ mixer' = "encode"
    BY DEF MixerTakes, mixerFrame, ownerVars
  <1>4. Registered' = Registered
    BY <1>3 DEF Registered
  <1>5. \A id \in DOMAIN mix' : mix'[id] \in Frames /\ Place(mix'[id]) = k + 1
    <2>1. \A id \in Registered : queues[id] # <<>> =>
             Head(queues[id]) \in Frames /\ Place(Head(queues[id])) = k + 1
      BY <1>2, OwnQueue
    <2> QED BY <1>3, <2>1
  <1>6. \A id, other \in DOMAIN mix' :
           mix'[id].at - mix'[other].at = mix'[id].lost - mix'[other].lost
    <2> SUFFICES ASSUME NEW f \in Frames, NEW g \in Frames, Place(f) = Place(g)
                 PROVE  f.at - g.at = f.lost - g.lost
      BY <1>5
    <2>1. f.at \in Nat /\ f.lost \in Nat /\ g.at \in Nat /\ g.lost \in Nat
      BY DEF Frames
    <2> QED BY <2>1 DEF Place
  <1>7. CASE mixer_stop
    <2>1. \A s \in Streams : stream'[s] = "closed"
      BY <1>3, <1>7 DEF Control, Streams
    <2> QED BY <1>3, <1>6, <1>7, <2>1 DEF InStep, MixedInStep
  <1>8. CASE ~mixer_stop
    <2>1. \A id \in Registered : queues[id] # <<>>
      BY <1>8 DEF MixerTakes, AllReady
    <2>2. DOMAIN mix' = Registered'
      BY <1>3, <1>4, <2>1
    <2>3. Opened' = Opened /\ \A s \in Streams : Id(s)' = Id(s)
      BY <1>3 DEF Opened, Id
    <2>4. Lacking(k + 1)'
      BY <1>2, <1>3, <1>4, <2>1, <2>3 DEF Lacking, Opened, InPlace
    <2> QED BY <1>6, <2>2, <2>4 DEF InStep, MixedInStep
  <1> QED BY <1>7, <1>8

LEMMA QueuesStep == IInv /\ [Next]_vars => InStep' /\ MixedInStep'
  <1> SUFFICES ASSUME IInv, [Next]_vars PROVE InStep' /\ MixedInStep'
    OBVIOUS
  <1> USE DEF IInv
  <1>1. CASE Initialize
    <2>1. /\ \A id \in Devices : queues'[id] = <<>>
          /\ \A s \in Streams : captured'[s] = 0 /\ lost'[s] = 0
          /\ UNCHANGED <<mic, mixer>> /\ mixer = "none" /\ Registered' = Devices
      BY <1>1 DEF Initialize, Control, Registered
    <2>2. Lacking(0)'
      BY <2>1 DEF Lacking, Opened, InPlace
    <2> QED BY <2>1, <2>2 DEF InStep, MixedInStep
  <1>2. ASSUME NEW s \in Streams, CallbackPushes(s) PROVE InStep' /\ MixedInStep'
    <2>1. UNCHANGED <<mixer, mix, stream>> /\ DOMAIN queues' = DOMAIN queues
      BY <1>2 DEF CallbackPushes, mixerVars
    <2> QED BY <1>2, <2>1, PushKeepsStep DEF MixedInStep, Registered
  <1>11. ASSUME NEW s \in Streams, DeviceOverflows(s) \/ CallbackGetsNothing(s)
         PROVE  InStep' /\ MixedInStep'
    <2>1. FrameIsLost(s)
      BY <1>11 DEF DeviceOverflows, CallbackGetsNothing
    <2>2. UNCHANGED <<mixer, mix, stream, queues>>
      BY <2>1 DEF FrameIsLost, mixerVars
    <2> QED BY <2>1, <2>2, LossKeepsStep DEF MixedInStep, Registered
  <1>3. CASE MixerTakes
    BY <1>3, TakeKeepsStep
  (* The steps that open streams come before the mixing thread. *)
  <1>4. CASE StartSystem \/ StartMic
    <2>1. UNCHANGED <<mic, queues, captured, lost, mixer_stop, mixer>> /\ mixer = "none"
      BY <1>4 DEF StartSystem, StartMic, OpensStream, mixerVars, Control
    <2> QED BY <2>1, QueuesUntouched DEF MixedInStep
  (* The steps after which the mixing thread holds no frames. *)
  <1>5. CASE StartMixer \/ MixerTest \/ Encode
    <2>1. /\ UNCHANGED <<mic, queues, captured, lost, mixer_stop>> /\ mixer' # "encode"
          /\ mixer' = "wait" => ~mixer_stop
      BY <1>5, EncodeFrame
      DEF StartMixer, MixerTest, mixerFrame, ownerVars, streamVars, codecVars
    <2> QED BY <2>1, QueuesUntouched DEF MixedInStep
  (* All others leave the queues and the mixing thread alone. *)
  <1>6. ASSUME UNCHANGED <<mic, queues, captured, lost, mixer, mix>>,
               mixer_stop => mixer_stop',
               \A s \in Streams : stream[s] = "closed" => stream'[s] = "closed"
        PROVE  InStep' /\ MixedInStep'
    BY <1>6, QueuesUntouched DEF MixedInStep, Registered
  <1>7. CASE InitializeFails \/ StartFails \/ LetCallbacksIn \/ TickClears
    BY <1>6, <1>7
    DEF InitializeFails, StartFails, LetCallbacksIn, TickClears, streamVars, mixerVars,
        ownerVars
  <1>8. ASSUME NEW s \in Streams, CallbackEnters(s) PROVE InStep' /\ MixedInStep'
    BY <1>6, <1>8 DEF CallbackEnters, ownerVars, mixerVars
  <1>9. CASE CloseSystem \/ CloseMic
    <2>1. PICK s \in Streams : Close(s)
      BY <1>9 DEF CloseSystem, CloseMic, Streams
    <2>2. UNCHANGED mic
      BY <1>9 DEF CloseSystem, CloseMic, StopStep
    <2> QED BY <1>6, <2>1, <2>2 DEF Close, mixerVars, TypeOK
  <1>10. CASE StopMixer \/ JoinMixer \/ LetCallbacksOut \/ UNCHANGED vars
    BY <1>6, <1>10
    DEF StopMixer, JoinMixer, LetCallbacksOut, StopStep, streamVars, mixerVars, vars,
        ownerVars
  <1> QED BY <1>1, <1>2, <1>3, <1>4, <1>5, <1>7, <1>8, <1>9, <1>10, <1>11
          DEF Next, Starting, MixerStep, FinishStop

----------------------------------------------------------------------------
(* The times of the packets                                                 *)

LEMMA GoesUpMore ==
  ASSUME NEW f \in Nat, NEW g \in Nat, f <= g
  PROVE  /\ \A s : GoesUp(f, s) => GoesUp(g, s)
         /\ \A x, y : Follows(f, x, y) => Follows(g, x, y)
  BY DEF GoesUp, Follows

LEMMA GoesUpAppend ==
  ASSUME NEW f \in Nat, NEW s \in Seq(Int), NEW x \in Int, GoesUp(f, s),
         s # <<>> => Follows(f, s[Len(s)], x)
  PROVE  LET r == Append(s, x)
         IN  /\ GoesUp(f, r) /\ r[Len(r)] = x /\ r[1] = IF s = <<>> THEN x ELSE s[1]
             /\ r # <<>>
  <1> DEFINE r == Append(s, x)
  <1>1. Len(s) \in Nat /\ Len(r) = Len(s) + 1 /\ r[Len(s) + 1] = x
    OBVIOUS
  <1>2. \A i \in 1 .. Len(s) : r[i] = s[i]
    OBVIOUS
  <1>3. s # <<>> => Len(s) > 0
    OBVIOUS
  <1>4. s = <<>> => Len(s) = 0
    OBVIOUS
  <1> HIDE DEF r
  <1>5. ASSUME NEW i \in 1 .. Len(s) PROVE Follows(f, r[i], r[i + 1])
    <2>1. CASE i = Len(s)
      BY <1>1, <1>2, <1>4, <2>1
    <2>2. CASE i # Len(s)
      <3>1. i \in 1 .. Len(s) - 1 /\ i + 1 \in 1 .. Len(s)
        BY <1>1, <2>2
      <3> QED BY <1>2, <3>1 DEF GoesUp
    <2> QED BY <2>1, <2>2
  <1>6. GoesUp(f, r)
    BY <1>1, <1>5 DEF GoesUp
  <1>7. r[1] = IF s = <<>> THEN x ELSE s[1]
    BY <1>1, <1>2, <1>3, <1>4
  <1>8. r # <<>>
    BY <1>1
  <1> QED BY <1>1, <1>6, <1>7, <1>8 DEF r

LEMMA GoesUpTail ==
  ASSUME NEW f \in Nat, NEW s \in Seq(Int), GoesUp(f, s), s # <<>>
  PROVE  LET r == Tail(s)
         IN  /\ GoesUp(f, r) /\ Head(s) = s[1] /\ Len(r) = Len(s) - 1
             /\ r # <<>> => Follows(f, Head(s), r[1]) /\ r[Len(r)] = s[Len(s)]
             /\ r = <<>> => Head(s) = s[Len(s)]
  <1> DEFINE r == Tail(s)
  <1>1. /\ Len(s) \in Nat /\ Len(s) > 0 /\ Len(r) = Len(s) - 1 /\ r \in Seq(Int)
        /\ Head(s) = s[1]
    OBVIOUS
  <1>2. \A i \in 1 .. Len(s) - 1 : r[i] = s[i + 1]
    OBVIOUS
  <1>3. r # <<>> <=> Len(s) > 1
    <2>1. r \in Seq(Int)
      OBVIOUS
    <2> HIDE DEF r
    <2>2. r # <<>> <=> Len(r) > 0
      BY <2>1
    <2> QED BY <1>1, <2>2
  <1> HIDE DEF r
  <1>4. GoesUp(f, r)
    <2> SUFFICES ASSUME NEW i \in 1 .. Len(s) - 2 PROVE Follows(f, r[i], r[i + 1])
      BY <1>1 DEF GoesUp
    <2>1. /\ i \in 1 .. Len(s) - 1 /\ i + 1 \in 1 .. Len(s) - 1
          /\ r[i] = s[i + 1] /\ r[i + 1] = s[(i + 1) + 1]
      BY <1>1, <1>2
    <2> QED BY <2>1 DEF GoesUp
  <1>5. ASSUME r # <<>> PROVE Follows(f, s[1], r[1]) /\ r[Len(r)] = s[Len(s)]
    <2>1. 1 \in 1 .. Len(s) - 1 /\ Len(s) - 1 \in 1 .. Len(s) - 1
      BY <1>1, <1>3, <1>5
    <2>2. r[1] = s[1 + 1] /\ r[Len(r)] = s[Len(s) - 1 + 1]
      BY <1>1, <1>2, <2>1
    <2>3. Len(s) - 1 + 1 = Len(s)
      BY <1>1
    <2> QED BY <2>1, <2>2, <2>3 DEF GoesUp
  <1>6. r = <<>> => Len(s) = 1
    BY <1>1, <1>3
  <1> QED BY <1>1, <1>4, <1>5, <1>6 DEF r

LEMMA DatedAppend ==
  ASSUME NEW s \in Seq(Int), NEW x \in Int, Dated(s),
         x >= -1, s # <<>> => x >= 0
  PROVE  Dated(Append(s, x))
  <1> DEFINE r == Append(s, x)
  <1>1. /\ Len(s) \in Nat /\ Len(r) = Len(s) + 1 /\ r[Len(s) + 1] = x
        /\ \A i \in 1 .. Len(s) : r[i] = s[i]
    OBVIOUS
  <1>2. s # <<>> \/ Len(s) = 0
    OBVIOUS
  <1> HIDE DEF r
  <1>3. ASSUME NEW i \in 1 .. Len(s) + 1 PROVE r[i] >= (IF i = 1 THEN -1 ELSE 0)
    <2>1. CASE i \in 1 .. Len(s)
      BY <1>1, <2>1 DEF Dated
    <2>2. CASE i = Len(s) + 1
      BY <1>1, <1>2, <2>2
    <2> QED BY <1>1, <2>1, <2>2
  <1> QED BY <1>1, <1>3 DEF r, Dated

LEMMA DatedTail ==
  ASSUME NEW s \in Seq(Int), Dated(s), s # <<>>
  PROVE  /\ Dated(Tail(s)) /\ s[1] >= -1
         /\ Tail(s) # <<>> => Tail(s)[1] >= 0
  <1> DEFINE r == Tail(s)
  <1>1. /\ Len(s) \in Nat /\ Len(s) > 0 /\ Len(r) = Len(s) - 1 /\ r \in Seq(Int)
        /\ \A i \in 1 .. Len(s) - 1 : r[i] = s[i + 1]
    OBVIOUS
  <1> HIDE DEF r
  <1>2. ASSUME NEW i \in 1 .. Len(s) - 1 PROVE r[i] \in Int /\ r[i] >= 0
    <2>1. i + 1 \in 1 .. Len(s) /\ i + 1 # 1 /\ r[i] = s[i + 1]
      BY <1>1
    <2> QED BY <2>1 DEF Dated
  <1>3. r # <<>> => 1 \in 1 .. Len(s) - 1
    BY <1>1
  <1>4. Dated(r)
    BY <1>1, <1>2 DEF Dated
  <1>5. s[1] >= -1
    BY <1>1 DEF Dated
  <1> QED BY <1>2, <1>3, <1>4, <1>5 DEF r

(* The times in the codec with the mixed frame among them: still in order,  *)
(* after those in the buffer, and the last is pts_.                         *)
LEMMA WithMixedTimes ==
  ASSUME TypeOK, Times, codec
  PROVE  /\ GoesUp(failures, WithMixed) /\ Dated(WithMixed)
         /\ buffer # <<>> => /\ Follows(failures, buffer[Len(buffer)], WithMixed[1])
                             /\ WithMixed[1] >= 0
         /\ WithMixed[Len(WithMixed)] = pts
         /\ inside = <<>> => buffer = <<>> /\ pts = 0
  <1>1. CASE inside = <<>>
    <2>1. WithMixed = <<-1, 0>> /\ buffer = <<>> /\ pts = 0
      BY <1>1 DEF WithMixed, IsFirst, Times
    <2>2. GoesUp(failures, <<-1, 0>>) /\ Dated(<<-1, 0>>)
      BY DEF GoesUp, Dated, Follows
    <2> QED BY <2>1, <2>2
  <1>2. CASE inside # <<>>
    <2>1. WithMixed = Append(inside, pts)
      BY <1>2 DEF WithMixed, IsFirst
    <2>2. inside \in Seq(Int) /\ Len(inside) \in Nat \ {0} /\ pts \in Nat
      BY <1>2 DEF TypeOK
    <2>3. /\ GoesUp(failures, WithMixed) /\ WithMixed[Len(WithMixed)] = pts
          /\ WithMixed[1] = inside[1]
      BY <1>2, <2>1, GoesUpAppend DEF TypeOK, Times
    <2>4. buffer # <<>> => /\ Follows(failures, buffer[Len(buffer)], WithMixed[1])
                           /\ WithMixed[1] >= 0
      BY <1>2, <2>3 DEF Times
    <2>5. Dated(Append(inside, pts))
      BY <2>2, DatedAppend DEF Times
    <2> QED BY <1>2, <2>1, <2>3, <2>4, <2>5
  <1> QED BY <1>1, <1>2

(* A frame that fails leaves pts_ where it is. *)
LEMMA FailureKeepsTimes ==
  ASSUME TypeOK, Times, EncodeFails,
         \/ UNCHANGED <<codec, inside>>
         \/ codec' = FALSE /\ inside' = <<>>
         \/ codec /\ inside' = WithMixed /\ UNCHANGED codec
  PROVE  Times'
  <1>1. /\ failures' = failures + 1 /\ UNCHANGED <<pts, buffer>>
        /\ failures \in Nat /\ failures' \in Nat /\ failures <= failures' /\ failures' > 0
    BY DEF EncodeFails, TypeOK
  <1>2. /\ \A s : GoesUp(failures, s) => GoesUp(failures', s)
        /\ \A x, y : Follows(failures, x, y) => Follows(failures', x, y)
    BY <1>1, GoesUpMore
  <1>3. CASE UNCHANGED <<codec, inside>>
    BY <1>1, <1>2, <1>3 DEF Times
  <1>4. CASE codec' = FALSE /\ inside' = <<>>
    <2>1. GoesUp(failures', <<>>) /\ Dated(<<>>)
      BY DEF GoesUp, Dated
    <2> QED BY <1>1, <1>2, <1>4, <2>1 DEF Times
  <1>5. CASE codec /\ inside' = WithMixed /\ UNCHANGED codec
    <2>1. GoesUp(failures', inside')
      BY <1>2, <1>5, WithMixedTimes
    <2>2. buffer' # <<>> => /\ Follows(failures', buffer'[Len(buffer')], inside'[1])
                            /\ inside'[1] >= 0
      BY <1>1, <1>2, <1>5, WithMixedTimes
    <2>3. inside' # <<>> /\ inside'[Len(inside')] = pts' /\ pts' \in Nat
      BY <1>1, <1>5, WithMixedTimes, WithMixedType DEF TypeOK
    <2>4. Follows(failures', inside'[Len(inside')], pts')
      BY <1>1, <2>3 DEF Follows
    <2>5. Dated(inside')
      BY <1>5, WithMixedTimes
    <2> QED BY <1>1, <1>2, <2>1, <2>2, <2>3, <2>4, <2>5 DEF Times
  <1> QED BY <1>3, <1>4, <1>5

LEMMA PacketKeepsTimes ==
  ASSUME TypeOK, Times, PacketComesOut
  PROVE  Times'
  <1> DEFINE kept == IF Capacity > 0 /\ Len(buffer) >= Capacity
                     THEN Tail(buffer) ELSE buffer
             first == Head(WithMixed)
             rest == Tail(WithMixed)
  <1>1. /\ codec /\ UNCHANGED <<codec, failures>> /\ pts' = pts + 1 /\ inside # <<>>
        /\ buffer' = Append(kept, first) /\ inside' = rest
    BY DEF PacketComesOut, IsFirst
  <1>2. /\ failures \in Nat /\ pts \in Nat /\ WithMixed \in Seq(Int) /\ WithMixed # <<>>
        /\ first \in Int /\ Len(WithMixed) > 1
    BY <1>1, WithMixedType DEF TypeOK
  <1>3. /\ GoesUp(failures, WithMixed) /\ WithMixed[Len(WithMixed)] = pts
        /\ Dated(WithMixed)
        /\ buffer # <<>> => Follows(failures, buffer[Len(buffer)], WithMixed[1])
                            /\ WithMixed[1] >= 0
    BY <1>1, <1>2, WithMixedTimes
  <1>4. /\ GoesUp(failures, rest) /\ first = WithMixed[1] /\ Len(rest) = Len(WithMixed) - 1
        /\ rest # <<>> => Follows(failures, first, rest[1]) /\ rest[Len(rest)] = pts
    BY <1>2, <1>3, GoesUpTail
  <1>5. /\ Dated(rest) /\ first >= -1
        /\ rest # <<>> => rest[1] >= 0
    BY <1>2, <1>3, <1>4, DatedTail
  <1>6. /\ kept \in Seq(Int) /\ GoesUp(failures, kept) /\ Dated(kept)
        /\ kept # <<>> => Follows(failures, kept[Len(kept)], first) /\ first >= 0
    <2>1. CASE Capacity > 0 /\ Len(buffer) >= Capacity
      <3>1. /\ buffer \in Seq(Int) /\ buffer # <<>> /\ GoesUp(failures, buffer)
            /\ Dated(buffer)
        BY <2>1, AudioAssumption DEF TypeOK, Times
      <3>2. kept = Tail(buffer) /\ kept \in Seq(Int)
        BY <2>1, <3>1
      <3> QED BY <1>2, <1>3, <1>4, <3>1, <3>2, GoesUpTail, DatedTail
    <2>2. CASE ~(Capacity > 0 /\ Len(buffer) >= Capacity)
      BY <1>3, <1>4, <2>2 DEF TypeOK, Times
    <2> QED BY <2>1, <2>2
  <1>7. rest # <<>>
    <2>1. rest \in Seq(Int)
      BY <1>2
    <2> HIDE DEF rest
    <2> QED BY <1>2, <1>4, <2>1
  <1> HIDE DEF kept, first, rest
  <1>8. GoesUp(failures, buffer') /\ buffer'[Len(buffer')] = first /\ buffer' # <<>>
    <2>1. LET r == Append(kept, first)
          IN  GoesUp(failures, r) /\ r[Len(r)] = first /\ r # <<>>
      BY <1>2, <1>6, GoesUpAppend
    <2> QED BY <1>1, <2>1
  <1>9. Dated(buffer')
    BY <1>1, <1>2, <1>5, <1>6, DatedAppend
  <1>10. Follows(failures, rest[Len(rest)], pts')
    BY <1>1, <1>4, <1>7 DEF Follows
  <1> QED BY <1>1, <1>2, <1>4, <1>5, <1>7, <1>8, <1>9, <1>10 DEF Times

LEMMA TimesStep == TypeOK /\ Control /\ Times /\ [Next]_vars => Times'
  <1> SUFFICES ASSUME TypeOK, Control, Times, [Next]_vars PROVE Times'
    OBVIOUS
  <1>1. CASE FrameIsNotSent \/ CodecIsLost \/ ReceiveFails
    BY <1>1, FailureKeepsTimes DEF FrameIsNotSent, CodecIsLost, ReceiveFails
  <1>2. CASE NoPacketYet
    <2>1. /\ UNCHANGED <<pts, codec, buffer, failures>> /\ inside' = WithMixed /\ codec
          /\ inside = <<>>
      BY <1>2 DEF NoPacketYet, IsFirst
    <2>2. /\ GoesUp(failures, WithMixed) /\ Dated(WithMixed) /\ buffer = <<>> /\ pts = 0
          /\ WithMixed[Len(WithMixed)] = pts /\ WithMixed # <<>>
      BY <2>1, WithMixedTimes, WithMixedType
    <2>3. Follows(failures, 0, 0)
      BY DEF Follows
    <2> QED BY <2>1, <2>2, <2>3 DEF Times
  <1>3. CASE PacketComesOut
    BY <1>3, PacketKeepsTimes
  <1>4. CASE TickClears \/ JoinMixer
    <2>1. buffer' = <<>> /\ UNCHANGED <<pts, codec, inside, failures>>
      BY <1>4 DEF TickClears, JoinMixer
    <2> QED BY <2>1 DEF Times, GoesUp, Dated
  <1>5. CASE Initialize
    BY <1>5 DEF Times, Control, Initialize
  <1>6. ASSUME UNCHANGED codecVars PROVE Times'
    BY <1>6 DEF Times, codecVars
  <1>7. CASE Starting /\ ~Initialize
    BY <1>6, <1>7
    DEF Starting, InitializeFails, StartSystem, StartMic, StartFails, StartMixer,
        LetCallbacksIn, OpensStream, mixerVars
  <1>8. ASSUME NEW s \in Streams,
               \/ CallbackEnters(s) \/ DeviceOverflows(s)
               \/ CallbackGetsNothing(s) \/ CallbackPushes(s)
        PROVE  Times'
    BY <1>6, <1>8
    DEF CallbackEnters, DeviceOverflows, CallbackGetsNothing, FrameIsLost, CallbackPushes,
        mixerVars
  <1>9. CASE MixerTest \/ MixerTakes \/ NoCodec
    BY <1>6, <1>9 DEF MixerTest, MixerTakes, NoCodec
  <1>10. CASE CloseSystem \/ CloseMic \/ StopMixer \/ LetCallbacksOut \/ UNCHANGED vars
    BY <1>6, <1>10
    DEF CloseSystem, CloseMic, StopMixer, LetCallbacksOut, Close, mixerVars, vars
  <1> QED BY <1>1, <1>2, <1>3, <1>4, <1>5, <1>7, <1>8, <1>9, <1>10
          DEF Next, MixerStep, Encode, FinishStop

----------------------------------------------------------------------------
(* The theorems                                                             *)

(* One step of any thread.                                                  *)
LEMMA NextInv == IInv /\ [Next]_vars => IInv'
  BY TypeStep, ControlStep, QueuesStep, TimesStep DEF IInv

(* The invariant is one: queues in step and times in order, whatever the    *)
(* devices deliver or lose and wherever encoding fails.                     *)
THEOREM IInvHolds == Spec => []IInv
  <1>1. Init => IInv
    BY InitInv
  <1>2. IInv /\ [Next]_vars => IInv'
    BY NextInv
  <1> QED BY <1>1, <1>2, PTL DEF Spec

(* wait_for_all_stream and the round after it: frames that are mixed were   *)
(* recorded as far apart as what one device has lost more than the other    *)
(* before them, in every round; and none is left out before stop().         *)
THEOREM MixedInStepHolds == Spec => []MixedInStep
  <1>1. IInv => MixedInStep
    BY DEF IInv
  <1> QED BY <1>1, IInvHolds, PTL

(* encode_frame and pts_: the times of the packets in the buffer have no    *)
(* gap, for any capacity, repeat one only if it is 0 or a frame has failed  *)
(* to encode, and begin at the padding the codec puts before the first.     *)
THEOREM GaplessHolds == Spec => []Gapless
  <1>1. IInv => Gapless
    BY DEF IInv, Times, GoesUp, Dated, Follows, Gapless
  <1> QED BY <1>1, IInvHolds, PTL

(* stop(): no callback and no mixing thread is left, and no packet.         *)
THEOREM QuietAfterStopHolds == Spec => []QuietAfterStop
  <1>1. IInv => QuietAfterStop
    BY DEF IInv, TypeOK, Control, QuietAfterStop, Streams
  <1> QED BY <1>1, IInvHolds, PTL
=============================================================================
