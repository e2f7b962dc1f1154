---------------------------- MODULE CaptureProofs ----------------------------
(* Proofs about screen capture: WinCapture, for any number of session events *)
(* and faults and a screen that is rotated or not, and FrameRotation, for    *)
(* every width and height.                                                   *)
EXTENDS WinCapture, FrameRotation, TLAPS

----------------------------------------------------------------------------
(* The inductive invariant                                                  *)

(* There is no capture thread before start(), and it has ended by the time  *)
(* anything after its join happens.                                         *)
Control ==
    /\ owner \in {"created", "initialized"} => capture = "none"
    /\ owner \in {"post", "ask", "forget", "join", "gone"} => capture = "done"

(* A frame of the duplication is held only while it is converted; a pointer *)
(* into a released texture is followed by a black frame before the next     *)
(* image is asked for.                                                      *)
FrameMemory ==
    /\ acquired => capture = "convert"
    /\ last = "released" => capture \in {"request", "black", "done"}

(* A null device was left behind by a reinit() that failed.                 *)
Devices ==
    /\ owner = "initialized" => device # "null"
    /\ capture \notin {"none", "done"} /\ device = "null" => gaveUp
    /\ capture \in {"acquire", "convert"} =>
           device # "null" /\ dupl # "null" /\ staging

CaptureInv == Control /\ FrameMemory /\ Devices

----------------------------------------------------------------------------
LEMMA InitCaptureInv == Init => CaptureInv
  BY DEF Init, CaptureInv, Control, FrameMemory, Devices

(* The steps of the capture thread. *)
LEMMA CaptureStepKeepsInv ==
  ASSUME CaptureInv, CaptureStep
  PROVE  CaptureInv'
  <1> USE DEF CaptureInv, Control, FrameMemory, Devices, CaptureGoto, captureFrame,
              gpuVars, ownerVars
  <1>1. CASE CaptureTop \/ CaptureExchange \/ CaptureChecksPointers
    BY <1>1 DEF CaptureTop, CaptureExchange, CaptureChecksPointers
  <1>2. CASE PushBlackFrame \/ RequestReinit \/ CaptureClearsForce
    BY <1>2 DEF PushBlackFrame, BlackFrame, RequestReinit, CaptureClearsForce
  <1>3. CASE ReinitDuplication \/ ReinitDuplicationFails \/ ReinitDuplicationCrashes
    BY <1>3 DEF ReinitDuplication, ReinitDuplicationFails, ReinitDuplicationCrashes,
       Recreated, NotRecreated
  <1>4. CASE Acquire
    BY <1>4 DEF Acquire, AcquireTimesOut, BlackFrame, AcquireAccessLost, Reinit, ReinitFails,
       AcquireFails, AcquireFrame, Usable, Recreated, NotRecreated
  <1>5. CASE ConvertOrMapFails \/ PrepareFrame
    BY <1>5 DEF ConvertOrMapFails, PrepareFrame
  <1> QED BY <1>1, <1>2, <1>3, <1>4, <1>5 DEF CaptureStep

(* The monitor writes nothing but the flags and what is its own. *)
LEMMA MonitorStepKeepsInv ==
  ASSUME CaptureInv, MonitorStep
  PROVE  CaptureInv'
  <1>1. UNCHANGED <<owner, capture, gpuVars>>
    BY DEF MonitorStep, MonitorBegins, MonitorHasQueue, CreateWindow,
       CreateWindowFails, MonitorTest, GetQuit, GetMessage, SecondStore,
       MonitorCleansUp, monitorFrame, ownerVars
  <1> QED BY <1>1 DEF CaptureInv, Control, FrameMemory, Devices, gpuVars

(* Starting and stopping. *)
LEMMA OwnerStepKeepsInv ==
  ASSUME CaptureInv,
         InitPlatform \/ InitPlatformFails \/ Start \/ StopCapture \/ FinishStop
  PROVE  CaptureInv'
  <1> USE DEF CaptureInv, Control, FrameMemory, Devices, gpuVars
  <1>1. CASE InitPlatform \/ InitPlatformFails \/ Start
    BY <1>1 DEF InitPlatform, InitPlatformFails, Start
  <1>2. CASE StopCapture \/ FinishStop
    BY <1>2 DEF StopCapture, FinishStop, StopStep, JoinCapture, PostQuit, AskToStop,
       ForgetThread, JoinMonitor, LastAfterReset
  <1> QED BY <1>1, <1>2

(* Session events leave capture alone; a fault never makes a pointer null. *)
LEMMA WorldStepKeepsInv ==
  ASSUME CaptureInv, World
  PROVE  CaptureInv'
  <1> USE DEF CaptureInv, Control, FrameMemory, Devices, gpuVars, ownerVars
  <1>1. CASE LockSession \/ UnlockSession \/ Suspend \/ Resume
    BY <1>1 DEF LockSession, UnlockSession, Suspend, Resume, Deliver
  <1>2. CASE LoseAccess \/ RemoveDevice \/ BreakOrRepair
    BY <1>2 DEF LoseAccess, RemoveDevice, BreakOrRepair, Fault
  <1> QED BY <1>1, <1>2 DEF World

LEMMA NextKeepsInv ==
  ASSUME CaptureInv, [Next]_vars
  PROVE  CaptureInv'
  <1>1. CASE UNCHANGED vars
    BY <1>1 DEF CaptureInv, Control, FrameMemory, Devices, vars, gpuVars, ownerVars
  <1> QED BY <1>1, CaptureStepKeepsInv, MonitorStepKeepsInv, OwnerStepKeepsInv,
          WorldStepKeepsInv DEF Next

(* Control, frame memory and devices stay as the capture thread needs them. *)
THEOREM CaptureInvHolds == Spec => []CaptureInv
  BY InitCaptureInv, NextKeepsInv, PTL DEF Spec

(* Whenever the duplication is asked for an image no frame of it is held,   *)
(* and the frame to push again on a timeout is not in a released texture.   *)
THEOREM AlwaysReadyToAcquire == Spec => []ReadyToAcquire
  <1>1. CaptureInv => ReadyToAcquire
    BY DEF CaptureInv, FrameMemory, ReadyToAcquire
  <1> QED BY <1>1, CaptureInvHolds, PTL

(* The capture thread dereferences a null pointer in reinit_duplication     *)
(* after a failed reinit(), and nowhere else: stop() releases the device    *)
(* only under nobody's feet.                                                *)
THEOREM NullOnlyAfterFailedReinit == Spec => []NullOnlyAfterGivingUp
  <1>1. CaptureInv => NullOnlyAfterGivingUp
    BY DEF CaptureInv, Devices, NullOnlyAfterGivingUp
  <1> QED BY <1>1, CaptureInvHolds, PTL

-----------------------------------------------------------------------------
(* Rotation                                                                  *)

(* A turn takes the pixels of an image to those of the image on its side. *)
LEMMA TurnStaysInside ==
    ASSUME NEW w \in Nat, NEW h \in Nat, NEW p \in Pixels(w, h)
    PROVE  Turn(h, p) \in Pixels(h, w)
  BY DEF Turn, Pixels

LEMMA TurnedStaysInside ==
    ASSUME NEW r \in Rotations, NEW w \in Nat, NEW h \in Nat, NEW p \in Pixels(w, h)
    PROVE  Turned(r, w, h, p) \in Pixels(OutWidth(r, w, h), OutHeight(r, w, h))
  <1> DEFINE p1 == Turn(h, p)
             p2 == Turn(w, p1)
             p3 == Turn(h, p2)
  <1>1. p1 \in Pixels(h, w)
    BY TurnStaysInside
  <1>2. p2 \in Pixels(w, h)
    BY <1>1, TurnStaysInside
  <1>3. p3 \in Pixels(h, w)
    BY <1>2, TurnStaysInside
  <1> HIDE DEF p1, p2, p3
  <1>4. Turned(r, w, h, p) = CASE r = 90 -> p1 [] r = 180 -> p2 [] r = 270 -> p3
    BY DEF Turned, p1, p2, p3
  <1> QED
    BY <1>1, <1>2, <1>3, <1>4 DEF Rotations, Sideways, OutWidth, OutHeight

(* Rows are counted in pixels in some places and in bytes in others. *)
LEMMA BytesOfRows ==
    ASSUME NEW m \in Int, NEW n \in Int
    PROVE  m * n * 4 = m * (n * 4)
  BY SMT

(* The copy loops turn the image: the pixel that was in column p.x of row    *)
(* p.y is where the encoder, reading rows of out_stride bytes, looks for the *)
(* pixel that r degrees clockwise bring there (prepare_frame_data's three    *)
(* branches against ScreenRecorderBase::initialize's encoder_config).        *)
THEOREM RotationTurnsTheImage ==
    ASSUME NEW r \in Rotations, NEW w \in Nat, NEW h \in Nat, NEW p \in Pixels(w, h)
    PROVE  DstPixel(r, w, h, p.x, p.y)
             = Turned(r, w, h, p).y * OutStride(r, w, h) + Turned(r, w, h, p).x * 4
  <1>1. p.x \in Int /\ p.y \in Int
    BY DEF Pixels
  <1>2. CASE r = 90
    <2>1. Turned(r, w, h, p) = [x |-> h - 1 - p.y, y |-> p.x]
      BY <1>1, <1>2 DEF Turned, Turn
    <2>2. DstPixel(r, w, h, p.x, p.y) = p.x * h * 4 + (h - 1 - p.y) * 4
      BY <1>2 DEF DstPixel
    <2>3. OutStride(r, w, h) = h * 4
      BY <1>2 DEF OutStride, Sideways
    <2>4. p.x * h * 4 = p.x * (h * 4)
      BY <1>1, BytesOfRows
    <2> QED
      BY <1>1, <2>1, <2>2, <2>3, <2>4
  <1>3. CASE r = 180
    <2>1. Turned(r, w, h, p) = [x |-> w - 1 - p.x, y |-> h - 1 - p.y]
      BY <1>1, <1>3 DEF Turned, Turn
    <2>2. DstPixel(r, w, h, p.x, p.y) = (h - 1 - p.y) * w * 4 + (w - 1 - p.x) * 4
      BY <1>3 DEF DstPixel
    <2>3. OutStride(r, w, h) = w * 4
      BY <1>3 DEF OutStride, Sideways
    <2>4. (h - 1 - p.y) * w * 4 = (h - 1 - p.y) * (w * 4)
      BY <1>1, BytesOfRows
    <2> QED
      BY <1>1, <2>1, <2>2, <2>3, <2>4
  <1>4. CASE r = 270
    <2>1. Turned(r, w, h, p) = [x |-> p.y, y |-> w - 1 - p.x]
      BY <1>1, <1>4 DEF Turned, Turn
    <2>2. DstPixel(r, w, h, p.x, p.y) = (w - 1 - p.x) * h * 4 + p.y * 4
      BY <1>4 DEF DstPixel
    <2>3. OutStride(r, w, h) = h * 4
      BY <1>4 DEF OutStride, Sideways
    <2>4. (w - 1 - p.x) * h * 4 = (w - 1 - p.x) * (h * 4)
      BY <1>1, BytesOfRows
    <2> QED
      BY <1>1, <2>1, <2>2, <2>3, <2>4
  <1> QED
    BY <1>2, <1>3, <1>4 DEF Rotations

(* A row-major position inside an m x n image is inside its n * m cells. *)
LEMMA RowMajorInside ==
    ASSUME NEW m \in Nat, NEW n \in Nat, NEW x \in 0 .. (m - 1), NEW y \in 0 .. (n - 1)
    PROVE  y * m + x \in 0 .. (m * n - 1)
  <1>1. (n - 1 - y) * m >= 0 /\ y * m >= 0
    BY SMT
  <1>2. (n - 1 - y) * m = m * n - m - y * m
    BY SMT
  <1> QED
    BY <1>1, <1>2

(* Every pixel is written inside rotation_buffer_, and what push_frame then  *)
(* copies, out_stride bytes for each row of the encoder's image, is exactly  *)
(* that buffer: width and height are swapped in both places or in neither.   *)
THEOREM RotationStaysInBuffer ==
    ASSUME NEW r \in Rotations, NEW w \in Nat, NEW h \in Nat, NEW p \in Pixels(w, h)
    PROVE  /\ DstPixel(r, w, h, p.x, p.y) \in 0 .. (NeededSize(w, h) - 4)
           /\ FrameSize(r, w, h) = NeededSize(w, h)
  <1> DEFINE q == Turned(r, w, h, p)
             m == OutWidth(r, w, h)
             n == OutHeight(r, w, h)
  <1>1. m \in Nat /\ n \in Nat
    BY DEF OutWidth, OutHeight
  <1>2. q.x \in 0 .. (m - 1) /\ q.y \in 0 .. (n - 1)
    BY TurnedStaysInside DEF Pixels
  <1>3. OutStride(r, w, h) = m * 4
    BY DEF OutStride, OutWidth
  <1>4. m * n = w * h
    BY DEF OutWidth, OutHeight
  <1>5. DstPixel(r, w, h, p.x, p.y) = q.y * (m * 4) + q.x * 4
    BY <1>3, RotationTurnsTheImage
  <1> HIDE DEF q, m, n
  <1>6. q.y * m + q.x \in 0 .. (m * n - 1)
    BY <1>1, <1>2, RowMajorInside
  <1>7. DstPixel(r, w, h, p.x, p.y) = (q.y * m + q.x) * 4
    BY <1>1, <1>2, <1>5, BytesOfRows
  <1>8. DstPixel(r, w, h, p.x, p.y) \in 0 .. (NeededSize(w, h) - 4)
    BY <1>1, <1>2, <1>4, <1>6, <1>7 DEF NeededSize
  <1>9. FrameSize(r, w, h) = NeededSize(w, h)
    BY <1>1, <1>3, <1>4 DEF FrameSize, NeededSize, n
  <1> QED
    BY <1>8, <1>9

LEMMA RowMajorUnique ==
    ASSUME NEW m \in Nat, NEW a \in 0 .. (m - 1), NEW b \in 0 .. (m - 1),
           NEW c \in Nat, NEW d \in Nat, c * m + a = d * m + b
    PROVE  a = b /\ c = d
  <1>1. ASSUME NEW i \in Nat, NEW j \in Nat, i < j
        PROVE  i * m + m <= j * m
    <2>1. (j - i - 1) * m >= 0
      BY <1>1, SMT
    <2>2. (j - i - 1) * m = j * m - i * m - m
      BY SMT
    <2> QED
      BY <2>1, <2>2
  <1>2. ~ (c < d) /\ ~ (d < c)
    BY <1>1, SMT
  <1> QED
    BY <1>2

(* Two pixels never go to the same place: no pixel of the captured image is  *)
(* overwritten by another one of it.                                         *)
THEOREM RotationKeepsEveryPixel ==
    ASSUME NEW r \in Rotations, NEW w \in Nat, NEW h \in Nat,
           NEW p \in Pixels(w, h), NEW q \in Pixels(w, h),
           DstPixel(r, w, h, p.x, p.y) = DstPixel(r, w, h, q.x, q.y)
    PROVE  p = q
  <1> DEFINE P == Turned(r, w, h, p)
             Q == Turned(r, w, h, q)
             m == OutWidth(r, w, h)
             n == OutHeight(r, w, h)
  <1>1. m \in Nat /\ n \in Nat
    BY DEF OutWidth, OutHeight
  <1>2. P.x \in 0 .. (m - 1) /\ P.y \in 0 .. (n - 1)
    BY TurnedStaysInside DEF Pixels
  <1>3. Q.x \in 0 .. (m - 1) /\ Q.y \in 0 .. (n - 1)
    BY TurnedStaysInside DEF Pixels
  <1>4. P.y * (m * 4) + P.x * 4 = Q.y * (m * 4) + Q.x * 4
    BY RotationTurnsTheImage DEF OutStride, OutWidth
  <1> HIDE DEF P, Q, m, n
  <1>5. \A a, b \in 0 .. (m - 1), c, d \in 0 .. (n - 1) :
           c * (m * 4) + a * 4 = d * (m * 4) + b * 4 => a = b /\ c = d
    <2>1. TAKE a, b \in 0 .. (m - 1), c, d \in 0 .. (n - 1)
    <2>2. HAVE c * (m * 4) + a * 4 = d * (m * 4) + b * 4
    <2>3. c \in Nat /\ d \in Nat /\ a \in Int /\ b \in Int
      BY <1>1
    <2>4. c * m * 4 = c * (m * 4) /\ d * m * 4 = d * (m * 4)
      BY <1>1, <2>3, BytesOfRows
    <2>5. c * m + a = d * m + b
      BY <1>1, <2>2, <2>3, <2>4
    <2> QED
      BY <1>1, <2>3, <2>5, RowMajorUnique
  <1>6. P.x = Q.x /\ P.y = Q.y
    BY <1>2, <1>3, <1>4, <1>5, SMT
  <1>7. p.x \in Int /\ p.y \in Int /\ q.x \in Int /\ q.y \in Int
    BY DEF Pixels
  <1>8. p.x = q.x /\ p.y = q.y
    <2>1. CASE r = 90
      <3>1. P = [x |-> h - 1 - p.y, y |-> p.x] /\ Q = [x |-> h - 1 - q.y, y |-> q.x]
        BY <1>7, <2>1 DEF Turned, Turn, P, Q
      <3> QED
        BY <1>6, <1>7, <3>1
    <2>2. CASE r = 180
      <3>1. /\ P = [x |-> w - 1 - p.x, y |-> h - 1 - p.y]
            /\ Q = [x |-> w - 1 - q.x, y |-> h - 1 - q.y]
        BY <1>7, <2>2 DEF Turned, Turn, P, Q
      <3> QED
        BY <1>6, <1>7, <3>1
    <2>3. CASE r = 270
      <3>1. P = [x |-> p.y, y |-> w - 1 - p.x] /\ Q = [x |-> q.y, y |-> w - 1 - q.x]
        BY <1>7, <2>3 DEF Turned, Turn, P, Q
      <3> QED
        BY <1>6, <1>7, <3>1
    <2> QED
      BY <2>1, <2>2, <2>3 DEF Rotations
  <1> QED
    BY <1>8 DEF Pixels

(* Every place of the image the encoder reads is written: nothing of an      *)
(* earlier frame stays in rotation_buffer_.                                  *)
THEOREM RotationFillsBuffer ==
    ASSUME NEW r \in Rotations, NEW w \in Nat, NEW h \in Nat,
           NEW q \in Pixels(OutWidth(r, w, h), OutHeight(r, w, h))
    PROVE  \E p \in Pixels(w, h) :
             DstPixel(r, w, h, p.x, p.y) = q.y * OutStride(r, w, h) + q.x * 4
  <1>1. \E p \in Pixels(w, h) : Turned(r, w, h, p) = q
    <2>1. CASE r = 90
      <3> DEFINE p == [x |-> q.y, y |-> h - 1 - q.x]
      <3>1. p \in Pixels(w, h)
        BY <2>1 DEF Pixels, OutWidth, OutHeight, Sideways
      <3>2. Turned(r, w, h, p) = q
        BY <2>1 DEF Turned, Turn, Pixels, OutWidth, OutHeight, Sideways
      <3> QED
        BY <3>1, <3>2
    <2>2. CASE r = 180
      <3> DEFINE p == [x |-> w - 1 - q.x, y |-> h - 1 - q.y]
      <3>1. p \in Pixels(w, h)
        BY <2>2 DEF Pixels, OutWidth, OutHeight, Sideways
      <3>2. Turned(r, w, h, p) = q
        BY <2>2 DEF Turned, Turn, Pixels, OutWidth, OutHeight, Sideways
      <3> QED
        BY <3>1, <3>2
    <2>3. CASE r = 270
      <3> DEFINE p == [x |-> w - 1 - q.y, y |-> q.x]
      <3>1. p \in Pixels(w, h)
        BY <2>3 DEF Pixels, OutWidth, OutHeight, Sideways
      <3>2. Turned(r, w, h, p) = q
        BY <2>3 DEF Turned, Turn, Pixels, OutWidth, OutHeight, Sideways
      <3> QED
        BY <3>1, <3>2
    <2> QED
      BY <2>1, <2>2, <2>3 DEF Rotations
  <1>2. PICK p \in Pixels(w, h) : Turned(r, w, h, p) = q
    BY <1>1
  <1>3. DstPixel(r, w, h, p.x, p.y) = q.y * OutStride(r, w, h) + q.x * 4
    BY <1>2, RotationTurnsTheImage
  <1> QED
    BY <1>3
=============================================================================
