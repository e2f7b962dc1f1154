--------------------------- MODULE FrameRotation ---------------------------
(* ScreenRecorderBase::prepare_frame_data: where the copy loops of the three *)
(* rotations put pixel (x, y) of a captured image of w x h pixels, and that  *)
(* the rotated image is what the encoder was configured for and what         *)
(* VideoEncoderQueue::push_frame copies. Byte offsets are mathematical       *)
(* integers: the code computes them in int, which 4 * w * h must fit.        *)
(* A pixel has 4 bytes; the image it is read from may have padded rows.      *)
EXTENDS Integers

(* The rotations that copy: kUnspecified and kRotationIdentity return the    *)
(* captured image itself, with its own stride.                               *)
Rotations == {90, 180, 270}

Sideways(r) == r \in {90, 270}

(* encoder_config.width_ and height_, as ScreenRecorderBase::initialize sets them *)
OutWidth(r, w, h)  == IF Sideways(r) THEN h ELSE w
OutHeight(r, w, h) == IF Sideways(r) THEN w ELSE h

(* out_stride, and needed_size of rotation_buffer_ *)
OutStride(r, w, h) == IF Sideways(r) THEN h * 4 ELSE w * 4
NeededSize(w, h)   == w * h * 4

(* dst_pixel - dst for the source pixel in column x of row y *)
DstPixel(r, w, h, x, y) ==
    CASE r = 90  -> x * h * 4 + (h - 1 - y) * 4
      [] r = 180 -> (h - 1 - y) * w * 4 + (w - 1 - x) * 4
      [] r = 270 -> (w - 1 - x) * h * 4 + y * 4

(* RawVideoFrame's size, and so the bytes push_frame copies *)
FrameSize(r, w, h) == OutStride(r, w, h) * OutHeight(r, w, h)
-----------------------------------------------------------------------------
(* What turning an image clockwise means: the pixel in column x of row y of  *)
(* an image of h rows goes to row x, and the bottom row comes to the left.   *)
Turn(h, p) == [x |-> h - 1 - p.y, y |-> p.x]

(* 180 degrees are two turns, 270 are three; a turn swaps width and height. *)
Turned(r, w, h, p) ==
    CASE r = 90  -> Turn(h, p)
      [] r = 180 -> Turn(w, Turn(h, p))
      [] r = 270 -> Turn(h, Turn(w, Turn(h, p)))

Pixels(w, h) == [x : 0 .. (w - 1), y : 0 .. (h - 1)]
=============================================================================
