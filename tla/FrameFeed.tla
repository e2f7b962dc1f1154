----------------------------- MODULE FrameFeed -----------------------------
(* What an encoder promises the ring of segments: a window of encoded       *)
(* frames that only ever gains later frames at one end, gives up its oldest *)
(* frame when it is full, and may be emptied. RollingSegments relies on it  *)
(* when it takes a CircularBuffer for the frames oldest .. produced - 1.    *)
EXTENDS Integers, Sequences

CONSTANT Capacity   \* frames the window holds, 0 for no limit

VARIABLES newest,   \* timestamp of the last frame delivered, -1 before that
          window    \* timestamps of the frames not yet taken away

Init == newest = -1 /\ window = <<>>

Full == Capacity > 0 /\ Len(window) >= Capacity

Deliver ==
    /\ newest' \in Nat
    /\ newest' > newest
    /\ window' = Append(IF Full THEN Tail(window) ELSE window, newest')

Clear == window' = <<>> /\ UNCHANGED newest

Next == Deliver \/ Clear

Spec == Init /\ [][Next]_<<newest, window>>
=============================================================================
