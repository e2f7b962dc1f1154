-------------------------------- MODULE Fifo --------------------------------
(* What a queue promises its two users: elements leave it in the order they  *)
(* entered it, each once and unchanged, and nothing else happens to it.      *)
(* VideoPipeline and AudioPipeline take their queues for this.               *)
EXTENDS Integers, Sequences

CONSTANT Element

VARIABLES queue,   \* the elements inside, the oldest first
          taken    \* the element that left last, 0 before that

Init == queue = <<>> /\ taken = 0

Put(e) == queue' = Append(queue, e) /\ UNCHANGED taken

Take == queue # <<>> /\ queue' = Tail(queue) /\ taken' = Head(queue)

Next == Take \/ \E e \in Element : Put(e)

Spec == Init /\ [][Next]_<<queue, taken>>
=============================================================================
