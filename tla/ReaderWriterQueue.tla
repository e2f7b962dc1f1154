------------------------- MODULE ReaderWriterQueue -------------------------
(* The queue between a capturing thread and an encoding or mixing thread     *)
(* (src/src/utils/readerwriterqueue.h): a circle of blocks, each a circular  *)
(* buffer. The producer fills the tail block and moves on when it is full,   *)
(* the consumer empties the front block and moves on when it is empty.       *)
(*                                                                           *)
(* A step reads or writes one location the other thread uses, together with  *)
(* what only its own thread uses. Memory is sequentially consistent: the     *)
(* fences of the code are taken to order what they are placed between.       *)
(*                                                                           *)
(* Definitions marked "Slip:" are plausible errors, used by no specification *)
(* but substituted for the definition they precede.                          *)
EXTENDS Integers, SequencesExt

CONSTANTS
    VideoSize,        \* the queue of VideoEncoderQueue is constructed with 1024
    AudioSize,        \* the queues of AudioMixer with the default, 15
    MAX_BLOCK_SIZE,   \* 512
    MaxElement,       \* bound on the elements the producer offers
    MaxBlocks         \* bound on the blocks: make_block fails beyond it

(* A power of two has no odd divisor but 1. *)
IsPow2(p) == \A d \in 2 .. p : p % d = 0 => d % 2 = 0

(* The queues are constructed for at least one element; the second line is   *)
(* what the constructor asserts.                                             *)
ASSUME QueueAssumption ==
    /\ VideoSize \in Nat \ {0} /\ AudioSize \in Nat \ {0}
    /\ MAX_BLOCK_SIZE \in Nat \ {0, 1} /\ IsPow2(MAX_BLOCK_SIZE)
    /\ MaxElement \in Nat /\ MaxBlocks \in Nat

VARIABLES
    size,        \* the argument of the constructor
    canAlloc,    \* the producer calls enqueue (audio), not try_enqueue (video)
    largestBlockSize,
    blocks,      \* all blocks: their indices, size, next block and elements
    frontBlock, tailBlock,
    producer,    \* inner_enqueue: its step, and its local variables
    consumer,    \* try_dequeue or peek: its step, and its local variables
    offered,     \* number of the element the producer offers or offered last
    taken,       \* the element try_dequeue returned last
    destroyed    \* the elements the destructor destroyed

allocVars == <<size, canAlloc, largestBlockSize>>
vars == <<allocVars, blocks, frontBlock, tailBlock, producer, consumer,
          offered, taken, destroyed>>

Raw == 0   \* an element's place while no element is in it

----------------------------------------------------------------------------
(* Blocks                                                                    *)

(* The smallest power of two that is not below x. *)
ceilToPow2(x) == CHOOSE p \in x .. 2 * x - 1 : IsPow2(p)

(* Block's constructor; next is set by the caller. *)
make_block(capacity, next) ==
    [front |-> 0, localTail |-> 0, tail |-> 0, localFront |-> 0,
     next |-> next, size |-> capacity, data |-> [i \in 0 .. capacity - 1 |-> Raw]]

(* Slip: no spare block for a producer and a consumer in different blocks. *)
NoSpareBlockCount(n) == (n + MAX_BLOCK_SIZE - 2) \div (MAX_BLOCK_SIZE - 1)

(* Blocks of a queue that is larger than two blocks. *)
initialBlockCount(n) ==
    (n + MAX_BLOCK_SIZE * 2 - 3) \div (MAX_BLOCK_SIZE - 1)

(* The circle the constructor builds. *)
InitialBlocks(n) ==
    IF ceilToPow2(n + 1) > MAX_BLOCK_SIZE * 2
    THEN LET count == initialBlockCount(n)
         IN [b \in 1 .. count |-> make_block(MAX_BLOCK_SIZE, (b % count) + 1)]
    ELSE <<make_block(ceilToPow2(n + 1), 1)>>

After(b, i) == (i + 1) % blocks[b].size

(* The indices of a block that hold elements, in the order of removal. *)
Filled(b) ==
    LET n == (blocks[b].tail - blocks[b].front) % blocks[b].size
    IN [k \in 1 .. n |-> (blocks[b].front + k - 1) % blocks[b].size]

(* An element that the consumer has moved out keeps its place until front is *)
(* advanced past it.                                                         *)
Value(b, i) ==
    IF consumer.pc = "release" /\ consumer.block = b /\ consumer.at = i
    THEN consumer.element ELSE blocks[b].data[i]

Elements(b) == [k \in DOMAIN Filled(b) |-> Value(b, Filled(b)[k])]

(* The elements from the front to the tail block. *)
Queue ==
    LET from[b \in DOMAIN blocks] ==
            IF b = tailBlock THEN Elements(b)
            ELSE Elements(b) \o from[blocks[b].next]
    IN from[frontBlock]

(* Slip: the destructor stops when it reaches the tail block. *)
RemainingToTail ==
    LET from[b \in DOMAIN blocks] ==
            IF blocks[b].next \in {frontBlock, tailBlock} THEN Elements(b)
            ELSE Elements(b) \o from[blocks[b].next]
    IN from[frontBlock]

(* What the destructor walks over: every block of the circle. *)
Remaining ==
    LET from[b \in DOMAIN blocks] ==
            IF blocks[b].next = frontBlock THEN Elements(b)
            ELSE Elements(b) \o from[blocks[b].next]
    IN from[frontBlock]

----------------------------------------------------------------------------
(* block, at: the block and the index in it that the call works on; next:    *)
(* the block it may move to; wasFull, wasEmpty: history, at the call.        *)
IdleProducer == [pc |-> "idle", block |-> 1, at |-> 0, next |-> 1, wasFull |-> FALSE]

IdleConsumer == [pc |-> "idle", call |-> "none", block |-> 1, at |-> 0, next |-> 1,
                 element |-> Raw, wasEmpty |-> FALSE]

Init ==
    /\ canAlloc \in BOOLEAN
    /\ size = IF canAlloc THEN AudioSize ELSE VideoSize
    /\ blocks = InitialBlocks(size)
    /\ largestBlockSize = blocks[1].size
    /\ frontBlock = 1
    /\ tailBlock = 1
    /\ producer = IdleProducer
    /\ consumer = IdleConsumer
    /\ offered = 0
    /\ taken = 0
    /\ destroyed = {}

----------------------------------------------------------------------------
(* inner_enqueue                                                             *)

producerFrame == <<size, canAlloc, frontBlock, consumer, taken, destroyed>>

(* The call: does the tail block look full, by the last front that was seen? *)
EnqueueStart ==
    /\ producer.pc = "idle"
    /\ offered < MaxElement
    /\ offered' = offered + 1
    /\ LET tb == blocks[tailBlock] IN
       producer' = [IdleProducer EXCEPT
           !.pc = IF After(tailBlock, tb.tail) # tb.localFront
                  THEN "fill" ELSE "reread",
           !.block = tailBlock, !.at = tb.tail,
           !.wasFull = Len(Queue) >= size]
    /\ UNCHANGED <<producerFrame, largestBlockSize, blocks, tailBlock>>

(* Is it full by the front as it is now? *)
EnqueueRereadsFront ==
    /\ producer.pc = "reread"
    /\ LET b == producer.block IN
       /\ blocks' = [blocks EXCEPT ![b].localFront = blocks[b].front]
       /\ producer' = [producer EXCEPT
              !.pc = IF After(b, producer.at) # blocks[b].front THEN "fill" ELSE "look"]
    /\ UNCHANGED <<producerFrame, largestBlockSize, tailBlock, offered>>

(* Construct the element in its place. *)
EnqueueFills ==
    /\ producer.pc = "fill"
    /\ blocks' = [blocks EXCEPT ![producer.block].data[producer.at] = offered]
    /\ producer' = [producer EXCEPT !.pc = "publish"]
    /\ UNCHANGED <<producerFrame, largestBlockSize, tailBlock, offered>>

EnqueueReturns == producer' = IdleProducer

(* Let the consumer have it. *)
EnqueuePublishes ==
    /\ producer.pc = "publish"
    /\ LET b == producer.block IN
       blocks' = [blocks EXCEPT ![b].tail = After(b, producer.at)]
    /\ EnqueueReturns
    /\ UNCHANGED <<producerFrame, largestBlockSize, tailBlock, offered>>

(* Slip: whatever block comes next is taken. *)
EnqueueLooksNowhere ==
    /\ producer.pc = "look"
    /\ producer' = [producer EXCEPT !.pc = "takeNext",
                                    !.next = blocks[producer.block].next]
    /\ UNCHANGED <<producerFrame, largestBlockSize, blocks, tailBlock, offered>>

(* The tail block is full. The next one may be used unless the consumer is   *)
(* in it: otherwise a block is allocated or the element refused.             *)
EnqueueLooksAhead ==
    /\ producer.pc = "look"
    /\ IF blocks[producer.block].next # frontBlock
       THEN producer' = [producer EXCEPT
                !.pc = "takeNext", !.next = blocks[producer.block].next]
       ELSE IF canAlloc
       THEN producer' = [producer EXCEPT !.pc = "allocate"]
       ELSE EnqueueReturns
    /\ UNCHANGED <<producerFrame, largestBlockSize, blocks, tailBlock, offered>>

(* The free block ahead is empty, so that the element is its first. *)
EnqueueTakesNext ==
    /\ producer.pc = "takeNext"
    /\ LET b == producer.next IN
       blocks' = [blocks EXCEPT ![b].localFront = blocks[b].front,
                                ![b].data[blocks[b].tail] = offered]
    /\ producer' = [producer EXCEPT !.pc = "publishNext"]
    /\ UNCHANGED <<producerFrame, largestBlockSize, tailBlock, offered>>

EnqueuePublishesInNext ==
    /\ producer.pc = "publishNext"
    /\ LET b == producer.next IN
       blocks' = [blocks EXCEPT ![b].tail = After(b, blocks[b].tail)]
    /\ producer' = [producer EXCEPT !.pc = "advance"]
    /\ UNCHANGED <<producerFrame, largestBlockSize, tailBlock, offered>>

(* make_block fails, for want of memory. *)
EnqueueCannotAllocate ==
    /\ producer.pc = "allocate"
    /\ EnqueueReturns
    /\ UNCHANGED <<producerFrame, largestBlockSize, blocks, tailBlock, offered>>

NewBlockSize == IF largestBlockSize >= MAX_BLOCK_SIZE
                THEN largestBlockSize ELSE largestBlockSize * 2

(* A block twice the largest, up to the maximum, with the element in it. It  *)
(* will lie between the tail block and the next one.                         *)
EnqueueAllocates ==
    /\ producer.pc = "allocate"
    /\ Len(blocks) < MaxBlocks
    /\ largestBlockSize' = NewBlockSize
    /\ LET new == make_block(NewBlockSize, blocks[producer.block].next) IN
       blocks' = Append(blocks, [new EXCEPT !.data[0] = offered, !.tail = 1,
                                            !.localTail = 1])
    /\ producer' = [producer EXCEPT !.pc = "link", !.next = Len(blocks) + 1]
    /\ UNCHANGED <<producerFrame, tailBlock, offered>>

EnqueueLinks ==
    /\ producer.pc = "link"
    /\ blocks' = [blocks EXCEPT ![producer.block].next = producer.next]
    /\ producer' = [producer EXCEPT !.pc = "advance"]
    /\ UNCHANGED <<producerFrame, largestBlockSize, tailBlock, offered>>

(* Only now may the consumer follow into the new tail block. *)
EnqueueAdvances ==
    /\ producer.pc = "advance"
    /\ tailBlock' = producer.next
    /\ EnqueueReturns
    /\ UNCHANGED <<producerFrame, largestBlockSize, blocks, offered>>

----------------------------------------------------------------------------
(* try_dequeue and peek                                                      *)

consumerFrame == <<allocVars, tailBlock, producer, offered, destroyed>>

(* The call: is there an element, by the last tail that was seen? Only the    *)
(* mixer peeks.                                                              *)
DequeueStart(call) ==
    /\ consumer.pc = "idle"
    /\ call = "peek" => canAlloc
    /\ LET fb == blocks[frontBlock] IN
       consumer' = [IdleConsumer EXCEPT
           !.pc = IF fb.front # fb.localTail THEN "take" ELSE "reread",
           !.call = call, !.block = frontBlock, !.at = fb.front,
           !.wasEmpty = (Queue = <<>>)]
    /\ UNCHANGED <<consumerFrame, blocks, frontBlock, taken>>

DequeueReadsTail(next) ==
    LET b == consumer.block IN
    /\ blocks' = [blocks EXCEPT ![b].localTail = blocks[b].tail]
    /\ consumer' = [consumer EXCEPT
           !.pc = IF consumer.at # blocks[b].tail THEN "take" ELSE next]
    /\ UNCHANGED <<consumerFrame, frontBlock, taken>>

(* Slip: the shadow copy of the tail is trusted. *)
DequeueTrustsShadow ==
    /\ consumer.pc = "reread"
    /\ consumer' = [consumer EXCEPT !.pc = "compare"]
    /\ UNCHANGED <<consumerFrame, blocks, frontBlock, taken>>

(* Is there one by the tail as it is now? *)
DequeueRereadsTail == consumer.pc = "reread" /\ DequeueReadsTail("compare")

DequeueReturns == consumer' = IdleConsumer

(* Slip: the front block is not looked at again. *)
DequeueSkipsRecheck ==
    /\ consumer.pc = "compare"
    /\ IF frontBlock # tailBlock
       THEN consumer' = [consumer EXCEPT !.pc = "peekNext"]
       ELSE DequeueReturns
    /\ UNCHANGED <<consumerFrame, blocks, frontBlock, taken>>

(* The front block was empty: the queue is, if it is the tail block too. *)
DequeueComparesBlocks ==
    /\ consumer.pc = "compare"
    /\ IF consumer.block # tailBlock
       THEN consumer' = [consumer EXCEPT !.pc = "recheck"]
       ELSE DequeueReturns
    /\ UNCHANGED <<consumerFrame, blocks, frontBlock, taken>>

(* The producer may have filled the front block before it moved on, so it is *)
(* read once more now that it cannot change any more.                        *)
DequeueRechecks == consumer.pc = "recheck" /\ DequeueReadsTail("peekNext")

(* The next block has an element: assert(nextBlockFront != nextBlockTail).   *)
(* peek returns a pointer to it, try_dequeue moves there.                    *)
DequeueLooksAtNext ==
    /\ consumer.pc = "peekNext"
    /\ LET b == blocks[consumer.block].next IN
       IF consumer.call = "peek"
       THEN DequeueReturns /\ UNCHANGED blocks
       ELSE /\ consumer' = [consumer EXCEPT !.pc = "move", !.next = b,
                                                 !.at = blocks[b].front]
            /\ blocks' = [blocks EXCEPT ![b].localTail = blocks[b].tail]
    /\ UNCHANGED <<consumerFrame, frontBlock, taken>>

(* The producer may use the old front block from now on. *)
DequeueMoves ==
    /\ consumer.pc = "move"
    /\ frontBlock' = consumer.next
    /\ consumer' = [consumer EXCEPT !.pc = "take", !.block = consumer.next]
    /\ UNCHANGED <<consumerFrame, blocks, taken>>

ElementAtHand == blocks[consumer.block].data[consumer.at]

(* peek returns a pointer to the element and leaves it where it is. *)
PeekReturns ==
    /\ consumer.pc = "take"
    /\ consumer.call = "peek"
    /\ DequeueReturns
    /\ UNCHANGED <<consumerFrame, blocks, frontBlock, taken>>

(* Move the element out and destroy what is left in its place. *)
DequeueTakes ==
    /\ consumer.pc = "take"
    /\ consumer.call = "try_dequeue"
    /\ consumer' = [consumer EXCEPT !.pc = "release", !.element = ElementAtHand]
    /\ blocks' = [blocks EXCEPT ![consumer.block].data[consumer.at] = Raw]
    /\ UNCHANGED <<consumerFrame, frontBlock, taken>>

(* The producer may use its place from now on. *)
DequeueReleases ==
    /\ consumer.pc = "release"
    /\ LET b == consumer.block IN
       blocks' = [blocks EXCEPT ![b].front = After(b, consumer.at)]
    /\ taken' = consumer.element
    /\ DequeueReturns
    /\ UNCHANGED <<consumerFrame, frontBlock>>

----------------------------------------------------------------------------
(* ~ReaderWriterQueue, when neither thread uses the queue any more. *)
Destroy ==
    /\ producer.pc = "idle"
    /\ consumer.pc = "idle"
    /\ producer' = [producer EXCEPT !.pc = "gone"]
    /\ consumer' = [consumer EXCEPT !.pc = "gone"]
    /\ destroyed' = ToSet(Remaining)
    /\ UNCHANGED <<allocVars, blocks, frontBlock, tailBlock, offered, taken>>

EnqueueStep ==
    \/ EnqueueRereadsFront \/ EnqueueFills \/ EnqueuePublishes \/ EnqueueLooksAhead
    \/ EnqueueTakesNext \/ EnqueuePublishesInNext \/ EnqueueCannotAllocate
    \/ EnqueueAllocates \/ EnqueueLinks \/ EnqueueAdvances

DequeueStep ==
    \/ DequeueRereadsTail \/ DequeueComparesBlocks \/ DequeueRechecks
    \/ DequeueLooksAtNext \/ DequeueMoves \/ PeekReturns \/ DequeueTakes
    \/ DequeueReleases

Next ==
    \/ EnqueueStart \/ EnqueueStep
    \/ (\E call \in {"try_dequeue", "peek"} : DequeueStart(call)) \/ DequeueStep
    \/ Destroy

Spec == Init /\ [][Next]_vars

----------------------------------------------------------------------------
(* Properties                                                                *)

Contents == INSTANCE Fifo WITH queue <- Queue, Element <- 1 .. MaxElement

(* The circle of blocks is a queue: whatever the two threads do between each *)
(* other's steps, elements leave in the order they entered, none is skipped  *)
(* when the producer moves on while the consumer looks, none is read before  *)
(* it is written. VideoPipeline and AudioPipeline take this for granted.     *)
ImplementsFifo == Contents!Spec

(* "Pre-allocate space for 1024 frames" (VideoEncoderQueue.cpp:13): an       *)
(* element is refused only if the queue held as many elements as it was      *)
(* constructed for when try_enqueue was called, wherever in the circle the   *)
(* consumer is; and with enqueue none is, as long as there is memory.        *)
RefusesOnlyWhenFull ==
    [][producer.pc = "look" /\ producer'.pc = "idle" => ~canAlloc /\ producer.wasFull]_vars

(* The element a pointer returned by peek points to. *)
Peeked ==
    IF consumer.pc = "take" THEN ElementAtHand
    ELSE LET b == blocks[consumer.block].next IN blocks[b].data[blocks[b].front]

(* What the consumer is told is true: there is no element only if there was  *)
(* none when it called, and what peek points at is what will leave next.     *)
ConsumerIsToldTheTruth ==
    [][consumer.pc # "idle" /\ consumer'.pc = "idle" =>
          /\ consumer.pc = "compare" => consumer.wasEmpty
          /\ consumer.call = "peek" /\ consumer.pc # "compare" =>
                 Peeked = Head(Queue)]_vars

(* The code's assertions: a free block ahead of the producer is empty        *)
(* (line 588), the block a consumer moves on to is not (lines 351 and 416).  *)
AssertionsHold ==
    /\ producer.pc = "takeNext" =>
           blocks[producer.next].front = blocks[producer.next].tail
    /\ consumer.pc = "peekNext" =>
           LET b == blocks[consumer.block].next IN blocks[b].front # blocks[b].tail

(* The destructor destroys every element left inside, and only those: no     *)
(* element is in a block that the way from the front to the tail misses.     *)
NothingLeaks == producer.pc = "gone" => destroyed = ToSet(Queue)
=============================================================================
