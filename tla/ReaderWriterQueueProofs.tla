---------------------- MODULE ReaderWriterQueueProofs ----------------------
(* Proofs about ReaderWriterQueue, for every size of the two queues, every   *)
(* maximal block size and any number of blocks and elements.                 *)
EXTENDS ReaderWriterQueue, WellFoundedInduction, TLAPS

----------------------------------------------------------------------------
(* The inductive invariant                                                   *)

(* The places from i on to j in a block of n. *)
Ahead(n, i, j) == IF i <= j THEN j - i ELSE j - i + n

Block == [front : Nat, localTail : Nat, tail : Nat, localFront : Nat,
          next : Nat, size : Nat, data : UNION {[0 .. n - 1 -> Nat] : n \in Nat}]

Producer == [pc : {"idle", "reread", "fill", "publish", "look", "takeNext", "publishNext",
                   "allocate", "link", "advance", "gone"},
             block : Nat, at : Nat, next : Nat, wasFull : BOOLEAN]

Consumer == [pc : {"idle", "reread", "compare", "recheck", "peekNext", "move", "take",
                   "release", "gone"},
             call : {"none", "try_dequeue", "peek"}, block : Nat, at : Nat, next : Nat,
             element : Nat, wasEmpty : BOOLEAN]

(* A block has room for an element and for the place that stays free. *)
BlockOK(b) ==
    /\ blocks[b].size >= 2
    /\ blocks[b].front < blocks[b].size /\ blocks[b].localTail < blocks[b].size
    /\ blocks[b].tail < blocks[b].size /\ blocks[b].localFront < blocks[b].size
    /\ blocks[b].data \in [0 .. blocks[b].size - 1 -> Nat]

(* The type invariant. *)
TypeOK ==
    /\ largestBlockSize \in Nat /\ largestBlockSize >= 2
    /\ blocks \in Seq(Block)
    /\ \A b \in 1 .. Len(blocks) : BlockOK(b)
    /\ frontBlock \in 1 .. Len(blocks) /\ tailBlock \in 1 .. Len(blocks)
    /\ producer \in Producer
    /\ consumer \in Consumer
    /\ offered \in Nat

(* What a side has seen of the other's index lies behind what it is: the     *)
(* consumer's shadow of the tail between front and tail, the producer's      *)
(* shadow of the front behind the front.                                     *)
Shadows ==
    \A b \in 1 .. Len(blocks) :
        /\ Ahead(blocks[b].size, blocks[b].front, blocks[b].localTail)
               <= Ahead(blocks[b].size, blocks[b].front, blocks[b].tail)
        /\ Ahead(blocks[b].size, blocks[b].front, blocks[b].tail)
               <= Ahead(blocks[b].size, blocks[b].localFront, blocks[b].tail)

Empty(b) == blocks[b].front = blocks[b].tail

(* What the producer has found out stays true until it acts on it. *)
ProducerKnows ==
    /\ producer.pc \notin {"idle", "gone"} =>
           producer.block = tailBlock /\ producer.at = blocks[tailBlock].tail
    /\ producer.pc \in {"fill", "publish"} =>
           After(tailBlock, producer.at) # blocks[tailBlock].localFront
    /\ producer.pc \in {"takeNext", "publishNext", "advance"} =>
           producer.next = blocks[tailBlock].next /\ producer.next # frontBlock
    /\ producer.pc = "publishNext" =>
           blocks[producer.next].localFront = blocks[producer.next].front
    /\ producer.pc = "link" =>
           /\ producer.next = Len(blocks)
           /\ producer.next \notin {frontBlock, tailBlock}
           /\ blocks[producer.next].next = blocks[tailBlock].next
    /\ producer.pc \in {"link", "advance"} => ~Empty(producer.next)

(* And so for the consumer. *)
ConsumerKnows ==
    /\ consumer.pc \notin {"idle", "gone"} => consumer.block = frontBlock
    /\ consumer.pc \notin {"idle", "gone", "move"} => consumer.at = blocks[frontBlock].front
    /\ consumer.pc \in {"take", "release"} => blocks[frontBlock].localTail # consumer.at
    /\ consumer.pc \in {"recheck", "peekNext", "move"} => frontBlock # tailBlock
    /\ consumer.pc \in {"peekNext", "move"} => Empty(frontBlock)
    /\ consumer.pc = "move" =>
           /\ consumer.next = blocks[frontBlock].next
           /\ consumer.at = blocks[consumer.next].front
           /\ blocks[consumer.next].localTail # consumer.at

(* The blocks of the circle: a new one belongs to it once it is linked.      *)
Linked == {b \in 1 .. Len(blocks) : producer.pc = "link" => b # producer.next}

(* pos numbers the n blocks of the circle, from the front block on.          *)
InCircle(n, pos) ==
    /\ \A b \in Linked : pos[b] \in 0 .. n - 1
    /\ pos[frontBlock] = 0
    /\ \A a, b \in Linked : pos[a] = pos[b] => a = b
    /\ \A b \in Linked :
          /\ blocks[b].next \in Linked
          /\ IF pos[b] = n - 1 THEN blocks[b].next = frontBlock
             ELSE pos[blocks[b].next] = pos[b] + 1

(* From the front to the tail block all but the first have elements, and     *)
(* behind the tail block none, but for the block about to become it.         *)
Occupied(pos) ==
    /\ \A b \in Linked : 0 < pos[b] /\ pos[b] <= pos[tailBlock] => ~Empty(b)
    /\ \A b \in Linked : pos[tailBlock] < pos[b] =>
           Empty(b) \/ (producer.pc = "advance" /\ b = producer.next)

Circle == \E n \in Nat : \E pos \in [Linked -> Int] : InCircle(n, pos) /\ Occupied(pos)

IInv == TypeOK /\ Shadows /\ ProducerKnows /\ ConsumerKnows /\ Circle

----------------------------------------------------------------------------
(* What the constructor builds                                               *)

LEMMA LeastNatural ==
  ASSUME NEW T \in SUBSET Nat, T # {}
  PROVE  \E n \in T : \A m \in T : n <= m
  <1> DEFINE R == OpToRel(<, Nat)
  <1>1. IsWellFoundedOn(R, Nat)
    BY NatLessThanWellFounded
  <1>2. PICK n \in T : \A m \in T : <<m, n>> \notin R
    BY <1>1, WFMin
  <1>3. \A m \in T : m < n => <<m, n>> \in R
    BY DEF OpToRel
  <1> HIDE DEF R
  <1>4. \A m \in T : ~(m < n)
    BY <1>2, <1>3
  <1> QED BY <1>4

(* An odd divisor of 2 * p divides p.                                        *)
LEMMA Pow2Doubles ==
  ASSUME NEW p \in Nat \ {0}, IsPow2(p)
  PROVE  IsPow2(2 * p)
  <1> SUFFICES ASSUME NEW d \in 2 .. 2 * p, (2 * p) % d = 0, d % 2 # 0
               PROVE  FALSE
    BY DEF IsPow2
  <1>1. PICK m \in Int : 2 * p = d * m
    <2>1. 2 * p = d * ((2 * p) \div d) + ((2 * p) % d) /\ (2 * p) \div d \in Int
      OBVIOUS
    <2> QED BY <2>1
  <1>2. PICK e \in Int : d = 2 * e + 1
    <2>1. d = 2 * (d \div 2) + 1
      OBVIOUS
    <2> QED BY <2>1
  <1>3. PICK k \in Int : m = 2 * k
    <2>1. d * m = 2 * (e * m) + m
      BY <1>2
    <2>2. m = 2 * (p - e * m) /\ p - e * m \in Int
      BY <1>1, <2>1
    <2> QED BY <2>2
  <1>4. p = d * k
    <2>1. d * m = 2 * (d * k)
      BY <1>3
    <2> QED BY <1>1, <2>1
  <1>5. p % d = 0
    <2>1. /\ p = d * (p \div d) + (p % d) /\ p \div d \in Int
          /\ 0 <= (p % d) /\ (p % d) < d
      OBVIOUS
    <2> DEFINE q == p \div d
               r == p % d
    <2>2. r = d * (k - q) /\ q \in Int /\ r \in Int /\ 0 <= r /\ r < d
      BY <1>4, <2>1
    <2> HIDE DEF q, r
    <2>3. k - q >= 1 => d * (k - q) >= d
      BY <2>2
    <2>4. k - q <= -1 => d * (k - q) < 0
      BY <2>2
    <2>5. k - q = 0
      BY <2>2, <2>3, <2>4
    <2>6. r = 0
      BY <2>2, <2>5
    <2> QED BY <2>6 DEF r
  <1>6. d <= p
    <2>1. k >= 1
      <3>1. k <= 0 => d * k <= 0
        OBVIOUS
      <3> QED BY <1>4, <3>1
    <2>2. d * k >= d
      BY <2>1
    <2> QED BY <1>4, <2>2
  <1> QED BY <1>5, <1>6 DEF IsPow2

(* So the greatest power of two up to x is x, or its double is the next one. *)
LEMMA CeilToPow2 ==
  ASSUME NEW x \in Nat \ {0}
  PROVE  ceilToPow2(x) \in x .. 2 * x - 1
  <1> DEFINE T == {k \in 0 .. x - 1 : IsPow2(x - k)}
  <1>1. x - 1 \in T
    BY DEF IsPow2
  <1>2. PICK k \in T : \A m \in T : k <= m
    <2>1. T \in SUBSET Nat /\ T # {}
      BY <1>1
    <2> HIDE DEF T
    <2> QED BY <2>1, LeastNatural
  <1> DEFINE p == x - k
  <1>3. p \in 1 .. x /\ IsPow2(p)
    OBVIOUS
  <1>4. \E q \in x .. 2 * x - 1 : IsPow2(q)
    <2>1. CASE k = 0
      BY <1>3, <2>1
    <2>2. CASE k # 0
      <3>1. IsPow2(2 * p)
        BY <1>3, Pow2Doubles
      <3>2. 2 * p > x
        <4> SUFFICES ASSUME 2 * p <= x PROVE FALSE
          BY <1>3
        <4>1. x - 2 * p \in 0 .. x - 1 /\ x - (x - 2 * p) = 2 * p
          BY <1>3
        <4>2. x - 2 * p \in T
          BY <3>1, <4>1
        <4>3. x - 2 * p < k
          BY <1>3
        <4> QED BY <1>2, <1>3, <4>2, <4>3
      <3>3. 2 * p \in x .. 2 * x - 1
        BY <1>3, <2>2, <3>2
      <3> QED BY <3>1, <3>3
    <2> QED BY <2>1, <2>2
  <1> QED BY <1>4 DEF ceilToPow2

LEMMA SizeIsPositive == Init => size \in Nat \ {0} /\ canAlloc \in BOOLEAN
  BY QueueAssumption DEF Init

(* What a circle of count blocks can hold although one place of each stays   *)
(* free, and the front block may have been emptied but not left.             *)
Holds(count, capacity) ==
    IF count = 1 THEN capacity - 1 ELSE (count - 1) * (capacity - 1)

(* A circle of equal, empty blocks.                                          *)
LEMMA InitialCircle ==
  ASSUME NEW n \in Nat \ {0}
  PROVE  \E count \in Nat \ {0}, capacity \in Nat :
            /\ capacity >= 2 /\ Holds(count, capacity) >= n
            /\ InitialBlocks(n) = [b \in 1 .. count |->
                  make_block(capacity, IF b = count THEN 1 ELSE b + 1)]
  <1>1. ceilToPow2(n + 1) \in n + 1 .. 2 * n + 1
    BY CeilToPow2
  <1>2. CASE ceilToPow2(n + 1) > MAX_BLOCK_SIZE * 2
    <2> DEFINE count == initialBlockCount(n)
               m == MAX_BLOCK_SIZE - 1
               a == n + MAX_BLOCK_SIZE * 2 - 3
    <2>1. m \in Nat \ {0} /\ a \in Nat /\ a >= m
      BY <1>1, <1>2, QueueAssumption
    <2>2. count \in Nat \ {0}
      <3>1. count = a \div m
        BY DEF initialBlockCount
      <3> HIDE DEF a, m, count
      <3>2. a \div m \in Int /\ a < m * (a \div m) + m
        BY <2>1
      <3>3. a \div m <= 0 => m * (a \div m) <= 0
        BY <2>1, <3>2
      <3> QED BY <2>1, <3>1, <3>2, <3>3
    <2>3. Holds(count, MAX_BLOCK_SIZE) >= n
      <3>1. count = a \div m /\ a = n + 2 * m - 1 /\ m = MAX_BLOCK_SIZE - 1
        BY QueueAssumption DEF initialBlockCount
      <3>2. a \div m \in Int /\ a < m * (a \div m) + m
        <4> HIDE DEF a, m
        <4> QED BY <2>1
      <3> HIDE DEF a, m, count
      <3>3. (count - 1) * m = m * count - m
        BY <2>1, <2>2
      <3>4. (count - 1) * m >= n
        BY <2>1, <2>2, <3>1, <3>2, <3>3
      <3>5. count # 1
        <4>1. (1 - 1) * m = 0
          BY <2>1
        <4> QED BY <3>4, <4>1
      <3> QED BY <3>1, <3>4, <3>5 DEF Holds
    <2>4. \A b \in 1 .. count : (b % count) + 1 = IF b = count THEN 1 ELSE b + 1
      <3> HIDE DEF count
      <3>1. \A b \in 1 .. count : b < count => b % count = b
        BY <2>2
      <3>2. count % count = 0
        BY <2>2
      <3> QED BY <2>2, <3>1, <3>2
    <2>5. InitialBlocks(n) = [b \in 1 .. count |->
             make_block(MAX_BLOCK_SIZE, (b % count) + 1)]
      BY <1>2 DEF InitialBlocks
    <2>6. InitialBlocks(n) = [b \in 1 .. count |->
             make_block(MAX_BLOCK_SIZE, IF b = count THEN 1 ELSE b + 1)]
      <3> HIDE DEF count
      <3> QED BY <2>4, <2>5
    <2> HIDE DEF count
    <2> QED BY <2>2, <2>3, <2>6, QueueAssumption
  <1>3. CASE ~(ceilToPow2(n + 1) > MAX_BLOCK_SIZE * 2)
    <2> DEFINE capacity == ceilToPow2(n + 1)
    <2>1. InitialBlocks(n) = <<make_block(capacity, 1)>>
      BY <1>3 DEF InitialBlocks
    <2>2. capacity \in Nat /\ capacity >= 2 /\ Holds(1, capacity) >= n
      BY <1>1 DEF Holds
    <2> HIDE DEF capacity
    <2>3. <<make_block(capacity, 1)>> = [b \in 1 .. 1 |->
             make_block(capacity, IF b = 1 THEN 1 ELSE b + 1)]
      OBVIOUS
    <2> QED BY <2>1, <2>2, <2>3
  <1> QED BY <1>2, <1>3

LEMMA InitIInv == Init => IInv
  <1> SUFFICES ASSUME Init PROVE IInv
    OBVIOUS
  <1>1. PICK count \in Nat \ {0}, capacity \in Nat :
           /\ capacity >= 2
           /\ blocks = [b \in 1 .. count |->
                 make_block(capacity, IF b = count THEN 1 ELSE b + 1)]
    BY InitialCircle, SizeIsPositive DEF Init
  <1>2. /\ blocks \in Seq(Block) /\ Len(blocks) = count
        /\ \A b \in 1 .. count :
              /\ blocks[b].front = 0 /\ blocks[b].localTail = 0
              /\ blocks[b].tail = 0 /\ blocks[b].localFront = 0
              /\ blocks[b].next = IF b = count THEN 1 ELSE b + 1
              /\ blocks[b].size = capacity
              /\ blocks[b].data = [i \in 0 .. capacity - 1 |-> 0]
    <2>1. \A m \in Nat : make_block(capacity, m) \in Block
      <3>1. [i \in 0 .. capacity - 1 |-> 0] \in [0 .. capacity - 1 -> Nat]
        OBVIOUS
      <3>2. [i \in 0 .. capacity - 1 |-> 0] \in UNION {[0 .. n - 1 -> Nat] : n \in Nat}
        BY <3>1
      <3> QED BY <3>2 DEF make_block, Raw, Block
    <2>2. \A b \in 1 .. count : blocks[b] = make_block(capacity, IF b = count THEN 1 ELSE b + 1)
      BY <1>1
    <2>3. \A b \in 1 .. count : blocks[b] \in Block
      BY <2>1, <2>2
    <2>4. blocks \in Seq(Block) /\ Len(blocks) = count
      BY <1>1, <2>1
    <2> QED BY <2>2, <2>4 DEF make_block, Raw
  <1>3. /\ frontBlock = 1 /\ tailBlock = 1 /\ producer = IdleProducer
        /\ consumer = IdleConsumer /\ offered = 0 /\ largestBlockSize = blocks[1].size
    BY DEF Init
  <1>4. producer \in Producer /\ consumer \in Consumer
        /\ producer.pc = "idle" /\ consumer.pc = "idle"
    BY <1>3 DEF IdleProducer, IdleConsumer, Producer, Consumer, Raw
  <1>5. TypeOK
    <2>1. \A b \in 1 .. Len(blocks) : BlockOK(b)
      <3> SUFFICES ASSUME NEW b \in 1 .. count PROVE BlockOK(b)
        BY <1>2
      <3>1. [i \in 0 .. capacity - 1 |-> 0] \in [0 .. capacity - 1 -> Nat]
        OBVIOUS
      <3>2. capacity \in Nat /\ capacity >= 2
        BY <1>1
      <3>3. blocks[b].data \in [0 .. blocks[b].size - 1 -> Nat]
        BY <1>2, <3>1
      <3> QED BY <1>2, <3>2, <3>3 DEF BlockOK
    <2>2. 1 \in 1 .. Len(blocks) /\ largestBlockSize = capacity
      BY <1>2, <1>3
    <2>3. capacity \in Nat /\ capacity >= 2
      BY <1>1
    <2> QED BY <1>2, <1>3, <1>4, <2>1, <2>2, <2>3 DEF TypeOK
  <1>6. Shadows
    BY <1>2 DEF Shadows, Ahead
  <1>7. ProducerKnows /\ ConsumerKnows
    BY <1>4 DEF ProducerKnows, ConsumerKnows
  <1>8. Circle
    <2> DEFINE pos == [b \in 1 .. count |-> b - 1]
    <2>1. Linked = 1 .. count
      BY <1>2, <1>4 DEF Linked
    <2>2. pos \in [Linked -> Int] /\ \A b \in Linked : pos[b] = b - 1
      BY <2>1
    <2> HIDE DEF pos
    <2>3. InCircle(count, pos)
      <3>1. \A b \in Linked : pos[b] \in 0 .. count - 1
        BY <2>1, <2>2
      <3>2. pos[frontBlock] = 0 /\ frontBlock = 1 /\ 1 \in Linked
        BY <1>3, <2>1, <2>2
      <3>3. \A a, b \in Linked : pos[a] = pos[b] => a = b
        BY <2>1, <2>2
      <3>4. ASSUME NEW b \in Linked
            PROVE  /\ blocks[b].next \in Linked
                   /\ IF pos[b] = count - 1 THEN blocks[b].next = frontBlock
                      ELSE pos[blocks[b].next] = pos[b] + 1
        <4>1. blocks[b].next = (IF b = count THEN 1 ELSE b + 1) /\ b \in 1 .. count
          BY <1>2, <2>1
        <4>2. blocks[b].next \in 1 .. count
          BY <4>1
        <4>3. pos[blocks[b].next] = blocks[b].next - 1 /\ pos[b] = b - 1
          BY <2>1, <2>2, <4>2
        <4> QED BY <2>1, <3>2, <4>1, <4>2, <4>3
      <3> QED BY <3>1, <3>2, <3>3, <3>4 DEF InCircle
    <2>4. Occupied(pos)
      BY <1>2, <1>3, <2>1, <2>2 DEF Occupied, Empty
    <2> QED BY <2>2, <2>3, <2>4 DEF Circle
  <1> QED BY <1>5, <1>6, <1>7, <1>8 DEF IInv

----------------------------------------------------------------------------
(* Places of a block                                                         *)

LEMMA BlockFacts ==
  ASSUME TypeOK, NEW b \in 1 .. Len(blocks)
  PROVE  /\ blocks[b] \in Block
         /\ blocks[b].size \in Nat /\ blocks[b].size >= 2
         /\ blocks[b].front \in 0 .. blocks[b].size - 1
         /\ blocks[b].localTail \in 0 .. blocks[b].size - 1
         /\ blocks[b].tail \in 0 .. blocks[b].size - 1
         /\ blocks[b].localFront \in 0 .. blocks[b].size - 1
         /\ blocks[b].next \in Nat
         /\ blocks[b].data \in [0 .. blocks[b].size - 1 -> Nat]
  <1>1. blocks[b] \in Block /\ BlockOK(b)
    BY DEF TypeOK
  <1>2. /\ blocks[b].size \in Nat /\ blocks[b].front \in Nat /\ blocks[b].localTail \in Nat
        /\ blocks[b].tail \in Nat /\ blocks[b].localFront \in Nat /\ blocks[b].next \in Nat
    BY <1>1 DEF Block
  <1>3. /\ blocks[b].size >= 2
        /\ blocks[b].front < blocks[b].size /\ blocks[b].localTail < blocks[b].size
        /\ blocks[b].tail < blocks[b].size /\ blocks[b].localFront < blocks[b].size
    BY <1>1 DEF BlockOK
  <1>4. blocks[b].data \in [0 .. blocks[b].size - 1 -> Nat]
    BY <1>1 DEF BlockOK
  <1>5. \A m, n \in Nat : m < n => m \in 0 .. n - 1
    OBVIOUS
  <1> QED BY <1>1, <1>2, <1>3, <1>4, <1>5

(* The place after i, without the remainder. *)
Follows(n, i) == IF i = n - 1 THEN 0 ELSE i + 1

LEMMA AfterIs ==
  ASSUME TypeOK, NEW b \in 1 .. Len(blocks), NEW i \in 0 .. blocks[b].size - 1
  PROVE  /\ After(b, i) = Follows(blocks[b].size, i)
         /\ After(b, i) \in 0 .. blocks[b].size - 1
  <1> DEFINE n == blocks[b].size
  <1>1. n \in Nat /\ n >= 2 /\ After(b, i) = (i + 1) % n /\ i \in 0 .. n - 1
    BY BlockFacts DEF After
  <1> HIDE DEF n
  <1>2. i < n - 1 => (i + 1) % n = i + 1
    BY <1>1
  <1>3. n % n = 0
    BY <1>1
  <1>4. After(b, i) = (IF i = n - 1 THEN 0 ELSE i + 1) /\ After(b, i) \in 0 .. n - 1
    BY <1>1, <1>2, <1>3
  <1> QED BY <1>4 DEF n, Follows

(* A block's indices step on by one place. *)
LEMMA TailMovesOn ==
  ASSUME NEW n \in Nat
  PROVE  \A f, lt, t, lf \in 0 .. n - 1 :
            /\ Ahead(n, f, lt) <= Ahead(n, f, t) /\ Ahead(n, f, t) <= Ahead(n, lf, t)
            /\ Follows(n, t) # lf
            => /\ Ahead(n, f, lt) <= Ahead(n, f, Follows(n, t))
               /\ Ahead(n, f, Follows(n, t)) <= Ahead(n, lf, Follows(n, t))
               /\ Follows(n, t) # f
  BY DEF Ahead, Follows

LEMMA FrontMovesOn ==
  ASSUME NEW n \in Nat
  PROVE  \A f, lt, t, lf \in 0 .. n - 1 :
            /\ Ahead(n, f, lt) <= Ahead(n, f, t) /\ Ahead(n, f, t) <= Ahead(n, lf, t)
            /\ lt # f
            => /\ Ahead(n, Follows(n, f), lt) <= Ahead(n, Follows(n, f), t)
               /\ Ahead(n, Follows(n, f), t) <= Ahead(n, lf, t)
               /\ t # f
  BY DEF Ahead, Follows

----------------------------------------------------------------------------
(* What a step changes                                                       *)

(* The blocks after a step that changes one of them: its indices are places *)
(* of it, and the others are as they were.                                   *)
OneChanges(b) ==
    /\ Len(blocks') = Len(blocks) /\ blocks' \in Seq(Block)
    /\ \A c \in 1 .. Len(blocks) \ {b} : blocks'[c] = blocks[c]
    /\ blocks'[b].size = blocks[b].size
    /\ blocks'[b].front \in 0 .. blocks[b].size - 1
    /\ blocks'[b].localTail \in 0 .. blocks[b].size - 1
    /\ blocks'[b].tail \in 0 .. blocks[b].size - 1
    /\ blocks'[b].localFront \in 0 .. blocks[b].size - 1
    /\ blocks'[b].data \in [0 .. blocks[b].size - 1 -> Nat]

LEMMA ReplaceOne ==
  ASSUME NEW S, NEW s \in Seq(S), NEW b \in 1 .. Len(s), NEW x \in S,
         NEW r, r = [s EXCEPT ![b] = x]
  PROVE  /\ r \in Seq(S) /\ Len(r) = Len(s) /\ r[b] = x
         /\ \A c \in 1 .. Len(s) \ {b} : r[c] = s[c]
  OBVIOUS

LEMMA DataIsData ==
  ASSUME NEW n \in Nat, NEW f \in [0 .. n - 1 -> Nat]
  PROVE  f \in UNION {[0 .. m - 1 -> Nat] : m \in Nat}
  OBVIOUS

LEMMA SetBlock ==
  ASSUME TypeOK, NEW b \in 1 .. Len(blocks), NEW q \in Block,
         q.size = blocks[b].size,
         q.front \in 0 .. q.size - 1, q.localTail \in 0 .. q.size - 1,
         q.tail \in 0 .. q.size - 1, q.localFront \in 0 .. q.size - 1,
         q.data \in [0 .. q.size - 1 -> Nat],
         blocks' = [blocks EXCEPT ![b] = q]
  PROVE  OneChanges(b) /\ blocks'[b] = q
  <1>1. blocks \in Seq(Block)
    BY DEF TypeOK
  <1>2. /\ blocks' \in Seq(Block) /\ Len(blocks') = Len(blocks) /\ blocks'[b] = q
        /\ \A c \in 1 .. Len(blocks) \ {b} : blocks'[c] = blocks[c]
    BY <1>1, ReplaceOne
  <1> QED BY <1>2 DEF OneChanges

(* The blocks with a place of b filled or emptied. *)
DataSet(b, i, x) == [blocks EXCEPT ![b].data[i] = x]

LEMMA SetData ==
  ASSUME TypeOK, NEW b \in 1 .. Len(blocks), NEW i \in Nat, i < blocks[b].size,
         NEW x \in Nat, blocks' = DataSet(b, i, x)
  PROVE  /\ OneChanges(b)
         /\ blocks'[b].front = blocks[b].front /\ blocks'[b].tail = blocks[b].tail
         /\ blocks'[b].localFront = blocks[b].localFront
         /\ blocks'[b].localTail = blocks[b].localTail
         /\ blocks'[b].next = blocks[b].next
  <1> DEFINE r == blocks[b]
             d == [r.data EXCEPT ![i] = x]
             q == [r EXCEPT !.data = d]
  <1>1. r \in Block /\ r.data \in [0 .. r.size - 1 -> Nat] /\ r.size \in Nat
    BY BlockFacts
  <1>2. d \in [0 .. r.size - 1 -> Nat]
    BY <1>1
  <1>3. d \in UNION {[0 .. m - 1 -> Nat] : m \in Nat}
    BY <1>1, <1>2, DataIsData
  <1>4. blocks' = [blocks EXCEPT ![b] = q]
    BY DEF DataSet
  <1> HIDE DEF d
  <1>5. /\ q \in Block /\ q.data = d /\ q.front = r.front /\ q.tail = r.tail
        /\ q.localFront = r.localFront /\ q.localTail = r.localTail
        /\ q.next = r.next /\ q.size = r.size
    BY <1>1, <1>3 DEF Block
  <1> HIDE DEF q
  <1>6. /\ q.front \in 0 .. q.size - 1 /\ q.localTail \in 0 .. q.size - 1
        /\ q.tail \in 0 .. q.size - 1 /\ q.localFront \in 0 .. q.size - 1
        /\ q.data \in [0 .. q.size - 1 -> Nat]
    BY <1>2, <1>5, BlockFacts
  <1>7. OneChanges(b) /\ blocks'[b] = q
    BY <1>4, <1>5, <1>6, SetBlock
  <1> QED BY <1>5, <1>7

(* The blocks with the four indices and the next block of b stored. *)
IndexSet(b, f, lt, t, lf, n) ==
    [blocks EXCEPT ![b] = [blocks[b] EXCEPT !.front = f, !.localTail = lt, !.tail = t,
                                            !.localFront = lf, !.next = n]]

LEMMA SetIndex ==
  ASSUME TypeOK, NEW b \in 1 .. Len(blocks),
         NEW f \in 0 .. blocks[b].size - 1, NEW lt \in 0 .. blocks[b].size - 1,
         NEW t \in 0 .. blocks[b].size - 1, NEW lf \in 0 .. blocks[b].size - 1,
         NEW n \in Nat, blocks' = IndexSet(b, f, lt, t, lf, n)
  PROVE  /\ OneChanges(b)
         /\ blocks'[b].front = f /\ blocks'[b].tail = t
         /\ blocks'[b].localFront = lf /\ blocks'[b].localTail = lt
         /\ blocks'[b].next = n
  <1> DEFINE r == blocks[b]
             q == [r EXCEPT !.front = f, !.localTail = lt, !.tail = t, !.localFront = lf,
                            !.next = n]
  <1>1. r \in Block /\ r.data \in [0 .. r.size - 1 -> Nat] /\ r.size \in Nat
    BY BlockFacts
  <1>2. f \in Nat /\ lt \in Nat /\ t \in Nat /\ lf \in Nat
    BY <1>1
  <1>3. /\ q \in Block /\ q.data = r.data /\ q.front = f /\ q.tail = t
        /\ q.localFront = lf /\ q.localTail = lt /\ q.next = n /\ q.size = r.size
    BY <1>1, <1>2 DEF Block
  <1>4. blocks' = [blocks EXCEPT ![b] = q]
    BY DEF IndexSet
  <1> HIDE DEF q
  <1>5. /\ q.front \in 0 .. q.size - 1 /\ q.localTail \in 0 .. q.size - 1
        /\ q.tail \in 0 .. q.size - 1 /\ q.localFront \in 0 .. q.size - 1
        /\ q.data \in [0 .. q.size - 1 -> Nat]
    BY <1>1, <1>3
  <1>6. OneChanges(b) /\ blocks'[b] = q
    BY <1>3, <1>4, <1>5, SetBlock
  <1> QED BY <1>3, <1>6

(* A block that changes so keeps the types. *)
LEMMA TypesStay ==
  ASSUME TypeOK, NEW b \in 1 .. Len(blocks), OneChanges(b),
         frontBlock' \in 1 .. Len(blocks), tailBlock' \in 1 .. Len(blocks),
         largestBlockSize' = largestBlockSize,
         producer' \in Producer, consumer' \in Consumer, offered' \in Nat
  PROVE  TypeOK'
  <1>1. ASSUME NEW c \in 1 .. Len(blocks) PROVE BlockOK(c)'
    <2>1. CASE c # b
      BY <2>1 DEF TypeOK, OneChanges, BlockOK
    <2>2. CASE c = b
      <3>1. blocks[b].size \in Nat /\ blocks[b].size >= 2
        BY BlockFacts
      <3>2. \A m : m \in 0 .. blocks[b].size - 1 => m < blocks[b].size
        BY <3>1
      <3> QED BY <2>2, <3>1, <3>2 DEF OneChanges, BlockOK
    <2> QED BY <2>1, <2>2
  <1>2. Len(blocks') = Len(blocks) /\ blocks' \in Seq(Block)
    BY DEF OneChanges
  <1> QED BY <1>1, <1>2 DEF TypeOK
(* Storing one of them leaves the others alone. *)
LEMMA StoreIndex ==
  ASSUME TypeOK, NEW b \in 1 .. Len(blocks), NEW v
  PROVE  LET r == blocks[b]
         IN  /\ [blocks EXCEPT ![b].front = v]
                   = IndexSet(b, v, r.localTail, r.tail, r.localFront, r.next)
             /\ [blocks EXCEPT ![b].localTail = v]
                   = IndexSet(b, r.front, v, r.tail, r.localFront, r.next)
             /\ [blocks EXCEPT ![b].tail = v]
                   = IndexSet(b, r.front, r.localTail, v, r.localFront, r.next)
             /\ [blocks EXCEPT ![b].localFront = v]
                   = IndexSet(b, r.front, r.localTail, r.tail, v, r.next)
             /\ [blocks EXCEPT ![b].next = v]
                   = IndexSet(b, r.front, r.localTail, r.tail, r.localFront, v)
  <1> DEFINE r == blocks[b]
  <1>1. r \in Block
    BY BlockFacts
  <1>2. /\ [r EXCEPT !.front = v] = [r EXCEPT !.front = v, !.localTail = r.localTail,
                !.tail = r.tail, !.localFront = r.localFront, !.next = r.next]
        /\ [r EXCEPT !.localTail = v] = [r EXCEPT !.front = r.front, !.localTail = v,
                !.tail = r.tail, !.localFront = r.localFront, !.next = r.next]
        /\ [r EXCEPT !.tail = v] = [r EXCEPT !.front = r.front, !.localTail = r.localTail,
                !.tail = v, !.localFront = r.localFront, !.next = r.next]
        /\ [r EXCEPT !.localFront = v] = [r EXCEPT !.front = r.front,
                !.localTail = r.localTail, !.tail = r.tail, !.localFront = v, !.next = r.next]
        /\ [r EXCEPT !.next = v] = [r EXCEPT !.front = r.front, !.localTail = r.localTail,
                !.tail = r.tail, !.localFront = r.localFront, !.next = v]
    BY <1>1 DEF Block
  <1> QED BY <1>2 DEF IndexSet

(* The same for one store, by the field it is to. *)
Stored(b, f, lt, t, lf, n) ==
    /\ OneChanges(b)
    /\ blocks'[b].front = f /\ blocks'[b].localTail = lt
    /\ blocks'[b].tail = t /\ blocks'[b].localFront = lf
    /\ blocks'[b].next = n

LEMMA StoredIndex ==
  ASSUME TypeOK, NEW b \in 1 .. Len(blocks)
  PROVE  \A f, lt, t, lf \in 0 .. blocks[b].size - 1 : \A n \in Nat :
            blocks' = IndexSet(b, f, lt, t, lf, n) => Stored(b, f, lt, t, lf, n)
  BY SetIndex DEF Stored

LEMMA StoreFront ==
  ASSUME TypeOK, NEW b \in 1 .. Len(blocks), NEW v \in 0 .. blocks[b].size - 1,
         blocks' = [blocks EXCEPT ![b].front = v]
  PROVE  /\ OneChanges(b)
         /\ blocks'[b].front = v
         /\ blocks'[b].localTail = blocks[b].localTail
         /\ blocks'[b].tail = blocks[b].tail
         /\ blocks'[b].localFront = blocks[b].localFront
         /\ blocks'[b].next = blocks[b].next
  <1>1. blocks' = IndexSet(b, v, blocks[b].localTail, blocks[b].tail,
                           blocks[b].localFront, blocks[b].next)
    BY StoreIndex
  <1>2. Stored(b, v, blocks[b].localTail, blocks[b].tail,
               blocks[b].localFront, blocks[b].next)
    BY <1>1, BlockFacts, StoredIndex
  <1> QED BY <1>2 DEF Stored

LEMMA StoreLocalTail ==
  ASSUME TypeOK, NEW b \in 1 .. Len(blocks), NEW v \in 0 .. blocks[b].size - 1,
         blocks' = [blocks EXCEPT ![b].localTail = v]
  PROVE  /\ OneChanges(b)
         /\ blocks'[b].front = blocks[b].front
         /\ blocks'[b].localTail = v
         /\ blocks'[b].tail = blocks[b].tail
         /\ blocks'[b].localFront = blocks[b].localFront
         /\ blocks'[b].next = blocks[b].next
  <1>1. blocks' = IndexSet(b, blocks[b].front, v, blocks[b].tail,
                           blocks[b].localFront, blocks[b].next)
    BY StoreIndex
  <1>2. Stored(b, blocks[b].front, v, blocks[b].tail,
               blocks[b].localFront, blocks[b].next)
    BY <1>1, BlockFacts, StoredIndex
  <1> QED BY <1>2 DEF Stored

LEMMA StoreTail ==
  ASSUME TypeOK, NEW b \in 1 .. Len(blocks), NEW v \in 0 .. blocks[b].size - 1,
         blocks' = [blocks EXCEPT ![b].tail = v]
  PROVE  /\ OneChanges(b)
         /\ blocks'[b].front = blocks[b].front
         /\ blocks'[b].localTail = blocks[b].localTail
         /\ blocks'[b].tail = v
         /\ blocks'[b].localFront = blocks[b].localFront
         /\ blocks'[b].next = blocks[b].next
  <1>1. blocks' = IndexSet(b, blocks[b].front, blocks[b].localTail, v,
                           blocks[b].localFront, blocks[b].next)
    BY StoreIndex
  <1>2. Stored(b, blocks[b].front, blocks[b].localTail, v,
               blocks[b].localFront, blocks[b].next)
    BY <1>1, BlockFacts, StoredIndex
  <1> QED BY <1>2 DEF Stored

LEMMA StoreLocalFront ==
  ASSUME TypeOK, NEW b \in 1 .. Len(blocks), NEW v \in 0 .. blocks[b].size - 1,
         blocks' = [blocks EXCEPT ![b].localFront = v]
  PROVE  /\ OneChanges(b)
         /\ blocks'[b].front = blocks[b].front
         /\ blocks'[b].localTail = blocks[b].localTail
         /\ blocks'[b].tail = blocks[b].tail
         /\ blocks'[b].localFront = v
         /\ blocks'[b].next = blocks[b].next
  <1>1. blocks' = IndexSet(b, blocks[b].front, blocks[b].localTail, blocks[b].tail,
                           v, blocks[b].next)
    BY StoreIndex
  <1>2. Stored(b, blocks[b].front, blocks[b].localTail, blocks[b].tail,
               v, blocks[b].next)
    BY <1>1, BlockFacts, StoredIndex
  <1> QED BY <1>2 DEF Stored

LEMMA StoreNext ==
  ASSUME TypeOK, NEW b \in 1 .. Len(blocks), NEW v \in Nat,
         blocks' = [blocks EXCEPT ![b].next = v]
  PROVE  /\ OneChanges(b)
         /\ blocks'[b].front = blocks[b].front
         /\ blocks'[b].localTail = blocks[b].localTail
         /\ blocks'[b].tail = blocks[b].tail
         /\ blocks'[b].localFront = blocks[b].localFront
         /\ blocks'[b].next = v
  <1>1. blocks' = IndexSet(b, blocks[b].front, blocks[b].localTail, blocks[b].tail,
                           blocks[b].localFront, v)
    BY StoreIndex
  <1>2. Stored(b, blocks[b].front, blocks[b].localTail, blocks[b].tail,
               blocks[b].localFront, v)
    BY <1>1, BlockFacts, StoredIndex
  <1> QED BY <1>2 DEF Stored

----------------------------------------------------------------------------
(* What keeps the invariant                                                  *)

LEMMA ShadowsStay ==
  ASSUME TypeOK, Shadows, NEW b \in 1 .. Len(blocks), OneChanges(b),
         Ahead(blocks[b].size, blocks'[b].front, blocks'[b].localTail)
             <= Ahead(blocks[b].size, blocks'[b].front, blocks'[b].tail),
         Ahead(blocks[b].size, blocks'[b].front, blocks'[b].tail)
             <= Ahead(blocks[b].size, blocks'[b].localFront, blocks'[b].tail)
  PROVE  Shadows'
  <1>1. ASSUME NEW c \in 1 .. Len(blocks)
        PROVE  /\ Ahead(blocks'[c].size, blocks'[c].front, blocks'[c].localTail)
                     <= Ahead(blocks'[c].size, blocks'[c].front, blocks'[c].tail)
               /\ Ahead(blocks'[c].size, blocks'[c].front, blocks'[c].tail)
                     <= Ahead(blocks'[c].size, blocks'[c].localFront, blocks'[c].tail)
    <2>1. CASE c # b
      <3>1. blocks'[c] = blocks[c]
        BY <2>1 DEF OneChanges
      <3> QED BY <3>1 DEF Shadows
    <2>2. CASE c = b
      <3>1. blocks'[c].size = blocks[b].size
        BY <2>2 DEF OneChanges
      <3> QED BY <2>2, <3>1
    <2> QED BY <2>1, <2>2
  <1>2. Len(blocks') = Len(blocks)
    BY DEF OneChanges
  <1> QED BY <1>1, <1>2 DEF Shadows, Ahead

LEMMA EndsAreLinked ==
  ASSUME IInv
  PROVE  frontBlock \in Linked /\ tailBlock \in Linked
  BY DEF IInv, TypeOK, ProducerKnows, Linked

(* The circle: no block is linked or left, and no block but the first and    *)
(* the tail block becomes empty or gets elements.                            *)
LEMMA CircleStays ==
  ASSUME IInv, frontBlock' = frontBlock, tailBlock' = tailBlock, Linked' = Linked,
         \A b \in Linked : blocks'[b].next = blocks[b].next,
         \A b \in Linked : b # frontBlock /\ ~Empty(b) => ~Empty(b)',
         \A b \in Linked : b # frontBlock /\ b # tailBlock /\ Empty(b) =>
             Empty(b)' \/ (producer'.pc = "advance" /\ b = producer'.next),
         \A b \in Linked : producer.pc = "advance" /\ b = producer.next =>
             producer'.pc = "advance" /\ b = producer'.next
  PROVE  Circle'
  <1>1. PICK n \in Nat : \E pos \in [Linked -> Int] : InCircle(n, pos) /\ Occupied(pos)
    BY DEF IInv, Circle
  <1>2. PICK pos \in [Linked -> Int] : InCircle(n, pos) /\ Occupied(pos)
    BY <1>1
  <1>3. InCircle(n, pos)'
    BY <1>2 DEF InCircle
  <1>4. Occupied(pos)'
    <2>1. ASSUME NEW b \in Linked, 0 < pos[b], pos[b] <= pos[tailBlock]
          PROVE  ~Empty(b)'
      BY <1>2, <2>1 DEF InCircle, Occupied
    <2>2. ASSUME NEW b \in Linked, pos[tailBlock] < pos[b]
          PROVE  Empty(b)' \/ (producer'.pc = "advance" /\ b = producer'.next)
      <3>1. b # tailBlock /\ b # frontBlock
        <4>1. pos[b] \in Int /\ pos[b] # pos[tailBlock]
          BY <2>2
        <4>2. pos[frontBlock] = 0 /\ pos[b] \in 0 .. n - 1
          BY <1>2 DEF InCircle
        <4>3. ~(pos[tailBlock] < 0)
          BY <1>2, EndsAreLinked DEF InCircle
        <4> QED BY <2>2, <4>1, <4>2, <4>3
      <3> QED BY <1>2, <2>2, <3>1 DEF Occupied
    <2> QED BY <2>1, <2>2 DEF Occupied
  <1> QED BY <1>3, <1>4 DEF Circle

LEMMA LinkedStays ==
  ASSUME Len(blocks') = Len(blocks), producer.pc # "link", producer'.pc # "link"
  PROVE  Linked' = Linked /\ Linked = 1 .. Len(blocks)
  BY DEF Linked

(* A step of the producer that only finds something out. *)
LEMMA ProducerLooks ==
  ASSUME IInv, UNCHANGED <<blocks, frontBlock, tailBlock, consumer, largestBlockSize>>,
         producer' \in Producer, offered' \in Nat, ProducerKnows',
         producer.pc \notin {"link", "advance"}, producer'.pc \notin {"link", "advance"}
  PROVE  IInv'
  <1>1. TypeOK'
    BY DEF IInv, TypeOK, BlockOK
  <1>2. Shadows' /\ ConsumerKnows'
    BY DEF IInv, Shadows, Ahead, ConsumerKnows, Empty
  <1>3. Circle'
    <2>1. Linked' = Linked
      BY LinkedStays
    <2>2. \A b \in Linked : Empty(b)' <=> Empty(b)
      BY DEF Empty
    <2> QED BY <2>1, <2>2, CircleStays
  <1> QED BY <1>1, <1>2, <1>3 DEF IInv

(* And one of the consumer. *)
LEMMA ConsumerLooks ==
  ASSUME IInv, UNCHANGED <<blocks, frontBlock, tailBlock, producer, largestBlockSize, offered>>,
         consumer' \in Consumer, ConsumerKnows'
  PROVE  IInv'
  <1>1. TypeOK'
    BY DEF IInv, TypeOK, BlockOK
  <1>2. Shadows' /\ ProducerKnows'
    BY DEF IInv, Shadows, Ahead, ProducerKnows, Empty, After
  <1>3. Circle'
    <2>1. Linked' = Linked
      BY DEF Linked
    <2>2. \A b \in Linked : Empty(b)' <=> Empty(b)
      BY DEF Empty
    <2> QED BY <2>1, <2>2, CircleStays
  <1> QED BY <1>1, <1>2, <1>3 DEF IInv

----------------------------------------------------------------------------
(* inner_enqueue                                                             *)

LEMMA StartKeepsIInv ==
  ASSUME IInv, EnqueueStart
  PROVE  IInv'
  <1> DEFINE full == Len(Queue) >= size
             p == IF After(tailBlock, blocks[tailBlock].tail) # blocks[tailBlock].localFront
                  THEN "fill" ELSE "reread"
  <1>1. producer' = [IdleProducer EXCEPT !.pc = p, !.block = tailBlock,
                        !.at = blocks[tailBlock].tail, !.wasFull = full]
    BY DEF EnqueueStart
  <1>2. full \in BOOLEAN
    OBVIOUS
  <1>3. /\ producer.pc = "idle" /\ offered' = offered + 1
        /\ UNCHANGED <<blocks, frontBlock, tailBlock, consumer, largestBlockSize>>
    BY DEF EnqueueStart, producerFrame
  <1> HIDE DEF full
  <1>4. tailBlock \in Nat /\ blocks[tailBlock].tail \in Nat
    BY BlockFacts DEF IInv, TypeOK
  <1>5. /\ producer' \in Producer /\ producer'.pc = p /\ producer'.block = tailBlock
        /\ producer'.at = blocks[tailBlock].tail
    BY <1>1, <1>2, <1>4 DEF IdleProducer, Producer
  <1>6. ProducerKnows'
    BY <1>3, <1>5 DEF ProducerKnows, After
  <1>7. offered' \in Nat
    BY <1>3 DEF IInv, TypeOK
  <1> QED BY <1>3, <1>5, <1>6, <1>7, ProducerLooks

LEMMA IdleIsProducer == IdleProducer \in Producer /\ IdleProducer.pc = "idle"
  BY DEF IdleProducer, Producer

(* The call returns, or goes on to the next block or the allocation. *)
LEMMA LooksAheadKeepsIInv ==
  ASSUME IInv, EnqueueLooksAhead \/ EnqueueCannotAllocate
  PROVE  IInv'
  <1>1. /\ producer.pc \in {"look", "allocate"}
        /\ UNCHANGED <<blocks, frontBlock, tailBlock, consumer, largestBlockSize, offered>>
    BY DEF EnqueueLooksAhead, EnqueueCannotAllocate, producerFrame
  <1>2. /\ producer \in Producer /\ offered \in Nat /\ blocks[tailBlock].next \in Nat
        /\ producer.block = tailBlock /\ producer.at = blocks[tailBlock].tail
    BY <1>1, BlockFacts DEF IInv, TypeOK, ProducerKnows
  <1>3. CASE producer' = IdleProducer
    <2>1. ProducerKnows' /\ producer' \in Producer /\ producer'.pc = "idle"
      BY <1>3, IdleIsProducer DEF ProducerKnows
    <2> QED BY <1>1, <1>2, <2>1, ProducerLooks
  <1>4. CASE /\ producer' = [producer EXCEPT !.pc = "takeNext",
                                             !.next = blocks[producer.block].next]
             /\ blocks[producer.block].next # frontBlock
    <2>1. /\ producer' \in Producer /\ producer'.pc = "takeNext"
          /\ producer'.block = tailBlock /\ producer'.at = blocks[tailBlock].tail
          /\ producer'.next = blocks[tailBlock].next
      BY <1>2, <1>4 DEF Producer
    <2>2. ProducerKnows'
      BY <1>1, <1>2, <1>4, <2>1 DEF ProducerKnows
    <2> QED BY <1>1, <1>2, <2>1, <2>2, ProducerLooks
  <1>5. CASE producer' = [producer EXCEPT !.pc = "allocate"]
    <2>1. /\ producer' \in Producer /\ producer'.pc = "allocate"
          /\ producer'.block = tailBlock /\ producer'.at = blocks[tailBlock].tail
      BY <1>2, <1>5 DEF Producer
    <2>2. ProducerKnows'
      BY <1>1, <2>1 DEF ProducerKnows
    <2> QED BY <1>1, <1>2, <2>1, <2>2, ProducerLooks
  <1> QED BY <1>3, <1>4, <1>5
          DEF EnqueueLooksAhead, EnqueueCannotAllocate, EnqueueReturns

(* The front is read again: the shadow is now as good as the front.          *)
LEMMA RereadsFrontKeepsIInv ==
  ASSUME IInv, EnqueueRereadsFront
  PROVE  IInv'
  <1> USE DEF IInv
  <1> DEFINE b == tailBlock
             r == blocks[tailBlock]
             p == IF After(b, producer.at) # r.front THEN "fill" ELSE "look"
  <1>1. /\ producer.pc = "reread" /\ producer.block = b /\ producer.at = r.tail
        /\ b \in 1 .. Len(blocks) /\ producer \in Producer /\ TypeOK
    BY DEF EnqueueRereadsFront, ProducerKnows, TypeOK
  <1>2. /\ blocks' = [blocks EXCEPT ![b].localFront = r.front]
        /\ producer' = [producer EXCEPT !.pc = p]
        /\ UNCHANGED <<frontBlock, tailBlock, consumer, largestBlockSize, offered>>
    BY <1>1 DEF EnqueueRereadsFront, producerFrame
  <1>4. /\ OneChanges(b) /\ blocks'[b].front = r.front /\ blocks'[b].tail = r.tail
        /\ blocks'[b].localFront = r.front /\ blocks'[b].localTail = r.localTail
        /\ blocks'[b].next = r.next
    <2>1. r.front \in 0 .. r.size - 1
      BY <1>1, BlockFacts
    <2> QED BY <1>1, <1>2, <2>1, StoreLocalFront
  <1>5. /\ producer' \in Producer /\ producer'.pc = p /\ producer'.block = b
        /\ producer'.at = r.tail
    BY <1>1, <1>2 DEF Producer
  <1>6. \A c \in 1 .. Len(blocks) :
           /\ blocks'[c].front = blocks[c].front /\ blocks'[c].tail = blocks[c].tail
           /\ blocks'[c].next = blocks[c].next /\ blocks'[c].localTail = blocks[c].localTail
    BY <1>4 DEF OneChanges
  <1>7. TypeOK'
    BY <1>1, <1>2, <1>4, <1>5, TypesStay DEF TypeOK
  <1>8. Shadows'
    <2>1. Ahead(r.size, r.front, r.localTail) <= Ahead(r.size, r.front, r.tail)
      BY <1>1 DEF Shadows
    <2>2. Ahead(r.size, r.front, r.tail) <= Ahead(r.size, r.front, r.tail)
      BY <1>1, BlockFacts DEF Ahead
    <2> QED BY <1>1, <1>4, <2>1, <2>2, ShadowsStay
  <1>9. ProducerKnows'
    <2>1. After(b, producer.at)' = After(b, r.tail)
      BY <1>1, <1>4, <1>5, <1>2 DEF After, OneChanges
    <2> QED BY <1>1, <1>2, <1>4, <1>5, <2>1 DEF ProducerKnows
  <1>10. ConsumerKnows'
    BY <1>2, <1>6 DEF ConsumerKnows, Empty, TypeOK
  <1>11. Circle'
    <2>1. Linked' = Linked /\ Linked = 1 .. Len(blocks) /\ Len(blocks') = Len(blocks)
      BY <1>1, <1>4, <1>5, LinkedStays DEF OneChanges
    <2>2. \A c \in Linked : Empty(c)' <=> Empty(c)
      BY <1>6, <2>1 DEF Empty
    <2> QED BY <1>1, <1>2, <1>6, <2>1, <2>2, CircleStays
  <1> QED BY <1>7, <1>8, <1>9, <1>10, <1>11

(* A step that leaves all indices alone: it fills or empties a place.        *)
SameIndices ==
    \A c \in 1 .. Len(blocks) :
        /\ blocks'[c].front = blocks[c].front /\ blocks'[c].tail = blocks[c].tail
        /\ blocks'[c].localFront = blocks[c].localFront
        /\ blocks'[c].localTail = blocks[c].localTail
        /\ blocks'[c].next = blocks[c].next /\ blocks'[c].size = blocks[c].size

LEMMA DataStoreIsSmall ==
  ASSUME TypeOK, NEW b \in 1 .. Len(blocks), NEW i \in Nat, i < blocks[b].size,
         NEW x \in Nat, blocks' = DataSet(b, i, x)
  PROVE  OneChanges(b) /\ SameIndices
  <1>1. /\ OneChanges(b)
        /\ blocks'[b].front = blocks[b].front /\ blocks'[b].tail = blocks[b].tail
        /\ blocks'[b].localFront = blocks[b].localFront
        /\ blocks'[b].localTail = blocks[b].localTail
        /\ blocks'[b].next = blocks[b].next
    BY SetData
  <1>2. ASSUME NEW c \in 1 .. Len(blocks)
        PROVE  /\ blocks'[c].front = blocks[c].front /\ blocks'[c].tail = blocks[c].tail
               /\ blocks'[c].localFront = blocks[c].localFront
               /\ blocks'[c].localTail = blocks[c].localTail
               /\ blocks'[c].next = blocks[c].next /\ blocks'[c].size = blocks[c].size
    <2>1. CASE c = b
      BY <1>1, <2>1 DEF OneChanges
    <2>2. CASE c # b
      <3>1. blocks'[c] = blocks[c]
        BY <1>1, <2>2 DEF OneChanges
      <3> QED BY <3>1
    <2> QED BY <2>1, <2>2
  <1> QED BY <1>1, <1>2 DEF SameIndices

LEMMA DataStays ==
  ASSUME IInv, NEW b \in 1 .. Len(blocks), OneChanges(b), SameIndices,
         UNCHANGED <<frontBlock, tailBlock, largestBlockSize, offered>>,
         producer' \in Producer, consumer' \in Consumer,
         ProducerKnows', ConsumerKnows',
         producer' = producer \/ {producer.pc, producer'.pc} \cap {"link", "advance"} = {}
  PROVE  IInv'
  <1>1. TypeOK'
    BY TypesStay DEF IInv, TypeOK
  <1>2. Len(blocks') = Len(blocks)
    BY DEF OneChanges
  <1>3. Shadows'
    BY <1>2 DEF IInv, Shadows, SameIndices, Ahead
  <1>4. Circle'
    <2>1. Linked' = Linked
      BY <1>2 DEF Linked
    <2>2. \A c \in Linked : (Empty(c)' <=> Empty(c)) /\ blocks'[c].next = blocks[c].next
      BY DEF Linked, Empty, SameIndices
    <2> QED BY <1>2, <2>1, <2>2, CircleStays
  <1> QED BY <1>1, <1>3, <1>4 DEF IInv

(* The consumer looks at the front block and, before it moves, at the next. *)
LEMMA NextOfFrontIsBlock ==
  ASSUME IInv
  PROVE  /\ frontBlock \in 1 .. Len(blocks) /\ tailBlock \in 1 .. Len(blocks)
         /\ \A b \in Linked : blocks[b].next \in 1 .. Len(blocks)
  <1>1. PICK n \in Nat : \E pos \in [Linked -> Int] : InCircle(n, pos)
    BY DEF IInv, Circle
  <1>2. \A b \in Linked : blocks[b].next \in Linked
    BY <1>1 DEF InCircle
  <1> QED BY <1>2 DEF IInv, TypeOK, Linked

LEMMA SameForConsumer ==
  ASSUME IInv, UNCHANGED <<consumer, frontBlock, tailBlock>>, SameIndices
  PROVE  ConsumerKnows'
  <1>1. frontBlock \in 1 .. Len(blocks) /\ blocks[frontBlock].next \in 1 .. Len(blocks)
    BY NextOfFrontIsBlock, EndsAreLinked
  <1> QED BY <1>1 DEF IInv, ConsumerKnows, SameIndices, Empty

LEMMA FillsKeepsIInv ==
  ASSUME IInv, EnqueueFills
  PROVE  IInv'
  <1> USE DEF IInv
  <1>1. /\ producer.pc = "fill" /\ producer.block = tailBlock
        /\ producer.at = blocks[tailBlock].tail
        /\ tailBlock \in 1 .. Len(blocks) /\ frontBlock \in 1 .. Len(blocks)
        /\ producer \in Producer /\ consumer \in Consumer /\ TypeOK /\ offered \in Nat
    BY DEF EnqueueFills, ProducerKnows, TypeOK
  <1>2. /\ blocks' = DataSet(tailBlock, producer.at, offered)
        /\ producer' = [producer EXCEPT !.pc = "publish"]
        /\ UNCHANGED <<frontBlock, tailBlock, consumer, largestBlockSize, offered>>
    BY <1>1 DEF EnqueueFills, producerFrame, DataSet
  <1>3. OneChanges(tailBlock) /\ SameIndices
    <2>1. producer.at \in Nat /\ producer.at < blocks[tailBlock].size
      BY <1>1, BlockFacts
    <2> QED BY <1>1, <1>2, <2>1, DataStoreIsSmall
  <1>4. /\ producer' \in Producer /\ producer'.pc = "publish"
        /\ producer'.block = tailBlock /\ producer'.at = producer.at
    BY <1>1, <1>2 DEF Producer
  <1>5. ProducerKnows'
    <2>1. After(tailBlock, producer.at) # blocks[tailBlock].localFront
      BY <1>1 DEF ProducerKnows
    <2>2. After(tailBlock, producer.at)' = After(tailBlock, producer.at)
      BY <1>1, <1>2, <1>3, <1>4 DEF After, SameIndices
    <2> QED BY <1>1, <1>2, <1>3, <1>4, <2>1, <2>2 DEF ProducerKnows, SameIndices
  <1>6. ConsumerKnows'
    BY <1>2, <1>3, SameForConsumer
  <1> QED BY <1>1, <1>2, <1>3, <1>4, <1>5, <1>6, DataStays

(* What the consumer knows of a front block the producer has left.           *)
LEMMA ConsumerStays ==
  ASSUME IInv, UNCHANGED <<consumer, frontBlock>>,
         \A c \in 1 .. Len(blocks) : /\ blocks'[c].front = blocks[c].front
                                     /\ blocks'[c].localTail = blocks[c].localTail,
         frontBlock # tailBlock =>
             /\ tailBlock' # frontBlock
             /\ blocks'[frontBlock].tail = blocks[frontBlock].tail
             /\ blocks'[frontBlock].next = blocks[frontBlock].next
  PROVE  ConsumerKnows'
  <1>1. frontBlock \in 1 .. Len(blocks) /\ blocks[frontBlock].next \in 1 .. Len(blocks)
    BY NextOfFrontIsBlock, EndsAreLinked
  <1> QED BY <1>1 DEF IInv, ConsumerKnows, Empty

LEMMA PublishesKeepsIInv ==
  ASSUME IInv, EnqueuePublishes
  PROVE  IInv'
  <1> USE DEF IInv
  <1> DEFINE b == tailBlock
             r == blocks[tailBlock]
             u == After(tailBlock, producer.at)
  <1>1. /\ producer.pc = "publish" /\ producer.block = b /\ producer.at = r.tail
        /\ b \in 1 .. Len(blocks) /\ frontBlock \in 1 .. Len(blocks)
        /\ consumer \in Consumer /\ TypeOK /\ offered \in Nat /\ u # r.localFront
    BY DEF EnqueuePublishes, ProducerKnows, TypeOK
  <1>2. /\ blocks' = [blocks EXCEPT ![b].tail = u]
        /\ producer' = IdleProducer
        /\ UNCHANGED <<frontBlock, tailBlock, consumer, largestBlockSize, offered>>
    BY <1>1 DEF EnqueuePublishes, EnqueueReturns, producerFrame
  <1>3. /\ r.size \in Nat /\ r.size >= 2 /\ r.tail \in 0 .. r.size - 1
        /\ r.front \in 0 .. r.size - 1 /\ r.localFront \in 0 .. r.size - 1
        /\ r.localTail \in 0 .. r.size - 1
    BY <1>1, BlockFacts
  <1>4. u = Follows(r.size, r.tail) /\ u \in 0 .. r.size - 1
    BY <1>1, <1>3, AfterIs
  <1> HIDE DEF u
  <1>5. /\ OneChanges(b) /\ blocks'[b].front = r.front /\ blocks'[b].tail = u
        /\ blocks'[b].localFront = r.localFront /\ blocks'[b].localTail = r.localTail
        /\ blocks'[b].next = r.next
    BY <1>1, <1>2, <1>4, StoreTail
  <1>6. /\ Ahead(r.size, r.front, r.localTail) <= Ahead(r.size, r.front, u)
        /\ Ahead(r.size, r.front, u) <= Ahead(r.size, r.localFront, u)
        /\ u # r.front
    <2>1. /\ Ahead(r.size, r.front, r.localTail) <= Ahead(r.size, r.front, r.tail)
          /\ Ahead(r.size, r.front, r.tail) <= Ahead(r.size, r.localFront, r.tail)
      BY <1>1 DEF Shadows
    <2> HIDE DEF r
    <2> QED BY <1>1, <1>3, <1>4, <2>1, TailMovesOn
  <1>7. \A c \in 1 .. Len(blocks) :
           /\ blocks'[c].front = blocks[c].front /\ blocks'[c].next = blocks[c].next
           /\ blocks'[c].localTail = blocks[c].localTail
           /\ c # b => blocks'[c].tail = blocks[c].tail
    BY <1>5 DEF OneChanges
  <1>8. TypeOK'
    BY <1>1, <1>2, <1>5, IdleIsProducer, TypesStay
  <1>9. Shadows'
    BY <1>1, <1>5, <1>6, ShadowsStay
  <1>10. ProducerKnows'
    BY <1>2, IdleIsProducer DEF ProducerKnows
  <1>11. ConsumerKnows'
    BY <1>1, <1>2, <1>7, ConsumerStays
  <1>12. Circle'
    <2>1. Linked' = Linked /\ Linked = 1 .. Len(blocks) /\ Len(blocks') = Len(blocks)
      BY <1>1, <1>2, <1>5, IdleIsProducer, LinkedStays DEF OneChanges
    <2>2. \A c \in Linked : c # b => (Empty(c)' <=> Empty(c))
      BY <1>7, <2>1 DEF Empty
    <2>3. ~Empty(b)'
      BY <1>2, <1>5, <1>6 DEF Empty
    <2> QED BY <1>1, <1>2, <1>7, <2>1, <2>2, <2>3, CircleStays
  <1> QED BY <1>8, <1>9, <1>10, <1>11, <1>12

----------------------------------------------------------------------------
(* try_dequeue and peek                                                      *)

(* What the producer knows: the consumer only moves on the front of the      *)
(* front block, and does not enter the block the producer is about to use.   *)
LEMMA ProducerStays ==
  ASSUME IInv, UNCHANGED <<producer, tailBlock>>, Len(blocks') = Len(blocks),
         \A c \in 1 .. Len(blocks) :
             /\ blocks'[c].tail = blocks[c].tail /\ blocks'[c].next = blocks[c].next
             /\ blocks'[c].localFront = blocks[c].localFront
             /\ blocks'[c].size = blocks[c].size
             /\ c # frontBlock => blocks'[c].front = blocks[c].front,
         producer.pc \in {"takeNext", "publishNext", "advance", "link"} =>
             frontBlock' # producer.next
  PROVE  ProducerKnows'
  <1>1. tailBlock \in 1 .. Len(blocks) /\ blocks[tailBlock].next \in 1 .. Len(blocks)
    BY NextOfFrontIsBlock, EndsAreLinked
  <1>2. ProducerKnows
    BY DEF IInv
  <1>3. /\ After(tailBlock, producer.at)' = After(tailBlock, producer.at)
        /\ producer.pc \notin {"idle", "gone"} =>
               producer.block = tailBlock /\ producer.at = blocks'[tailBlock].tail
    BY <1>1, <1>2 DEF After, ProducerKnows
  <1>4. ASSUME producer.pc \in {"takeNext", "publishNext", "advance", "link"}
        PROVE  /\ producer.next \in 1 .. Len(blocks) /\ producer.next # frontBlock
               /\ producer.next # frontBlock'
               /\ blocks'[producer.next].front = blocks[producer.next].front
               /\ blocks'[producer.next].tail = blocks[producer.next].tail
               /\ blocks'[producer.next].localFront = blocks[producer.next].localFront
               /\ blocks'[producer.next].next = blocks[producer.next].next
    <2>1. producer.next \in 1 .. Len(blocks) /\ producer.next # frontBlock
      BY <1>1, <1>2, <1>4 DEF ProducerKnows, IInv, TypeOK
    <2> QED BY <1>4, <2>1
  <1>5. blocks'[tailBlock].next = blocks[tailBlock].next
        /\ blocks'[tailBlock].localFront = blocks[tailBlock].localFront
    BY <1>1
  <1> QED BY <1>2, <1>3, <1>4, <1>5 DEF ProducerKnows, Empty

LEMMA IdleIsConsumer == IdleConsumer \in Consumer /\ IdleConsumer.pc = "idle"
  BY DEF IdleConsumer, Consumer, Raw

(* A step of the consumer that changes one block, which it has to itself or  *)
(* of which it changes only the shadow of the tail.                          *)
LEMMA ReleasesKeepsIInv ==
  ASSUME IInv, DequeueReleases
  PROVE  IInv'
  <1> USE DEF IInv
  <1> DEFINE b == frontBlock
             r == blocks[frontBlock]
             u == After(frontBlock, consumer.at)
  <1>1. /\ consumer.pc = "release" /\ consumer.block = b /\ consumer.at = r.front
        /\ b \in 1 .. Len(blocks) /\ tailBlock \in 1 .. Len(blocks)
        /\ producer \in Producer /\ TypeOK /\ offered \in Nat /\ r.localTail # r.front
    BY DEF DequeueReleases, ConsumerKnows, TypeOK
  <1>2. /\ blocks' = [blocks EXCEPT ![b].front = u]
        /\ consumer' = IdleConsumer
        /\ UNCHANGED <<frontBlock, tailBlock, producer, largestBlockSize, offered>>
    BY <1>1 DEF DequeueReleases, DequeueReturns, consumerFrame, allocVars
  <1>3. /\ r.size \in Nat /\ r.size >= 2 /\ r.tail \in 0 .. r.size - 1
        /\ r.front \in 0 .. r.size - 1 /\ r.localFront \in 0 .. r.size - 1
        /\ r.localTail \in 0 .. r.size - 1
    BY <1>1, BlockFacts
  <1>4. u = Follows(r.size, r.front) /\ u \in 0 .. r.size - 1
    BY <1>1, <1>3, AfterIs
  <1> HIDE DEF u
  <1>5. /\ OneChanges(b) /\ blocks'[b].front = u /\ blocks'[b].tail = r.tail
        /\ blocks'[b].localFront = r.localFront /\ blocks'[b].localTail = r.localTail
        /\ blocks'[b].next = r.next /\ blocks'[b].size = r.size
    BY <1>1, <1>2, <1>4, StoreFront DEF OneChanges
  <1>6. /\ Ahead(r.size, u, r.localTail) <= Ahead(r.size, u, r.tail)
        /\ Ahead(r.size, u, r.tail) <= Ahead(r.size, r.localFront, r.tail)
    <2>1. /\ Ahead(r.size, r.front, r.localTail) <= Ahead(r.size, r.front, r.tail)
          /\ Ahead(r.size, r.front, r.tail) <= Ahead(r.size, r.localFront, r.tail)
      BY <1>1 DEF Shadows
    <2> HIDE DEF r
    <2> QED BY <1>1, <1>3, <1>4, <2>1, FrontMovesOn
  <1>7. \A c \in 1 .. Len(blocks) :
           /\ blocks'[c].tail = blocks[c].tail /\ blocks'[c].next = blocks[c].next
           /\ blocks'[c].localFront = blocks[c].localFront
           /\ blocks'[c].size = blocks[c].size
           /\ c # b => blocks'[c].front = blocks[c].front
    BY <1>5 DEF OneChanges
  <1>8. TypeOK'
    BY <1>1, <1>2, <1>5, IdleIsConsumer, TypesStay
  <1>9. Shadows'
    BY <1>1, <1>5, <1>6, ShadowsStay
  <1>10. ConsumerKnows'
    BY <1>2, IdleIsConsumer DEF ConsumerKnows
  <1>11. ProducerKnows'
    <2>1. Len(blocks') = Len(blocks)
      BY <1>5 DEF OneChanges
    <2>2. producer.pc \in {"takeNext", "publishNext", "advance", "link"} =>
             frontBlock' # producer.next
      BY <1>2 DEF ProducerKnows
    <2> QED BY <1>2, <1>7, <2>1, <2>2, ProducerStays
  <1>12. Circle'
    <2>1. Linked' = Linked /\ Len(blocks') = Len(blocks)
      BY <1>2, <1>5 DEF Linked, OneChanges
    <2>2. \A c \in Linked : c # b => (Empty(c)' <=> Empty(c))
      BY <1>7 DEF Empty, Linked
    <2>3. \A c \in Linked : blocks'[c].next = blocks[c].next
      BY <1>7 DEF Linked
    <2> QED BY <1>2, <2>1, <2>2, <2>3, CircleStays
  <1> QED BY <1>8, <1>9, <1>10, <1>11, <1>12

(* The consumer is not in the tail block: the next block has an element.     *)
LEMMA NextIsOccupied ==
  ASSUME IInv, frontBlock # tailBlock
  PROVE  /\ blocks[frontBlock].next \in Linked
         /\ blocks[frontBlock].next # frontBlock
         /\ ~Empty(blocks[frontBlock].next)
  <1>1. PICK n \in Nat : \E pos \in [Linked -> Int] : InCircle(n, pos) /\ Occupied(pos)
    BY DEF IInv, Circle
  <1>2. PICK pos \in [Linked -> Int] : InCircle(n, pos) /\ Occupied(pos)
    BY <1>1
  <1>3. frontBlock \in Linked /\ tailBlock \in Linked
    BY EndsAreLinked
  <1>4. pos[frontBlock] = 0 /\ pos[tailBlock] \in 0 .. n - 1 /\ pos[tailBlock] # 0
    BY <1>2, <1>3 DEF InCircle
  <1>5. pos[frontBlock] # n - 1
    BY <1>4
  <1>6. blocks[frontBlock].next \in Linked /\ pos[blocks[frontBlock].next] = 1
    BY <1>2, <1>3, <1>4, <1>5 DEF InCircle
  <1>7. 1 <= pos[tailBlock]
    BY <1>4
  <1> QED BY <1>2, <1>4, <1>6, <1>7 DEF Occupied

(* The block behind the tail block has none.                                 *)
LEMMA NextIsEmpty ==
  ASSUME IInv, blocks[tailBlock].next # frontBlock, producer.pc # "advance"
  PROVE  /\ blocks[tailBlock].next \in Linked
         /\ blocks[tailBlock].next # tailBlock
         /\ Empty(blocks[tailBlock].next)
  <1>1. PICK n \in Nat : \E pos \in [Linked -> Int] : InCircle(n, pos) /\ Occupied(pos)
    BY DEF IInv, Circle
  <1>2. PICK pos \in [Linked -> Int] : InCircle(n, pos) /\ Occupied(pos)
    BY <1>1
  <1>3. tailBlock \in Linked
    BY EndsAreLinked
  <1>4. /\ blocks[tailBlock].next \in Linked
        /\ pos[blocks[tailBlock].next] = pos[tailBlock] + 1
        /\ pos[tailBlock] \in Int
    BY <1>2, <1>3 DEF InCircle
  <1>5. pos[tailBlock] < pos[blocks[tailBlock].next]
    BY <1>4
  <1> QED BY <1>2, <1>4, <1>5 DEF Occupied

LEMMA TailSeen ==
  ASSUME IInv, NEW b \in 1 .. Len(blocks),
         blocks' = [blocks EXCEPT ![b].localTail = blocks[b].tail]
  PROVE  /\ OneChanges(b) /\ blocks'[b].localTail = blocks[b].tail
         /\ \A c \in 1 .. Len(blocks) :
               /\ blocks'[c].front = blocks[c].front /\ blocks'[c].tail = blocks[c].tail
               /\ blocks'[c].localFront = blocks[c].localFront
               /\ blocks'[c].next = blocks[c].next /\ blocks'[c].size = blocks[c].size
               /\ c # b => blocks'[c].localTail = blocks[c].localTail
  <1>1. TypeOK /\ blocks[b].tail \in 0 .. blocks[b].size - 1
    BY BlockFacts DEF IInv
  <1>2. /\ OneChanges(b) /\ blocks'[b].localTail = blocks[b].tail
        /\ blocks'[b].front = blocks[b].front /\ blocks'[b].tail = blocks[b].tail
        /\ blocks'[b].localFront = blocks[b].localFront
        /\ blocks'[b].next = blocks[b].next
    BY <1>1, StoreLocalTail
  <1> QED BY <1>2 DEF OneChanges

(* The consumer sees how far the producer is in a block.                     *)
LEMMA TailSeenStays ==
  ASSUME IInv, NEW b \in 1 .. Len(blocks),
         blocks' = [blocks EXCEPT ![b].localTail = blocks[b].tail],
         UNCHANGED <<frontBlock, tailBlock, producer, largestBlockSize, offered>>,
         consumer' \in Consumer, ConsumerKnows'
  PROVE  IInv'
  <1> DEFINE r == blocks[b]
  <1>1. /\ OneChanges(b) /\ blocks'[b].localTail = r.tail
        /\ \A c \in 1 .. Len(blocks) :
              /\ blocks'[c].front = blocks[c].front /\ blocks'[c].tail = blocks[c].tail
              /\ blocks'[c].localFront = blocks[c].localFront
              /\ blocks'[c].next = blocks[c].next /\ blocks'[c].size = blocks[c].size
    BY TailSeen
  <1>2. TypeOK /\ Shadows /\ TypeOK'
    <2>1. TypeOK /\ Shadows
      BY DEF IInv
    <2> QED BY <1>1, <2>1, TypesStay DEF TypeOK
  <1>3. Shadows'
    <2>1. Ahead(r.size, r.front, r.tail) <= Ahead(r.size, r.localFront, r.tail)
      BY <1>2 DEF Shadows
    <2>2. Ahead(r.size, r.front, r.tail) <= Ahead(r.size, r.front, r.tail)
      BY <1>2, BlockFacts DEF Ahead
    <2> QED BY <1>1, <1>2, <2>1, <2>2, ShadowsStay
  <1>4. Len(blocks') = Len(blocks)
    BY <1>1 DEF OneChanges
  <1>5. ProducerKnows'
    <2>1. producer.pc \in {"takeNext", "publishNext", "advance", "link"} =>
             frontBlock' # producer.next
      BY DEF IInv, ProducerKnows
    <2> QED BY <1>1, <1>4, <2>1, ProducerStays
  <1>6. Circle'
    <2>1. Linked' = Linked
      BY <1>4 DEF Linked
    <2>2. \A c \in Linked : (Empty(c)' <=> Empty(c)) /\ blocks'[c].next = blocks[c].next
      BY <1>1 DEF Empty, Linked
    <2> QED BY <1>4, <2>1, <2>2, CircleStays
  <1> QED BY <1>2, <1>3, <1>5, <1>6 DEF IInv

LEMMA ReadsTailKeepsIInv ==
  ASSUME IInv, DequeueRereadsTail \/ DequeueRechecks
  PROVE  IInv'
  <1> USE DEF IInv
  <1>1. PICK next \in {"compare", "peekNext"} :
           /\ DequeueReadsTail(next)
           /\ consumer.pc \in {"reread", "recheck"}
           /\ next = "peekNext" => consumer.pc = "recheck"
    BY DEF DequeueRereadsTail, DequeueRechecks
  <1> DEFINE b == frontBlock
             p == IF consumer.at # blocks[b].tail THEN "take" ELSE next
  <1>2. /\ consumer.block = b /\ consumer.at = blocks[b].front
        /\ b \in 1 .. Len(blocks) /\ consumer \in Consumer
        /\ next = "peekNext" => frontBlock # tailBlock
    BY <1>1 DEF ConsumerKnows, TypeOK
  <1>3. /\ blocks' = [blocks EXCEPT ![b].localTail = blocks[b].tail]
        /\ consumer' = [consumer EXCEPT !.pc = p]
        /\ UNCHANGED <<frontBlock, tailBlock, producer, largestBlockSize, offered>>
    BY <1>1, <1>2 DEF DequeueReadsTail, consumerFrame, allocVars
  <1>4. /\ consumer' \in Consumer /\ consumer'.pc = p /\ consumer'.block = b
        /\ consumer'.at = blocks[b].front
    BY <1>2, <1>3 DEF Consumer
  <1>5. /\ blocks'[b].localTail = blocks[b].tail /\ blocks'[b].front = blocks[b].front
        /\ blocks'[b].tail = blocks[b].tail
    BY <1>2, <1>3, TailSeen
  <1>6. ConsumerKnows'
    BY <1>2, <1>3, <1>4, <1>5 DEF ConsumerKnows, Empty
  <1> QED BY <1>2, <1>3, <1>4, <1>6, TailSeenStays

LEMMA LooksAtNextKeepsIInv ==
  ASSUME IInv, DequeueLooksAtNext
  PROVE  IInv'
  <1> USE DEF IInv
  <1> DEFINE b == blocks[frontBlock].next
  <1>1. /\ consumer.pc = "peekNext" /\ consumer.block = frontBlock
        /\ frontBlock \in 1 .. Len(blocks) /\ consumer \in Consumer
        /\ frontBlock # tailBlock /\ Empty(frontBlock)
    BY DEF DequeueLooksAtNext, ConsumerKnows, TypeOK
  <1>2. UNCHANGED <<frontBlock, tailBlock, producer, largestBlockSize, offered>>
    BY DEF DequeueLooksAtNext, consumerFrame, allocVars
  <1>3. CASE consumer' = IdleConsumer /\ UNCHANGED blocks
    <2>1. ConsumerKnows'
      BY <1>3, IdleIsConsumer DEF ConsumerKnows
    <2> QED BY <1>2, <1>3, <2>1, IdleIsConsumer, ConsumerLooks
  <1>4. CASE /\ consumer' = [consumer EXCEPT !.pc = "move", !.next = b,
                                             !.at = blocks[b].front]
             /\ blocks' = [blocks EXCEPT ![b].localTail = blocks[b].tail]
    <2>1. b \in 1 .. Len(blocks) /\ b # frontBlock /\ ~Empty(b)
      BY <1>1, NextIsOccupied DEF Linked
    <2>2. blocks[b].front \in Nat
      BY <2>1, BlockFacts
    <2>3. /\ consumer' \in Consumer /\ consumer'.pc = "move" /\ consumer'.block = frontBlock
          /\ consumer'.next = b /\ consumer'.at = blocks[b].front
      <3> DEFINE i == blocks[b].front
      <3>1. consumer' = [consumer EXCEPT !.pc = "move", !.next = b, !.at = i]
        BY <1>4
      <3>2. b \in Nat /\ i \in Nat
        BY <2>1, <2>2
      <3> HIDE DEF b, i
      <3>3. /\ consumer' \in Consumer /\ consumer'.pc = "move"
            /\ consumer'.block = consumer.block /\ consumer'.next = b /\ consumer'.at = i
        BY <1>1, <3>1, <3>2 DEF Consumer
      <3> QED BY <1>1, <3>3 DEF i
    <2>4. /\ blocks'[b].localTail = blocks[b].tail /\ blocks'[b].front = blocks[b].front
          /\ blocks'[frontBlock].front = blocks[frontBlock].front
          /\ blocks'[frontBlock].tail = blocks[frontBlock].tail
          /\ blocks'[frontBlock].next = b
      BY <1>1, <1>4, <2>1, TailSeen
    <2>5. ConsumerKnows'
      BY <1>1, <1>2, <2>1, <2>3, <2>4 DEF ConsumerKnows, Empty
    <2> QED BY <1>2, <1>4, <2>1, <2>3, <2>5, TailSeenStays
  <1> QED BY <1>1, <1>3, <1>4 DEF DequeueLooksAtNext, DequeueReturns

LEMMA DequeueStartKeepsIInv ==
  ASSUME IInv, NEW call \in {"try_dequeue", "peek"}, DequeueStart(call)
  PROVE  IInv'
  <1> DEFINE none == Queue = <<>>
             f == blocks[frontBlock].front
             p == IF f # blocks[frontBlock].localTail THEN "take" ELSE "reread"
  <1>1. /\ consumer' = [IdleConsumer EXCEPT !.pc = p, !.call = call, !.block = frontBlock,
                           !.at = f, !.wasEmpty = none]
        /\ UNCHANGED <<blocks, frontBlock, tailBlock, producer, largestBlockSize, offered>>
    BY DEF DequeueStart, consumerFrame, allocVars
  <1>2. none \in BOOLEAN /\ p \in {"take", "reread"}
    OBVIOUS
  <1>3. f \in Nat /\ frontBlock \in Nat
    BY BlockFacts DEF IInv, TypeOK
  <1> HIDE DEF none, f, p
  <1>4. /\ consumer' \in Consumer /\ consumer'.pc = p
        /\ consumer'.block = frontBlock /\ consumer'.at = f
    BY <1>1, <1>2, <1>3 DEF IdleConsumer, Consumer, Raw
  <1>5. ConsumerKnows'
    BY <1>1, <1>4 DEF ConsumerKnows, f, p
  <1> QED BY <1>1, <1>4, <1>5, ConsumerLooks

LEMMA ComparesBlocksKeepsIInv ==
  ASSUME IInv, DequeueComparesBlocks \/ PeekReturns
  PROVE  IInv'
  <1>1. UNCHANGED <<blocks, frontBlock, tailBlock, producer, largestBlockSize, offered>>
    BY DEF DequeueComparesBlocks, PeekReturns, consumerFrame, allocVars
  <1>2. CASE consumer' = IdleConsumer
    <2>1. ConsumerKnows'
      BY <1>2, IdleIsConsumer DEF ConsumerKnows
    <2> QED BY <1>1, <1>2, <2>1, IdleIsConsumer, ConsumerLooks
  <1>3. CASE /\ consumer.pc = "compare" /\ consumer.block # tailBlock
             /\ consumer' = [consumer EXCEPT !.pc = "recheck"]
    <2>1. /\ consumer \in Consumer /\ consumer.block = frontBlock
          /\ consumer.at = blocks[frontBlock].front
      BY <1>3 DEF IInv, TypeOK, ConsumerKnows
    <2>2. /\ consumer' \in Consumer /\ consumer'.pc = "recheck"
          /\ consumer'.block = frontBlock /\ consumer'.at = blocks[frontBlock].front
      BY <1>3, <2>1 DEF Consumer
    <2>3. ConsumerKnows'
      BY <1>1, <1>3, <2>1, <2>2 DEF ConsumerKnows
    <2> QED BY <1>1, <2>2, <2>3, ConsumerLooks
  <1> QED BY <1>2, <1>3 DEF DequeueComparesBlocks, PeekReturns, DequeueReturns

LEMMA TakesKeepsIInv ==
  ASSUME IInv, DequeueTakes
  PROVE  IInv'
  <1> USE DEF IInv
  <1> DEFINE e == ElementAtHand
  <1>1. /\ consumer.pc = "take" /\ consumer.block = frontBlock
        /\ consumer.at = blocks[frontBlock].front
        /\ blocks[frontBlock].localTail # consumer.at
        /\ frontBlock \in 1 .. Len(blocks) /\ tailBlock \in 1 .. Len(blocks)
        /\ producer \in Producer /\ consumer \in Consumer /\ TypeOK /\ offered \in Nat
    BY DEF DequeueTakes, ConsumerKnows, TypeOK
  <1>2. /\ blocks' = DataSet(frontBlock, consumer.at, Raw)
        /\ consumer' = [consumer EXCEPT !.pc = "release", !.element = e]
        /\ UNCHANGED <<frontBlock, tailBlock, producer, largestBlockSize, offered>>
    BY <1>1 DEF DequeueTakes, consumerFrame, allocVars, DataSet
  <1>3. /\ blocks[frontBlock].size \in Nat
        /\ consumer.at \in 0 .. blocks[frontBlock].size - 1
        /\ blocks[frontBlock].data \in [0 .. blocks[frontBlock].size - 1 -> Nat]
    BY <1>1, BlockFacts
  <1>4. OneChanges(frontBlock) /\ SameIndices
    <2>1. consumer.at \in Nat /\ consumer.at < blocks[frontBlock].size /\ Raw \in Nat
      BY <1>3 DEF Raw
    <2> QED BY <1>1, <1>2, <2>1, DataStoreIsSmall
  <1>5. e \in Nat
    BY <1>1, <1>3 DEF ElementAtHand
  <1> HIDE DEF e
  <1>6. /\ consumer' \in Consumer /\ consumer'.pc = "release"
        /\ consumer'.block = consumer.block /\ consumer'.at = consumer.at
    BY <1>1, <1>2, <1>5 DEF Consumer
  <1>7. ConsumerKnows'
    BY <1>1, <1>2, <1>4, <1>6 DEF ConsumerKnows, SameIndices
  <1>8. ProducerKnows'
    <2>1. Len(blocks') = Len(blocks)
      BY <1>4 DEF OneChanges
    <2>2. producer.pc \in {"takeNext", "publishNext", "advance", "link"} =>
             frontBlock' # producer.next
      BY <1>2 DEF ProducerKnows
    <2> QED BY <1>2, <1>4, <2>1, <2>2, ProducerStays DEF SameIndices
  <1> QED BY <1>1, <1>2, <1>4, <1>6, <1>7, <1>8, DataStays

(* The consumer moves on: the numbers of the blocks turn with it, and the    *)
(* block it leaves, which is empty, gets the last one.                       *)
LEMMA TurnedCircle ==
  ASSUME IInv, UNCHANGED <<blocks, tailBlock, producer>>,
         frontBlock' = blocks[frontBlock].next, frontBlock # tailBlock, Empty(frontBlock)
  PROVE  Circle' /\ (producer.pc \in {"takeNext", "publishNext", "advance", "link"} =>
                        frontBlock' # producer.next)
  <1>1. PICK n \in Nat : \E pos \in [Linked -> Int] : InCircle(n, pos) /\ Occupied(pos)
    BY DEF IInv, Circle
  <1>2. PICK pos \in [Linked -> Int] : InCircle(n, pos) /\ Occupied(pos)
    BY <1>1
  <1>3. Linked' = Linked /\ (\A b \in Linked : Empty(b)' <=> Empty(b))
    BY DEF Linked, Empty
  <1>4. /\ frontBlock \in Linked /\ tailBlock \in Linked
        /\ \A b \in Linked : pos[b] \in 0 .. n - 1
        /\ \A b \in Linked : pos[b] = 0 => b = frontBlock
        /\ pos[frontBlock] = 0
    BY <1>2, EndsAreLinked DEF InCircle
  <1>5. pos[tailBlock] \in 1 .. n - 1 /\ n >= 2
    BY <1>4
  <1>6. frontBlock' \in Linked /\ pos[frontBlock'] = 1
    BY <1>2, <1>4, <1>5 DEF InCircle
  <1>7. [b \in Linked |-> IF pos[b] = 0 THEN n - 1 ELSE pos[b] - 1] \in [Linked -> Int]
    BY <1>4
  <1>8. PICK turned \in [Linked -> Int] :
           \A b \in Linked : turned[b] = IF pos[b] = 0 THEN n - 1 ELSE pos[b] - 1
    BY <1>7
  <1>9. /\ \A b \in Linked : turned[b] \in 0 .. n - 1
        /\ turned[frontBlock'] = 0
        /\ \A a, b \in Linked : turned[a] = turned[b] => pos[a] = pos[b]
    <2>1. \A b \in Linked : turned[b] \in 0 .. n - 1
      BY <1>4, <1>5, <1>8
    <2>2. turned[frontBlock'] = 0
      BY <1>6, <1>8
    <2>3. ASSUME NEW a \in Linked, NEW b \in Linked, turned[a] = turned[b]
          PROVE  pos[a] = pos[b]
      <3>1. /\ turned[a] = IF pos[a] = 0 THEN n - 1 ELSE pos[a] - 1
            /\ turned[b] = IF pos[b] = 0 THEN n - 1 ELSE pos[b] - 1
            /\ pos[a] \in 0 .. n - 1 /\ pos[b] \in 0 .. n - 1
        BY <1>4, <1>8
      <3>2. \A x, y \in 0 .. n - 1 :
               (IF x = 0 THEN n - 1 ELSE x - 1) = (IF y = 0 THEN n - 1 ELSE y - 1) => x = y
        OBVIOUS
      <3> QED BY <2>3, <3>1, <3>2
    <2> QED BY <2>1, <2>2, <2>3
  <1>10. ASSUME NEW b \in Linked
         PROVE  /\ blocks[b].next \in Linked
                /\ IF turned[b] = n - 1 THEN blocks[b].next = frontBlock'
                   ELSE turned[blocks[b].next] = turned[b] + 1
    <2> DEFINE c == blocks[b].next
    <2>1. /\ c \in Linked
          /\ IF pos[b] = n - 1 THEN c = frontBlock ELSE pos[c] = pos[b] + 1
      BY <1>2 DEF InCircle
    <2>2. /\ turned[b] = IF pos[b] = 0 THEN n - 1 ELSE pos[b] - 1
          /\ turned[c] = IF pos[c] = 0 THEN n - 1 ELSE pos[c] - 1
          /\ pos[b] \in 0 .. n - 1 /\ pos[c] \in 0 .. n - 1
      BY <1>4, <1>8, <2>1
    <2>3. CASE pos[b] = 0
      <3>1. b = frontBlock
        BY <1>4, <2>3
      <3> QED BY <2>1, <2>2, <2>3, <3>1
    <2>4. CASE pos[b] # 0
      <3>1. pos[frontBlock] = 0
        BY <1>4
      <3> HIDE DEF c
      <3>2. turned[b] # n - 1 /\ turned[c] = turned[b] + 1
        BY <1>5, <2>1, <2>2, <2>4, <3>1
      <3> QED BY <2>1, <3>2 DEF c
    <2> QED BY <2>3, <2>4
  <1>11. InCircle(n, turned)'
    <2>1. \A a, b \in Linked : turned[a] = turned[b] => a = b
      BY <1>2, <1>9 DEF InCircle
    <2> QED BY <1>3, <1>9, <1>10, <2>1 DEF InCircle
  <1>12. Occupied(turned)'
    <2>1. turned[tailBlock] = pos[tailBlock] - 1
      BY <1>4, <1>5, <1>8
    <2>2. ASSUME NEW b \in Linked, 0 < turned[b], turned[b] <= turned[tailBlock]
          PROVE  ~Empty(b)
      <3>1. /\ turned[b] = IF pos[b] = 0 THEN n - 1 ELSE pos[b] - 1
            /\ pos[b] \in 0 .. n - 1
        BY <1>4, <1>8
      <3>2. 0 < pos[b] /\ pos[b] <= pos[tailBlock]
        BY <1>5, <2>1, <2>2, <3>1
      <3> QED BY <1>2, <3>2 DEF Occupied
    <2>3. ASSUME NEW b \in Linked, turned[tailBlock] < turned[b]
          PROVE  Empty(b) \/ (producer.pc = "advance" /\ b = producer.next)
      <3>1. CASE pos[b] = 0
        BY <1>4, <3>1
      <3>2. CASE pos[b] # 0
        <4>1. turned[b] = pos[b] - 1 /\ pos[b] \in 0 .. n - 1
          BY <1>4, <1>8, <3>2
        <4>2. pos[tailBlock] < pos[b]
          BY <1>5, <2>1, <2>3, <4>1
        <4> QED BY <1>2, <4>2 DEF Occupied
      <3> QED BY <3>1, <3>2
    <2> QED BY <1>3, <2>2, <2>3 DEF Occupied
  <1>13. Circle'
    BY <1>3, <1>11, <1>12 DEF Circle
  <1>14. ASSUME producer.pc \in {"takeNext", "publishNext", "advance", "link"}
         PROVE  frontBlock' # producer.next
    <2>1. CASE producer.pc = "link"
      BY <1>6, <2>1 DEF Linked
    <2>2. CASE producer.pc # "link"
      <3>1. producer.next = blocks[tailBlock].next /\ producer.next # frontBlock
        BY <1>14, <2>2 DEF IInv, ProducerKnows
      <3>2. pos[producer.next] = pos[tailBlock] + 1
        BY <1>2, <1>4, <3>1 DEF InCircle
      <3> QED BY <1>5, <1>6, <3>2
    <2> QED BY <2>1, <2>2
  <1> QED BY <1>13, <1>14

LEMMA MovesKeepsIInv ==
  ASSUME IInv, DequeueMoves
  PROVE  IInv'
  <1> USE DEF IInv
  <1> DEFINE b == blocks[frontBlock].next
  <1>1. /\ consumer.pc = "move" /\ consumer.next = b /\ frontBlock # tailBlock
        /\ Empty(frontBlock) /\ consumer.at = blocks[b].front
        /\ blocks[b].localTail # consumer.at
        /\ frontBlock \in 1 .. Len(blocks) /\ consumer \in Consumer
    BY DEF DequeueMoves, ConsumerKnows, TypeOK
  <1>2. /\ frontBlock' = b
        /\ consumer' = [consumer EXCEPT !.pc = "take", !.block = b]
        /\ UNCHANGED <<blocks, tailBlock, producer, largestBlockSize, offered>>
    BY <1>1 DEF DequeueMoves, consumerFrame, allocVars
  <1>3. b \in 1 .. Len(blocks)
    BY <1>1, NextIsOccupied DEF Linked
  <1>4. /\ consumer' \in Consumer /\ consumer'.pc = "take" /\ consumer'.block = b
        /\ consumer'.at = consumer.at
    <2>1. b \in Nat
      BY <1>3
    <2> HIDE DEF b
    <2> QED BY <1>1, <1>2, <2>1 DEF Consumer
  <1>5. TypeOK'
    BY <1>2, <1>3, <1>4 DEF TypeOK, BlockOK
  <1>6. Shadows'
    BY <1>2 DEF Shadows, Ahead
  <1>7. ConsumerKnows'
    BY <1>1, <1>2, <1>4 DEF ConsumerKnows
  <1>8. Circle' /\ (producer.pc \in {"takeNext", "publishNext", "advance", "link"} =>
                       frontBlock' # producer.next)
    BY <1>1, <1>2, TurnedCircle
  <1>9. ProducerKnows'
    BY <1>2, <1>8, ProducerStays
  <1> QED BY <1>5, <1>6, <1>7, <1>8, <1>9

----------------------------------------------------------------------------
(* inner_enqueue in the next block                                           *)

LEMMA TakenNext ==
  ASSUME TypeOK, NEW b \in 1 .. Len(blocks), offered \in Nat,
         blocks' = [blocks EXCEPT ![b].localFront = blocks[b].front,
                                  ![b].data[blocks[b].tail] = offered]
  PROVE  Stored(b, blocks[b].front, blocks[b].localTail, blocks[b].tail,
                blocks[b].front, blocks[b].next)
  <1> DEFINE r == blocks[b]
             f == r.front
             d == [r.data EXCEPT ![r.tail] = offered]
             q == [r EXCEPT !.localFront = f, !.data = d]
  <1>1. /\ r \in Block /\ r.data \in [0 .. r.size - 1 -> Nat] /\ r.size \in Nat
        /\ f \in 0 .. r.size - 1
    BY BlockFacts
  <1>2. d \in [0 .. r.size - 1 -> Nat] /\ d \in UNION {[0 .. m - 1 -> Nat] : m \in Nat}
    <2>1. d \in [0 .. r.size - 1 -> Nat]
      BY <1>1
    <2> HIDE DEF d
    <2> QED BY <1>1, <2>1, DataIsData
  <1>3. f \in Nat
    BY <1>1
  <1>4. blocks' = [blocks EXCEPT ![b] = q]
    <2>1. q = [[r EXCEPT !.localFront = f] EXCEPT !.data = d]
      BY <1>1 DEF Block
    <2> QED BY <1>1, <2>1 DEF Block
  <1> HIDE DEF d, f
  <1>5. /\ q \in Block /\ q.data = d /\ q.front = r.front /\ q.tail = r.tail
        /\ q.localFront = f /\ q.localTail = r.localTail
        /\ q.next = r.next /\ q.size = r.size
    BY <1>1, <1>2, <1>3 DEF Block
  <1> HIDE DEF q
  <1>6. /\ q.front \in 0 .. q.size - 1 /\ q.localTail \in 0 .. q.size - 1
        /\ q.tail \in 0 .. q.size - 1 /\ q.localFront \in 0 .. q.size - 1
        /\ q.data \in [0 .. q.size - 1 -> Nat]
    BY <1>1, <1>2, <1>5, BlockFacts
  <1>7. OneChanges(b) /\ blocks'[b] = q
    BY <1>4, <1>5, <1>6, SetBlock
  <1> QED BY <1>5, <1>7 DEF Stored, f

LEMMA TakesNextKeepsIInv ==
  ASSUME IInv, EnqueueTakesNext
  PROVE  IInv'
  <1> USE DEF IInv
  <1> DEFINE b == producer.next
             r == blocks[b]
  <1>1. /\ producer.pc = "takeNext" /\ b = blocks[tailBlock].next /\ b # frontBlock
        /\ producer.block = tailBlock /\ producer.at = blocks[tailBlock].tail
        /\ tailBlock \in 1 .. Len(blocks) /\ frontBlock \in 1 .. Len(blocks)
        /\ producer \in Producer /\ consumer \in Consumer /\ TypeOK /\ offered \in Nat
    BY DEF EnqueueTakesNext, ProducerKnows, TypeOK
  <1>2. /\ blocks' = [blocks EXCEPT ![b].localFront = blocks[b].front,
                                    ![b].data[blocks[b].tail] = offered]
        /\ producer' = [producer EXCEPT !.pc = "publishNext"]
        /\ UNCHANGED <<frontBlock, tailBlock, consumer, largestBlockSize, offered>>
    BY DEF EnqueueTakesNext, producerFrame
  <1>3. b \in 1 .. Len(blocks) /\ b # tailBlock /\ Empty(b)
    BY <1>1, NextIsEmpty DEF Linked
  <1>4. /\ OneChanges(b) /\ blocks'[b].front = r.front /\ blocks'[b].tail = r.tail
        /\ blocks'[b].localFront = r.front /\ blocks'[b].localTail = r.localTail
        /\ blocks'[b].next = r.next
    <2> HIDE DEF b
    <2> QED BY <1>1, <1>2, <1>3, TakenNext DEF Stored
  <1>5. /\ producer' \in Producer /\ producer'.pc = "publishNext"
        /\ producer'.block = producer.block /\ producer'.at = producer.at
        /\ producer'.next = b
    BY <1>1, <1>2 DEF Producer
  <1>6. /\ Len(blocks') = Len(blocks)
        /\ \A c \in 1 .. Len(blocks) :
           /\ blocks'[c].front = blocks[c].front /\ blocks'[c].tail = blocks[c].tail
           /\ blocks'[c].next = blocks[c].next /\ blocks'[c].localTail = blocks[c].localTail
    BY <1>4 DEF OneChanges
  <1>7. TypeOK'
    BY <1>1, <1>2, <1>3, <1>4, <1>5, TypesStay
  <1>8. Shadows'
    <2>1. Ahead(r.size, r.front, r.localTail) <= Ahead(r.size, r.front, r.tail)
      BY <1>3 DEF Shadows
    <2>2. Ahead(r.size, r.front, r.tail) <= Ahead(r.size, r.front, r.tail)
      <3>1. r.size \in Nat /\ r.front \in 0 .. r.size - 1 /\ r.tail \in 0 .. r.size - 1
        BY <1>1, <1>3, BlockFacts
      <3> HIDE DEF r
      <3> QED BY <3>1 DEF Ahead
    <2> QED BY <1>1, <1>3, <1>4, <2>1, <2>2, ShadowsStay
  <1>9. ProducerKnows'
    <2>1. /\ blocks'[tailBlock].tail = blocks[tailBlock].tail
          /\ blocks'[tailBlock].next = b
      BY <1>1, <1>6
    <2> HIDE DEF b
    <2> QED BY <1>1, <1>2, <1>4, <1>5, <2>1 DEF ProducerKnows
  <1>10. ConsumerKnows'
    BY <1>1, <1>2, <1>6, ConsumerStays
  <1>11. Circle'
    <2>1. Linked' = Linked /\ Linked = 1 .. Len(blocks)
      BY <1>1, <1>5, <1>6, LinkedStays
    <2>2. \A c \in Linked : Empty(c)' <=> Empty(c)
      BY <1>6, <2>1 DEF Empty
    <2> QED BY <1>1, <1>2, <1>6, <2>1, <2>2, CircleStays
  <1> QED BY <1>7, <1>8, <1>9, <1>10, <1>11

LEMMA PublishesInNextKeepsIInv ==
  ASSUME IInv, EnqueuePublishesInNext
  PROVE  IInv'
  <1> USE DEF IInv
  <1> DEFINE b == producer.next
             r == blocks[b]
             u == After(b, blocks[b].tail)
  <1>1. /\ producer.pc = "publishNext" /\ b = blocks[tailBlock].next /\ b # frontBlock
        /\ producer.block = tailBlock /\ producer.at = blocks[tailBlock].tail
        /\ r.localFront = r.front
        /\ tailBlock \in 1 .. Len(blocks) /\ frontBlock \in 1 .. Len(blocks)
        /\ producer \in Producer /\ consumer \in Consumer /\ TypeOK /\ offered \in Nat
    BY DEF EnqueuePublishesInNext, ProducerKnows, TypeOK
  <1>2. /\ blocks' = [blocks EXCEPT ![b].tail = u]
        /\ producer' = [producer EXCEPT !.pc = "advance"]
        /\ UNCHANGED <<frontBlock, tailBlock, consumer, largestBlockSize, offered>>
    BY DEF EnqueuePublishesInNext, producerFrame
  <1>3. b \in 1 .. Len(blocks) /\ b # tailBlock /\ r.front = r.tail
    BY <1>1, NextIsEmpty DEF Linked, Empty
  <1>4. /\ r.size \in Nat /\ r.size >= 2 /\ r.tail \in 0 .. r.size - 1
        /\ r.front \in 0 .. r.size - 1 /\ r.localFront \in 0 .. r.size - 1
        /\ r.localTail \in 0 .. r.size - 1
    BY <1>1, <1>3, BlockFacts
  <1>5. u = Follows(r.size, r.tail) /\ u \in 0 .. r.size - 1
    BY <1>1, <1>3, <1>4, AfterIs
  <1> HIDE DEF u
  <1>6. /\ OneChanges(b) /\ blocks'[b].front = r.front /\ blocks'[b].tail = u
        /\ blocks'[b].localFront = r.localFront /\ blocks'[b].localTail = r.localTail
        /\ blocks'[b].next = r.next
    <2> HIDE DEF b
    <2> QED BY <1>1, <1>2, <1>3, <1>5, StoreTail
  <1>7. /\ Ahead(r.size, r.front, r.localTail) <= Ahead(r.size, r.front, u)
        /\ Ahead(r.size, r.front, u) <= Ahead(r.size, r.localFront, u)
        /\ u # r.front
    <2>1. /\ Ahead(r.size, r.front, r.localTail) <= Ahead(r.size, r.front, r.tail)
          /\ Ahead(r.size, r.front, r.tail) <= Ahead(r.size, r.localFront, r.tail)
      BY <1>3 DEF Shadows
    <2>2. u # r.localFront
      BY <1>1, <1>3, <1>4, <1>5 DEF Follows
    <2> HIDE DEF r
    <2> QED BY <1>3, <1>4, <1>5, <2>1, <2>2, TailMovesOn
  <1>8. /\ Len(blocks') = Len(blocks)
        /\ \A c \in 1 .. Len(blocks) :
           /\ blocks'[c].front = blocks[c].front /\ blocks'[c].next = blocks[c].next
           /\ blocks'[c].localTail = blocks[c].localTail
           /\ c # b => blocks'[c].tail = blocks[c].tail
    BY <1>6 DEF OneChanges
  <1>9. /\ producer' \in Producer /\ producer'.pc = "advance"
        /\ producer'.block = producer.block /\ producer'.at = producer.at
        /\ producer'.next = b
    BY <1>1, <1>2 DEF Producer
  <1>10. TypeOK'
    BY <1>1, <1>2, <1>3, <1>6, <1>9, TypesStay
  <1>11. Shadows'
    BY <1>1, <1>3, <1>6, <1>7, ShadowsStay
  <1>12. ProducerKnows'
    BY <1>1, <1>2, <1>3, <1>6, <1>7, <1>8, <1>9 DEF ProducerKnows, Empty
  <1>13. ConsumerKnows'
    BY <1>1, <1>2, <1>8, ConsumerStays
  <1>14. Circle'
    <2>1. Linked' = Linked /\ Linked = 1 .. Len(blocks)
      BY <1>1, <1>8, <1>9, LinkedStays
    <2>2. \A c \in Linked : c # b => (Empty(c)' <=> Empty(c))
      BY <1>8, <2>1 DEF Empty
    <2>3. Empty(b)
      BY <1>3 DEF Empty
    <2> QED BY <1>1, <1>2, <1>8, <1>9, <2>1, <2>2, <2>3, CircleStays
  <1> QED BY <1>10, <1>11, <1>12, <1>13, <1>14

(* The circle: the block behind the tail block becomes the tail block, its   *)
(* element in it.                                                            *)
LEMMA AdvancesKeepsIInv ==
  ASSUME IInv, EnqueueAdvances
  PROVE  IInv'
  <1> USE DEF IInv
  <1> DEFINE b == producer.next
  <1>1. /\ producer.pc = "advance" /\ b = blocks[tailBlock].next /\ b # frontBlock
        /\ ~Empty(b) /\ tailBlock \in 1 .. Len(blocks) /\ frontBlock \in 1 .. Len(blocks)
    BY DEF EnqueueAdvances, ProducerKnows, TypeOK
  <1>2. /\ tailBlock' = b /\ producer' = IdleProducer
        /\ UNCHANGED <<blocks, frontBlock, consumer, largestBlockSize, offered>>
    BY DEF EnqueueAdvances, EnqueueReturns, producerFrame
  <1>3. PICK n \in Nat : \E pos \in [Linked -> Int] : InCircle(n, pos) /\ Occupied(pos)
    BY DEF Circle
  <1>4. PICK pos \in [Linked -> Int] : InCircle(n, pos) /\ Occupied(pos)
    BY <1>3
  <1>5. /\ Linked' = Linked /\ Linked = 1 .. Len(blocks)
        /\ \A c \in Linked : Empty(c)' <=> Empty(c)
    BY <1>1, <1>2, IdleIsProducer, LinkedStays DEF Empty
  <1>6. b \in Linked /\ pos[b] = pos[tailBlock] + 1 /\ pos[tailBlock] \in Int
    BY <1>1, <1>4, <1>5 DEF InCircle
  <1>7. TypeOK'
    BY <1>2, <1>5, <1>6, IdleIsProducer DEF TypeOK, BlockOK
  <1>8. Shadows' /\ ProducerKnows'
    BY <1>2, IdleIsProducer DEF Shadows, Ahead, ProducerKnows
  <1>9. ConsumerKnows'
    BY <1>1, <1>2, ConsumerStays
  <1>10. Circle'
    <2>1. InCircle(n, pos)'
      BY <1>2, <1>4, <1>5 DEF InCircle
    <2>2. ASSUME NEW c \in Linked, 0 < pos[c], pos[c] <= pos[b]
          PROVE  ~Empty(c)
      <3>1. CASE pos[c] = pos[b]
        BY <1>1, <1>4, <1>6, <3>1 DEF InCircle
      <3>2. CASE pos[c] # pos[b]
        <4>1. pos[c] <= pos[tailBlock]
          BY <1>6, <2>2, <3>2
        <4> QED BY <1>4, <2>2, <4>1 DEF Occupied
      <3> QED BY <3>1, <3>2
    <2>3. ASSUME NEW c \in Linked, pos[b] < pos[c]
          PROVE  Empty(c)
      <3>1. pos[tailBlock] < pos[c] /\ c # b
        BY <1>6, <2>3
      <3> QED BY <1>4, <3>1 DEF Occupied
    <2>4. Occupied(pos)'
      BY <1>2, <1>5, <2>2, <2>3 DEF Occupied
    <2> QED BY <1>5, <2>1, <2>4 DEF Circle
  <1> QED BY <1>7, <1>8, <1>9, <1>10

LEMMA DestroyKeepsIInv ==
  ASSUME IInv, Destroy
  PROVE  IInv'
  <1> USE DEF IInv
  <1>1. /\ producer.pc = "idle" /\ consumer.pc = "idle"
        /\ producer' = [producer EXCEPT !.pc = "gone"]
        /\ consumer' = [consumer EXCEPT !.pc = "gone"]
        /\ UNCHANGED <<blocks, frontBlock, tailBlock, largestBlockSize, offered>>
    BY DEF Destroy, allocVars
  <1>2. /\ producer' \in Producer /\ producer'.pc = "gone"
        /\ consumer' \in Consumer /\ consumer'.pc = "gone"
    BY <1>1 DEF TypeOK, Producer, Consumer
  <1>3. TypeOK'
    BY <1>1, <1>2 DEF TypeOK, BlockOK
  <1>4. Shadows' /\ ProducerKnows' /\ ConsumerKnows'
    BY <1>1, <1>2 DEF Shadows, Ahead, ProducerKnows, ConsumerKnows
  <1>5. Circle'
    <2>1. Linked' = Linked
      BY <1>1, <1>2, LinkedStays
    <2>2. \A b \in Linked : Empty(b)' <=> Empty(b)
      BY <1>1 DEF Empty
    <2> QED BY <1>1, <2>1, <2>2, CircleStays
  <1> QED BY <1>3, <1>4, <1>5

LEMMA AppendOne ==
  ASSUME NEW S, NEW s \in Seq(S), NEW x \in S, NEW r, r = Append(s, x)
  PROVE  /\ r \in Seq(S) /\ Len(r) = Len(s) + 1 /\ r[Len(s) + 1] = x
         /\ \A c \in 1 .. Len(s) : r[c] = s[c]
  OBVIOUS

(* A new block, with the first element in it, outside the circle.            *)
NewBlock(n, next, x) ==
    [make_block(n, next) EXCEPT !.data[0] = x, !.tail = 1, !.localTail = 1]

LEMMA NewBlockIs ==
  ASSUME NEW n \in Nat, n >= 2, NEW next \in Nat, NEW x \in Nat,
         NEW q, q = NewBlock(n, next, x)
  PROVE  /\ q \in Block /\ q.size = n /\ q.next = next
         /\ q.front = 0 /\ q.localTail = 1 /\ q.tail = 1 /\ q.localFront = 0
         /\ q.data \in [0 .. n - 1 -> Nat]
  <1> DEFINE z == [i \in 0 .. n - 1 |-> Raw]
             d == [z EXCEPT ![0] = x]
  <1>1. z \in [0 .. n - 1 -> Nat]
    BY DEF Raw
  <1>2. d \in [0 .. n - 1 -> Nat] /\ d \in UNION {[0 .. m - 1 -> Nat] : m \in Nat}
    <2>1. d \in [0 .. n - 1 -> Nat]
      BY <1>1
    <2> HIDE DEF d
    <2> QED BY <2>1, DataIsData
  <1>3. q = [front |-> 0, localTail |-> 1, tail |-> 1, localFront |-> 0,
             next |-> next, size |-> n, data |-> d]
    BY DEF make_block, NewBlock
  <1> HIDE DEF d
  <1>4. /\ q.size = n /\ q.next = next /\ q.front = 0 /\ q.localTail = 1 /\ q.tail = 1
        /\ q.localFront = 0 /\ q.data = d /\ q \in Block
    BY <1>2, <1>3 DEF Block
  <1> QED BY <1>2, <1>4

LEMMA AllocatesKeepsIInv ==
  ASSUME IInv, EnqueueAllocates
  PROVE  IInv'
  <1> USE DEF IInv
  <1> DEFINE new == Len(blocks) + 1
             n == NewBlockSize
             next == blocks[tailBlock].next
             q == NewBlock(n, next, offered)
  <1>1. /\ producer.pc = "allocate" /\ producer.block = tailBlock
        /\ producer.at = blocks[tailBlock].tail
        /\ tailBlock \in 1 .. Len(blocks) /\ frontBlock \in 1 .. Len(blocks)
        /\ producer \in Producer /\ consumer \in Consumer /\ TypeOK /\ offered \in Nat
        /\ blocks \in Seq(Block)
    BY DEF EnqueueAllocates, ProducerKnows, TypeOK
  <1>2. /\ blocks' = Append(blocks, q)
        /\ producer' = [producer EXCEPT !.pc = "link", !.next = new]
        /\ largestBlockSize' = n
        /\ UNCHANGED <<frontBlock, tailBlock, consumer, offered>>
    BY <1>1 DEF EnqueueAllocates, producerFrame, NewBlock
  <1>3. n \in Nat /\ n >= 2 /\ next \in Nat /\ Len(blocks) \in Nat
    <2>1. n \in Nat /\ n >= 2
      BY <1>1 DEF TypeOK, NewBlockSize
    <2> HIDE DEF n
    <2> QED BY <1>1, <2>1, BlockFacts
  <1> HIDE DEF n, next
  <1>4. /\ q \in Block /\ q.size = n /\ q.next = next
        /\ q.front = 0 /\ q.localTail = 1 /\ q.tail = 1 /\ q.localFront = 0
        /\ q.data \in [0 .. n - 1 -> Nat]
    BY <1>1, <1>3, NewBlockIs
  <1> HIDE DEF q
  <1>5. /\ blocks' \in Seq(Block) /\ Len(blocks') = new /\ blocks'[new] = q
        /\ \A c \in 1 .. Len(blocks) : blocks'[c] = blocks[c]
    BY <1>1, <1>2, <1>4, AppendOne
  <1>6. /\ producer' \in Producer /\ producer'.pc = "link" /\ producer'.next = new
        /\ producer'.block = tailBlock /\ producer'.at = producer.at
    <2>1. new \in Nat
      BY <1>3
    <2> HIDE DEF new
    <2> QED BY <1>1, <1>2, <2>1 DEF Producer
  <1>7. /\ new \notin 1 .. Len(blocks)
        /\ \A c : c \in 1 .. Len(blocks') <=> c \in 1 .. Len(blocks) \/ c = new
    BY <1>3, <1>5
  <1> HIDE DEF new
  <1>8. TypeOK'
    <2>1. ASSUME NEW c \in 1 .. Len(blocks') PROVE BlockOK(c)'
      <3>1. CASE c = new
        BY <1>3, <1>4, <1>5, <3>1 DEF BlockOK
      <3>2. CASE c # new
        <4>1. c \in 1 .. Len(blocks) /\ blocks'[c] = blocks[c]
          BY <1>5, <1>7, <3>2
        <4> QED BY <1>1, <4>1 DEF TypeOK, BlockOK
      <3> QED BY <3>1, <3>2
    <2>2. frontBlock' \in 1 .. Len(blocks') /\ tailBlock' \in 1 .. Len(blocks')
      BY <1>1, <1>2, <1>7
    <2> QED BY <1>1, <1>2, <1>3, <1>5, <1>6, <2>1, <2>2 DEF TypeOK
  <1>9. Shadows'
    <2>1. ASSUME NEW c \in 1 .. Len(blocks')
          PROVE  /\ Ahead(blocks'[c].size, blocks'[c].front, blocks'[c].localTail)
                       <= Ahead(blocks'[c].size, blocks'[c].front, blocks'[c].tail)
                 /\ Ahead(blocks'[c].size, blocks'[c].front, blocks'[c].tail)
                       <= Ahead(blocks'[c].size, blocks'[c].localFront, blocks'[c].tail)
      <3>1. CASE c = new
        BY <1>4, <1>5, <3>1 DEF Ahead
      <3>2. CASE c # new
        <4>1. c \in 1 .. Len(blocks) /\ blocks'[c] = blocks[c]
          BY <1>5, <1>7, <3>2
        <4> QED BY <4>1 DEF Shadows
      <3> QED BY <3>1, <3>2
    <2> QED BY <2>1 DEF Shadows, Ahead
  <1>10. ProducerKnows'
    <2>1. blocks'[tailBlock] = blocks[tailBlock] /\ new \notin {frontBlock, tailBlock}
      BY <1>1, <1>5, <1>7
    <2> QED BY <1>1, <1>2, <1>4, <1>5, <1>6, <2>1 DEF ProducerKnows, Empty, next
  <1>11. ConsumerKnows'
    BY <1>1, <1>2, <1>5, ConsumerStays
  <1>12. Circle'
    <2>1. Linked' = Linked /\ Linked = 1 .. Len(blocks)
      BY <1>1, <1>6, <1>7 DEF Linked
    <2>2. \A c \in Linked : (Empty(c)' <=> Empty(c)) /\ blocks'[c].next = blocks[c].next
      BY <1>5, <2>1 DEF Empty
    <2> QED BY <1>1, <1>2, <2>1, <2>2, CircleStays
  <1> QED BY <1>8, <1>9, <1>10, <1>11, <1>12

(* The new block is linked behind the tail block: the numbers of the blocks  *)
(* behind that grow by one.                                                  *)
LEMMA WidenedCircle ==
  ASSUME IInv, producer.pc = "link", producer'.pc = "advance",
         producer'.next = producer.next, OneChanges(tailBlock),
         UNCHANGED <<frontBlock, tailBlock>>,
         blocks'[tailBlock].front = blocks[tailBlock].front,
         blocks'[tailBlock].tail = blocks[tailBlock].tail,
         blocks'[tailBlock].next = producer.next
  PROVE  Circle'
  <1> DEFINE new == producer.next
  <1>1. PICK n \in Nat : \E pos \in [Linked -> Int] : InCircle(n, pos) /\ Occupied(pos)
    BY DEF IInv, Circle
  <1>2. PICK pos \in [Linked -> Int] : InCircle(n, pos) /\ Occupied(pos)
    BY <1>1
  <1>3. /\ new = Len(blocks) /\ new \notin {frontBlock, tailBlock}
        /\ blocks[new].next = blocks[tailBlock].next
        /\ frontBlock \in 1 .. Len(blocks) /\ Len(blocks) \in Nat
        /\ tailBlock \in 1 .. Len(blocks)
    BY DEF IInv, TypeOK, ProducerKnows
  <1>4. /\ new \in 1 .. Len(blocks) /\ Linked' = 1 .. Len(blocks)
        /\ Linked = 1 .. Len(blocks) \ {new}
        /\ frontBlock \in Linked /\ tailBlock \in Linked /\ new \notin Linked
    BY <1>3 DEF Linked, OneChanges
  <1>5. /\ \A b \in Linked' : Empty(b)' <=> Empty(b)
        /\ \A b \in Linked : b # tailBlock => blocks'[b].next = blocks[b].next
        /\ blocks'[new].next = blocks[tailBlock].next
    BY <1>3, <1>4 DEF Empty, OneChanges
  <1> HIDE DEF new
  <1> DEFINE t == pos[tailBlock]
  <1>6. /\ \A b \in Linked : pos[b] \in 0 .. n - 1
        /\ \A b \in Linked : pos[b] = t => b = tailBlock
        /\ pos[frontBlock] = 0 /\ t \in 0 .. n - 1
    BY <1>2, <1>4 DEF InCircle
  <1>7. PICK wide \in [Linked' -> Int] :
           \A b \in Linked' : wide[b] = IF b = new THEN t + 1
                                        ELSE IF pos[b] > t THEN pos[b] + 1 ELSE pos[b]
    <2>1. [b \in Linked' |-> IF b = new THEN t + 1
                             ELSE IF pos[b] > t THEN pos[b] + 1 ELSE pos[b]]
             \in [Linked' -> Int]
      BY <1>4, <1>6
    <2> QED BY <2>1
  <1>8. /\ wide[new] = t + 1
        /\ \A b \in Linked : /\ b \in Linked' /\ b # new
                             /\ wide[b] = IF pos[b] > t THEN pos[b] + 1 ELSE pos[b]
        /\ wide[tailBlock] = t /\ wide[frontBlock] = 0
    BY <1>4, <1>6, <1>7
  <1> HIDE DEF t
  <1>9. /\ \A b \in Linked' : wide[b] \in 0 .. n
        /\ \A a, b \in Linked' : wide[a] = wide[b] => a = b
    <2>1. \A b \in Linked : wide[b] \in 0 .. n /\ wide[b] # t + 1
      <3> SUFFICES ASSUME NEW b \in Linked PROVE wide[b] \in 0 .. n /\ wide[b] # t + 1
        OBVIOUS
      <3>1. /\ pos[b] \in 0 .. n - 1 /\ wide[b] = IF pos[b] > t THEN pos[b] + 1 ELSE pos[b]
        BY <1>6, <1>8
      <3> QED BY <1>6, <3>1
    <2>2. wide[new] \in 0 .. n
      BY <1>6, <1>8
    <2>3. ASSUME NEW a \in Linked, NEW b \in Linked, wide[a] = wide[b]
          PROVE  a = b
      <3>1. /\ pos[a] \in 0 .. n - 1 /\ pos[b] \in 0 .. n - 1
            /\ wide[a] = IF pos[a] > t THEN pos[a] + 1 ELSE pos[a]
            /\ wide[b] = IF pos[b] > t THEN pos[b] + 1 ELSE pos[b]
        BY <1>6, <1>8
      <3>2. pos[a] = pos[b]
        <4>1. \A x, y \in 0 .. n - 1 :
                 (IF x > t THEN x + 1 ELSE x) = (IF y > t THEN y + 1 ELSE y) => x = y
          BY <1>6
        <4> QED BY <2>3, <3>1, <4>1
      <3> QED BY <1>2, <3>2 DEF InCircle
    <2>4. \A b \in Linked' : b \in Linked \/ b = new
      BY <1>4
    <2> QED BY <1>8, <2>1, <2>2, <2>3, <2>4
  <1>10. ASSUME NEW b \in Linked'
         PROVE  /\ blocks'[b].next \in Linked'
                /\ IF wide[b] = n THEN blocks'[b].next = frontBlock
                   ELSE wide[blocks'[b].next] = wide[b] + 1
    <2> DEFINE c == blocks[b].next
               s == blocks[tailBlock].next
    <2>1. /\ s \in Linked
          /\ IF t = n - 1 THEN s = frontBlock ELSE pos[s] = t + 1
      BY <1>2, <1>4 DEF InCircle, t
    <2>2. CASE b = tailBlock
      <3>1. blocks'[b].next = new /\ wide[b] = t /\ new \in Linked'
        BY <1>4, <1>8, <2>2 DEF new
      <3>2. t # n /\ wide[new] = t + 1
        BY <1>6, <1>8
      <3> QED BY <3>1, <3>2
    <2>3. CASE b = new
      <3>1. blocks'[b].next = s /\ s \in Linked' /\ wide[b] = t + 1
        BY <1>5, <1>8, <2>1, <2>3
      <3>2. wide[s] = IF pos[s] > t THEN pos[s] + 1 ELSE pos[s]
        BY <1>8, <2>1
      <3> HIDE DEF s
      <3> QED BY <1>6, <2>1, <3>1, <3>2
    <2>4. CASE b \in Linked /\ b # tailBlock
      <3>1. /\ c \in Linked /\ blocks'[b].next = c /\ c \in Linked'
            /\ IF pos[b] = n - 1 THEN c = frontBlock ELSE pos[c] = pos[b] + 1
        BY <1>2, <1>5, <1>8, <2>4 DEF InCircle
      <3>2. /\ wide[b] = IF pos[b] > t THEN pos[b] + 1 ELSE pos[b]
            /\ wide[c] = IF pos[c] > t THEN pos[c] + 1 ELSE pos[c]
            /\ pos[b] \in 0 .. n - 1 /\ pos[b] # t
        BY <1>6, <1>8, <2>4, <3>1
      <3> HIDE DEF c
      <3>3. CASE pos[b] = n - 1
        <4>1. wide[b] = n
          BY <1>6, <3>2, <3>3
        <4> QED BY <3>1, <3>3, <4>1
      <3>4. CASE pos[b] # n - 1
        <4>1. pos[c] = pos[b] + 1
          BY <3>1, <3>4
        <4>2. wide[b] # n /\ wide[c] = wide[b] + 1
          BY <1>6, <3>2, <3>4, <4>1
        <4> QED BY <3>1, <4>2
      <3> QED BY <3>3, <3>4
    <2> QED BY <1>4, <2>2, <2>3, <2>4
  <1>11. InCircle(n + 1, wide)'
    <2>1. n + 1 \in Nat /\ (n + 1) - 1 = n
      OBVIOUS
    <2> QED BY <1>8, <1>9, <1>10, <2>1 DEF InCircle
  <1>12. Occupied(wide)'
    <2>1. ASSUME NEW b \in Linked', 0 < wide[b], wide[b] <= t
          PROVE  ~Empty(b)
      <3>1. b \in Linked
        BY <1>4, <1>6, <1>8, <2>1
      <3>2. /\ pos[b] \in 0 .. n - 1 /\ wide[b] = IF pos[b] > t THEN pos[b] + 1 ELSE pos[b]
        BY <1>6, <1>8, <3>1
      <3>3. 0 < pos[b] /\ pos[b] <= t
        BY <1>6, <2>1, <3>2
      <3> QED BY <1>2, <3>1, <3>3 DEF Occupied, t
    <2>2. ASSUME NEW b \in Linked', t < wide[b], b # new
          PROVE  Empty(b)
      <3>1. b \in Linked
        BY <1>4, <2>2
      <3>2. /\ pos[b] \in 0 .. n - 1 /\ wide[b] = IF pos[b] > t THEN pos[b] + 1 ELSE pos[b]
        BY <1>6, <1>8, <3>1
      <3>3. t < pos[b]
        BY <1>6, <2>2, <3>2
      <3> QED BY <1>2, <3>1, <3>3 DEF Occupied, t
    <2> QED BY <1>5, <1>8, <2>1, <2>2 DEF Occupied, new
  <1>13. n + 1 \in Nat
    OBVIOUS
  <1> QED BY <1>11, <1>12, <1>13 DEF Circle

LEMMA LinksKeepsIInv ==
  ASSUME IInv, EnqueueLinks
  PROVE  IInv'
  <1> USE DEF IInv
  <1> DEFINE b == tailBlock
             r == blocks[b]
  <1>1. /\ producer.pc = "link" /\ producer.block = b /\ producer.at = r.tail
        /\ producer.next = Len(blocks) /\ producer.next \notin {frontBlock, b}
        /\ ~Empty(producer.next) /\ producer.next \in Nat
        /\ b \in 1 .. Len(blocks) /\ frontBlock \in 1 .. Len(blocks)
        /\ producer \in Producer /\ consumer \in Consumer /\ TypeOK /\ offered \in Nat
    BY DEF EnqueueLinks, ProducerKnows, TypeOK, Producer
  <1>2. /\ blocks' = [blocks EXCEPT ![b].next = producer.next]
        /\ producer' = [producer EXCEPT !.pc = "advance"]
        /\ UNCHANGED <<frontBlock, tailBlock, consumer, largestBlockSize, offered>>
    BY <1>1 DEF EnqueueLinks, producerFrame
  <1>3. /\ OneChanges(b) /\ blocks'[b].front = r.front /\ blocks'[b].tail = r.tail
        /\ blocks'[b].localFront = r.localFront /\ blocks'[b].localTail = r.localTail
        /\ blocks'[b].next = producer.next
    BY <1>1, <1>2, StoreNext
  <1>4. /\ producer' \in Producer /\ producer'.pc = "advance"
        /\ producer'.block = b /\ producer'.at = producer.at
        /\ producer'.next = producer.next
    BY <1>1, <1>2 DEF Producer
  <1>5. \A c \in 1 .. Len(blocks) :
           /\ blocks'[c].front = blocks[c].front /\ blocks'[c].tail = blocks[c].tail
           /\ blocks'[c].localTail = blocks[c].localTail
           /\ c # b => blocks'[c].next = blocks[c].next
    BY <1>3 DEF OneChanges
  <1>6. TypeOK'
    BY <1>1, <1>2, <1>3, <1>4, TypesStay
  <1>7. Shadows'
    <2>1. /\ Ahead(r.size, r.front, r.localTail) <= Ahead(r.size, r.front, r.tail)
          /\ Ahead(r.size, r.front, r.tail) <= Ahead(r.size, r.localFront, r.tail)
      BY <1>1 DEF Shadows
    <2> QED BY <1>1, <1>3, <2>1, ShadowsStay
  <1>8. ProducerKnows'
    <2>1. producer.next \in 1 .. Len(blocks)
      BY <1>1
    <2>2. ~Empty(producer.next)'
      BY <1>1, <1>2, <1>4, <1>5, <2>1 DEF Empty
    <2> QED BY <1>1, <1>2, <1>3, <1>4, <2>2 DEF ProducerKnows
  <1>9. ConsumerKnows'
    BY <1>1, <1>2, <1>5, ConsumerStays
  <1>10. Circle'
    BY <1>1, <1>2, <1>3, <1>4, WidenedCircle
  <1> QED BY <1>6, <1>7, <1>8, <1>9, <1>10

----------------------------------------------------------------------------
(* The theorems                                                              *)

LEMMA NextKeepsIInv ==
  ASSUME IInv, [Next]_vars
  PROVE  IInv'
  <1>1. CASE UNCHANGED vars
    <2>1. UNCHANGED <<blocks, frontBlock, tailBlock, producer, consumer,
                      largestBlockSize, offered>>
      BY <1>1 DEF vars, allocVars
    <2> QED BY <2>1, ConsumerLooks DEF IInv, TypeOK, ConsumerKnows, Empty
  <1>2. CASE EnqueueStart
    BY <1>2, StartKeepsIInv
  <1>3. CASE EnqueueStep
    <2>1. CASE EnqueueRereadsFront BY <2>1, RereadsFrontKeepsIInv
    <2>2. CASE EnqueueFills BY <2>2, FillsKeepsIInv
    <2>3. CASE EnqueuePublishes BY <2>3, PublishesKeepsIInv
    <2>4. CASE EnqueueLooksAhead \/ EnqueueCannotAllocate BY <2>4, LooksAheadKeepsIInv
    <2>5. CASE EnqueueTakesNext BY <2>5, TakesNextKeepsIInv
    <2>6. CASE EnqueuePublishesInNext BY <2>6, PublishesInNextKeepsIInv
    <2>7. CASE EnqueueAllocates BY <2>7, AllocatesKeepsIInv
    <2>8. CASE EnqueueLinks BY <2>8, LinksKeepsIInv
    <2>9. CASE EnqueueAdvances BY <2>9, AdvancesKeepsIInv
    <2> QED BY <1>3, <2>1, <2>2, <2>3, <2>4, <2>5, <2>6, <2>7, <2>8, <2>9 DEF EnqueueStep
  <1>4. CASE \E call \in {"try_dequeue", "peek"} : DequeueStart(call)
    BY <1>4, DequeueStartKeepsIInv
  <1>5. CASE DequeueStep
    <2>1. CASE DequeueRereadsTail \/ DequeueRechecks BY <2>1, ReadsTailKeepsIInv
    <2>2. CASE DequeueComparesBlocks \/ PeekReturns BY <2>2, ComparesBlocksKeepsIInv
    <2>3. CASE DequeueLooksAtNext BY <2>3, LooksAtNextKeepsIInv
    <2>4. CASE DequeueMoves BY <2>4, MovesKeepsIInv
    <2>5. CASE DequeueTakes BY <2>5, TakesKeepsIInv
    <2>6. CASE DequeueReleases BY <2>6, ReleasesKeepsIInv
    <2> QED BY <1>5, <2>1, <2>2, <2>3, <2>4, <2>5, <2>6 DEF DequeueStep
  <1>6. CASE Destroy
    BY <1>6, DestroyKeepsIInv
  <1> QED BY <1>1, <1>2, <1>3, <1>4, <1>5, <1>6 DEF Next

(* The queue stays a circle of blocks with the elements between the front    *)
(* and the tail block, and what one side has found out about the other holds *)
(* until it acts on it.                                                      *)
THEOREM IInvHolds == Spec => []IInv
  BY InitIInv, NextKeepsIInv, PTL DEF Spec

LEMMA IInvImpliesAssertions == IInv => AssertionsHold
  <1> SUFFICES ASSUME IInv PROVE AssertionsHold
    OBVIOUS
  <1>1. ASSUME producer.pc = "takeNext"
        PROVE  blocks[producer.next].front = blocks[producer.next].tail
    <2>1. producer.next = blocks[tailBlock].next /\ producer.next # frontBlock
      BY <1>1 DEF IInv, ProducerKnows
    <2> QED BY <1>1, <2>1, NextIsEmpty DEF Empty
  <1>2. ASSUME consumer.pc = "peekNext"
        PROVE  LET b == blocks[consumer.block].next IN blocks[b].front # blocks[b].tail
    <2>1. consumer.block = frontBlock /\ frontBlock # tailBlock
      BY <1>2 DEF IInv, ConsumerKnows
    <2> QED BY <2>1, NextIsOccupied DEF Empty
  <1> QED BY <1>1, <1>2 DEF AssertionsHold

(* The code's assertions hold whatever the sizes, in every interleaving: the *)
(* free block ahead of the producer is empty, the block the consumer moves   *)
(* on to is not.                                                             *)
THEOREM AssertionsAlwaysHold == Spec => []AssertionsHold
  BY IInvHolds, IInvImpliesAssertions, PTL

(* The place the producer writes is never the one the consumer reads or      *)
(* empties: nothing but the two indices orders their accesses to it.         *)
NoSharedPlace ==
    consumer.pc \in {"take", "release"} =>
        /\ producer.pc \in {"fill", "publish"} =>
               <<producer.block, producer.at>> # <<consumer.block, consumer.at>>
        /\ producer.pc \in {"takeNext", "publishNext"} => producer.next # consumer.block

LEMMA IInvImpliesNoSharedPlace == IInv => NoSharedPlace
  <1> SUFFICES ASSUME IInv, consumer.pc \in {"take", "release"}
               PROVE  /\ producer.pc \in {"fill", "publish"} =>
                             <<producer.block, producer.at>> # <<consumer.block, consumer.at>>
                      /\ producer.pc \in {"takeNext", "publishNext"} =>
                             producer.next # consumer.block
    BY DEF NoSharedPlace
  <1> DEFINE r == blocks[frontBlock]
  <1>1. /\ consumer.block = frontBlock /\ consumer.at = r.front /\ r.localTail # r.front
        /\ frontBlock \in 1 .. Len(blocks) /\ TypeOK /\ Shadows
    BY DEF IInv, TypeOK, ConsumerKnows
  <1>2. r.tail # r.front
    <2>1. /\ Ahead(r.size, r.front, r.localTail) <= Ahead(r.size, r.front, r.tail)
          /\ Ahead(r.size, r.front, r.tail) <= Ahead(r.size, r.localFront, r.tail)
      BY <1>1 DEF Shadows
    <2>2. /\ r.size \in Nat /\ r.tail \in 0 .. r.size - 1
          /\ r.front \in 0 .. r.size - 1 /\ r.localFront \in 0 .. r.size - 1
          /\ r.localTail \in 0 .. r.size - 1
      BY <1>1, BlockFacts
    <2> HIDE DEF r
    <2> QED BY <1>1, <2>1, <2>2, FrontMovesOn
  <1>3. ASSUME producer.pc \in {"fill", "publish"}
        PROVE  <<producer.block, producer.at>> # <<consumer.block, consumer.at>>
    <2>1. producer.block = tailBlock /\ producer.at = blocks[tailBlock].tail
      BY <1>3 DEF IInv, ProducerKnows
    <2> QED BY <1>1, <1>2, <2>1
  <1>4. ASSUME producer.pc \in {"takeNext", "publishNext"}
        PROVE  producer.next # consumer.block
    BY <1>1, <1>4 DEF IInv, ProducerKnows
  <1> QED BY <1>3, <1>4

(* No element is written where one is being read.                            *)
THEOREM PlacesAreNotShared == Spec => []NoSharedPlace
  BY IInvHolds, IInvImpliesNoSharedPlace, PTL

----------------------------------------------------------------------------
(* The elements of a block                                                   *)

(* The k-th place from f on in a block of n. *)
Place(n, f, k) == IF f + k - 1 < n THEN f + k - 1 ELSE f + k - 1 - n

LEMMA Remainders ==
  ASSUME NEW n \in Nat, n > 0, NEW x \in Int
  PROVE  /\ 0 <= x /\ x < n => (x % n) = x
         /\ n <= x /\ x < 2 * n => (x % n) = x - n
         /\ -n <= x /\ x < 0 => (x % n) = x + n
  <1>1. /\ x = n * (x \div n) + (x % n) /\ (x \div n) \in Int
        /\ 0 <= (x % n) /\ (x % n) < n /\ (x % n) \in Int
    OBVIOUS
  <1> DEFINE q == x \div n
             r == x % n
  <1>2. x = n * q + r /\ q \in Int /\ 0 <= r /\ r < n /\ r \in Int
    BY <1>1
  <1> HIDE DEF q, r
  <1>3. /\ q >= 2 => n * q >= 2 * n
        /\ q <= -2 => n * q <= -(2 * n)
        /\ q = 1 => n * q = n
        /\ q = -1 => n * q = -n
        /\ q = 0 => n * q = 0
    <2>1. q >= 2 => n * (q - 2) >= 0
      BY <1>2
    <2>2. q <= -2 => n * (-2 - q) >= 0
      BY <1>2
    <2>3. n * (q - 2) = n * q - 2 * n /\ n * (-2 - q) = -(2 * n) - n * q
      BY <1>2
    <2> QED BY <1>2, <2>1, <2>2, <2>3
  <1>4. q \in {0, 1, -1} \/ q >= 2 \/ q <= -2
    BY <1>2
  <1>5. /\ 0 <= x /\ x < n => r = x
        /\ n <= x /\ x < 2 * n => r = x - n
        /\ -n <= x /\ x < 0 => r = x + n
    BY <1>2, <1>3, <1>4
  <1> QED BY <1>5 DEF r

LEMMA Counted ==
  ASSUME NEW n \in Nat
  PROVE  \A f, t \in 0 .. n - 1 :
            /\ Ahead(n, f, t) \in 0 .. n - 1
            /\ Ahead(n, f, t) = 0 <=> f = t
            /\ Follows(n, t) # f => Ahead(n, f, Follows(n, t)) = Ahead(n, f, t) + 1
            /\ f # t => Ahead(n, Follows(n, f), t) = Ahead(n, f, t) - 1
            /\ Follows(n, f) # f => Ahead(n, f, Follows(n, f)) = 1
  BY DEF Ahead, Follows

LEMMA Placed ==
  ASSUME NEW n \in Nat
  PROVE  \A f, t \in 0 .. n - 1 :
            /\ \A k \in 1 .. Ahead(n, f, t) : /\ Place(n, f, k) \in 0 .. n - 1
                                              /\ Place(n, f, k) # t
                                              /\ Place(n, f, k) = f <=> k = 1
            /\ Place(n, f, Ahead(n, f, t) + 1) = t
            /\ \A k \in 1 .. Ahead(n, f, t) - 1 :
                   Place(n, Follows(n, f), k) = Place(n, f, k + 1)
  BY DEF Ahead, Follows, Place

LEMMA ElementsAre ==
  ASSUME TypeOK, NEW b \in 1 .. Len(blocks)
  PROVE  Elements(b) = [k \in 1 .. Ahead(blocks[b].size, blocks[b].front, blocks[b].tail) |->
                           Value(b, Place(blocks[b].size, blocks[b].front, k))]
  <1> DEFINE n == blocks[b].size
             f == blocks[b].front
             t == blocks[b].tail
             l == Ahead(n, f, t)
  <1>1. n \in Nat /\ n > 0 /\ f \in 0 .. n - 1 /\ t \in 0 .. n - 1
    BY BlockFacts
  <1>2. Filled(b) = [k \in 1 .. ((t - f) % n) |-> (f + k - 1) % n]
    BY DEF Filled
  <1>3. ((t - f) % n) = l
    <2> HIDE DEF n, f, t
    <2>1. t - f \in Int /\ (0 <= t - f \/ -n <= t - f) /\ t - f < n
      BY <1>1
    <2>2. /\ 0 <= t - f => ((t - f) % n) = t - f
          /\ t - f < 0 => ((t - f) % n) = t - f + n
      BY <1>1, <2>1, Remainders
    <2> QED BY <1>1, <2>2 DEF Ahead
  <1>4. \A k \in 1 .. l : ((f + k - 1) % n) = Place(n, f, k)
    <2> HIDE DEF n, f, t
    <2>1. l \in 0 .. n - 1
      BY <1>1 DEF Ahead
    <2> HIDE DEF l
    <2> SUFFICES ASSUME NEW k \in 1 .. l PROVE ((f + k - 1) % n) = Place(n, f, k)
      OBVIOUS
    <2>2. f + k - 1 \in Int /\ 0 <= f + k - 1 /\ f + k - 1 < 2 * n
      BY <1>1, <2>1
    <2>3. /\ f + k - 1 < n => ((f + k - 1) % n) = f + k - 1
          /\ n <= f + k - 1 => ((f + k - 1) % n) = f + k - 1 - n
      BY <1>1, <2>2, Remainders
    <2> QED BY <1>1, <2>2, <2>3 DEF Place
  <1> HIDE DEF n, f, t, l
  <1>5. Filled(b) = [k \in 1 .. l |-> Place(n, f, k)]
    BY <1>2, <1>3, <1>4
  <1>6. DOMAIN Filled(b) = 1 .. l /\ \A k \in 1 .. l : Filled(b)[k] = Place(n, f, k)
    BY <1>5
  <1>7. Elements(b) = [k \in 1 .. l |-> Value(b, Place(n, f, k))]
    BY <1>6 DEF Elements
  <1> QED BY <1>7 DEF n, f, t, l

----------------------------------------------------------------------------
(* Reading along the circle                                                  *)

(* f is e from block to block along next, until one of Ends. *)
Concatenates(f, S, Ends, e, next) ==
    f = [b \in S |-> IF b \in Ends THEN e[b] ELSE e[b] \o f[next[b]]]

(* r goes down on the way to where the recursion ends. *)
Descends(r, S, Ends, next) == \A b \in S \ Ends : next[b] \in S /\ r[next[b]] < r[b]

(* A function defined by recursion along next exists, if a rank descends.    *)
LEMMA RecursionEnds ==
  \A S, Ends, e, next : \A m \in Nat : \A r \in [S -> 0 .. m - 1] :
     Descends(r, S, Ends, next) => \E f : Concatenates(f, S, Ends, e, next)
  <1> SUFFICES ASSUME NEW S, NEW Ends, NEW e, NEW next, NEW m \in Nat,
                      NEW r \in [S -> 0 .. m - 1],
                      \A b \in S \ Ends : next[b] \in S /\ r[next[b]] < r[b]
               PROVE  \E f : f = [b \in S |-> IF b \in Ends THEN e[b] ELSE e[b] \o f[next[b]]]
    BY DEF Descends, Concatenates
  <1> DEFINE Below(k) == {b \in S : r[b] < k}
             Solves(f, k) ==
                 f = [b \in Below(k) |-> IF b \in Ends THEN e[b] ELSE e[b] \o f[next[b]]]
             T == {k \in Nat : ~\E f : Solves(f, k)}
  <1>1. T = {}
    <2> SUFFICES ASSUME T # {} PROVE FALSE
      OBVIOUS
    <2>1. PICK k \in T : \A j \in T : k <= j
      BY LeastNatural
    <2>2. k \in Nat /\ ~\E f : Solves(f, k)
      BY <2>1
    <2> HIDE DEF T, Solves
    <2>3. k # 0
      <3> SUFFICES ASSUME k = 0 PROVE FALSE
        OBVIOUS
      <3> DEFINE g == [b \in Below(k) |-> e[b]]
      <3>1. \A b : b \notin Below(k)
        BY <2>2
      <3> HIDE DEF Below
      <3>2. Solves(g, k)
        BY <3>1 DEF Solves
      <3> QED BY <2>2, <3>2
    <2>4. PICK f : Solves(f, k - 1)
      <3>1. k - 1 \in Nat /\ ~(k <= k - 1)
        BY <2>2, <2>3
      <3>2. k - 1 \notin T
        BY <2>1, <3>1
      <3> QED BY <3>1, <3>2 DEF T
    <2> DEFINE g == [b \in Below(k) |-> IF b \in Ends THEN e[b] ELSE e[b] \o f[next[b]]]
    <2>5. \A b \in Below(k) \ Ends : next[b] \in Below(k - 1) /\ next[b] \in Below(k)
      <3> SUFFICES ASSUME NEW b \in Below(k) \ Ends
                   PROVE  next[b] \in Below(k - 1) /\ next[b] \in Below(k)
        OBVIOUS
      <3>1. /\ next[b] \in S /\ r[next[b]] < r[b] /\ r[b] < k
            /\ r[next[b]] \in Nat /\ r[b] \in Nat
        OBVIOUS
      <3>2. r[next[b]] < k - 1 /\ r[next[b]] < k
        BY <2>2, <3>1
      <3> QED BY <3>1, <3>2
    <2>6. \A b \in Below(k - 1) : b \in Below(k)
      <3> SUFFICES ASSUME NEW b \in Below(k - 1) PROVE r[b] < k
        OBVIOUS
      <3>1. r[b] \in Nat /\ r[b] < k - 1
        OBVIOUS
      <3> QED BY <2>2, <3>1
    <2> HIDE DEF Below
    <2>7. \A b \in Below(k - 1) : f[b] = IF b \in Ends THEN e[b] ELSE e[b] \o f[next[b]]
      BY <2>4 DEF Solves
    <2>8. \A b \in Below(k) : g[b] = IF b \in Ends THEN e[b] ELSE e[b] \o f[next[b]]
      OBVIOUS
    <2>9. \A b \in Below(k - 1) : g[b] = f[b]
      BY <2>6, <2>7, <2>8
    <2>10. \A b \in Below(k) : g[b] = IF b \in Ends THEN e[b] ELSE e[b] \o g[next[b]]
      BY <2>5, <2>8, <2>9
    <2>11. g = [b \in Below(k) |-> g[b]]
      OBVIOUS
    <2> HIDE DEF g
    <2>12. Solves(g, k)
      BY <2>10, <2>11 DEF Solves
    <2> QED BY <2>2, <2>12
  <1>2. PICK f : Solves(f, m)
    <2>1. m \notin T
      BY <1>1
    <2> QED BY <2>1
  <1>3. Below(m) = S
    <2>1. \A b \in S : r[b] < m
      OBVIOUS
    <2> QED BY <2>1
  <1> HIDE DEF Below, T
  <1>4. Solves(f, m) => f = [b \in S |-> IF b \in Ends THEN e[b] ELSE e[b] \o f[next[b]]]
    BY <1>3
  <1> QED BY <1>2, <1>4

(* What Queue and Remaining read, block by block. *)
Reads(f) ==
    f = [b \in DOMAIN blocks |->
            IF b = tailBlock THEN Elements(b) ELSE Elements(b) \o f[blocks[b].next]]

ReadsRound(f) ==
    f = [b \in DOMAIN blocks |->
            IF blocks[b].next = frontBlock THEN Elements(b)
            ELSE Elements(b) \o f[blocks[b].next]]

(* How far it is from a block to the tail block, and once round the circle.  *)
LEMMA Ranks ==
  ASSUME IInv
  PROVE  /\ \E m \in Nat : \E r \in [1 .. Len(blocks) -> 0 .. m - 1] :
               \A b \in 1 .. Len(blocks) \ {tailBlock} :
                   blocks[b].next \in 1 .. Len(blocks) /\ r[blocks[b].next] < r[b]
         /\ \E m \in Nat : \E r \in [1 .. Len(blocks) -> 0 .. m - 1] :
               \A b \in 1 .. Len(blocks) : blocks[b].next # frontBlock =>
                   blocks[b].next \in 1 .. Len(blocks) /\ r[blocks[b].next] < r[b]
  <1> DEFINE S == 1 .. Len(blocks)
  <1>1. PICK n \in Nat : \E pos \in [Linked -> Int] : InCircle(n, pos)
    BY DEF IInv, Circle
  <1>2. PICK pos \in [Linked -> Int] : InCircle(n, pos)
    BY <1>1
  <1> DEFINE t == pos[tailBlock]
  <1>3. /\ \A b \in Linked : pos[b] \in 0 .. n - 1 /\ b \in S
        /\ tailBlock \in Linked /\ t \in 0 .. n - 1 /\ pos[frontBlock] = 0
        /\ \A b \in Linked : pos[b] = t => b = tailBlock
    BY <1>2, EndsAreLinked DEF InCircle, Linked
  <1>4. ASSUME NEW b \in S, b \notin Linked
        PROVE  blocks[b].next \in Linked
    <2>1. producer.pc = "link" /\ b = producer.next
      BY <1>4 DEF Linked
    <2>2. blocks[b].next = blocks[tailBlock].next
      BY <2>1 DEF IInv, ProducerKnows
    <2> QED BY <1>2, <1>3, <2>2 DEF InCircle
  <1>5. /\ \A b \in S : blocks[b].next \in Linked
        /\ \A b \in Linked : IF pos[b] = n - 1 THEN blocks[b].next = frontBlock
                             ELSE pos[blocks[b].next] = pos[b] + 1
    BY <1>2, <1>4 DEF InCircle
  <1> HIDE DEF S, t
  <1>6. \E r \in [S -> 0 .. (n + 1) - 1] :
           \A b \in S \ {tailBlock} : blocks[b].next \in S /\ r[blocks[b].next] < r[b]
    <2> DEFINE rank(b) == IF b \notin Linked THEN n
                          ELSE IF pos[b] <= t THEN t - pos[b] ELSE t - pos[b] + n
    <2>1. \A b \in S : rank(b) \in 0 .. (n + 1) - 1 /\ (b \in Linked => rank(b) \in 0 .. n - 1)
      BY <1>3
    <2>2. PICK r \in [S -> 0 .. (n + 1) - 1] : \A b \in S : r[b] = rank(b)
      <3> HIDE DEF rank
      <3>1. [b \in S |-> rank(b)] \in [S -> 0 .. (n + 1) - 1]
        BY <2>1
      <3> QED BY <3>1
    <2>3. ASSUME NEW b \in S, b # tailBlock
          PROVE  blocks[b].next \in S /\ r[blocks[b].next] < r[b]
      <3> DEFINE c == blocks[b].next
      <3>1. c \in Linked /\ c \in S /\ r[c] = rank(c) /\ r[b] = rank(b)
        BY <1>3, <1>5, <2>2
      <3>2. CASE b \notin Linked
        <4>1. rank(b) = n /\ rank(c) \in 0 .. n - 1
          BY <2>1, <3>1, <3>2
        <4> HIDE DEF rank, c
        <4> QED BY <3>1, <4>1 DEF c
      <3>3. CASE b \in Linked
        <4>1. /\ pos[b] \in 0 .. n - 1 /\ pos[c] \in 0 .. n - 1 /\ pos[b] # t
              /\ pos[b] = n - 1 => pos[c] = 0
              /\ pos[b] # n - 1 => pos[c] = pos[b] + 1
          BY <1>3, <1>5, <2>3, <3>1, <3>3
        <4>2. /\ rank(b) = IF pos[b] <= t THEN t - pos[b] ELSE t - pos[b] + n
              /\ rank(c) = IF pos[c] <= t THEN t - pos[c] ELSE t - pos[c] + n
          BY <3>1, <3>3
        <4> HIDE DEF rank, c
        <4>3. rank(c) < rank(b)
          BY <1>3, <4>1, <4>2
        <4> QED BY <3>1, <4>3 DEF c
      <3> QED BY <3>2, <3>3
    <2> QED BY <2>2, <2>3
  <1>7. \E r \in [S -> 0 .. (n + 1) - 1] :
           \A b \in S : blocks[b].next # frontBlock =>
               blocks[b].next \in S /\ r[blocks[b].next] < r[b]
    <2> DEFINE rank(b) == IF b \notin Linked THEN n ELSE (n - 1) - pos[b]
    <2>1. \A b \in S : rank(b) \in 0 .. (n + 1) - 1 /\ (b \in Linked => rank(b) \in 0 .. n - 1)
      BY <1>3
    <2>2. PICK r \in [S -> 0 .. (n + 1) - 1] : \A b \in S : r[b] = rank(b)
      <3> HIDE DEF rank
      <3>1. [b \in S |-> rank(b)] \in [S -> 0 .. (n + 1) - 1]
        BY <2>1
      <3> QED BY <3>1
    <2>3. ASSUME NEW b \in S, blocks[b].next # frontBlock
          PROVE  blocks[b].next \in S /\ r[blocks[b].next] < r[b]
      <3> DEFINE c == blocks[b].next
      <3>1. c \in Linked /\ c \in S /\ r[c] = rank(c) /\ r[b] = rank(b)
        BY <1>3, <1>5, <2>2
      <3>2. CASE b \notin Linked
        <4>1. rank(b) = n /\ rank(c) \in 0 .. n - 1
          BY <2>1, <3>1, <3>2
        <4> HIDE DEF rank, c
        <4> QED BY <3>1, <4>1 DEF c
      <3>3. CASE b \in Linked
        <4>1. /\ pos[b] \in 0 .. n - 1 /\ pos[c] \in 0 .. n - 1
              /\ pos[c] = pos[b] + 1
          BY <1>3, <1>5, <2>3, <3>1, <3>3
        <4>2. rank(b) = (n - 1) - pos[b] /\ rank(c) = (n - 1) - pos[c]
          BY <3>1, <3>3
        <4> HIDE DEF rank, c
        <4>3. rank(c) < rank(b)
          BY <4>1, <4>2
        <4> QED BY <3>1, <4>3 DEF c
      <3> QED BY <3>2, <3>3
    <2> QED BY <2>2, <2>3
  <1>8. n + 1 \in Nat
    OBVIOUS
  <1> QED BY <1>6, <1>7, <1>8 DEF S

LEMMA QueueReads == IInv => \E f : Reads(f) /\ Queue = f[frontBlock]
  <1> SUFFICES ASSUME IInv PROVE \E f : Reads(f) /\ Queue = f[frontBlock]
    OBVIOUS
  <1> DEFINE S == 1 .. Len(blocks)
             e == [b \in S |-> Elements(b)]
             next == [b \in S |-> blocks[b].next]
             Ends == {tailBlock}
  <1>1. DOMAIN blocks = S
    BY DEF IInv, TypeOK
  <1>2. PICK m \in Nat : \E r \in [S -> 0 .. m - 1] :
           \A b \in S \ {tailBlock} : blocks[b].next \in S /\ r[blocks[b].next] < r[b]
    BY Ranks
  <1>3. PICK r \in [S -> 0 .. m - 1] :
           \A b \in S \ {tailBlock} : blocks[b].next \in S /\ r[blocks[b].next] < r[b]
    BY <1>2
  <1>4. \A b \in S : /\ e[b] = Elements(b) /\ next[b] = blocks[b].next
                     /\ b \in Ends <=> b = tailBlock
    OBVIOUS
  <1> HIDE DEF S, e, next, Ends
  <1>5. \A b \in S \ Ends : next[b] \in S /\ r[next[b]] < r[b]
    BY <1>3, <1>4
  <1>6. PICK f : f = [b \in S |-> IF b \in Ends THEN e[b] ELSE e[b] \o f[next[b]]]
    <2>1. Descends(r, S, Ends, next)
      BY <1>5 DEF Descends
    <2>2. \E f : Concatenates(f, S, Ends, e, next)
      BY <1>3, <2>1, RecursionEnds
    <2> QED BY <2>2 DEF Concatenates
  <1>7. \A b \in S : (IF b \in Ends THEN e[b] ELSE e[b] \o f[next[b]])
                        = IF b = tailBlock THEN Elements(b) ELSE Elements(b) \o f[blocks[b].next]
    BY <1>4
  <1>8. Reads(f)
    BY <1>1, <1>6, <1>7 DEF Reads
  <1>9. Queue = (CHOOSE g : Reads(g))[frontBlock]
    BY DEF Queue, Reads
  <1>10. Reads(CHOOSE g : Reads(g))
    BY <1>8
  <1> QED BY <1>9, <1>10

LEMMA RemainingReads == IInv => \E f : ReadsRound(f) /\ Remaining = f[frontBlock]
  <1> SUFFICES ASSUME IInv PROVE \E f : ReadsRound(f) /\ Remaining = f[frontBlock]
    OBVIOUS
  <1> DEFINE S == 1 .. Len(blocks)
             e == [b \in S |-> Elements(b)]
             next == [b \in S |-> blocks[b].next]
             Ends == {b \in S : blocks[b].next = frontBlock}
  <1>1. DOMAIN blocks = S
    BY DEF IInv, TypeOK
  <1>2. PICK m \in Nat : \E r \in [S -> 0 .. m - 1] :
           \A b \in S : blocks[b].next # frontBlock =>
               blocks[b].next \in S /\ r[blocks[b].next] < r[b]
    BY Ranks
  <1>3. PICK r \in [S -> 0 .. m - 1] :
           \A b \in S : blocks[b].next # frontBlock =>
               blocks[b].next \in S /\ r[blocks[b].next] < r[b]
    BY <1>2
  <1>4. \A b \in S : /\ e[b] = Elements(b) /\ next[b] = blocks[b].next
                     /\ b \in Ends <=> blocks[b].next = frontBlock
    OBVIOUS
  <1> HIDE DEF S, e, next, Ends
  <1>5. \A b \in S \ Ends : next[b] \in S /\ r[next[b]] < r[b]
    BY <1>3, <1>4
  <1>6. PICK f : f = [b \in S |-> IF b \in Ends THEN e[b] ELSE e[b] \o f[next[b]]]
    <2>1. Descends(r, S, Ends, next)
      BY <1>5 DEF Descends
    <2>2. \E f : Concatenates(f, S, Ends, e, next)
      BY <1>3, <2>1, RecursionEnds
    <2> QED BY <2>2 DEF Concatenates
  <1>7. \A b \in S : (IF b \in Ends THEN e[b] ELSE e[b] \o f[next[b]])
                        = IF blocks[b].next = frontBlock THEN Elements(b)
                          ELSE Elements(b) \o f[blocks[b].next]
    BY <1>4
  <1>8. ReadsRound(f)
    BY <1>1, <1>6, <1>7 DEF ReadsRound
  <1>9. Remaining = (CHOOSE g : ReadsRound(g))[frontBlock]
    BY DEF Remaining, ReadsRound
  <1>10. ReadsRound(CHOOSE g : ReadsRound(g))
    BY <1>8
  <1> QED BY <1>9, <1>10

(* The elements of a block are numbers. *)
LEMMA ElementsAreNumbers ==
  ASSUME TypeOK, NEW b \in 1 .. Len(blocks)
  PROVE  /\ Elements(b) \in Seq(Nat)
         /\ Len(Elements(b)) = Ahead(blocks[b].size, blocks[b].front, blocks[b].tail)
         /\ \A i \in 0 .. blocks[b].size - 1 : Value(b, i) \in Nat
  <1> DEFINE n == blocks[b].size
             f == blocks[b].front
             l == Ahead(n, f, blocks[b].tail)
  <1>1. /\ n \in Nat /\ f \in 0 .. n - 1 /\ blocks[b].tail \in 0 .. n - 1
        /\ blocks[b].data \in [0 .. n - 1 -> Nat]
    BY BlockFacts
  <1>2. \A i \in 0 .. n - 1 : Value(b, i) \in Nat
    <2>1. consumer.element \in Nat
      BY DEF TypeOK, Consumer
    <2> QED BY <1>1, <2>1 DEF Value
  <1> DEFINE t == blocks[b].tail
  <1>3. l \in Nat /\ (\A k \in 1 .. l : Place(n, f, k) \in 0 .. n - 1)
    <2> HIDE DEF n, f, t
    <2>1. Ahead(n, f, t) \in 0 .. n - 1
      BY <1>1, Counted DEF t
    <2>2. \A k \in 1 .. Ahead(n, f, t) : Place(n, f, k) \in 0 .. n - 1
      BY <1>1, Placed DEF t
    <2> QED BY <1>1, <2>1, <2>2 DEF t
  <1>4. Elements(b) = [k \in 1 .. l |-> Value(b, Place(n, f, k))]
    BY ElementsAre
  <1> HIDE DEF n, f, l
  <1>5. \A k \in 1 .. l : Value(b, Place(n, f, k)) \in Nat
    BY <1>2, <1>3
  <1>6. Elements(b) \in Seq(Nat) /\ Len(Elements(b)) = l
    BY <1>3, <1>4, <1>5
  <1> QED BY <1>2, <1>6 DEF n, f, l

(* The blocks K from the front to the tail block, and what f reads from each *)
(* of them on.                                                               *)
Joins(K, f) ==
    /\ K \subseteq Linked /\ frontBlock \in K /\ tailBlock \in K
    /\ f[tailBlock] = Elements(tailBlock)
    /\ \A b \in K \ {tailBlock} :
          blocks[b].next \in K /\ f[b] = Elements(b) \o f[blocks[b].next]

Chain(K, f) == Joins(K, f) /\ \A b \in K : f[b] \in Seq(Nat)

(* Nothing leads back into them but from the tail to the front block.        *)
OneWay(K) ==
    /\ \A b \in K \ {tailBlock} : blocks[b].next # frontBlock
    /\ blocks[tailBlock].next \in K => blocks[tailBlock].next = frontBlock

(* All but the front block have elements.                                    *)
Stocked(K) == \A b \in K \ {frontBlock} : ~Empty(b)

LEMMA JoinedIsQueue == IInv => \A K, f : Joins(K, f) => Queue = f[frontBlock]
  <1> SUFFICES ASSUME IInv, NEW K, NEW f, Joins(K, f) PROVE Queue = f[frontBlock]
    OBVIOUS
  <1> DEFINE S == 1 .. Len(blocks)
  <1>1. PICK g : Reads(g) /\ Queue = g[frontBlock]
    BY QueueReads
  <1>2. PICK m \in Nat : \E r \in [S -> 0 .. m - 1] :
           \A b \in S \ {tailBlock} : blocks[b].next \in S /\ r[blocks[b].next] < r[b]
    BY Ranks
  <1>3. PICK r \in [S -> 0 .. m - 1] :
           \A b \in S \ {tailBlock} : blocks[b].next \in S /\ r[blocks[b].next] < r[b]
    BY <1>2
  <1>4. DOMAIN blocks = S /\ \A b \in K : b \in S
    BY DEF Joins, Linked, IInv, TypeOK
  <1>5. \A b \in K : g[b] = IF b = tailBlock THEN Elements(b)
                            ELSE Elements(b) \o g[blocks[b].next]
    BY <1>1, <1>4 DEF Reads
  <1> DEFINE T == {k \in Nat : \E b \in K : r[b] = k /\ f[b] # g[b]}
  <1>6. T = {}
    <2> SUFFICES ASSUME T # {} PROVE FALSE
      OBVIOUS
    <2>1. PICK k \in T : \A j \in T : k <= j
      BY LeastNatural
    <2>2. PICK b \in K : r[b] = k /\ f[b] # g[b]
      BY <2>1
    <2>3. b # tailBlock
      BY <1>5, <2>2 DEF Joins
    <2> DEFINE c == blocks[b].next
    <2>4. c \in K /\ f[b] = Elements(b) \o f[c] /\ g[b] = Elements(b) \o g[c]
      BY <1>5, <2>2, <2>3 DEF Joins
    <2>5. r[c] \in Nat /\ r[c] < k
      <3>1. b \in S \ {tailBlock} /\ c \in S
        BY <1>4, <2>3, <2>4
      <3> QED BY <1>3, <2>2, <3>1
    <2>6. f[c] = g[c]
      <3>1. r[c] \notin T
        BY <2>1, <2>5
      <3> QED BY <2>4, <2>5, <3>1
    <2> QED BY <2>2, <2>4, <2>6
  <1>7. frontBlock \in K /\ frontBlock \in S /\ r[frontBlock] \in Nat
    BY <1>4 DEF Joins
  <1>8. f[frontBlock] = g[frontBlock]
    BY <1>6, <1>7
  <1> QED BY <1>1, <1>8

LEMMA ChainIsQueue == IInv => \A K, f : Chain(K, f) => Queue = f[frontBlock]
  BY JoinedIsQueue DEF Chain

LEMMA ChainThere == IInv => \E K, f : Chain(K, f) /\ OneWay(K) /\ Stocked(K)
  <1> SUFFICES ASSUME IInv PROVE \E K, f : Chain(K, f) /\ OneWay(K) /\ Stocked(K)
    OBVIOUS
  <1>1. PICK n \in Nat : \E pos \in [Linked -> Int] : InCircle(n, pos) /\ Occupied(pos)
    BY DEF IInv, Circle
  <1>2. PICK pos \in [Linked -> Int] : InCircle(n, pos) /\ Occupied(pos)
    BY <1>1
  <1>3. PICK f : Reads(f)
    BY QueueReads
  <1> DEFINE t == pos[tailBlock]
             K == {b \in Linked : pos[b] <= t}
  <1>4. /\ \A b \in Linked : pos[b] \in 0 .. n - 1 /\ b \in 1 .. Len(blocks)
        /\ frontBlock \in Linked /\ tailBlock \in Linked
        /\ t \in 0 .. n - 1 /\ pos[frontBlock] = 0
        /\ \A b \in Linked : pos[b] = t => b = tailBlock
        /\ DOMAIN blocks = 1 .. Len(blocks) /\ TypeOK
    BY <1>2, EndsAreLinked DEF InCircle, Linked, IInv, TypeOK
  <1>5. K \subseteq Linked /\ frontBlock \in K /\ tailBlock \in K
    BY <1>4
  <1>6. ASSUME NEW b \in K, b # tailBlock
        PROVE  /\ blocks[b].next \in K /\ blocks[b].next # frontBlock
               /\ pos[blocks[b].next] = pos[b] + 1
    <2> DEFINE c == blocks[b].next
    <2>1. pos[b] \in 0 .. n - 1 /\ pos[b] <= t /\ pos[b] # t
      BY <1>4, <1>6
    <2>2. c \in Linked /\ (pos[b] # n - 1 => pos[c] = pos[b] + 1)
      BY <1>2, <1>6 DEF InCircle
    <2> HIDE DEF c, t
    <2>3. pos[c] = pos[b] + 1 /\ pos[c] <= t /\ pos[c] # 0
      BY <1>4, <2>1, <2>2
    <2> QED BY <1>4, <2>2, <2>3 DEF c, t
  <1>7. blocks[tailBlock].next \in K => blocks[tailBlock].next = frontBlock
    <2>1. t # n - 1 => pos[blocks[tailBlock].next] = t + 1
      BY <1>2, <1>4 DEF InCircle
    <2>2. t = n - 1 => blocks[tailBlock].next = frontBlock
      BY <1>2, <1>4 DEF InCircle
    <2>3. ~(t + 1 <= t)
      BY <1>4
    <2> QED BY <2>1, <2>2, <2>3
  <1>8. \A b \in K : f[b] = IF b = tailBlock THEN Elements(b)
                            ELSE Elements(b) \o f[blocks[b].next]
    BY <1>3, <1>4 DEF Reads
  <1>9. \A b \in K : Elements(b) \in Seq(Nat)
    BY <1>4, ElementsAreNumbers
  <1>10. \A b \in K : pos[b] \in Int /\ t - pos[b] \in Nat
    BY <1>4
  <1>11. Stocked(K)
    <2> SUFFICES ASSUME NEW b \in K, b # frontBlock PROVE ~Empty(b)
      BY DEF Stocked
    <2>1. pos[b] # 0
      BY <1>2, <1>4, <1>5 DEF InCircle
    <2>2. b \in Linked /\ 0 < pos[b] /\ pos[b] <= t
      BY <1>4, <2>1
    <2> HIDE DEF K
    <2> QED BY <1>2, <2>2 DEF Occupied
  <1> HIDE DEF K
  <1>12. \A b \in K : f[b] \in Seq(Nat)
    <2> DEFINE T == {k \in Nat : \E b \in K : t - pos[b] = k /\ f[b] \notin Seq(Nat)}
    <2>1. T = {}
      <3> SUFFICES ASSUME T # {} PROVE FALSE
        OBVIOUS
      <3>1. PICK k \in T : \A j \in T : k <= j
        BY LeastNatural
      <3>2. PICK b \in K : t - pos[b] = k /\ f[b] \notin Seq(Nat)
        BY <3>1
      <3>3. b # tailBlock
        BY <1>8, <1>9, <3>2
      <3> DEFINE c == blocks[b].next
      <3>4. c \in K /\ pos[c] = pos[b] + 1 /\ f[b] = Elements(b) \o f[c]
        BY <1>6, <1>8, <3>3
      <3>5. f[c] \in Seq(Nat)
        <4>1. t - pos[c] \in Nat /\ ~(k <= t - pos[c])
          <5>1. /\ t \in Int /\ pos[b] \in Int /\ pos[c] = pos[b] + 1
                /\ t - pos[b] = k /\ t - pos[c] \in Nat
            BY <1>4, <1>10, <3>2, <3>4
          <5> HIDE DEF t, c, T
          <5> QED BY <5>1
        <4>2. (t - pos[c]) \notin T
          BY <3>1, <4>1
        <4> QED BY <3>4, <4>1, <4>2
      <3> HIDE DEF c, T
      <3>6. f[b] \in Seq(Nat)
        BY <1>9, <3>2, <3>4, <3>5
      <3> QED BY <3>2, <3>6
    <2> QED BY <1>10, <2>1
  <1>13. Chain(K, f)
    BY <1>5, <1>6, <1>8, <1>12 DEF Chain, Joins
  <1>14. OneWay(K)
    BY <1>6, <1>7 DEF OneWay
  <1> QED BY <1>11, <1>13, <1>14

----------------------------------------------------------------------------
(* What a step does to the elements of a block                               *)

(* s lists what v has in the places from f on to t. *)
Lists(s, v, n, f, t) ==
    /\ s \in Seq(Nat) /\ Len(s) = Ahead(n, f, t)
    /\ \A k \in 1 .. Ahead(n, f, t) : s[k] = v[Place(n, f, k)]

LEMMA SameSequence ==
  \A s, r \in Seq(Nat) :
     Len(s) = Len(r) /\ (\A k \in 1 .. Len(s) : s[k] = r[k]) => s = r
  OBVIOUS

LEMMA ListStays ==
  ASSUME NEW n \in Nat, NEW f \in 0 .. n - 1, NEW t \in 0 .. n - 1,
         NEW s, NEW r, NEW v, NEW w, Lists(s, v, n, f, t), Lists(r, w, n, f, t),
         \A i \in 0 .. n - 1 : i # t => w[i] = v[i]
  PROVE  r = s
  <1>1. \A k \in 1 .. Ahead(n, f, t) : Place(n, f, k) \in 0 .. n - 1 /\ Place(n, f, k) # t
    BY Placed
  <1>2. \A k \in 1 .. Ahead(n, f, t) : r[k] = s[k]
    BY <1>1 DEF Lists
  <1> QED BY <1>2, SameSequence DEF Lists

LEMMA ListGrows ==
  ASSUME NEW n \in Nat, NEW f \in 0 .. n - 1, NEW t \in 0 .. n - 1,
         NEW s, NEW r, NEW v, NEW w, NEW u, u = Follows(n, t), u # f, v[t] \in Nat,
         Lists(s, v, n, f, t), Lists(r, w, n, f, u),
         \A i \in 0 .. n - 1 : w[i] = v[i]
  PROVE  r = Append(s, v[t])
  <1> DEFINE l == Ahead(n, f, t)
             x == v[t]
  <1>1. /\ l \in Nat /\ Ahead(n, f, u) = l + 1 /\ Place(n, f, l + 1) = t
        /\ \A k \in 1 .. l : Place(n, f, k) \in 0 .. n - 1
    <2>1. l \in 0 .. n - 1
      BY Counted
    <2>2. Ahead(n, f, u) = l + 1
      BY Counted
    <2> QED BY <2>1, <2>2, Placed
  <1>2. s \in Seq(Nat) /\ Len(s) = l /\ \A k \in 1 .. l : s[k] = v[Place(n, f, k)]
    BY DEF Lists
  <1>3. r \in Seq(Nat) /\ Len(r) = l + 1 /\ \A k \in 1 .. l + 1 : r[k] = w[Place(n, f, k)]
    BY <1>1 DEF Lists
  <1> HIDE DEF l
  <1>4. \A k \in 1 .. l : r[k] = s[k]
    <2> SUFFICES ASSUME NEW k \in 1 .. l PROVE r[k] = s[k]
      OBVIOUS
    <2>1. k \in 1 .. l + 1 /\ Place(n, f, k) \in 0 .. n - 1
      BY <1>1
    <2> QED BY <1>2, <1>3, <2>1
  <1>5. r[l + 1] = x
    <2>1. l + 1 \in 1 .. l + 1
      BY <1>1
    <2> QED BY <1>1, <1>3, <2>1
  <1> HIDE DEF x
  <1>6. x \in Nat
    BY DEF x
  <1>7. /\ Append(s, x) \in Seq(Nat) /\ Len(Append(s, x)) = l + 1
        /\ \A k \in 1 .. l : Append(s, x)[k] = s[k]
        /\ Append(s, x)[l + 1] = x
    BY <1>1, <1>2, <1>6
  <1>8. \A k \in 1 .. Len(r) : r[k] = Append(s, x)[k]
    <2> SUFFICES ASSUME NEW k \in 1 .. l + 1 PROVE r[k] = Append(s, x)[k]
      BY <1>3
    <2>1. k \in 1 .. l \/ k = l + 1
      BY <1>1
    <2> QED BY <1>4, <1>5, <1>7, <2>1
  <1>9. r = Append(s, x)
    BY <1>3, <1>7, <1>8, SameSequence
  <1> QED BY <1>9 DEF x

LEMMA ListHead ==
  ASSUME NEW n \in Nat, NEW f \in 0 .. n - 1, NEW t \in 0 .. n - 1, f # t,
         NEW s, NEW v, Lists(s, v, n, f, t)
  PROVE  s # <<>> /\ Head(s) = v[f]
  <1> DEFINE l == Ahead(n, f, t)
  <1>1. l \in 0 .. n - 1 /\ l # 0
    BY Counted
  <1>2. Place(n, f, 1) = f
    BY DEF Place
  <1>3. s \in Seq(Nat) /\ Len(s) = l /\ \A k \in 1 .. l : s[k] = v[Place(n, f, k)]
    BY DEF Lists
  <1> HIDE DEF l
  <1>4. 1 \in 1 .. l
    BY <1>1
  <1>5. s[1] = v[f]
    BY <1>2, <1>3, <1>4
  <1> QED BY <1>1, <1>3, <1>5

LEMMA ListShrinks ==
  ASSUME NEW n \in Nat, NEW f \in 0 .. n - 1, NEW t \in 0 .. n - 1, f # t,
         NEW s, NEW r, NEW v, NEW w, NEW g, g = Follows(n, f),
         Lists(s, v, n, f, t), Lists(r, w, n, g, t),
         \A i \in 0 .. n - 1 : i # f => w[i] = v[i]
  PROVE  r = Tail(s)
  <1> DEFINE l == Ahead(n, f, t)
  <1>1. l \in Nat /\ l >= 1 /\ Ahead(n, g, t) = l - 1
    <2>1. l \in 0 .. n - 1 /\ l # 0
      BY Counted
    <2>2. Ahead(n, g, t) = l - 1
      BY Counted
    <2> QED BY <2>1, <2>2
  <1>2. /\ \A k \in 1 .. l : Place(n, f, k) \in 0 .. n - 1 /\ (Place(n, f, k) = f <=> k = 1)
        /\ \A k \in 1 .. l - 1 : Place(n, g, k) = Place(n, f, k + 1)
    BY Placed
  <1>3. s \in Seq(Nat) /\ Len(s) = l /\ \A k \in 1 .. l : s[k] = v[Place(n, f, k)]
    BY DEF Lists
  <1>4. r \in Seq(Nat) /\ Len(r) = l - 1 /\ \A k \in 1 .. l - 1 : r[k] = w[Place(n, g, k)]
    BY <1>1 DEF Lists
  <1> HIDE DEF l
  <1>5. \A k \in 1 .. l - 1 : r[k] = s[k + 1]
    <2> SUFFICES ASSUME NEW k \in 1 .. l - 1 PROVE r[k] = s[k + 1]
      OBVIOUS
    <2>1. k + 1 \in 1 .. l /\ k + 1 # 1
      BY <1>1
    <2>2. Place(n, g, k) = Place(n, f, k + 1) /\ Place(n, f, k + 1) \in 0 .. n - 1
          /\ Place(n, f, k + 1) # f
      BY <1>2, <2>1
    <2> QED BY <1>3, <1>4, <2>1, <2>2
  <1>6. /\ Tail(s) \in Seq(Nat) /\ Len(Tail(s)) = l - 1
        /\ \A k \in 1 .. l - 1 : Tail(s)[k] = s[k + 1]
    BY <1>1, <1>3
  <1> QED BY <1>4, <1>5, <1>6, SameSequence

LEMMA ListEmpty ==
  ASSUME NEW n \in Nat, NEW f \in 0 .. n - 1, NEW t \in 0 .. n - 1,
         NEW s, NEW v, Lists(s, v, n, f, t)
  PROVE  s = <<>> <=> f = t
  <1>1. Ahead(n, f, t) = 0 <=> f = t
    BY Counted
  <1>2. s \in Seq(Nat) /\ Len(s) = Ahead(n, f, t)
    BY DEF Lists
  <1> QED BY <1>1, <1>2

(* What is in the places of a block. *)
Values(b) == [i \in 0 .. blocks[b].size - 1 |-> Value(b, i)]

LEMMA ElementsAreListed ==
  TypeOK => \A b \in 1 .. Len(blocks) :
     Lists(Elements(b), Values(b), blocks[b].size, blocks[b].front, blocks[b].tail)
  <1> SUFFICES ASSUME TypeOK, NEW b \in 1 .. Len(blocks)
               PROVE  Lists(Elements(b), Values(b), blocks[b].size, blocks[b].front,
                            blocks[b].tail)
    OBVIOUS
  <1> DEFINE n == blocks[b].size
             f == blocks[b].front
             t == blocks[b].tail
  <1>1. Elements(b) \in Seq(Nat) /\ Len(Elements(b)) = Ahead(n, f, t)
    BY ElementsAreNumbers
  <1>2. Elements(b) = [k \in 1 .. Ahead(n, f, t) |-> Value(b, Place(n, f, k))]
    BY ElementsAre
  <1>3. n \in Nat /\ f \in 0 .. n - 1 /\ t \in 0 .. n - 1
    BY BlockFacts
  <1>4. \A i \in 0 .. n - 1 : Values(b)[i] = Value(b, i)
    BY DEF Values
  <1> HIDE DEF n, f, t
  <1>5. \A k \in 1 .. Ahead(n, f, t) : Place(n, f, k) \in 0 .. n - 1
    BY <1>3, Placed
  <1>6. Lists(Elements(b), Values(b), n, f, t)
    BY <1>1, <1>2, <1>4, <1>5 DEF Lists
  <1> QED BY <1>6 DEF n, f, t

LEMMA ElementsAreListedNext ==
  (TypeOK => \A b \in 1 .. Len(blocks) :
     Lists(Elements(b), Values(b), blocks[b].size, blocks[b].front, blocks[b].tail))'
  BY ElementsAreListed, PTL

(* Nothing but what is in the free place of a block changes.                 *)
LEMMA ElementsStay ==
  ASSUME TypeOK, TypeOK', NEW b \in 1 .. Len(blocks), b \in 1 .. Len(blocks'),
         blocks'[b].size = blocks[b].size, blocks'[b].front = blocks[b].front,
         blocks'[b].tail = blocks[b].tail,
         \A i \in 0 .. blocks[b].size - 1 :
             i # blocks[b].tail => Values(b)'[i] = Values(b)[i]
  PROVE  Elements(b)' = Elements(b)
  BY BlockFacts, ElementsAreListed, ElementsAreListedNext, ListStays

(* An element is published: it is the last one of the block.                 *)
LEMMA ElementAdded ==
  ASSUME TypeOK, TypeOK', NEW b \in 1 .. Len(blocks), b \in 1 .. Len(blocks'),
         blocks'[b].size = blocks[b].size, blocks'[b].front = blocks[b].front,
         blocks'[b].tail = Follows(blocks[b].size, blocks[b].tail),
         blocks'[b].tail # blocks[b].front,
         \A i \in 0 .. blocks[b].size - 1 : Values(b)'[i] = Values(b)[i]
  PROVE  Elements(b)' = Append(Elements(b), Values(b)[blocks[b].tail])
  <1> DEFINE n == blocks[b].size
             f == blocks[b].front
             t == blocks[b].tail
             s == Elements(b)
             v == Values(b)
             r == Elements(b)'
             w == Values(b)'
             u == blocks'[b].tail
  <1>1. v[t] \in Nat
    BY BlockFacts, ElementsAreNumbers DEF Values
  <1>2. /\ n \in Nat /\ f \in 0 .. n - 1 /\ t \in 0 .. n - 1 /\ u = Follows(n, t) /\ u # f
        /\ Lists(s, v, n, f, t) /\ \A i \in 0 .. n - 1 : w[i] = v[i]
    BY BlockFacts, ElementsAreListed
  <1>3. Lists(r, w, n, f, u)
    BY ElementsAreListedNext
  <1> HIDE DEF n, f, t, s, v, r, w, u
  <1>4. r = Append(s, v[t])
    BY <1>1, <1>2, <1>3, ListGrows
  <1> QED BY <1>4 DEF r, s, v, t

(* The first element of a block. *)
LEMMA FirstElement ==
  ASSUME TypeOK, NEW b \in 1 .. Len(blocks), ~Empty(b)
  PROVE  Elements(b) # <<>> /\ Head(Elements(b)) = Values(b)[blocks[b].front]
  <1> DEFINE n == blocks[b].size
             f == blocks[b].front
             t == blocks[b].tail
             s == Elements(b)
             v == Values(b)
  <1>1. /\ n \in Nat /\ f \in 0 .. n - 1 /\ t \in 0 .. n - 1 /\ f # t
        /\ Lists(s, v, n, f, t)
    BY BlockFacts, ElementsAreListed DEF Empty
  <1> HIDE DEF n, f, t, s, v
  <1>2. s # <<>> /\ Head(s) = v[f]
    BY <1>1, ListHead
  <1> QED BY <1>2 DEF s, v, f

(* An element is released: it is the first one of the block.                 *)
LEMMA ElementRemoved ==
  ASSUME TypeOK, TypeOK', NEW b \in 1 .. Len(blocks), b \in 1 .. Len(blocks'),
         blocks'[b].size = blocks[b].size, blocks'[b].tail = blocks[b].tail,
         blocks'[b].front = Follows(blocks[b].size, blocks[b].front), ~Empty(b),
         \A i \in 0 .. blocks[b].size - 1 :
             i # blocks[b].front => Values(b)'[i] = Values(b)[i]
  PROVE  Elements(b)' = Tail(Elements(b))
  <1> DEFINE n == blocks[b].size
             f == blocks[b].front
             t == blocks[b].tail
             s == Elements(b)
             v == Values(b)
             r == Elements(b)'
             w == Values(b)'
             g == blocks'[b].front
  <1>1. /\ n \in Nat /\ f \in 0 .. n - 1 /\ t \in 0 .. n - 1 /\ g = Follows(n, f) /\ f # t
        /\ Lists(s, v, n, f, t) /\ \A i \in 0 .. n - 1 : i # f => w[i] = v[i]
    BY BlockFacts, ElementsAreListed DEF Empty
  <1>2. Lists(r, w, n, g, t)
    BY ElementsAreListedNext
  <1> HIDE DEF n, f, t, s, v, r, w, g
  <1>3. r = Tail(s)
    BY <1>1, <1>2, ListShrinks
  <1> QED BY <1>3 DEF r, s

(* A block without elements.                                                 *)
LEMMA NoElements ==
  TypeOK => \A b \in 1 .. Len(blocks) : Empty(b) <=> Elements(b) = <<>>
  BY BlockFacts, ElementsAreListed, ListEmpty DEF Empty

----------------------------------------------------------------------------
(* What a step does to the queue                                             *)

LEMMA ChainIsQueueNext == (IInv => \A K, f : Chain(K, f) => Queue = f[frontBlock])'
  BY ChainIsQueue, PTL

(* A step that leaves the elements where they are, except in the block that  *)
(* is not yet the tail block.                                                *)
LEMMA QueueStays ==
  ASSUME IInv, IInv', UNCHANGED <<frontBlock, tailBlock>>, Linked \subseteq Linked',
         \A b \in Linked : b # tailBlock => blocks'[b].next = blocks[b].next,
         \A b \in Linked :
             (b # frontBlock /\ b = blocks[tailBlock].next) \/ Elements(b)' = Elements(b)
  PROVE  Queue' = Queue
  <1>1. PICK K : \E f : Chain(K, f) /\ OneWay(K)
    BY ChainThere
  <1>2. PICK f : Chain(K, f) /\ OneWay(K)
    BY <1>1
  <1>3. \A b \in K : Elements(b)' = Elements(b)
    BY <1>2 DEF Chain, Joins, OneWay
  <1>4. Chain(K, f)'
    BY <1>2, <1>3 DEF Chain, Joins
  <1>5. Queue = f[frontBlock]
    BY <1>2, ChainIsQueue
  <1>6. Queue' = f[frontBlock']
    BY <1>4, ChainIsQueueNext
  <1> QED BY <1>5, <1>6

(* The places of a block that does not change, seen by a consumer that does  *)
(* not begin or end to hold an element.                                      *)
LEMMA ValuesStay ==
  ASSUME NEW c, blocks'[c].data = blocks[c].data, blocks'[c].size = blocks[c].size,
         UNCHANGED consumer \/ "release" \notin {consumer.pc, consumer'.pc}
  PROVE  Values(c)' = Values(c)
  BY DEF Values, Value

LEMMA LinkedGrows ==
  ASSUME Len(blocks') = Len(blocks), UNCHANGED producer \/ producer'.pc # "link"
  PROVE  Linked \subseteq Linked'
  BY DEF Linked

(* A step that does not touch an element between front and tail, nor moves   *)
(* these two.                                                                *)
LEMMA QuietStep ==
  ASSUME IInv, IInv', UNCHANGED <<frontBlock, tailBlock>>, Linked \subseteq Linked',
         \A c \in Linked :
             /\ blocks'[c].size = blocks[c].size /\ blocks'[c].front = blocks[c].front
             /\ c # tailBlock => blocks'[c].next = blocks[c].next
             /\ (c # frontBlock /\ c = blocks[tailBlock].next)
                   \/ blocks'[c].tail = blocks[c].tail
             /\ \A i \in 0 .. blocks[c].size - 1 :
                   i # blocks[c].tail => Values(c)'[i] = Values(c)[i]
  PROVE  Queue' = Queue
  <1>1. TypeOK /\ TypeOK'
    BY DEF IInv
  <1>2. ASSUME NEW c \in Linked, ~(c # frontBlock /\ c = blocks[tailBlock].next)
        PROVE  Elements(c)' = Elements(c)
    <2>1. c \in 1 .. Len(blocks) /\ c \in 1 .. Len(blocks')
      BY DEF Linked
    <2>2. /\ blocks'[c].size = blocks[c].size /\ blocks'[c].front = blocks[c].front
          /\ blocks'[c].tail = blocks[c].tail
          /\ \A i \in 0 .. blocks[c].size - 1 :
                 i # blocks[c].tail => Values(c)'[i] = Values(c)[i]
      BY <1>2
    <2> QED BY <1>1, <2>1, <2>2, ElementsStay
  <1> QED BY <1>2, QueueStays

(* A store to one of the indices of a block changes no element.              *)
LEMMA IndexStoreKeepsData ==
  ASSUME TypeOK, NEW b \in 1 .. Len(blocks), NEW v,
         \/ blocks' = [blocks EXCEPT ![b].front = v]
         \/ blocks' = [blocks EXCEPT ![b].localTail = v]
         \/ blocks' = [blocks EXCEPT ![b].tail = v]
         \/ blocks' = [blocks EXCEPT ![b].localFront = v]
         \/ blocks' = [blocks EXCEPT ![b].next = v]
  PROVE  \A c \in 1 .. Len(blocks) : /\ blocks'[c].data = blocks[c].data
                                     /\ blocks'[c].size = blocks[c].size
  <1> SUFFICES ASSUME NEW c \in 1 .. Len(blocks)
               PROVE  blocks'[c].data = blocks[c].data /\ blocks'[c].size = blocks[c].size
    OBVIOUS
  <1>1. c \in DOMAIN blocks /\ b \in DOMAIN blocks /\ blocks[b] \in Block
    BY BlockFacts DEF TypeOK
  <1>2. CASE c # b
    BY <1>1, <1>2
  <1>3. CASE c = b
    <2>1. /\ [blocks[b] EXCEPT !.front = v].data = blocks[b].data
          /\ [blocks[b] EXCEPT !.front = v].size = blocks[b].size
          /\ [blocks[b] EXCEPT !.localTail = v].data = blocks[b].data
          /\ [blocks[b] EXCEPT !.localTail = v].size = blocks[b].size
          /\ [blocks[b] EXCEPT !.tail = v].data = blocks[b].data
          /\ [blocks[b] EXCEPT !.tail = v].size = blocks[b].size
          /\ [blocks[b] EXCEPT !.localFront = v].data = blocks[b].data
          /\ [blocks[b] EXCEPT !.localFront = v].size = blocks[b].size
          /\ [blocks[b] EXCEPT !.next = v].data = blocks[b].data
          /\ [blocks[b] EXCEPT !.next = v].size = blocks[b].size
      BY <1>1 DEF Block
    <2> QED BY <1>1, <1>3, <2>1
  <1> QED BY <1>2, <1>3

----------------------------------------------------------------------------
(* The second invariant                                                      *)

(* What the producer has written stays in its place until it is published.   *)
Written ==
    /\ producer.pc \notin {"idle", "gone"} => offered \in 1 .. MaxElement
    /\ producer.pc = "publish" => blocks[tailBlock].data[blocks[tailBlock].tail] = offered
    /\ producer.pc = "publishNext" =>
           blocks[producer.next].data[blocks[producer.next].tail] = offered
    /\ producer.pc \in {"link", "advance"} =>
           /\ blocks[producer.next].tail
                 = Follows(blocks[producer.next].size, blocks[producer.next].front)
           /\ blocks[producer.next].data[blocks[producer.next].front] = offered

(* A consumer that is about to say that there is no element has found none   *)
(* when it was called. Only try_dequeue takes elements.                      *)
Told ==
    /\ consumer.pc = "release" => consumer.call = "try_dequeue"
    /\ frontBlock = tailBlock =>
           /\ consumer.pc = "compare" => consumer.wasEmpty
           /\ consumer.pc = "reread" /\ Empty(frontBlock) => consumer.wasEmpty

(* Both threads leave together, and all elements inside are destroyed.       *)
Gone ==
    /\ producer.pc = "gone" <=> consumer.pc = "gone"
    /\ producer.pc = "gone" => destroyed = ToSet(Queue)

(* The blocks the producer is about to use.                                  *)
LEMMA NextOfProducer ==
  ASSUME IInv, producer.pc \in {"takeNext", "publishNext", "link", "advance"}
  PROVE  producer.next \in 1 .. Len(blocks) /\ producer.next # frontBlock
  <1>1. tailBlock \in 1 .. Len(blocks) /\ blocks[tailBlock].next \in 1 .. Len(blocks)
    BY NextOfFrontIsBlock, EndsAreLinked
  <1> QED BY <1>1 DEF IInv, TypeOK, ProducerKnows

(* A step of the consumer that empties at most the place at its front.       *)
LEMMA ConsumerKeepsWritten ==
  ASSUME IInv, Written, UNCHANGED <<producer, offered, tailBlock>>,
         \A c \in 1 .. Len(blocks) :
             /\ blocks'[c].tail = blocks[c].tail /\ blocks'[c].size = blocks[c].size
             /\ c # frontBlock => /\ blocks'[c].front = blocks[c].front
                                  /\ blocks'[c].data = blocks[c].data,
         \A i \in 0 .. blocks[frontBlock].size - 1 :
             \/ blocks'[frontBlock].data[i] = blocks[frontBlock].data[i]
             \/ i = blocks[frontBlock].front /\ ~Empty(frontBlock)
  PROVE  Written'
  <1>1. /\ frontBlock \in 1 .. Len(blocks) /\ tailBlock \in 1 .. Len(blocks) /\ TypeOK
        /\ blocks[tailBlock].tail \in 0 .. blocks[tailBlock].size - 1
    BY BlockFacts DEF IInv, TypeOK
  <1>2. blocks'[tailBlock].data[blocks'[tailBlock].tail]
           = blocks[tailBlock].data[blocks[tailBlock].tail]
    BY <1>1 DEF Empty
  <1>3. producer.pc \in {"publishNext", "link", "advance"} =>
           /\ blocks'[producer.next].front = blocks[producer.next].front
           /\ blocks'[producer.next].tail = blocks[producer.next].tail
           /\ blocks'[producer.next].size = blocks[producer.next].size
           /\ blocks'[producer.next].data = blocks[producer.next].data
    BY NextOfProducer
  <1> QED BY <1>2, <1>3 DEF Written

(* A step of the producer.                                                   *)
LEMMA ProducerKeepsTold ==
  ASSUME Told, UNCHANGED <<consumer, frontBlock>>,
         tailBlock' = frontBlock => tailBlock = frontBlock,
         tailBlock' = frontBlock /\ Empty(frontBlock)' => Empty(frontBlock)
  PROVE  Told'
  BY DEF Told

----------------------------------------------------------------------------
(* inner_enqueue puts an element into the queue                              *)

(* The steps that only look. *)
LEMMA LooksPutNothing ==
  ASSUME IInv, IInv', Written, Told,
         EnqueueStart \/ EnqueueLooksAhead \/ EnqueueCannotAllocate
  PROVE  Written' /\ Told' /\ UNCHANGED <<Queue, taken>>
  <1>1. /\ UNCHANGED <<blocks, frontBlock, tailBlock, consumer, taken>>
        /\ producer.pc \in {"idle", "look", "allocate"}
        /\ producer'.pc \in {"fill", "reread", "takeNext", "allocate", "idle"}
        /\ producer'.pc # "idle" => offered' \in 1 .. MaxElement
    <2>1. producer \in Producer /\ offered \in Nat
      BY DEF IInv, TypeOK
    <2>2. CASE EnqueueStart
      <3>1. offered' \in 1 .. MaxElement
        BY <2>1, <2>2, QueueAssumption DEF EnqueueStart
      <3>2. producer'.pc \in {"fill", "reread"}
        BY <2>2 DEF EnqueueStart, IdleProducer
      <3> QED BY <2>2, <3>1, <3>2 DEF EnqueueStart, producerFrame
    <2>3. CASE EnqueueLooksAhead \/ EnqueueCannotAllocate
      <3>1. producer'.pc \in {"takeNext", "allocate", "idle"}
        BY <2>1, <2>3, IdleIsProducer
           DEF EnqueueLooksAhead, EnqueueCannotAllocate, EnqueueReturns, Producer
      <3> QED BY <2>3, <3>1 DEF EnqueueLooksAhead, EnqueueCannotAllocate, producerFrame, Written
    <2> QED BY <2>2, <2>3
  <1>2. Written'
    BY <1>1 DEF Written
  <1>3. Told'
    BY <1>1, ProducerKeepsTold DEF Empty
  <1>4. Queue' = Queue
    <2>1. Linked \subseteq Linked'
      BY <1>1, LinkedGrows
    <2>2. \A c \in Linked : Values(c)' = Values(c)
      BY <1>1, ValuesStay
    <2> QED BY <1>1, <2>1, <2>2, QuietStep
  <1> QED BY <1>1, <1>2, <1>3, <1>4

LEMMA RereadsFrontPutsNothing ==
  ASSUME IInv, IInv', Written, Told, EnqueueRereadsFront
  PROVE  Written' /\ Told' /\ UNCHANGED <<Queue, taken>>
  <1> DEFINE b == tailBlock
             r == blocks[tailBlock]
  <1>1. /\ producer.pc = "reread" /\ producer.block = b
        /\ b \in 1 .. Len(blocks) /\ producer \in Producer /\ TypeOK
    BY DEF EnqueueRereadsFront, IInv, ProducerKnows, TypeOK
  <1>2. /\ blocks' = [blocks EXCEPT ![b].localFront = r.front]
        /\ producer'.pc \in {"fill", "look"}
        /\ UNCHANGED <<frontBlock, tailBlock, consumer, offered, taken>>
    BY <1>1 DEF EnqueueRereadsFront, producerFrame, Producer
  <1>3. /\ OneChanges(b) /\ blocks'[b].front = r.front /\ blocks'[b].tail = r.tail
        /\ blocks'[b].next = r.next
    <2>1. r.front \in 0 .. r.size - 1
      BY <1>1, BlockFacts
    <2> QED BY <1>1, <1>2, <2>1, StoreLocalFront
  <1>4. \A c \in 1 .. Len(blocks) :
           /\ blocks'[c].front = blocks[c].front /\ blocks'[c].tail = blocks[c].tail
           /\ blocks'[c].next = blocks[c].next
    BY <1>3 DEF OneChanges
  <1>5. \A c \in 1 .. Len(blocks) : /\ blocks'[c].data = blocks[c].data
                                    /\ blocks'[c].size = blocks[c].size
    BY <1>1, <1>2, IndexStoreKeepsData
  <1>6. Written'
    BY <1>1, <1>2 DEF Written
  <1>7. Told'
    <2>1. frontBlock \in 1 .. Len(blocks)
      BY DEF IInv, TypeOK
    <2> QED BY <1>2, <1>4, <2>1, ProducerKeepsTold DEF Empty
  <1>8. Queue' = Queue
    <2>1. Linked \subseteq Linked' /\ \A c \in Linked : c \in 1 .. Len(blocks)
      <3>1. Len(blocks') = Len(blocks)
        BY <1>3 DEF OneChanges
      <3> QED BY <1>2, <3>1, LinkedGrows DEF Linked
    <2>2. \A c \in Linked : Values(c)' = Values(c)
      BY <1>2, <1>5, <2>1, ValuesStay
    <2> QED BY <1>2, <1>4, <1>5, <2>1, <2>2, QuietStep
  <1> QED BY <1>2, <1>6, <1>7, <1>8

(* What a store to a place changes. *)
LEMMA DataSetIs ==
  ASSUME TypeOK, NEW b \in 1 .. Len(blocks), NEW i \in 0 .. blocks[b].size - 1,
         NEW x, blocks' = DataSet(b, i, x)
  PROVE  /\ \A c \in 1 .. Len(blocks) : c # b => blocks'[c].data = blocks[c].data
         /\ \A k \in 0 .. blocks[b].size - 1 :
               blocks'[b].data[k] = IF k = i THEN x ELSE blocks[b].data[k]
  <1> DEFINE r == blocks[b]
             d == [r.data EXCEPT ![i] = x]
             q == [r EXCEPT !.data = d]
  <1>1. r \in Block /\ r.data \in [0 .. r.size - 1 -> Nat] /\ b \in DOMAIN blocks
    BY BlockFacts DEF TypeOK
  <1>2. blocks' = [blocks EXCEPT ![b] = q]
    BY DEF DataSet
  <1>3. \A k \in 0 .. r.size - 1 : d[k] = IF k = i THEN x ELSE r.data[k]
    BY <1>1
  <1> HIDE DEF d
  <1>4. q.data = d
    BY <1>1 DEF Block
  <1> HIDE DEF q
  <1>5. blocks'[b] = q /\ \A c \in 1 .. Len(blocks) : c # b => blocks'[c] = blocks[c]
    BY <1>1, <1>2 DEF TypeOK
  <1> QED BY <1>3, <1>4, <1>5

LEMMA FillsPutsNothing ==
  ASSUME IInv, IInv', Written, Told, EnqueueFills
  PROVE  Written' /\ Told' /\ UNCHANGED <<Queue, taken>>
  <1> DEFINE b == tailBlock
             t == blocks[tailBlock].tail
  <1>1. /\ producer.pc = "fill" /\ producer.block = b /\ producer.at = t
        /\ b \in 1 .. Len(blocks) /\ frontBlock \in 1 .. Len(blocks)
        /\ producer \in Producer /\ TypeOK /\ offered \in Nat
        /\ t \in 0 .. blocks[b].size - 1
    BY BlockFacts DEF EnqueueFills, IInv, ProducerKnows, TypeOK
  <1>2. /\ blocks' = DataSet(b, t, offered)
        /\ producer'.pc = "publish"
        /\ UNCHANGED <<frontBlock, tailBlock, consumer, offered, taken>>
    BY <1>1 DEF EnqueueFills, producerFrame, DataSet, Producer
  <1>3. OneChanges(b) /\ SameIndices
    <2>1. t \in Nat /\ t < blocks[b].size
      BY <1>1, BlockFacts
    <2> QED BY <1>1, <1>2, <2>1, DataStoreIsSmall
  <1>4. /\ \A c \in 1 .. Len(blocks) : c # b => blocks'[c].data = blocks[c].data
        /\ \A k \in 0 .. blocks[b].size - 1 :
              blocks'[b].data[k] = IF k = t THEN offered ELSE blocks[b].data[k]
    BY <1>1, <1>2, DataSetIs
  <1>5. Written'
    <2>1. blocks'[b].tail = t
      BY <1>1, <1>3 DEF SameIndices
    <2> QED BY <1>1, <1>2, <1>4, <2>1 DEF Written
  <1>6. Told'
    BY <1>1, <1>2, <1>3, ProducerKeepsTold DEF Empty, SameIndices
  <1>7. Queue' = Queue
    <2>1. Linked \subseteq Linked' /\ \A c \in Linked : c \in 1 .. Len(blocks)
      <3>1. Len(blocks') = Len(blocks)
        BY <1>3 DEF OneChanges
      <3> QED BY <1>2, <3>1, LinkedGrows DEF Linked
    <2>2. ASSUME NEW c \in Linked, NEW i \in 0 .. blocks[c].size - 1, i # blocks[c].tail
          PROVE  Values(c)'[i] = Values(c)[i]
      <3>1. c \in 1 .. Len(blocks) /\ blocks'[c].size = blocks[c].size
        BY <1>3, <2>1 DEF SameIndices
      <3>2. blocks'[c].data[i] = blocks[c].data[i]
        BY <1>4, <2>2, <3>1
      <3> QED BY <1>2, <3>1, <3>2 DEF Values, Value
    <2>3. \A c \in Linked :
             /\ blocks'[c].size = blocks[c].size /\ blocks'[c].front = blocks[c].front
             /\ blocks'[c].next = blocks[c].next /\ blocks'[c].tail = blocks[c].tail
      BY <1>3, <2>1 DEF SameIndices
    <2> QED BY <1>2, <2>1, <2>2, <2>3, QuietStep
  <1> QED BY <1>2, <1>5, <1>6, <1>7

(* The block ahead: what the producer writes there is not in the queue yet.  *)
LEMMA TakesNextPutsNothing ==
  ASSUME IInv, IInv', Written, Told, EnqueueTakesNext
  PROVE  Written' /\ Told' /\ UNCHANGED <<Queue, taken>>
  <1> DEFINE b == producer.next
             r == blocks[b]
             f == r.front
             d == [r.data EXCEPT ![r.tail] = offered]
             q == [r EXCEPT !.localFront = f, !.data = d]
  <1>1. /\ producer.pc = "takeNext" /\ producer \in Producer /\ TypeOK /\ offered \in Nat
        /\ b \in 1 .. Len(blocks) /\ b # frontBlock
        /\ frontBlock \in 1 .. Len(blocks)
    BY NextOfProducer DEF EnqueueTakesNext, IInv, TypeOK
  <1>2. /\ blocks' = [blocks EXCEPT ![b].localFront = f, ![b].data[r.tail] = offered]
        /\ producer'.pc = "publishNext" /\ producer'.next = b
        /\ UNCHANGED <<frontBlock, tailBlock, consumer, offered, taken>>
    BY <1>1 DEF EnqueueTakesNext, producerFrame, Producer
  <1>3. /\ r \in Block /\ r.data \in [0 .. r.size - 1 -> Nat]
        /\ r.tail \in 0 .. r.size - 1 /\ b \in DOMAIN blocks
    BY <1>1, BlockFacts DEF TypeOK
  <1>4. blocks' = [blocks EXCEPT ![b] = q]
    <2>1. q = [[r EXCEPT !.localFront = f] EXCEPT !.data = d]
      BY <1>3 DEF Block
    <2> HIDE DEF b
    <2> QED BY <1>2, <1>3, <2>1 DEF Block
  <1>5. \A k \in 0 .. r.size - 1 : d[k] = IF k = r.tail THEN offered ELSE r.data[k]
    BY <1>3
  <1> HIDE DEF d
  <1>6. /\ q.data = d /\ q.front = r.front /\ q.tail = r.tail /\ q.size = r.size
        /\ q.next = r.next
    BY <1>3 DEF Block
  <1> HIDE DEF q
  <1>7. /\ blocks'[b] = q /\ \A c \in 1 .. Len(blocks) : c # b => blocks'[c] = blocks[c]
        /\ Len(blocks') = Len(blocks)
    <2> HIDE DEF b
    <2> QED BY <1>1, <1>3, <1>4 DEF TypeOK
  <1>8. Written'
    <2>1. blocks'[b].data[blocks'[b].tail] = offered
      BY <1>3, <1>5, <1>6, <1>7
    <2> HIDE DEF b
    <2> QED BY <1>1, <1>2, <2>1 DEF Written
  <1>9. Told'
    <2>1. blocks'[frontBlock] = blocks[frontBlock]
      BY <1>1, <1>7
    <2> QED BY <1>2, <2>1, ProducerKeepsTold DEF Empty
  <1>10. Queue' = Queue
    <2>1. Linked \subseteq Linked' /\ \A c \in Linked : c \in 1 .. Len(blocks)
      BY <1>2, <1>7, LinkedGrows DEF Linked
    <2>2. ASSUME NEW c \in Linked, NEW i \in 0 .. blocks[c].size - 1, i # blocks[c].tail
          PROVE  Values(c)'[i] = Values(c)[i]
      <3>1. blocks'[c].size = blocks[c].size
        BY <1>6, <1>7, <2>1
      <3>2. blocks'[c].data[i] = blocks[c].data[i]
        BY <1>5, <1>6, <1>7, <2>1, <2>2
      <3> QED BY <1>2, <3>1, <3>2 DEF Values, Value
    <2>3. \A c \in Linked :
             /\ blocks'[c].size = blocks[c].size /\ blocks'[c].front = blocks[c].front
             /\ blocks'[c].next = blocks[c].next /\ blocks'[c].tail = blocks[c].tail
      BY <1>6, <1>7, <2>1
    <2> QED BY <1>2, <2>1, <2>2, <2>3, QuietStep
  <1> QED BY <1>2, <1>8, <1>9, <1>10

LEMMA PublishesInNextPutsNothing ==
  ASSUME IInv, IInv', Written, Told, EnqueuePublishesInNext
  PROVE  Written' /\ Told' /\ UNCHANGED <<Queue, taken>>
  <1> DEFINE b == producer.next
             r == blocks[b]
             u == After(b, r.tail)
  <1>1. /\ producer.pc = "publishNext" /\ b = blocks[tailBlock].next /\ b # frontBlock
        /\ producer \in Producer /\ TypeOK /\ offered \in Nat
        /\ b \in 1 .. Len(blocks) /\ frontBlock \in 1 .. Len(blocks)
        /\ r.data[r.tail] = offered
    BY NextOfProducer DEF EnqueuePublishesInNext, IInv, ProducerKnows, TypeOK, Written
  <1>2. /\ blocks' = [blocks EXCEPT ![b].tail = u]
        /\ producer'.pc = "advance" /\ producer'.next = b
        /\ UNCHANGED <<frontBlock, tailBlock, consumer, offered, taken>>
    BY <1>1 DEF EnqueuePublishesInNext, producerFrame, Producer
  <1>3. r.front = r.tail
    BY <1>1, NextIsEmpty DEF Empty
  <1>4. u = Follows(r.size, r.tail) /\ u \in 0 .. r.size - 1
    BY <1>1, BlockFacts, AfterIs
  <1> HIDE DEF u
  <1>5. /\ OneChanges(b) /\ blocks'[b].front = r.front /\ blocks'[b].tail = u
        /\ blocks'[b].next = r.next
    <2> HIDE DEF b
    <2> QED BY <1>1, <1>2, <1>4, StoreTail
  <1>6. \A c \in 1 .. Len(blocks) :
           /\ blocks'[c].front = blocks[c].front /\ blocks'[c].next = blocks[c].next
           /\ c # b => blocks'[c].tail = blocks[c].tail
    BY <1>5 DEF OneChanges
  <1>7. \A c \in 1 .. Len(blocks) : /\ blocks'[c].data = blocks[c].data
                                    /\ blocks'[c].size = blocks[c].size
    <2> HIDE DEF b
    <2> QED BY <1>1, <1>2, IndexStoreKeepsData
  <1>8. Written'
    <2>1. /\ blocks'[b].tail = Follows(blocks'[b].size, blocks'[b].front)
          /\ blocks'[b].data[blocks'[b].front] = offered
      BY <1>1, <1>3, <1>4, <1>5, <1>7
    <2> HIDE DEF b
    <2> QED BY <1>1, <1>2, <2>1 DEF Written
  <1>9. Told'
    BY <1>1, <1>2, <1>6, ProducerKeepsTold DEF Empty
  <1>10. Queue' = Queue
    <2>1. Linked \subseteq Linked' /\ \A c \in Linked : c \in 1 .. Len(blocks)
      <3>1. Len(blocks') = Len(blocks)
        BY <1>5 DEF OneChanges
      <3> QED BY <1>2, <3>1, LinkedGrows DEF Linked
    <2>2. \A c \in Linked : Values(c)' = Values(c)
      BY <1>2, <1>7, <2>1, ValuesStay
    <2>3. \A c \in Linked :
             (c # frontBlock /\ c = blocks[tailBlock].next) \/ blocks'[c].tail = blocks[c].tail
      BY <1>1, <1>6, <2>1
    <2> QED BY <1>2, <1>6, <1>7, <2>1, <2>2, <2>3, QuietStep
  <1> QED BY <1>2, <1>8, <1>9, <1>10

(* A new block holds the element, outside the circle. *)
LEMMA NewBlockHolds ==
  ASSUME NEW n \in Nat, n >= 2, NEW next \in Nat, NEW x \in Nat,
         NEW q, q = NewBlock(n, next, x)
  PROVE  q.data[q.front] = x /\ q.tail = Follows(q.size, q.front)
  <1> DEFINE z == [i \in 0 .. n - 1 |-> Raw]
             d == [z EXCEPT ![0] = x]
  <1>1. d[0] = x
    OBVIOUS
  <1>2. q = [front |-> 0, localTail |-> 1, tail |-> 1, localFront |-> 0,
             next |-> next, size |-> n, data |-> d]
    BY DEF make_block, NewBlock
  <1> HIDE DEF d
  <1>3. q.data = d /\ q.front = 0 /\ q.tail = 1 /\ q.size = n
    BY <1>2
  <1> QED BY <1>1, <1>3 DEF Follows

LEMMA AllocatesPutsNothing ==
  ASSUME IInv, IInv', Written, Told, EnqueueAllocates
  PROVE  Written' /\ Told' /\ UNCHANGED <<Queue, taken>>
  <1> DEFINE new == Len(blocks) + 1
             n == NewBlockSize
             next == blocks[tailBlock].next
             q == NewBlock(n, next, offered)
  <1>1. /\ producer.pc = "allocate" /\ producer.block = tailBlock
        /\ tailBlock \in 1 .. Len(blocks) /\ frontBlock \in 1 .. Len(blocks)
        /\ producer \in Producer /\ TypeOK /\ offered \in Nat
        /\ blocks \in Seq(Block) /\ offered \in 1 .. MaxElement
    BY DEF EnqueueAllocates, IInv, ProducerKnows, TypeOK, Written
  <1>2. /\ blocks' = Append(blocks, q)
        /\ producer' = [producer EXCEPT !.pc = "link", !.next = new]
        /\ UNCHANGED <<frontBlock, tailBlock, consumer, offered, taken>>
    BY <1>1 DEF EnqueueAllocates, producerFrame, NewBlock
  <1>3. n \in Nat /\ n >= 2 /\ next \in Nat /\ Len(blocks) \in Nat
    <2>1. n \in Nat /\ n >= 2
      BY <1>1 DEF TypeOK, NewBlockSize
    <2> HIDE DEF n
    <2> QED BY <1>1, <2>1, BlockFacts
  <1> HIDE DEF n, next
  <1>4. q \in Block /\ q.data[q.front] = offered /\ q.tail = Follows(q.size, q.front)
    <2>1. q = NewBlock(n, next, offered)
      OBVIOUS
    <2> HIDE DEF q
    <2>2. q \in Block
      BY <1>1, <1>3, <2>1, NewBlockIs
    <2>3. q.data[q.front] = offered /\ q.tail = Follows(q.size, q.front)
      BY <1>1, <1>3, <2>1, NewBlockHolds
    <2> QED BY <2>2, <2>3
  <1> HIDE DEF q
  <1>5. /\ Len(blocks') = new /\ blocks'[new] = q
        /\ \A c \in 1 .. Len(blocks) : blocks'[c] = blocks[c]
    BY <1>1, <1>2, <1>4, AppendOne
  <1>6. producer'.pc = "link" /\ producer'.next = new
    BY <1>1, <1>2 DEF Producer
  <1>7. \A c : c \in 1 .. Len(blocks) => c \in 1 .. Len(blocks') /\ c # new
    BY <1>3, <1>5
  <1> HIDE DEF new
  <1>8. Written'
    BY <1>1, <1>2, <1>4, <1>5, <1>6 DEF Written
  <1>9. Told'
    <2>1. blocks'[frontBlock] = blocks[frontBlock]
      BY <1>1, <1>5
    <2> QED BY <1>2, <2>1, ProducerKeepsTold DEF Empty
  <1>10. Queue' = Queue
    <2>1. Linked \subseteq Linked' /\ \A c \in Linked : c \in 1 .. Len(blocks)
      BY <1>6, <1>7 DEF Linked
    <2>2. \A c \in Linked : blocks'[c] = blocks[c]
      BY <1>5, <2>1
    <2>3. \A c \in Linked : Values(c)' = Values(c)
      BY <1>2, <2>2, ValuesStay
    <2> QED BY <1>2, <2>1, <2>2, <2>3, QuietStep
  <1> QED BY <1>2, <1>8, <1>9, <1>10

LEMMA LinksPutsNothing ==
  ASSUME IInv, IInv', Written, Told, EnqueueLinks
  PROVE  Written' /\ Told' /\ UNCHANGED <<Queue, taken>>
  <1> DEFINE b == tailBlock
             r == blocks[b]
  <1>1. /\ producer.pc = "link" /\ producer.block = b /\ producer.next # b
        /\ producer.next \in 1 .. Len(blocks)
        /\ b \in 1 .. Len(blocks) /\ frontBlock \in 1 .. Len(blocks)
        /\ producer \in Producer /\ TypeOK
    BY NextOfProducer DEF EnqueueLinks, IInv, ProducerKnows, TypeOK
  <1>2. /\ blocks' = [blocks EXCEPT ![b].next = producer.next]
        /\ producer'.pc = "advance" /\ producer'.next = producer.next
        /\ UNCHANGED <<frontBlock, tailBlock, consumer, offered, taken>>
    BY <1>1 DEF EnqueueLinks, producerFrame, Producer
  <1>3. OneChanges(b) /\ blocks'[b].front = r.front /\ blocks'[b].tail = r.tail
    <2>1. producer.next \in Nat
      BY <1>1
    <2> QED BY <1>1, <1>2, <2>1, StoreNext
  <1>4. \A c \in 1 .. Len(blocks) :
           /\ blocks'[c].front = blocks[c].front /\ blocks'[c].tail = blocks[c].tail
           /\ c # b => blocks'[c].next = blocks[c].next
    BY <1>3 DEF OneChanges
  <1>5. \A c \in 1 .. Len(blocks) : /\ blocks'[c].data = blocks[c].data
                                    /\ blocks'[c].size = blocks[c].size
    BY <1>1, <1>2, IndexStoreKeepsData
  <1>6. Written'
    BY <1>1, <1>2, <1>4, <1>5 DEF Written
  <1>7. Told'
    BY <1>1, <1>2, <1>4, ProducerKeepsTold DEF Empty
  <1>8. Queue' = Queue
    <2>1. Linked \subseteq Linked' /\ \A c \in Linked : c \in 1 .. Len(blocks)
      <3>1. Len(blocks') = Len(blocks)
        BY <1>3 DEF OneChanges
      <3> QED BY <1>2, <3>1, LinkedGrows DEF Linked
    <2>2. \A c \in Linked : Values(c)' = Values(c)
      BY <1>2, <1>5, <2>1, ValuesStay
    <2> QED BY <1>2, <1>4, <1>5, <2>1, <2>2, QuietStep
  <1> QED BY <1>2, <1>6, <1>7, <1>8

LEMMA AppendToConcatenation ==
  \A s, r \in Seq(Nat) : \A x \in Nat :
     /\ Append(s \o r, x) = s \o Append(r, x)
     /\ Append(s, x) = s \o <<x>>
     /\ Append(s, x) \in Seq(Nat) /\ <<x>> \in Seq(Nat)
  <1> SUFFICES ASSUME NEW s \in Seq(Nat), NEW r \in Seq(Nat), NEW x \in Nat
               PROVE  /\ Append(s \o r, x) = s \o Append(r, x)
                      /\ Append(s, x) = s \o <<x>>
                      /\ Append(s, x) \in Seq(Nat) /\ <<x>> \in Seq(Nat)
    OBVIOUS
  <1>1. <<x>> \in Seq(Nat) /\ Len(<<x>>) = 1 /\ <<x>>[1] = x
    OBVIOUS
  <1>2. \A q \in Seq(Nat) :
           /\ Append(q, x) \in Seq(Nat) /\ Len(Append(q, x)) = Len(q) + 1
           /\ \A k \in 1 .. Len(q) : Append(q, x)[k] = q[k]
           /\ Append(q, x)[Len(q) + 1] = x
    OBVIOUS
  <1>3. \A q \in Seq(Nat) :
           /\ s \o q \in Seq(Nat) /\ Len(s \o q) = Len(s) + Len(q)
           /\ \A k \in 1 .. Len(s) : (s \o q)[k] = s[k]
           /\ \A k \in 1 .. Len(q) : (s \o q)[Len(s) + k] = q[k]
    OBVIOUS
  <1>4. Append(s, x) = s \o <<x>>
    <2> DEFINE u == Append(s, x)
               v == s \o <<x>>
    <2>1. /\ u \in Seq(Nat) /\ v \in Seq(Nat) /\ Len(u) = Len(s) + 1 /\ Len(v) = Len(s) + 1
          /\ \A k \in 1 .. Len(s) : u[k] = v[k]
          /\ u[Len(s) + 1] = v[Len(s) + 1] /\ Len(s) \in Nat
      BY <1>1, <1>2, <1>3
    <2> HIDE DEF u, v
    <2>2. \A k \in 1 .. Len(u) : u[k] = v[k]
      BY <2>1
    <2>3. u = v
      BY <2>1, <2>2, SameSequence
    <2> QED BY <2>3 DEF u, v
  <1>5. Append(s \o r, x) = s \o Append(r, x)
    <2> DEFINE u == Append(s \o r, x)
               v == s \o Append(r, x)
               m == Len(s)
               n == Len(r)
    <2>1. /\ m \in Nat /\ n \in Nat
          /\ u \in Seq(Nat) /\ v \in Seq(Nat)
          /\ Len(u) = m + n + 1 /\ Len(v) = m + (n + 1)
      BY <1>2, <1>3
    <2>2. \A k \in 1 .. m : u[k] = v[k]
      <3> SUFFICES ASSUME NEW k \in 1 .. m PROVE u[k] = v[k]
        OBVIOUS
      <3>1. k \in 1 .. Len(s \o r)
        BY <1>3
      <3> QED BY <1>2, <1>3, <3>1
    <2>3. \A k \in 1 .. n : u[m + k] = v[m + k]
      <3> SUFFICES ASSUME NEW k \in 1 .. n PROVE u[m + k] = v[m + k]
        OBVIOUS
      <3>1. m + k \in 1 .. Len(s \o r) /\ k \in 1 .. Len(Append(r, x))
        BY <1>2, <1>3
      <3>2. u[m + k] = r[k]
        BY <1>2, <1>3, <3>1
      <3>3. v[m + k] = r[k]
        BY <1>2, <1>3, <3>1
      <3> QED BY <3>2, <3>3
    <2>4. u[m + n + 1] = v[m + n + 1]
      <3>1. u[m + n + 1] = x
        BY <1>2, <1>3
      <3>2. n + 1 \in 1 .. Len(Append(r, x))
        BY <1>2
      <3>3. v[m + (n + 1)] = x
        BY <1>2, <1>3, <3>2
      <3>4. m + (n + 1) = m + n + 1
        OBVIOUS
      <3> QED BY <3>1, <3>3, <3>4
    <2> HIDE DEF u, v, m, n
    <2>5. \A k \in 1 .. Len(u) : u[k] = v[k]
      <3> SUFFICES ASSUME NEW k \in 1 .. m + n + 1 PROVE u[k] = v[k]
        BY <2>1
      <3>1. k \in 1 .. m \/ k = m + n + 1 \/ (k - m \in 1 .. n /\ m + (k - m) = k)
        BY <2>1
      <3> QED BY <2>2, <2>3, <2>4, <3>1
    <2>6. u = v
      BY <2>1, <2>5, SameSequence
    <2> QED BY <2>6 DEF u, v
  <1> QED BY <1>1, <1>2, <1>4, <1>5

(* One more element in the tail block. *)
LEMMA QueueGrowsInTail ==
  ASSUME IInv, IInv', NEW x \in Nat, UNCHANGED <<frontBlock, tailBlock>>,
         Linked \subseteq Linked',
         Elements(tailBlock)' = Append(Elements(tailBlock), x),
         \A b \in Linked : b # tailBlock => /\ blocks'[b].next = blocks[b].next
                                            /\ Elements(b)' = Elements(b)
  PROVE  Queue' = Append(Queue, x)
  <1>1. PICK K : \E f : Chain(K, f) /\ OneWay(K)
    BY ChainThere
  <1>2. PICK f : Chain(K, f)
    BY <1>1
  <1> DEFINE g == [b \in K |-> Append(f[b], x)]
  <1>3. /\ K \subseteq Linked /\ frontBlock \in K /\ tailBlock \in K
        /\ \A b \in K : f[b] \in Seq(Nat)
        /\ f[tailBlock] = Elements(tailBlock)
        /\ \A b \in K \ {tailBlock} :
              blocks[b].next \in K /\ f[b] = Elements(b) \o f[blocks[b].next]
    BY <1>2 DEF Chain, Joins
  <1>4. \A b \in K : g[b] = Append(f[b], x) /\ g[b] \in Seq(Nat)
    BY <1>3
  <1> HIDE DEF g
  <1>5. ASSUME NEW b \in K, b # tailBlock
        PROVE  blocks'[b].next \in K /\ g[b] = Elements(b)' \o g[blocks'[b].next]
    <2>1. /\ blocks'[b].next = blocks[b].next /\ Elements(b)' = Elements(b)
          /\ blocks[b].next \in K /\ f[b] = Elements(b) \o f[blocks[b].next]
      BY <1>3, <1>5
    <2>2. Elements(b) \in Seq(Nat) /\ f[blocks[b].next] \in Seq(Nat)
      <3>1. b \in 1 .. Len(blocks) /\ TypeOK
        BY <1>3 DEF Linked, IInv
      <3> QED BY <1>3, <2>1, <3>1, ElementsAreNumbers
    <2>3. Append(Elements(b) \o f[blocks[b].next], x)
             = Elements(b) \o Append(f[blocks[b].next], x)
      BY <2>2, AppendToConcatenation
    <2> QED BY <1>4, <2>1, <2>3
  <1>6. Chain(K, g)'
    BY <1>3, <1>4, <1>5 DEF Chain, Joins
  <1>7. Queue = f[frontBlock] /\ Queue' = g[frontBlock']
    BY <1>2, <1>6, ChainIsQueue, ChainIsQueueNext
  <1> QED BY <1>3, <1>4, <1>7

(* One more block, with one element, becomes the tail block. *)
LEMMA QueueGrowsByBlock ==
  ASSUME IInv, IInv', NEW x \in Nat, UNCHANGED <<blocks, frontBlock>>,
         Linked \subseteq Linked', tailBlock' \in Linked',
         tailBlock' = blocks[tailBlock].next, tailBlock' # frontBlock,
         Elements(tailBlock)' = <<x>>,
         \A b \in Linked : Elements(b)' = Elements(b)
  PROVE  Queue' = Append(Queue, x)
  <1>1. PICK K : \E f : Chain(K, f) /\ OneWay(K)
    BY ChainThere
  <1>2. PICK f : Chain(K, f) /\ OneWay(K)
    BY <1>1
  <1> DEFINE next == blocks[tailBlock].next
  <1>3. PICK new : new = next
    OBVIOUS
  <1> DEFINE M == K \cup {new}
             g == [b \in M |-> IF b = new THEN <<x>> ELSE Append(f[b], x)]
  <1>4. /\ K \subseteq Linked /\ frontBlock \in K /\ tailBlock \in K
        /\ \A b \in K : f[b] \in Seq(Nat)
        /\ f[tailBlock] = Elements(tailBlock)
        /\ \A b \in K \ {tailBlock} :
              blocks[b].next \in K /\ f[b] = Elements(b) \o f[blocks[b].next]
        /\ new \notin K
    BY <1>2, <1>3 DEF Chain, Joins, OneWay
  <1>5. /\ tailBlock' = new /\ new \in Linked'
        /\ blocks' = blocks /\ Elements(tailBlock)' = <<x>>
    BY <1>3
  <1>6. /\ \A b \in K : b \in M /\ b # new /\ g[b] = Append(f[b], x) /\ g[b] \in Seq(Nat)
        /\ new \in M /\ g[new] = <<x>> /\ g[new] \in Seq(Nat)
        /\ \A b \in M : b \in K \/ b = new
    BY <1>4
  <1>7. M \subseteq Linked'
    BY <1>4, <1>5
  <1> HIDE DEF g, M
  <1>8. ASSUME NEW b \in K
        PROVE  blocks[b].next \in M /\ g[b] = Elements(b)' \o g[blocks[b].next]
    <2>1. Elements(b) \in Seq(Nat) /\ Elements(b)' = Elements(b)
      <3>1. b \in 1 .. Len(blocks) /\ TypeOK
        BY <1>4 DEF Linked, IInv
      <3> QED BY <1>4, <3>1, ElementsAreNumbers
    <2>2. CASE b = tailBlock
      <3>1. g[b] = Append(Elements(b), x) /\ blocks[b].next = new
        BY <1>4, <1>6, <1>3, <2>2
      <3>2. Append(Elements(b), x) = Elements(b) \o <<x>>
        BY <2>1, AppendToConcatenation
      <3> QED BY <1>6, <2>1, <3>1, <3>2
    <2>3. CASE b # tailBlock
      <3>1. blocks[b].next \in K /\ f[b] = Elements(b) \o f[blocks[b].next]
        BY <1>4, <2>3
      <3>2. Append(Elements(b) \o f[blocks[b].next], x)
               = Elements(b) \o Append(f[blocks[b].next], x)
        BY <1>4, <2>1, <3>1, AppendToConcatenation
      <3> QED BY <1>6, <2>1, <3>1, <3>2
    <2> QED BY <2>2, <2>3
  <1>9. Chain(M, g)'
    <2>1. \A b \in M \ {tailBlock'} :
             blocks'[b].next \in M /\ g[b] = Elements(b)' \o g[blocks'[b].next]
      BY <1>5, <1>6, <1>8
    <2>2. g[tailBlock'] = Elements(tailBlock)'
      BY <1>5, <1>6
    <2>3. frontBlock' \in M /\ tailBlock' \in M /\ \A b \in M : g[b] \in Seq(Nat)
      BY <1>4, <1>5, <1>6
    <2> QED BY <1>7, <2>1, <2>2, <2>3 DEF Chain, Joins
  <1>10. Queue = f[frontBlock] /\ Queue' = g[frontBlock']
    BY <1>2, <1>9, ChainIsQueue, ChainIsQueueNext
  <1> QED BY <1>4, <1>6, <1>10

LEMMA ListOfOne ==
  ASSUME NEW n \in Nat, NEW f \in 0 .. n - 1, NEW t, t = Follows(n, f), t # f,
         NEW s, NEW v, Lists(s, v, n, f, t), v[f] \in Nat
  PROVE  s = <<v[f]>>
  <1>1. Ahead(n, f, t) = 1
    BY Counted
  <1>2. Place(n, f, 1) = f
    BY DEF Place
  <1>3. s \in Seq(Nat) /\ Len(s) = 1 /\ s[1] = v[f]
    <2>1. s \in Seq(Nat) /\ Len(s) = 1 /\ \A k \in 1 .. 1 : s[k] = v[Place(n, f, k)]
      BY <1>1 DEF Lists
    <2> QED BY <1>2, <2>1
  <1> DEFINE x == v[f]
  <1> HIDE DEF x
  <1>4. s = <<x>>
    BY <1>3 DEF x
  <1> QED BY <1>4 DEF x

(* enqueue puts the element into the tail block ...                          *)
LEMMA PublishesPuts ==
  ASSUME IInv, IInv', Written, Told, EnqueuePublishes
  PROVE  Written' /\ Told' /\ Contents!Next
  <1> DEFINE b == tailBlock
             r == blocks[tailBlock]
             u == After(tailBlock, producer.at)
  <1>1. /\ producer.pc = "publish" /\ producer.block = b /\ producer.at = r.tail
        /\ b \in 1 .. Len(blocks) /\ frontBlock \in 1 .. Len(blocks)
        /\ TypeOK /\ TypeOK' /\ u # r.localFront /\ Shadows
        /\ offered \in 1 .. MaxElement /\ r.data[r.tail] = offered
    BY DEF EnqueuePublishes, IInv, ProducerKnows, TypeOK, Written
  <1>2. /\ blocks' = [blocks EXCEPT ![b].tail = u]
        /\ producer'.pc = "idle"
        /\ UNCHANGED <<frontBlock, tailBlock, consumer, offered, taken>>
    BY <1>1, IdleIsProducer DEF EnqueuePublishes, EnqueueReturns, producerFrame
  <1>3. /\ r.size \in Nat /\ r.size >= 2 /\ r.tail \in 0 .. r.size - 1
        /\ r.front \in 0 .. r.size - 1 /\ r.localFront \in 0 .. r.size - 1
        /\ r.localTail \in 0 .. r.size - 1
    BY <1>1, BlockFacts
  <1>4. u = Follows(r.size, r.tail) /\ u \in 0 .. r.size - 1
    BY <1>1, <1>3, AfterIs
  <1> HIDE DEF u
  <1>5. OneChanges(b) /\ blocks'[b].front = r.front /\ blocks'[b].tail = u
        /\ blocks'[b].next = r.next
    BY <1>1, <1>2, <1>4, StoreTail
  <1>6. u # r.front
    <2>1. /\ Ahead(r.size, r.front, r.localTail) <= Ahead(r.size, r.front, r.tail)
          /\ Ahead(r.size, r.front, r.tail) <= Ahead(r.size, r.localFront, r.tail)
      BY <1>1 DEF Shadows
    <2> HIDE DEF r
    <2> QED BY <1>1, <1>3, <1>4, <2>1, TailMovesOn
  <1>7. \A c \in 1 .. Len(blocks) :
           /\ blocks'[c].front = blocks[c].front /\ blocks'[c].next = blocks[c].next
           /\ c # b => blocks'[c].tail = blocks[c].tail
    BY <1>5 DEF OneChanges
  <1>8. \A c \in 1 .. Len(blocks) : /\ blocks'[c].data = blocks[c].data
                                    /\ blocks'[c].size = blocks[c].size
    BY <1>1, <1>2, IndexStoreKeepsData
  <1>9. Written'
    BY <1>2 DEF Written
  <1>10. Told'
    <2>1. Empty(frontBlock)' /\ tailBlock' = frontBlock => Empty(frontBlock)
      BY <1>2, <1>5, <1>6 DEF Empty
    <2> QED BY <1>2, <2>1, ProducerKeepsTold
  <1>11. Linked \subseteq Linked' /\ \A c \in Linked : /\ c \in 1 .. Len(blocks)
                                                       /\ c \in 1 .. Len(blocks')
    <2>1. Len(blocks') = Len(blocks)
      BY <1>5 DEF OneChanges
    <2> QED BY <1>2, <2>1, LinkedGrows DEF Linked
  <1>12. \A c \in Linked : Values(c)' = Values(c)
    BY <1>2, <1>8, <1>11, ValuesStay
  <1>13. Values(b)[r.tail] = offered
    <2>1. consumer.pc = "release" => <<b, r.tail>> # <<consumer.block, consumer.at>>
      BY <1>1, IInvImpliesNoSharedPlace DEF NoSharedPlace
    <2> QED BY <1>1, <1>3, <2>1 DEF Values, Value
  <1>14. Elements(b)' = Append(Elements(b), offered)
    <2>1. PICK c \in Linked : c = b
      BY EndsAreLinked
    <2>2. /\ c \in 1 .. Len(blocks) /\ c \in 1 .. Len(blocks')
          /\ blocks'[c].size = blocks[c].size /\ blocks'[c].front = blocks[c].front
          /\ blocks'[c].tail = Follows(blocks[c].size, blocks[c].tail)
          /\ blocks'[c].tail # blocks[c].front
      BY <1>4, <1>5, <1>6, <1>8, <1>11, <2>1
    <2>3. \A i \in 0 .. blocks[c].size - 1 : Values(c)'[i] = Values(c)[i]
      BY <1>12
    <2>4. Elements(c)' = Append(Elements(c), Values(c)[blocks[c].tail])
      BY <1>1, <2>2, <2>3, ElementAdded
    <2> QED BY <1>2, <1>13, <2>1, <2>4
  <1>15. \A c \in Linked : c # b => Elements(c)' = Elements(c)
    BY <1>1, <1>7, <1>8, <1>11, <1>12, ElementsStay
  <1>16. Queue' = Append(Queue, offered)
    <2>1. offered \in Nat
      BY <1>1
    <2> QED BY <1>2, <1>7, <1>11, <1>14, <1>15, <2>1, QueueGrowsInTail
  <1> QED BY <1>1, <1>2, <1>9, <1>10, <1>16 DEF Contents!Next, Contents!Put

(* ... or, with a block of its own.                                          *)
LEMMA AdvancesPuts ==
  ASSUME IInv, IInv', Written, Told, EnqueueAdvances
  PROVE  Written' /\ Told' /\ Contents!Next
  <1> DEFINE b == producer.next
             r == blocks[b]
  <1>1. /\ producer.pc = "advance" /\ b = blocks[tailBlock].next /\ b # frontBlock
        /\ b \in 1 .. Len(blocks) /\ TypeOK /\ TypeOK' /\ ~Empty(b)
        /\ offered \in 1 .. MaxElement /\ r.data[r.front] = offered
        /\ r.tail = Follows(r.size, r.front)
    BY NextOfProducer DEF EnqueueAdvances, IInv, ProducerKnows, TypeOK, Written
  <1>2. /\ tailBlock' = b /\ producer'.pc = "idle"
        /\ UNCHANGED <<blocks, frontBlock, consumer, offered, taken>>
    BY IdleIsProducer DEF EnqueueAdvances, EnqueueReturns, producerFrame
  <1>3. Written'
    BY <1>2 DEF Written
  <1>4. Told'
    BY <1>1, <1>2, ProducerKeepsTold
  <1>5. /\ Linked \subseteq Linked' /\ b \in Linked'
        /\ \A c \in Linked : c \in 1 .. Len(blocks) /\ c \in 1 .. Len(blocks')
    BY <1>1, <1>2, LinkedGrows DEF Linked
  <1>6. \A c : Values(c)' = Values(c)
    BY <1>2, ValuesStay
  <1>7. \A c \in 1 .. Len(blocks) : Elements(c)' = Elements(c)
    BY <1>1, <1>2, <1>6, ElementsStay
  <1>8. Elements(b) = <<offered>>
    <2> DEFINE n == r.size
               f == r.front
               t == r.tail
               s == Elements(b)
               v == Values(b)
    <2>1. /\ n \in Nat /\ f \in 0 .. n - 1 /\ t = Follows(n, f) /\ t # f
          /\ Lists(s, v, n, f, t)
      BY <1>1, BlockFacts, ElementsAreListed DEF Empty
    <2>2. v[f] = offered
      <3>1. consumer.pc = "release" => consumer.block # b
        BY <1>1 DEF IInv, ConsumerKnows
      <3> QED BY <1>1, <2>1, <3>1 DEF Values, Value
    <2>3. offered \in Nat
      BY <1>1
    <2> HIDE DEF n, f, t, s, v
    <2>4. s = <<v[f]>>
      BY <2>1, <2>2, <2>3, ListOfOne
    <2> QED BY <2>2, <2>4 DEF s
  <1>9. Queue' = Append(Queue, offered)
    <2>1. offered \in Nat /\ tailBlock' \in Linked' /\ tailBlock' = blocks[tailBlock].next
          /\ tailBlock' # frontBlock
      BY <1>1, <1>2, <1>5
    <2>2. Elements(tailBlock)' = <<offered>>
      <3>1. PICK c \in 1 .. Len(blocks) : c = b
        BY <1>1
      <3>2. tailBlock' = c /\ Elements(c)' = <<offered>>
        BY <1>2, <1>7, <1>8, <3>1
      <3> QED BY <3>2
    <2> QED BY <1>2, <1>5, <1>7, <2>1, <2>2, QueueGrowsByBlock
  <1> QED BY <1>1, <1>2, <1>3, <1>4, <1>9 DEF Contents!Next, Contents!Put

----------------------------------------------------------------------------
(* try_dequeue and peek                                                      *)

LEMMA EmptyQueue ==
  ASSUME IInv, frontBlock = tailBlock, Empty(frontBlock)
  PROVE  Queue = <<>>
  <1>1. PICK K : \E f : Chain(K, f) /\ OneWay(K)
    BY ChainThere
  <1>2. PICK f : Chain(K, f)
    BY <1>1
  <1>3. Queue = Elements(frontBlock)
    BY <1>2, ChainIsQueue DEF Chain, Joins
  <1>4. frontBlock \in 1 .. Len(blocks) /\ TypeOK
    BY DEF IInv, TypeOK
  <1> QED BY <1>3, <1>4, NoElements

(* A consumer that has an element in hand has the first one. *)
LEMMA FrontHasElement ==
  ASSUME IInv, consumer.pc \in {"take", "release"}
  PROVE  /\ consumer.block = frontBlock /\ consumer.at = blocks[frontBlock].front
         /\ ~Empty(frontBlock)
  <1> DEFINE r == blocks[frontBlock]
  <1>1. /\ consumer.block = frontBlock /\ consumer.at = r.front /\ r.localTail # r.front
        /\ frontBlock \in 1 .. Len(blocks) /\ TypeOK /\ Shadows
    BY DEF IInv, TypeOK, ConsumerKnows
  <1>2. r.tail # r.front
    <2>1. /\ Ahead(r.size, r.front, r.localTail) <= Ahead(r.size, r.front, r.tail)
          /\ Ahead(r.size, r.front, r.tail) <= Ahead(r.size, r.localFront, r.tail)
      BY <1>1 DEF Shadows
    <2>2. /\ r.size \in Nat /\ r.tail \in 0 .. r.size - 1
          /\ r.front \in 0 .. r.size - 1 /\ r.localFront \in 0 .. r.size - 1
          /\ r.localTail \in 0 .. r.size - 1
      BY <1>1, BlockFacts
    <2> HIDE DEF r
    <2> QED BY <1>1, <2>1, <2>2, FrontMovesOn
  <1> QED BY <1>1, <1>2 DEF Empty

(* The steps that only look. *)
LEMMA StartTakesNothing ==
  ASSUME IInv, IInv', Written, Told, NEW call \in {"try_dequeue", "peek"},
         DequeueStart(call)
  PROVE  Written' /\ Told' /\ UNCHANGED <<Queue, taken>>
  <1> DEFINE none == Queue = <<>>
             i == blocks[frontBlock].front
             p == IF i # blocks[frontBlock].localTail THEN "take" ELSE "reread"
  <1>1. /\ consumer' = [IdleConsumer EXCEPT !.pc = p, !.call = call, !.block = frontBlock,
                           !.at = i, !.wasEmpty = none]
        /\ UNCHANGED <<blocks, frontBlock, tailBlock, producer, offered, taken>>
        /\ consumer.pc = "idle"
    BY DEF DequeueStart, consumerFrame, allocVars
  <1>2. p \in {"take", "reread"} /\ (frontBlock = tailBlock /\ Empty(frontBlock) => none)
    BY EmptyQueue
  <1> HIDE DEF none, i, p
  <1>3. consumer'.pc = p /\ consumer'.wasEmpty = none
    BY <1>1 DEF IdleConsumer
  <1>4. Written'
    BY <1>1 DEF Written
  <1>5. Empty(frontBlock)' <=> Empty(frontBlock)
    BY <1>1 DEF Empty
  <1>6. Told'
    BY <1>1, <1>2, <1>3, <1>5 DEF Told
  <1>7. Queue' = Queue
    <2>1. Linked \subseteq Linked'
      BY <1>1, LinkedGrows
    <2>2. \A c \in Linked : Values(c)' = Values(c)
      BY <1>1, <1>2, <1>3, ValuesStay
    <2> QED BY <1>1, <2>1, <2>2, QuietStep
  <1> QED BY <1>1, <1>4, <1>6, <1>7

LEMMA ComparesTakesNothing ==
  ASSUME IInv, IInv', Written, Told, DequeueComparesBlocks \/ PeekReturns
  PROVE  Written' /\ Told' /\ UNCHANGED <<Queue, taken>>
  <1>1. /\ UNCHANGED <<blocks, frontBlock, tailBlock, producer, offered, taken>>
        /\ consumer.pc \in {"compare", "take"} /\ consumer'.pc \in {"recheck", "idle"}
    <2>1. consumer \in Consumer
      BY DEF IInv, TypeOK
    <2> QED BY <2>1, IdleIsConsumer
            DEF DequeueComparesBlocks, PeekReturns, DequeueReturns, consumerFrame,
                allocVars, Consumer
  <1>2. Written'
    BY <1>1 DEF Written
  <1>3. Told'
    BY <1>1 DEF Told
  <1>4. Queue' = Queue
    <2>1. Linked \subseteq Linked'
      BY <1>1, LinkedGrows
    <2>2. \A c \in Linked : Values(c)' = Values(c)
      BY <1>1, ValuesStay
    <2> QED BY <1>1, <2>1, <2>2, QuietStep
  <1> QED BY <1>1, <1>2, <1>3, <1>4

(* A consumer that looks at a tail index.                                    *)
LEMMA TailSeenTakesNothing ==
  ASSUME IInv, IInv', Written, NEW b \in 1 .. Len(blocks),
         blocks' = [blocks EXCEPT ![b].localTail = blocks[b].tail],
         UNCHANGED <<frontBlock, tailBlock, producer, offered>>,
         "release" \notin {consumer.pc, consumer'.pc}
  PROVE  /\ Written' /\ UNCHANGED Queue
         /\ \A c \in 1 .. Len(blocks) : Empty(c)' <=> Empty(c)
  <1>1. /\ OneChanges(b)
        /\ \A c \in 1 .. Len(blocks) :
              /\ blocks'[c].front = blocks[c].front /\ blocks'[c].tail = blocks[c].tail
              /\ blocks'[c].next = blocks[c].next /\ blocks'[c].size = blocks[c].size
    BY TailSeen
  <1>2. TypeOK /\ frontBlock \in 1 .. Len(blocks)
    BY DEF IInv, TypeOK
  <1>3. \A c \in 1 .. Len(blocks) : blocks'[c].data = blocks[c].data
    BY <1>2, IndexStoreKeepsData
  <1>4. Written'
    BY <1>1, <1>2, <1>3, ConsumerKeepsWritten
  <1>5. Queue' = Queue
    <2>1. Linked \subseteq Linked' /\ \A c \in Linked : c \in 1 .. Len(blocks)
      <3>1. Len(blocks') = Len(blocks)
        BY <1>1 DEF OneChanges
      <3> QED BY <3>1, LinkedGrows DEF Linked
    <2>2. \A c \in Linked : Values(c)' = Values(c)
      BY <1>1, <1>3, <2>1, ValuesStay
    <2> QED BY <1>1, <2>1, <2>2, QuietStep
  <1>6. \A c \in 1 .. Len(blocks) : Empty(c)' <=> Empty(c)
    BY <1>1 DEF Empty
  <1> QED BY <1>4, <1>5, <1>6

LEMMA ReadsTailTakesNothing ==
  ASSUME IInv, IInv', Written, Told, DequeueRereadsTail \/ DequeueRechecks
  PROVE  Written' /\ Told' /\ UNCHANGED <<Queue, taken>>
  <1>1. PICK next \in {"compare", "peekNext"} :
           /\ DequeueReadsTail(next)
           /\ consumer.pc \in {"reread", "recheck"}
           /\ next = "compare" => consumer.pc = "reread"
    BY DEF DequeueRereadsTail, DequeueRechecks
  <1> DEFINE b == frontBlock
             p == IF consumer.at # blocks[b].tail THEN "take" ELSE next
  <1>2. /\ consumer.block = b /\ consumer.at = blocks[b].front
        /\ b \in 1 .. Len(blocks) /\ consumer \in Consumer
    BY <1>1 DEF IInv, ConsumerKnows, TypeOK
  <1>3. /\ blocks' = [blocks EXCEPT ![b].localTail = blocks[b].tail]
        /\ consumer' = [consumer EXCEPT !.pc = p]
        /\ UNCHANGED <<frontBlock, tailBlock, producer, offered, taken>>
    BY <1>1, <1>2 DEF DequeueReadsTail, consumerFrame, allocVars
  <1>4. consumer'.pc = p /\ consumer'.wasEmpty = consumer.wasEmpty
    BY <1>2, <1>3 DEF Consumer
  <1>5. p \in {"take", "compare", "peekNext"} /\ (p = "compare" => Empty(b) /\ consumer.pc = "reread")
    BY <1>1, <1>2 DEF Empty
  <1> HIDE DEF p
  <1>6. Written' /\ Queue' = Queue
    BY <1>1, <1>2, <1>3, <1>4, <1>5, TailSeenTakesNothing
  <1>7. Told'
    BY <1>3, <1>4, <1>5 DEF Told
  <1> QED BY <1>3, <1>6, <1>7

LEMMA LooksAtNextTakesNothing ==
  ASSUME IInv, IInv', Written, Told, DequeueLooksAtNext
  PROVE  Written' /\ Told' /\ UNCHANGED <<Queue, taken>>
  <1> DEFINE b == blocks[frontBlock].next
  <1>1. /\ consumer.pc = "peekNext" /\ consumer.block = frontBlock
        /\ consumer \in Consumer /\ frontBlock # tailBlock
        /\ UNCHANGED <<frontBlock, tailBlock, producer, offered, taken>>
    BY DEF DequeueLooksAtNext, IInv, ConsumerKnows, TypeOK, consumerFrame, allocVars
  <1>2. consumer'.pc \in {"idle", "move"}
    BY <1>1, IdleIsConsumer DEF DequeueLooksAtNext, DequeueReturns, Consumer
  <1>3. Told'
    BY <1>1, <1>2 DEF Told
  <1>4. CASE UNCHANGED blocks
    <2>1. Written'
      BY <1>1, <1>4 DEF Written
    <2>2. Linked \subseteq Linked'
      BY <1>1, <1>4, LinkedGrows
    <2>3. \A c \in Linked : Values(c)' = Values(c)
      BY <1>1, <1>2, <1>4, ValuesStay
    <2>4. Queue' = Queue
      BY <1>1, <1>4, <2>2, <2>3, QuietStep
    <2> QED BY <1>1, <1>3, <2>1, <2>4
  <1>5. CASE blocks' = [blocks EXCEPT ![b].localTail = blocks[b].tail]
    <2>1. b \in 1 .. Len(blocks)
      BY <1>1, NextIsOccupied DEF Linked
    <2>2. Written' /\ Queue' = Queue
      BY <1>1, <1>2, <1>5, <2>1, TailSeenTakesNothing
    <2> QED BY <1>1, <1>3, <2>2
  <1> QED BY <1>1, <1>4, <1>5 DEF DequeueLooksAtNext

(* The element moves from its place into the hand of the consumer.           *)
LEMMA TakesTakesNothing ==
  ASSUME IInv, IInv', Written, Told, DequeueTakes
  PROVE  Written' /\ Told' /\ UNCHANGED <<Queue, taken>>
  <1> DEFINE b == frontBlock
             i == blocks[frontBlock].front
             e == ElementAtHand
  <1>1. /\ consumer.pc = "take" /\ consumer.block = b /\ consumer.at = i /\ ~Empty(b)
        /\ consumer.call = "try_dequeue" /\ consumer \in Consumer /\ TypeOK
        /\ b \in 1 .. Len(blocks) /\ i \in 0 .. blocks[b].size - 1
    BY FrontHasElement, BlockFacts DEF DequeueTakes, IInv, TypeOK
  <1>2. /\ blocks' = DataSet(b, i, Raw)
        /\ consumer' = [consumer EXCEPT !.pc = "release", !.element = e]
        /\ UNCHANGED <<frontBlock, tailBlock, producer, offered, taken>>
    BY <1>1 DEF DequeueTakes, consumerFrame, allocVars, DataSet
  <1>3. e = blocks[b].data[i]
    BY <1>1 DEF ElementAtHand
  <1> HIDE DEF e
  <1>4. /\ consumer'.pc = "release" /\ consumer'.element = e /\ consumer'.block = b
        /\ consumer'.at = i /\ consumer'.call = "try_dequeue"
    BY <1>1, <1>2 DEF Consumer
  <1>5. OneChanges(b) /\ SameIndices
    <2>1. i \in Nat /\ i < blocks[b].size /\ Raw \in Nat
      BY <1>1, BlockFacts DEF Raw
    <2> QED BY <1>1, <1>2, <2>1, DataStoreIsSmall
  <1>6. /\ \A c \in 1 .. Len(blocks) : c # b => blocks'[c].data = blocks[c].data
        /\ \A k \in 0 .. blocks[b].size - 1 :
              blocks'[b].data[k] = IF k = i THEN Raw ELSE blocks[b].data[k]
    BY <1>1, <1>2, DataSetIs
  <1>7. Written'
    BY <1>1, <1>2, <1>5, <1>6, ConsumerKeepsWritten DEF SameIndices
  <1>8. Told'
    BY <1>4 DEF Told
  <1>9. Queue' = Queue
    <2>1. Linked \subseteq Linked' /\ \A c \in Linked : c \in 1 .. Len(blocks)
      <3>1. Len(blocks') = Len(blocks)
        BY <1>5 DEF OneChanges
      <3> QED BY <1>2, <3>1, LinkedGrows DEF Linked
    <2>2. ASSUME NEW c \in Linked, NEW k \in 0 .. blocks[c].size - 1
          PROVE  Values(c)'[k] = Values(c)[k]
      <3>1. blocks'[c].size = blocks[c].size
        BY <1>5, <2>1 DEF SameIndices
      <3>2. Value(c, k) = blocks[c].data[k]
        BY <1>1 DEF Value
      <3>3. Value(c, k)' = IF c = b /\ k = i THEN e ELSE blocks'[c].data[k]
        BY <1>4 DEF Value
      <3>4. Value(c, k)' = Value(c, k)
        BY <1>3, <1>6, <2>1, <3>2, <3>3
      <3> QED BY <3>1, <3>4 DEF Values
    <2>3. \A c \in Linked :
             /\ blocks'[c].size = blocks[c].size /\ blocks'[c].front = blocks[c].front
             /\ blocks'[c].next = blocks[c].next /\ blocks'[c].tail = blocks[c].tail
      BY <1>5, <2>1 DEF SameIndices
    <2> QED BY <1>2, <2>1, <2>2, <2>3, QuietStep
  <1> QED BY <1>2, <1>7, <1>8, <1>9

(* The consumer leaves a block without elements.                             *)
LEMMA MovesTakesNothing ==
  ASSUME IInv, IInv', Written, Told, DequeueMoves
  PROVE  Written' /\ Told' /\ UNCHANGED <<Queue, taken>>
  <1> DEFINE b == blocks[frontBlock].next
  <1>1. /\ consumer.pc = "move" /\ consumer.next = b /\ frontBlock # tailBlock
        /\ Empty(frontBlock) /\ consumer \in Consumer /\ TypeOK /\ TypeOK'
        /\ frontBlock \in 1 .. Len(blocks)
    BY DEF DequeueMoves, IInv, ConsumerKnows, TypeOK
  <1>2. /\ frontBlock' = b /\ consumer'.pc = "take"
        /\ UNCHANGED <<blocks, tailBlock, producer, offered, taken>>
    BY <1>1 DEF DequeueMoves, consumerFrame, allocVars, Consumer
  <1>3. Written'
    BY <1>2 DEF Written
  <1>4. Told'
    BY <1>2 DEF Told
  <1>5. PICK K : \E f : Chain(K, f) /\ OneWay(K)
    BY ChainThere
  <1>6. PICK f : Chain(K, f)
    BY <1>5
  <1>7. \A c \in K : Elements(c)' = Elements(c)
    <2>1. \A c \in K : c \in 1 .. Len(blocks) /\ c \in 1 .. Len(blocks')
      BY <1>2, <1>6 DEF Chain, Joins, Linked
    <2>2. \A c : Values(c)' = Values(c)
      BY <1>1, <1>2, ValuesStay
    <2> QED BY <1>1, <1>2, <2>1, <2>2, ElementsStay
  <1>8. Chain(K, f)'
    <2>1. Linked' = Linked /\ b \in K
      BY <1>1, <1>2, <1>6 DEF Chain, Joins, Linked
    <2> QED BY <1>2, <1>6, <1>7, <2>1 DEF Chain, Joins
  <1>9. Queue = f[frontBlock] /\ Queue' = f[frontBlock']
    BY <1>6, <1>8, ChainIsQueue, ChainIsQueueNext
  <1>10. f[frontBlock] = f[b]
    <2>1. f[frontBlock] = Elements(frontBlock) \o f[b] /\ f[b] \in Seq(Nat)
      BY <1>1, <1>6 DEF Chain, Joins
    <2>2. Elements(frontBlock) = <<>>
      BY <1>1, NoElements
    <2>3. \A s \in Seq(Nat) : <<>> \o s = s
      OBVIOUS
    <2> QED BY <2>1, <2>2, <2>3
  <1> QED BY <1>2, <1>3, <1>4, <1>9, <1>10

LEMMA TailOfConcatenation ==
  \A s, r \in Seq(Nat) : s # <<>> =>
     /\ s \o r # <<>> /\ Head(s \o r) = Head(s) /\ Tail(s \o r) = Tail(s) \o r
     /\ Tail(s) \in Seq(Nat)
  <1> SUFFICES ASSUME NEW s \in Seq(Nat), NEW r \in Seq(Nat), s # <<>>
               PROVE  /\ s \o r # <<>> /\ Head(s \o r) = Head(s)
                      /\ Tail(s \o r) = Tail(s) \o r /\ Tail(s) \in Seq(Nat)
    OBVIOUS
  <1> DEFINE m == Len(s)
             n == Len(r)
             v == s \o r
             u == Tail(v)
             w == Tail(s) \o r
  <1>1. /\ m \in Nat /\ m >= 1 /\ n \in Nat
        /\ v \in Seq(Nat) /\ Len(v) = m + n
        /\ \A k \in 1 .. m : v[k] = s[k]
        /\ \A k \in 1 .. n : v[m + k] = r[k]
    OBVIOUS
  <1>2. /\ Tail(s) \in Seq(Nat) /\ Len(Tail(s)) = m - 1
        /\ \A k \in 1 .. m - 1 : Tail(s)[k] = s[k + 1]
        /\ Head(s) = s[1]
    OBVIOUS
  <1> HIDE DEF v
  <1>3. v # <<>> /\ Head(v) = v[1]
    BY <1>1
  <1>4. /\ u \in Seq(Nat) /\ Len(u) = m + n - 1
        /\ \A k \in 1 .. m + n - 1 : u[k] = v[k + 1]
    <2>1. \A q \in Seq(Nat) : q # <<>> =>
             /\ Tail(q) \in Seq(Nat) /\ Len(Tail(q)) = Len(q) - 1
             /\ \A k \in 1 .. Len(q) - 1 : Tail(q)[k] = q[k + 1]
      OBVIOUS
    <2> QED BY <1>1, <1>3, <2>1
  <1>5. /\ w \in Seq(Nat) /\ Len(w) = m - 1 + n
        /\ \A k \in 1 .. m - 1 : w[k] = Tail(s)[k]
        /\ \A k \in 1 .. n : w[m - 1 + k] = r[k]
    BY <1>1, <1>2
  <1> HIDE DEF u, w, m, n
  <1>6. \A k \in 1 .. Len(u) : u[k] = w[k]
    <2> SUFFICES ASSUME NEW k \in 1 .. m + n - 1 PROVE u[k] = w[k]
      BY <1>4
    <2>1. CASE k <= m - 1
      <3>1. k \in 1 .. m - 1 /\ k + 1 \in 1 .. m
        BY <1>1, <2>1
      <3> QED BY <1>1, <1>2, <1>4, <1>5, <3>1
    <2>2. CASE ~(k <= m - 1)
      <3>1. PICK j \in 1 .. n : k = m - 1 + j /\ k + 1 = m + j
        <4>1. k - (m - 1) \in 1 .. n
          BY <1>1, <2>2
        <4>2. k = m - 1 + (k - (m - 1)) /\ k + 1 = m + (k - (m - 1))
          BY <1>1
        <4> QED BY <4>1, <4>2
      <3> QED BY <1>1, <1>4, <1>5, <3>1
    <2> QED BY <2>1, <2>2
  <1>7. u = w
    BY <1>1, <1>4, <1>5, <1>6, SameSequence
  <1>8. 1 \in 1 .. m
    BY <1>1
  <1> QED BY <1>1, <1>2, <1>3, <1>7, <1>8 DEF u, v, w

(* The first element of the front block leaves. *)
LEMMA QueueShrinks ==
  ASSUME IInv, IInv', UNCHANGED <<frontBlock, tailBlock>>, Linked \subseteq Linked',
         Elements(frontBlock) # <<>>, Elements(frontBlock)' = Tail(Elements(frontBlock)),
         \A b \in Linked : /\ blocks'[b].next = blocks[b].next
                           /\ b # frontBlock => Elements(b)' = Elements(b)
  PROVE  Queue # <<>> /\ Queue' = Tail(Queue) /\ Head(Queue) = Head(Elements(frontBlock))
  <1>1. PICK K : \E f : Chain(K, f) /\ OneWay(K)
    BY ChainThere
  <1>2. PICK f : Chain(K, f) /\ OneWay(K)
    BY <1>1
  <1>3. PICK a : a = frontBlock
    OBVIOUS
  <1> DEFINE g == [b \in K |-> IF b = a THEN Tail(f[b]) ELSE f[b]]
  <1>4. /\ K \subseteq Linked /\ frontBlock \in K /\ tailBlock \in K /\ a \in K
        /\ \A b \in K : f[b] \in Seq(Nat)
        /\ f[tailBlock] = Elements(tailBlock)
        /\ \A b \in K \ {tailBlock} :
              /\ blocks[b].next \in K /\ blocks[b].next # a
              /\ f[b] = Elements(b) \o f[blocks[b].next]
    BY <1>2, <1>3 DEF Chain, Joins, OneWay
  <1>5. /\ g[a] = Tail(f[a])
        /\ \A b \in K : b # a => g[b] = f[b]
    BY <1>4
  <1> HIDE DEF g
  <1>6. Elements(a) \in Seq(Nat) /\ Elements(a) # <<>> /\ Elements(a)' = Tail(Elements(a))
    <2>1. a \in 1 .. Len(blocks) /\ TypeOK
      BY <1>3 DEF IInv, TypeOK
    <2> QED BY <1>3, <2>1, ElementsAreNumbers
  <1>7. f[a] # <<>> /\ Head(f[a]) = Head(Elements(a)) /\ Tail(f[a]) \in Seq(Nat)
    <2>1. CASE a = tailBlock
      <3>1. f[a] = Elements(a)
        BY <1>4, <2>1
      <3>2. \A s \in Seq(Nat) : s # <<>> => Tail(s) \in Seq(Nat)
        OBVIOUS
      <3> QED BY <1>6, <3>1, <3>2
    <2>2. CASE a # tailBlock
      <3>1. f[a] = Elements(a) \o f[blocks[a].next] /\ f[blocks[a].next] \in Seq(Nat)
        BY <1>4, <2>2
      <3>2. \A s \in Seq(Nat) : s # <<>> => Tail(s) \in Seq(Nat)
        OBVIOUS
      <3>3. f[a] \in Seq(Nat)
        BY <1>4
      <3> QED BY <1>6, <3>1, <3>2, <3>3, TailOfConcatenation
    <2> QED BY <2>1, <2>2
  <1>8. ASSUME NEW b \in K, b # tailBlock
        PROVE  blocks'[b].next \in K /\ g[b] = Elements(b)' \o g[blocks'[b].next]
    <2>1. /\ blocks'[b].next = blocks[b].next /\ blocks[b].next \in K
          /\ g[blocks[b].next] = f[blocks[b].next] /\ f[blocks[b].next] \in Seq(Nat)
          /\ f[b] = Elements(b) \o f[blocks[b].next]
      BY <1>4, <1>5, <1>8
    <2>2. CASE b = a
      <3>1. PICK r \in Seq(Nat) : r = f[blocks[b].next]
        BY <2>1
      <3>2. f[a] = Elements(a) \o r
        BY <2>1, <2>2, <3>1
      <3>3. Tail(f[a]) = Tail(Elements(a)) \o r
        BY <1>6, <3>2, TailOfConcatenation
      <3>4. g[b] = Elements(b)' \o r
        BY <1>5, <1>6, <2>2, <3>3
      <3> QED BY <2>1, <3>1, <3>4
    <2>3. CASE b # a
      BY <1>3, <1>4, <1>5, <2>1, <2>3
    <2> QED BY <2>2, <2>3
  <1>9. g[tailBlock] = Elements(tailBlock)'
    <2>1. CASE a = tailBlock
      BY <1>4, <1>5, <1>6, <2>1
    <2>2. CASE a # tailBlock
      <3>1. PICK c \in K : c = tailBlock
        BY <1>4
      <3>2. g[c] = f[c] /\ f[c] = Elements(c) /\ Elements(c)' = Elements(c)
        BY <1>3, <1>4, <1>5, <2>2, <3>1
      <3> QED BY <3>1, <3>2
    <2> QED BY <2>1, <2>2
  <1>10. \A b \in K : g[b] \in Seq(Nat)
    BY <1>4, <1>5, <1>7
  <1>11. Chain(K, g)'
    BY <1>4, <1>8, <1>9, <1>10 DEF Chain, Joins
  <1>12. Queue = f[a] /\ Queue' = g[a]
    BY <1>2, <1>3, <1>11, ChainIsQueue, ChainIsQueueNext
  <1> QED BY <1>3, <1>5, <1>7, <1>12

(* try_dequeue takes the first element. *)
LEMMA ReleasesTakes ==
  ASSUME IInv, IInv', Written, Told, DequeueReleases
  PROVE  Written' /\ Told' /\ Contents!Next /\ Queue # <<>> /\ Queue' = Tail(Queue)
  <1> DEFINE b == frontBlock
             r == blocks[frontBlock]
             u == After(frontBlock, consumer.at)
  <1>1. /\ consumer.pc = "release" /\ consumer.block = b /\ consumer.at = r.front
        /\ b \in 1 .. Len(blocks) /\ TypeOK /\ TypeOK' /\ ~Empty(b)
    BY FrontHasElement DEF DequeueReleases, IInv, TypeOK
  <1>2. /\ blocks' = [blocks EXCEPT ![b].front = u]
        /\ consumer'.pc = "idle" /\ taken' = consumer.element
        /\ UNCHANGED <<frontBlock, tailBlock, producer, offered>>
    BY <1>1, IdleIsConsumer DEF DequeueReleases, DequeueReturns, consumerFrame, allocVars
  <1>3. r.front \in 0 .. r.size - 1
    BY <1>1, BlockFacts
  <1>4. u = Follows(r.size, r.front) /\ u \in 0 .. r.size - 1
    BY <1>1, <1>3, AfterIs
  <1> HIDE DEF u
  <1>5. OneChanges(b) /\ blocks'[b].front = u /\ blocks'[b].tail = r.tail
        /\ blocks'[b].next = r.next
    BY <1>1, <1>2, <1>4, StoreFront
  <1>6. \A c \in 1 .. Len(blocks) :
           /\ blocks'[c].tail = blocks[c].tail /\ blocks'[c].next = blocks[c].next
           /\ c # b => blocks'[c].front = blocks[c].front
    BY <1>5 DEF OneChanges
  <1>7. \A c \in 1 .. Len(blocks) : /\ blocks'[c].data = blocks[c].data
                                    /\ blocks'[c].size = blocks[c].size
    BY <1>1, <1>2, IndexStoreKeepsData
  <1>8. Written'
    BY <1>1, <1>2, <1>6, <1>7, ConsumerKeepsWritten
  <1>9. Told'
    BY <1>2 DEF Told
  <1>10. Linked \subseteq Linked' /\ \A c \in Linked : /\ c \in 1 .. Len(blocks)
                                                       /\ c \in 1 .. Len(blocks')
    <2>1. Len(blocks') = Len(blocks)
      BY <1>5 DEF OneChanges
    <2> QED BY <1>2, <2>1, LinkedGrows DEF Linked
  <1>11. ASSUME NEW c \in 1 .. Len(blocks), NEW i \in 0 .. blocks[c].size - 1,
                c # b \/ i # r.front
         PROVE  Values(c)'[i] = Values(c)[i]
    <2>1. Value(c, i) = blocks[c].data[i]
      BY <1>1, <1>11 DEF Value
    <2>2. Value(c, i)' = blocks'[c].data[i]
      BY <1>2 DEF Value
    <2> QED BY <1>7, <2>1, <2>2 DEF Values
  <1>12. \A c \in Linked : c # b => Elements(c)' = Elements(c)
    BY <1>1, <1>6, <1>7, <1>10, <1>11, ElementsStay
  <1>13. Elements(b)' = Tail(Elements(b))
    <2>1. PICK c \in Linked : c = b
      BY EndsAreLinked
    <2>2. /\ c \in 1 .. Len(blocks) /\ c \in 1 .. Len(blocks')
          /\ blocks'[c].size = blocks[c].size /\ blocks'[c].tail = blocks[c].tail
          /\ blocks'[c].front = Follows(blocks[c].size, blocks[c].front) /\ ~Empty(c)
      BY <1>1, <1>4, <1>5, <1>7, <1>10, <2>1
    <2>3. \A i \in 0 .. blocks[c].size - 1 :
             i # blocks[c].front => Values(c)'[i] = Values(c)[i]
      BY <1>11, <2>1, <2>2
    <2>4. Elements(c)' = Tail(Elements(c))
      BY <1>1, <2>2, <2>3, ElementRemoved
    <2> QED BY <1>2, <2>1, <2>4
  <1>14. Elements(b) # <<>> /\ Head(Elements(b)) = consumer.element
    <2>1. Elements(b) # <<>> /\ Head(Elements(b)) = Values(b)[r.front]
      BY <1>1, FirstElement
    <2>2. Values(b)[r.front] = consumer.element
      BY <1>1, <1>3 DEF Values, Value
    <2> QED BY <2>1, <2>2
  <1>15. Queue # <<>> /\ Queue' = Tail(Queue) /\ Head(Queue) = Head(Elements(b))
    BY <1>2, <1>6, <1>10, <1>12, <1>13, <1>14, QueueShrinks
  <1> QED BY <1>2, <1>8, <1>9, <1>14, <1>15 DEF Contents!Next, Contents!Take

----------------------------------------------------------------------------
(* The destructor                                                            *)

(* Behind the tail block there is nothing to destroy. *)
LEMMA AllRemains ==
  ASSUME IInv, producer.pc = "idle"
  PROVE  Remaining = Queue
  <1>1. PICK n \in Nat : \E pos \in [Linked -> Int] : InCircle(n, pos) /\ Occupied(pos)
    BY DEF IInv, Circle
  <1>2. PICK pos \in [Linked -> Int] : InCircle(n, pos) /\ Occupied(pos)
    BY <1>1
  <1>3. PICK h : ReadsRound(h) /\ Remaining = h[frontBlock]
    BY RemainingReads
  <1>4. PICK K : \E f : Chain(K, f) /\ OneWay(K)
    BY ChainThere
  <1>5. K \subseteq Linked /\ frontBlock \in K /\ tailBlock \in K
        /\ \A b \in K \ {tailBlock} : blocks[b].next \in K /\ blocks[b].next # frontBlock
    BY <1>4 DEF Chain, Joins, OneWay
  <1>6. /\ TypeOK /\ \A b \in Linked : b \in 1 .. Len(blocks)
        /\ DOMAIN blocks = 1 .. Len(blocks)
    BY DEF IInv, TypeOK, Linked
  <1>7. \A b \in Linked : h[b] = IF blocks[b].next = frontBlock THEN Elements(b)
                                 ELSE Elements(b) \o h[blocks[b].next]
    BY <1>3, <1>6 DEF ReadsRound
  <1> DEFINE t == pos[tailBlock]
             T == {k \in Nat : \E b \in Linked : n - 1 - pos[b] = k /\ t < pos[b] /\ h[b] # <<>>}
  <1>8. /\ \A b \in Linked : pos[b] \in 0 .. n - 1 /\ n - 1 - pos[b] \in Nat
        /\ \A b \in Linked : blocks[b].next # frontBlock =>
               blocks[b].next \in Linked /\ pos[blocks[b].next] = pos[b] + 1
        /\ tailBlock \in Linked /\ t \in 0 .. n - 1
    BY <1>2, <1>5 DEF InCircle
  <1>9. T = {}
    <2> SUFFICES ASSUME T # {} PROVE FALSE
      OBVIOUS
    <2>1. PICK k \in T : \A j \in T : k <= j
      BY LeastNatural
    <2>2. PICK b \in Linked : n - 1 - pos[b] = k /\ t < pos[b] /\ h[b] # <<>>
      BY <2>1
    <2>3. Elements(b) = <<>>
      <3>1. Empty(b)
        BY <1>2, <2>2 DEF Occupied
      <3> QED BY <1>6, <3>1, NoElements
    <2>4. blocks[b].next # frontBlock /\ h[b] = <<>> \o h[blocks[b].next]
      BY <1>7, <2>2, <2>3
    <2> DEFINE c == blocks[b].next
    <2>5. c \in Linked /\ pos[c] = pos[b] + 1
      BY <1>8, <2>4
    <2>6. n - 1 - pos[c] \in Nat /\ ~(k <= n - 1 - pos[c]) /\ t < pos[c]
      BY <1>8, <2>2, <2>5
    <2>7. (n - 1 - pos[c]) \notin T
      BY <2>1, <2>6
    <2>8. h[c] = <<>>
      BY <2>5, <2>6, <2>7
    <2>9. <<>> \o <<>> = <<>>
      OBVIOUS
    <2> QED BY <2>2, <2>4, <2>8, <2>9
  <1>10. h[tailBlock] = Elements(tailBlock)
    <2>1. CASE blocks[tailBlock].next = frontBlock
      BY <1>7, <1>8, <2>1
    <2>2. CASE blocks[tailBlock].next # frontBlock
      <3> DEFINE c == blocks[tailBlock].next
      <3>1. c \in Linked /\ pos[c] = t + 1 /\ t < pos[c] /\ n - 1 - pos[c] \in Nat
        BY <1>8, <2>2
      <3>2. h[c] = <<>>
        <4>1. (n - 1 - pos[c]) \notin T
          BY <1>9
        <4> QED BY <3>1, <4>1
      <3>3. Elements(tailBlock) \in Seq(Nat)
        BY <1>6, <1>8, ElementsAreNumbers
      <3>4. \A s \in Seq(Nat) : s \o <<>> = s
        OBVIOUS
      <3> QED BY <1>7, <1>8, <2>2, <3>2, <3>3, <3>4
    <2> QED BY <2>1, <2>2
  <1>11. Joins(K, h)
    BY <1>5, <1>7, <1>10 DEF Joins
  <1> QED BY <1>3, <1>11, JoinedIsQueue

LEMMA DestroyTakesNothing ==
  ASSUME IInv, IInv', Written, Told, Destroy
  PROVE  Written' /\ Told' /\ Gone' /\ UNCHANGED <<Queue, taken>>
  <1>1. /\ producer.pc = "idle" /\ consumer.pc = "idle"
        /\ producer'.pc = "gone" /\ consumer'.pc = "gone" /\ destroyed' = ToSet(Remaining)
        /\ UNCHANGED <<blocks, frontBlock, tailBlock, offered, taken>>
    BY DEF Destroy, IInv, TypeOK, Producer, Consumer
  <1>2. Written' /\ Told'
    BY <1>1 DEF Written, Told
  <1>3. Queue' = Queue
    <2>1. Linked \subseteq Linked'
      BY <1>1, LinkedGrows
    <2>2. \A c \in Linked : Values(c)' = Values(c)
      BY <1>1, ValuesStay
    <2> QED BY <1>1, <2>1, <2>2, QuietStep
  <1>4. Gone'
    BY <1>1, <1>3, AllRemains DEF Gone
  <1> QED BY <1>1, <1>2, <1>3, <1>4

----------------------------------------------------------------------------
(* The queue is a fifo                                                       *)

Inv == IInv /\ Written /\ Told /\ Gone

LEMMA InitContents == Init => Inv /\ Contents!Init
  <1> SUFFICES ASSUME Init PROVE Inv /\ Contents!Init
    OBVIOUS
  <1>1. IInv
    BY InitIInv
  <1>2. /\ producer.pc = "idle" /\ consumer.pc = "idle" /\ frontBlock = tailBlock
        /\ taken = 0
    BY IdleIsProducer, IdleIsConsumer DEF Init
  <1>3. Written /\ Told /\ Gone
    BY <1>2 DEF Written, Told, Gone
  <1>4. Queue = <<>>
    <2>1. PICK count \in Nat \ {0}, capacity \in Nat :
             blocks = [b \in 1 .. count |-> make_block(capacity, IF b = count THEN 1 ELSE b + 1)]
      BY InitialCircle, SizeIsPositive DEF Init
    <2>2. blocks[1] = make_block(capacity, IF 1 = count THEN 1 ELSE 1 + 1)
      BY <2>1
    <2>3. Empty(frontBlock)
      BY <2>2 DEF Init, Empty, make_block
    <2> QED BY <1>1, <1>2, <2>3, EmptyQueue
  <1> QED BY <1>1, <1>2, <1>3, <1>4 DEF Inv, Contents!Init

(* No one but the destructor leaves. *)
LEMMA StepsStay ==
  ASSUME IInv
  PROVE  /\ EnqueueStart \/ EnqueueStep =>
                /\ producer.pc # "gone" /\ producer'.pc # "gone"
                /\ UNCHANGED <<consumer, destroyed>>
         /\ (\E call \in {"try_dequeue", "peek"} : DequeueStart(call)) \/ DequeueStep =>
                /\ consumer.pc # "gone" /\ consumer'.pc # "gone"
                /\ UNCHANGED <<producer, destroyed>>
  <1>1. producer \in Producer /\ consumer \in Consumer
    BY DEF IInv, TypeOK
  <1>2. ASSUME EnqueueStart \/ EnqueueStep
        PROVE  /\ producer.pc # "gone" /\ producer'.pc # "gone"
               /\ UNCHANGED <<consumer, destroyed>>
    <2>1. CASE EnqueueStart
      BY <2>1 DEF EnqueueStart, producerFrame, IdleProducer
    <2>2. CASE EnqueueStep
      <3>1. \/ EnqueueRereadsFront \/ EnqueueFills \/ EnqueueLooksAhead
            \/ EnqueueTakesNext \/ EnqueuePublishesInNext \/ EnqueueAllocates \/ EnqueueLinks
            => /\ producer.pc # "gone" /\ producer'.pc # "gone"
               /\ UNCHANGED <<consumer, destroyed>>
        BY <1>1, IdleIsProducer
           DEF EnqueueRereadsFront, EnqueueFills, EnqueueLooksAhead, EnqueueTakesNext,
               EnqueuePublishesInNext, EnqueueAllocates, EnqueueLinks, EnqueueReturns,
               producerFrame, Producer
      <3>2. EnqueuePublishes \/ EnqueueCannotAllocate \/ EnqueueAdvances
            => /\ producer.pc # "gone" /\ producer'.pc # "gone"
               /\ UNCHANGED <<consumer, destroyed>>
        BY IdleIsProducer
           DEF EnqueuePublishes, EnqueueCannotAllocate, EnqueueAdvances, EnqueueReturns,
               producerFrame
      <3> QED BY <2>2, <3>1, <3>2 DEF EnqueueStep
    <2> QED BY <1>2, <2>1, <2>2
  <1>3. ASSUME (\E call \in {"try_dequeue", "peek"} : DequeueStart(call)) \/ DequeueStep
        PROVE  /\ consumer.pc # "gone" /\ consumer'.pc # "gone"
               /\ UNCHANGED <<producer, destroyed>>
    <2>1. CASE \E call \in {"try_dequeue", "peek"} : DequeueStart(call)
      BY <2>1 DEF DequeueStart, consumerFrame, IdleConsumer
    <2>2. CASE DequeueStep
      <3>1. \/ DequeueRereadsTail \/ DequeueComparesBlocks \/ DequeueRechecks
            \/ DequeueMoves \/ PeekReturns \/ DequeueTakes \/ DequeueReleases
            => /\ consumer.pc # "gone" /\ consumer'.pc # "gone"
               /\ UNCHANGED <<producer, destroyed>>
        BY <1>1, IdleIsConsumer
           DEF DequeueRereadsTail, DequeueReadsTail, DequeueComparesBlocks, DequeueRechecks,
               DequeueMoves, PeekReturns, DequeueTakes, DequeueReleases, DequeueReturns,
               consumerFrame, Consumer
      <3>2. DequeueLooksAtNext
            => /\ consumer.pc # "gone" /\ consumer'.pc # "gone"
               /\ UNCHANGED <<producer, destroyed>>
        BY <1>1, IdleIsConsumer DEF DequeueLooksAtNext, DequeueReturns, consumerFrame, Consumer
      <3> QED BY <2>2, <3>1, <3>2 DEF DequeueStep
    <2> QED BY <1>3, <2>1, <2>2
  <1> QED BY <1>2, <1>3

LEMMA StutterTakesNothing ==
  ASSUME IInv, IInv', UNCHANGED vars
  PROVE  UNCHANGED Queue
  <1>1. UNCHANGED <<blocks, frontBlock, tailBlock, producer, consumer>>
    BY DEF vars
  <1>2. Linked \subseteq Linked'
    BY <1>1, LinkedGrows
  <1>3. \A c \in Linked : Values(c)' = Values(c)
    BY <1>1, ValuesStay
  <1> QED BY <1>1, <1>2, <1>3, QuietStep

LEMMA StepOfContents ==
  ASSUME IInv, IInv', Written, Told, [Next]_vars
  PROVE  Written' /\ Told' /\ [Contents!Next]_<<Queue, taken>>
  <1>1. CASE UNCHANGED vars
    <2>1. UNCHANGED <<blocks, frontBlock, tailBlock, producer, consumer, offered, taken>>
      BY <1>1 DEF vars
    <2>2. Written' /\ Told'
      BY <2>1 DEF Written, Told, Empty
    <2> QED BY <1>1, <2>1, <2>2, StutterTakesNothing
  <1>2. CASE EnqueueStart \/ EnqueueStep
    <2>1. CASE EnqueueStart \/ EnqueueLooksAhead \/ EnqueueCannotAllocate
      BY <2>1, LooksPutNothing
    <2>2. CASE EnqueueRereadsFront BY <2>2, RereadsFrontPutsNothing
    <2>3. CASE EnqueueFills BY <2>3, FillsPutsNothing
    <2>4. CASE EnqueueTakesNext BY <2>4, TakesNextPutsNothing
    <2>5. CASE EnqueuePublishesInNext BY <2>5, PublishesInNextPutsNothing
    <2>6. CASE EnqueueAllocates BY <2>6, AllocatesPutsNothing
    <2>7. CASE EnqueueLinks BY <2>7, LinksPutsNothing
    <2>8. CASE EnqueuePublishes BY <2>8, PublishesPuts
    <2>9. CASE EnqueueAdvances BY <2>9, AdvancesPuts
    <2> QED BY <1>2, <2>1, <2>2, <2>3, <2>4, <2>5, <2>6, <2>7, <2>8, <2>9 DEF EnqueueStep
  <1>3. CASE (\E call \in {"try_dequeue", "peek"} : DequeueStart(call)) \/ DequeueStep
    <2>1. CASE \E call \in {"try_dequeue", "peek"} : DequeueStart(call)
      BY <2>1, StartTakesNothing
    <2>2. CASE DequeueRereadsTail \/ DequeueRechecks BY <2>2, ReadsTailTakesNothing
    <2>3. CASE DequeueComparesBlocks \/ PeekReturns BY <2>3, ComparesTakesNothing
    <2>4. CASE DequeueLooksAtNext BY <2>4, LooksAtNextTakesNothing
    <2>5. CASE DequeueMoves BY <2>5, MovesTakesNothing
    <2>6. CASE DequeueTakes BY <2>6, TakesTakesNothing
    <2>7. CASE DequeueReleases BY <2>7, ReleasesTakes
    <2> QED BY <1>3, <2>1, <2>2, <2>3, <2>4, <2>5, <2>6, <2>7 DEF DequeueStep
  <1>4. CASE Destroy
    BY <1>4, DestroyTakesNothing
  <1> QED BY <1>1, <1>2, <1>3, <1>4 DEF Next

LEMMA NextKeepsInv ==
  ASSUME Inv, [Next]_vars
  PROVE  Inv' /\ [Contents!Next]_<<Queue, taken>>
  <1>1. IInv /\ Written /\ Told /\ Gone /\ IInv'
    BY NextKeepsIInv DEF Inv
  <1>2. Written' /\ Told' /\ [Contents!Next]_<<Queue, taken>>
    BY <1>1, StepOfContents
  <1>3. Gone'
    <2>1. CASE UNCHANGED vars
      <3>1. Queue' = Queue
        BY <1>1, <2>1, StutterTakesNothing
      <3> QED BY <1>1, <2>1, <3>1 DEF vars, Gone
    <2>2. CASE EnqueueStart \/ EnqueueStep
      BY <1>1, <2>2, StepsStay DEF Gone
    <2>3. CASE (\E call \in {"try_dequeue", "peek"} : DequeueStart(call)) \/ DequeueStep
      BY <1>1, <2>3, StepsStay DEF Gone
    <2>4. CASE Destroy
      BY <1>1, <2>4, DestroyTakesNothing
    <2> QED BY <2>1, <2>2, <2>3, <2>4 DEF Next
  <1> QED BY <1>1, <1>2, <1>3 DEF Inv

LEMMA InvHolds == Spec => []Inv
  BY InitContents, NextKeepsInv, PTL DEF Spec

(* The circle of blocks implements a fifo, whatever the two threads do       *)
(* between each other's steps: nothing is lost, doubled or overtaken when    *)
(* the producer moves to the next block, links a new one into the circle, or *)
(* uses one again that the consumer has left.                                *)
THEOREM QueueIsAFifo == Spec => ImplementsFifo
  <1>1. Init => Inv /\ Contents!Init
    BY InitContents
  <1>2. Inv /\ [Next]_vars => Inv' /\ [Contents!Next]_<<Queue, taken>>
    BY NextKeepsInv
  <1> QED BY <1>1, <1>2, PTL DEF Spec, ImplementsFifo, Contents!Spec

(* The destructor finds every element that is left.                          *)
THEOREM NothingLeaksAtTheEnd == Spec => []NothingLeaks
  <1>1. Inv => NothingLeaks
    BY DEF Inv, Gone, NothingLeaks
  <1> QED BY <1>1, InvHolds, PTL

(* The first element that is read from a block on. *)
LEMMA HeadOfChain ==
  ASSUME IInv, NEW K, NEW f, Chain(K, f), NEW b \in K, ~Empty(b), consumer.pc # "release"
  PROVE  Head(f[b]) = blocks[b].data[blocks[b].front]
  <1>1. /\ b \in 1 .. Len(blocks) /\ TypeOK /\ f[b] \in Seq(Nat)
        /\ b = tailBlock => f[b] = Elements(b)
        /\ b # tailBlock =>
              f[b] = Elements(b) \o f[blocks[b].next] /\ f[blocks[b].next] \in Seq(Nat)
    BY DEF Chain, Joins, Linked, IInv
  <1>2. Elements(b) \in Seq(Nat) /\ Elements(b) # <<>>
        /\ Head(Elements(b)) = Values(b)[blocks[b].front]
    BY <1>1, ElementsAreNumbers, FirstElement
  <1>3. Values(b)[blocks[b].front] = blocks[b].data[blocks[b].front]
    BY <1>1, BlockFacts DEF Values, Value
  <1>4. Head(f[b]) = Head(Elements(b))
    BY <1>1, <1>2, TailOfConcatenation
  <1> QED BY <1>2, <1>3, <1>4

LEMMA AnswersAreTrue ==
  ASSUME Inv, [Next]_vars, consumer.pc # "idle", consumer'.pc = "idle"
  PROVE  /\ consumer.pc = "compare" => consumer.wasEmpty
         /\ consumer.call = "peek" /\ consumer.pc # "compare" => Peeked = Head(Queue)
  <1>1. IInv /\ Told /\ TypeOK /\ consumer \in Consumer
    BY DEF Inv, IInv, TypeOK
  <1>2. DequeueStep
    <2>1. ~UNCHANGED vars
      BY DEF vars
    <2>2. ~(EnqueueStart \/ EnqueueStep)
      BY <1>1, StepsStay
    <2>3. ~(\E call \in {"try_dequeue", "peek"} : DequeueStart(call)) /\ ~Destroy
      BY DEF DequeueStart, Destroy
    <2> QED BY <2>1, <2>2, <2>3 DEF Next
  <1>3. \/ DequeueComparesBlocks /\ consumer.block = tailBlock
        \/ DequeueLooksAtNext \/ PeekReturns \/ DequeueReleases
    <2>1. ~DequeueRereadsTail /\ ~DequeueRechecks
      BY <1>1 DEF DequeueRereadsTail, DequeueRechecks, DequeueReadsTail, Consumer
    <2>2. ~DequeueMoves /\ ~DequeueTakes
      BY <1>1 DEF DequeueMoves, DequeueTakes, Consumer
    <2>3. DequeueComparesBlocks => consumer.block = tailBlock
      BY <1>1 DEF DequeueComparesBlocks, Consumer
    <2> QED BY <1>2, <2>1, <2>2, <2>3 DEF DequeueStep
  <1>4. PICK K : \E f : Chain(K, f) /\ OneWay(K)
    BY <1>1, ChainThere
  <1>5. PICK f : Chain(K, f)
    BY <1>4
  <1>6. Queue = f[frontBlock] /\ frontBlock \in K
    BY <1>1, <1>5, ChainIsQueue DEF Chain, Joins
  <1>7. CASE DequeueComparesBlocks /\ consumer.block = tailBlock
    <2>1. consumer.pc = "compare" /\ frontBlock = tailBlock
      BY <1>1, <1>7 DEF DequeueComparesBlocks, IInv, ConsumerKnows
    <2> QED BY <1>1, <2>1 DEF Told
  <1>8. CASE PeekReturns
    <2>1. /\ consumer.pc = "take" /\ consumer.block = frontBlock
          /\ consumer.at = blocks[frontBlock].front /\ ~Empty(frontBlock)
      BY <1>1, <1>8, FrontHasElement DEF PeekReturns
    <2>2. Head(f[frontBlock]) = blocks[frontBlock].data[blocks[frontBlock].front]
      BY <1>1, <1>5, <1>6, <2>1, HeadOfChain
    <2> QED BY <1>6, <2>1, <2>2 DEF Peeked, ElementAtHand
  <1>9. CASE DequeueLooksAtNext
    <2> DEFINE b == blocks[frontBlock].next
    <2>1. /\ consumer.pc = "peekNext" /\ consumer.block = frontBlock
          /\ frontBlock # tailBlock /\ Empty(frontBlock)
          /\ frontBlock \in 1 .. Len(blocks)
      BY <1>1, <1>9 DEF DequeueLooksAtNext, IInv, ConsumerKnows, TypeOK
    <2>2. b \in K /\ f[frontBlock] = Elements(frontBlock) \o f[b] /\ f[b] \in Seq(Nat)
      BY <1>5, <1>6, <2>1 DEF Chain, Joins
    <2>3. Elements(frontBlock) = <<>> /\ \A s \in Seq(Nat) : <<>> \o s = s
      BY <1>1, <2>1, NoElements
    <2>4. Head(f[b]) = blocks[b].data[blocks[b].front]
      BY <1>1, <1>5, <2>1, <2>2, NextIsOccupied, HeadOfChain
    <2>5. Peeked = blocks[b].data[blocks[b].front]
      BY <2>1 DEF Peeked
    <2> QED BY <1>6, <2>1, <2>2, <2>3, <2>4, <2>5
  <1>10. CASE DequeueReleases
    BY <1>1, <1>10 DEF DequeueReleases, Told
  <1> QED BY <1>3, <1>7, <1>8, <1>9, <1>10

(* What try_dequeue and peek answer is true: there was no element when they  *)
(* were called, or peek points at the one that leaves next.                  *)
THEOREM ConsumerIsToldTrue == Spec => ConsumerIsToldTheTruth
  <1>1. Inv /\ [Next]_vars =>
           [consumer.pc # "idle" /\ consumer'.pc = "idle" =>
               /\ consumer.pc = "compare" => consumer.wasEmpty
               /\ consumer.call = "peek" /\ consumer.pc # "compare" =>
                      Peeked = Head(Queue)]_vars
    BY AnswersAreTrue
  <1> QED BY <1>1, InvHolds, PTL DEF Spec, ConsumerIsToldTheTruth

----------------------------------------------------------------------------
(* The third invariant: where the queue is full                              *)

(* A block with only the place that stays free.                              *)
Full(b) == Ahead(blocks[b].size, blocks[b].front, blocks[b].tail) = blocks[b].size - 1

(* The producer has found its tail block full and is about to go on.         *)
PastFull == {"look", "takeNext", "publishNext", "allocate", "link", "advance"}

(* The producer leaves only full blocks behind, and the consumer only empty  *)
(* ones: from the front to the tail block there are none in between.         *)
Packed ==
    /\ \A b \in Linked \ {frontBlock, tailBlock} :
          Empty(b) \/ Full(b) \/ (producer.pc = "advance" /\ b = producer.next)
    /\ producer.pc \in PastFull /\ frontBlock # tailBlock => Full(tailBlock)

(* The block after b in a circle of n of them.                               *)
Onward(n, b) == IF b = n THEN 1 ELSE b + 1

(* Without enqueue the circle is the one the constructor has built.          *)
Room ==
    /\ size \in Nat
    /\ ~canAlloc =>
           /\ producer.pc \notin {"allocate", "link"}
           /\ \A b \in 1 .. Len(blocks) :
                 /\ blocks[b].next = Onward(Len(blocks), b)
                 /\ blocks[b].size = blocks[1].size
           /\ Holds(Len(blocks), blocks[1].size) >= size

(* A producer that has found, or is about to find, no free place was called  *)
(* when the queue was full.                                                  *)
Warned ==
    /\ producer.pc \notin {"idle", "gone"} /\ Len(Queue) >= size => producer.wasFull
    /\ producer.pc = "look" /\ Len(blocks) = 1 /\ ~canAlloc => producer.wasFull

----------------------------------------------------------------------------
(* How much is in a full circle                                              *)

LEMMA ElementCount ==
  ASSUME TypeOK, NEW b \in 1 .. Len(blocks)
  PROVE  /\ Elements(b) \in Seq(Nat)
         /\ Len(Elements(b)) = Ahead(blocks[b].size, blocks[b].front, blocks[b].tail)
  BY ElementsAreListed DEF Lists

LEMMA JoinedLength ==
  \A s, r \in Seq(Nat) : Len(s \o r) = Len(s) + Len(r) /\ Len(s) \in Nat /\ Len(r) \in Nat
  OBVIOUS

(* Along a circle of n blocks the way to t gets shorter.                     *)
LEMMA WayToTail ==
  ASSUME NEW n \in Nat, n > 1, NEW t \in 1 .. n
  PROVE  \A b \in 1 .. n :
            /\ Ahead(n, b, t) \in 0 .. n - 1
            /\ b # t => Ahead(n, Onward(n, b), t) = Ahead(n, b, t) - 1
            /\ b = Onward(n, t) => Ahead(n, b, t) = n - 1 /\ b # t
  BY DEF Ahead, Onward

(* All blocks but the front one are full when the block behind the tail is   *)
(* the front block.                                                          *)
LEMMA FullCircle ==
  ASSUME IInv, Packed, Room, ~canAlloc, producer.pc = "look",
         blocks[tailBlock].next = frontBlock, Len(blocks) > 1
  PROVE  Len(Queue) >= size
  <1> DEFINE n == Len(blocks)
             m == blocks[1].size - 1
             t == tailBlock
             way(b) == Ahead(n, b, t)
  <1>1. PICK K : \E f : Chain(K, f) /\ OneWay(K) /\ Stocked(K)
    BY ChainThere
  <1>2. PICK f : Chain(K, f) /\ OneWay(K) /\ Stocked(K)
    BY <1>1
  <1>3. /\ TypeOK /\ n \in Nat /\ n > 1 /\ t \in 1 .. n /\ frontBlock \in 1 .. n
        /\ frontBlock \in K /\ t \in K /\ K \subseteq 1 .. n /\ K \subseteq Linked
    BY <1>2 DEF IInv, TypeOK, Chain, Joins, Linked
  <1>4. /\ m \in Nat /\ m >= 1 /\ \A b \in 1 .. n : blocks[b].size - 1 = m
        /\ \A b \in 1 .. n : blocks[b].next = Onward(n, b)
    BY <1>3, BlockFacts DEF Room
  <1>5. /\ \A b \in 1 .. n : way(b) \in 0 .. n - 1
        /\ \A b \in 1 .. n : b # t => way(blocks[b].next) = way(b) - 1
        /\ way(frontBlock) = n - 1 /\ frontBlock # t
    <2>1. frontBlock = Onward(n, t)
      BY <1>3, <1>4
    <2> HIDE DEF n, t
    <2>2. n \in Nat /\ n > 1 /\ t \in 1 .. n
      BY <1>3
    <2>3. \A b \in 1 .. n :
             /\ way(b) \in 0 .. n - 1
             /\ b # t => way(Onward(n, b)) = way(b) - 1
             /\ b = Onward(n, t) => way(b) = n - 1 /\ b # t
      BY <2>2, WayToTail
    <2> HIDE DEF way
    <2>4. \A b \in 1 .. n : b # t => way(blocks[b].next) = way(b) - 1
      BY <1>4, <2>3
    <2> QED BY <1>3, <2>1, <2>3, <2>4
  <1>6. \A b \in K \ {frontBlock} : Elements(b) \in Seq(Nat) /\ Len(Elements(b)) = m
    <2> SUFFICES ASSUME NEW b \in K, b # frontBlock
                 PROVE  Elements(b) \in Seq(Nat) /\ Len(Elements(b)) = m
      OBVIOUS
    <2>1. Full(b)
      <3>1. b # t => Full(b)
        BY <1>2, <1>3 DEF Packed, Stocked
      <3>2. Full(t)
        BY <1>5 DEF Packed, PastFull
      <3> QED BY <3>1, <3>2
    <2> QED BY <1>3, <1>4, <2>1, ElementCount DEF Full
  <1>7. /\ \A b \in K : f[b] \in Seq(Nat) /\ Len(f[b]) \in Nat
        /\ f[t] = Elements(t)
        /\ \A b \in K \ {t} : /\ blocks[b].next \in K /\ blocks[b].next # frontBlock
                              /\ f[b] = Elements(b) \o f[blocks[b].next]
    BY <1>2 DEF Chain, Joins, OneWay
  <1> HIDE DEF n, m, t, way
  <1>8. \A b \in K : b \in 1 .. n /\ way(b) \in Nat
    BY <1>3, <1>5
  <1>9. \A b \in K \ {frontBlock} : Len(f[b]) >= (way(b) + 1) * m
    <2> DEFINE T == {k \in Nat : \E b \in K \ {frontBlock} :
                                    way(b) = k /\ ~(Len(f[b]) >= (way(b) + 1) * m)}
    <2>1. T = {}
      <3> SUFFICES ASSUME T # {} PROVE FALSE
        OBVIOUS
      <3>1. PICK k \in T : \A j \in T : k <= j
        BY LeastNatural
      <3>2. PICK b \in K \ {frontBlock} : way(b) = k /\ ~(Len(f[b]) >= (way(b) + 1) * m)
        BY <3>1
      <3>3. k \in Nat
        BY <3>1
      <3>4. CASE b = t
        <4>1. Len(f[b]) = m
          BY <1>3, <1>5, <1>6, <1>7, <3>4
        <4>2. way(b) = 0
          BY <1>3, <3>4 DEF way, Ahead
        <4>3. (0 + 1) * m = m
          BY <1>4
        <4> QED BY <1>4, <3>2, <4>1, <4>2, <4>3
      <3>5. CASE b # t
        <4> DEFINE c == blocks[b].next
        <4>1. c \in K \ {frontBlock} /\ way(c) = k - 1 /\ f[b] = Elements(b) \o f[c]
          BY <1>3, <1>5, <1>7, <3>2, <3>5
        <4> HIDE DEF c
        <4>2. way(c) \in Nat
          BY <1>8, <4>1
        <4>3. Len(f[c]) >= (way(c) + 1) * m
          <5>1. ~(k <= way(c))
            BY <3>3, <4>1
          <5>2. way(c) \notin T
            BY <3>1, <5>1
          <5> QED BY <4>1, <4>2, <5>2
        <4>4. Len(f[b]) = m + Len(f[c])
          <5>1. Elements(b) \in Seq(Nat) /\ Len(Elements(b)) = m /\ f[c] \in Seq(Nat)
            BY <1>6, <1>7, <3>2, <4>1
          <5>2. Len(Elements(b) \o f[c]) = Len(Elements(b)) + Len(f[c])
            BY <5>1, JoinedLength
          <5> QED BY <4>1, <5>1, <5>2
        <4>5. (k - 1 + 1) * m + m = (k + 1) * m
          BY <1>4, <3>3
        <4>6. Len(f[c]) \in Nat
          BY <1>7, <4>1
        <4>7. Len(f[c]) >= (k - 1 + 1) * m
          BY <4>1, <4>3
        <4>8. Len(f[b]) >= (k + 1) * m
          <5> DEFINE x == (k - 1 + 1) * m
                     y == (k + 1) * m
                     l == Len(f[c])
          <5>1. x \in Int /\ y \in Int /\ x + m = y /\ l \in Nat /\ l >= x
            BY <1>4, <3>3, <4>5, <4>6, <4>7
          <5> HIDE DEF x, y, l
          <5>2. m + l >= y
            BY <1>4, <5>1
          <5> QED BY <4>4, <5>2 DEF y, l
        <4> QED BY <3>2, <4>8
      <3> QED BY <3>4, <3>5
    <2> QED BY <1>8, <2>1
  <1>10. Len(f[frontBlock]) >= (n - 1) * m
    <2> DEFINE c == blocks[frontBlock].next
    <2>1. c \in K \ {frontBlock} /\ way(c) = n - 2
          /\ f[frontBlock] = Elements(frontBlock) \o f[c]
      <3>1. frontBlock \in K \ {t} /\ frontBlock \in 1 .. n
        BY <1>3, <1>5
      <3>2. c \in K \ {frontBlock} /\ f[frontBlock] = Elements(frontBlock) \o f[c]
        BY <1>7, <3>1
      <3>3. way(c) = n - 1 - 1
        BY <1>5, <3>1
      <3> QED BY <1>3, <3>2, <3>3
    <2> HIDE DEF c
    <2>2. Len(f[c]) >= (n - 2 + 1) * m
      BY <1>9, <2>1
    <2>3. Len(f[frontBlock]) >= Len(f[c])
      <3>1. Elements(frontBlock) \in Seq(Nat)
        BY <1>3, ElementCount DEF n
      <3>2. Len(f[frontBlock]) = Len(Elements(frontBlock)) + Len(f[c])
            /\ Len(Elements(frontBlock)) \in Nat /\ Len(f[c]) \in Nat
        BY <1>7, <2>1, <3>1, JoinedLength
      <3> QED BY <3>2
    <2>4. n - 2 + 1 = n - 1
      BY <1>3
    <2>5. Len(f[c]) \in Nat /\ Len(f[frontBlock]) \in Nat /\ (n - 1) * m \in Int
      BY <1>3, <1>4, <1>7, <2>1
    <2> QED BY <2>2, <2>3, <2>4, <2>5
  <1>11. Queue = f[frontBlock]
    BY <1>2, ChainIsQueue
  <1>12. (n - 1) * m >= size
    BY <1>3, <1>4 DEF Room, Holds, n, m
  <1>13. size \in Nat /\ (n - 1) * m \in Int /\ Len(Queue) \in Nat
    BY <1>3, <1>4, <1>7, <1>11 DEF Room
  <1> DEFINE x == (n - 1) * m
             l == Len(Queue)
  <1>14. l >= x /\ x >= size /\ size \in Nat /\ x \in Int /\ l \in Nat
    BY <1>10, <1>11, <1>12, <1>13
  <1> HIDE DEF x, l
  <1>15. l >= size
    BY <1>14
  <1> QED BY <1>15 DEF l

----------------------------------------------------------------------------
(* Steps that change no front, no tail and no circle                         *)

SameMarks ==
    /\ Len(blocks') = Len(blocks)
    /\ \A c \in 1 .. Len(blocks) :
          /\ blocks'[c].front = blocks[c].front /\ blocks'[c].tail = blocks[c].tail
          /\ blocks'[c].next = blocks[c].next /\ blocks'[c].size = blocks[c].size

LEMMA MarksDecide ==
  ASSUME SameMarks
  PROVE  \A c \in 1 .. Len(blocks) : (Full(c)' <=> Full(c)) /\ (Empty(c)' <=> Empty(c))
  BY DEF SameMarks, Full, Empty

LEMMA RoomStays ==
  ASSUME IInv, Room, Len(blocks') = Len(blocks), UNCHANGED <<size, canAlloc>>,
         ~canAlloc => /\ producer'.pc \notin {"allocate", "link"}
                      /\ \A c \in 1 .. Len(blocks) : /\ blocks'[c].next = blocks[c].next
                                                     /\ blocks'[c].size = blocks[c].size
  PROVE  Room'
  <1>1. Len(blocks) \in Nat /\ 1 \in 1 .. Len(blocks)
    BY DEF IInv, TypeOK
  <1> QED BY <1>1 DEF Room

LEMMA MarksStay ==
  ASSUME IInv, Packed, SameMarks, UNCHANGED <<frontBlock, tailBlock>>,
         producer' = producer \/ {producer.pc, producer'.pc} \cap {"link", "advance"} = {},
         producer'.pc \in PastFull => producer.pc \in PastFull \/ Full(tailBlock)
  PROVE  Packed'
  <1>1. Linked' = Linked /\ \A c \in Linked : c \in 1 .. Len(blocks)
    BY DEF Linked, SameMarks
  <1>2. tailBlock \in 1 .. Len(blocks)
    BY DEF IInv, TypeOK
  <1>3. \A c \in 1 .. Len(blocks) : (Full(c)' <=> Full(c)) /\ (Empty(c)' <=> Empty(c))
    BY MarksDecide
  <1>4. \A c \in Linked \ {frontBlock, tailBlock} :
           Empty(c)' \/ Full(c)' \/ (producer'.pc = "advance" /\ c = producer'.next)
    BY <1>1, <1>3 DEF Packed
  <1>5. producer'.pc \in PastFull /\ frontBlock # tailBlock => Full(tailBlock)'
    BY <1>2, <1>3 DEF Packed
  <1> QED BY <1>1, <1>4, <1>5 DEF Packed

LEMMA SameBlocksSameMarks == UNCHANGED blocks => SameMarks
  BY DEF SameMarks

LEMMA LooksKeepFull ==
  ASSUME IInv, Packed, Room, EnqueueStart \/ EnqueueLooksAhead \/ EnqueueCannotAllocate
  PROVE  Packed' /\ Room'
  <1>1. producer \in Producer
    BY DEF IInv, TypeOK
  <1>2. /\ UNCHANGED <<blocks, frontBlock, tailBlock, size, canAlloc>>
        /\ producer.pc \in {"idle", "look", "allocate"}
        /\ producer'.pc \in {"fill", "reread", "takeNext", "allocate", "idle"}
        /\ producer'.pc \in {"takeNext", "allocate"} => producer.pc = "look"
        /\ producer'.pc = "allocate" => canAlloc
    <2>1. CASE EnqueueStart
      BY <2>1 DEF EnqueueStart, IdleProducer, producerFrame
    <2>2. CASE EnqueueLooksAhead
      BY <1>1, <2>2, IdleIsProducer DEF EnqueueLooksAhead, EnqueueReturns, producerFrame, Producer
    <2>3. CASE EnqueueCannotAllocate
      BY <2>3, IdleIsProducer DEF EnqueueCannotAllocate, EnqueueReturns, producerFrame
    <2> QED BY <2>1, <2>2, <2>3
  <1>3. Room'
    BY <1>2, RoomStays
  <1>4. Packed'
    BY <1>2, SameBlocksSameMarks, MarksStay DEF PastFull
  <1> QED BY <1>3, <1>4

LEMMA RereadsKeepFull ==
  ASSUME IInv, Packed, Room, EnqueueRereadsFront
  PROVE  /\ Packed' /\ Room'
         /\ producer'.pc \in {"fill", "look"}
         /\ producer'.pc = "look" => Full(tailBlock)
  <1> DEFINE b == tailBlock
             r == blocks[tailBlock]
             u == After(tailBlock, producer.at)
  <1>1. /\ producer.pc = "reread" /\ producer.block = b /\ producer.at = r.tail
        /\ b \in 1 .. Len(blocks) /\ producer \in Producer /\ TypeOK
    BY DEF EnqueueRereadsFront, IInv, ProducerKnows, TypeOK
  <1>2. /\ blocks' = [blocks EXCEPT ![b].localFront = r.front]
        /\ producer'.pc \in {"fill", "look"}
        /\ producer'.pc = "look" => u = r.front
        /\ UNCHANGED <<frontBlock, tailBlock, size, canAlloc>>
    BY <1>1 DEF EnqueueRereadsFront, producerFrame, Producer
  <1>3. /\ r.size \in Nat /\ r.size >= 2
        /\ r.front \in 0 .. r.size - 1 /\ r.tail \in 0 .. r.size - 1
    BY <1>1, BlockFacts
  <1>4. u = Follows(r.size, r.tail)
    BY <1>1, <1>3, AfterIs
  <1>5. producer'.pc = "look" => Full(tailBlock)
    <2> HIDE DEF u, r
    <2>1. u = r.front => Ahead(r.size, r.front, r.tail) = r.size - 1
      BY <1>3, <1>4 DEF Follows, Ahead
    <2> QED BY <1>2, <2>1 DEF Full, r
  <1> HIDE DEF u
  <1>6. SameMarks
    <2>1. /\ OneChanges(b) /\ blocks'[b].front = r.front /\ blocks'[b].tail = r.tail
          /\ blocks'[b].next = r.next
      BY <1>1, <1>2, <1>3, StoreLocalFront
    <2> QED BY <2>1 DEF OneChanges, SameMarks
  <1>7. Room'
    BY <1>2, <1>6, RoomStays DEF SameMarks
  <1>8. Packed'
    BY <1>1, <1>2, <1>5, <1>6, MarksStay DEF PastFull
  <1> QED BY <1>2, <1>5, <1>7, <1>8

LEMMA FillsKeepFull ==
  ASSUME IInv, Packed, Room, EnqueueFills
  PROVE  Packed' /\ Room'
  <1>1. /\ producer.pc = "fill" /\ producer.block = tailBlock
        /\ producer.at = blocks[tailBlock].tail
        /\ tailBlock \in 1 .. Len(blocks) /\ producer \in Producer /\ TypeOK /\ offered \in Nat
    BY DEF EnqueueFills, IInv, ProducerKnows, TypeOK
  <1>2. /\ blocks' = DataSet(tailBlock, producer.at, offered)
        /\ producer'.pc = "publish"
        /\ UNCHANGED <<frontBlock, tailBlock, size, canAlloc>>
    BY <1>1 DEF EnqueueFills, producerFrame, DataSet, Producer
  <1>3. SameMarks
    <2>1. producer.at \in Nat /\ producer.at < blocks[tailBlock].size
      BY <1>1, BlockFacts
    <2>2. OneChanges(tailBlock) /\ SameIndices
      BY <1>1, <1>2, <2>1, DataStoreIsSmall
    <2> QED BY <2>2 DEF OneChanges, SameIndices, SameMarks
  <1>4. Room'
    BY <1>2, <1>3, RoomStays DEF SameMarks
  <1>5. Packed'
    BY <1>1, <1>2, <1>3, MarksStay DEF PastFull
  <1> QED BY <1>4, <1>5

LEMMA TakesNextKeepFull ==
  ASSUME IInv, Packed, Room, EnqueueTakesNext
  PROVE  Packed' /\ Room'
  <1> DEFINE b == producer.next
             r == blocks[b]
  <1>1. /\ producer.pc = "takeNext" /\ producer \in Producer /\ TypeOK /\ offered \in Nat
        /\ b \in 1 .. Len(blocks)
    BY NextOfProducer DEF EnqueueTakesNext, IInv, TypeOK
  <1>2. /\ blocks' = [blocks EXCEPT ![b].localFront = blocks[b].front,
                                    ![b].data[blocks[b].tail] = offered]
        /\ producer'.pc = "publishNext"
        /\ UNCHANGED <<frontBlock, tailBlock, size, canAlloc>>
    BY <1>1 DEF EnqueueTakesNext, producerFrame, Producer
  <1>3. SameMarks
    <2> HIDE DEF b
    <2>1. /\ OneChanges(b) /\ blocks'[b].front = r.front /\ blocks'[b].tail = r.tail
          /\ blocks'[b].next = r.next
      BY <1>1, <1>2, TakenNext DEF Stored
    <2> QED BY <2>1 DEF OneChanges, SameMarks
  <1>4. Room'
    BY <1>2, <1>3, RoomStays DEF SameMarks
  <1>5. Packed'
    BY <1>1, <1>2, <1>3, MarksStay DEF PastFull
  <1> QED BY <1>4, <1>5

(* The consumer looks, or takes an element out of its place.                 *)
LEMMA ConsumerLooksKeepFull ==
  ASSUME IInv, Packed, Room, SameMarks,
         UNCHANGED <<frontBlock, tailBlock, producer, size, canAlloc>>
  PROVE  Packed' /\ Room'
  <1>1. Room'
    BY RoomStays DEF SameMarks, Room
  <1> QED BY <1>1, MarksStay

LEMMA ConsumerSameMarks ==
  ASSUME IInv,
         \/ \E call \in {"try_dequeue", "peek"} : DequeueStart(call)
         \/ DequeueComparesBlocks \/ PeekReturns \/ DequeueRereadsTail \/ DequeueRechecks
         \/ DequeueLooksAtNext \/ DequeueTakes
  PROVE  SameMarks /\ UNCHANGED <<frontBlock, tailBlock, producer, size, canAlloc>>
  <1>1. /\ consumer.pc \notin {"idle", "gone"} => consumer.block = frontBlock
        /\ consumer.pc \in {"take", "reread", "recheck"} =>
               consumer.at = blocks[frontBlock].front
        /\ frontBlock \in 1 .. Len(blocks) /\ TypeOK
    BY DEF IInv, ConsumerKnows, TypeOK
  <1>2. CASE \/ \E call \in {"try_dequeue", "peek"} : DequeueStart(call)
             \/ DequeueComparesBlocks \/ PeekReturns
    BY <1>2, SameBlocksSameMarks
       DEF DequeueStart, DequeueComparesBlocks, PeekReturns, consumerFrame, allocVars
  <1>3. ASSUME NEW b \in 1 .. Len(blocks),
               blocks' = [blocks EXCEPT ![b].localTail = blocks[b].tail]
        PROVE  SameMarks
    <2>1. /\ OneChanges(b)
          /\ \A c \in 1 .. Len(blocks) :
                /\ blocks'[c].front = blocks[c].front /\ blocks'[c].tail = blocks[c].tail
                /\ blocks'[c].next = blocks[c].next /\ blocks'[c].size = blocks[c].size
      BY <1>3, TailSeen
    <2> QED BY <2>1 DEF OneChanges, SameMarks
  <1>4. CASE DequeueRereadsTail \/ DequeueRechecks
    <2>1. /\ blocks' = [blocks EXCEPT ![frontBlock].localTail = blocks[frontBlock].tail]
          /\ UNCHANGED <<frontBlock, tailBlock, producer, size, canAlloc>>
      BY <1>1, <1>4 DEF DequeueRereadsTail, DequeueRechecks, DequeueReadsTail,
                        consumerFrame, allocVars
    <2> QED BY <1>1, <1>3, <2>1
  <1>5. CASE DequeueLooksAtNext
    <2> DEFINE b == blocks[frontBlock].next
    <2>1. /\ consumer.pc = "peekNext" /\ consumer.block = frontBlock
          /\ UNCHANGED <<frontBlock, tailBlock, producer, size, canAlloc>>
          /\ UNCHANGED blocks \/ blocks' = [blocks EXCEPT ![b].localTail = blocks[b].tail]
      BY <1>1, <1>5 DEF DequeueLooksAtNext, consumerFrame, allocVars
    <2>2. b \in 1 .. Len(blocks)
      BY NextOfFrontIsBlock, EndsAreLinked
    <2> HIDE DEF b
    <2> QED BY <1>3, <2>1, <2>2, SameBlocksSameMarks
  <1>6. CASE DequeueTakes
    <2> DEFINE i == blocks[frontBlock].front
    <2>1. /\ blocks' = DataSet(frontBlock, i, Raw)
          /\ UNCHANGED <<frontBlock, tailBlock, producer, size, canAlloc>>
      BY <1>1, <1>6 DEF DequeueTakes, consumerFrame, allocVars, DataSet
    <2>2. i \in Nat /\ i < blocks[frontBlock].size /\ Raw \in Nat
      BY <1>1, BlockFacts DEF Raw
    <2>3. OneChanges(frontBlock) /\ SameIndices
      BY <1>1, <2>1, <2>2, DataStoreIsSmall
    <2> QED BY <2>1, <2>3 DEF OneChanges, SameIndices, SameMarks
  <1> QED BY <1>2, <1>4, <1>5, <1>6

----------------------------------------------------------------------------
(* Steps that change a front, a tail or the circle                           *)

LEMMA PublishesKeepFull ==
  ASSUME IInv, Packed, Room, EnqueuePublishes
  PROVE  Packed' /\ Room'
  <1> DEFINE b == tailBlock
             r == blocks[tailBlock]
             u == After(tailBlock, producer.at)
  <1>1. /\ producer.pc = "publish" /\ producer.block = b /\ producer.at = r.tail
        /\ b \in 1 .. Len(blocks) /\ TypeOK
    BY DEF EnqueuePublishes, IInv, ProducerKnows, TypeOK
  <1>2. /\ blocks' = [blocks EXCEPT ![b].tail = u]
        /\ producer'.pc = "idle"
        /\ UNCHANGED <<frontBlock, tailBlock, size, canAlloc>>
    BY <1>1, IdleIsProducer DEF EnqueuePublishes, EnqueueReturns, producerFrame
  <1>3. u \in 0 .. r.size - 1
    BY <1>1, BlockFacts, AfterIs
  <1> HIDE DEF u
  <1>4. OneChanges(b) /\ blocks'[b].next = r.next
    BY <1>1, <1>2, <1>3, StoreTail
  <1>5. Room'
    BY <1>2, <1>4, RoomStays DEF OneChanges
  <1>6. Packed'
    <2>1. Linked' = Linked /\ \A c \in Linked : c \in 1 .. Len(blocks)
      BY <1>1, <1>2, <1>4 DEF Linked, OneChanges
    <2>2. \A c \in Linked \ {frontBlock, b} : (Empty(c)' <=> Empty(c)) /\ (Full(c)' <=> Full(c))
      BY <1>4, <2>1 DEF Empty, Full, OneChanges
    <2> QED BY <1>1, <1>2, <2>1, <2>2 DEF Packed, PastFull
  <1> QED BY <1>5, <1>6

LEMMA PublishesInNextKeepFull ==
  ASSUME IInv, Packed, Room, EnqueuePublishesInNext
  PROVE  Packed' /\ Room'
  <1> DEFINE b == producer.next
             r == blocks[b]
             u == After(b, r.tail)
  <1>1. /\ producer.pc = "publishNext" /\ b = blocks[tailBlock].next /\ b # frontBlock
        /\ producer \in Producer /\ TypeOK /\ b \in 1 .. Len(blocks)
        /\ tailBlock \in 1 .. Len(blocks)
    BY NextOfProducer DEF EnqueuePublishesInNext, IInv, ProducerKnows, TypeOK
  <1>2. /\ blocks' = [blocks EXCEPT ![b].tail = u]
        /\ producer'.pc = "advance" /\ producer'.next = b
        /\ UNCHANGED <<frontBlock, tailBlock, size, canAlloc>>
    BY <1>1 DEF EnqueuePublishesInNext, producerFrame, Producer
  <1>3. b # tailBlock
    BY <1>1, NextIsEmpty
  <1>4. u \in 0 .. r.size - 1
    BY <1>1, BlockFacts, AfterIs
  <1> HIDE DEF u
  <1>5. OneChanges(b) /\ blocks'[b].next = r.next
    <2> HIDE DEF b
    <2> QED BY <1>1, <1>2, <1>4, StoreTail
  <1>6. Room'
    BY <1>2, <1>5, RoomStays DEF OneChanges
  <1>7. Packed'
    <2>1. Linked' = Linked /\ \A c \in Linked : c \in 1 .. Len(blocks)
      BY <1>1, <1>2, <1>5 DEF Linked, OneChanges
    <2>2. \A c \in 1 .. Len(blocks) :
             c # b => (Empty(c)' <=> Empty(c)) /\ (Full(c)' <=> Full(c))
      BY <1>5 DEF Empty, Full, OneChanges
    <2>3. frontBlock # tailBlock => Full(tailBlock)'
      BY <1>1, <1>2, <1>3, <2>2 DEF Packed, PastFull
    <2> HIDE DEF b
    <2>4. \A c \in Linked \ {frontBlock, tailBlock} :
             Empty(c)' \/ Full(c)' \/ (producer'.pc = "advance" /\ c = producer'.next)
      BY <1>1, <1>2, <2>1, <2>2 DEF Packed
    <2> QED BY <1>2, <2>1, <2>3, <2>4 DEF Packed
  <1> QED BY <1>6, <1>7

LEMMA AllocatesKeepFull ==
  ASSUME IInv, Packed, Room, EnqueueAllocates
  PROVE  Packed' /\ Room'
  <1> DEFINE q == NewBlock(NewBlockSize, blocks[tailBlock].next, offered)
  <1>1. /\ producer.pc = "allocate" /\ producer.block = tailBlock
        /\ producer \in Producer /\ blocks \in Seq(Block) /\ tailBlock \in 1 .. Len(blocks)
    BY DEF EnqueueAllocates, IInv, ProducerKnows, TypeOK
  <1>2. /\ blocks' = Append(blocks, q)
        /\ producer'.pc = "link" /\ producer'.next = Len(blocks) + 1
        /\ UNCHANGED <<frontBlock, tailBlock, size, canAlloc>>
    BY <1>1 DEF EnqueueAllocates, producerFrame, NewBlock, Producer
  <1> HIDE DEF q
  <1>3. /\ Len(blocks) \in Nat /\ Len(blocks') = Len(blocks) + 1
        /\ \A c \in 1 .. Len(blocks) : blocks'[c] = blocks[c]
    BY <1>1, <1>2
  <1>4. Linked' = Linked /\ \A c \in Linked : c \in 1 .. Len(blocks)
    BY <1>1, <1>2, <1>3 DEF Linked
  <1>5. \A c \in 1 .. Len(blocks) : (Empty(c)' <=> Empty(c)) /\ (Full(c)' <=> Full(c))
    BY <1>3 DEF Empty, Full
  <1>6. frontBlock # tailBlock => Full(tailBlock)'
    BY <1>1, <1>2, <1>5 DEF Packed, PastFull
  <1>7. \A c \in Linked \ {frontBlock, tailBlock} : Empty(c)' \/ Full(c)'
    BY <1>1, <1>4, <1>5 DEF Packed
  <1> QED BY <1>1, <1>2, <1>4, <1>6, <1>7 DEF Packed, Room

LEMMA LinksKeepFull ==
  ASSUME IInv, Packed, Room, EnqueueLinks
  PROVE  Packed' /\ Room'
  <1> DEFINE b == tailBlock
             r == blocks[b]
  <1>1. /\ producer.pc = "link" /\ producer.block = b /\ producer.next \in 1 .. Len(blocks)
        /\ b \in 1 .. Len(blocks) /\ producer \in Producer /\ TypeOK
    BY NextOfProducer DEF EnqueueLinks, IInv, ProducerKnows, TypeOK
  <1>2. /\ blocks' = [blocks EXCEPT ![b].next = producer.next]
        /\ producer'.pc = "advance" /\ producer'.next = producer.next
        /\ UNCHANGED <<frontBlock, tailBlock, size, canAlloc>>
    BY <1>1 DEF EnqueueLinks, producerFrame, Producer
  <1>3. OneChanges(b) /\ blocks'[b].front = r.front /\ blocks'[b].tail = r.tail
    <2>1. producer.next \in Nat
      BY <1>1
    <2> QED BY <1>1, <1>2, <2>1, StoreNext
  <1>4. /\ Len(blocks') = Len(blocks)
        /\ \A c \in 1 .. Len(blocks) : (Empty(c)' <=> Empty(c)) /\ (Full(c)' <=> Full(c))
    BY <1>3 DEF Empty, Full, OneChanges
  <1>5. \A c \in Linked' : c \in 1 .. Len(blocks) /\ (c = producer.next \/ c \in Linked)
    BY <1>4 DEF Linked
  <1>6. frontBlock # tailBlock => Full(tailBlock)'
    BY <1>1, <1>2, <1>4 DEF Packed, PastFull
  <1>7. \A c \in Linked' \ {frontBlock, tailBlock} :
           Empty(c)' \/ Full(c)' \/ c = producer.next
    BY <1>1, <1>4, <1>5 DEF Packed
  <1> QED BY <1>1, <1>2, <1>6, <1>7 DEF Packed, Room

LEMMA AdvancesKeepFull ==
  ASSUME IInv, Packed, Room, EnqueueAdvances
  PROVE  Packed' /\ Room'
  <1>1. /\ producer.pc = "advance" /\ producer'.pc = "idle" /\ tailBlock' = producer.next
        /\ UNCHANGED <<blocks, frontBlock, size, canAlloc>>
    BY IdleIsProducer DEF EnqueueAdvances, EnqueueReturns, producerFrame
  <1>2. Room'
    BY <1>1, RoomStays
  <1>3. Linked' = Linked /\ \A c : (Empty(c)' <=> Empty(c)) /\ (Full(c)' <=> Full(c))
    BY <1>1 DEF Linked, Empty, Full
  <1>4. \A c \in Linked \ {frontBlock, producer.next} : Empty(c) \/ Full(c)
    BY <1>1 DEF Packed, PastFull
  <1> QED BY <1>1, <1>2, <1>3, <1>4 DEF Packed, PastFull

LEMMA MovesKeepFull ==
  ASSUME IInv, Packed, Room, DequeueMoves
  PROVE  Packed' /\ Room' /\ UNCHANGED <<producer, size, canAlloc, blocks>>
  <1>1. /\ consumer.pc = "move" /\ frontBlock # tailBlock /\ Empty(frontBlock)
        /\ UNCHANGED <<blocks, tailBlock, producer, size, canAlloc>>
        /\ tailBlock \in 1 .. Len(blocks)
    BY DEF DequeueMoves, IInv, ConsumerKnows, TypeOK, consumerFrame, allocVars
  <1>2. Room'
    BY <1>1 DEF Room
  <1>3. Linked' = Linked /\ \A c \in 1 .. Len(blocks) : (Empty(c)' <=> Empty(c)) /\ (Full(c)' <=> Full(c))
    BY <1>1 DEF Linked, Empty, Full
  <1>4. producer.pc \in PastFull => Full(tailBlock)'
    BY <1>1, <1>3 DEF Packed
  <1>5. \A c \in Linked \ {tailBlock} :
           Empty(c)' \/ Full(c)' \/ (producer.pc = "advance" /\ c = producer.next)
    <2>1. \A c \in Linked : c \in 1 .. Len(blocks)
      BY DEF Linked
    <2> QED BY <1>1, <1>3, <2>1 DEF Packed
  <1> QED BY <1>1, <1>2, <1>3, <1>4, <1>5 DEF Packed

LEMMA ReleasesKeepFull ==
  ASSUME IInv, Packed, Room, DequeueReleases
  PROVE  Packed' /\ Room' /\ UNCHANGED <<producer, size, canAlloc>> /\ Len(blocks') = Len(blocks)
  <1> DEFINE b == frontBlock
             r == blocks[frontBlock]
             u == After(frontBlock, consumer.at)
  <1>1. /\ consumer.block = b /\ consumer.at = r.front
        /\ b \in 1 .. Len(blocks) /\ tailBlock \in 1 .. Len(blocks) /\ TypeOK
    BY FrontHasElement DEF DequeueReleases, IInv, TypeOK
  <1>2. /\ blocks' = [blocks EXCEPT ![b].front = u]
        /\ UNCHANGED <<frontBlock, tailBlock, producer, size, canAlloc>>
    BY <1>1 DEF DequeueReleases, consumerFrame, allocVars
  <1>3. u \in 0 .. r.size - 1
    BY <1>1, BlockFacts, AfterIs
  <1> HIDE DEF u
  <1>4. OneChanges(b) /\ blocks'[b].next = r.next
    BY <1>1, <1>2, <1>3, StoreFront
  <1>5. Room'
    BY <1>2, <1>4, RoomStays DEF OneChanges, Room
  <1>6. Linked' = Linked /\ \A c \in Linked : c \in 1 .. Len(blocks)
    BY <1>2, <1>4 DEF Linked, OneChanges
  <1>7. \A c \in 1 .. Len(blocks) : c # b => (Empty(c)' <=> Empty(c)) /\ (Full(c)' <=> Full(c))
    BY <1>4 DEF Empty, Full, OneChanges
  <1>8. producer.pc \in PastFull /\ b # tailBlock => Full(tailBlock)'
    BY <1>1, <1>2, <1>7 DEF Packed
  <1>9. \A c \in Linked \ {b, tailBlock} :
           Empty(c)' \/ Full(c)' \/ (producer.pc = "advance" /\ c = producer.next)
    BY <1>6, <1>7 DEF Packed
  <1> QED BY <1>2, <1>4, <1>5, <1>6, <1>8, <1>9 DEF Packed, OneChanges

LEMMA DestroyKeepsFull ==
  ASSUME IInv, Packed, Room, Destroy
  PROVE  Packed' /\ Room'
  <1>1. /\ UNCHANGED <<blocks, frontBlock, tailBlock, size, canAlloc>>
        /\ producer.pc = "idle" /\ producer'.pc = "gone"
    BY DEF Destroy, IInv, TypeOK, Producer, allocVars
  <1>2. Room'
    BY <1>1, RoomStays
  <1> QED BY <1>1, <1>2, SameBlocksSameMarks, MarksStay DEF PastFull

----------------------------------------------------------------------------
(* The producer is refused only if the queue was full                        *)

LEMMA QueueIsSequence == IInv => Queue \in Seq(Nat)
  <1> SUFFICES ASSUME IInv PROVE Queue \in Seq(Nat)
    OBVIOUS
  <1>1. PICK K : \E f : Chain(K, f) /\ OneWay(K)
    BY ChainThere
  <1>2. PICK f : Chain(K, f)
    BY <1>1
  <1> QED BY <1>2, ChainIsQueue DEF Chain, Joins

LEMMA QueueIsSequenceNext == (IInv => Queue \in Seq(Nat))'
  BY QueueIsSequence, PTL

(* With one block, the queue is full when the block is. *)
LEMMA FullBlock ==
  ASSUME IInv, Room, ~canAlloc, Len(blocks) = 1, Full(tailBlock)
  PROVE  Len(Queue) >= size
  <1>1. PICK K : \E f : Chain(K, f) /\ OneWay(K)
    BY ChainThere
  <1>2. PICK f : Chain(K, f)
    BY <1>1
  <1>3. frontBlock = 1 /\ tailBlock = 1 /\ TypeOK /\ 1 \in 1 .. Len(blocks)
    BY DEF IInv, TypeOK
  <1>4. Queue = Elements(1)
    BY <1>2, <1>3, ChainIsQueue DEF Chain, Joins
  <1>5. Len(Elements(1)) = blocks[1].size - 1
    BY <1>3, ElementCount DEF Full
  <1> QED BY <1>4, <1>5 DEF Room, Holds

LEMMA EnqueueStepIs ==
  ASSUME IInv, EnqueueStep
  PROVE  /\ UNCHANGED <<size, canAlloc>> /\ producer.pc \notin {"idle", "gone"}
         /\ producer'.pc # "idle" => producer'.wasFull = producer.wasFull
         /\ producer'.pc = "look" => EnqueueRereadsFront
         /\ producer'.pc = "idle" \/ ~(EnqueuePublishes \/ EnqueueAdvances)
  <1>1. producer \in Producer
    BY DEF IInv, TypeOK
  <1>2. \/ EnqueueRereadsFront \/ EnqueueFills \/ EnqueueTakesNext
        \/ EnqueuePublishesInNext \/ EnqueueAllocates \/ EnqueueLinks
        => /\ UNCHANGED <<size, canAlloc>> /\ producer.pc \notin {"idle", "gone"}
           /\ producer'.wasFull = producer.wasFull
           /\ producer'.pc = "look" => EnqueueRereadsFront
           /\ ~(EnqueuePublishes \/ EnqueueAdvances)
    BY <1>1 DEF EnqueueRereadsFront, EnqueueFills, EnqueueTakesNext, EnqueuePublishesInNext,
                EnqueueAllocates, EnqueueLinks, EnqueuePublishes, EnqueueAdvances,
                producerFrame, Producer
  <1>3. EnqueueLooksAhead
        => /\ UNCHANGED <<size, canAlloc>> /\ producer.pc \notin {"idle", "gone"}
           /\ producer'.pc # "idle" => producer'.wasFull = producer.wasFull
           /\ producer'.pc # "look"
           /\ ~(EnqueuePublishes \/ EnqueueAdvances)
    BY <1>1, IdleIsProducer
       DEF EnqueueLooksAhead, EnqueuePublishes, EnqueueAdvances, EnqueueReturns,
           producerFrame, Producer
  <1>4. EnqueuePublishes \/ EnqueueCannotAllocate \/ EnqueueAdvances
        => /\ UNCHANGED <<size, canAlloc>> /\ producer.pc \notin {"idle", "gone"}
           /\ producer'.pc = "idle"
    BY IdleIsProducer
       DEF EnqueuePublishes, EnqueueCannotAllocate, EnqueueAdvances, EnqueueReturns,
           producerFrame
  <1> QED BY <1>2, <1>3, <1>4 DEF EnqueueStep

(* The consumer only makes the queue shorter. *)
LEMMA ConsumerKeepsWarned ==
  ASSUME Warned, UNCHANGED <<producer, size, canAlloc>>, Len(blocks') = Len(blocks),
         size \in Nat, Queue \in Seq(Nat),
         Queue' = Queue \/ (Queue # <<>> /\ Queue' = Tail(Queue))
  PROVE  Warned'
  <1>1. Len(Queue') >= size => Len(Queue) >= size
    <2>1. CASE Queue' = Queue
      BY <2>1
    <2>2. CASE Queue # <<>> /\ Queue' = Tail(Queue)
      <3> DEFINE q == Queue
      <3>1. q \in Seq(Nat) /\ q # <<>> /\ Queue' = Tail(q)
        BY <2>2
      <3> HIDE DEF q
      <3>2. Len(Tail(q)) = Len(q) - 1 /\ Len(q) \in Nat
        BY <3>1
      <3>3. Len(Tail(q)) >= size => Len(q) >= size
        BY <3>2
      <3> QED BY <3>1, <3>3 DEF q
    <2> QED BY <2>1, <2>2
  <1> QED BY <1>1 DEF Warned

LEMMA ConsumerKeepsRoom ==
  ASSUME Inv, IInv', Packed, Room, Warned,
         (\E call \in {"try_dequeue", "peek"} : DequeueStart(call)) \/ DequeueStep
  PROVE  Packed' /\ Room' /\ Warned'
  <1>1. IInv /\ Written /\ Told /\ size \in Nat /\ Queue \in Seq(Nat)
    BY QueueIsSequence DEF Inv, Room
  <1>2. CASE \/ \E call \in {"try_dequeue", "peek"} : DequeueStart(call)
             \/ DequeueComparesBlocks \/ PeekReturns \/ DequeueRereadsTail \/ DequeueRechecks
             \/ DequeueLooksAtNext \/ DequeueTakes
    <2>1. SameMarks /\ UNCHANGED <<frontBlock, tailBlock, producer, size, canAlloc>>
      BY <1>1, <1>2, ConsumerSameMarks
    <2>2. Packed' /\ Room'
      BY <1>1, <2>1, ConsumerLooksKeepFull
    <2>3. Queue' = Queue
      BY <1>1, <1>2, StartTakesNothing, ComparesTakesNothing, ReadsTailTakesNothing,
         LooksAtNextTakesNothing, TakesTakesNothing
    <2> QED BY <1>1, <2>1, <2>2, <2>3, ConsumerKeepsWarned DEF SameMarks
  <1>3. CASE DequeueMoves
    <2>1. Queue' = Queue
      BY <1>1, <1>3, MovesTakesNothing
    <2> QED BY <1>1, <1>3, <2>1, MovesKeepFull, ConsumerKeepsWarned
  <1>4. CASE DequeueReleases
    <2>1. Queue # <<>> /\ Queue' = Tail(Queue)
      BY <1>1, <1>4, ReleasesTakes
    <2> QED BY <1>1, <1>4, <2>1, ReleasesKeepFull, ConsumerKeepsWarned
  <1> QED BY <1>2, <1>3, <1>4 DEF DequeueStep

LEMMA ProducerKeepsRoom ==
  ASSUME Inv, IInv', Packed, Room, Warned, EnqueueStart \/ EnqueueStep
  PROVE  Packed' /\ Room' /\ Warned'
  <1>1. IInv /\ Written /\ Told
    BY DEF Inv
  <1>2. Packed' /\ Room'
    BY <1>1, LooksKeepFull, RereadsKeepFull, FillsKeepFull, TakesNextKeepFull,
       PublishesKeepFull, PublishesInNextKeepFull, AllocatesKeepFull, LinksKeepFull,
       AdvancesKeepFull DEF EnqueueStep
  <1>3. Queue' = Queue \/ EnqueuePublishes \/ EnqueueAdvances
    BY <1>1, LooksPutNothing, RereadsFrontPutsNothing, FillsPutsNothing,
       TakesNextPutsNothing, PublishesInNextPutsNothing, AllocatesPutsNothing,
       LinksPutsNothing DEF EnqueueStep
  <1>4. CASE EnqueueStart
    <2>1. Queue' = Queue
      BY <1>1, <1>4, LooksPutNothing
    <2> DEFINE full == Len(Queue) >= size
               p == IF After(tailBlock, blocks[tailBlock].tail)
                          # blocks[tailBlock].localFront THEN "fill" ELSE "reread"
    <2>2. /\ producer' = [IdleProducer EXCEPT !.pc = p, !.block = tailBlock,
                             !.at = blocks[tailBlock].tail, !.wasFull = full]
          /\ UNCHANGED size
      BY <1>4 DEF EnqueueStart, producerFrame
    <2>3. p \in {"fill", "reread"} /\ (Len(Queue') >= size' <=> full)
      BY <2>1, <2>2
    <2> HIDE DEF full, p
    <2>4. producer'.pc = p /\ producer'.wasFull = full
      BY <2>2 DEF IdleProducer
    <2> QED BY <1>2, <2>3, <2>4 DEF Warned
  <1>5. CASE EnqueueStep
    <2>1. /\ UNCHANGED <<size, canAlloc>> /\ producer.pc \notin {"idle", "gone"}
          /\ producer'.pc # "idle" => producer'.wasFull = producer.wasFull
          /\ producer'.pc = "look" => EnqueueRereadsFront
          /\ producer'.pc = "idle" \/ Queue' = Queue
      BY <1>1, <1>3, <1>5, EnqueueStepIs
    <2>2. CASE producer'.pc = "idle"
      BY <1>2, <2>2 DEF Warned
    <2>3. CASE producer'.pc # "idle"
      <3>1. Len(Queue') >= size' => producer'.wasFull
        BY <2>1, <2>3 DEF Warned
      <3>2. ASSUME producer'.pc = "look", Len(blocks') = 1, ~canAlloc'
            PROVE  producer'.wasFull
        <4>1. EnqueueRereadsFront /\ ~canAlloc
          BY <2>1, <3>2
        <4>2. Full(tailBlock) /\ Len(blocks) = 1
          <5>1. Full(tailBlock)
            BY <1>1, <3>2, <4>1, RereadsKeepFull
          <5>2. Len(blocks') = Len(blocks)
            BY <4>1 DEF EnqueueRereadsFront, IInv, TypeOK
          <5> QED BY <3>2, <5>1, <5>2
        <4>3. Len(Queue) >= size
          BY <1>1, <4>1, <4>2, FullBlock
        <4> QED BY <2>1, <2>3, <4>3 DEF Warned
      <3> QED BY <1>2, <3>1, <3>2 DEF Warned
    <2> QED BY <2>2, <2>3
  <1> QED BY <1>4, <1>5

LEMMA InitRoom == Init => Packed /\ Room /\ Warned
  <1> SUFFICES ASSUME Init PROVE Packed /\ Room /\ Warned
    OBVIOUS
  <1>1. PICK count \in Nat \ {0}, capacity \in Nat :
           /\ capacity >= 2 /\ Holds(count, capacity) >= size
           /\ blocks = [b \in 1 .. count |->
                 make_block(capacity, IF b = count THEN 1 ELSE b + 1)]
    BY InitialCircle, SizeIsPositive DEF Init
  <1>2. /\ Len(blocks) = count
        /\ \A b \in 1 .. count : /\ blocks[b].next = Onward(count, b)
                                 /\ blocks[b].size = capacity
                                 /\ blocks[b].front = blocks[b].tail
    <2>1. \A b \in 1 .. count :
             blocks[b] = make_block(capacity, IF b = count THEN 1 ELSE b + 1)
      BY <1>1
    <2>2. Len(blocks) = count
      BY <1>1
    <2> QED BY <2>1, <2>2 DEF make_block, Onward
  <1>3. producer.pc = "idle" /\ size \in Nat /\ 1 \in 1 .. count
    BY <1>1, SizeIsPositive, IdleIsProducer DEF Init
  <1>4. Room
    BY <1>1, <1>2, <1>3 DEF Room
  <1>5. Packed
    BY <1>2, <1>3 DEF Packed, PastFull, Linked, Empty
  <1> QED BY <1>3, <1>4, <1>5 DEF Warned

LEMMA NextKeepsRoom ==
  ASSUME Inv, Inv', Packed, Room, Warned, [Next]_vars
  PROVE  Packed' /\ Room' /\ Warned'
  <1>1. IInv /\ IInv'
    BY DEF Inv
  <1>2. CASE UNCHANGED vars
    <2>1. UNCHANGED <<size, canAlloc, blocks, frontBlock, tailBlock, producer>>
      BY <1>2 DEF vars, allocVars
    <2>2. Queue' = Queue
      BY <1>1, <1>2, StutterTakesNothing
    <2>3. Packed' /\ Room'
      BY <1>1, <2>1, SameBlocksSameMarks, ConsumerLooksKeepFull
    <2> QED BY <1>1, <2>1, <2>2, <2>3, QueueIsSequence, ConsumerKeepsWarned DEF Room
  <1>3. CASE Destroy
    <2>1. producer'.pc = "gone"
      BY <1>1, <1>3 DEF Destroy, IInv, TypeOK, Producer
    <2> QED BY <1>1, <1>3, <2>1, DestroyKeepsFull DEF Warned
  <1> QED BY <1>1, <1>2, <1>3, ProducerKeepsRoom, ConsumerKeepsRoom DEF Next

LEMMA RoomInvHolds == Spec => [](Inv /\ Packed /\ Room /\ Warned)
  <1>1. Init => Inv /\ Packed /\ Room /\ Warned
    BY InitContents, InitRoom
  <1>2. Inv /\ Packed /\ Room /\ Warned /\ [Next]_vars
           => (Inv /\ Packed /\ Room /\ Warned)'
    BY NextKeepsInv, NextKeepsRoom
  <1> QED BY <1>1, <1>2, PTL DEF Spec

LEMMA RefusalsAreDue ==
  ASSUME Inv, Packed, Room, Warned, [Next]_vars,
         producer.pc = "look", producer'.pc = "idle"
  PROVE  ~canAlloc /\ producer.wasFull
  <1>1. IInv /\ TypeOK /\ producer \in Producer /\ producer.block = tailBlock
    BY DEF Inv, IInv, TypeOK, ProducerKnows
  <1>2. EnqueueLooksAhead
    <2>1. ~UNCHANGED vars
      BY DEF vars
    <2>2. ~(\E call \in {"try_dequeue", "peek"} : DequeueStart(call)) /\ ~DequeueStep
      BY <1>1, StepsStay
    <2>3. ~EnqueueStart /\ ~Destroy
      BY DEF EnqueueStart, Destroy
    <2>4. EnqueueStep => EnqueueLooksAhead
      BY DEF EnqueueStep, EnqueueRereadsFront, EnqueueFills, EnqueuePublishes,
             EnqueueTakesNext, EnqueuePublishesInNext, EnqueueCannotAllocate,
             EnqueueAllocates, EnqueueLinks, EnqueueAdvances
    <2> QED BY <2>1, <2>2, <2>3, <2>4 DEF Next
  <1>3. blocks[tailBlock].next = frontBlock /\ ~canAlloc
    BY <1>1, <1>2 DEF EnqueueLooksAhead, Producer
  <1>4. Len(blocks) \in Nat /\ Len(blocks) >= 1
    BY <1>1 DEF TypeOK
  <1>5. CASE Len(blocks) = 1
    BY <1>3, <1>5 DEF Warned
  <1>6. CASE Len(blocks) > 1
    <2>1. Len(Queue) >= size
      BY <1>1, <1>3, <1>6, FullCircle
    <2> QED BY <1>3, <2>1 DEF Warned
  <1> QED BY <1>4, <1>5, <1>6

(* try_enqueue refuses an element only if there were as many in the queue as *)
(* it was constructed for when it was called, wherever in the circle the     *)
(* consumer is; enqueue refuses none but for want of memory.                 *)
THEOREM RefusedOnlyWhenFull == Spec => RefusesOnlyWhenFull
  <1>1. Inv /\ Packed /\ Room /\ Warned /\ [Next]_vars =>
           [producer.pc = "look" /\ producer'.pc = "idle" => ~canAlloc /\ producer.wasFull]_vars
    BY RefusalsAreDue
  <1> QED BY <1>1, RoomInvHolds, PTL DEF Spec, RefusesOnlyWhenFull
=============================================================================
