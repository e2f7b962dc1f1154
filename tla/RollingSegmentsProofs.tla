----------------------- MODULE RollingSegmentsProofs -----------------------
(* Proofs about RollingSegments, for every ring size, every buffer          *)
(* capacity, every number of frames and every set of exporters.             *)
EXTENDS RollingSegments, TLAPS

----------------------------------------------------------------------------
(* The inductive invariant                                                  *)

(* The owner and the tick thread: no tick before start() or after the join, *)
(* and idx is the slot of seq_ for as long as the tick uses it.             *)
Control ==
    /\ owner = "new" => tick = "none"
    /\ owner \in {"removing", "resetting", "stopped"} => tick = "done"
    /\ tick = "lock" \/ TickInside \/ Committing => slot = SlotOf(seq)

(* The buffers, and the snapshots taken of them. *)
Buffers ==
    \A s \in Streams : /\ snap[s].from <= snap[s].upto
                       /\ snap[s].from <= oldest[s]
                       /\ snap[s].upto <= produced[s]
                       /\ oldest[s] <= produced[s]

Cleared ==
    /\ tick \in {"clearAudio", "advance"} => snap["video"].upto <= oldest["video"]
    /\ tick = "advance" => snap["audio"].upto <= oldest["audio"]

(* Once a stream is snapshotted, the kept segments precede the snapshot, *)
(* and what is being committed lies within it.                           *)
Snapped(s) ==
    \/ tick \in {"open", "mux"} \/ Committing
    \/ s = "video" /\ tick = "snapAudio"

KeptBeforeSnap ==
    \A i \in OldestKept .. seq - 1, s \in Streams :
        Snapped(s) => \A x \in FramesIn(file[SlotOf(i)], s) : x < snap[s].from

CommittedInSnap ==
    Committing => \A s \in Streams : \A x \in FramesIn(file[slot], s) :
                      snap[s].from <= x /\ x < snap[s].upto

(* What a running export has yet to read continues what it has read, but   *)
(* for the first segment of its listing, and nothing else has an output.   *)
ExportOK(e) ==
    LET x == exp[e]
        first == FirstListed(x.upto)
    IN  IF Listing(e)
        THEN /\ x.next = first + Len(x.out)
             /\ \A i, j \in x.next .. x.upto - 1 :
                   first < i /\ i < j => Before(file[SlotOf(i)], file[SlotOf(j)])
             /\ \A k \in 2 .. Len(x.out), j \in x.next .. x.upto - 1 :
                   Before(x.out[k], file[SlotOf(j)])
             /\ InOrderFrom(2, x.out)
        ELSE x.out = <<>>

ExportsOK == \A e \in Exporters : ExportOK(e)

IInv == /\ TypeOK
        /\ Control
        /\ MutexHeld
        /\ Buffers
        /\ Cleared
        /\ WindowInOrder
        /\ SavedOnlyOnce
        /\ KeptBeforeSnap
        /\ CommittedInSnap
        /\ ExportsOK

----------------------------------------------------------------------------
(* Arithmetic of the ring                                                   *)

(* The slot of a sequence number is a slot. *)
LEMMA SlotInRing == \A n \in Nat : SlotOf(n) \in Slots
  BY RingAssumption DEF SlotOf, Slots

(* A positive multiple of the ring size is at least the ring size. *)
LEMMA MultipleAtLeast ==
  ASSUME NEW k \in Int, RingSize * k > 0
  PROVE  RingSize * k >= RingSize
  <1>1. RingSize \in Int /\ RingSize > 0
    BY RingAssumption
  <1>2. CASE k <= 0
    <2>1. RingSize * k <= 0
      BY <1>1, <1>2
    <2> QED BY <1>1, <2>1
  <1>3. CASE k >= 1
    <2>1. RingSize * k = RingSize * (k - 1) + RingSize
      BY <1>1
    <2>2. RingSize * (k - 1) >= 0
      BY <1>1, <1>3
    <2> QED BY <1>1, <2>1, <2>2
  <1> QED BY <1>2, <1>3

(* Two sequence numbers less than a ring apart do not share a slot. *)
LEMMA SlotsDistinct ==
  ASSUME NEW i \in Nat, NEW j \in Nat, i < j, j - i < RingSize
  PROVE  SlotOf(i) # SlotOf(j)
  <1> SUFFICES ASSUME SlotOf(i) = SlotOf(j) PROVE FALSE
    OBVIOUS
  <1> DEFINE qi == i \div RingSize
             qj == j \div RingSize
  <1>1. qi \in Int /\ qj \in Int /\ RingSize \in Int /\ RingSize > 0
    BY RingAssumption
  <1>2. i = RingSize * qi + (i % RingSize) /\ j = RingSize * qj + (j % RingSize)
    BY RingAssumption
  <1>3. i % RingSize = j % RingSize /\ i % RingSize \in Int
    BY RingAssumption DEF SlotOf
  <1>4. j - i = RingSize * qj - RingSize * qi
    BY <1>1, <1>2, <1>3
  <1>5. RingSize * qj - RingSize * qi = RingSize * (qj - qi)
    BY <1>1
  <1> HIDE DEF qi, qj
  <1>6. RingSize * (qj - qi) > 0
    BY <1>4, <1>5
  <1>7. RingSize * (qj - qi) >= RingSize
    BY <1>1, <1>6, MultipleAtLeast
  <1> QED BY <1>1, <1>4, <1>5, <1>7

----------------------------------------------------------------------------
(* The window of kept segments                                              *)

(* The kept sequence numbers are natural numbers, less than a ring apart. *)
LEMMA KeptRange ==
  ASSUME TypeOK
  PROVE  /\ OldestKept \in Nat
         /\ OldestKept .. seq - 1 \subseteq Nat
         /\ \A i \in OldestKept .. seq - 1 :
               /\ seq - i <= RingSize
               /\ Committing => seq - i < RingSize
  BY RingAssumption DEF TypeOK, OldestKept

(* What a file holds is a set of frame numbers. *)
LEMMA FramesAreInts ==
  ASSUME NEW f \in FileType, NEW s \in Streams
  PROVE  FramesIn(f, s) \subseteq Nat
  BY RingAssumption DEF FileType, SegmentType, FramesIn

(* No segment is mistaken for a missing file or a leftover. *)
LEMMA SegmentsAreFiles ==
  ASSUME NEW f \in SegmentType
  PROVE  f \notin {NoFile, Leftover}
  <1>1. f \in [Streams -> SUBSET Nat]
    BY RingAssumption DEF SegmentType
  <1> QED BY <1>1, RingAssumption

LEMMA KeptFramesAreInts ==
  ASSUME TypeOK, NEW i \in OldestKept .. seq - 1, NEW s \in Streams
  PROVE  FramesIn(file[SlotOf(i)], s) \subseteq Nat
  <1>1. SlotOf(i) \in Slots
    BY KeptRange, SlotInRing
  <1> QED BY <1>1, FramesAreInts DEF TypeOK

----------------------------------------------------------------------------
(* The initial states                                                       *)

(* What stands for the snapshots while there is no tick. *)
LEMMA NoSnapshotFacts ==
  /\ NoSnapshot \in [Streams -> [from : 0 .. MaxFrames, upto : 0 .. MaxFrames]]
  /\ \A s \in Streams : NoSnapshot[s].from = 0 /\ NoSnapshot[s].upto = 0
  BY RingAssumption DEF NoSnapshot

LEMMA InitIInv == Init => IInv
  <1> SUFFICES ASSUME Init PROVE IInv
    OBVIOUS
  <1> USE DEF Init
  <1>1. TypeOK
    <2>1. 0 \in Slots
      BY RingAssumption DEF Slots
    <2>2. exp \in [Exporters -> ExporterType]
      BY DEF ExporterType
    <2>3. file \in [Slots -> FileType]
      BY DEF FileType
    <2>4. /\ produced \in [Streams -> 0 .. MaxFrames]
          /\ oldest \in [Streams -> 0 .. MaxFrames]
          /\ snap \in [Streams -> [from : 0 .. MaxFrames, upto : 0 .. MaxFrames]]
      BY RingAssumption, NoSnapshotFacts
    <2> QED BY <2>1, <2>2, <2>3, <2>4 DEF TypeOK
  <1>2. Control /\ Buffers /\ Cleared
    BY NoSnapshotFacts DEF Control, Buffers, Cleared, TickInside, Committing, Streams
  <1>3. MutexHeld
    BY RingAssumption DEF MutexHeld, TickInside, Holding
  <1>4. OldestKept .. seq - 1 = {}
    BY RingAssumption DEF OldestKept, Committing
  <1>5. WindowInOrder /\ SavedOnlyOnce /\ KeptBeforeSnap
    BY <1>4 DEF WindowInOrder, SavedOnlyOnce, KeptBeforeSnap
  <1>6. CommittedInSnap
    BY DEF CommittedInSnap, Committing
  <1>7. ExportsOK
    BY DEF ExportsOK, ExportOK, Listing
  <1> QED BY <1>1, <1>2, <1>3, <1>5, <1>6, <1>7 DEF IInv

----------------------------------------------------------------------------
(* The encoders                                                             *)

LEMMA PushKeepsIInv ==
  ASSUME IInv, NEW s \in Streams, Push(s)
  PROVE  IInv'
  <1> USE DEF IInv
  <1>1. oldest' \in [Streams -> Nat] /\ \A t \in Streams :
           /\ produced[t] <= produced'[t]
           /\ oldest[t] <= oldest'[t]
           /\ oldest'[t] <= produced'[t]
           /\ produced'[t] <= MaxFrames
    BY RingAssumption DEF Push, TypeOK, Buffers
  <1>2. TypeOK'
    BY <1>1, RingAssumption DEF TypeOK, Push
  <1>3. Control' /\ MutexHeld'
    BY DEF Push, Control, MutexHeld, TickInside, Committing, Holding, SlotOf
  <1>4. Buffers'
    BY <1>1, RingAssumption DEF Buffers, Push, TypeOK
  <1>5. Cleared'
    BY <1>1, RingAssumption DEF Cleared, Push, TypeOK, Streams
  <1>6. WindowInOrder' /\ KeptBeforeSnap' /\ CommittedInSnap'
    BY DEF WindowInOrder, KeptBeforeSnap, CommittedInSnap, Push, OldestKept,
           Committing, Before, FramesIn, SlotOf, Snapped
  <1>7. SavedOnlyOnce'
    <2> SUFFICES ASSUME NEW i \in OldestKept .. seq - 1, NEW t \in Streams,
                        NEW x \in FramesIn(file[SlotOf(i)], t)
                 PROVE  x < oldest'[t]
      BY DEF SavedOnlyOnce, Push, OldestKept, Committing, FramesIn, SlotOf
    <2>1. x < oldest[t]
      BY DEF SavedOnlyOnce
    <2>2. x \in Int
      BY KeptFramesAreInts
    <2> QED BY <1>1, <2>1, <2>2 DEF TypeOK
  <1>8. ExportsOK'
    BY DEF ExportsOK, ExportOK, Push, Listing, Before, FramesIn, SlotOf,
           InOrderFrom, FirstListed
  <1> QED BY <1>2, <1>3, <1>4, <1>5, <1>6, <1>7, <1>8 DEF IInv

----------------------------------------------------------------------------
(* The tick thread                                                          *)

(* A step that leaves files, buffers, snapshots, seq_ and exports alone,    *)
(* and neither begins nor ends a commit, keeps everything about them.       *)
LEMMA QuietStep ==
  ASSUME IInv, UNCHANGED <<produced, oldest, seq, file, slot, snap, exp>>,
         Committing' = Committing,
         \A s \in Streams : Snapped(s)' => Snapped(s),
         tick' \in {"clearAudio", "advance"} => tick' = tick
  PROVE  /\ Buffers' /\ Cleared' /\ WindowInOrder' /\ SavedOnlyOnce'
         /\ KeptBeforeSnap' /\ CommittedInSnap' /\ ExportsOK'
  <1> USE DEF IInv
  <1>1. OldestKept' = OldestKept
    BY DEF OldestKept
  <1>2. Buffers' /\ Cleared'
    BY DEF Buffers, Cleared
  <1>3. WindowInOrder' /\ SavedOnlyOnce'
    BY <1>1 DEF WindowInOrder, SavedOnlyOnce, Before, FramesIn, SlotOf
  <1>4. KeptBeforeSnap' /\ CommittedInSnap'
    BY <1>1 DEF KeptBeforeSnap, CommittedInSnap, FramesIn, SlotOf
  <1>5. ExportsOK'
    BY DEF ExportsOK, ExportOK, Listing, Before, FramesIn, SlotOf,
           InOrderFrom, FirstListed
  <1> QED BY <1>2, <1>3, <1>4, <1>5

LEMMA TickWaitKeepsIInv ==
  ASSUME IInv, TickTest \/ TickWake \/ TickLock \/ TickAbort \/ TickHeaderFails
  PROVE  IInv'
  <1> USE DEF IInv
  <1>1. CASE TickTest
    <2> USE <1>1 DEF TickTest, TickGoto
    <2>1. TypeOK' /\ Control' /\ MutexHeld'
      BY DEF TypeOK, Control, MutexHeld, TickInside, Committing, Holding
    <2> QED BY <2>1, QuietStep DEF Committing, Snapped
  <1>2. CASE TickLock
    <2> USE <1>2 DEF TickLock, TickGoto
    <2>1. TypeOK' /\ Control'
      BY DEF TypeOK, Control, TickInside, Committing, SlotOf
    <2>2. MutexHeld'
      BY RingAssumption DEF MutexHeld, TickInside, Holding
    <2> QED BY <2>1, <2>2, QuietStep DEF Committing, Snapped
  <1>3. CASE TickAbort \/ TickHeaderFails
    <2> USE <1>3 DEF TickAbort, TickHeaderFails, TickReturn, TickGoto
    <2>1. slot' \in Slots /\ snap' = NoSnapshot
      BY RingAssumption DEF Slots
    <2>2. TypeOK'
      BY <2>1, NoSnapshotFacts DEF TypeOK
    <2>3. Control' /\ MutexHeld'
      BY RingAssumption DEF Control, MutexHeld, TickInside, Committing, Holding
    <2>4. ~Committing /\ ~Committing' /\ \A s \in Streams : ~Snapped(s)'
      BY DEF Committing, Snapped
    <2>5. Buffers' /\ Cleared'
      BY <2>1, NoSnapshotFacts DEF Buffers, Cleared, TypeOK
    <2>6. KeptBeforeSnap' /\ CommittedInSnap'
      BY <2>4 DEF KeptBeforeSnap, CommittedInSnap
    <2>7. OldestKept' = OldestKept
      BY <2>4 DEF OldestKept
    <2>8. WindowInOrder' /\ SavedOnlyOnce'
      BY <2>7 DEF WindowInOrder, SavedOnlyOnce, Before, FramesIn, SlotOf
    <2>9. ExportsOK'
      BY DEF ExportsOK, ExportOK, Listing, Before, FramesIn, SlotOf,
             InOrderFrom, FirstListed
    <2> QED BY <2>2, <2>3, <2>5, <2>6, <2>8, <2>9
  <1>4. CASE TickWake
    <2> USE <1>4 DEF TickWake
    <2>1. TypeOK'
      BY SlotInRing DEF TypeOK
    <2>2. Control' /\ MutexHeld'
      BY DEF Control, MutexHeld, TickInside, Committing, Holding, SlotOf
    <2>3. ~Committing /\ ~Committing' /\ \A s \in Streams : ~Snapped(s) /\ ~Snapped(s)'
      BY DEF Committing, Snapped
    <2>4. OldestKept' = OldestKept
      BY <2>3 DEF OldestKept
    <2>5. Buffers' /\ Cleared' /\ WindowInOrder' /\ SavedOnlyOnce'
      BY <2>4 DEF Buffers, Cleared, WindowInOrder, SavedOnlyOnce, Before,
                  FramesIn, SlotOf
    <2>6. KeptBeforeSnap' /\ CommittedInSnap'
      BY <2>3 DEF KeptBeforeSnap, CommittedInSnap
    <2>7. ExportsOK'
      BY DEF ExportsOK, ExportOK, Listing, Before, FramesIn, SlotOf,
             InOrderFrom, FirstListed
    <2> QED BY <2>1, <2>2, <2>5, <2>6, <2>7
  <1> QED BY <1>1, <1>2, <1>3, <1>4

LEMMA TickSnapKeepsIInv ==
  ASSUME IInv, TickSnapVideo \/ TickSnapAudio
  PROVE  IInv'
  <1> USE DEF IInv
  <1>1. PICK s \in Streams :
           /\ TakeSnapshot(s)
           /\ tick \in {"snapVideo", "snapAudio"}
           /\ tick' \in {"snapAudio", "open"}
           /\ s = "video" <=> tick = "snapVideo"
           /\ tick' = "open" <=> tick = "snapAudio"
    BY DEF TickSnapVideo, TickSnapAudio, TickGoto, Streams
  <1> USE <1>1 DEF TakeSnapshot
  <1>2. ~Committing /\ ~Committing' /\ OldestKept' = OldestKept
    BY DEF Committing, OldestKept
  <1>3. TypeOK'
    BY DEF TypeOK
  <1>4. Control' /\ MutexHeld'
    BY DEF Control, MutexHeld, TickInside, Committing, Holding, SlotOf
  <1>5. Buffers' /\ Cleared'
    BY RingAssumption DEF Buffers, Cleared, TypeOK
  <1>6. WindowInOrder' /\ SavedOnlyOnce' /\ CommittedInSnap'
    BY <1>2 DEF WindowInOrder, SavedOnlyOnce, CommittedInSnap, Before, FramesIn,
                SlotOf
  <1>7. KeptBeforeSnap'
    BY <1>2 DEF KeptBeforeSnap, SavedOnlyOnce, TypeOK, FramesIn, SlotOf, Snapped,
                Streams
  <1>8. ExportsOK'
    BY DEF ExportsOK, ExportOK, Listing, Before, FramesIn, SlotOf, InOrderFrom,
           FirstListed
  <1> QED BY <1>3, <1>4, <1>5, <1>6, <1>7, <1>8

(* Truncating or removing files keeps what is known of their order: a step *)
(* after which every slot holds what it held or nothing, and which changes *)
(* nothing else the window depends on.                                     *)
LEMMA ShrinkStep ==
  ASSUME TypeOK, WindowInOrder, SavedOnlyOnce, KeptBeforeSnap,
         UNCHANGED <<oldest, seq, snap>>,
         Committing' = Committing,
         \A s \in Streams : Snapped(s)' => Snapped(s),
         \A k \in Slots, s \in Streams :
            FramesIn(file[k], s)' \subseteq FramesIn(file[k], s)
  PROVE  WindowInOrder' /\ SavedOnlyOnce' /\ KeptBeforeSnap'
  <1>1. OldestKept' = OldestKept /\ seq' = seq
    BY DEF OldestKept
  <1>2. \A i \in OldestKept .. seq - 1, s \in Streams :
           FramesIn(file[SlotOf(i)], s)' \subseteq FramesIn(file[SlotOf(i)], s)
    BY KeptRange, SlotInRing DEF SlotOf
  <1>3. WindowInOrder'
    BY <1>1, <1>2 DEF WindowInOrder, Before, SlotOf
  <1>4. SavedOnlyOnce' /\ KeptBeforeSnap'
    BY <1>1, <1>2 DEF SavedOnlyOnce, KeptBeforeSnap, SlotOf
  <1> QED BY <1>3, <1>4

(* While the tick thread is inside the mutex or waits, no export runs. *)
LEMMA NobodyListing ==
  ASSUME TypeOK, MutexHeld, TickInside
  PROVE  \A e \in Exporters : ~Holding(e)
  BY RingAssumption DEF MutexHeld, TypeOK

LEMMA IdleExportsOK ==
  ASSUME ExportsOK, exp' = exp, \A e \in Exporters : ~Holding(e)
  PROVE  ExportsOK'
  BY DEF ExportsOK, ExportOK, Listing, Holding

LEMMA TickOpenKeepsIInv ==
  ASSUME IInv, TickOpen
  PROVE  IInv'
  <1> USE DEF IInv, TickOpen, TickGoto
  <1>1. \A k \in Slots : file'[k] = IF k = slot THEN Empty ELSE file[k]
    BY DEF TypeOK
  <1>2. file' \in [Slots -> FileType]
    BY DEF TypeOK, FileType, SegmentType, Empty
  <1>3. TypeOK'
    BY <1>2 DEF TypeOK
  <1>4. Control' /\ MutexHeld' /\ Buffers' /\ Cleared' /\ CommittedInSnap'
    BY DEF Control, MutexHeld, TickInside, Committing, Holding, SlotOf, Buffers,
           Cleared, CommittedInSnap
  <1>5. \A k \in Slots, s \in Streams :
           FramesIn(file[k], s)' \subseteq FramesIn(file[k], s)
    BY <1>1, RingAssumption DEF FramesIn, Empty
  <1>6. WindowInOrder' /\ SavedOnlyOnce' /\ KeptBeforeSnap'
    BY <1>5, ShrinkStep DEF Committing, Snapped
  <1>7. ExportsOK'
    BY NobodyListing, IdleExportsOK DEF TickInside
  <1> QED BY <1>3, <1>4, <1>6, <1>7

(* The commit begins: the slot of seq_ leaves the window and holds frames   *)
(* of the snapshot, which are newer than those of every kept segment.       *)
LEMMA TickMuxKeepsIInv ==
  ASSUME IInv, TickMux
  PROVE  IInv'
  <1> USE DEF IInv
  <1> DEFINE new(p) == [s \in Streams |-> snap[s].from ..
                          snap[s].from + (IF s = "video" THEN p[1] ELSE p[2]) - 1]
  <1>1. PICK p \in MuxPrefixes(SnapSize("video"), SnapSize("audio")) :
           file' = [file EXCEPT ![slot] = new(p)]
    BY DEF TickMux
  <1>2. /\ tick = "mux" /\ tick' = "clearVideo" /\ lock' = "free"
        /\ UNCHANGED <<produced, oldest, seq, slot, snap, stopping, owner, dir,
                       list, exp>>
        /\ slot = SlotOf(seq)
    BY DEF TickMux, TickGoto, Control, TickInside
  <1>3. /\ p[1] \in Nat /\ p[1] <= snap["video"].upto - snap["video"].from
        /\ p[2] \in Nat /\ p[2] <= snap["audio"].upto - snap["audio"].from
    BY DEF MuxPrefixes, SnapSize, TypeOK, Streams
  <1>4. \A s \in Streams : \A x \in new(p)[s] :
           x \in 0 .. MaxFrames - 1 /\ snap[s].from <= x /\ x < snap[s].upto
    BY <1>3, RingAssumption DEF TypeOK, Streams
  <1>5. new(p) \in SegmentType
    BY <1>4 DEF SegmentType
  <1> HIDE DEF new
  <1>6. \A k \in Slots : file'[k] = IF k = slot THEN new(p) ELSE file[k]
    BY <1>1 DEF TypeOK
  <1>7. TypeOK'
    BY <1>1, <1>2, <1>5 DEF TypeOK, FileType
  <1>8. Control' /\ MutexHeld' /\ Buffers' /\ Cleared'
    BY <1>2, RingAssumption DEF Control, MutexHeld, TickInside, Committing, Holding,
       SlotOf, Buffers, Cleared
  <1>9. /\ OldestKept \in Nat /\ OldestKept' \in Nat /\ OldestKept <= OldestKept'
        /\ \A i \in (OldestKept .. seq - 1)' :
              i \in OldestKept .. seq - 1 /\ SlotOf(i) \in Slots \ {slot}
    <2>1. ~Committing /\ Committing'
      BY <1>2 DEF Committing
    <2>2. OldestKept \in Nat /\ OldestKept' \in Nat /\ OldestKept <= OldestKept'
      BY <1>2, <2>1, RingAssumption DEF OldestKept, TypeOK
    <2>3. ASSUME NEW i \in (OldestKept .. seq - 1)'
          PROVE  i \in OldestKept .. seq - 1 /\ SlotOf(i) \in Slots \ {slot}
      <3>1. i \in Nat /\ seq \in Nat /\ i < seq /\ seq - i < RingSize
        BY <1>2, <2>1, <2>2, RingAssumption DEF TypeOK, OldestKept
      <3>2. i \in OldestKept .. seq - 1
        BY <1>2, <2>2, <3>1 DEF TypeOK
      <3>3. SlotOf(i) # slot
        BY <1>2, <3>1, SlotsDistinct
      <3> QED BY <3>1, <3>2, <3>3, SlotInRing
    <2> QED BY <2>2, <2>3
  <1>10. \A i \in (OldestKept .. seq - 1)' : file'[SlotOf(i)] = file[SlotOf(i)]
    BY <1>6, <1>9
  <1>11. WindowInOrder' /\ SavedOnlyOnce'
    BY <1>2, <1>9, <1>10 DEF WindowInOrder, SavedOnlyOnce, Before, FramesIn, SlotOf
  <1>12. KeptBeforeSnap'
    BY <1>2, <1>9, <1>10 DEF KeptBeforeSnap, FramesIn, SlotOf, Snapped
  <1>13. CommittedInSnap'
    <2>1. file'[slot'] = new(p)
      BY <1>2, <1>6 DEF TypeOK
    <2>2. new(p) \notin {NoFile, Leftover}
      BY <1>5, SegmentsAreFiles
    <2> QED BY <1>2, <1>4, <2>1, <2>2 DEF CommittedInSnap, FramesIn
  <1>14. ExportsOK'
    BY <1>2, NobodyListing, IdleExportsOK DEF TickInside
  <1> QED BY <1>7, <1>8, <1>11, <1>12, <1>13, <1>14

LEMMA TickClearKeepsIInv ==
  ASSUME IInv, TickClearVideo \/ TickClearAudio
  PROVE  IInv'
  <1> USE DEF IInv
  <1>1. PICK s \in Streams :
           /\ oldest' = [oldest EXCEPT ![s] = produced[s]]
           /\ tick \in {"clearVideo", "clearAudio"}
           /\ tick' = IF s = "video" THEN "clearAudio" ELSE "advance"
           /\ s = "video" <=> tick = "clearVideo"
    BY DEF TickClearVideo, TickClearAudio, TickClear, TickGoto, ClearBuffer, Streams
  <1>2. UNCHANGED <<produced, seq, file, lock, slot, snap, stopping, owner, dir,
                    list, exp>>
    BY DEF TickClearVideo, TickClearAudio, TickClear
  <1>3. Committing /\ Committing' /\ OldestKept' = OldestKept
    BY <1>1, <1>2 DEF Committing, OldestKept
  <1>4. oldest' \in [Streams -> 0 .. MaxFrames] /\ \A t \in Streams :
           oldest[t] <= oldest'[t] /\ oldest'[t] <= produced[t]
    BY <1>1, RingAssumption DEF TypeOK, Buffers
  <1>5. TypeOK'
    BY <1>1, <1>2, <1>4 DEF TypeOK
  <1>6. Control' /\ MutexHeld'
    BY <1>1, <1>2 DEF Control, MutexHeld, TickInside, Committing, Holding, SlotOf
  <1>7. Buffers'
    BY <1>2, <1>4, RingAssumption DEF Buffers, TypeOK
  <1>8. Cleared'
    <2>1. \A t \in Streams : snap[t].upto \in Int /\ snap[t].upto <= produced[t]
      BY RingAssumption DEF Buffers, TypeOK
    <2>2. oldest'[s] = produced[s] /\ \A t \in Streams \ {s} : oldest'[t] = oldest[t]
      BY <1>1 DEF TypeOK
    <2> QED BY <1>1, <1>2, <2>1, <2>2 DEF Cleared, Streams
  <1>9. WindowInOrder' /\ KeptBeforeSnap' /\ CommittedInSnap'
    BY <1>2, <1>3 DEF WindowInOrder, KeptBeforeSnap, CommittedInSnap, Before,
                      FramesIn, SlotOf, Snapped
  <1>10. SavedOnlyOnce'
    <2> SUFFICES ASSUME NEW i \in OldestKept .. seq - 1, NEW t \in Streams,
                        NEW x \in FramesIn(file[SlotOf(i)], t)
                 PROVE  x < oldest'[t]
      BY <1>2, <1>3 DEF SavedOnlyOnce, FramesIn, SlotOf
    <2>1. x < oldest[t]
      BY DEF SavedOnlyOnce
    <2>2. x \in Int
      BY KeptFramesAreInts
    <2> QED BY <1>4, <2>1, <2>2, RingAssumption DEF TypeOK
  <1>11. ExportsOK'
    BY <1>2 DEF ExportsOK, ExportOK, Listing, Before, FramesIn, SlotOf,
                InOrderFrom, FirstListed
  <1> QED BY <1>5, <1>6, <1>7, <1>8, <1>9, <1>10, <1>11

(* The commit ends: the window gains the segment just committed, whose      *)
(* frames are newer than the window's and older than the buffers'.          *)
LEMMA TickAdvanceKeepsIInv ==
  ASSUME IInv, TickAdvance
  PROVE  IInv'
  <1> USE DEF IInv
  <1>1. /\ tick = "advance" /\ tick' = "test" /\ seq' = seq + 1
        /\ slot' \in Slots /\ snap' = NoSnapshot
        /\ UNCHANGED <<produced, oldest, file, lock, stopping, owner, dir, list,
                       exp>>
        /\ Committing /\ ~Committing' /\ slot = SlotOf(seq) /\ seq \in Nat
    BY RingAssumption DEF TickAdvance, TickReturn, TickGoto, Committing, Control,
                          TypeOK, Slots
  <1>2. TypeOK' /\ Control' /\ MutexHeld' /\ Buffers' /\ Cleared'
    <2>1. TypeOK'
      BY <1>1, NoSnapshotFacts DEF TypeOK
    <2>2. Control' /\ MutexHeld'
      BY <1>1 DEF Control, MutexHeld, TickInside, Committing, Holding
    <2>3. Buffers' /\ Cleared'
      BY <1>1, NoSnapshotFacts DEF Buffers, Cleared, TypeOK
    <2> QED BY <2>1, <2>2, <2>3
  <1>3. \A i \in (OldestKept .. seq - 1)' : i \in OldestKept .. seq - 1 \/ i = seq
    BY <1>1, RingAssumption DEF OldestKept
  <1>4. \A s \in Streams : \A x \in FramesIn(file[slot], s) :
           x \in Int /\ snap[s].from <= x /\ x < oldest[s]
    <2> TAKE s \in Streams
    <2> TAKE x \in FramesIn(file[slot], s)
    <2>1. x \in Int
      BY FramesAreInts DEF TypeOK
    <2>2. snap[s].from <= x /\ x < snap[s].upto
      BY <1>1 DEF CommittedInSnap
    <2>3. snap[s].upto <= oldest[s]
      BY <1>1 DEF Cleared, Streams
    <2>4. snap[s].upto \in Int /\ oldest[s] \in Int
      BY RingAssumption DEF TypeOK
    <2> QED BY <2>1, <2>2, <2>3, <2>4
  <1>5. \A i \in OldestKept .. seq - 1, s \in Streams :
           \A x \in FramesIn(file[SlotOf(i)], s) : x \in Int /\ x < snap[s].from
    BY <1>1, KeptFramesAreInts DEF KeptBeforeSnap, Snapped
  <1>6. \A s \in Streams : snap[s].from \in Int
    BY RingAssumption DEF TypeOK
  <1>7. WindowInOrder'
    <2> SUFFICES ASSUME NEW i \in (OldestKept .. seq - 1)',
                        NEW j \in (OldestKept .. seq - 1)', i < j
                 PROVE  Before(file[SlotOf(i)], file[SlotOf(j)])
      BY <1>1 DEF WindowInOrder, Before, FramesIn, SlotOf
    <2>1. CASE j \in OldestKept .. seq - 1
      <3>1. i \in OldestKept .. seq - 1
        BY <1>1, <1>3, <2>1
      <3> QED BY <2>1, <3>1 DEF WindowInOrder
    <2>2. CASE j = seq
      <3>1. i \in OldestKept .. seq - 1
        BY <1>1, <1>3, <2>2
      <3> SUFFICES ASSUME NEW s \in Streams, NEW x \in FramesIn(file[SlotOf(i)], s),
                          NEW y \in FramesIn(file[SlotOf(j)], s)
                   PROVE  x < y
        BY DEF Before
      <3>2. x \in Int /\ x < snap[s].from
        BY <1>5, <3>1
      <3>3. y \in Int /\ snap[s].from <= y
        BY <1>1, <1>4, <2>2
      <3> QED BY <1>6, <3>2, <3>3
    <2> QED BY <1>3, <2>1, <2>2
  <1>8. SavedOnlyOnce'
    BY <1>1, <1>3, <1>4 DEF SavedOnlyOnce, FramesIn, SlotOf
  <1>9. KeptBeforeSnap' /\ CommittedInSnap'
    BY <1>1 DEF KeptBeforeSnap, CommittedInSnap, Snapped, Committing
  <1>10. ExportsOK'
    BY <1>1 DEF ExportsOK, ExportOK, Listing, Before, FramesIn, SlotOf,
                InOrderFrom, FirstListed
  <1> QED BY <1>2, <1>7, <1>8, <1>9, <1>10

----------------------------------------------------------------------------
(* The exports                                                              *)

(* A step of one export that leaves everything but exp, lock and list       *)
(* alone keeps what is known of the ring.                                   *)
LEMMA ExportLeavesRing ==
  ASSUME IInv,
         UNCHANGED <<produced, oldest, seq, file, tick, slot, snap, stopping,
                     owner, dir>>
  PROVE  /\ Control' /\ Buffers' /\ Cleared' /\ WindowInOrder'
         /\ SavedOnlyOnce' /\ KeptBeforeSnap' /\ CommittedInSnap'
  BY DEF IInv, Control, TickInside, Committing, SlotOf, Buffers, Cleared,
         WindowInOrder, SavedOnlyOnce, KeptBeforeSnap, CommittedInSnap,
         OldestKept, Before, FramesIn, Snapped

(* What is known of the exports other than e survives a step of e. *)
LEMMA OtherExportsOK ==
  ASSUME IInv, NEW e \in Exporters, file' = file,
         NEW x, exp' = [exp EXCEPT ![e] = x], ExportOK(e)'
  PROVE  ExportsOK'
  <1>1. \A d \in Exporters \ {e} : exp'[d] = exp[d]
    BY DEF IInv, TypeOK
  <1>2. ASSUME NEW d \in Exporters \ {e} PROVE ExportOK(d)'
    BY <1>1 DEF IInv, ExportsOK, ExportOK, Listing, Before, FramesIn, SlotOf,
                InOrderFrom, FirstListed
  <1> QED BY <1>2 DEF ExportsOK

LEMMA ExportWaitKeepsIInv ==
  ASSUME IInv, NEW e \in Exporters, ExportCall(e) \/ ExportLock(e)
  PROVE  IInv'
  <1> USE DEF IInv
  <1>1. PICK pc \in {"lock", "list"} :
           /\ exp' = [exp EXCEPT ![e].pc = pc]
           /\ exp[e].pc = IF pc = "lock" THEN "idle" ELSE "lock"
           /\ pc = "lock" => lock' = lock
           /\ pc = "list" => lock = "free" /\ lock' = e
           /\ list' = list
    BY DEF ExportCall, ExportLock, ExportGoto
  <1>2. UNCHANGED <<produced, oldest, seq, file, tick, slot, snap, stopping,
                    owner, dir>>
    BY DEF ExportCall, ExportLock
  <1>3. exp' = [exp EXCEPT ![e] = [exp[e] EXCEPT !.pc = pc]]
    BY <1>1
  <1>4. [exp[e] EXCEPT !.pc = pc] \in ExporterType
    BY <1>1 DEF TypeOK, ExporterType
  <1>5. /\ exp'[e].pc = pc /\ exp'[e].out = exp[e].out
        /\ \A d \in Exporters \ {e} : exp'[d] = exp[d]
    BY <1>3 DEF TypeOK, ExporterType
  <1>6. TypeOK'
    BY <1>1, <1>2, <1>3, <1>4 DEF TypeOK
  <1>7. MutexHeld'
    BY <1>1, <1>2, <1>5, RingAssumption DEF MutexHeld, TickInside, Holding
  <1>8. ExportOK(e)'
    BY <1>1, <1>5 DEF ExportsOK, ExportOK, Listing
  <1>9. ExportsOK'
    BY <1>2, <1>3, <1>8, OtherExportsOK
  <1> QED BY <1>2, <1>6, <1>7, <1>9, ExportLeavesRing

(* The listing: all of it but its first segment is inside the window. *)
LEMMA ExportListKeepsIInv ==
  ASSUME IInv, NEW e \in Exporters, ExportList(e)
  PROVE  IInv'
  <1> USE DEF IInv
  <1> DEFINE x == [exp[e] EXCEPT !.pc = "spawn", !.next = FirstListed(seq),
                                 !.upto = seq]
  <1>1. exp[e].pc = "list" /\ exp' = [exp EXCEPT ![e] = x] /\ list' = dir
    BY DEF ExportList
  <1>2. UNCHANGED <<produced, oldest, seq, file, lock, tick, slot, snap, stopping,
                    owner, dir>>
    BY DEF ExportList
  <1>3. FirstListed(seq) \in Nat
    BY RingAssumption DEF FirstListed, Smaller, TypeOK
  <1>4. x \in ExporterType
    BY <1>3 DEF TypeOK, ExporterType
  <1>5. /\ x.pc = "spawn" /\ x.next = FirstListed(seq) /\ x.upto = seq
        /\ x.out = <<>>
    BY <1>1 DEF TypeOK, ExporterType, ExportsOK, ExportOK, Listing
  <1> HIDE DEF x
  <1>6. TypeOK'
    BY <1>1, <1>2, <1>4 DEF TypeOK
  <1>7. exp'[e] = x /\ \A d \in Exporters \ {e} : exp'[d] = exp[d]
    BY <1>1 DEF TypeOK
  <1>8. MutexHeld'
    BY <1>1, <1>2, <1>5, <1>7 DEF MutexHeld, TickInside, Holding
  <1>9. \A i \in FirstListed(seq) .. seq - 1 :
           FirstListed(seq) < i => i \in OldestKept .. seq - 1
    BY <1>3, RingAssumption DEF FirstListed, Smaller, OldestKept, TypeOK
  <1>10. \A i, j \in FirstListed(seq) .. seq - 1 :
            FirstListed(seq) < i /\ i < j => Before(file[SlotOf(i)], file[SlotOf(j)])
    BY <1>3, <1>9 DEF WindowInOrder, TypeOK
  <1>11. ExportOK(e)'
    BY <1>2, <1>3, <1>5, <1>7, <1>10
       DEF ExportOK, Listing, InOrderFrom, Before, FramesIn, SlotOf, FirstListed
  <1>12. ExportsOK'
    BY <1>1, <1>2, <1>11, OtherExportsOK
  <1> QED BY <1>2, <1>6, <1>8, <1>12, ExportLeavesRing

LEMMA ExportSpawnKeepsIInv ==
  ASSUME IInv, NEW e \in Exporters, ExportSpawn(e)
  PROVE  IInv'
  <1> USE DEF IInv
  <1>1. exp[e].pc = "spawn" /\ exp' = [exp EXCEPT ![e] = [exp[e] EXCEPT !.pc = "concat"]]
    BY DEF ExportSpawn, ExportGoto
  <1>2. UNCHANGED <<produced, oldest, seq, file, lock, tick, slot, snap, stopping,
                    owner, dir, list>>
    BY DEF ExportSpawn
  <1>3. /\ exp'[e].pc = "concat" /\ exp'[e].out = exp[e].out
        /\ exp'[e].next = exp[e].next /\ exp'[e].upto = exp[e].upto
        /\ \A d \in Exporters \ {e} : exp'[d] = exp[d]
    BY <1>1 DEF TypeOK, ExporterType
  <1>4. TypeOK'
    BY <1>1, <1>2 DEF TypeOK, ExporterType
  <1>5. MutexHeld'
    BY <1>1, <1>2, <1>3 DEF MutexHeld, TickInside, Holding
  <1>6. ExportOK(e)'
    BY <1>1, <1>2, <1>3 DEF ExportsOK, ExportOK, Listing, InOrderFrom, Before,
       FramesIn, SlotOf, FirstListed
  <1>7. ExportsOK'
    BY <1>1, <1>2, <1>6, OtherExportsOK
  <1> QED BY <1>2, <1>4, <1>5, <1>7, ExportLeavesRing

(* The next file: unless it is the first of the listing, it continues what *)
(* has been written and precedes what is to come.                          *)
LEMMA ExportConcatKeepsIInv ==
  ASSUME IInv, NEW e \in Exporters, ExportConcat(e)
  PROVE  IInv'
  <1> USE DEF IInv
  <1> DEFINE f == file[SlotOf(exp[e].next)]
             x == [exp[e] EXCEPT !.out = Append(exp[e].out, f),
                                 !.next = exp[e].next + 1]
             first == FirstListed(exp[e].upto)
  <1>0. exp \in [Exporters -> ExporterType]
    BY DEF TypeOK
  <1>1. /\ exp[e].pc = "concat" /\ exp[e].next < exp[e].upto
        /\ exp' = [exp EXCEPT ![e] = x]
    BY <1>0 DEF ExportConcat, ExporterType
  <1>2. UNCHANGED <<produced, oldest, seq, file, lock, tick, slot, snap, stopping,
                    owner, dir, list>>
    BY DEF ExportConcat
  <1>3. /\ exp[e] \in ExporterType /\ exp[e].next \in Nat /\ exp[e].upto \in Nat
        /\ exp[e].out \in Seq(FileType)
    BY DEF TypeOK, ExporterType
  <1>4. f \in FileType
    BY <1>3, SlotInRing DEF TypeOK
  <1> HIDE DEF f
  <1>5. x \in ExporterType
    <2>1. Append(exp[e].out, f) \in Seq(FileType) /\ exp[e].next + 1 \in Nat
      BY <1>3, <1>4
    <2> QED BY <1>3, <2>1 DEF ExporterType
  <1>6. /\ x.pc = "concat" /\ x.next = exp[e].next + 1 /\ x.upto = exp[e].upto
        /\ x.out = Append(exp[e].out, f)
    BY <1>1, <1>3 DEF ExporterType
  <1> HIDE DEF x
  <1>7. exp'[e] = x /\ \A d \in Exporters \ {e} : exp'[d] = exp[d]
    BY <1>1 DEF TypeOK
  <1>8. TypeOK'
    BY <1>1, <1>2, <1>5 DEF TypeOK
  <1>9. MutexHeld'
    BY <1>1, <1>2, <1>6, <1>7 DEF MutexHeld, TickInside, Holding
  <1>10. /\ exp[e].next = first + Len(exp[e].out)
         /\ \A i, j \in exp[e].next .. exp[e].upto - 1 :
               first < i /\ i < j => Before(file[SlotOf(i)], file[SlotOf(j)])
         /\ \A k \in 2 .. Len(exp[e].out), j \in exp[e].next .. exp[e].upto - 1 :
               Before(exp[e].out[k], file[SlotOf(j)])
         /\ InOrderFrom(2, exp[e].out)
    BY <1>1 DEF ExportsOK, ExportOK, Listing
  <1>11. /\ Len(x.out) = Len(exp[e].out) + 1 /\ Len(exp[e].out) \in Nat
         /\ x.out[Len(x.out)] = f
         /\ \A k \in 1 .. Len(exp[e].out) : x.out[k] = exp[e].out[k]
    BY <1>3, <1>4, <1>6
  <1>12. first \in Nat
    BY <1>3, RingAssumption DEF FirstListed, Smaller
  <1> HIDE DEF first
  <1>13. x.next = first + Len(x.out)
    BY <1>6, <1>10, <1>11, <1>12
  <1>14. \A i, j \in x.next .. x.upto - 1 :
            first < i /\ i < j => Before(file[SlotOf(i)], file[SlotOf(j)])
    BY <1>3, <1>6, <1>10
  <1>15. \A k \in 2 .. Len(x.out), j \in x.next .. x.upto - 1 :
            Before(x.out[k], file[SlotOf(j)])
    <2> SUFFICES ASSUME NEW k \in 2 .. Len(x.out), NEW j \in x.next .. x.upto - 1
                 PROVE  Before(x.out[k], file[SlotOf(j)])
      OBVIOUS
    <2>1. CASE k \in 2 .. Len(exp[e].out)
      BY <1>3, <1>6, <1>10, <1>11, <2>1
    <2>2. CASE k = Len(x.out)
      <3>1. first < exp[e].next /\ exp[e].next \in exp[e].next .. exp[e].upto - 1
        BY <1>1, <1>3, <1>10, <1>11, <1>12, <2>2
      <3>2. j \in exp[e].next .. exp[e].upto - 1 /\ exp[e].next < j
        BY <1>3, <1>6
      <3>3. Before(f, file[SlotOf(j)])
        BY <1>10, <3>1, <3>2 DEF f
      <3> QED BY <1>11, <2>2, <3>3
    <2> QED BY <1>11, <2>1, <2>2
  <1>16. InOrderFrom(2, x.out)
    <2> SUFFICES ASSUME NEW i \in 2 .. Len(x.out), NEW j \in 2 .. Len(x.out), i < j
                 PROVE  Before(x.out[i], x.out[j])
      BY DEF InOrderFrom
    <2>1. i \in 2 .. Len(exp[e].out) /\ x.out[i] = exp[e].out[i]
      BY <1>11
    <2>2. CASE j \in 2 .. Len(exp[e].out)
      BY <1>10, <1>11, <2>1, <2>2 DEF InOrderFrom
    <2>3. CASE j = Len(x.out)
      <3>1. exp[e].next \in exp[e].next .. exp[e].upto - 1
        BY <1>1, <1>3
      <3> QED BY <1>10, <1>11, <2>1, <2>3, <3>1 DEF f
    <2> QED BY <1>11, <2>2, <2>3
  <1>17. ExportOK(e)'
    <2>1. Listing(e)' /\ FirstListed(exp[e].upto)' = first
      BY <1>6, <1>7 DEF Listing, first, FirstListed
    <2> QED BY <1>2, <1>7, <1>13, <1>14, <1>15, <1>16, <2>1
            DEF ExportOK, InOrderFrom, Before, FramesIn, SlotOf
  <1>18. ExportsOK'
    BY <1>1, <1>2, <1>17, OtherExportsOK
  <1> QED BY <1>2, <1>8, <1>9, <1>18, ExportLeavesRing

LEMMA ExportReturnKeepsIInv ==
  ASSUME IInv, NEW e \in Exporters, ExportSucceeds(e) \/ ExportFails(e)
  PROVE  IInv'
  <1> USE DEF IInv
  <1> DEFINE x == [pc |-> "idle", next |-> 0, upto |-> 0, out |-> <<>>]
  <1>1. /\ exp[e].pc \in {"spawn", "concat"}
        /\ exp' = [exp EXCEPT ![e] = x] /\ lock' = "free" /\ list' \in BOOLEAN
    BY DEF ExportSucceeds, ExportFails, ExportReturn, TypeOK
  <1>2. UNCHANGED <<produced, oldest, seq, file, tick, slot, snap, stopping,
                    owner, dir>>
    BY DEF ExportSucceeds, ExportFails
  <1>3. x \in ExporterType /\ x.pc = "idle" /\ x.out = <<>>
    BY DEF ExporterType
  <1> HIDE DEF x
  <1>4. exp'[e] = x /\ \A d \in Exporters \ {e} : exp'[d] = exp[d]
    BY <1>1 DEF TypeOK
  <1>5. TypeOK'
    BY <1>1, <1>2, <1>3 DEF TypeOK
  <1>6. MutexHeld'
    BY <1>1, <1>2, <1>3, <1>4, RingAssumption DEF MutexHeld, TickInside, Holding
  <1>7. ExportOK(e)'
    BY <1>3, <1>4 DEF ExportOK, Listing
  <1>8. ExportsOK'
    BY <1>1, <1>2, <1>7, OtherExportsOK
  <1> QED BY <1>2, <1>5, <1>6, <1>8, ExportLeavesRing

----------------------------------------------------------------------------
(* start() and stop()                                                       *)

LEMMA OwnerWaitKeepsIInv ==
  ASSUME IInv, Start \/ RequestStop \/ Join
  PROVE  IInv'
  <1> USE DEF IInv
  <1>1. /\ TypeOK' /\ Control' /\ MutexHeld'
        /\ UNCHANGED <<produced, oldest, seq, file, slot, snap, exp>>
    BY DEF Start, RequestStop, Join, TypeOK, Control, MutexHeld, TickInside,
           Committing, Holding
  <1>2. /\ Committing' = Committing
        /\ \A s \in Streams : Snapped(s)' => Snapped(s)
        /\ tick' \in {"clearAudio", "advance"} => tick' = tick
    BY DEF Start, RequestStop, Join, Control, Committing, Snapped
  <1> QED BY <1>1, <1>2, QuietStep

(* Removing files takes frames away from the window and from what exports  *)
(* have yet to read, and adds none.                                        *)
LEMMA RemoveDirKeepsIInv ==
  ASSUME IInv, RemoveDir
  PROVE  IInv'
  <1> USE DEF IInv
  <1>1. /\ owner = "removing" /\ owner' = "resetting" /\ tick = "done"
        /\ UNCHANGED <<produced, oldest, seq, lock, tick, slot, snap, stopping, exp>>
    BY DEF RemoveDir, Control
  <1>2. /\ file' \in [Slots -> FileType]
        /\ \A k \in Slots : file'[k] = NoFile \/ file'[k] = file[k]
        /\ dir' \in BOOLEAN /\ list' \in BOOLEAN
    BY DEF RemoveDir, TypeOK, FileType
  <1>3. TypeOK' /\ Control' /\ MutexHeld'
    BY <1>1, <1>2 DEF TypeOK, Control, MutexHeld, TickInside, Committing, Holding
  <1>4. Buffers' /\ Cleared' /\ CommittedInSnap'
    BY <1>1 DEF Buffers, Cleared, CommittedInSnap, Committing
  <1>5. \A k \in Slots, s \in Streams :
           FramesIn(file[k], s)' \subseteq FramesIn(file[k], s)
    BY <1>2 DEF FramesIn
  <1>6. WindowInOrder' /\ SavedOnlyOnce' /\ KeptBeforeSnap'
    BY <1>1, <1>5, ShrinkStep DEF Committing, Snapped
  <1>7. ASSUME NEW e \in Exporters PROVE ExportOK(e)'
    <2>1. ExportOK(e) /\ exp[e].next \in Nat /\ exp[e].upto \in Nat
      BY DEF ExportsOK, TypeOK, ExporterType
    <2>2. \A i \in exp[e].next .. exp[e].upto - 1, s \in Streams :
             FramesIn(file[SlotOf(i)], s)' \subseteq FramesIn(file[SlotOf(i)], s)
      BY <1>5, <2>1, SlotInRing DEF SlotOf
    <2> QED BY <1>1, <2>1, <2>2 DEF ExportOK, Listing, Before, FramesIn, SlotOf,
               InOrderFrom, FirstListed
  <1> QED BY <1>3, <1>4, <1>6, <1>7 DEF ExportsOK

(* The window is empty again. *)
LEMMA ResetSeqKeepsIInv ==
  ASSUME IInv, ResetSeq
  PROVE  IInv'
  <1> USE DEF IInv
  <1>1. /\ owner = "resetting" /\ owner' = "stopped" /\ seq' = 0 /\ tick = "done"
        /\ UNCHANGED <<produced, oldest, file, lock, tick, slot, snap, stopping,
                       dir, list, exp>>
    BY DEF ResetSeq, Control
  <1>2. TypeOK' /\ Control' /\ MutexHeld'
    BY <1>1 DEF TypeOK, Control, MutexHeld, TickInside, Committing, Holding
  <1>3. Buffers' /\ Cleared' /\ CommittedInSnap'
    BY <1>1 DEF Buffers, Cleared, CommittedInSnap, Committing
  <1>4. (OldestKept .. seq - 1)' = {}
    BY <1>1, RingAssumption DEF OldestKept, Committing
  <1>5. WindowInOrder' /\ SavedOnlyOnce' /\ KeptBeforeSnap'
    BY <1>4 DEF WindowInOrder, SavedOnlyOnce, KeptBeforeSnap
  <1>6. ExportsOK'
    BY <1>1 DEF ExportsOK, ExportOK, Listing, Before, FramesIn, SlotOf,
                InOrderFrom, FirstListed
  <1> QED BY <1>2, <1>3, <1>5, <1>6

LEMMA StutterKeepsIInv ==
  ASSUME IInv, UNCHANGED vars
  PROVE  IInv'
  <1> USE DEF IInv, vars
  <1>1. TypeOK' /\ Control' /\ MutexHeld'
    BY DEF TypeOK, Control, MutexHeld, TickInside, Committing, Holding
  <1> QED BY <1>1, QuietStep DEF Committing, Snapped

----------------------------------------------------------------------------
(* The theorems                                                             *)

(* Every action keeps the inductive invariant. *)
LEMMA NextKeepsIInv ==
  ASSUME IInv, [Next]_vars
  PROVE  IInv'
  <1>1. CASE \E s \in Streams : Push(s)
    BY <1>1, PushKeepsIInv
  <1>2. CASE TickNext
    BY <1>2, TickWaitKeepsIInv, TickSnapKeepsIInv, TickOpenKeepsIInv,
       TickMuxKeepsIInv, TickClearKeepsIInv, TickAdvanceKeepsIInv DEF TickNext
  <1>3. CASE \E e \in Exporters : ExportCall(e) \/ ExportNext(e)
    BY <1>3, ExportWaitKeepsIInv, ExportListKeepsIInv, ExportSpawnKeepsIInv,
       ExportConcatKeepsIInv, ExportReturnKeepsIInv DEF ExportNext
  <1>4. CASE OwnerNext
    BY <1>4, OwnerWaitKeepsIInv, RemoveDirKeepsIInv, ResetSeqKeepsIInv
       DEF OwnerNext
  <1>5. CASE UNCHANGED vars
    BY <1>5, StutterKeepsIInv
  <1> QED BY <1>1, <1>2, <1>3, <1>4, <1>5 DEF Next

(* The conjunction that the ring, its buffers and its exports keep for ever. *)
THEOREM IInvHolds == Spec => []IInv
  BY InitIInv, NextKeepsIInv, PTL DEF Spec

(* Every variable keeps its type: in particular idx is always a slot of the *)
(* ring and the buffers never hold more frames than were delivered.         *)
THEOREM TypeCorrect == Spec => []TypeOK
  <1>1. IInv => TypeOK
    BY DEF IInv
  <1> QED BY <1>1, IInvHolds, PTL

(* segment_mutex_ is held exactly by the thread that is at the files, so    *)
(* the tick thread and the exports never overlap.                           *)
THEOREM MutualExclusion == Spec => []MutexHeld
  <1>1. IInv => MutexHeld
    BY DEF IInv
  <1> QED BY <1>1, IInvHolds, PTL

(* The segments the ring keeps are in chronological order.                  *)
THEOREM WindowStaysInOrder == Spec => []WindowInOrder
  <1>1. IInv => WindowInOrder
    BY DEF IInv
  <1> QED BY <1>1, IInvHolds, PTL

(* No frame that a kept segment holds is still in a buffer to be muxed.     *)
THEOREM FramesSavedOnlyOnce == Spec => []SavedOnlyOnce
  <1>1. IInv => SavedOnlyOnce
    BY DEF IInv
  <1> QED BY <1>1, IInvHolds, PTL

(* An export is in chronological order from its second segment on, whatever *)
(* the tick thread, stop() and the encoders do meanwhile.                   *)
THEOREM ExportsMisplaceAtMostTheFirst == Spec => []OnlyFirstMisplaced
  <1>1. IInv => OnlyFirstMisplaced
    BY DEF IInv, ExportsOK, ExportOK, OnlyFirstMisplaced, InOrderFrom
  <1> QED BY <1>1, IInvHolds, PTL

----------------------------------------------------------------------------
(* What exports write                                                       *)

(* What a commit has written is the front of the snapshot. *)
CommittedPrefix ==
    Committing => \A s \in Streams : \E n \in Int :
                      FramesIn(file[slot], s) = snap[s].from .. n

(* Every number below seq_, and every number an export lists, has had its   *)
(* slot written since start().                                              *)
NoLeftovers ==
    /\ \A i \in 0 .. seq - 1 : file[SlotOf(i)] # Leftover
    /\ Committing => file[slot] # Leftover
    /\ \A e \in Exporters :
          Listing(e) => \A i \in 0 .. exp[e].upto - 1 : file[SlotOf(i)] # Leftover

(* The listing of e was made at a seq_ that has been reached, unless seq_   *)
(* was reset; and if seq_ has not moved and is not about to, all that e has *)
(* read precedes what it has yet to read, the first segment included.       *)
CleanOK(e) ==
    LET x == exp[e]
    IN  Listing(e) =>
          /\ x.next <= x.upto
          /\ x.upto <= seq \/ owner = "stopped"
          /\ x.upto = seq /\ ~Committing =>
                /\ \A k \in 1 .. Len(x.out), j \in x.next .. x.upto - 1 :
                       Before(x.out[k], file[SlotOf(j)])
                /\ InOrderFrom(1, x.out)

EInv == /\ CommittedPrefix
        /\ NoLeftovers
        /\ NoLeftoverExported
        /\ \A e \in Exporters : CleanOK(e)

(* What the merge loop leaves in the slot: the front of the snapshot.       *)
LEMMA TickMuxWrites ==
  ASSUME IInv, TickMux
  PROVE  \E g \in SegmentType :
            /\ file' = [file EXCEPT ![slot] = g]
            /\ \A s \in Streams : \E n \in Int : g[s] = snap[s].from .. n
  <1> DEFINE new(p) == [s \in Streams |-> snap[s].from ..
                          snap[s].from + (IF s = "video" THEN p[1] ELSE p[2]) - 1]
  <1>1. PICK p \in MuxPrefixes(SnapSize("video"), SnapSize("audio")) :
           file' = [file EXCEPT ![slot] = new(p)]
    BY DEF TickMux
  <1>2. /\ p[1] \in Nat /\ p[1] <= snap["video"].upto - snap["video"].from
        /\ p[2] \in Nat /\ p[2] <= snap["audio"].upto - snap["audio"].from
    BY DEF MuxPrefixes, SnapSize, TypeOK, Streams, IInv
  <1>3. \A s \in Streams : \A x \in new(p)[s] : x \in 0 .. MaxFrames - 1
    BY <1>2, RingAssumption DEF TypeOK, Streams, IInv
  <1>4. new(p) \in SegmentType
    BY <1>3 DEF SegmentType
  <1>5. \A s \in Streams : \E n \in Int : new(p)[s] = snap[s].from .. n
    <2> TAKE s \in Streams
    <2>1. snap[s].from \in Int
      BY RingAssumption DEF TypeOK, IInv
    <2> QED BY <1>2, <2>1
  <1> HIDE DEF new
  <1> QED BY <1>1, <1>4, <1>5

(* The three ways a slot may change: opened or filled by the tick thread    *)
(* inside the mutex, or removed.                                            *)
LEMMA FileSteps ==
  ASSUME IInv, [Next]_vars
  PROVE  \/ file' = file
         \/ /\ TickInside
            /\ \E g \in SegmentType : file' = [file EXCEPT ![slot] = g]
            /\ UNCHANGED <<seq, slot, exp, owner>>
         \/ /\ owner = "removing"
            /\ \A k \in Slots : file'[k] = NoFile \/ file'[k] = file[k]
            /\ UNCHANGED <<seq, slot, exp, tick>>
  <1>1. CASE \/ \E s \in Streams : Push(s)
             \/ \E e \in Exporters : ExportCall(e) \/ ExportNext(e)
             \/ UNCHANGED vars
    BY <1>1 DEF Push, ExportCall, ExportNext, ExportLock, ExportList, ExportSpawn,
       ExportConcat, ExportSucceeds, ExportFails, vars
  <1>2. CASE \/ TickTest \/ TickWake \/ TickLock \/ TickAbort \/ TickHeaderFails
             \/ TickSnapVideo \/ TickSnapAudio \/ TickClearVideo \/ TickClearAudio
             \/ TickAdvance
    BY <1>2 DEF TickTest, TickWake, TickLock, TickAbort, TickHeaderFails,
       TickSnapVideo, TickSnapAudio, TakeSnapshot, TickClearVideo, TickClearAudio,
       TickClear, TickReturn, TickAdvance
  <1>3. CASE TickOpen
    <2>1. Empty \in SegmentType
      BY DEF Empty, SegmentType
    <2> QED BY <1>3, <2>1 DEF TickOpen, TickGoto, TickInside
  <1>4. CASE TickMux
    BY <1>4, TickMuxWrites DEF TickMux, TickGoto, TickInside
  <1>5. CASE Start \/ RequestStop \/ Join \/ ResetSeq
    BY <1>5 DEF Start, RequestStop, Join, ResetSeq
  <1>6. CASE RemoveDir
    BY <1>6 DEF RemoveDir
  <1> QED BY <1>1, <1>2, <1>3, <1>4, <1>5, <1>6 DEF Next, TickNext, OwnerNext

(* The ways seq_ may move, and a commit begin or end. *)
LEMMA SeqSteps ==
  ASSUME IInv, [Next]_vars
  PROVE  \/ /\ seq' = seq /\ Committing' = Committing
            /\ Committing => UNCHANGED <<slot, snap, file>>
            /\ owner = "stopped" => owner' = "stopped"
         \/ TickMux
         \/ TickAdvance
         \/ ResetSeq
  <1> USE DEF IInv, Control
  <1>1. CASE \/ \E s \in Streams : Push(s)
             \/ \E e \in Exporters : ExportCall(e) \/ ExportNext(e)
             \/ UNCHANGED vars
    BY <1>1 DEF Push, ExportCall, ExportNext, ExportLock, ExportList, ExportSpawn,
       ExportConcat, ExportSucceeds, ExportFails, vars, Committing
  <1>2. CASE \/ TickTest \/ TickWake \/ TickLock \/ TickAbort \/ TickHeaderFails
             \/ TickSnapVideo \/ TickSnapAudio \/ TickClearVideo \/ TickClearAudio
             \/ TickOpen
    BY <1>2 DEF TickTest, TickWake, TickLock, TickAbort, TickHeaderFails,
       TickSnapVideo, TickSnapAudio, TakeSnapshot, TickClearVideo, TickClearAudio,
       TickClear, TickOpen, TickReturn, TickGoto, Committing
  <1>3. CASE Start \/ RequestStop \/ Join
    BY <1>3 DEF Start, RequestStop, Join, Committing
  <1>4. CASE RemoveDir
    <2>1. /\ owner = "removing" /\ tick = "done"
          /\ UNCHANGED <<seq, tick>>
      BY <1>4 DEF RemoveDir
    <2> QED BY <2>1 DEF Committing
  <1> QED BY <1>1, <1>2, <1>3, <1>4 DEF Next, TickNext, OwnerNext

(* A file that e has listed and not yet read changes only under stop().     *)
THEOREM ListedFilesStayStable == Spec => ListedFilesStable
  <1>1. ASSUME IInv, [Next]_vars
        PROVE  [\A e \in Exporters : Listing(e) /\ Listing(e)' =>
                  \A i \in exp[e].next .. exp[e].upto - 1 :
                     file'[SlotOf(i)] # file[SlotOf(i)] => owner = "removing"]_vars
    <2>1. CASE file' = file
      BY <2>1
    <2>2. CASE TickInside
      BY <1>1, <2>2, NobodyListing DEF IInv, Listing, Holding
    <2>3. CASE owner = "removing"
      BY <2>3
    <2> QED BY <1>1, <2>1, <2>2, <2>3, FileSteps
  <1> QED BY <1>1, IInvHolds, PTL DEF Spec, ListedFilesStable

(* The ways the state of an export may change. *)
RingStays == UNCHANGED <<file, seq, tick, slot, owner>>

ListsNothing(e) == ~Listing(e)' /\ exp'[e].out = <<>>

MakesListing(e) ==
    /\ Listing(e)' /\ exp'[e].out = <<>>
    /\ exp'[e].next = FirstListed(seq) /\ exp'[e].upto = seq
    /\ RingStays

KeepsListing(e) ==
    /\ Listing(e) /\ exp'[e].out = exp[e].out
    /\ exp'[e].next = exp[e].next /\ exp'[e].upto = exp[e].upto
    /\ RingStays

ReadsNext(e) ==
    /\ Listing(e) /\ exp[e].next < exp[e].upto
    /\ exp'[e].out = Append(exp[e].out, file[SlotOf(exp[e].next)])
    /\ exp'[e].next = exp[e].next + 1 /\ exp'[e].upto = exp[e].upto
    /\ RingStays

ExportMove(e) == \/ exp'[e] = exp[e] \/ ListsNothing(e)
                 \/ MakesListing(e) \/ KeepsListing(e) \/ ReadsNext(e)

LEMMA ExportSteps ==
  ASSUME IInv, [Next]_vars, NEW e \in Exporters
  PROVE  ExportMove(e)
  <1> USE DEF ExportMove, ListsNothing, MakesListing, KeepsListing, ReadsNext, RingStays
  <1> USE DEF IInv
  <1>1. exp \in [Exporters -> ExporterType]
    BY DEF TypeOK
  <1>2. CASE exp' = exp
    BY <1>2
  <1>3. ASSUME NEW d \in Exporters, ExportCall(d) \/ ExportNext(d)  PROVE ExportMove(e)
    <2>1. PICK x : exp' = [exp EXCEPT ![d] = x]
      BY <1>3 DEF ExportCall, ExportNext, ExportLock, ExportList, ExportSpawn, ExportConcat,
         ExportSucceeds, ExportFails, ExportReturn, ExportGoto
    <2>2. CASE d # e
      BY <1>1, <2>1, <2>2
    <2>3. CASE d = e
      <3>1. CASE ExportCall(e) \/ ExportLock(e)
        BY <1>1, <3>1 DEF ExportCall, ExportLock, ExportGoto, Listing, ExporterType,
           ExportsOK, ExportOK
      <3>2. CASE ExportSucceeds(e) \/ ExportFails(e)
        BY <1>1, <3>2 DEF ExportSucceeds, ExportFails, ExportReturn, Listing
      <3>3. CASE ExportList(e)
        BY <1>1, <3>3 DEF ExportList, Listing, ExporterType, ExportsOK, ExportOK
      <3>4. CASE ExportSpawn(e)
        BY <1>1, <3>4 DEF ExportSpawn, ExportGoto, Listing, ExporterType
      <3>5. CASE ExportConcat(e)
        BY <1>1, <3>5 DEF ExportConcat, Listing, ExporterType
      <3> QED BY <1>3, <2>3, <3>1, <3>2, <3>3, <3>4, <3>5 DEF ExportNext
    <2> QED BY <2>2, <2>3
  <1>4. CASE \/ \E s \in Streams : Push(s)
             \/ TickNext \/ OwnerNext \/ UNCHANGED vars
    BY <1>4 DEF Push, TickNext, TickTest, TickWake, TickLock, TickAbort, TickHeaderFails,
       TickSnapVideo, TickSnapAudio, TakeSnapshot, TickClearVideo, TickClearAudio,
       TickClear, TickOpen, TickMux, TickAdvance, OwnerNext, Start, RequestStop, Join,
       RemoveDir, ResetSeq, vars
  <1> QED BY <1>3, <1>4 DEF Next

LEMMA InitEInv == Init => EInv
  <1> SUFFICES ASSUME Init PROVE EInv
    OBVIOUS
  <1> USE DEF Init
  <1>1. CommittedPrefix /\ NoLeftovers
    BY DEF CommittedPrefix, NoLeftovers, Committing, Listing
  <1>2. NoLeftoverExported /\ \A e \in Exporters : CleanOK(e)
    BY DEF NoLeftoverExported, CleanOK, Listing
  <1> QED BY <1>1, <1>2 DEF EInv

(* What a commit writes is the front of the snapshot. *)
LEMMA KeepsCommittedPrefix ==
  ASSUME IInv, CommittedPrefix, [Next]_vars
  PROVE  CommittedPrefix'
  <1> USE DEF IInv
  <1>1. CASE TickMux
    <2>1. PICK g \in SegmentType :
             /\ file' = [file EXCEPT ![slot] = g]
             /\ \A s \in Streams : \E n \in Int : g[s] = snap[s].from .. n
      BY <1>1, TickMuxWrites
    <2>2. /\ slot' = slot /\ snap' = snap /\ file'[slot] = g
          /\ g \notin {NoFile, Leftover}
      BY <1>1, <2>1, SegmentsAreFiles DEF TickMux, TypeOK
    <2> QED BY <2>1, <2>2 DEF CommittedPrefix, FramesIn
  <1>2. CASE TickAdvance \/ ResetSeq
    BY <1>2 DEF TickAdvance, TickReturn, TickGoto, ResetSeq, Control, CommittedPrefix, Committing
  <1>3. CASE Committing' = Committing /\ (Committing => UNCHANGED <<slot, snap, file>>)
    BY <1>3 DEF CommittedPrefix, FramesIn
  <1> QED BY <1>1, <1>2, <1>3, SeqSteps

(* No slot becomes a leftover. *)
LEMMA LeftoversOnlyStay ==
  ASSUME IInv, [Next]_vars
  PROVE  \A k \in Slots : file'[k] = Leftover => file[k] = Leftover
  <1>1. \A g \in SegmentType : g # Leftover
    BY SegmentsAreFiles
  <1>2. NoFile # Leftover
    BY RingAssumption
  <1>3. file \in [Slots -> FileType]
    BY DEF IInv, TypeOK
  <1> QED BY <1>1, <1>2, <1>3, FileSteps

LEMMA KeepsNoLeftovers ==
  ASSUME IInv, NoLeftovers, [Next]_vars
  PROVE  NoLeftovers'
  <1> USE DEF IInv
  <1>1. seq \in Nat /\ slot \in Slots /\ \A i \in Nat : SlotOf(i) \in Slots
    BY SlotInRing DEF TypeOK
  <1>2. \A k \in Slots : file[k] # Leftover => file'[k] # Leftover
    BY LeftoversOnlyStay
  <1>3. /\ \A i \in 0 .. seq' - 1 : file'[SlotOf(i)] # Leftover
        /\ Committing' => file'[slot'] # Leftover
    <2>1. CASE TickMux
      <3>1. /\ slot' = slot /\ seq' = seq
            /\ \E g \in SegmentType : file' = [file EXCEPT ![slot] = g]
        BY <2>1, TickMuxWrites DEF TickMux
      <3>2. file'[slot] # Leftover
        BY <1>1, <3>1, SegmentsAreFiles DEF TypeOK
      <3> QED BY <1>1, <1>2, <3>1, <3>2 DEF NoLeftovers
    <2>2. CASE TickAdvance
      BY <1>1, <2>2 DEF TickAdvance, TickReturn, TickGoto, Control, Committing, NoLeftovers
    <2>3. CASE ResetSeq
      BY <2>3 DEF ResetSeq, Control, Committing
    <2>4. CASE /\ seq' = seq /\ Committing' = Committing
               /\ Committing => UNCHANGED <<slot, snap, file>>
      BY <1>1, <1>2, <2>4 DEF NoLeftovers
    <2> QED BY <2>1, <2>2, <2>3, <2>4, SeqSteps
  <1>4. ASSUME NEW e \in Exporters, Listing(e)'
        PROVE  \A i \in 0 .. exp'[e].upto - 1 : file'[SlotOf(i)] # Leftover
    <2>1. CASE Listing(e) /\ exp'[e].upto = exp[e].upto
      BY <1>1, <1>2, <2>1 DEF NoLeftovers
    <2>2. CASE MakesListing(e)
      BY <2>2 DEF NoLeftovers, MakesListing, RingStays
    <2> QED BY <1>4, <2>1, <2>2, ExportSteps
            DEF ExportMove, ListsNothing, KeepsListing, ReadsNext, Listing
  <1> QED BY <1>3, <1>4 DEF NoLeftovers, SlotOf

(* What an export has written, it has read from listed slots. *)
LEMMA KeepsNoLeftoverExported ==
  ASSUME IInv, NoLeftovers, NoLeftoverExported, [Next]_vars
  PROVE  NoLeftoverExported'
  <1> USE DEF IInv
  <1> SUFFICES ASSUME NEW e \in Exporters, NEW i \in DOMAIN exp'[e].out
               PROVE  exp'[e].out[i] # Leftover
    BY DEF NoLeftoverExported
  <1>1. exp[e].out \in Seq(FileType) /\ exp[e].next \in Nat /\ exp[e].upto \in Nat
    BY DEF TypeOK, ExporterType
  <1>2. CASE exp'[e].out = exp[e].out
    BY <1>2 DEF NoLeftoverExported
  <1>3. CASE exp'[e].out = <<>>
    BY <1>3
  <1>4. CASE ReadsNext(e)
    <2> DEFINE f == file[SlotOf(exp[e].next)]
    <2>1. f \in FileType /\ f # Leftover
      BY <1>1, <1>4, SlotInRing DEF ReadsNext, NoLeftovers, TypeOK
    <2> HIDE DEF f
    <2>2. exp'[e].out = Append(exp[e].out, f)
      BY <1>4 DEF ReadsNext, f
    <2>3. \/ i \in DOMAIN exp[e].out /\ exp'[e].out[i] = exp[e].out[i]
          \/ exp'[e].out[i] = f
      BY <1>1, <2>1, <2>2
    <2> QED BY <2>1, <2>3 DEF NoLeftoverExported
  <1> QED BY <1>2, <1>3, <1>4, ExportSteps
          DEF ExportMove, ListsNothing, MakesListing, KeepsListing

(* What an export lists, and that it is kept as long as no tick commits. *)
LEMMA FirstListedRange ==
  /\ \A cur \in Nat : FirstListed(cur) \in Nat /\ FirstListed(cur) <= cur
  /\ seq \in Nat /\ ~Committing => OldestKept <= FirstListed(seq)
  BY RingAssumption DEF FirstListed, Smaller, OldestKept

(* An export between two steps of its own. *)
LEMMA CleanWhileWaiting ==
  ASSUME IInv, NEW e \in Exporters, CleanOK(e), [Next]_vars, exp'[e] = exp[e]
  PROVE  CleanOK(e)'
  <1> USE DEF IInv
  <1> SUFFICES ASSUME Listing(e), Listing(e)' PROVE CleanOK(e)'
    BY DEF CleanOK, Listing
  <1>1. /\ exp[e].next \in Nat /\ exp[e].upto \in Nat /\ exp[e].out \in Seq(FileType)
        /\ seq \in Nat /\ file \in [Slots -> FileType]
    BY DEF TypeOK, ExporterType
  <1>2. exp[e].next <= exp[e].upto /\ (exp[e].upto <= seq \/ owner = "stopped")
    BY DEF CleanOK
  <1>3. CASE TickMux
    BY <1>2, <1>3 DEF TickMux, TickGoto, CleanOK, Committing
  <1>4. CASE TickAdvance
    <2>1. owner # "stopped" /\ seq' = seq + 1
      BY <1>4 DEF TickAdvance, TickReturn, TickGoto, Control
    <2> QED BY <1>1, <1>2, <2>1 DEF CleanOK
  <1>5. CASE ResetSeq
    <2>1. seq' = 0 /\ owner' = "stopped"
      BY <1>5 DEF ResetSeq
    <2>2. exp[e].next = FirstListed(exp[e].upto) + Len(exp[e].out)
      BY DEF ExportsOK, ExportOK
    <2>3. exp[e].upto = 0 => Len(exp[e].out) = 0
      <3>1. Len(exp[e].out) \in Nat
        BY <1>1
      <3>2. FirstListed(exp[e].upto) \in Nat
        BY <1>1, FirstListedRange
      <3> QED BY <1>1, <1>2, <2>2, <3>1, <3>2
    <2> QED BY <1>1, <1>2, <2>1, <2>3 DEF CleanOK, InOrderFrom
  <1>6. CASE /\ seq' = seq /\ Committing' = Committing
             /\ owner = "stopped" => owner' = "stopped"
    <2>1. \A k \in Slots : file'[k] = NoFile \/ file'[k] = file[k]
      <3>1. ~TickInside
        BY NobodyListing DEF Listing, Holding
      <3> QED BY <3>1, FileSteps
    <2>2. \A j \in exp[e].next .. exp[e].upto - 1, s \in Streams :
             FramesIn(file'[SlotOf(j)], s) \subseteq FramesIn(file[SlotOf(j)], s)
      BY <1>1, <2>1, SlotInRing DEF FramesIn
    <2>3. ASSUME exp[e].upto = seq, ~Committing
          PROVE  /\ \A k \in 1 .. Len(exp[e].out), j \in exp[e].next .. exp[e].upto - 1 :
                        Before(exp[e].out[k], file'[SlotOf(j)])
                 /\ InOrderFrom(1, exp[e].out)
      <3>1. /\ \A k \in 1 .. Len(exp[e].out), j \in exp[e].next .. exp[e].upto - 1 :
                   Before(exp[e].out[k], file[SlotOf(j)])
            /\ InOrderFrom(1, exp[e].out)
        BY <2>3 DEF CleanOK
      <3> QED BY <2>2, <3>1 DEF Before
    <2> QED BY <1>2, <1>6, <2>3 DEF CleanOK, InOrderFrom, Before, FramesIn, SlotOf
  <1> QED BY <1>3, <1>4, <1>5, <1>6, SeqSteps

(* The next file of a listing whose segments are all still kept. *)
LEMMA CleanAfterReading ==
  ASSUME IInv, NEW e \in Exporters, CleanOK(e), ReadsNext(e)
  PROVE  CleanOK(e)'
  <1> USE DEF IInv
  <1> DEFINE f == file[SlotOf(exp[e].next)]
             out == exp[e].out
             grown == Append(out, f)
  <1>1. /\ exp[e].next \in Nat /\ exp[e].upto \in Nat /\ out \in Seq(FileType)
        /\ seq \in Nat /\ f \in FileType
    BY SlotInRing DEF TypeOK, ExporterType
  <1>2. /\ exp[e].next < exp[e].upto /\ Listing(e)
        /\ exp'[e].out = grown /\ exp'[e].next = exp[e].next + 1
        /\ exp'[e].upto = exp[e].upto
        /\ UNCHANGED <<file, seq, tick, owner>>
    BY DEF ReadsNext, RingStays
  <1>3. exp[e].upto <= seq \/ owner = "stopped"
    BY <1>2 DEF CleanOK
  <1>4. ASSUME exp[e].upto = seq, ~Committing
        PROVE  /\ \A k \in 1 .. Len(grown), j \in exp[e].next + 1 .. exp[e].upto - 1 :
                      Before(grown[k], file[SlotOf(j)])
               /\ InOrderFrom(1, grown)
    <2>1. /\ \A k \in 1 .. Len(out), j \in exp[e].next .. exp[e].upto - 1 :
                 Before(out[k], file[SlotOf(j)])
          /\ InOrderFrom(1, out)
      BY <1>2, <1>4 DEF CleanOK
    <2>2. /\ Len(grown) = Len(out) + 1 /\ Len(out) \in Nat
          /\ grown[Len(out) + 1] = f /\ \A k \in 1 .. Len(out) : grown[k] = out[k]
      BY <1>1
    <2>3. exp[e].next \in OldestKept .. seq - 1
      <3>1. exp[e].next = FirstListed(seq) + Len(out)
        BY <1>2, <1>4 DEF ExportsOK, ExportOK
      <3>2. /\ FirstListed(seq) \in Nat /\ OldestKept <= FirstListed(seq)
            /\ OldestKept \in Nat
        BY <1>1, <1>4, FirstListedRange, KeptRange
      <3>3. Len(out) \in Nat /\ exp[e].next < seq
        BY <1>2, <1>4, <2>2
      <3> HIDE DEF grown, out
      <3> QED BY <1>1, <3>1, <3>2, <3>3
    <2> HIDE DEF grown, out
    <2>4. \A j \in exp[e].next + 1 .. exp[e].upto - 1 : Before(f, file[SlotOf(j)])
      <3>1. OldestKept \in Nat
        BY KeptRange
      <3> QED BY <1>1, <1>4, <2>3, <3>1 DEF WindowInOrder
    <2> HIDE DEF f
    <2>5. \A k \in 1 .. Len(grown), j \in exp[e].next + 1 .. exp[e].upto - 1 :
             Before(grown[k], file[SlotOf(j)])
      <3> SUFFICES ASSUME NEW k \in 1 .. Len(grown),
                          NEW j \in exp[e].next + 1 .. exp[e].upto - 1
                   PROVE  Before(grown[k], file[SlotOf(j)])
        OBVIOUS
      <3>1. CASE k \in 1 .. Len(out)
        BY <1>1, <2>1, <2>2, <3>1
      <3>2. CASE k = Len(out) + 1
        BY <2>2, <2>4, <3>2
      <3> QED BY <2>2, <3>1, <3>2
    <2>6. InOrderFrom(1, grown)
      <3> SUFFICES ASSUME NEW i \in 1 .. Len(grown), NEW j \in 1 .. Len(grown), i < j
                   PROVE  Before(grown[i], grown[j])
        BY DEF InOrderFrom
      <3>1. CASE j \in 1 .. Len(out)
        BY <2>1, <2>2, <3>1 DEF InOrderFrom
      <3>2. CASE j = Len(out) + 1
        <4>1. i \in 1 .. Len(out) /\ exp[e].next \in exp[e].next .. exp[e].upto - 1
          BY <1>1, <1>2, <2>2, <3>2
        <4> QED BY <2>1, <2>2, <3>2, <4>1 DEF f
      <3> QED BY <2>2, <3>1, <3>2
    <2> QED BY <2>5, <2>6
  <1> HIDE DEF grown, out
  <1> QED BY <1>1, <1>2, <1>3, <1>4
          DEF CleanOK, InOrderFrom, Before, FramesIn, SlotOf, Committing

LEMMA KeepsCleanOK ==
  ASSUME IInv, NEW e \in Exporters, CleanOK(e), [Next]_vars
  PROVE  CleanOK(e)'
  <1> USE DEF IInv
  <1>1. CASE ListsNothing(e)
    BY <1>1 DEF ListsNothing, CleanOK
  <1>2. CASE MakesListing(e)
    <2>1. FirstListed(seq) \in Nat /\ FirstListed(seq) <= seq /\ seq \in Nat
      BY RingAssumption DEF FirstListed, Smaller, TypeOK
    <2>2. /\ exp'[e].out = <<>> /\ exp'[e].next = FirstListed(seq) /\ exp'[e].upto = seq
          /\ seq' = seq
      BY <1>2 DEF MakesListing, RingStays
    <2> QED BY <2>1, <2>2 DEF CleanOK, InOrderFrom
  <1>3. CASE KeepsListing(e)
    BY <1>3 DEF KeepsListing, RingStays, CleanOK, InOrderFrom, Before, FramesIn, SlotOf,
                Committing
  <1> QED BY <1>1, <1>2, <1>3, CleanWhileWaiting, CleanAfterReading, ExportSteps
          DEF ExportMove

LEMMA NextKeepsEInv ==
  ASSUME IInv, EInv, [Next]_vars
  PROVE  EInv'
  BY KeepsCommittedPrefix, KeepsNoLeftovers, KeepsNoLeftoverExported, KeepsCleanOK
     DEF EInv

(* What running exports and the files they will read have in common.        *)
THEOREM EInvHolds == Spec => []EInv
  BY InitEInv, NextKeepsEInv, IInvHolds, PTL DEF Spec

(* An export that lists while no tick commits writes a chronological        *)
(* recording, its first segment included.                                   *)
THEOREM CleanExportsInOrder == Spec => []CleanExportInOrder
  <1>1. EInv => CleanExportInOrder
    BY DEF EInv, CleanOK, CleanExportInOrder
  <1> QED BY <1>1, EInvHolds, PTL

(* No file of an earlier run of the program gets into a recording.          *)
THEOREM LeftoversNeverExported == Spec => []NoLeftoverExported
  <1>1. EInv => NoLeftoverExported
    BY DEF EInv
  <1> QED BY <1>1, EInvHolds, PTL

(* A frame leaves a buffer unsaved only by eviction, by arriving after the  *)
(* snapshot, or beyond the end of the merge loop.                           *)
THEOREM LossesAreKnown == Spec => NoOtherLoss
  <1> DEFINE Known == \A s \in Streams : \A f \in Buffered(s) :
               f < oldest'[s] =>
                  \/ produced'[s] > produced[s]
                  \/ /\ Committing
                     /\ \/ f \in FramesIn(file[slot], s)
                        \/ f >= snap[s].upto
                        \/ \A x \in FramesIn(file[slot], s) : x < f
  <1>1. ASSUME IInv, EInv, [Next]_vars PROVE [Known]_vars
    <2> USE <1>1 DEF IInv
    <2>1. \A s \in Streams : produced[s] \in Int /\ oldest[s] \in Int
      BY RingAssumption DEF TypeOK
    <2>2. CASE oldest' = oldest
      BY <2>1, <2>2 DEF Buffered
    <2>3. ASSUME NEW s \in Streams, Push(s) PROVE Known
      BY <2>1, <2>3 DEF Push, TypeOK, Buffered
    <2>4. CASE TickClearVideo \/ TickClearAudio
      <3>1. Committing
        BY <2>4 DEF TickClearVideo, TickClearAudio, TickClear, TickGoto, Committing
      <3>2. ASSUME NEW s \in Streams, NEW f \in Buffered(s)
            PROVE  f \in FramesIn(file[slot], s) \/ \A x \in FramesIn(file[slot], s) : x < f
        <4>1. PICK n \in Int : FramesIn(file[slot], s) = snap[s].from .. n
          BY <1>1, <3>1 DEF EInv, CommittedPrefix
        <4>2. f \in Int /\ snap[s].from \in Int /\ snap[s].from <= f
          BY <2>1, RingAssumption DEF Buffered, Buffers, TypeOK
        <4> QED BY <4>1, <4>2
      <3> QED BY <3>1, <3>2
    <2>5. CASE \/ TickTest \/ TickWake \/ TickLock \/ TickAbort \/ TickHeaderFails
               \/ TickSnapVideo \/ TickSnapAudio \/ TickOpen \/ TickMux \/ TickAdvance
      BY <2>2, <2>5 DEF TickTest, TickWake, TickLock, TickAbort, TickHeaderFails,
         TickSnapVideo, TickSnapAudio, TakeSnapshot, TickOpen, TickMux, TickAdvance
    <2>6. CASE \/ \E e \in Exporters : ExportCall(e) \/ ExportNext(e)
               \/ OwnerNext \/ UNCHANGED vars
      BY <2>2, <2>6 DEF ExportCall, ExportNext, ExportLock, ExportList, ExportSpawn,
         ExportConcat, ExportSucceeds, ExportFails, OwnerNext, Start, RequestStop, Join,
         RemoveDir, ResetSeq, vars
    <2> QED BY <2>3, <2>4, <2>5, <2>6 DEF Next, TickNext
  <1> QED BY <1>1, IInvHolds, EInvHolds, PTL DEF Spec, NoOtherLoss
=============================================================================
