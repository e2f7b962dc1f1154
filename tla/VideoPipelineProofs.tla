------------------------ MODULE VideoPipelineProofs ------------------------
(* Proofs about VideoPipeline, for every size of the queue, capacity of the *)
(* buffer, delay of the codec and number of frames.                         *)
EXTENDS VideoPipeline, SequenceTheorems, TLAPS

----------------------------------------------------------------------------
(* Sequences of timestamps                                                  *)

Rising(s) == \A i, j \in 1 .. Len(s) : i < j => s[i] < s[j]

Below(s, t) == \A i \in 1 .. Len(s), j \in 1 .. Len(t) : s[i] < t[j]

AllBefore(s, n) == \A i \in 1 .. Len(s) : s[i] < n

AllAfter(s, n) == \A i \in 1 .. Len(s) : n < s[i]

(* What an element at the end, the loss of the first one, and a             *)
(* concatenation do to the order.                                           *)
LEMMA AppendOrder ==
  ASSUME NEW s \in Seq(Int), NEW x \in Int
  PROVE  LET r == Append(s, x)
         IN  /\ Rising(s) /\ AllBefore(s, x) => Rising(r)
             /\ \A n \in Int : AllBefore(s, n) /\ x < n => AllBefore(r, n)
             /\ \A n \in Int : AllAfter(s, n) /\ n < x => AllAfter(r, n)
             /\ \A t \in Seq(Int) : Below(t, s) /\ AllBefore(t, x) => Below(t, r)
             /\ \A t \in Seq(Int) : Below(s, t) /\ AllAfter(t, x) => Below(r, t)
  <1> DEFINE r == Append(s, x)
  <1>1. /\ Len(r) = Len(s) + 1 /\ Len(s) \in Nat
        /\ \A i \in 1 .. Len(s) : r[i] = s[i] /\ s[i] \in Int
        /\ r[Len(s) + 1] = x
    BY LenProperties, AppendProperties
  <1>2. \A i \in 1 .. Len(r) : (i \in 1 .. Len(s) /\ r[i] = s[i]) \/ (i = Len(r) /\ r[i] = x)
    BY <1>1
  <1> HIDE DEF r
  <1>3. Rising(s) /\ AllBefore(s, x) => Rising(r)
    BY <1>1, <1>2 DEF Rising, AllBefore
  <1>4. \A n \in Int : AllBefore(s, n) /\ x < n => AllBefore(r, n)
    BY <1>2 DEF AllBefore
  <1>5. \A n \in Int : AllAfter(s, n) /\ n < x => AllAfter(r, n)
    BY <1>2 DEF AllAfter
  <1>6. \A t \in Seq(Int) : Below(t, s) /\ AllBefore(t, x) => Below(t, r)
    BY <1>2 DEF Below, AllBefore
  <1>7. \A t \in Seq(Int) : Below(s, t) /\ AllAfter(t, x) => Below(r, t)
    BY <1>2 DEF Below, AllAfter
  <1> QED BY <1>3, <1>4, <1>5, <1>6, <1>7 DEF r

LEMMA TailOrder ==
  ASSUME NEW s \in Seq(Int), s # <<>>
  PROVE  LET r == Tail(s)
         IN  /\ Rising(s) => Rising(r) /\ AllAfter(r, Head(s))
             /\ \A n \in Int : AllBefore(s, n) => AllBefore(r, n) /\ Head(s) < n
             /\ \A n \in Int : AllAfter(s, n) => AllAfter(r, n) /\ n < Head(s)
             /\ \A t \in Seq(Int) : Below(t, s) => Below(t, r) /\ AllBefore(t, Head(s))
             /\ \A t \in Seq(Int) : Below(s, t) => Below(r, t) /\ AllAfter(t, Head(s))
  <1> DEFINE r == Tail(s)
  <1>1. /\ Len(r) = Len(s) - 1 /\ Len(s) \in Nat /\ Len(s) >= 1 /\ Head(s) = s[1]
        /\ \A i \in 1 .. Len(r) : r[i] = s[i + 1] /\ i + 1 \in 1 .. Len(s) /\ 1 < i + 1
        /\ 1 \in 1 .. Len(s)
    BY LenProperties, HeadTailProperties
  <1> HIDE DEF r
  <1>2. ASSUME Rising(s) PROVE Rising(r) /\ AllAfter(r, Head(s))
    <2>1. ASSUME NEW i \in 1 .. Len(r), NEW j \in 1 .. Len(r), i < j
          PROVE  r[i] < r[j]
      <3>1. /\ r[i] = s[i + 1] /\ r[j] = s[j + 1] /\ i + 1 < j + 1
            /\ i + 1 \in 1 .. Len(s) /\ j + 1 \in 1 .. Len(s)
        BY <1>1, <2>1
      <3> QED BY <1>2, <3>1 DEF Rising
    <2>2. AllAfter(r, Head(s))
      BY <1>1, <1>2 DEF Rising, AllAfter
    <2> QED BY <2>1, <2>2 DEF Rising
  <1>3. \A n \in Int : AllBefore(s, n) => AllBefore(r, n) /\ Head(s) < n
    BY <1>1 DEF AllBefore
  <1>4. \A n \in Int : AllAfter(s, n) => AllAfter(r, n) /\ n < Head(s)
    BY <1>1 DEF AllAfter
  <1>5. \A t \in Seq(Int) : Below(t, s) => Below(t, r) /\ AllBefore(t, Head(s))
    BY <1>1 DEF Below, AllBefore
  <1>6. \A t \in Seq(Int) : Below(s, t) => Below(r, t) /\ AllAfter(t, Head(s))
    BY <1>1 DEF Below, AllAfter
  <1> QED BY <1>2, <1>3, <1>4, <1>5, <1>6 DEF r

LEMMA ConcatOrder ==
  ASSUME NEW s1 \in Seq(Int), NEW s2 \in Seq(Int)
  PROVE  LET r == s1 \o s2
         IN  /\ Rising(s1) /\ Rising(s2) /\ Below(s1, s2) => Rising(r)
             /\ \A n \in Int : AllBefore(s1, n) /\ AllBefore(s2, n) => AllBefore(r, n)
             /\ \A n \in Int : AllAfter(s1, n) /\ AllAfter(s2, n) => AllAfter(r, n)
             /\ \A t \in Seq(Int) : Below(t, s1) /\ Below(t, s2) => Below(t, r)
             /\ \A t \in Seq(Int) : Below(s1, t) /\ Below(s2, t) => Below(r, t)
  <1> DEFINE r == s1 \o s2
  <1>1. /\ Len(r) = Len(s1) + Len(s2) /\ Len(s1) \in Nat /\ Len(s2) \in Nat
        /\ \A i \in 1 .. Len(s1) + Len(s2) :
              r[i] = IF i <= Len(s1) THEN s1[i] ELSE s2[i - Len(s1)]
    BY LenProperties, ConcatProperties
  <1>2. \A i \in 1 .. Len(r) :
           \/ i \in 1 .. Len(s1) /\ r[i] = s1[i]
           \/ i > Len(s1) /\ i - Len(s1) \in 1 .. Len(s2) /\ r[i] = s2[i - Len(s1)]
    BY <1>1
  <1> HIDE DEF r
  <1>3. ASSUME Rising(s1), Rising(s2), Below(s1, s2) PROVE Rising(r)
    <2> SUFFICES ASSUME NEW i \in 1 .. Len(r), NEW j \in 1 .. Len(r), i < j
                 PROVE  r[i] < r[j]
      BY DEF Rising
    <2>1. CASE i \in 1 .. Len(s1) /\ j \in 1 .. Len(s1)
      BY <1>1, <1>3, <2>1 DEF Rising
    <2>2. CASE i \in 1 .. Len(s1) /\ j \notin 1 .. Len(s1)
      <3>1. /\ r[i] = s1[i] /\ r[j] = s2[j - Len(s1)]
            /\ j - Len(s1) \in 1 .. Len(s2)
        BY <1>1, <1>2, <2>2
      <3> QED BY <1>3, <2>2, <3>1 DEF Below
    <2>3. CASE i \notin 1 .. Len(s1)
      <3>1. j \notin 1 .. Len(s1)
        BY <1>1, <2>3
      <3>2. /\ r[i] = s2[i - Len(s1)] /\ r[j] = s2[j - Len(s1)]
            /\ i - Len(s1) \in 1 .. Len(s2) /\ j - Len(s1) \in 1 .. Len(s2)
            /\ i - Len(s1) < j - Len(s1)
        BY <1>1, <1>2, <2>3, <3>1
      <3> QED BY <1>3, <3>2 DEF Rising
    <2> QED BY <2>1, <2>2, <2>3
  <1>4. \A n \in Int : AllBefore(s1, n) /\ AllBefore(s2, n) => AllBefore(r, n)
    BY <1>2 DEF AllBefore
  <1>5. \A n \in Int : AllAfter(s1, n) /\ AllAfter(s2, n) => AllAfter(r, n)
    BY <1>2 DEF AllAfter
  <1>6. \A t \in Seq(Int) : Below(t, s1) /\ Below(t, s2) => Below(t, r)
    BY <1>2 DEF Below
  <1>7. \A t \in Seq(Int) : Below(s1, t) /\ Below(s2, t) => Below(r, t)
    BY <1>2 DEF Below
  <1> QED BY <1>3, <1>4, <1>5, <1>6, <1>7 DEF r

(* The elements of a sequence by their places. *)
LEMMA ToSetByIndex ==
  ASSUME NEW S, NEW s \in Seq(S)
  PROVE  ToSet(s) = {s[i] : i \in 1 .. Len(s)} /\ ToSet(s) \subseteq S
  BY LenProperties DEF ToSet

LEMMA ToSetEmpty == ToSet(<<>>) = {}
  BY DEF ToSet

LEMMA ToSetAppend ==
  ASSUME NEW S, NEW s \in Seq(S), NEW x \in S
  PROVE  ToSet(Append(s, x)) = ToSet(s) \cup {x}
  <1>1. Append(s, x) \in Seq(S)
    OBVIOUS
  <1>2. ToSet(Append(s, x)) = {Append(s, x)[i] : i \in 1 .. Len(s) + 1}
    BY <1>1, ToSetByIndex, AppendProperties
  <1>3. ASSUME NEW p \in ToSet(s) PROVE p \in ToSet(Append(s, x))
    <2>1. PICK i \in 1 .. Len(s) : p = s[i]
      BY ToSetByIndex
    <2>2. Append(s, x)[i] = p /\ i \in 1 .. Len(s) + 1
      BY <2>1
    <2> QED BY <1>2, <2>2
  <1>4. x \in ToSet(Append(s, x))
    <2>1. Append(s, x)[Len(s) + 1] = x /\ Len(s) + 1 \in 1 .. Len(s) + 1
      OBVIOUS
    <2> QED BY <1>2, <2>1
  <1>5. ASSUME NEW p \in ToSet(Append(s, x)), p # x PROVE p \in ToSet(s)
    <2>1. PICK i \in 1 .. Len(s) + 1 : p = Append(s, x)[i]
      BY <1>2
    <2>2. i \in 1 .. Len(s) /\ p = s[i]
      BY <1>5, <2>1
    <2> QED BY <2>2, ToSetByIndex
  <1> QED BY <1>3, <1>4, <1>5

LEMMA ToSetConcat ==
  ASSUME NEW S, NEW s \in Seq(S), NEW t \in Seq(S)
  PROVE  ToSet(s \o t) = ToSet(s) \cup ToSet(t)
  <1>1. s \o t \in Seq(S) /\ Len(s \o t) = Len(s) + Len(t)
    OBVIOUS
  <1>2. ToSet(s \o t) = {(s \o t)[i] : i \in 1 .. Len(s) + Len(t)}
    BY <1>1, ToSetByIndex
  <1>3. ASSUME NEW p \in ToSet(s) PROVE p \in ToSet(s \o t)
    <2>1. PICK i \in 1 .. Len(s) : p = s[i]
      BY ToSetByIndex
    <2>2. (s \o t)[i] = p /\ i \in 1 .. Len(s) + Len(t)
      BY <2>1, LenProperties
    <2> QED BY <1>2, <2>2
  <1>4. ASSUME NEW p \in ToSet(t) PROVE p \in ToSet(s \o t)
    <2>1. PICK i \in 1 .. Len(t) : p = t[i]
      BY ToSetByIndex
    <2>2. (s \o t)[Len(s) + i] = p /\ Len(s) + i \in 1 .. Len(s) + Len(t)
      BY <2>1, LenProperties
    <2> QED BY <1>2, <2>2
  <1>5. ASSUME NEW p \in ToSet(s \o t) PROVE p \in ToSet(s) \cup ToSet(t)
    <2>1. PICK i \in 1 .. Len(s) + Len(t) : p = (s \o t)[i]
      BY <1>2
    <2>2. CASE i <= Len(s)
      <3>1. p = s[i] /\ i \in 1 .. Len(s)
        BY <2>1, <2>2
      <3> QED BY <3>1, ToSetByIndex
    <2>3. CASE i > Len(s)
      <3>1. p = t[i - Len(s)] /\ i - Len(s) \in 1 .. Len(t)
        BY <2>1, <2>3, LenProperties
      <3> QED BY <3>1, ToSetByIndex
    <2> QED BY <2>2, <2>3, LenProperties
  <1> QED BY <1>3, <1>4, <1>5

(* Taking the first of a rising sequence takes just that element.           *)
LEMMA ToSetTail ==
  ASSUME NEW s \in Seq(Int), Rising(s), s # <<>>
  PROVE  /\ Head(s) \in ToSet(s)
         /\ ToSet(Tail(s)) = ToSet(s) \ {Head(s)}
         /\ \A p \in ToSet(Tail(s)) : Head(s) < p
  <1>1. /\ Tail(s) \in Seq(Int) /\ Len(Tail(s)) = Len(s) - 1 /\ Head(s) = s[1]
        /\ \A i \in 1 .. Len(s) - 1 : Tail(s)[i] = s[i + 1]
        /\ Len(s) \in Nat /\ 1 <= Len(s)
    OBVIOUS
  <1>2. Head(s) \in ToSet(s)
    BY <1>1, ToSetByIndex
  <1>0. ToSet(Tail(s)) = {Tail(s)[i] : i \in 1 .. Len(s) - 1}
    <2>1. ToSet(Tail(s)) = {Tail(s)[i] : i \in 1 .. Len(Tail(s))}
      BY <1>1, ToSetByIndex
    <2> QED BY <1>1, <2>1
  <1>3. ASSUME NEW p \in ToSet(Tail(s)) PROVE p \in ToSet(s) /\ Head(s) < p
    <2>1. PICK i \in 1 .. Len(s) - 1 : p = s[i + 1]
      BY <1>0, <1>1
    <2>2. i + 1 \in 1 .. Len(s) /\ 1 \in 1 .. Len(s) /\ 1 < i + 1
      BY <1>1
    <2> QED BY <1>1, <2>1, <2>2, ToSetByIndex DEF Rising
  <1>4. ASSUME NEW p \in ToSet(s), p # Head(s) PROVE p \in ToSet(Tail(s))
    <2>1. PICK i \in 1 .. Len(s) : p = s[i]
      BY ToSetByIndex
    <2>2. i - 1 \in 1 .. Len(s) - 1 /\ Tail(s)[i - 1] = p
      BY <1>1, <1>4, <2>1
    <2> QED BY <1>0, <2>2
  <1>5. Head(s) \notin ToSet(Tail(s))
    <2>1. Head(s) \in Int
      OBVIOUS
    <2> QED BY <1>3, <2>1
  <1> QED BY <1>2, <1>3, <1>4, <1>5

(* A sequence of one element. *)
LEMMA OneOrder ==
  ASSUME NEW x \in Int
  PROVE  /\ Rising(<<x>>) /\ ToSet(<<x>>) = {x}
         /\ \A n \in Int : (x < n => AllBefore(<<x>>, n)) /\ (n < x => AllAfter(<<x>>, n))
         /\ \A t \in Seq(Int) : AllBefore(t, x) => Below(t, <<x>>)
         /\ \A t \in Seq(Int) : AllAfter(t, x) => Below(<<x>>, t)
  <1>1. <<x>> \in Seq(Int) /\ Len(<<x>>) = 1 /\ <<x>>[1] = x
    OBVIOUS
  <1>2. ToSet(<<x>>) = {x}
    <2>1. ToSet(<<x>>) = {<<x>>[i] : i \in 1 .. Len(<<x>>)}
      BY <1>1, ToSetByIndex
    <2> QED BY <1>1, <2>1
  <1>3. Rising(<<x>>)
    BY DEF Rising
  <1>4. \A n \in Int : (x < n => AllBefore(<<x>>, n)) /\ (n < x => AllAfter(<<x>>, n))
    BY DEF AllBefore, AllAfter
  <1>5. \A t \in Seq(Int) : AllBefore(t, x) => Below(t, <<x>>)
    BY DEF AllBefore, Below
  <1>6. \A t \in Seq(Int) : AllAfter(t, x) => Below(<<x>>, t)
    BY DEF AllAfter, Below
  <1> QED BY <1>2, <1>3, <1>4, <1>5, <1>6

(* Sequences one below the other, as sets. *)
LEMMA BelowSets ==
  ASSUME NEW s \in Seq(Int), NEW t \in Seq(Int), Below(s, t)
  PROVE  \A x \in ToSet(s), y \in ToSet(t) : x < y
  <1>1. /\ ToSet(s) = {s[i] : i \in 1 .. Len(s)}
        /\ ToSet(t) = {t[i] : i \in 1 .. Len(t)}
    BY ToSetByIndex
  <1> QED BY <1>1 DEF Below

----------------------------------------------------------------------------
(* The inductive invariant                                                  *)

(* The order in which stop() ends the two threads: the encoding thread is   *)
(* asked to end only when the capture thread has, and it ends with nothing  *)
(* left to encode.                                                          *)
Control ==
    /\ owner \in {"stopEncoder", "joinEncoder", "clear", "stopped"} => capture = "done"
    /\ owner \in {"clear", "stopped"} => encoder = "done"
    /\ "encoder" \in stops => owner \in {"joinEncoder", "clear", "stopped", "crashed"}
    /\ encoder \in {"drain", "done"} /\ owner # "crashed" => "encoder" \in stops
    /\ encoder = "done" /\ owner # "crashed" => queue = <<>> /\ held = <<>>
    /\ owner = "stopped" => buffer = <<>>

(* InOrder, place by place: each part of the line rises, each part precedes *)
(* those behind it, and all of it precedes the next number.                 *)
Ordered ==
    /\ Rising(buffer) /\ Rising(inside) /\ Rising(held) /\ Rising(queue)
    /\ Below(buffer, inside) /\ Below(buffer, held) /\ Below(buffer, queue)
    /\ Below(inside, held) /\ Below(inside, queue) /\ Below(held, queue)
    /\ AllBefore(buffer, pts) /\ AllBefore(inside, pts)
    /\ AllBefore(held, pts) /\ AllBefore(queue, pts)

(* What has yet to reach the buffer is newer than all that has been there.  *)
Fresh ==
    /\ newest < pts
    /\ AllAfter(inside, newest) /\ AllAfter(held, newest) /\ AllAfter(queue, newest)

InLine == ToSet(buffer) \cup ToSet(inside) \cup ToSet(held) \cup ToSet(queue)

(* HolesAreLosses, for a hole behind any frame of the line.                 *)
Accounted ==
    /\ \A p \in lost : p < pts
    /\ InLine \cap lost = {}
    /\ \A x \in InLine, p \in Int : x <= p /\ p < pts => p \in InLine \cup lost

IInv == TypeOK /\ Control /\ Ordered /\ Fresh /\ Accounted

----------------------------------------------------------------------------
(* Steps of the line as a set                                               *)

LEMMA PtsAreInts ==
  /\ Pts \subseteq Int
  /\ \A s : s \in Seq(Pts) => s \in Seq(Int)
  <1>1. Pts \subseteq Int
    BY PipelineAssumption DEF Pts
  <1> QED BY <1>1, SeqMonotonic

LEMMA InLineIsPts ==
  ASSUME TypeOK
  PROVE  InLine \subseteq Int
  <1>1. \A s \in {queue, held, inside, buffer} : ToSet(s) \subseteq Pts
    BY ToSetByIndex DEF TypeOK
  <1> QED BY <1>1, PtsAreInts DEF InLine

(* Nothing has changed but the places of frames. *)
LEMMA LineStays ==
  ASSUME Accounted, InLine' = InLine, pts' = pts, lost' = lost
  PROVE  Accounted'
  BY DEF Accounted

(* The next frame joins the line. *)
LEMMA LineGrows ==
  ASSUME TypeOK, Accounted, InLine' = InLine \cup {pts}, pts' = pts + 1, lost' = lost,
         \A x \in InLine : x < pts
  PROVE  Accounted'
  <1>1. pts \in Int /\ lost \subseteq Int /\ InLine \subseteq Int
    BY InLineIsPts, PtsAreInts DEF TypeOK
  <1> QED BY <1>1 DEF Accounted

(* The next frame is dropped. *)
LEMMA LineMisses ==
  ASSUME TypeOK, Accounted, InLine' = InLine, pts' = pts + 1, lost' = lost \cup {pts},
         \A x \in InLine : x < pts
  PROVE  Accounted'
  <1>1. pts \in Int /\ lost \subseteq Int /\ InLine \subseteq Int
    BY InLineIsPts, PtsAreInts DEF TypeOK
  <1> QED BY <1>1 DEF Accounted

(* A frame of the line fails. *)
LEMMA LineLoses ==
  ASSUME TypeOK, Accounted, NEW x \in InLine, x < pts,
         InLine' = InLine \ {x}, pts' = pts, lost' = lost \cup {x}
  PROVE  Accounted'
  BY DEF Accounted

(* The oldest frames leave the line. *)
LEMMA LineForgets ==
  ASSUME TypeOK, Accounted, InLine' \subseteq InLine, pts' = pts, lost' = lost,
         \A x \in InLine \ InLine', y \in InLine' : x < y
  PROVE  Accounted'
  <1> SUFFICES ASSUME NEW y \in InLine', NEW p \in Int, y <= p, p < pts
               PROVE  p \in InLine' \cup lost
    BY DEF Accounted
  <1>1. p \in InLine \cup lost /\ y \in Int
    BY InLineIsPts DEF Accounted
  <1>2. ~(p < y)
    BY <1>1
  <1> QED BY <1>1, <1>2

----------------------------------------------------------------------------
(* The initial states, and steps that leave the frames alone                *)

LEMMA InitIInv == Init => IInv
  <1> SUFFICES ASSUME Init PROVE IInv
    OBVIOUS
  <1> USE DEF Init, InitPlatform
  <1>1. TypeOK
    BY PipelineAssumption DEF TypeOK, Pts, Threads
  <1>2. Control /\ Ordered /\ Fresh
    BY DEF Control, Ordered, Fresh, Rising, Below, AllBefore, AllAfter
  <1>3. InLine = {}
    BY ToSetEmpty DEF InLine
  <1>4. Accounted
    BY <1>3 DEF Accounted
  <1> QED BY <1>1, <1>2, <1>4 DEF IInv

LEMMA FramesStay ==
  ASSUME Ordered, Fresh, Accounted,
         UNCHANGED <<pts, queue, held, inside, buffer, newest, lost>>
  PROVE  Ordered' /\ Fresh' /\ Accounted'
  <1>1. Ordered' /\ Fresh'
    BY DEF Ordered, Fresh, Rising, Below, AllBefore, AllAfter
  <1>2. InLine' = InLine
    BY DEF InLine
  <1> QED BY <1>1, <1>2, LineStays

(* Every frame of the line has been numbered. *)
LEMMA LineBeforePts ==
  ASSUME TypeOK, Ordered
  PROVE  \A x \in InLine : x < pts
  <1>1. \A s \in {queue, held, inside, buffer} :
           AllBefore(s, pts) /\ ToSet(s) = {s[i] : i \in 1 .. Len(s)}
    BY ToSetByIndex DEF TypeOK, Ordered
  <1> QED BY <1>1 DEF InLine, AllBefore

----------------------------------------------------------------------------
(* The capture thread                                                       *)

LEMMA PushFrameKeepsOrder ==
  ASSUME TypeOK, Ordered, Fresh, Accounted, PushFrame,
         UNCHANGED <<held, inside, buffer, newest>>
  PROVE  /\ queue' \in Seq(Pts) /\ Len(queue') <= QueueSize
         /\ pts' \in 0 .. MaxPts /\ lost' \subseteq Pts
         /\ Ordered' /\ Fresh' /\ Accounted'
  <1>1. pts \in Pts /\ pts \in Int /\ pts' = pts + 1 /\ pts' \in 0 .. MaxPts
    BY PipelineAssumption DEF PushFrame, TypeOK, Pts
  <1>2. /\ queue \in Seq(Int) /\ held \in Seq(Int) /\ inside \in Seq(Int)
        /\ buffer \in Seq(Int) /\ newest \in Int
    BY PtsAreInts DEF TypeOK
  <1>3. CASE Len(queue) < QueueSize /\ queue' = Append(queue, pts) /\ lost' = lost
    <2>1. queue' \in Seq(Pts) /\ Len(queue') <= QueueSize
      BY <1>1, <1>3, PipelineAssumption DEF TypeOK
    <2>2. AllBefore(buffer, pts') /\ AllBefore(inside, pts') /\ AllBefore(held, pts')
          /\ AllBefore(queue, pts') /\ newest < pts' /\ pts < pts' /\ pts' \in Int
      BY <1>1, <1>2 DEF Ordered, Fresh, AllBefore
    <2>3. Ordered'
      BY <1>1, <1>2, <1>3, <2>2, AppendOrder DEF Ordered
    <2>4. Fresh'
      BY <1>1, <1>2, <1>3, <2>2, AppendOrder DEF Fresh
    <2>5. InLine' = InLine \cup {pts}
      <3>1. queue \in Seq(Int) /\ pts \in Int
        BY <1>1, <1>2
      <3>2. ToSet(Append(queue, pts)) = ToSet(queue) \cup {pts}
        BY <3>1, ToSetAppend
      <3> QED BY <1>3, <3>2 DEF InLine
    <2>6. Accounted'
      BY <1>1, <1>3, <2>5, LineGrows, LineBeforePts
    <2> QED BY <1>1, <1>3, <2>1, <2>3, <2>4, <2>6 DEF TypeOK
  <1>4. CASE lost' = lost \cup {pts} /\ queue' = queue
    <2>1. Ordered' /\ Fresh'
      BY <1>1, <1>2, <1>4 DEF Ordered, Fresh, Rising, Below, AllBefore, AllAfter
    <2>2. InLine' = InLine
      BY <1>4 DEF InLine
    <2>3. Accounted'
      BY <1>1, <1>4, <2>2, LineMisses, LineBeforePts
    <2> QED BY <1>1, <1>4, <2>1, <2>3 DEF TypeOK
  <1> QED BY <1>3, <1>4 DEF PushFrame

LEMMA CaptureStepKeepsIInv ==
  ASSUME IInv, CaptureStep
  PROVE  IInv'
  <1> USE DEF IInv, encoderVars
  <1>1. CASE CaptureTest \/ CaptureNothing
    <2>1. TypeOK' /\ Control'
      BY <1>1 DEF CaptureTest, CaptureNothing, TypeOK, Control
    <2> QED BY <1>1, <2>1, FramesStay DEF CaptureTest, CaptureNothing
  <1>2. CASE CaptureCrashes
    <2>1. TypeOK' /\ Control'
      BY <1>2 DEF CaptureCrashes, TypeOK, Control
    <2> QED BY <1>2, <2>1, FramesStay DEF CaptureCrashes
  <1>3. CASE CaptureFrame \/ CaptureReuses
    <2>1. /\ PushFrame /\ capture = "grab" /\ capture' = "test"
          /\ UNCHANGED <<owner, stops, keeps, buffer, encoder, held, inside, newest>>
      BY <1>3 DEF CaptureFrame, CaptureReuses
    <2>2. /\ queue' \in Seq(Pts) /\ Len(queue') <= QueueSize
          /\ pts' \in 0 .. MaxPts /\ lost' \subseteq Pts
          /\ Ordered' /\ Fresh' /\ Accounted'
      BY <2>1, PushFrameKeepsOrder
    <2>3. pts \in Pts
      BY <2>1, PipelineAssumption DEF PushFrame, TypeOK, Pts
    <2>4. last' \in {"unset", "held", "freed"} /\ garbage' \subseteq Pts
      BY <1>3, <2>3 DEF CaptureFrame, CaptureReuses, TypeOK
    <2>5. TypeOK'
      BY <2>1, <2>2, <2>4 DEF TypeOK, Pts
    <2>6. Control'
      BY <2>1 DEF Control, TypeOK
    <2> QED BY <2>2, <2>5, <2>6
  <1> QED BY <1>1, <1>2, <1>3 DEF CaptureStep

----------------------------------------------------------------------------
(* The encoding thread                                                      *)

LEMMA EncoderWaitKeepsIInv ==
  ASSUME IInv, EncoderTest \/ EncoderFindsNone
  PROVE  IInv'
  <1> USE DEF IInv, captureVars
  <1>1. TypeOK' /\ Control'
    BY DEF EncoderTest, EncoderFindsNone, Taking, TypeOK, Control
  <1> QED BY <1>1, FramesStay DEF EncoderTest, EncoderFindsNone

LEMMA EncoderTakesKeepsIInv ==
  ASSUME IInv, EncoderTakes
  PROVE  IInv'
  <1> USE DEF IInv
  <1> DEFINE h == Head(queue)
  <1>1. /\ encoder \in {"take", "drain"} /\ held = <<>> /\ queue # <<>>
        /\ held' = <<h>> /\ queue' = Tail(queue)
        /\ UNCHANGED <<owner, stops, keeps, capture, pts, last, garbage, encoder,
                       inside, buffer, newest, lost>>
    BY DEF EncoderTakes, Taking, captureVars
  <1>2. /\ queue \in Seq(Int) /\ inside \in Seq(Int) /\ buffer \in Seq(Int)
        /\ pts \in Int /\ newest \in Int /\ h \in Pts /\ h \in Int
        /\ queue' \in Seq(Pts) /\ queue' \in Seq(Int) /\ Len(queue') <= QueueSize
        /\ held' \in Seq(Pts) /\ Len(held') <= 1
    BY <1>1, PtsAreInts, PipelineAssumption DEF TypeOK
  <1> HIDE DEF h
  <1>3. TypeOK' /\ Control'
    BY <1>1, <1>2 DEF TypeOK, Control, Pts
  <1>4. /\ Rising(queue') /\ AllAfter(queue', h) /\ AllBefore(queue', pts) /\ h < pts
        /\ AllAfter(queue', newest) /\ newest < h
        /\ Below(buffer, queue') /\ AllBefore(buffer, h)
        /\ Below(inside, queue') /\ AllBefore(inside, h)
    BY <1>1, <1>2, TailOrder DEF h, Ordered, Fresh
  <1>5. Ordered' /\ Fresh'
    BY <1>1, <1>2, <1>4, OneOrder DEF Ordered, Fresh
  <1>6. InLine' = InLine
    <2>1. ToSet(queue') = ToSet(queue) \ {h} /\ h \in ToSet(queue)
      BY <1>1, <1>2, ToSetTail DEF h, Ordered
    <2>2. ToSet(held') = {h} /\ ToSet(held) = {}
      BY <1>1, <1>2, OneOrder, ToSetEmpty
    <2> QED BY <1>1, <2>1, <2>2 DEF InLine
  <1> QED BY <1>1, <1>3, <1>5, <1>6, LineStays

LEMMA OneHeld ==
  ASSUME TypeOK, held # <<>>
  PROVE  Len(held) = 1 /\ \E h \in Pts : held = <<h>>
  <1>1. held \in Seq(Pts) /\ Len(held) <= 1
    BY DEF TypeOK
  <1>2. Len(held) \in Nat /\ Len(held) # 0
    BY <1>1
  <1>0. \A n \in Nat : n <= 1 /\ n # 0 => n = 1
    OBVIOUS
  <1>3. Len(held) = 1
    BY <1>0, <1>1, <1>2, Zenon
  <1> QED BY <1>1, <1>3

(* What the codec has once it is given the held frame. *)
moved == inside \o held

LEMMA MovedOrder ==
  ASSUME TypeOK, Ordered, Fresh, held # <<>>
  PROVE  /\ moved \in Seq(Pts) /\ moved \in Seq(Int) /\ moved # <<>>
         /\ Len(moved) = Len(inside) + 1
         /\ Rising(moved) /\ Below(buffer, moved) /\ Below(moved, queue)
         /\ AllBefore(moved, pts) /\ AllAfter(moved, newest)
         /\ ToSet(moved) = ToSet(inside) \cup ToSet(held)
  <1>1. /\ inside \in Seq(Pts) /\ held \in Seq(Pts)
        /\ inside \in Seq(Int) /\ held \in Seq(Int) /\ buffer \in Seq(Int)
        /\ queue \in Seq(Int) /\ pts \in Int /\ newest \in Int
    BY PtsAreInts, PipelineAssumption DEF TypeOK
  <1>2. Len(held) = 1 /\ Len(inside) \in Nat
    BY <1>1, OneHeld
  <1>3. /\ moved \in Seq(Pts) /\ moved \in Seq(Int) /\ Len(moved) = Len(inside) + 1
        /\ moved # <<>>
    <2>1. moved \in Seq(Pts) /\ Len(moved) = Len(inside) + Len(held)
      BY <1>1 DEF moved
    <2> QED BY <1>2, <2>1, PtsAreInts
  <1>4. /\ Rising(moved) /\ Below(buffer, moved) /\ Below(moved, queue)
        /\ AllBefore(moved, pts) /\ AllAfter(moved, newest)
    BY <1>1, ConcatOrder DEF moved, Ordered, Fresh
  <1>5. ToSet(moved) = ToSet(inside) \cup ToSet(held)
    BY <1>1, ToSetConcat DEF moved
  <1> QED BY <1>3, <1>4, <1>5

(* The calls of the encoder leave the control of all threads as it is. *)
LEMMA EncodedControl ==
  ASSUME IInv, Encoded, Control,
         owner = "stopped" => buffer' = buffer
  PROVE  Control'
  BY DEF Encoded, Control, captureVars, IInv

(* The calls that give the frame to the codec and take the first of what it *)
(* then has: either way, that one is out of the codec.                      *)
LEMMA FirstOfMoved ==
  ASSUME TypeOK, Ordered, Fresh, held # <<>>
  PROVE  /\ Head(moved) \in Pts /\ Head(moved) < pts /\ newest < Head(moved)
         /\ Tail(moved) \in Seq(Pts) /\ Len(Tail(moved)) = Len(inside)
         /\ Rising(Tail(moved)) /\ AllAfter(Tail(moved), Head(moved))
         /\ AllBefore(Tail(moved), pts) /\ AllAfter(Tail(moved), newest)
         /\ Below(buffer, Tail(moved)) /\ AllBefore(buffer, Head(moved))
         /\ Below(Tail(moved), queue) /\ AllAfter(queue, Head(moved))
         /\ Head(moved) \in ToSet(inside) \cup ToSet(held)
         /\ ToSet(Tail(moved)) = (ToSet(inside) \cup ToSet(held)) \ {Head(moved)}
  <1>1. /\ moved \in Seq(Pts) /\ moved \in Seq(Int) /\ moved # <<>>
        /\ Len(moved) = Len(inside) + 1
        /\ Rising(moved) /\ Below(buffer, moved) /\ Below(moved, queue)
        /\ AllBefore(moved, pts) /\ AllAfter(moved, newest)
        /\ ToSet(moved) = ToSet(inside) \cup ToSet(held)
    BY MovedOrder
  <1>2. buffer \in Seq(Int) /\ queue \in Seq(Int) /\ inside \in Seq(Pts)
        /\ pts \in Int /\ newest \in Int
    BY PtsAreInts, PipelineAssumption DEF TypeOK
  <1>3. /\ Head(moved) \in Pts /\ Tail(moved) \in Seq(Pts)
        /\ Len(Tail(moved)) = Len(inside)
    BY <1>1, <1>2
  <1>4. /\ Rising(Tail(moved)) /\ AllAfter(Tail(moved), Head(moved))
        /\ AllBefore(Tail(moved), pts) /\ Head(moved) < pts
        /\ AllAfter(Tail(moved), newest) /\ newest < Head(moved)
        /\ Below(buffer, Tail(moved)) /\ AllBefore(buffer, Head(moved))
        /\ Below(Tail(moved), queue) /\ AllAfter(queue, Head(moved))
    BY <1>1, <1>2, TailOrder
  <1>5. Head(moved) \in ToSet(moved) /\ ToSet(Tail(moved)) = ToSet(moved) \ {Head(moved)}
    BY <1>1, ToSetTail
  <1> QED BY <1>1, <1>3, <1>4, <1>5

(* An empty place in the line. *)
LEMMA NoneOrder ==
  /\ Rising(<<>>)
  /\ \A n : AllBefore(<<>>, n) /\ AllAfter(<<>>, n)
  /\ \A t : Below(<<>>, t) /\ Below(t, <<>>)
  BY DEF Rising, AllBefore, AllAfter, Below

LEMMA SendFailsKeepsIInv ==
  ASSUME IInv, SendFails
  PROVE  IInv'
  <1> USE DEF IInv
  <1>1. /\ held # <<>> /\ held' = <<>> /\ encoder \in {"take", "drain"}
        /\ encoder' \in {"test", "drain"} /\ lost' = lost \cup ToSet(held)
        /\ UNCHANGED <<owner, stops, keeps, capture, pts, last, garbage, queue,
                       inside, buffer, newest>>
    BY DEF SendFails, Encoded, captureVars
  <1>2. PICK h \in Pts : held = <<h>>
    BY <1>1, OneHeld
  <1>3. /\ h \in Int /\ queue \in Seq(Int) /\ inside \in Seq(Int) /\ held \in Seq(Int)
        /\ buffer \in Seq(Int) /\ ToSet(held) = {h}
    BY <1>2, PtsAreInts, OneOrder DEF TypeOK
  <1>4. TypeOK' /\ Control'
    <2>1. lost' \subseteq Pts
      BY <1>1, <1>2, <1>3 DEF TypeOK
    <2>2. TypeOK'
      BY <1>1, <2>1 DEF TypeOK, Pts
    <2>3. Control'
      BY <1>1, EncodedControl DEF SendFails
    <2> QED BY <2>2, <2>3
  <1>5. Ordered' /\ Fresh'
    BY <1>1, NoneOrder DEF Ordered, Fresh
  <1>6. InLine' = InLine \ {h} /\ h \in InLine
    <2>1. ~(h < h)
      BY <1>3
    <2>3. h \notin ToSet(buffer) /\ h \notin ToSet(inside) /\ h \notin ToSet(queue)
      BY <1>3, <2>1, BelowSets DEF Ordered
    <2>2. ToSet(held') = {}
      BY <1>1, ToSetEmpty
    <2> QED BY <1>1, <1>3, <2>2, <2>3 DEF InLine
  <1>7. Accounted'
    BY <1>1, <1>3, <1>6, LineLoses, LineBeforePts
  <1> QED BY <1>4, <1>5, <1>7

LEMMA NoPacketYetKeepsIInv ==
  ASSUME IInv, NoPacketYet
  PROVE  IInv'
  <1> USE DEF IInv
  <1>1. /\ held # <<>> /\ held' = <<>> /\ encoder \in {"take", "drain"}
        /\ encoder' \in {"test", "drain"} /\ inside' = moved /\ Len(inside) < MaxDelay
        /\ UNCHANGED <<owner, stops, keeps, capture, pts, last, garbage, queue,
                       lost, buffer, newest>>
    BY DEF NoPacketYet, Encoded, captureVars, moved
  <1>2. /\ moved \in Seq(Pts) /\ Len(moved) = Len(inside) + 1
        /\ Rising(moved) /\ Below(buffer, moved) /\ Below(moved, queue)
        /\ AllBefore(moved, pts) /\ AllAfter(moved, newest)
        /\ ToSet(moved) = ToSet(inside) \cup ToSet(held)
    BY <1>1, MovedOrder
  <1>3. TypeOK'
    BY <1>1, <1>2, PipelineAssumption DEF TypeOK, Pts
  <1>4. Control'
    BY <1>1, EncodedControl DEF NoPacketYet
  <1>5. Ordered' /\ Fresh'
    BY <1>1, <1>2, NoneOrder DEF Ordered, Fresh
  <1>6. InLine' = InLine
    BY <1>1, <1>2, ToSetEmpty DEF InLine
  <1> QED BY <1>1, <1>3, <1>4, <1>5, <1>6, LineStays

LEMMA ReceiveFailsKeepsIInv ==
  ASSUME IInv, ReceiveFails
  PROVE  IInv'
  <1> USE DEF IInv
  <1> DEFINE h == Head(moved)
             rest == Tail(moved)
  <1>1. /\ held # <<>> /\ held' = <<>> /\ encoder \in {"take", "drain"}
        /\ encoder' \in {"test", "drain"} /\ inside' = rest /\ lost' = lost \cup {h}
        /\ UNCHANGED <<owner, stops, keeps, capture, pts, last, garbage, queue,
                       buffer, newest>>
    BY DEF ReceiveFails, Encoded, captureVars, moved
  <1>2. /\ h \in Pts /\ h < pts /\ rest \in Seq(Pts) /\ Len(rest) = Len(inside)
        /\ Rising(rest) /\ AllBefore(rest, pts) /\ AllAfter(rest, newest)
        /\ Below(buffer, rest) /\ AllBefore(buffer, h)
        /\ Below(rest, queue) /\ AllAfter(queue, h)
        /\ h \in ToSet(inside) \cup ToSet(held)
        /\ ToSet(rest) = (ToSet(inside) \cup ToSet(held)) \ {h}
    BY <1>1, FirstOfMoved
  <1> HIDE DEF h, rest
  <1>3. TypeOK'
    BY <1>1, <1>2 DEF TypeOK, Pts
  <1>4. Control'
    BY <1>1, EncodedControl DEF ReceiveFails
  <1>5. Ordered' /\ Fresh'
    BY <1>1, <1>2, NoneOrder DEF Ordered, Fresh
  <1>6. InLine' = InLine \ {h} /\ h \in InLine
    <2>1. h \notin ToSet(buffer) /\ h \notin ToSet(queue)
      <3>1. buffer \in Seq(Int) /\ queue \in Seq(Int) /\ h \in Int
        BY <1>2, PtsAreInts DEF TypeOK
      <3>2. ToSet(buffer) = {buffer[i] : i \in 1 .. Len(buffer)}
            /\ ToSet(queue) = {queue[i] : i \in 1 .. Len(queue)}
        BY <3>1, ToSetByIndex
      <3> QED BY <1>2, <3>1, <3>2 DEF AllBefore, AllAfter
    <2> QED BY <1>1, <1>2, <2>1, ToSetEmpty DEF InLine
  <1>7. Accounted'
    BY <1>1, <1>2, <1>6, LineLoses
  <1> QED BY <1>3, <1>4, <1>5, <1>7

(* A packet enters the buffer, and may push out the oldest one.             *)
LEMMA PushKeepsOrder ==
  ASSUME TypeOK, NEW h \in Pts, Push(h),
         Rising(buffer), AllBefore(buffer, h)
  PROVE  /\ buffer' \in Seq(Pts) /\ Rising(buffer')
         /\ \A n \in Int : h < n /\ AllBefore(buffer, n) => AllBefore(buffer', n)
         /\ \A t \in Seq(Int) : Below(buffer, t) /\ AllAfter(t, h) => Below(buffer', t)
         /\ ToSet(buffer') \subseteq ToSet(buffer) \cup {h}
         /\ \A x \in (ToSet(buffer) \cup {h}) \ ToSet(buffer'), y \in ToSet(buffer') : x < y
         /\ h \notin ToSet(buffer') => buffer' = <<>>
  <1> DEFINE grown == Append(buffer, h)
  <1>1. buffer \in Seq(Pts) /\ buffer \in Seq(Int) /\ h \in Int
    BY PtsAreInts DEF TypeOK
  <1>2. /\ grown \in Seq(Pts) /\ grown \in Seq(Int) /\ grown # <<>>
        /\ Len(grown) = Len(buffer) + 1
    BY <1>1
  <1>3. /\ Rising(grown) /\ \A n \in Int : h < n /\ AllBefore(buffer, n) => AllBefore(grown, n)
        /\ \A t \in Seq(Int) : Below(buffer, t) /\ AllAfter(t, h) => Below(grown, t)
    BY <1>1, AppendOrder
  <1>4. ToSet(grown) = ToSet(buffer) \cup {h}
    BY <1>1, ToSetAppend
  <1>5. buffer' = grown \/ buffer' = Tail(grown)
    BY DEF Push
  <1> HIDE DEF grown
  <1>6. CASE buffer' = grown
    BY <1>2, <1>3, <1>4, <1>6
  <1>7. CASE buffer' = Tail(grown)
    <2>1. /\ Tail(grown) \in Seq(Pts) /\ Rising(Tail(grown))
          /\ \A n \in Int : AllBefore(grown, n) => AllBefore(Tail(grown), n)
          /\ \A t \in Seq(Int) : Below(grown, t) => Below(Tail(grown), t)
      BY <1>2, <1>3, TailOrder
    <2>2. /\ Head(grown) \in ToSet(grown) /\ ToSet(Tail(grown)) = ToSet(grown) \ {Head(grown)}
          /\ \A p \in ToSet(Tail(grown)) : Head(grown) < p
      BY <1>2, <1>3, ToSetTail
    <2>3. h \notin ToSet(Tail(grown)) => Tail(grown) = <<>>
      <3>1. CASE buffer = <<>>
        BY <1>1, <3>1 DEF grown
      <3>2. CASE buffer # <<>>
        <4>1. Head(grown) = Head(buffer) /\ Head(buffer) \in ToSet(buffer) /\ Head(buffer) < h
          BY <1>1, <3>2, TailOrder, ToSetTail DEF grown
        <4>2. Head(grown) # h
          BY <1>1, <4>1
        <4> QED BY <1>4, <2>2, <4>2
      <3> QED BY <3>1, <3>2
    <2> QED BY <1>3, <1>4, <1>7, <2>1, <2>2, <2>3
  <1> QED BY <1>5, <1>6, <1>7

LEMMA PacketComesOutKeepsIInv ==
  ASSUME IInv, PacketComesOut
  PROVE  IInv'
  <1> USE DEF IInv
  <1> DEFINE h == Head(moved)
             rest == Tail(moved)
  <1>1. /\ held # <<>> /\ held' = <<>> /\ encoder \in {"take", "drain"}
        /\ encoder' \in {"test", "drain"} /\ inside' = rest /\ Push(h) /\ newest' = h
        /\ UNCHANGED <<owner, stops, keeps, capture, pts, last, garbage, queue, lost>>
    BY DEF PacketComesOut, Encoded, captureVars, moved
  <1>2. /\ h \in Pts /\ h < pts /\ rest \in Seq(Pts) /\ Len(rest) = Len(inside)
        /\ Rising(rest) /\ AllAfter(rest, h) /\ AllBefore(rest, pts)
        /\ Below(buffer, rest) /\ AllBefore(buffer, h)
        /\ Below(rest, queue) /\ AllAfter(queue, h)
        /\ h \in ToSet(inside) \cup ToSet(held)
        /\ ToSet(rest) = (ToSet(inside) \cup ToSet(held)) \ {h}
    BY <1>1, FirstOfMoved
  <1> HIDE DEF h, rest
  <1>3. /\ queue \in Seq(Int) /\ rest \in Seq(Int) /\ pts \in Int
        /\ Rising(buffer) /\ AllBefore(buffer, pts) /\ Below(buffer, queue)
    BY <1>2, PtsAreInts DEF TypeOK, Ordered
  <1>4. /\ buffer' \in Seq(Pts) /\ Rising(buffer') /\ AllBefore(buffer', pts)
        /\ Below(buffer', rest) /\ Below(buffer', queue)
        /\ ToSet(buffer') \subseteq ToSet(buffer) \cup {h}
        /\ \A x \in (ToSet(buffer) \cup {h}) \ ToSet(buffer'), y \in ToSet(buffer') : x < y
        /\ h \notin ToSet(buffer') => buffer' = <<>>
    BY <1>1, <1>2, <1>3, PushKeepsOrder
  <1>5. TypeOK'
    BY <1>1, <1>2, <1>4 DEF TypeOK, Pts
  <1>6. Control'
    <2>1. owner # "stopped"
      BY <1>1 DEF Control
    <2> QED BY <1>1, <2>1, EncodedControl DEF PacketComesOut
  <1>7. Ordered' /\ Fresh'
    BY <1>1, <1>2, <1>3, <1>4, NoneOrder DEF Ordered, Fresh
  <1>8. Accounted'
    <2>1. InLine' = ToSet(buffer') \cup ToSet(rest) \cup ToSet(queue)
      BY <1>1, ToSetEmpty DEF InLine
    <2>2. InLine = ToSet(buffer) \cup {h} \cup ToSet(rest) \cup ToSet(queue)
      BY <1>1, <1>2 DEF InLine
    <2>3. InLine' \subseteq InLine
      BY <1>4, <2>1, <2>2
    <2>4. \A x \in ToSet(buffer) \cup {h}, y \in ToSet(rest) \cup ToSet(queue) : x < y
      <3>1. /\ ToSet(rest) = {rest[i] : i \in 1 .. Len(rest)}
            /\ ToSet(queue) = {queue[i] : i \in 1 .. Len(queue)}
        BY <1>3, ToSetByIndex
      <3>2. \A y \in ToSet(rest) \cup ToSet(queue) : h < y
        BY <1>2, <3>1 DEF AllAfter
      <3>3. buffer \in Seq(Int)
        BY PtsAreInts DEF TypeOK
      <3>4. /\ \A x \in ToSet(buffer), y \in ToSet(rest) : x < y
            /\ \A x \in ToSet(buffer), y \in ToSet(queue) : x < y
        BY <1>2, <1>3, <3>3, BelowSets
      <3> QED BY <3>2, <3>4
    <2>5. \A x \in InLine \ InLine', y \in InLine' : x < y
      BY <1>4, <2>1, <2>2, <2>4
    <2> QED BY <1>1, <2>3, <2>5, LineForgets
  <1> QED BY <1>5, <1>6, <1>7, <1>8

----------------------------------------------------------------------------
(* The ring and the owner                                                   *)

(* The buffer is emptied. *)
LEMMA ClearKeepsOrder ==
  ASSUME IInv, buffer' = <<>>, UNCHANGED <<pts, queue, held, inside, newest, lost>>
  PROVE  Ordered' /\ Fresh' /\ Accounted'
  <1> USE DEF IInv
  <1>1. Ordered' /\ Fresh'
    BY NoneOrder DEF Ordered, Fresh
  <1>2. InLine' = ToSet(inside) \cup ToSet(held) \cup ToSet(queue)
    BY ToSetEmpty DEF InLine
  <1>3. \A x \in ToSet(buffer), y \in InLine' : x < y
    <2>1. /\ buffer \in Seq(Int) /\ inside \in Seq(Int)
          /\ held \in Seq(Int) /\ queue \in Seq(Int)
      BY PtsAreInts DEF TypeOK
    <2>2. /\ \A x \in ToSet(buffer), y \in ToSet(inside) : x < y
          /\ \A x \in ToSet(buffer), y \in ToSet(held) : x < y
          /\ \A x \in ToSet(buffer), y \in ToSet(queue) : x < y
      BY <2>1, BelowSets DEF Ordered
    <2> QED BY <1>2, <2>2
  <1>4. InLine' \subseteq InLine /\ InLine \ InLine' \subseteq ToSet(buffer)
    BY <1>2 DEF InLine
  <1> QED BY <1>1, <1>3, <1>4, LineForgets

LEMMA OwnerStepKeepsIInv ==
  ASSUME IInv, Start \/ TickClears \/ StopCapture \/ FinishStop
  PROVE  IInv'
  <1> USE DEF IInv, captureVars, encoderVars, StopStep
  <1>1. CASE Start
    <2>1. TypeOK' /\ Control'
      BY <1>1 DEF Start, TypeOK, Control, Pts
    <2> QED BY <1>1, <2>1, FramesStay DEF Start
  <1>2. CASE TickClears
    <2>1. TypeOK' /\ Control'
      BY <1>2 DEF TickClears, TypeOK, Control, Pts
    <2> QED BY <1>2, <2>1, ClearKeepsOrder DEF TickClears
  <1>3. CASE StopCapture
    <2>1. TypeOK' /\ Control'
      BY <1>3 DEF StopCapture, TypeOK, Control, Pts, Threads
    <2> QED BY <1>3, <2>1, FramesStay DEF StopCapture
  <1>4. CASE JoinCapture \/ StopEncoder \/ JoinEncoder
    <2>1. TypeOK' /\ Control'
      BY <1>4 DEF JoinCapture, StopEncoder, JoinEncoder, TypeOK, Control, Pts, Threads
    <2> QED BY <1>4, <2>1, FramesStay DEF JoinCapture, StopEncoder, JoinEncoder
  <1>5. CASE ClearFrames
    <2>1. TypeOK' /\ Control'
      BY <1>5 DEF ClearFrames, TypeOK, Control, Pts
    <2> QED BY <1>5, <2>1, ClearKeepsOrder DEF ClearFrames
  <1> QED BY <1>1, <1>2, <1>3, <1>4, <1>5 DEF FinishStop

LEMMA NextKeepsIInv == IInv /\ [Next]_vars => IInv'
  <1> SUFFICES ASSUME IInv, [Next]_vars PROVE IInv'
    OBVIOUS
  <1>1. CASE CaptureStep
    BY <1>1, CaptureStepKeepsIInv
  <1>2. CASE EncoderStep
    BY <1>2, EncoderWaitKeepsIInv, EncoderTakesKeepsIInv, SendFailsKeepsIInv,
       NoPacketYetKeepsIInv, ReceiveFailsKeepsIInv, PacketComesOutKeepsIInv
       DEF EncoderStep, EncodeStep
  <1>3. CASE Start \/ TickClears \/ StopCapture \/ FinishStop
    BY <1>3, OwnerStepKeepsIInv
  <1>4. CASE UNCHANGED vars
    <2>1. TypeOK' /\ Control'
      BY <1>4 DEF vars, IInv, TypeOK, Control, Pts
    <2> QED BY <1>4, <2>1, FramesStay DEF vars, IInv
  <1> QED BY <1>1, <1>2, <1>3, <1>4 DEF Next

----------------------------------------------------------------------------
(* Theorems                                                                 *)

(* The inductive invariant, and with it the types of all variables: the     *)
(* queue stays within the room try_enqueue has, the codec within its delay. *)
THEOREM IInvHolds == Spec => [](IInv /\ TypeOK)
  <1>1. Init => IInv
    BY InitIInv
  <1>2. IInv /\ [Next]_vars => IInv'
    BY NextKeepsIInv
  <1>3. IInv => TypeOK
    BY DEF IInv
  <1> QED BY <1>1, <1>2, <1>3, PTL DEF Spec

(* Timestamps never go backwards and never repeat, from the buffer back to   *)
(* the queue: no drop, no delay of the codec and no failed call of it        *)
(* reorders the frames.                                                      *)
THEOREM FramesInOrder == Spec => []InOrder
  <1>1. ASSUME IInv PROVE InOrder
    <2> USE <1>1 DEF IInv
    <2>1. /\ buffer \in Seq(Int) /\ inside \in Seq(Int) /\ held \in Seq(Int)
          /\ queue \in Seq(Int) /\ pts \in Int
      BY PtsAreInts DEF TypeOK
    <2> DEFINE a == buffer \o inside
               b == a \o held
    <2>2. /\ a \in Seq(Int) /\ Rising(a) /\ Below(a, held) /\ Below(a, queue)
          /\ AllBefore(a, pts)
      BY <2>1, ConcatOrder DEF Ordered
    <2>3. b \in Seq(Int) /\ Rising(b) /\ Below(b, queue) /\ AllBefore(b, pts)
      <3> HIDE DEF a
      <3> QED BY <2>1, <2>2, ConcatOrder DEF Ordered
    <2>4. Rising(b \o queue) /\ AllBefore(b \o queue, pts)
      <3> HIDE DEF b
      <3> QED BY <2>1, <2>3, ConcatOrder DEF Ordered
    <2>5. Line = b \o queue
      BY DEF Line
    <2> HIDE DEF a, b
    <2> QED BY <2>4, <2>5 DEF InOrder, Rising, AllBefore
  <1> QED BY <1>1, IInvHolds, PTL

(* The line as a sequence and as a set hold the same frames. *)
LEMMA LineIsInLine ==
  ASSUME TypeOK
  PROVE  Line \in Seq(Int) /\ ToSet(Line) = InLine
  <1>1. /\ buffer \in Seq(Int) /\ inside \in Seq(Int) /\ held \in Seq(Int)
        /\ queue \in Seq(Int)
    BY PtsAreInts DEF TypeOK
  <1> DEFINE a == buffer \o inside
             b == a \o held
  <1>2. a \in Seq(Int) /\ ToSet(a) = ToSet(buffer) \cup ToSet(inside)
    BY <1>1, ToSetConcat
  <1>3. b \in Seq(Int) /\ ToSet(b) = ToSet(a) \cup ToSet(held)
    <2> HIDE DEF a
    <2> QED BY <1>1, <1>2, ToSetConcat
  <1>4. b \o queue \in Seq(Int) /\ ToSet(b \o queue) = ToSet(b) \cup ToSet(queue)
    <2> HIDE DEF b
    <2> QED BY <1>1, <1>3, ToSetConcat
  <1> QED BY <1>2, <1>3, <1>4 DEF Line, InLine

(* Behind the oldest frame on its way nothing is missing that was not       *)
(* dropped at the queue or failed by the codec.                             *)
THEOREM HolesExplained == Spec => []HolesAreLosses
  <1>1. ASSUME IInv PROVE HolesAreLosses
    <2>1. TypeOK /\ Accounted /\ Line \in Seq(Int) /\ ToSet(Line) = InLine
      BY <1>1, LineIsInLine DEF IInv
    <2>2. ASSUME Line # <<>> PROVE (Head(Line) .. pts - 1) \subseteq ToSet(Line) \cup lost
      <3>1. /\ 1 \in 1 .. Len(Line) /\ Head(Line) = Line[1] /\ Head(Line) \in Int
            /\ ToSet(Line) = {Line[i] : i \in 1 .. Len(Line)}
        BY <2>1, <2>2, ToSetByIndex
      <3>2. Head(Line) \in InLine
        BY <2>1, <3>1
      <3>3. pts \in Int
        BY <2>1, PipelineAssumption DEF TypeOK
      <3>4. ASSUME NEW p \in Head(Line) .. pts - 1 PROVE p \in ToSet(Line) \cup lost
        <4>1. p \in Int /\ Head(Line) <= p /\ p < pts
          BY <3>1, <3>3
        <4> QED BY <2>1, <3>2, <4>1 DEF Accounted
      <3> QED BY <3>4
    <2>3. ToSet(Line) \cap lost = {}
      BY <2>1 DEF Accounted
    <2> QED BY <2>2, <2>3 DEF HolesAreLosses
  <1> QED BY <1>1, IInvHolds, PTL

(* After stop() both threads have ended and no frame is left behind in the   *)
(* queue or the buffer.                                                      *)
THEOREM NothingAfterStop == Spec => []QuietAfterStop
  <1>1. IInv => QuietAfterStop
    BY DEF IInv, Control, QuietAfterStop
  <1> QED BY <1>1, IInvHolds, PTL

----------------------------------------------------------------------------
(* The buffer as the feed of the ring                                       *)

LEMMA TailOfAppend ==
  ASSUME NEW s \in Seq(Int), s # <<>>, NEW x \in Int
  PROVE  Tail(Append(s, x)) = Append(Tail(s), x)
  <1> DEFINE a == Tail(Append(s, x))
             b == Append(Tail(s), x)
  <1>1. a \in Seq(Int) /\ b \in Seq(Int) /\ Len(a) = Len(s) /\ Len(b) = Len(s)
    OBVIOUS
  <1>2. ASSUME NEW i \in 1 .. Len(s) PROVE a[i] = b[i]
    OBVIOUS
  <1> HIDE DEF a, b
  <1>3. a = b
    BY <1>1, <1>2, SeqEqual
  <1> QED BY <1>3 DEF a, b

(* A packet is a delivery of the feed. *)
LEMMA PacketIsDelivery ==
  ASSUME IInv, PacketComesOut
  PROVE  Feed!Deliver
  <1> USE DEF IInv
  <1> DEFINE h == Head(moved)
  <1>1. held # <<>> /\ newest' = h /\ Push(h)
    BY DEF PacketComesOut, Encoded, moved
  <1>2. h \in Pts /\ newest < h
    BY <1>1, FirstOfMoved
  <1> HIDE DEF h
  <1>3. h \in Nat /\ newest \in Int
    BY <1>2, PipelineAssumption DEF Pts, TypeOK
  <1>4. buffer \in Seq(Int) /\ Len(Append(buffer, h)) = Len(buffer) + 1 /\ Len(buffer) \in Nat
    BY PtsAreInts DEF TypeOK
  <1>5. Capacity > 0 /\ Len(Append(buffer, h)) > Capacity <=> Feed!Full
    BY <1>4, PipelineAssumption DEF Feed!Full
  <1>6. Feed!Full => Tail(Append(buffer, h)) = Append(Tail(buffer), h)
    <2>1. Feed!Full => buffer # <<>>
      BY <1>4, PipelineAssumption DEF Feed!Full
    <2> QED BY <1>3, <1>4, <2>1, TailOfAppend
  <1>7. buffer' = Append(IF Feed!Full THEN Tail(buffer) ELSE buffer, h)
    BY <1>1, <1>5, <1>6 DEF Push
  <1> QED BY <1>1, <1>2, <1>3, <1>7 DEF Feed!Deliver

LEMMA NextFeeds == IInv /\ [Next]_vars => [Feed!Next]_<<newest, buffer>>
  <1> SUFFICES ASSUME IInv, [Next]_vars PROVE [Feed!Next]_<<newest, buffer>>
    OBVIOUS
  <1> USE DEF captureVars, encoderVars
  <1>1. CASE PacketComesOut
    BY <1>1, PacketIsDelivery DEF Feed!Next
  <1>2. CASE TickClears \/ ClearFrames
    BY <1>2 DEF TickClears, ClearFrames, StopStep, Feed!Next, Feed!Clear
  <1>3. CASE CaptureStep
    BY <1>3 DEF CaptureStep, CaptureTest, CaptureFrame, CaptureReuses, CaptureNothing,
                CaptureCrashes
  <1>4. CASE EncoderTest \/ EncoderTakes \/ EncoderFindsNone
    BY <1>4 DEF EncoderTest, EncoderTakes, EncoderFindsNone
  <1>5. CASE SendFails \/ NoPacketYet \/ ReceiveFails
    BY <1>5 DEF SendFails, NoPacketYet, ReceiveFails
  <1>6. CASE Start \/ StopCapture \/ JoinCapture \/ StopEncoder \/ JoinEncoder
    BY <1>6 DEF Start, StopCapture, JoinCapture, StopEncoder, JoinEncoder, StopStep
  <1>7. CASE UNCHANGED vars
    BY <1>7 DEF vars
  <1> QED BY <1>1, <1>2, <1>3, <1>4, <1>5, <1>6, <1>7
          DEF Next, EncoderStep, EncodeStep, FinishStop

(* What the ring of segments relies on: whatever the threads do, the buffer *)
(* only gains later frames, gives up its oldest one when it is full, and    *)
(* may be emptied.                                                          *)
THEOREM BufferIsAFeed == Spec => FeedsTheRing
  <1>1. Init => Feed!Init
    BY DEF Init, Feed!Init
  <1>2. IInv /\ [Next]_vars => [Feed!Next]_<<newest, buffer>>
    BY NextFeeds
  <1> QED BY <1>1, <1>2, IInvHolds, PTL DEF Spec, FeedsTheRing, Feed!Spec
=============================================================================
