--------------------------- MODULE MuxLoopProofs ---------------------------
(* Proofs about MuxLoop, for snapshots of any length that start anywhere,   *)
(* with any gaps in the video and any repeated times in the audio, and for  *)
(* any two frame durations.                                                 *)
EXTENDS MuxLoop, WellFoundedInduction, TLAPS

----------------------------------------------------------------------------
(* The inductive invariant                                                  *)

(* What the loop walks: video frames one after the other in time, audio     *)
(* frames that follow each other or repeat a time.                          *)
Rises(s) ==
    /\ s \in Seq(Int) /\ Len(s) > 0
    /\ \A i \in 1 .. Len(s) - 1 : s[i + 1] >= s[i] + 1

Climbs(s) ==
    /\ s \in Seq(Int) /\ Len(s) > 0
    /\ \A i \in 1 .. Len(s) - 1 : s[i + 1] >= s[i] /\ s[i + 1] <= s[i] + 1

Snapshots ==
    /\ Rises(video) /\ video[1] >= 0
    /\ Climbs(audio) /\ audio[1] >= -1
    /\ \A i \in 2 .. Len(audio) : audio[i] >= 0

IInv ==
    /\ Snapshots
    /\ TypeOK
    /\ OnlyTailLost
    /\ WrittenInOrder
    /\ LeavesMuxPrefix

----------------------------------------------------------------------------
(* Induction, as the least number of which something is true.               *)

LEMMA LeastNatural ==
  ASSUME NEW T \in SUBSET Nat, T # {}
  PROVE  \E n \in T : \A m \in T : n <= m
  <1> DEFINE R == OpToRel(<, Nat)
  <1>1. IsWellFoundedOn(R, Nat)
    BY NatLessThanWellFounded
  <1>2. PICK n \in T : \A m \in T : <<m, n>> \notin R
    BY <1>1, WFMin
  <1>3. \A m \in T : m < n => <<m, n>> \in R
    BY DEF OpToRel
  <1> HIDE DEF R
  <1>4. \A m \in T : ~(m < n)
    BY <1>2, <1>3
  <1> QED BY <1>4

(* From frame to frame the timestamps grow by at least one each. *)
LEMMA RisesFar ==
  ASSUME NEW s, Rises(s), NEW i \in 1 .. Len(s), NEW j \in 1 .. Len(s), i <= j
  PROVE  s[j] >= s[i] + (j - i)
  <1> DEFINE T == {k \in i .. Len(s) : ~(s[k] >= s[i] + (k - i))}
  <1>1. Len(s) \in Nat /\ \A k \in 1 .. Len(s) : s[k] \in Int
    BY DEF Rises
  <1> SUFFICES ASSUME T # {} PROVE FALSE
    BY <1>1
  <1>2. T \in SUBSET Nat
    BY <1>1
  <1>3. PICK k \in T : \A m \in T : k <= m
    <2> HIDE DEF T
    <2> QED BY <1>2, LeastNatural
  <1>4. k \in i .. Len(s) /\ ~(s[k] >= s[i] + (k - i))
    OBVIOUS
  <1>5. k # i
    BY <1>1, <1>4
  <1>6. k - 1 \in i .. Len(s) /\ k - 1 \in 1 .. Len(s) - 1 /\ (k - 1) + 1 = k
    BY <1>1, <1>4, <1>5
  <1>7. s[k - 1] >= s[i] + (k - 1 - i)
    BY <1>1, <1>3, <1>6
  <1>8. s[k] >= s[k - 1] + 1
    BY <1>6 DEF Rises
  <1> HIDE DEF T
  <1>9. /\ s[k] \in Int /\ s[k - 1] \in Int /\ s[i] \in Int
        /\ k \in Int /\ i \in Int
    BY <1>1, <1>4, <1>6
  <1> QED BY <1>4, <1>7, <1>8, <1>9

(* A time that repeats or goes up by one goes up by at most one each. *)
LEMMA ClimbsSlowly ==
  ASSUME NEW s, Climbs(s), NEW i \in 1 .. Len(s), NEW j \in 1 .. Len(s), i <= j
  PROVE  s[i] <= s[j] /\ s[j] <= s[i] + (j - i)
  <1> DEFINE T == {k \in i .. Len(s) : ~(s[i] <= s[k] /\ s[k] <= s[i] + (k - i))}
  <1>1. Len(s) \in Nat /\ \A k \in 1 .. Len(s) : s[k] \in Int
    BY DEF Climbs
  <1> SUFFICES ASSUME T # {} PROVE FALSE
    BY <1>1
  <1>2. T \in SUBSET Nat
    BY <1>1
  <1>3. PICK k \in T : \A m \in T : k <= m
    <2> HIDE DEF T
    <2> QED BY <1>2, LeastNatural
  <1>4. k \in i .. Len(s) /\ ~(s[i] <= s[k] /\ s[k] <= s[i] + (k - i))
    OBVIOUS
  <1>5. k # i
    BY <1>1, <1>4
  <1>6. k - 1 \in i .. Len(s) /\ k - 1 \in 1 .. Len(s) - 1 /\ (k - 1) + 1 = k
    BY <1>1, <1>4, <1>5
  <1>7. s[i] <= s[k - 1] /\ s[k - 1] <= s[i] + (k - 1 - i)
    BY <1>1, <1>3, <1>6
  <1>8. s[k - 1] <= s[k] /\ s[k] <= s[k - 1] + 1
    BY <1>6 DEF Climbs
  <1> HIDE DEF T
  <1>9. /\ s[k] \in Int /\ s[k - 1] \in Int /\ s[i] \in Int
        /\ k \in Int /\ i \in Int
    BY <1>1, <1>4, <1>6
  <1> QED BY <1>4, <1>7, <1>8, <1>9

----------------------------------------------------------------------------
(* Arithmetic of the two clocks                                             *)

LEMMA Scale ==
  ASSUME NEW x \in Int, NEW y \in Int, NEW t \in Nat \ {0}
  PROVE  /\ x * t \in Int
         /\ x <= y <=> x * t <= y * t
         /\ (x + 1) * t = x * t + t
  <1>1. x * t \in Int /\ (x + 1) * t = x * t + t
    OBVIOUS
  <1>2. x <= y => x * t <= y * t
    <2>1. (y - x) * t = y * t - x * t
      OBVIOUS
    <2>2. x <= y => (y - x) * t >= 0
      OBVIOUS
    <2> QED BY <2>1, <2>2
  <1>3. ~(x <= y) => ~(x * t <= y * t)
    <2>1. (x - y) * t = x * t - y * t
      OBVIOUS
    <2>2. ~(x <= y) => (x - y) * t > 0
      OBVIOUS
    <2> QED BY <2>1, <2>2
  <1> QED BY <1>1, <1>2, <1>3

----------------------------------------------------------------------------
(* The rebased times                                                        *)

LEMMA DiffIsNat ==
  ASSUME NEW s \in Seq(Int), Len(s) > 0
  PROVE  /\ Len(s) \in 1 .. Len(s) /\ 1 \in 1 .. Len(s)
         /\ Last(s) = s[Len(s)] /\ Last(s) \in Int /\ s[1] \in Int
         /\ Diff(s) \in Nat
         /\ Diff(s) >= Last(s) - (Len(s) - 1)
         /\ Diff(s) = 0 \/ Diff(s) = Last(s) - (Len(s) - 1)
         /\ Diff(s) = IF Last(s) < Len(s) - 1 THEN 0 ELSE Last(s) - (Len(s) - 1)
  <1>1. /\ Len(s) \in Nat /\ Len(s) \in 1 .. Len(s) /\ 1 \in 1 .. Len(s)
        /\ s[Len(s)] \in Int /\ s[1] \in Int
    OBVIOUS
  <1>2. Last(s) = s[Len(s)]
    BY DEF Last
  <1>3. Diff(s) = IF Last(s) - (Len(s) - 1) < 0 THEN 0 ELSE Last(s) - (Len(s) - 1)
    BY DEF Diff
  <1> QED BY <1>1, <1>2, <1>3

(* The video is rebased to start at zero or, with frames missing, before. *)
LEMMA VideoDiff ==
  ASSUME Snapshots
  PROVE  /\ Diff(video) = Last(video) - (Len(video) - 1)
         /\ video[1] - Diff(video) \in Int /\ video[1] - Diff(video) <= 0
  <1>1. video \in Seq(Int) /\ Len(video) > 0 /\ Len(video) \in Nat
    BY DEF Snapshots, Rises
  <1>2. /\ Len(video) \in 1 .. Len(video) /\ 1 \in 1 .. Len(video)
        /\ Last(video) = video[Len(video)] /\ Last(video) \in Int /\ video[1] \in Int
        /\ Diff(video) = IF Last(video) < Len(video) - 1
                         THEN 0 ELSE Last(video) - (Len(video) - 1)
    BY <1>1, DiffIsNat
  <1>3. video[Len(video)] >= video[1] + (Len(video) - 1) /\ video[1] >= 0
    BY <1>1, <1>2, RisesFar DEF Snapshots
  <1> QED BY <1>1, <1>2, <1>3

(* No audio packet but the first is rebased to a time before zero. *)
LEMMA AudioDiff ==
  ASSUME Snapshots, NEW i \in 2 .. Len(audio)
  PROVE  audio[i] - Diff(audio) \in Nat
  <1>1. audio \in Seq(Int) /\ Len(audio) > 0 /\ Len(audio) \in Nat
    BY DEF Snapshots, Climbs
  <1>2. /\ Len(audio) \in 1 .. Len(audio) /\ 1 \in 1 .. Len(audio)
        /\ Last(audio) = audio[Len(audio)] /\ Last(audio) \in Int /\ audio[1] \in Int
        /\ Diff(audio) \in Nat
        /\ Diff(audio) = 0 \/ Diff(audio) = Last(audio) - (Len(audio) - 1)
    BY <1>1, DiffIsNat
  <1>3. i \in 1 .. Len(audio) /\ i \in Int /\ 1 <= i
    BY <1>1
  <1>4. audio[Len(audio)] <= audio[1] + (Len(audio) - 1) /\ audio[1] <= audio[i]
    BY <1>1, <1>2, <1>3, ClimbsSlowly DEF Snapshots
  <1>5. audio[i] >= 0 /\ audio[i] \in Int
    BY <1>1, <1>3 DEF Snapshots
  <1> QED BY <1>1, <1>2, <1>4, <1>5

LEMMA VideoTimes ==
  ASSUME Snapshots
  PROVE  /\ \A i \in 1 .. Len(video) : VideoTime(i) \in Int
         /\ \A i, j \in 1 .. Len(video) : i <= j => VideoTime(i) <= VideoTime(j)
         /\ VideoTime(1) <= 0
  <1>1. /\ Rises(video) /\ Diff(video) \in Nat /\ VideoTicks \in Nat \ {0}
        /\ \A i \in 1 .. Len(video) : video[i] - Diff(video) \in Int
    BY DiffIsNat, TicksAssumption DEF Snapshots, Rises
  <1>2. ASSUME NEW i \in 1 .. Len(video), NEW j \in 1 .. Len(video), i <= j
        PROVE  VideoTime(i) <= VideoTime(j)
    <2>1. video[j] >= video[i] + (j - i)
      BY <1>1, <1>2, RisesFar
    <2>2. video[i] \in Int /\ video[j] \in Int
      BY <1>1 DEF Rises
    <2>3. video[i] - Diff(video) <= video[j] - Diff(video)
      BY <1>1, <1>2, <2>1, <2>2
    <2> QED BY <1>1, <2>3, Scale DEF VideoTime
  <1>3. VideoTime(1) <= 0
    <2> DEFINE x == video[1] - Diff(video)
    <2>1. x \in Int /\ x <= 0
      BY VideoDiff
    <2> HIDE DEF x
    <2>2. x * VideoTicks <= 0 * VideoTicks /\ 0 * VideoTicks = 0
      BY <1>1, <2>1, Scale
    <2> QED BY <2>2 DEF VideoTime, x
  <1> QED BY <1>1, <1>2, <1>3, Scale DEF VideoTime

LEMMA AudioTimes ==
  ASSUME Snapshots
  PROVE  /\ \A i \in 1 .. Len(audio) : AudioTime(i) \in Int
         /\ \A i, j \in 1 .. Len(audio) : i <= j => AudioTime(i) <= AudioTime(j)
         /\ \A i \in 2 .. Len(audio) : 0 <= AudioTime(i)
  <1>1. /\ Climbs(audio) /\ Diff(audio) \in Nat /\ AudioTicks \in Nat \ {0}
        /\ \A i \in 1 .. Len(audio) : audio[i] - Diff(audio) \in Int
    BY DiffIsNat, TicksAssumption DEF Snapshots, Climbs
  <1>2. ASSUME NEW i \in 1 .. Len(audio), NEW j \in 1 .. Len(audio), i <= j
        PROVE  AudioTime(i) <= AudioTime(j)
    <2>1. audio[i] <= audio[j]
      BY <1>1, <1>2, ClimbsSlowly
    <2>2. audio[i] \in Int /\ audio[j] \in Int
      BY <1>1 DEF Climbs
    <2>3. audio[i] - Diff(audio) <= audio[j] - Diff(audio)
      BY <1>1, <1>2, <2>1, <2>2
    <2> QED BY <1>1, <2>3, Scale DEF AudioTime
  <1>3. ASSUME NEW i \in 2 .. Len(audio)
        PROVE  0 <= AudioTime(i)
    <2> DEFINE x == audio[i] - Diff(audio)
    <2>1. x \in Int /\ 0 <= x
      BY AudioDiff
    <2> HIDE DEF x
    <2>2. 0 * AudioTicks <= x * AudioTicks /\ 0 * AudioTicks = 0
      BY <1>1, <2>1, Scale
    <2> QED BY <2>2 DEF AudioTime, x
  <1> QED BY <1>1, <1>2, <1>3, Scale DEF AudioTime

----------------------------------------------------------------------------
(* The loop                                                                 *)

LEMMA InitInv == Init => IInv
  <1> SUFFICES ASSUME Init PROVE IInv
    OBVIOUS
  <1>1. Rises(video) /\ video[1] >= 0
    <2>1. PICK n \in 1 .. MaxSnapshot : video \in [1 .. n -> 0 .. MaxStart + 2 * n]
      BY DEF Init, VideoSnapshots
    <2>2. n \in Nat /\ n >= 1 /\ MaxStart + 2 * n \in Nat
      BY SnapshotAssumption
    <2>3. video \in Seq(Int) /\ Len(video) = n
      BY <2>1, <2>2
    <2>4. \A i \in 1 .. n : video[i] \in Int /\ video[i] >= 0
      BY <2>1, <2>2
    <2>5. \A i \in 1 .. n - 1 : video[i + 1] - video[i] \in {1, 2}
      BY <2>3 DEF Init, VideoSnapshots
    <2>6. \A i \in 1 .. n - 1 : video[i + 1] >= video[i] + 1
      <3> SUFFICES ASSUME NEW i \in 1 .. n - 1 PROVE video[i + 1] >= video[i] + 1
        OBVIOUS
      <3>1. i \in 1 .. n /\ i + 1 \in 1 .. n
        BY <2>2
      <3>2. video[i] \in Int /\ video[i + 1] \in Int
        BY <2>4, <3>1
      <3> QED BY <2>5, <3>2
    <2> QED BY <2>2, <2>3, <2>4, <2>6 DEF Rises
  <1>2. Climbs(audio) /\ audio[1] >= -1 /\ \A i \in 2 .. Len(audio) : audio[i] >= 0
    <2>1. PICK n \in 1 .. MaxSnapshot : audio \in [1 .. n -> -1 .. MaxStart + n]
      BY DEF Init, AudioSnapshots
    <2>2. n \in Nat /\ n >= 1 /\ MaxStart + n \in Nat
      BY SnapshotAssumption
    <2>3. audio \in Seq(Int) /\ Len(audio) = n
      BY <2>1, <2>2
    <2>4. \A i \in 1 .. n : audio[i] \in Int /\ audio[i] >= -1
      BY <2>1, <2>2
    <2>5. \A i \in 1 .. n - 1 : audio[i + 1] >= 0 /\ audio[i + 1] - audio[i] \in {0, 1}
      BY <2>3 DEF Init, AudioSnapshots
    <2>6. ASSUME NEW i \in 1 .. n - 1
          PROVE  audio[i + 1] >= audio[i] /\ audio[i + 1] <= audio[i] + 1
      <3>1. i \in 1 .. n /\ i + 1 \in 1 .. n
        BY <2>2
      <3>2. audio[i] \in Int /\ audio[i + 1] \in Int
        BY <2>4, <3>1
      <3> QED BY <2>5, <3>2
    <2>7. ASSUME NEW i \in 2 .. n PROVE audio[i] >= 0
      <3>1. i - 1 \in 1 .. n - 1 /\ (i - 1) + 1 = i
        BY <2>2
      <3> QED BY <2>5, <3>1
    <2> QED BY <2>2, <2>3, <2>4, <2>6, <2>7 DEF Climbs
  <1>3. Len(video) \in Nat /\ Len(audio) \in Nat
    BY <1>1, <1>2 DEF Rises, Climbs
  <1>4. TypeOK /\ WrittenInOrder
    BY <1>3 DEF Init, TypeOK, WrittenInOrder
  <1>5. OnlyTailLost
    BY DEF Init, OnlyTailLost, ToSet
  <1>6. LeavesMuxPrefix
    <2>1. Len(video) > 0 /\ Len(audio) > 0
      BY <1>1, <1>2 DEF Rises, Climbs
    <2>2. <<0, 0>> \in MuxPrefixes(Len(video), Len(audio))
      BY <1>3, <2>1 DEF MuxPrefixes
    <2> QED BY <2>2 DEF Init, LeavesMuxPrefix
  <1> QED BY <1>1, <1>2, <1>4, <1>5, <1>6 DEF IInv, Snapshots

(* A packet that is not earlier than any before it keeps the order.         *)
LEMMA InOrderAppend ==
  ASSUME NEW w \in Seq(Int), NEW t \in Int, \A x \in ToSet(w) : x <= t,
         \A i \in 1 .. Len(w) - 1 : w[i] <= w[i + 1]
  PROVE  LET r == Append(w, t)
         IN  /\ r \in Seq(Int)
             /\ \A i \in 1 .. Len(r) - 1 : r[i] <= r[i + 1]
             /\ \A x \in ToSet(r) : x \in ToSet(w) \/ x = t
  <1> DEFINE r == Append(w, t)
  <1>1. Len(w) \in Nat /\ Len(r) = Len(w) + 1 /\ r[Len(w) + 1] = t /\ r \in Seq(Int)
    OBVIOUS
  <1>2. \A i \in 1 .. Len(w) : r[i] = w[i]
    OBVIOUS
  <1>3. DOMAIN r = 1 .. Len(w) + 1 /\ DOMAIN w = 1 .. Len(w)
    BY <1>1
  <1> HIDE DEF r
  <1>4. \A i \in 1 .. Len(w) : w[i] \in ToSet(w)
    BY <1>3 DEF ToSet
  <1>5. ASSUME NEW i \in 1 .. Len(w) PROVE r[i] <= r[i + 1]
    <2>1. CASE i = Len(w)
      BY <1>1, <1>2, <1>4, <2>1
    <2>2. CASE i # Len(w)
      <3>1. i \in 1 .. Len(w) - 1 /\ i + 1 \in 1 .. Len(w)
        BY <1>1, <2>2
      <3> QED BY <1>2, <3>1
    <2> QED BY <2>1, <2>2
  <1>6. ASSUME NEW x \in ToSet(r) PROVE x \in ToSet(w) \/ x = t
    <2>1. PICK i \in 1 .. Len(w) + 1 : x = r[i]
      BY <1>3 DEF ToSet
    <2>2. i \in 1 .. Len(w) \/ i = Len(w) + 1
      BY <1>1
    <2> QED BY <1>1, <1>2, <1>4, <2>1, <2>2
  <1> QED BY <1>1, <1>5, <1>6 DEF r

LEMMA WriteVideoInv == IInv /\ WriteVideo => IInv'
  <1> SUFFICES ASSUME IInv, WriteVideo PROVE IInv'
    OBVIOUS
  <1> DEFINE v == video_idx
             a == audio_idx
             t == VideoTime(v + 1)
  <1>1. /\ Len(video) \in Nat /\ Len(audio) \in Nat /\ v \in Nat /\ a \in Nat
        /\ v + 1 \in 1 .. Len(video) /\ a + 1 \in 1 .. Len(audio)
        /\ v + 1 \in v + 1 .. Len(video) /\ a + 1 \in a + 1 .. Len(audio)
    BY DEF IInv, Snapshots, Rises, Climbs, TypeOK, WriteVideo, BothHaveMore
  <1>2. /\ written' = Append(written, t) /\ video_idx' = v + 1
        /\ UNCHANGED <<video, audio, audio_idx, pc>> /\ t <= AudioTime(a + 1)
    BY DEF WriteVideo, VideoIsNext
  <1>3. /\ \A i \in 1 .. Len(video) : VideoTime(i)' = VideoTime(i)
        /\ \A i \in 1 .. Len(audio) : AudioTime(i)' = AudioTime(i)
    BY <1>2 DEF VideoTime, AudioTime, Diff
  <1>4. /\ written \in Seq(Int) /\ t \in Int /\ \A x \in ToSet(written) : x <= t
    BY <1>1, VideoTimes DEF IInv, TypeOK, OnlyTailLost
  <1>5. /\ written' \in Seq(Int) /\ WrittenInOrder'
        /\ \A x \in ToSet(written') : x \in ToSet(written) \/ x = t
    BY <1>2, <1>4, InOrderAppend DEF IInv, WrittenInOrder
  <1> HIDE DEF t
  <1>6. OnlyTailLost'
    <2> SUFFICES ASSUME NEW x \in ToSet(written')
                 PROVE  /\ \A i \in v + 1 + 1 .. Len(video) : x <= VideoTime(i)
                        /\ \A i \in a + 1 .. Len(audio) : x <= AudioTime(i)
      BY <1>1, <1>2, <1>3 DEF OnlyTailLost
    <2>1. CASE x \in ToSet(written)
      BY <1>1, <2>1 DEF IInv, OnlyTailLost
    <2>2. CASE x = t
      <3>1. \A i \in v + 1 + 1 .. Len(video) : t <= VideoTime(i)
        BY <1>1, VideoTimes DEF IInv, t
      <3>2. ASSUME NEW i \in a + 1 .. Len(audio) PROVE t <= AudioTime(i)
        <4>1. AudioTime(a + 1) <= AudioTime(i) /\ AudioTime(i) \in Int
              /\ AudioTime(a + 1) \in Int
          BY <1>1, AudioTimes DEF IInv
        <4> QED BY <1>2, <1>4, <4>1
      <3> QED BY <2>2, <3>1, <3>2
    <2> QED BY <1>5, <2>1, <2>2
  <1>7. Snapshots' /\ TypeOK'
    BY <1>1, <1>2, <1>5 DEF IInv, Snapshots, TypeOK
  <1>8. LeavesMuxPrefix'
    <2>1. <<v + 1, a>> \in MuxPrefixes(Len(video), Len(audio))
      BY <1>1 DEF MuxPrefixes
    <2>2. <<video_idx', audio_idx'>> \in MuxPrefixes(Len(video'), Len(audio'))
      BY <1>2, <2>1
    <2> QED BY <2>2 DEF LeavesMuxPrefix
  <1> QED BY <1>5, <1>6, <1>7, <1>8 DEF IInv

LEMMA WriteAudioInv == IInv /\ WriteAudio => IInv'
  <1> SUFFICES ASSUME IInv, WriteAudio PROVE IInv'
    OBVIOUS
  <1> DEFINE v == video_idx
             a == audio_idx
             t == AudioTime(a + 1)
  <1>1. /\ Len(video) \in Nat /\ Len(audio) \in Nat /\ v \in Nat /\ a \in Nat
        /\ v + 1 \in 1 .. Len(video) /\ a + 1 \in 1 .. Len(audio)
        /\ v + 1 \in v + 1 .. Len(video) /\ a + 1 \in a + 1 .. Len(audio)
    BY DEF IInv, Snapshots, Rises, Climbs, TypeOK, WriteAudio, BothHaveMore
  <1>2. /\ written' = Append(written, t) /\ audio_idx' = a + 1
        /\ UNCHANGED <<video, audio, video_idx, pc>> /\ ~(VideoTime(v + 1) <= t)
    BY DEF WriteAudio, VideoIsNext
  <1>3. /\ \A i \in 1 .. Len(video) : VideoTime(i)' = VideoTime(i)
        /\ \A i \in 1 .. Len(audio) : AudioTime(i)' = AudioTime(i)
    BY <1>2 DEF VideoTime, AudioTime, Diff
  <1>4. /\ written \in Seq(Int) /\ t \in Int /\ \A x \in ToSet(written) : x <= t
    BY <1>1, AudioTimes DEF IInv, TypeOK, OnlyTailLost
  <1>5. /\ written' \in Seq(Int) /\ WrittenInOrder'
        /\ \A x \in ToSet(written') : x \in ToSet(written) \/ x = t
    BY <1>2, <1>4, InOrderAppend DEF IInv, WrittenInOrder
  <1> HIDE DEF t
  <1>6. OnlyTailLost'
    <2> SUFFICES ASSUME NEW x \in ToSet(written')
                 PROVE  /\ \A i \in v + 1 .. Len(video) : x <= VideoTime(i)
                        /\ \A i \in a + 1 + 1 .. Len(audio) : x <= AudioTime(i)
      BY <1>1, <1>2, <1>3 DEF OnlyTailLost
    <2>1. CASE x \in ToSet(written)
      BY <1>1, <2>1 DEF IInv, OnlyTailLost
    <2>2. CASE x = t
      <3>1. \A i \in a + 1 + 1 .. Len(audio) : t <= AudioTime(i)
        BY <1>1, AudioTimes DEF IInv, t
      <3>2. ASSUME NEW i \in v + 1 .. Len(video) PROVE t <= VideoTime(i)
        <4>1. VideoTime(v + 1) <= VideoTime(i) /\ VideoTime(i) \in Int
              /\ VideoTime(v + 1) \in Int
          BY <1>1, VideoTimes DEF IInv
        <4> QED BY <1>2, <1>4, <4>1
      <3> QED BY <2>2, <3>1, <3>2
    <2> QED BY <1>5, <2>1, <2>2
  <1>7. Snapshots' /\ TypeOK'
    BY <1>1, <1>2, <1>5 DEF IInv, Snapshots, TypeOK
  <1>8. LeavesMuxPrefix'
    <2>1. a > 0 => v > 0
      <3> SUFFICES ASSUME a > 0, v = 0 PROVE FALSE
        BY <1>1
      <3>1. a + 1 \in 2 .. Len(audio) /\ v + 1 = 1
        BY <1>1
      <3>2. 0 <= t
        BY <3>1, AudioTimes DEF IInv, t
      <3>3. VideoTime(v + 1) <= 0 /\ VideoTime(v + 1) \in Int
        BY <1>1, <3>1, VideoTimes DEF IInv
      <3> QED BY <1>2, <1>4, <3>2, <3>3
    <2>2. <<v, a + 1>> \in MuxPrefixes(Len(video), Len(audio))
      BY <1>1, <2>1 DEF MuxPrefixes
    <2>3. <<video_idx', audio_idx'>> \in MuxPrefixes(Len(video'), Len(audio'))
      BY <1>2, <2>2
    <2> QED BY <2>3 DEF LeavesMuxPrefix
  <1> QED BY <1>5, <1>6, <1>7, <1>8 DEF IInv

LEMMA NextInv == IInv /\ [Next]_vars => IInv'
  <1> SUFFICES ASSUME IInv, [Next]_vars PROVE IInv'
    OBVIOUS
  <1>1. CASE WriteFails \/ LoopEnds \/ UNCHANGED vars
    <2>1. UNCHANGED <<video, audio, video_idx, audio_idx, written>>
          /\ pc' \in {"loop", "trailer"}
      BY <1>1 DEF WriteFails, LoopEnds, vars, IInv, TypeOK
    <2>2. Snapshots' /\ TypeOK' /\ WrittenInOrder'
      BY <2>1 DEF IInv, Snapshots, TypeOK, WrittenInOrder
    <2>3. OnlyTailLost'
      BY <2>1 DEF IInv, OnlyTailLost, VideoTime, AudioTime, Diff
    <2>4. LeavesMuxPrefix'
      BY <2>1 DEF IInv, LeavesMuxPrefix, MuxPrefixes
    <2> QED BY <2>2, <2>3, <2>4 DEF IInv
  <1> QED BY <1>1, WriteVideoInv, WriteAudioInv DEF Next

----------------------------------------------------------------------------
(* The theorems                                                             *)

(* The invariant of the loop. *)
THEOREM IInvHolds == Spec => []IInv
  <1> QED BY InitInv, NextInv, PTL DEF Spec

(* Packets reach the muxer in the order of their rebased times, whatever    *)
(* the gaps and the clocks of the two encoders.                             *)
THEOREM PacketsInOrder == Spec => []WrittenInOrder
  <1>1. IInv => WrittenInOrder
    BY DEF IInv
  <1> QED BY <1>1, IInvHolds, PTL

(* What save_av_to_ts drops when a snapshot runs out is a tail. *)
THEOREM TailsAreLost == Spec => []OnlyTailLost
  <1>1. IInv => OnlyTailLost
    BY DEF IInv
  <1> QED BY <1>1, IInvHolds, PTL

(* Rebasing brings both streams to time zero, however far apart they began, *)
(* except for the frames that are missing and the times that repeat.        *)
THEOREM StreamsStartApartByLosses == Spec => []StartApartByLosses
  <1>1. IInv => StartApartByLosses
    <2> SUFFICES ASSUME IInv PROVE StartApartByLosses
      OBVIOUS
    <2>1. /\ video \in Seq(Int) /\ Len(video) > 0 /\ Len(video) \in Nat
          /\ audio \in Seq(Int) /\ Len(audio) > 0 /\ Len(audio) \in Nat
      BY DEF IInv, Snapshots, Rises, Climbs
    <2>2. video[1] - Diff(video) = -Missing(video)
      <3>1. Last(video) \in Int /\ video[1] \in Int
        BY <2>1, DiffIsNat
      <3> QED BY <2>1, <3>1, VideoDiff DEF IInv, Missing
    <2>3. audio[1] - Diff(audio) = IF Last(audio) < Len(audio) - 1
                                   THEN audio[1] ELSE -Missing(audio)
      <3>1. /\ Last(audio) \in Int /\ audio[1] \in Int
            /\ Diff(audio) = IF Last(audio) < Len(audio) - 1
                             THEN 0 ELSE Last(audio) - (Len(audio) - 1)
        BY <2>1, DiffIsNat
      <3> QED BY <2>1, <3>1 DEF Missing
    <2> QED BY <2>2, <2>3 DEF StartApartByLosses, VideoTime, AudioTime
  <1> QED BY <1>1, IInvHolds, PTL

(* MuxInterleave is right about the loop for every snapshot the buffers can *)
(* hold, so that RollingSegments, which writes any of its prefixes, may do  *)
(* whatever the loop does, for any two frame durations.                     *)
THEOREM LeavesMuxPrefixHolds == Spec => []LeavesMuxPrefix
  <1>1. IInv => LeavesMuxPrefix
    BY DEF IInv
  <1> QED BY <1>1, IInvHolds, PTL
=============================================================================
