-------------------------- MODULE RollingSegments --------------------------
(* The ring of segment files (src/src/core/RollingSegments.cpp).            *)
(*                                                                          *)
(* Two encoder threads deliver video and audio frames into bounded buffers. *)
(* A tick thread wakes up once per segment, takes segment_mutex_, muxes a   *)
(* snapshot of both buffers into slot seq_ % ring_size_, releases the mutex *)
(* and only then clears the buffers and advances seq_. Exports, from        *)
(* whichever thread calls them, take the mutex, read seq_ and have ffmpeg   *)
(* concatenate the last slots. stop() joins the tick thread, removes the    *)
(* directory and resets seq_ without taking the mutex.                      *)
(*                                                                          *)
(* A frame is identified by its position in its stream. Pushes append,      *)
(* eviction and clear() remove a prefix, so a CircularBuffer always holds   *)
(* the frames oldest[s] .. produced[s] - 1 and the two ends say it all.     *)
EXTENDS MuxInterleave, Sequences

CONSTANTS
    RingSize,    \* config_.ring_size_
    Requested,   \* the number of segments MediaRecorder asks an export for
    Capacity,    \* [Streams -> Nat], capacity_ of each CircularBuffer, 0 = none
    Exporters,   \* the threads that may call export_last_segments
    NoFile,      \* a slot with no file
    Leftover,    \* a file that an earlier run of the program left behind
    MaxFrames    \* bound on the frames each encoder delivers

Streams == {"video", "audio"}
Slots   == 0 .. RingSize - 1

ASSUME RingAssumption ==
    /\ RingSize \in Nat \ {0}
    /\ Requested \in Nat
    /\ Capacity \in [Streams -> Nat]
    /\ MaxFrames \in Nat
    /\ Exporters \cap {"tick", "free"} = {}
    /\ NoFile # Leftover
    /\ {NoFile, Leftover} \cap [Streams -> SUBSET Nat] = {}

VARIABLES
    produced,   \* frames each encoder has delivered so far
    oldest,     \* the oldest frame still in each CircularBuffer
    seq,        \* seq_
    file,       \* what each slot of the ring directory holds
    lock,       \* who holds segment_mutex_
    tick,       \* where the tick thread th_ is
    slot,       \* idx: the slot of the tick under way
    snap,       \* video_frames and audio_frames: the snapshots of the tick
    stopping,   \* th_'s stop token
    owner,      \* where the thread that starts and stops the ring is
    dir,        \* config_.dir_ exists
    list,       \* dir_/list.txt exists
    exp         \* each exporter: pc, the listing it works on, what ffmpeg wrote

encVars  == <<produced, oldest>>
tickVars == <<tick, slot, snap>>
vars == <<produced, oldest, seq, file, lock, tick, slot, snap, stopping,
          owner, dir, list, exp>>

----------------------------------------------------------------------------
(* Segment files                                                            *)

(* A muxed segment is the set of frames of each stream it holds; a slot that *)
(* avio_open2 truncated and the muxer never filled holds none.               *)
Empty == [s \in Streams |-> {}]

SegmentType == [Streams -> SUBSET (0 .. MaxFrames - 1)]

FileType == SegmentType \cup {NoFile, Leftover}

(* ffmpeg's concat demuxer opens it *)
Usable(f) == f \notin {NoFile, Empty}

FramesIn(f, s) == IF f \in {NoFile, Leftover} THEN {} ELSE f[s]

Buffered(s) == oldest[s] .. produced[s] - 1

NoSnapshot == [s \in Streams |-> [from |-> 0, upto |-> 0]]

Smaller(a, b) == IF a < b THEN a ELSE b

(* Definitions marked "Slip:" are plausible errors in the code that the     *)
(* next definition models. No specification uses them; substituted for the  *)
(* definition, each must break the property the README names with it.       *)

(* Slip: one slot too many. *)
SlotOfTooWide(n) == n % (RingSize + 1)

SlotOf(n) == n % RingSize

(* Slip: the clamp at zero is forgotten. *)
FirstListedUnclamped(cur) == cur - Smaller(Requested, RingSize)

(* Slip: one segment more than the ring holds. *)
FirstListedTooEarly(cur) ==
    LET n == Smaller(Requested, RingSize) + 1 IN IF cur >= n THEN cur - n ELSE 0

(* The sequence numbers an export made at sequence number cur lists. *)
FirstListed(cur) ==
    LET n == Smaller(Requested, RingSize) IN IF cur >= n THEN cur - n ELSE 0

----------------------------------------------------------------------------
Init ==
    /\ produced = [s \in Streams |-> 0]
    /\ oldest = [s \in Streams |-> 0]
    /\ seq = 0
    /\ dir \in BOOLEAN
    /\ file \in [Slots -> {NoFile} \cup (IF dir THEN {Leftover} ELSE {})]
    /\ lock = "free"
    /\ tick = "none"
    /\ slot = 0
    /\ snap = NoSnapshot
    /\ stopping = FALSE
    /\ owner = "new"
    /\ list = FALSE
    /\ exp = [e \in Exporters |-> [pc |-> "idle", next |-> 0, upto |-> 0,
                                   out |-> <<>>]]

----------------------------------------------------------------------------
(* The encoder threads: CircularBuffer::push with enforce_capacity.         *)

Push(s) ==
    /\ produced[s] < MaxFrames
    /\ produced' = [produced EXCEPT ![s] = @ + 1]
    /\ oldest' = IF Capacity[s] > 0 /\ produced[s] + 1 - oldest[s] > Capacity[s]
                 THEN [oldest EXCEPT ![s] = @ + 1]
                 ELSE oldest
    /\ UNCHANGED <<seq, file, lock, tick, slot, snap, stopping, owner, dir,
                   list, exp>>

(* Slip: the clear is lost. *)
ClearNothing(s) == oldest' = oldest

(* CircularBuffer::clear *)
ClearBuffer(s) == oldest' = [oldest EXCEPT ![s] = produced[s]]

----------------------------------------------------------------------------
(* The tick thread. Each step up to the commit runs under the lock.         *)

TickGoto(from, to) == tick = from /\ tick' = to

(* tick_save_one_segment returns: idx and the snapshots are its locals. *)
TickReturn(from) == TickGoto(from, "test") /\ slot' = 0 /\ snap' = NoSnapshot

(* while (!st.stop_requested()), before the sleep *)
TickTest ==
    /\ TickGoto("test", IF stopping THEN "done" ELSE "sleep")
    /\ UNCHANGED <<produced, oldest, seq, file, lock, slot, snap, stopping,
                   owner, dir, list, exp>>

(* The sleep is over: leave the loop, or compute idx from seq_, which no *)
(* other thread writes while this one is running.                        *)
TickWake ==
    /\ tick = "sleep"
    /\ \/ stopping /\ tick' = "done" /\ UNCHANGED slot
       \/ ~stopping /\ tick' = "lock" /\ slot' = SlotOf(seq)
    /\ UNCHANGED <<produced, oldest, seq, file, lock, snap, stopping, owner,
                   dir, list, exp>>

(* Slip: a failed tick returns without unlocking. *)
TickAbortLocked ==
    /\ TickReturn("open")
    /\ UNCHANGED <<produced, oldest, seq, file, lock, stopping, owner, dir,
                   list, exp>>

(* Slip: the tick does not wait for the mutex. *)
TickLocksAnyway ==
    /\ TickGoto("lock", "snapVideo")
    /\ lock' = "tick"
    /\ UNCHANGED <<produced, oldest, seq, file, slot, snap, stopping, owner,
                   dir, list, exp>>

TickLock ==
    /\ TickGoto("lock", "snapVideo")
    /\ lock = "free"
    /\ lock' = "tick"
    /\ UNCHANGED <<produced, oldest, seq, file, slot, snap, stopping, owner,
                   dir, list, exp>>

TakeSnapshot(s) ==
    /\ snap' = [snap EXCEPT ![s] = [from |-> oldest[s], upto |-> produced[s]]]
    /\ UNCHANGED <<produced, oldest, seq, file, lock, slot, stopping, owner,
                   dir, list, exp>>

TickSnapVideo == TickGoto("snapVideo", "snapAudio") /\ TakeSnapshot("video")

TickSnapAudio == TickGoto("snapAudio", "open") /\ TakeSnapshot("audio")

SnapSize(s) == snap[s].upto - snap[s].from

(* Slip: a failed tick clears the video buffer like a successful one. *)
TickAbortClears ==
    /\ TickReturn("open")
    /\ lock' = "free"
    /\ ClearBuffer("video")
    /\ UNCHANGED <<produced, seq, file, stopping, owner, dir, list, exp>>

(* A snapshot is empty, or a step up to avio_open2 fails: the slot is as it *)
(* was, the buffers keep their frames and seq_ does not move.               *)
TickAbort ==
    /\ TickReturn("open")
    /\ lock' = "free"
    /\ UNCHANGED <<produced, oldest, seq, file, stopping, owner, dir, list,
                   exp>>

(* avio_open2 has truncated the slot. *)
TickOpen ==
    /\ TickGoto("open", "mux")
    /\ \A s \in Streams : SnapSize(s) > 0
    /\ file' = [file EXCEPT ![slot] = Empty]
    /\ UNCHANGED <<produced, oldest, seq, lock, slot, snap, stopping, owner,
                   dir, list, exp>>

(* avformat_write_header fails: the tick is over with the slot truncated. *)
TickHeaderFails ==
    /\ TickReturn("mux")
    /\ lock' = "free"
    /\ UNCHANGED <<produced, oldest, seq, file, stopping, owner, dir, list,
                   exp>>

(* The merge loop, cut short when a packet cannot be written. Either way *)
(* the trailer is written and the tick counts as a success.              *)
TickMux ==
    /\ TickGoto("mux", "clearVideo")
    /\ \E p \in MuxPrefixes(SnapSize("video"), SnapSize("audio")) :
          file' = [file EXCEPT ![slot] =
                     [s \in Streams |->
                        snap[s].from ..
                          snap[s].from + (IF s = "video" THEN p[1] ELSE p[2]) - 1]]
    /\ lock' = "free"
    /\ UNCHANGED <<produced, oldest, seq, slot, snap, stopping, owner, dir,
                   list, exp>>

TickClear(s, from, to) ==
    /\ TickGoto(from, to)
    /\ ClearBuffer(s)
    /\ UNCHANGED <<produced, seq, file, lock, slot, snap, stopping, owner, dir,
                   list, exp>>

TickClearVideo == TickClear("video", "clearVideo", "clearAudio")

TickClearAudio == TickClear("audio", "clearAudio", "advance")

TickAdvance ==
    /\ TickReturn("advance")
    /\ seq' = seq + 1
    /\ UNCHANGED <<produced, oldest, file, lock, stopping, owner, dir, list,
                   exp>>

TickNext == \/ TickTest       \/ TickWake        \/ TickLock
            \/ TickSnapVideo  \/ TickSnapAudio   \/ TickAbort
            \/ TickOpen       \/ TickHeaderFails \/ TickMux
            \/ TickClearVideo \/ TickClearAudio  \/ TickAdvance

(* Where the slot is overwritten, but seq_ does not say so yet. *)
Committing == tick \in {"clearVideo", "clearAudio", "advance"}

----------------------------------------------------------------------------
(* export_last_segments, called by thread e.                                *)

ExportGoto(e, from, to) ==
    /\ exp[e].pc = from
    /\ exp' = [exp EXCEPT ![e].pc = to]

(* Slip: the mutex stays locked. *)
ExportReturnsLocked(e) ==
    /\ exp' = [exp EXCEPT ![e] = [pc |-> "idle", next |-> 0, upto |-> 0,
                                  out |-> <<>>]]
    /\ lock' = lock

ExportReturn(e) ==
    /\ exp' = [exp EXCEPT ![e] = [pc |-> "idle", next |-> 0, upto |-> 0,
                                  out |-> <<>>]]
    /\ lock' = "free"

ExportCall(e) ==
    /\ ExportGoto(e, "idle", "lock")
    /\ UNCHANGED <<produced, oldest, seq, file, lock, tick, slot, snap,
                   stopping, owner, dir, list>>

ExportLock(e) ==
    /\ ExportGoto(e, "lock", "list")
    /\ lock = "free"
    /\ lock' = e
    /\ UNCHANGED <<produced, oldest, seq, file, tick, slot, snap, stopping,
                   owner, dir, list>>

(* Read seq_ and write list.txt, which needs the directory; a failure to *)
(* write it goes unnoticed here.                                         *)
ExportList(e) ==
    /\ exp[e].pc = "list"
    /\ exp' = [exp EXCEPT ![e] = [@ EXCEPT !.pc = "spawn",
                                           !.next = FirstListed(seq),
                                           !.upto = seq]]
    /\ list' = dir
    /\ UNCHANGED <<produced, oldest, seq, file, lock, tick, slot, snap,
                   stopping, owner, dir>>

(* ffmpeg starts and reads list.txt: it must exist and name something. *)
ExportSpawn(e) ==
    /\ list
    /\ exp[e].next < exp[e].upto
    /\ ExportGoto(e, "spawn", "concat")
    /\ UNCHANGED <<produced, oldest, seq, file, lock, tick, slot, snap,
                   stopping, owner, dir, list>>

(* ffmpeg copies the next listed file. *)
ExportConcat(e) ==
    /\ exp[e].pc = "concat"
    /\ exp[e].next < exp[e].upto
    /\ Usable(file[SlotOf(exp[e].next)])
    /\ exp' = [exp EXCEPT ![e].out = Append(@, file[SlotOf(exp[e].next)]),
                          ![e].next = @ + 1]
    /\ UNCHANGED <<produced, oldest, seq, file, lock, tick, slot, snap,
                   stopping, owner, dir, list>>

(* ffmpeg exits with 0: at the end of the list, or at a file it cannot    *)
(* open, unless that is the first one. list.txt is removed; that it is    *)
(* not there any more is no error.                                        *)
ExportSucceeds(e) ==
    /\ exp[e].pc = "concat"
    /\ exp[e].out # <<>>
    /\ exp[e].next = exp[e].upto \/ ~Usable(file[SlotOf(exp[e].next)])
    /\ ExportReturn(e)
    /\ list' = FALSE
    /\ UNCHANGED <<produced, oldest, seq, file, tick, slot, snap, stopping,
                   owner, dir>>

(* ffmpeg cannot be run, has nothing to read, or fails on the way (the disk *)
(* is full, it is killed); list.txt stays.                                  *)
ExportFails(e) ==
    /\ exp[e].pc \in {"spawn", "concat"}
    /\ ExportReturn(e)
    /\ UNCHANGED <<produced, oldest, seq, file, tick, slot, snap, stopping,
                   owner, dir, list>>

ExportNext(e) == \/ ExportLock(e)   \/ ExportList(e)     \/ ExportSpawn(e)
                 \/ ExportConcat(e) \/ ExportSucceeds(e) \/ ExportFails(e)

(* e is inside export_last_segments with its listing made *)
Listing(e) == exp[e].pc \in {"spawn", "concat"}

Holding(e) == exp[e].pc \in {"list", "spawn", "concat"}

----------------------------------------------------------------------------
(* start() and stop(), called by the owner of the recorder.                 *)

(* create_segment_dir succeeds and the thread starts, or it fails and start *)
(* may be tried again.                                                      *)
Start ==
    /\ owner = "new"
    /\ owner' = "running"
    /\ dir' = TRUE
    /\ tick' = "test"
    /\ UNCHANGED <<produced, oldest, seq, file, lock, slot, snap, stopping,
                   list, exp>>

(* Slip: stop() holds the mutex while it joins the tick thread. *)
RequestStopLocked ==
    /\ owner = "running"
    /\ owner' = "joining"
    /\ stopping' = TRUE
    /\ lock = "free"
    /\ lock' = "stop"
    /\ UNCHANGED <<produced, oldest, seq, file, tick, slot, snap, dir, list, exp>>

RequestStop ==
    /\ owner = "running"
    /\ owner' = "joining"
    /\ stopping' = TRUE
    /\ UNCHANGED <<produced, oldest, seq, file, lock, tick, slot, snap, dir,
                   list, exp>>

Join ==
    /\ owner = "joining"
    /\ tick = "done"
    /\ owner' = "removing"
    /\ UNCHANGED <<produced, oldest, seq, file, lock, tick, slot, snap,
                   stopping, dir, list, exp>>

(* remove_segment_dir, mutex or no mutex. remove_all may fail half way,    *)
(* which is only logged. Files go one by one in the code; since ffmpeg     *)
(* opens one at a time and gives up at the first that is missing, removing *)
(* them in one step offers an export the same outcomes.                    *)
RemoveDir ==
    /\ owner = "removing"
    /\ owner' = "resetting"
    /\ \/ /\ file' = [k \in Slots |-> NoFile]
          /\ dir' = FALSE
          /\ list' = FALSE
       \/ /\ \E gone \in SUBSET Slots :
                file' = [k \in Slots |-> IF k \in gone THEN NoFile ELSE file[k]]
          /\ list' \in {FALSE, list}
          /\ UNCHANGED dir
    /\ UNCHANGED <<produced, oldest, seq, lock, tick, slot, snap, stopping, exp>>

ResetSeq ==
    /\ owner = "resetting"
    /\ owner' = "stopped"
    /\ seq' = 0
    /\ UNCHANGED <<produced, oldest, file, lock, tick, slot, snap, stopping,
                   dir, list, exp>>

OwnerNext == Start \/ RequestStop \/ Join \/ RemoveDir \/ ResetSeq

----------------------------------------------------------------------------
Next == \/ \E s \in Streams : Push(s)
        \/ TickNext
        \/ \E e \in Exporters : ExportCall(e) \/ ExportNext(e)
        \/ OwnerNext

Spec == Init /\ [][Next]_vars

----------------------------------------------------------------------------
(* Properties                                                               *)

ExporterType == [pc   : {"idle", "lock", "list", "spawn", "concat"},
                 next : Nat, upto : Nat, out : Seq(FileType)]

(* The type invariant. *)
TypeOK ==
    /\ produced \in [Streams -> 0 .. MaxFrames]
    /\ oldest \in [Streams -> 0 .. MaxFrames]
    /\ seq \in Nat
    /\ file \in [Slots -> FileType]
    /\ lock \in Exporters \cup {"tick", "free"}
    /\ tick \in {"none", "test", "sleep", "lock", "snapVideo", "snapAudio",
                 "open", "mux", "clearVideo", "clearAudio", "advance", "done"}
    /\ slot \in Slots
    /\ snap \in [Streams -> [from : 0 .. MaxFrames, upto : 0 .. MaxFrames]]
    /\ stopping \in BOOLEAN
    /\ owner \in {"new", "running", "joining", "removing", "resetting",
                  "stopped"}
    /\ dir \in BOOLEAN
    /\ list \in BOOLEAN
    /\ exp \in [Exporters -> ExporterType]

(* Every frame of f precedes every frame of g, in both streams. *)
Before(f, g) ==
    \A s \in Streams : \A x \in FramesIn(f, s), y \in FramesIn(g, s) : x < y

(* The oldest sequence number whose slot still holds its segment: while a  *)
(* tick commits, the slot of seq - RingSize already holds the new one.     *)
OldestKept ==
    LET taken == IF Committing THEN 1 ELSE 0
    IN  IF seq + taken > RingSize THEN seq + taken - RingSize ELSE 0

(* The ring holds the history in order: of two segments still kept, every  *)
(* frame of the earlier one precedes every frame of the later one, across  *)
(* wrap-around, failed ticks, truncated slots and evictions; so no frame   *)
(* is in two segments either.                                              *)
WindowInOrder ==
    \A i, j \in OldestKept .. seq - 1 :
        i < j => Before(file[SlotOf(i)], file[SlotOf(j)])

(* A frame that a kept segment holds is never muxed again: the buffers     *)
(* only ever hold frames newer than every kept segment, also after a tick  *)
(* that failed and left them for the next one.                             *)
SavedOnlyOnce ==
    \A i \in OldestKept .. seq - 1, s \in Streams :
        \A x \in FramesIn(file[SlotOf(i)], s) : x < oldest[s]

(* What ffmpeg has written for e is in chronological order from segment k on *)
InOrderFrom(k, out) ==
    \A i, j \in k .. Len(out) : i < j => Before(out[i], out[j])

(* An export whose listing was made while no tick was committing is a      *)
(* chronological recording. (If one was, seq_ is still about to move, or   *)
(* has moved on: no tick can begin to commit during an export.)            *)
CleanExportInOrder ==
    \A e \in Exporters :
        Listing(e) /\ exp[e].upto = seq /\ ~Committing
            => InOrderFrom(1, exp[e].out)

(* Whatever the interleaving, at most the first segment of an export is    *)
(* out of place.                                                           *)
OnlyFirstMisplaced == \A e \in Exporters : InOrderFrom(2, exp[e].out)

(* Files that an earlier run left in the directory (the process was killed *)
(* or remove_all failed) are never part of a recording: start() keeps them *)
(* and only the counting of seq_ from zero protects an export from them.   *)
NoLeftoverExported ==
    \A e \in Exporters : \A i \in DOMAIN exp[e].out : exp[e].out[i] # Leftover

TickInside == tick \in {"snapVideo", "snapAudio", "open", "mux"}

(* segment_mutex_ keeps the tick thread and the exports apart: whoever     *)
(* writes a slot, writes list.txt or has ffmpeg read them is its holder,   *)
(* and it is free when nobody does (every early return releases it).       *)
MutexHeld ==
    /\ TickInside <=> lock = "tick"
    /\ \A e \in Exporters : Holding(e) <=> lock = e

(* A file that a running export has yet to read changes in no step but     *)
(* stop()'s removal of the directory, which does not take the mutex.       *)
ListedFilesStable ==
    [][\A e \in Exporters : Listing(e) /\ Listing(e)' =>
          \A i \in exp[e].next .. exp[e].upto - 1 :
             file'[SlotOf(i)] # file[SlotOf(i)] => owner = "removing"]_vars

(* A frame leaves its buffer without being in a segment file only because  *)
(* a push evicted it, because it arrived after the snapshot of the tick    *)
(* that clears the buffer, or because that tick's merge loop ended before  *)
(* it. In particular a tick that fails loses nothing.                      *)
NoOtherLoss ==
    [][\A s \in Streams : \A f \in Buffered(s) :
          f < oldest'[s] =>
             \/ produced'[s] > produced[s]
             \/ /\ Committing
                /\ \/ f \in FramesIn(file[slot], s)
                   \/ f >= snap[s].upto
                   \/ \A x \in FramesIn(file[slot], s) : x < f]_vars

(* "Guards segment files on disk against concurrent access between the     *)
(* tick thread (writing new segments) and export_last_segments (reading    *)
(* them ...)" (RollingSegments.hpp:66): what an export reads under the     *)
(* mutex is the history, in order. It is not: see CleanExportInOrder.      *)
ExportInOrder == \A e \in Exporters : InOrderFrom(1, exp[e].out)
=============================================================================
