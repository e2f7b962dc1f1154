------------------------ MODULE MediaRecorderProofs ------------------------
(* Proofs about MediaRecorder, for every ring, every number of save threads *)
(* and of frames. The ring's own invariant carries over: every step of the  *)
(* recorder is a step of the ring, or clears a buffer once the ring stopped. *)
EXTENDS MediaRecorder, RollingSegmentsProofs

----------------------------------------------------------------------------
(* The inductive invariant                                                  *)

(* Where the ring and the recorders are, by what the io thread is doing. *)
IoControl ==
    /\ io = "boot" => owner = "new"
    /\ io \in {"boot", "crashed", "return", "exited"} => ~IsRecording
    /\ io = "loop" => owner = IF IsRecording THEN "running" ELSE "stopped"
    /\ io = "join" => IsRecording
    /\ io \in {"join", "save"} => owner = "running"
    /\ io \in {"stopAudio", "stopScreen", "return", "exited"} => owner = "stopped"
    /\ io = "stopScreen" => ~capturing["audio"]
    /\ timer => io = "loop" /\ ~IsRecording

(* The threads that export, and who will wait for them. *)
SaveControl ==
    /\ \A e \in Exporters : Exporting(e) <=> saves[e] = "pending"
    /\ Exporting(Io) => io = "save"
    /\ newThread # None => io = "join"
    /\ io \in {"boot", "crashed"} => saveThread = None
    /\ io = "exited" => \A e \in Exporters : ~Exporting(e)

MRInv == /\ IInv
         /\ EInv
         /\ MRTypeOK
         /\ IoControl
         /\ SaveControl
         /\ NoOrphanSave

----------------------------------------------------------------------------
(* The ring inside the recorder                                             *)

(* Clearing a buffer of a stopped ring, which RollingSegments has no step   *)
(* for, keeps what is known of the ring.                                    *)
LEMMA ClearStoppedKeepsRing ==
  ASSUME IInv, EInv, owner = "stopped", NEW s \in Streams, ClearBuffer(s),
         UNCHANGED <<produced, seq, file, lock, tick, slot, snap, stopping, owner, dir,
                     list, exp>>
  PROVE  IInv' /\ EInv'
  <1> USE DEF IInv
  <1>1. tick = "done" /\ ~Committing /\ ~Committing' /\ OldestKept' = OldestKept
    BY DEF Control, Committing, OldestKept
  <1>2. oldest' \in [Streams -> 0 .. MaxFrames] /\ \A t \in Streams :
           oldest[t] <= oldest'[t] /\ oldest'[t] <= produced[t]
    BY RingAssumption DEF ClearBuffer, TypeOK, Buffers
  <1>3. TypeOK'
    BY <1>2 DEF TypeOK
  <1>4. Control' /\ MutexHeld' /\ Cleared'
    BY <1>1 DEF Control, MutexHeld, TickInside, Committing, Holding, Cleared
  <1>5. Buffers'
    BY <1>2, RingAssumption DEF Buffers, TypeOK
  <1>6. WindowInOrder' /\ KeptBeforeSnap' /\ CommittedInSnap'
    BY <1>1 DEF WindowInOrder, KeptBeforeSnap, CommittedInSnap, Before, FramesIn,
                SlotOf, Snapped
  <1>7. SavedOnlyOnce'
    <2> SUFFICES ASSUME NEW i \in OldestKept .. seq - 1, NEW t \in Streams,
                        NEW x \in FramesIn(file[SlotOf(i)], t)
                 PROVE  x < oldest'[t]
      BY <1>1 DEF SavedOnlyOnce, FramesIn, SlotOf
    <2>1. x < oldest[t]
      BY DEF SavedOnlyOnce
    <2>2. x \in Int
      BY KeptFramesAreInts
    <2> QED BY <1>2, <2>1, <2>2, RingAssumption DEF TypeOK
  <1>8. ExportsOK'
    BY DEF ExportsOK, ExportOK, Listing, Before, FramesIn, SlotOf, InOrderFrom, FirstListed
  <1>9. EInv'
    BY <1>1 DEF EInv, CommittedPrefix, NoLeftovers, NoLeftoverExported, CleanOK, Listing,
                InOrderFrom, Before, FramesIn, SlotOf
  <1> QED BY <1>3, <1>4, <1>5, <1>6, <1>7, <1>8, <1>9

(* Every other step is one of the ring's. *)
LEMMA RecorderStepsRing ==
  ASSUME [MRNext]_allVars
  PROVE  [Next]_vars \/ StopAudio \/ StopScreen
  <1>1. CASE MainStarts \/ MainCrashes \/ HandleShutdown \/ HandleSignal
             \/ \E t \in SaveThreads : HandleStop(t)
    BY <1>1, ThreadAssumption DEF MainStarts, MainCrashes, HandleShutdown, HandleSignal,
       BeginSaveAndStop, HandleStop, BeginSave, SaveThreads, Next, OwnerNext
  <1>2. CASE JoinOldSave \/ SyncSaveReturns \/ StopRing \/ RingStopped \/ TimerFires
             \/ DestroyRecorder
    BY <1>2 DEF JoinOldSave, SyncSaveReturns, StopRing, RingStopped, TimerFires,
       DestroyRecorder, Next, OwnerNext
  <1>3. CASE EncoderStep \/ TickStep \/ \E e \in Exporters : ExportStep(e)
    BY <1>3 DEF EncoderStep, TickStep, ExportStep, SaveLocks, ExportNext, Next
  <1>4. CASE UNCHANGED allVars
    BY <1>4 DEF allVars
  <1> QED BY <1>1, <1>2, <1>3, <1>4 DEF MRNext, IoProgress

LEMMA NextKeepsRing ==
  ASSUME MRInv, [MRNext]_allVars
  PROVE  IInv' /\ EInv'
  <1> USE DEF MRInv
  <1>1. CASE [Next]_vars
    BY <1>1, NextKeepsIInv, NextKeepsEInv
  <1>2. CASE StopAudio \/ StopScreen
    BY <1>2, ClearStoppedKeepsRing
       DEF StopAudio, StopScreen, StopCapture, IoGoto, IoControl, Streams
  <1> QED BY <1>1, <1>2, RecorderStepsRing

----------------------------------------------------------------------------
(* The threads                                                              *)

LEMMA MRInitInv == MRInit => MRInv
  <1> SUFFICES ASSUME MRInit PROVE MRInv
    OBVIOUS
  <1>1. IInv /\ EInv
    BY InitIInv, InitEInv DEF MRInit
  <1>2. MRTypeOK /\ IoControl
    BY DEF MRInit, Init, MRTypeOK, IoControl, IsRecording, Streams
  <1>3. SaveControl /\ NoOrphanSave
    <2>1. \A e \in Exporters : ~Exporting(e) /\ saves[e] = "none"
      BY DEF MRInit, Init, Exporting
    <2>2. io = "boot" /\ newThread = None /\ saveThread = None
      BY DEF MRInit
    <2> QED BY <2>1, <2>2, ThreadAssumption DEF SaveControl, NoOrphanSave, SaveThreads
  <1> QED BY <1>1, <1>2, <1>3 DEF MRInv

(* What a thread that begins to export, and one that exports, changes. *)
LEMMA BeginSaveStep ==
  ASSUME TypeOK, MRTypeOK, NEW e \in Exporters, BeginSave(e)
  PROVE  /\ ~Exporting(e) /\ Exporting(e)' /\ saves'[e] = "pending"
         /\ \A d \in Exporters \ {e} : Exporting(d)' = Exporting(d) /\ saves'[d] = saves[d]
         /\ saves' \in [Exporters -> {"none", "pending", "saved", "failed"}]
         /\ UNCHANGED <<owner, tick>>
  BY DEF BeginSave, ExportCall, ExportGoto, Exporting, TypeOK, ExporterType, MRTypeOK

LEMMA ExportStepKeeps ==
  ASSUME TypeOK, MRTypeOK, NEW e \in Exporters, ExportStep(e)
  PROVE  /\ Exporting(e)
         /\ \/ Exporting(e)' /\ saves' = saves
            \/ ~Exporting(e)' /\ saves' \in {[saves EXCEPT ![e] = "saved"],
                                            [saves EXCEPT ![e] = "failed"]}
         /\ \A d \in Exporters \ {e} : Exporting(d)' = Exporting(d)
         /\ UNCHANGED <<owner, tick, io, after, timer, capturing, saveThread, newThread>>
  <1> USE DEF Exporting, TypeOK
  <1>1. CASE SaveLocks(e)
    BY <1>1 DEF SaveLocks, ExportLock, ExportGoto, ExporterType, mrVars
  <1>2. CASE (ExportList(e) \/ ExportSpawn(e) \/ ExportConcat(e)) /\ UNCHANGED mrVars
    BY <1>2 DEF ExportList, ExportSpawn, ExportConcat, ExportGoto, ExporterType, mrVars
  <1>3. CASE \/ ExportSucceeds(e) /\ SaveEnds(e, "saved")
             \/ ExportFails(e) /\ SaveEnds(e, "failed")
    BY <1>3 DEF ExportSucceeds, ExportFails, ExportReturn, SaveEnds
  <1> QED BY <1>1, <1>2, <1>3 DEF ExportStep

LEMMA MainKeepsInv ==
  ASSUME MRInv, MainStarts \/ MainCrashes
  PROVE  MRTypeOK' /\ IoControl' /\ SaveControl' /\ NoOrphanSave'
  <1> USE DEF MRInv
  <1>1. /\ io = "boot" /\ io' \in {"loop", "crashed"} /\ owner = "new"
        /\ ~timer /\ ~IsRecording /\ saveThread = None /\ newThread = None
        /\ exp' = exp /\ capturing' \in [Streams -> BOOLEAN]
        /\ io' = "loop" => owner' = "running" /\ capturing' = [s \in Streams |-> TRUE]
        /\ io' = "crashed" => capturing' = capturing
        /\ UNCHANGED <<after, timer, saveThread, newThread, saves>>
    BY DEF MainStarts, MainCrashes, IoGoto, Start, IoControl, SaveControl, MRTypeOK, vars
  <1>2. MRTypeOK' /\ IoControl'
    BY <1>1 DEF MRTypeOK, IoControl, IsRecording, Streams
  <1>3. SaveControl' /\ NoOrphanSave'
    BY <1>1 DEF SaveControl, NoOrphanSave, Exporting
  <1> QED BY <1>2, <1>3

LEMMA HandleStopKeepsInv ==
  ASSUME MRInv, NEW t \in SaveThreads, HandleStop(t)
  PROVE  MRTypeOK' /\ IoControl' /\ SaveControl' /\ NoOrphanSave'
  <1> USE DEF MRInv, IInv
  <1>1. /\ t \in Exporters /\ t # Io /\ t # None
        /\ io = "loop" /\ IsRecording /\ newThread = None /\ owner = "running"
        /\ BeginSave(t) /\ UNCHANGED <<after, timer, capturing>>
        /\ \/ saveThread = None /\ saveThread' = t /\ UNCHANGED <<io, newThread>>
           \/ saveThread # None /\ io' = "join" /\ newThread' = t /\ UNCHANGED saveThread
    BY ThreadAssumption DEF HandleStop, SaveThreads, SaveControl, IoControl
  <1>2. /\ ~Exporting(t) /\ Exporting(t)' /\ saves'[t] = "pending"
        /\ \A d \in Exporters \ {t} : Exporting(d)' = Exporting(d) /\ saves'[d] = saves[d]
        /\ saves' \in [Exporters -> {"none", "pending", "saved", "failed"}]
        /\ UNCHANGED <<owner, tick>>
    BY <1>1, BeginSaveStep
  <1>3. MRTypeOK' /\ IoControl'
    BY <1>1, <1>2 DEF MRTypeOK, IoControl, IsRecording
  <1>4. SaveControl'
    BY <1>1, <1>2, ThreadAssumption DEF SaveControl
  <1>5. NoOrphanSave'
    BY <1>1, <1>2, ThreadAssumption DEF NoOrphanSave, SaveThreads, Exporting
  <1> QED BY <1>3, <1>4, <1>5

LEMMA SaveAndStopKeepsInv ==
  ASSUME MRInv, HandleShutdown \/ HandleSignal
  PROVE  MRTypeOK' /\ IoControl' /\ SaveControl' /\ NoOrphanSave'
  <1> USE DEF MRInv, IInv
  <1>1. PICK why \in {"shutdown", "signal"} : BeginSaveAndStop(why)
    BY DEF HandleShutdown, HandleSignal
  <1>2. /\ io = "loop" /\ IsRecording /\ owner = "running" /\ ~timer
        /\ after' = why /\ UNCHANGED <<timer, capturing, saveThread, newThread>>
    BY <1>1 DEF BeginSaveAndStop, IoControl
  <1>3. CASE io' = "save" /\ BeginSave(Io)
    <2>1. /\ Exporting(Io)' /\ saves'[Io] = "pending"
          /\ \A d \in Exporters \ {Io} : Exporting(d)' = Exporting(d) /\ saves'[d] = saves[d]
          /\ saves' \in [Exporters -> {"none", "pending", "saved", "failed"}]
          /\ UNCHANGED <<owner, tick>>
      BY <1>3, BeginSaveStep, ThreadAssumption
    <2>2. MRTypeOK' /\ IoControl'
      BY <1>2, <1>3, <2>1 DEF MRTypeOK, IoControl, IsRecording
    <2>3. SaveControl' /\ NoOrphanSave'
      BY <1>2, <1>3, <2>1, ThreadAssumption DEF SaveControl, NoOrphanSave, SaveThreads
    <2> QED BY <2>2, <2>3
  <1>4. CASE io' = "stopRing" /\ UNCHANGED <<vars, saves>>
    <2>1. MRTypeOK' /\ IoControl'
      BY <1>2, <1>4 DEF MRTypeOK, IoControl, IsRecording, vars
    <2>2. SaveControl' /\ NoOrphanSave'
      BY <1>2, <1>4 DEF SaveControl, NoOrphanSave, Exporting, vars
    <2> QED BY <2>1, <2>2
  <1> QED BY <1>1, <1>3, <1>4 DEF BeginSaveAndStop

(* The io thread's joins, its timer and its end. *)
LEMMA IoWaitKeepsInv ==
  ASSUME MRInv,
         JoinOldSave \/ SyncSaveReturns \/ RingStopped \/ TimerFires \/ DestroyRecorder
  PROVE  MRTypeOK' /\ IoControl' /\ SaveControl' /\ NoOrphanSave'
  <1> USE DEF MRInv, vars, IoGoto
  <1>1. MRTypeOK'
    BY DEF JoinOldSave, SyncSaveReturns, RingStopped, TimerFires, DestroyRecorder, MRTypeOK
  <1>2. IoControl'
    BY DEF JoinOldSave, SyncSaveReturns, RingStopped, TimerFires, DestroyRecorder,
           IoControl, IsRecording
  <1>3. exp' = exp /\ saves' = saves /\ \A e \in Exporters : Exporting(e)' = Exporting(e)
    BY DEF JoinOldSave, SyncSaveReturns, RingStopped, TimerFires, DestroyRecorder, Exporting
  <1>4. CASE JoinOldSave
    BY <1>1, <1>2, <1>3, <1>4, ThreadAssumption
       DEF JoinOldSave, SaveControl, NoOrphanSave, SaveThreads, IoControl, Exporting
  <1>5. CASE SyncSaveReturns \/ RingStopped \/ TimerFires
    BY <1>1, <1>2, <1>3, <1>5 DEF SyncSaveReturns, RingStopped, TimerFires, SaveControl, NoOrphanSave,
                     Exporting
  <1>6. CASE DestroyRecorder
    <2>1. \A e \in Exporters : ~Exporting(e)
      BY <1>6, ThreadAssumption DEF DestroyRecorder, SaveControl, NoOrphanSave, SaveThreads
    <2>2. SaveControl' /\ NoOrphanSave'
      BY <1>3, <1>6, <2>1
         DEF DestroyRecorder, SaveControl, NoOrphanSave, SaveThreads, Exporting
    <2> QED BY <1>1, <1>2, <2>2
  <1> QED BY <1>1, <1>2, <1>4, <1>5, <1>6

(* Stopping the ring, then the two captures. *)
LEMMA StopKeepsInv ==
  ASSUME MRInv, StopRing \/ StopAudio \/ StopScreen
  PROVE  MRTypeOK' /\ IoControl' /\ SaveControl' /\ NoOrphanSave'
  <1> USE DEF MRInv
  <1>1. exp' = exp /\ UNCHANGED <<saveThread, newThread, saves>>
    BY DEF StopRing, RequestStop, Join, RemoveDir, ResetSeq, mrVars, StopAudio, StopScreen,
           StopCapture
  <1>2. CASE StopRing
    <2>1. io = "stopRing" /\ UNCHANGED mrVars
      BY <1>2 DEF StopRing
    <2>2. MRTypeOK' /\ IoControl'
      BY <2>1 DEF MRTypeOK, IoControl, IsRecording, mrVars
    <2> QED BY <1>1, <2>1, <2>2 DEF SaveControl, NoOrphanSave, Exporting, mrVars
  <1>3. CASE StopAudio
    <2>1. /\ io = "stopAudio" /\ io' = "stopScreen" /\ owner' = owner
          /\ capturing' = [capturing EXCEPT !["audio"] = FALSE]
          /\ UNCHANGED <<after, timer>>
      BY <1>3 DEF StopAudio, StopCapture, IoGoto
    <2>2. MRTypeOK' /\ IoControl'
      BY <1>1, <2>1 DEF MRTypeOK, IoControl, IsRecording, Streams
    <2> QED BY <1>1, <2>1, <2>2 DEF SaveControl, NoOrphanSave, Exporting
  <1>4. CASE StopScreen
    <2>1. /\ io = "stopScreen" /\ io' = (IF after = "shutdown" THEN "loop" ELSE "return")
          /\ owner' = owner /\ timer' = (after = "shutdown") /\ after' = after
          /\ capturing' = [capturing EXCEPT !["video"] = FALSE]
      BY <1>4 DEF StopScreen, StopCapture, IoGoto
    <2>2. ~IsRecording' /\ capturing' \in [Streams -> BOOLEAN]
      BY <2>1 DEF MRTypeOK, IoControl, IsRecording, Streams
    <2>3. MRTypeOK' /\ IoControl'
      BY <1>1, <2>1, <2>2 DEF MRTypeOK, IoControl
    <2> QED BY <1>1, <2>1, <2>3 DEF SaveControl, NoOrphanSave, Exporting
  <1> QED BY <1>2, <1>3, <1>4

LEMMA OtherThreadsKeepInv ==
  ASSUME MRInv, EncoderStep \/ TickStep \/ UNCHANGED allVars
  PROVE  MRTypeOK' /\ IoControl' /\ SaveControl' /\ NoOrphanSave'
  <1> USE DEF MRInv
  <1>1. UNCHANGED <<exp, owner, io, after, timer, capturing, saveThread, newThread, saves>>
    <2>1. CASE EncoderStep \/ UNCHANGED allVars
      BY <2>1 DEF EncoderStep, Push, mrVars, allVars, vars
    <2>2. CASE TickStep
      BY <2>2 DEF TickStep, mrVars, TickNext, TickTest, TickWake, TickLock, TickAbort,
         TickHeaderFails, TickSnapVideo, TickSnapAudio, TakeSnapshot, TickClearVideo,
         TickClearAudio, TickClear, TickOpen, TickMux, TickReturn, TickAdvance
    <2> QED BY <2>1, <2>2
  <1> QED BY <1>1 DEF MRTypeOK, IoControl, IsRecording, SaveControl, NoOrphanSave, Exporting

LEMMA ExportKeepsInv ==
  ASSUME MRInv, NEW e \in Exporters, ExportStep(e)
  PROVE  MRTypeOK' /\ IoControl' /\ SaveControl' /\ NoOrphanSave'
  <1> USE DEF MRInv, IInv
  <1>1. /\ Exporting(e)
        /\ \/ Exporting(e)' /\ saves' = saves
           \/ ~Exporting(e)' /\ saves' \in {[saves EXCEPT ![e] = "saved"],
                                           [saves EXCEPT ![e] = "failed"]}
        /\ \A d \in Exporters \ {e} : Exporting(d)' = Exporting(d)
        /\ UNCHANGED <<owner, tick, io, after, timer, capturing, saveThread, newThread>>
    BY ExportStepKeeps
  <1>2. /\ saves' \in [Exporters -> {"none", "pending", "saved", "failed"}]
        /\ \A d \in Exporters \ {e} : saves'[d] = saves[d]
        /\ Exporting(e)' <=> saves'[e] = "pending"
    BY <1>1 DEF MRTypeOK, SaveControl
  <1>3. MRTypeOK' /\ IoControl'
    BY <1>1, <1>2 DEF MRTypeOK, IoControl, IsRecording
  <1>4. SaveControl' /\ NoOrphanSave'
    BY <1>1, <1>2, ThreadAssumption DEF SaveControl, NoOrphanSave, SaveThreads, Exporting
  <1> QED BY <1>3, <1>4

LEMMA NextKeepsMRInv ==
  ASSUME MRInv, [MRNext]_allVars
  PROVE  MRInv'
  <1>1. IInv' /\ EInv'
    BY NextKeepsRing
  <1>2. MRTypeOK' /\ IoControl' /\ SaveControl' /\ NoOrphanSave'
    BY MainKeepsInv, HandleStopKeepsInv, SaveAndStopKeepsInv, IoWaitKeepsInv, StopKeepsInv,
       OtherThreadsKeepInv, ExportKeepsInv DEF MRNext, IoProgress
  <1> QED BY <1>1, <1>2 DEF MRInv

----------------------------------------------------------------------------
(* Theorems                                                                 *)

(* The invariant of the ring, of the event loop and of the save threads.    *)
THEOREM MRInvHolds == MRSpec => []MRInv
  <1>1. MRInit => MRInv
    BY MRInitInv
  <1>2. MRInv /\ [MRNext]_allVars => MRInv'
    BY NextKeepsMRInv
  <1> QED BY <1>1, <1>2, PTL DEF MRSpec

(* What the ring promises on its own it keeps inside the recorder, where    *)
(* stop() also clears the buffers: the order of the segments it holds, of   *)
(* exports made while no tick commits and of all others from their second   *)
(* segment on, and that no frame is saved twice and no leftover exported.   *)
THEOREM RingPromisesKept ==
  MRSpec => [](/\ WindowInOrder /\ SavedOnlyOnce
               /\ CleanExportInOrder /\ OnlyFirstMisplaced /\ NoLeftoverExported)
  <1>1. MRInv => /\ WindowInOrder /\ SavedOnlyOnce
                 /\ CleanExportInOrder /\ OnlyFirstMisplaced /\ NoLeftoverExported
    BY DEF MRInv, IInv, ExportsOK, ExportOK, OnlyFirstMisplaced, InOrderFrom,
           EInv, CleanOK, CleanExportInOrder
  <1> QED BY <1>1, MRInvHolds, PTL

(* The mutex of the ring, with every thread of the program at work.         *)
THEOREM RecorderMutexHeld == MRSpec => []MutexHeld
  <1>1. MRInv => MutexHeld
    BY DEF MRInv, IInv
  <1> QED BY <1>1, MRInvHolds, PTL

(* Every save thread that runs has somebody to join it.                     *)
THEOREM SavesAreOwned == MRSpec => []NoOrphanSave
  <1>1. MRInv => NoOrphanSave
    BY DEF MRInv
  <1> QED BY <1>1, MRInvHolds, PTL

(* Nothing runs, and nothing is open, when main has returned.               *)
THEOREM MainEndsLast == MRSpec => []NothingOutlivesMain
  <1>1. ASSUME MRInv, io = "exited"
        PROVE  /\ tick = "done" /\ lock = "free" /\ ~IsRecording
               /\ \A e \in Exporters : ~Exporting(e) /\ saves[e] # "pending"
    <2> USE <1>1 DEF MRInv, IInv
    <2>1. tick = "done" /\ ~IsRecording
      BY DEF IoControl, Control
    <2>2. \A e \in Exporters : ~Exporting(e) /\ saves[e] # "pending"
      BY DEF SaveControl
    <2>3. lock = "free"
      BY <2>1, <2>2 DEF MutexHeld, TickInside, Holding, Exporting, TypeOK
    <2> QED BY <2>1, <2>2, <2>3
  <1>2. MRInv => NothingOutlivesMain
    BY <1>1 DEF NothingOutlivesMain
  <1> QED BY <1>2, MRInvHolds, PTL

(* The API accepts a save only while there is a running ring to save from.  *)
THEOREM AcceptedWhileRunning == MRSpec => SavesAcceptedOnlyWhileRunning
  <1>1. ASSUME MRInv, [MRNext]_allVars
        PROVE  [\A e \in Exporters :
                  saves[e] = "none" /\ saves'[e] = "pending" => owner = "running"]_allVars
    <2> USE <1>1 DEF MRInv
    <2>1. CASE \/ HandleShutdown \/ HandleSignal
               \/ \E t \in SaveThreads : HandleStop(t)
      BY <2>1 DEF HandleShutdown, HandleSignal, BeginSaveAndStop, HandleStop, IoControl
    <2>2. ASSUME NEW e \in Exporters, ExportStep(e)
          PROVE  \A d \in Exporters : saves'[d] = "pending" => saves[d] = "pending"
      BY <2>2, ExportStepKeeps DEF IInv, MRTypeOK
    <2>3. CASE saves' = saves
      BY <2>3
    <2>4. CASE MainStarts \/ MainCrashes \/ IoProgress \/ EncoderStep \/ TickStep
               \/ UNCHANGED allVars
      BY <2>3, <2>4 DEF MainStarts, MainCrashes, IoProgress, JoinOldSave, SyncSaveReturns,
         StopRing, RingStopped, StopAudio, StopScreen, StopCapture, TimerFires,
         DestroyRecorder, EncoderStep, TickStep, mrVars, allVars
    <2> QED BY <1>1, <2>1, <2>2, <2>4 DEF MRNext
  <1> QED BY <1>1, MRInvHolds, PTL DEF MRSpec, SavesAcceptedOnlyWhileRunning
=============================================================================
