--------------------------- MODULE MediaRecorder ---------------------------
(* The recorder as main.cpp runs it: the ring of RollingSegments, the       *)
(* background thread of save_recording_async, and the only thread of the    *)
(* io_context, which serves the control API, the signals and the shutdown   *)
(* timer and calls into the recorder (src/src/main.cpp,                     *)
(* src/src/core/MediaRecorder.cpp, src/src/api/Router.cpp).                 *)
(*                                                                          *)
(* Router::handle runs on the io_context's thread, so while a handler       *)
(* blocks (in a synchronous export, in the join of the previous save        *)
(* thread, in RollingSegment::stop) nothing else is served. Requests that   *)
(* change nothing (/health, /status, a refused /stop, an unauthorised one,  *)
(* a make_output_path that fails for /stop) are stuttering steps.           *)
EXTENDS RollingSegments

CONSTANTS
    Io,      \* the io_context's thread, an exporter when it saves synchronously
    None     \* no thread

(* Every other exporter stands for one thread save_recording_async starts. *)
SaveThreads == Exporters \ {Io}

ASSUME ThreadAssumption == Io \in Exporters /\ None \notin Exporters

VARIABLES
    io,          \* what the io_context's thread is doing
    after,       \* why it saves and stops: "shutdown" or "signal"
    timer,       \* shutdown_timer is pending
    capturing,   \* screen_recorder_->is_recording(), audio_capturer_.is_capturing()
    saveThread,  \* the thread save_thread_ owns
    newThread,   \* the thread just started, while save_thread_ joins the old one
    saves        \* what became of the save each exporter runs

mrVars  == <<io, after, timer, capturing, saveThread, newThread, saves>>
allVars == <<vars, mrVars>>

MRInit ==
    /\ Init
    /\ io = "boot"
    /\ after = "none"
    /\ timer = FALSE
    /\ capturing = [s \in Streams |-> FALSE]
    /\ saveThread = None
    /\ newThread = None
    /\ saves = [e \in Exporters |-> "none"]

(* The process has not ended. *)
Alive == io \notin {"crashed", "exited"}

(* Slip: nobody asks whether the recorder is running. *)
RecordingOrNot == TRUE

IsRecording == capturing["audio"] \/ capturing["video"]

----------------------------------------------------------------------------
(* The threads of the recorder, and what an export's result means           *)

EncoderStep ==
    \E s \in Streams : Alive /\ capturing[s] /\ Push(s) /\ UNCHANGED mrVars

TickStep == Alive /\ TickNext /\ UNCHANGED mrVars

SaveEnds(e, how) ==
    /\ saves' = [saves EXCEPT ![e] = how]
    /\ UNCHANGED <<io, after, timer, capturing, saveThread, newThread>>

SaveLocks(e) == Alive /\ ExportLock(e) /\ UNCHANGED mrVars

ExportStep(e) ==
    \/ SaveLocks(e)
    \/ (ExportList(e) \/ ExportSpawn(e) \/ ExportConcat(e)) /\ UNCHANGED mrVars
    \/ ExportSucceeds(e) /\ SaveEnds(e, "saved")
    \/ ExportFails(e) /\ SaveEnds(e, "failed")

(* Thread e is in save_recording_to. *)
Exporting(e) == exp[e].pc # "idle"

----------------------------------------------------------------------------
(* main: start the recorder, then run the event loop                        *)

IoGoto(from, to) == io = from /\ io' = to

(* MediaRecorder::start: the ring, the screen, the audio *)
MainStarts ==
    /\ IoGoto("boot", "loop")
    /\ Start
    /\ capturing' = [s \in Streams |-> TRUE]
    /\ UNCHANGED <<after, timer, saveThread, newThread, saves>>

(* Any of the three fails: crash_error ends the process where it stands. *)
MainCrashes ==
    /\ IoGoto("boot", "crashed")
    /\ \/ UNCHANGED vars
       \/ Start
    /\ UNCHANGED <<after, timer, capturing, saveThread, newThread, saves>>

----------------------------------------------------------------------------
(* POST /stop: Router::handle_stop and save_recording_async                 *)

BeginSave(e) ==
    /\ ExportCall(e)
    /\ saves' = [saves EXCEPT ![e] = "pending"]

(* Slip: the previous thread is detached instead of joined. *)
HandleStopDetaching(t) ==
    /\ io = "loop"
    /\ IsRecording
    /\ saves[t] = "none"
    /\ BeginSave(t)
    /\ saveThread' = t
    /\ UNCHANGED <<io, newThread, after, timer, capturing>>

(* std::jthread's constructor has started the new thread by the time its   *)
(* move assignment looks at the one save_thread_ owns: if it owns one, the *)
(* io thread waits in its join, otherwise it replies at once.              *)
HandleStop(t) ==
    /\ io = "loop"
    /\ IsRecording
    /\ saves[t] = "none"
    /\ BeginSave(t)
    /\ \/ saveThread = None /\ saveThread' = t /\ UNCHANGED <<io, newThread>>
       \/ saveThread # None /\ io' = "join" /\ newThread' = t /\ UNCHANGED saveThread
    /\ UNCHANGED <<after, timer, capturing>>

(* The old thread has ended; save_thread_ owns the new one. *)
JoinOldSave ==
    /\ IoGoto("join", "loop")
    /\ ~Exporting(saveThread)
    /\ saveThread' = newThread
    /\ newThread' = None
    /\ UNCHANGED <<vars, after, timer, capturing, saves>>

----------------------------------------------------------------------------
(* POST /shutdown and the signals: save_and_stop_recorder                   *)

(* save_recording exports on this thread; when make_output_path fails it   *)
(* does not, and the recorder is stopped all the same.                     *)
BeginSaveAndStop(why) ==
    /\ io = "loop"
    /\ IsRecording
    /\ after' = why
    /\ \/ io' = "save" /\ BeginSave(Io)
       \/ io' = "stopRing" /\ UNCHANGED <<vars, saves>>
    /\ UNCHANGED <<timer, capturing, saveThread, newThread>>

HandleShutdown == BeginSaveAndStop("shutdown")

HandleSignal == BeginSaveAndStop("signal")

SyncSaveReturns ==
    /\ IoGoto("save", "stopRing")
    /\ ~Exporting(Io)
    /\ UNCHANGED <<vars, after, timer, capturing, saveThread, newThread, saves>>

(* MediaRecorder::stop: segmenter_.stop() ... *)
StopRing ==
    /\ io = "stopRing"
    /\ RequestStop \/ Join \/ RemoveDir \/ ResetSeq
    /\ UNCHANGED mrVars

RingStopped ==
    /\ IoGoto("stopRing", "stopAudio")
    /\ owner = "stopped"
    /\ UNCHANGED <<vars, after, timer, capturing, saveThread, newThread, saves>>

(* ... then audio_capturer_.stop() and screen_recorder_->stop(), each of   *)
(* which joins its threads and clears its buffer.                          *)
StopCapture(s) ==
    /\ capturing' = [capturing EXCEPT ![s] = FALSE]
    /\ ClearBuffer(s)
    /\ UNCHANGED <<produced, seq, file, lock, tick, slot, snap, stopping, owner,
                   dir, list, exp, after, saveThread, newThread, saves>>

StopAudio == IoGoto("stopAudio", "stopScreen") /\ StopCapture("audio")
             /\ UNCHANGED timer

(* /shutdown arms the 200 ms timer and goes back to the event loop, a      *)
(* signal stops the io_context.                                            *)
StopScreen ==
    /\ StopCapture("video")
    /\ timer' = (after = "shutdown")
    /\ IoGoto("stopScreen", IF after = "shutdown" THEN "loop" ELSE "return")

(* The timer expires, or another /shutdown or a signal, finding nothing to *)
(* save, ends the wait early: its handler stops the io_context either way. *)
TimerFires ==
    /\ IoGoto("loop", "return")
    /\ timer
    /\ timer' = FALSE
    /\ UNCHANGED <<vars, after, capturing, saveThread, newThread, saves>>

(* Slip: the save thread is not joined. *)
DestroyWithoutJoin ==
    /\ IoGoto("return", "exited")
    /\ saveThread' = None
    /\ UNCHANGED <<vars, after, timer, capturing, newThread, saves>>

(* run() has returned and main ends: ~MediaRecorder calls stop(), which    *)
(* finds everything stopped, and the destructor of save_thread_ joins it.  *)
DestroyRecorder ==
    /\ IoGoto("return", "exited")
    /\ saveThread # None => ~Exporting(saveThread)
    /\ saveThread' = None
    /\ UNCHANGED <<vars, after, timer, capturing, newThread, saves>>

IoProgress == \/ JoinOldSave \/ SyncSaveReturns \/ StopRing   \/ RingStopped
              \/ StopAudio   \/ StopScreen      \/ TimerFires \/ DestroyRecorder

MRNext == \/ MainStarts \/ MainCrashes
          \/ HandleShutdown \/ HandleSignal
          \/ \E t \in SaveThreads : HandleStop(t)
          \/ IoProgress
          \/ EncoderStep
          \/ TickStep
          \/ \E e \in Exporters : ExportStep(e)

(* The threads run: each takes its next step when it can. The mutex is     *)
(* not fair, but the tick thread sleeps for seconds between two rounds     *)
(* with the mutex free, so an export that waits for it does get it.        *)
MRFairness ==
    /\ WF_allVars(IoProgress)
    /\ WF_allVars(TickStep)
    /\ \A e \in Exporters : WF_allVars(ExportStep(e)) /\ SF_allVars(SaveLocks(e))

MRSpec == MRInit /\ [][MRNext]_allVars /\ MRFairness

----------------------------------------------------------------------------
(* Properties                                                               *)

(* The type invariant. *)
MRTypeOK ==
    /\ io \in {"boot", "loop", "join", "save", "stopRing", "stopAudio",
               "stopScreen", "return", "exited", "crashed"}
    /\ after \in {"none", "shutdown", "signal"}
    /\ timer \in BOOLEAN
    /\ capturing \in [Streams -> BOOLEAN]
    /\ saveThread \in SaveThreads \cup {None}
    /\ newThread \in SaveThreads \cup {None}
    /\ saves \in [Exporters -> {"none", "pending", "saved", "failed"}]

(* No save thread runs that neither save_thread_ nor the assignment under  *)
(* way owns: somebody will join every one of them, so at most two run.     *)
NoOrphanSave ==
    \A t \in SaveThreads : Exporting(t) => t \in {saveThread, newThread}

(* main returns with every thread ended, the mutex free, nothing captured  *)
(* and no save accepted whose outcome is open.                             *)
NothingOutlivesMain ==
    io = "exited" => /\ tick = "done" /\ lock = "free" /\ ~IsRecording
                     /\ \A e \in Exporters : ~Exporting(e) /\ saves[e] # "pending"

(* A save is only ever accepted while the ring is running, although the    *)
(* API goes on serving requests for 200 ms after /shutdown stopped it.     *)
SavesAcceptedOnlyWhileRunning ==
    [][\A e \in Exporters :
          saves[e] = "none" /\ saves'[e] = "pending" => owner = "running"]_allVars

(* Every save that was accepted ends: a client that was told the path of   *)
(* its recording does not wait for a thread that hangs.                    *)
EverySaveEnds ==
    \A e \in Exporters : saves[e] = "pending" ~> saves[e] \in {"saved", "failed"}

(* Once it began to save and stop, the program exits: the joins of the     *)
(* tick thread and of the save threads cannot wait for each other.         *)
ShutdownExits == after # "none" ~> io = "exited"

(* "so a prior in-flight save is never abandoned" (MediaRecorder.cpp:156), *)
(* "destroyed (and joined) before the members it uses while running"       *)
(* (MediaRecorder.hpp:57): the ring is not removed under a running save.   *)
RingOutlivesSaves ==
    owner \in {"resetting", "stopped"} => \A t \in SaveThreads : ~Exporting(t)
=============================================================================
