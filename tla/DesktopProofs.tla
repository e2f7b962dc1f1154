---------------------------- MODULE DesktopProofs ----------------------------
(* Proofs about Desktop, for any ports and keys, any number of health checks *)
(* after a start, of settings saved and of crashes.                          *)
EXTENDS Desktop, TLAPS

----------------------------------------------------------------------------
(* The inductive invariant                                                   *)

(* The recorder still runs with other settings than the user was promised. *)
Old == loaded.rev # promised

(* What was promised is what is in the file: the promise lapses before the   *)
(* file is touched again.                                                    *)
PromiseOnDisk ==
    /\ promised # 0 => disk.rev = promised
    /\ tray \in {"saving", "saved", "stopping"} => promised = 0

(* The old process has the request before it or is handling it, and the tray *)
(* waits for the answer; once it has replied, either the tray has yet to     *)
(* notice or the timer has yet to start the service again. A process that    *)
(* joins a save answers nobody.                                              *)
OldIsEnding ==
    promised # 0 /\ Old =>
        /\ recorder \in {"listening", "serving"} => pending
        /\ recorder \in {"listening", "serving", "locking", "saving", "stopping"} =>
              tray = "restarting" /\ loaded.port = client.port
        /\ recorder = "closing" => tray = "restarting" \/ restart

Replaced == PromiseOnDisk /\ OldIsEnding

----------------------------------------------------------------------------
(* Its preservation                                                          *)

LEMMA InitReplaced == Init => Replaced
  BY DEF Init, Replaced, PromiseOnDisk, OldIsEnding

(* A process that is started now will read what was promised.                *)
LEMMA StartKeepsReplaced ==
  ASSUME Replaced, StartService, UNCHANGED <<disk, tray, client, promised>>,
         UNCHANGED restart \/ HalfASecondLater
  PROVE  Replaced'
  <1>1. PromiseOnDisk'
    BY DEF Replaced, PromiseOnDisk
  <1>2. recorder' = recorder \/ recorder' = "loading"
    BY DEF StartService
  <1>3. OldIsEnding'
    BY <1>2 DEF Replaced, OldIsEnding, Old, StartService, HalfASecondLater
  <1> QED BY <1>1, <1>3 DEF Replaced

LEMMA RecorderKeepsReplaced ==
  ASSUME Replaced, RecorderStep \/ SaveStep \/ Crash
  PROVE  Replaced'
  <1>1. UNCHANGED <<disk, tray, client, restart, promised>>
    BY DEF RecorderStep, SaveStep, Crash, Load, Serve, HandleShutdown, SaveAtShutdown,
           StopRecorder, Reply, LeaveLoop, Exit, RestartByManager, SaveLocks, SaveEnds,
           RecorderGoto, fileVars, trayVars
  <1>2. PromiseOnDisk'
    BY <1>1 DEF Replaced, PromiseOnDisk
  <1>3. CASE Load
    BY <1>1, <1>2, <1>3 DEF Load, Replaced, PromiseOnDisk, OldIsEnding, Old
  <1>4. CASE Serve \/ HandleShutdown
    BY <1>1, <1>2, <1>4 DEF Serve, HandleShutdown, RecorderGoto, Replaced, OldIsEnding, Old
  <1>5. CASE SaveAtShutdown \/ StopRecorder \/ Reply \/ LeaveLoop
    BY <1>1, <1>2, <1>5
    DEF SaveAtShutdown, StopRecorder, Reply, LeaveLoop, RecorderGoto, Replaced,
        OldIsEnding, Old
  <1>6. CASE SaveStep
    BY <1>1, <1>2, <1>6 DEF SaveStep, SaveLocks, SaveEnds, Replaced, OldIsEnding, Old
  <1>7. CASE Exit \/ RestartByManager \/ Crash
    BY <1>1, <1>2, <1>7 DEF Exit, RestartByManager, Crash, Replaced, OldIsEnding
  <1> QED BY <1>3, <1>4, <1>5, <1>6, <1>7 DEF RecorderStep

LEMMA UserKeepsReplaced ==
  ASSUME Replaced, User
  PROVE  Replaced'
  <1>1. CASE ClickStart
    BY <1>1, StartKeepsReplaced DEF ClickStart, fileVars
  <1>2. CASE ClickStop \/ SaveTruncates \/ Quit
    BY <1>2 DEF ClickStop, SaveTruncates, Quit, Replaced, PromiseOnDisk, OldIsEnding
  <1>3. CASE AnswerNo
    BY <1>3 DEF AnswerNo, Replaced, PromiseOnDisk, OldIsEnding, Old, fileVars, recorderVars
  <1>4. CASE AnswerYes
    BY <1>4 DEF AnswerYes, RequestShutdown, Receives, Answers, Waits, Replaced,
                PromiseOnDisk, OldIsEnding, fileVars
  <1>5. CASE ClickSave
    BY <1>5 DEF ClickSave, Replaced, PromiseOnDisk, OldIsEnding, Old, fileVars, trayVars
  <1> QED BY <1>1, <1>2, <1>3, <1>4, <1>5 DEF User

(* The tray has its answer only when nobody has the request before it or is  *)
(* saving: then the old process is in its last 200 ms, or past them.         *)
LEMMA TrayKeepsReplaced ==
  ASSUME Replaced, TrayStep \/ StartAgainFails \/ PollStatus
  PROVE  Replaced'
  <1>1. CASE SaveWrites \/ AskForRestart \/ StartAgainFails
    BY <1>1 DEF SaveWrites, AskForRestart, StartAgainFails, Replaced, PromiseOnDisk,
                OldIsEnding, recorderVars
  <1>2. CASE RequestEnds
    BY <1>2 DEF RequestEnds, Waits, Replaced, PromiseOnDisk, OldIsEnding, Old, fileVars,
                recorderVars
  <1>3. CASE StartAgain
    BY <1>3, StartKeepsReplaced DEF StartAgain, fileVars
  <1>4. CASE FindsHealthy \/ FindsUnhealthy \/ PollStatus
    BY <1>4 DEF FindsHealthy, FindsUnhealthy, PollStatus, Replaced, PromiseOnDisk,
                OldIsEnding, Old, fileVars, recorderVars
  <1> QED BY <1>1, <1>2, <1>3, <1>4 DEF TrayStep

LEMMA NextKeepsReplaced == Replaced /\ [Next]_vars => Replaced'
  <1> SUFFICES ASSUME Replaced, [Next]_vars PROVE Replaced'
    OBVIOUS
  <1>1. CASE Next
    BY <1>1, RecorderKeepsReplaced, UserKeepsReplaced, TrayKeepsReplaced DEF Next
  <1>2. CASE UNCHANGED vars
    BY <1>2 DEF vars, fileVars, recorderVars, trayVars, Replaced, PromiseOnDisk,
                OldIsEnding, Old
  <1> QED BY <1>1, <1>2

----------------------------------------------------------------------------
(* The results                                                               *)

(* From on_settings_saved's question to the answer of a new process, the old *)
(* one is on its way out: it has POST /shutdown before it, is saving or      *)
(* stopping, or has replied, and leaves its event loop before the timer      *)
(* starts the service. So whatever answers after that has read the settings. *)
(* It does not follow that anything will answer: the old process may still   *)
(* be joining a save when the service is started.                            *)
THEOREM ReplacedHolds == Spec => []Replaced
  <1>1. Replaced /\ [Next]_vars => Replaced'
    BY NextKeepsReplaced
  <1> QED BY <1>1, InitReplaced, PTL DEF Spec

(* The answer that wait_for_healthy_then takes for the restarted recorder's  *)
(* comes from a process that has read the settings the user was promised,    *)
(* however long the old one saves before its reply or after it.              *)
THEOREM HealthyRecorderIsNew == Spec => HealthyIsTheNewOne
  <1>1. Replaced /\ [Next]_vars =>
           [FindsHealthy /\ promised # 0 /\ ~restart => loaded.rev = promised]_vars
    BY DEF Replaced, OldIsEnding, Old, FindsHealthy, Answers
  <1> QED BY <1>1, ReplacedHolds, PTL DEF Spec, HealthyIsTheNewOne
=============================================================================
