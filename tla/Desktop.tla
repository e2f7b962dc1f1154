------------------------------ MODULE Desktop ------------------------------
(* The tray application, the recorder's process and the service manager that *)
(* runs it: src/src/tray, Settings.cpp, main.cpp, the HTTP transport and the *)
(* authorization of src/src/api, and the unit that deploy.sh installs.       *)
(*                                                                           *)
(* The tray edits settings.toml, which the recorder reads when it starts, so *)
(* new settings take a restart: POST /shutdown, which saves the recording    *)
(* first, 500 ms, and `systemctl --user start`, which does nothing while the *)
(* old process is still there. The recorder leaves its event loop 200 ms     *)
(* after the reply, but the process ends only when a background save, which  *)
(* the tray can ask for, has been joined. What the tray knows of the         *)
(* recorder's address and key it read when it was itself started.            *)
(*                                                                           *)
(* A request of the tray blocks its event loop until the answer comes or the *)
(* connection breaks: the ApiClient's operations are synchronous, and the    *)
(* time-outs it sets only act on asynchronous ones. So a handler that asks   *)
(* is one step, which the model takes when the answer comes; only a          *)
(* POST /shutdown has several.                                               *)
(*                                                                           *)
(* MediaRecorder models the event loop of the recorder and its saves; here   *)
(* its thread serves requests one by one, saves take any time, and only one  *)
(* of them has the lock of the segments. The service manager is the systemd  *)
(* unit's; the task of Windows ignores a second start likewise.              *)
(*                                                                           *)
(* Definitions marked "Slip:" are plausible errors, used by no specification.*)
EXTENDS Integers

CONSTANTS
    Ports,       \* api.port, api.address
    Keys,        \* api.api_key, NoKey for the empty one
    NoKey,
    PathMayFail, \* the output directory may be impossible to create
    Attempts,    \* health checks after a start; 16 in the code
    MaxEdits,    \* bound on settings saved
    MaxCrashes   \* bound on processes that end with an error

ASSUME DesktopAssumption ==
    /\ NoKey \in Keys
    /\ PathMayFail \in BOOLEAN
    /\ Attempts \in Nat \ {0} /\ MaxEdits \in Nat /\ MaxCrashes \in Nat

VARIABLES
    disk,      \* settings.toml
    edits,     \* settings saved so far
    unit,      \* the service: "inactive", "active", "restarting"
    recorder,  \* where its process is
    loaded,    \* the settings it has read
    pending,   \* a /shutdown it has yet to handle
    save,      \* save_thread_: "none", "waiting" for the segments, "exporting"
    crashes,
    tray,      \* where the tray's thread is
    client,    \* the port and key of its ApiClient
    shown,     \* the status it shows
    restart,   \* the 500 ms of on_settings_saved are running
    attempts,  \* health checks left
    promised   \* history: the settings the user was told would be applied, 0 for none

fileVars == <<disk, edits>>
recorderVars == <<unit, recorder, loaded, pending, save, crashes>>
trayVars == <<tray, client, shown, restart, attempts, promised>>
vars == <<fileVars, recorderVars, trayVars>>

Settings == [rev : 0..MaxEdits, port : Ports, key : Keys]

(* kDefaultsToml, what an empty file amounts to. *)
Truncated == [rev |-> -1, port |-> CHOOSE p \in Ports : TRUE, key |-> NoKey]

Init ==
    /\ disk \in {s \in Settings : s.rev = 0} /\ edits = 0
    /\ unit = "active" /\ recorder = "loading" /\ loaded = Truncated
    /\ pending = FALSE /\ save = "none" /\ crashes = 0
    /\ tray = "idle" /\ client = [port |-> disk.port, key |-> disk.key] /\ shown = "stopped"
    /\ restart = FALSE /\ attempts = 0 /\ promised = 0

----------------------------------------------------------------------------
(* The recorder's process and the service manager                            *)

(* Settings::load, MediaRecorder::initialize, ApiServer::create: from now on *)
(* connections are accepted, but nobody serves them.                         *)
Load ==
    /\ recorder = "loading"
    /\ recorder' = "listening"
    /\ loaded' = disk
    /\ UNCHANGED <<fileVars, trayVars, unit, pending, save, crashes>>

RecorderGoto(from, to) ==
    /\ recorder = from
    /\ recorder' = to
    /\ UNCHANGED <<fileVars, trayVars, unit, loaded, save, crashes>>

(* MediaRecorder::start, io_context::run *)
Serve == RecorderGoto("listening", "serving") /\ UNCHANGED pending

(* Router::handle_shutdown: the recording is saved on this thread, *)
HandleShutdown == pending /\ RecorderGoto("serving", "locking") /\ pending' = FALSE

(* once no background save has the segments. *)
SaveAtShutdown ==
    save # "exporting" /\ RecorderGoto("locking", "saving") /\ UNCHANGED pending

(* The save is over, or make_output_path failed before it needed the         *)
(* segments. MediaRecorder::stop waits for the ring's thread to wake up,     *)
StopRecorder ==
    /\ \/ RecorderGoto("saving", "stopping")
       \/ PathMayFail /\ RecorderGoto("locking", "stopping")
    /\ UNCHANGED pending

(* and removes the segments. The timer is set and the reply is sent.         *)
Reply == RecorderGoto("stopping", "closing") /\ UNCHANGED pending

(* The thread of save_recording_async, which the shutdown does not wait for. *)
(* With the segments gone it would fail at once.                             *)
SaveLocks ==
    /\ save = "waiting" /\ recorder \notin {"saving", "closing"}
    /\ save' = "exporting"
    /\ UNCHANGED <<fileVars, trayVars, unit, recorder, loaded, pending, crashes>>

SaveEnds ==
    /\ save = "exporting" /\ recorder # "joining"
    /\ save' = "none"
    /\ UNCHANGED <<fileVars, trayVars, unit, recorder, loaded, pending, crashes>>

(* The timer ends the event loop, at once if another /shutdown sets it again *)
(* (expires_after cancels the wait); main closes the sockets, and            *)
(* ~MediaRecorder waits for a save that has the segments.                    *)
LeaveLoop ==
    save = "exporting" /\ RecorderGoto("closing", "joining") /\ pending' = FALSE

(* Without one, or as soon as it is over, main returns 0, and                *)
(* Restart=on-failure is not for that.                                       *)
Exit ==
    /\ recorder = "joining" \/ (recorder = "closing" /\ save # "exporting")
    /\ recorder' = "none" /\ pending' = FALSE /\ save' = "none"
    /\ unit' = "inactive"
    /\ UNCHANGED <<fileVars, trayVars, loaded, crashes>>

(* crash_error or worse. *)
Crash ==
    /\ recorder # "none"
    /\ crashes < MaxCrashes
    /\ crashes' = crashes + 1
    /\ recorder' = "none" /\ pending' = FALSE /\ save' = "none"
    /\ unit' = "restarting"
    /\ UNCHANGED <<fileVars, trayVars, loaded>>

(* After RestartSec. *)
RestartByManager ==
    /\ unit = "restarting"
    /\ unit' = "active" /\ recorder' = "loading"
    /\ UNCHANGED <<fileVars, trayVars, loaded, pending, save, crashes>>

----------------------------------------------------------------------------
(* ApiClient and ServiceControl                                              *)

(* A request is answered: the recorder serves. /health whatever the key.     *)
Answers == recorder \in {"serving", "closing"} /\ ~pending /\ loaded.port = client.port

(* A request is accepted and stays unanswered for now: one thread serves the *)
(* requests one after the other, and none before it runs the event loop or   *)
(* while it saves. Anywhere else the connection is refused.                  *)
Waits ==
    /\ loaded.port = client.port
    /\ \/ recorder \in {"listening", "locking", "saving", "stopping"}
       \/ recorder = "serving" /\ pending

Authorized == loaded.key \in {NoKey, client.key}

(* get_status: a refusal is a JSON object too, with no "recording" in it. *)
Status ==
    IF ~Answers THEN "stopped"
    ELSE IF Authorized /\ recorder = "serving" THEN "recording" ELSE "not recording"

Receives == Answers \/ Waits

(* POST /shutdown: whether it was accepted is not looked at. *)
RequestShutdown ==
    /\ pending' = (pending \/ (Receives /\ Authorized))
    /\ UNCHANGED <<unit, recorder, loaded, save, crashes>>

(* ServiceControl::start: a unit that is active stays as it is. *)
StartService ==
    /\ unit' = "active"
    /\ recorder' = IF unit = "active" THEN recorder ELSE "loading"
    /\ UNCHANGED <<loaded, pending, save, crashes>>

----------------------------------------------------------------------------
(* The tray, whose event loop runs one handler at a time                     *)

PollStatus ==
    /\ tray \in {"idle", "asking"}
    /\ ~Waits
    /\ shown' = Status
    /\ UNCHANGED <<fileVars, recorderVars, tray, client, restart, attempts, promised>>

(* on_start_clicked, which the last status allows. *)
ClickStart ==
    /\ tray = "idle" /\ shown = "stopped"
    /\ StartService
    /\ attempts' = Attempts
    /\ UNCHANGED <<fileVars, tray, client, shown, restart, promised>>

ClickStop ==
    /\ tray = "idle" /\ shown # "stopped"
    /\ RequestShutdown
    /\ tray' = "stopping"
    /\ promised' = 0
    /\ UNCHANGED <<fileVars, client, shown, restart, attempts>>

(* on_save_clicked, Router::handle_stop: save_thread_ is assigned a new      *)
(* thread, once the one it has is joined.                                    *)
ClickSave ==
    /\ tray = "idle" /\ shown = "recording"
    /\ Answers /\ Authorized /\ recorder = "serving"
    /\ save = "none"
    /\ save' = "waiting"
    /\ UNCHANGED <<fileVars, trayVars, unit, recorder, loaded, pending, crashes>>

(* SettingsDialog::on_save_clicked: the file is truncated, *)
SaveTruncates ==
    /\ tray = "idle"
    /\ edits < MaxEdits
    /\ tray' = "saving"
    /\ disk' = Truncated
    /\ promised' = 0
    /\ UNCHANGED <<recorderVars, edits, client, shown, restart, attempts>>

(* and written. *)
SaveWrites ==
    /\ tray = "saving"
    /\ tray' = "saved"
    /\ edits' = edits + 1
    /\ disk' \in {s \in Settings : s.rev = edits + 1}
    /\ UNCHANGED <<recorderVars, client, shown, restart, attempts, promised>>

(* on_settings_saved: a recorder that does not answer needs no restart. *)
AskForRestart ==
    /\ tray = "saved"
    /\ ~Waits
    /\ tray' = IF Answers THEN "asking" ELSE "idle"
    /\ UNCHANGED <<fileVars, recorderVars, client, shown, restart, attempts, promised>>

AnswerNo ==
    /\ tray = "asking"
    /\ tray' = "idle"
    /\ UNCHANGED <<fileVars, recorderVars, client, shown, restart, attempts, promised>>

(* "Applying these settings will restart recording now." The promise is      *)
(* recorded for a recorder the tray's client has access to.                  *)
AnswerYes ==
    /\ tray = "asking"
    /\ RequestShutdown
    /\ tray' = "restarting"
    /\ promised' = IF Receives /\ Authorized THEN disk.rev ELSE 0
    /\ UNCHANGED <<fileVars, client, shown, restart, attempts>>

(* The reply came, there was no connection, or it broke. Its timer starts.   *)
RequestEnds ==
    /\ tray \in {"restarting", "stopping"}
    /\ ~pending /\ ~Waits
    /\ restart' = (restart \/ tray = "restarting")
    /\ tray' = "idle"
    /\ UNCHANGED <<fileVars, recorderVars, client, shown, attempts, promised>>

(* Slip: the service is started as soon as the reply is there. *)
AtOnce == TRUE

(* 500 ms after the reply the recorder's 200 ms are over. That its process   *)
(* is gone does not follow.                                                  *)
HalfASecondLater == recorder # "closing"

StartAgain ==
    /\ tray \in {"idle", "asking"} /\ restart
    /\ HalfASecondLater
    /\ StartService
    /\ restart' = FALSE
    /\ attempts' = Attempts
    /\ UNCHANGED <<fileVars, tray, client, shown, promised>>

(* Launching systemctl failed, and the user is told. *)
StartAgainFails ==
    /\ tray \in {"idle", "asking"} /\ restart
    /\ restart' = FALSE
    /\ promised' = 0
    /\ UNCHANGED <<fileVars, recorderVars, tray, client, shown, attempts>>

(* wait_for_healthy_then: any answer will do. *)
FindsHealthy ==
    /\ tray \in {"idle", "asking"} /\ attempts > 0
    /\ Answers
    /\ attempts' = 0
    /\ shown' = Status
    /\ UNCHANGED <<fileVars, recorderVars, tray, client, restart, promised>>

(* After the last check the user is warned, though the recorder may be slow  *)
(* to start or listen at another port by now.                                *)
FindsUnhealthy ==
    /\ tray \in {"idle", "asking"} /\ attempts > 0
    /\ ~Receives
    /\ attempts' = attempts - 1
    /\ shown' = IF attempts = 1 THEN Status ELSE shown
    /\ UNCHANGED <<fileVars, recorderVars, tray, client, restart, promised>>

(* The recorder goes on; the timers do not. *)
Quit ==
    /\ tray \in {"idle", "asking"}
    /\ tray' = "quit"
    /\ restart' = FALSE /\ attempts' = 0 /\ promised' = 0
    /\ UNCHANGED <<fileVars, recorderVars, client, shown>>

----------------------------------------------------------------------------
RecorderStep ==
    \/ Load \/ Serve \/ HandleShutdown \/ SaveAtShutdown \/ StopRecorder \/ Reply
    \/ LeaveLoop \/ Exit \/ RestartByManager

SaveStep == SaveLocks \/ SaveEnds

(* What the tray does by itself once the user has answered. *)
TrayStep ==
    \/ SaveWrites \/ AskForRestart \/ RequestEnds \/ StartAgain \/ FindsHealthy
    \/ FindsUnhealthy

User ==
    \/ ClickStart \/ ClickStop \/ ClickSave \/ SaveTruncates \/ AnswerNo \/ AnswerYes
    \/ Quit

Next ==
    \/ RecorderStep \/ SaveStep \/ Crash
    \/ TrayStep \/ StartAgainFails \/ PollStatus \/ User

Fairness ==
    /\ WF_vars(RecorderStep) /\ WF_vars(SaveStep)
    /\ WF_vars(RequestEnds) /\ WF_vars(StartAgain)

Spec == Init /\ [][Next]_vars /\ Fairness

----------------------------------------------------------------------------
(* Properties                                                                *)

(* The user has been told that the recorder restarts with revision r, and    *)
(* has not edited again, stopped it, quit the tray or been told otherwise;   *)
(* the service has yet to be started again.                                  *)
Confirmed(r) == promised = r /\ (tray = "restarting" \/ restart)

Applied(r) == recorder = "serving" /\ loaded.rev = r

(* What the user is told when settings are saved comes true: the recorder is *)
(* restarted with them.                                                      *)
SettingsApplied ==
    \A r \in 1..MaxEdits : Confirmed(r) ~> (promised # r \/ Applied(r))

(* The service has been started again, in vain: the old process still waits  *)
(* for the end of a background save.                                         *)
StartedInVain == recorder = "joining" /\ tray # "restarting" /\ ~restart

(* There is no other way to lose a confirmed restart: whatever the recorder  *)
(* was doing, however long it saves before it replies, and however often     *)
(* processes crash, either the settings are applied in the end or a          *)
(* background save outlived the 500 ms.                                      *)
AppliedUnlessSaving ==
    \A r \in 1..MaxEdits :
        Confirmed(r) ~> (promised # r \/ Applied(r) \/ StartedInVain)

(* When the health check after a restart ends well, it is the new process    *)
(* that answered: the tray never takes the old one's last 200 ms for it, nor *)
(* what is left of it while it is joining a save.                            *)
HealthyIsTheNewOne ==
    [][FindsHealthy /\ promised # 0 /\ ~restart => loaded.rev = promised]_vars

=============================================================================
