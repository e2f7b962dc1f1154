----------------------------- MODULE WinCapture -----------------------------
(* Screen capture on Windows (ScreenRecorderWindows.cpp) and the monitor of  *)
(* session and power events (WinSessionPowerMonitor.cpp) in src/src/platform.*)
(*                                                                           *)
(* The capture thread asks the desktop duplication for an image and makes do *)
(* with a black frame, or the last one, when there is none. Duplications get *)
(* lost and devices removed; both must be created anew. The monitor's thread *)
(* tells it about the session with two flags: force_black_flag, push nothing *)
(* but black frames, and need_video_reinit, create the duplication anew. The *)
(* capture thread writes both flags as well.                                 *)
(*                                                                           *)
(* Frames and their timestamps are VideoPipeline's; here a frame is what     *)
(* last_frame_ points to.                                                    *)
EXTENDS Integers, SequencesExt

CONSTANTS
    Rotates,     \* the screen is rotated: images are copied
    MaxEvents,   \* bound on session and power events
    MaxFaults    \* bound on what happens to the display

ASSUME WinAssumption ==
    Rotates \in BOOLEAN /\ MaxEvents \in Nat /\ MaxFaults \in Nat

VARIABLES
    owner,        \* where the thread that initializes, starts and stops is
    calls,        \* calls of the monitor's stop() so far
    capture,      \* where the capture thread is
    capture_stop, \* its stop token
    device,       \* d3d_device_ and d3d_context_: "null", "valid" or "removed"
    dupl,         \* desk_dupl_: "null", "valid" or "lost"
    staging,      \* staging_texture_ is not null
    acquired,     \* a frame of the duplication is held
    last,         \* what last_frame_ points to
    force_black_flag, need_video_reinit,
    monitor,      \* where the monitor's thread is
    monitor_stop, \* its stop token
    message,      \* the message it handles
    thread_id,    \* thread_id_ is set
    hwnd,         \* hwnd_ is set
    inbox,        \* the thread's message queue
    window,       \* the hidden window: "none", "plain" or "registered"
    session,      \* the session: is it locked, is the machine asleep
    power,        \* Windows sends the window power events
    works,        \* device, duplication and texture can be created and used
    events, faults,
    gaveUp        \* history: reinit() failed after the device was created

gpuVars == <<device, dupl, staging, acquired, last, gaveUp>>
flagVars == <<force_black_flag, need_video_reinit>>
monitorVars == <<monitor, message, thread_id, hwnd, inbox, window>>
worldVars == <<session, power, works, events, faults>>
ownerVars == <<owner, calls, capture_stop, monitor_stop>>
vars == <<gpuVars, flagVars, monitorVars, worldVars, ownerVars, capture>>

----------------------------------------------------------------------------
(* Before init_platform. No constructor sets last_frame_. *)
Init ==
    /\ owner = "created" /\ calls = 0
    /\ capture = "none" /\ capture_stop = FALSE
    /\ device = "null" /\ dupl = "null" /\ staging = FALSE /\ acquired = FALSE
    /\ last = "unset"
    /\ force_black_flag = FALSE /\ need_video_reinit = FALSE
    /\ monitor = "none" /\ monitor_stop = FALSE /\ message = "none"
    /\ thread_id = FALSE /\ hwnd = FALSE /\ inbox = <<>> /\ window = "none"
    /\ session = [locked |-> FALSE, asleep |-> FALSE]
    /\ power \in BOOLEAN
    /\ works = TRUE
    /\ events = 0 /\ faults = 0
    /\ gaveUp = FALSE

(* create_device, create_desk_duplication with a first image that gives the  *)
(* size, create_staging_texture and init_encoder succeed; the monitor's      *)
(* thread is started, which cannot fail.                                     *)
InitPlatform ==
    /\ owner = "created"
    /\ works
    /\ owner' = "initialized"
    /\ device' = "valid" /\ dupl' = "valid" /\ staging' = TRUE
    /\ monitor' = "begin"
    /\ UNCHANGED <<calls, capture_stop, monitor_stop, acquired, last, gaveUp,
                   flagVars, message, thread_id, hwnd, inbox, window, worldVars,
                   capture>>

(* One of them fails, or there is no image at once; the process ends with    *)
(* crash_error.                                                              *)
InitPlatformFails ==
    /\ owner = "created"
    /\ owner' = "crashed"
    /\ UNCHANGED <<calls, capture_stop, monitor_stop, gpuVars, flagVars,
                   monitorVars, worldVars, capture>>

Start ==
    /\ owner = "initialized"
    /\ owner' = "running"
    /\ capture' = "top"
    /\ UNCHANGED <<calls, capture_stop, monitor_stop, gpuVars, flagVars,
                   monitorVars, worldVars>>

----------------------------------------------------------------------------
(* capture_frame, between accesses to the flags                              *)

captureFrame == <<monitorVars, worldVars, ownerVars>>

(* A process that has crashed has no threads. *)
CaptureGoto(from, to) == owner # "crashed" /\ capture = from /\ capture' = to

(* The loop's test, and the test of force_black_flag_. *)
CaptureTop ==
    /\ CaptureGoto("top", IF capture_stop THEN "done"
                          ELSE IF force_black_flag THEN "black" ELSE "exchange")
    /\ UNCHANGED <<captureFrame, gpuVars, flagVars>>

(* push_black_frame: what last_frame_ points to from now on.                 *)
(* ensure_black_frame sizes the frame by final_stride_, which nothing sets   *)
(* before the first image: until then black_frame_ may have any size or stay *)
(* empty, its data() null.                                                   *)
BlackFrame == IF last \in {"unset", "null"} THEN {"null", "black"} ELSE {"black"}

PushBlackFrame ==
    /\ CaptureGoto("black", "top")
    /\ last' \in BlackFrame
    /\ UNCHANGED <<captureFrame, device, dupl, staging, acquired, gaveUp, flagVars>>

(* need_video_reinit_.exchange(false). *)
CaptureExchange ==
    /\ CaptureGoto("exchange", IF need_video_reinit THEN "recreate" ELSE "check")
    /\ need_video_reinit' = FALSE
    /\ UNCHANGED <<captureFrame, gpuVars, force_black_flag>>

(* What last_frame_ points to once the staging texture is released. *)
LastAfterReset == IF last = "mapped" THEN "released" ELSE last

(* recreate_desk_duplication and create_staging_texture, once what was there *)
(* has been released.                                                        *)
Recreated == dupl' = "valid" /\ staging' = TRUE /\ last' = LastAfterReset /\ gaveUp' = FALSE

NotRecreated ==
    /\ dupl' \in {"null", "valid"}
    /\ staging' = FALSE
    /\ last' = LastAfterReset

(* Slip: no black frame is pushed once the duplication is back. *)
ReinitDuplicationAndGoOn ==
    /\ CaptureGoto("recreate", "check")
    /\ device = "valid" /\ works
    /\ Recreated
    /\ UNCHANGED <<captureFrame, device, acquired, flagVars>>

(* reinit_duplication *)
ReinitDuplication ==
    /\ CaptureGoto("recreate", "black")
    /\ device = "valid" /\ works
    /\ Recreated
    /\ UNCHANGED <<captureFrame, device, acquired, flagVars>>

(* Slip: a failed attempt is not repeated. *)
ReinitDuplicationFailsForGood ==
    /\ CaptureGoto("recreate", "black")
    /\ device # "null" /\ (device = "removed" \/ ~works)
    /\ NotRecreated
    /\ UNCHANGED <<captureFrame, device, acquired, gaveUp, flagVars>>

ReinitDuplicationFails ==
    /\ CaptureGoto("recreate", "request")
    /\ device # "null" /\ (device = "removed" \/ ~works)
    /\ NotRecreated
    /\ UNCHANGED <<captureFrame, device, acquired, gaveUp, flagVars>>

(* d3d_device_.As() dereferences a null pointer. *)
ReinitDuplicationCrashes ==
    /\ CaptureGoto("recreate", "done")
    /\ device = "null"
    /\ owner' = "crashed"
    /\ UNCHANGED <<calls, capture_stop, monitor_stop, gpuVars, flagVars,
                   monitorVars, worldVars>>

(* need_video_reinit_.store(true), after a failed attempt or a lost access. *)
RequestReinit ==
    /\ CaptureGoto("request", "black")
    /\ need_video_reinit' = TRUE
    /\ UNCHANGED <<captureFrame, gpuVars, force_black_flag>>

CaptureChecksPointers ==
    /\ CaptureGoto("check", IF dupl = "null" \/ ~staging \/ device = "null"
                            THEN "black" ELSE "acquire")
    /\ UNCHANGED <<captureFrame, gpuVars, flagVars>>

Usable == device = "valid" /\ dupl = "valid"

(* DXGI_ERROR_WAIT_TIMEOUT: the last frame is pushed again, a black one when *)
(* last_frame_ is null. A pointer that was never set is read and pushed      *)
(* likewise, or null by chance.                                              *)
AcquireTimesOut ==
    /\ CaptureGoto("acquire", "clear")
    /\ Usable
    /\ \/ last # "null" /\ last' = last
       \/ last \in {"unset", "null"} /\ last' \in BlackFrame
    /\ UNCHANGED <<captureFrame, device, dupl, staging, acquired, gaveUp, flagVars>>

(* DXGI_ERROR_ACCESS_LOST: another mode, another desktop. *)
AcquireAccessLost ==
    /\ CaptureGoto("acquire", "request")
    /\ device = "valid" /\ dupl = "lost"
    /\ UNCHANGED <<captureFrame, gpuVars, flagVars>>

(* DXGI_ERROR_DEVICE_REMOVED, DXGI_ERROR_DEVICE_RESET: reinit(). *)
Reinit ==
    /\ CaptureGoto("acquire", "black")
    /\ device = "removed" /\ works
    /\ device' = "valid"
    /\ Recreated
    /\ UNCHANGED <<captureFrame, acquired, flagVars>>

(* It is not tried again. *)
ReinitFails ==
    /\ CaptureGoto("acquire", "black")
    /\ device = "removed" /\ ~works
    /\ NotRecreated
    /\ device' \in {"valid"} \cup (IF dupl' = "null" THEN {"null"} ELSE {})
    /\ gaveUp' = TRUE
    /\ UNCHANGED <<captureFrame, acquired, flagVars>>

(* Any other failure to acquire, *)
AcquireFails ==
    /\ CaptureGoto("acquire", "black")
    /\ Usable /\ ~works
    /\ UNCHANGED <<captureFrame, gpuVars, flagVars>>

AcquireFrame ==
    /\ CaptureGoto("acquire", "convert")
    /\ Usable
    /\ acquired' = TRUE
    /\ UNCHANGED <<captureFrame, device, dupl, staging, last, gaveUp, flagVars>>

(* or to convert or map the image: the frame is released. *)
ConvertOrMapFails ==
    /\ CaptureGoto("convert", "black")
    /\ ~works \/ device = "removed"
    /\ acquired' = FALSE
    /\ UNCHANGED <<captureFrame, device, dupl, staging, last, gaveUp, flagVars>>

(* prepare_frame_data, Unmap, ReleaseFrame: without rotation last_frame_     *)
(* points into the staging texture, which is no longer mapped.               *)
PrepareFrame ==
    /\ CaptureGoto("convert", "clear")
    /\ last' = IF Rotates THEN "copied" ELSE "mapped"
    /\ acquired' = FALSE
    /\ UNCHANGED <<captureFrame, device, dupl, staging, gaveUp, flagVars>>

(* force_black_flag_.store(false), whatever the monitor has stored since the *)
(* test; an image is pushed right after.                                     *)
CaptureClearsForce ==
    /\ CaptureGoto("clear", "top")
    /\ force_black_flag' = FALSE
    /\ UNCHANGED <<captureFrame, gpuVars, need_video_reinit>>

----------------------------------------------------------------------------
(* The monitor's thread                                                      *)

monitorFrame == <<gpuVars, worldVars, ownerVars, capture>>

MonitorGoto(from, to) == owner # "crashed" /\ monitor = from /\ monitor' = to

MonitorBegins ==
    /\ MonitorGoto("begin", "queue")
    /\ thread_id' = TRUE
    /\ UNCHANGED <<monitorFrame, flagVars, message, hwnd, inbox, window>>

(* PeekMessageW: from now on the thread has a message queue. *)
MonitorHasQueue ==
    /\ MonitorGoto("queue", "window")
    /\ UNCHANGED <<monitorFrame, flagVars, message, thread_id, hwnd, inbox, window>>

(* create_window: that it is not registered for session events is ignored. *)
CreateWindow ==
    /\ MonitorGoto("window", "test")
    /\ hwnd' = TRUE
    /\ window' \in {"plain", "registered"}
    /\ UNCHANGED <<monitorFrame, flagVars, message, thread_id, inbox>>

(* That there is no window is not reported either. *)
CreateWindowFails ==
    /\ MonitorGoto("window", "ended")
    /\ UNCHANGED <<monitorFrame, flagVars, message, thread_id, hwnd, inbox, window>>

MonitorTest ==
    /\ MonitorGoto("test", IF monitor_stop THEN "cleanup" ELSE "get")
    /\ UNCHANGED <<monitorFrame, flagVars, message, thread_id, hwnd, inbox, window>>

(* GetMessageW returns 0 for WM_QUIT. *)
GetQuit ==
    /\ MonitorGoto("get", "cleanup")
    /\ inbox # <<>> /\ Head(inbox) = "quit"
    /\ inbox' = Tail(inbox)
    /\ UNCHANGED <<monitorFrame, flagVars, message, thread_id, hwnd, window>>

(* WndProc: the first of the two stores; suspending has only one. *)
GetMessage ==
    /\ inbox # <<>> /\ Head(inbox) # "quit"
    /\ MonitorGoto("get", IF Head(inbox) = "suspend" THEN "test" ELSE "second")
    /\ message' = IF Head(inbox) = "suspend" THEN "none" ELSE Head(inbox)
    /\ inbox' = Tail(inbox)
    /\ force_black_flag' = CASE Head(inbox) \in {"lock", "suspend"} -> TRUE
                             [] Head(inbox) = "unlock" -> FALSE
                             [] OTHER -> force_black_flag
    /\ need_video_reinit' = (need_video_reinit \/ Head(inbox) = "resume")
    /\ UNCHANGED <<monitorFrame, thread_id, hwnd, window>>

(* Slip: after a resume nothing but black frames are pushed. *)
SecondStoreNotOnResume ==
    /\ MonitorGoto("second", "test")
    /\ need_video_reinit' = CASE message = "lock" -> FALSE
                              [] message = "unlock" -> TRUE
                              [] OTHER -> need_video_reinit
    /\ UNCHANGED <<monitorFrame, force_black_flag, message, thread_id, hwnd, inbox, window>>

SecondStore ==
    /\ MonitorGoto("second", "test")
    /\ need_video_reinit' = CASE message = "lock" -> FALSE
                              [] message = "unlock" -> TRUE
                              [] OTHER -> need_video_reinit
    /\ force_black_flag' = (force_black_flag /\ message # "resume")
    /\ message' = "none"
    /\ UNCHANGED <<monitorFrame, thread_id, hwnd, inbox, window>>

(* The window is destroyed if stop() has not reset hwnd_ before; Windows     *)
(* destroys it with the thread otherwise.                                    *)
MonitorCleansUp ==
    /\ MonitorGoto("cleanup", "ended")
    /\ window' = "none"
    /\ hwnd' = FALSE
    /\ UNCHANGED <<monitorFrame, flagVars, message, thread_id, inbox>>

----------------------------------------------------------------------------
(* Stopping: ScreenRecorderBase::stop, cleanup_platform                      *)

StopStep(from, to) ==
    /\ owner = from
    /\ owner' = to
    /\ UNCHANGED <<flagVars, worldVars, message, capture>>

StopCapture ==
    /\ StopStep("running", "joinCapture")
    /\ capture_stop' = TRUE
    /\ UNCHANGED <<calls, monitor_stop, gpuVars, monitor, thread_id, hwnd, inbox, window>>

(* Slip: the Direct3D objects are released without waiting for the thread. *)
ReleaseAtOnce ==
    /\ StopStep("joinCapture", "post")
    /\ device' = "null" /\ dupl' = "null" /\ staging' = FALSE
    /\ last' = LastAfterReset
    /\ calls' = 1
    /\ UNCHANGED <<capture_stop, monitor_stop, acquired, gaveUp, monitor,
                   thread_id, hwnd, inbox, window>>

(* Then the Direct3D objects are released. *)
JoinCapture ==
    /\ StopStep("joinCapture", "post")
    /\ capture = "done"
    /\ device' = "null" /\ dupl' = "null" /\ staging' = FALSE
    /\ last' = LastAfterReset
    /\ calls' = 1
    /\ UNCHANGED <<capture_stop, monitor_stop, acquired, gaveUp, monitor,
                   thread_id, hwnd, inbox, window>>

(* Slip: the thread is not woken. *)
PostNothing ==
    /\ StopStep("post", "ask")
    /\ UNCHANGED <<calls, capture_stop, monitor_stop, gpuVars, monitor,
                   thread_id, hwnd, inbox, window>>

(* WinSessionPowerMonitor::stop. A message to a thread without a queue or    *)
(* one that has ended is lost.                                               *)
PostQuit ==
    /\ StopStep("post", "ask")
    /\ inbox' = IF thread_id /\ monitor \notin {"queue", "ended"}
                THEN Append(inbox, "quit") ELSE inbox
    /\ UNCHANGED <<calls, capture_stop, monitor_stop, gpuVars, monitor,
                   thread_id, hwnd, window>>

AskToStop ==
    /\ StopStep("ask", "forget")
    /\ monitor_stop' = TRUE
    /\ UNCHANGED <<calls, capture_stop, gpuVars, monitor, thread_id, hwnd,
                   inbox, window>>

(* The destructor calls stop() once more, and the jthread's joins it. *)
ForgetThread ==
    /\ StopStep("forget", IF calls = 1 THEN "post" ELSE "join")
    /\ calls' = 2
    /\ hwnd' = FALSE
    /\ thread_id' = FALSE
    /\ UNCHANGED <<capture_stop, monitor_stop, gpuVars, monitor, inbox, window>>

JoinMonitor ==
    /\ StopStep("join", "gone")
    /\ monitor = "ended"
    /\ UNCHANGED <<calls, capture_stop, monitor_stop, gpuVars, monitor,
                   thread_id, hwnd, inbox, window>>

----------------------------------------------------------------------------
(* Windows                                                                   *)

Deliver(event, sent) ==
    /\ owner # "crashed"
    /\ events < MaxEvents
    /\ events' = events + 1
    /\ inbox' = IF sent THEN Append(inbox, event) ELSE inbox
    /\ UNCHANGED <<gpuVars, flagVars, ownerVars, capture, monitor, message,
                   thread_id, hwnd, window, power, works, faults>>

ToSession == window = "registered"

ToWindow == window # "none" /\ power

LockSession ==
    /\ ~session.locked /\ ~session.asleep
    /\ session' = [session EXCEPT !.locked = TRUE]
    /\ Deliver("lock", ToSession)

UnlockSession ==
    /\ session.locked /\ ~session.asleep
    /\ session' = [session EXCEPT !.locked = FALSE]
    /\ Deliver("unlock", ToSession)

Suspend ==
    /\ ~session.asleep
    /\ session' = [session EXCEPT !.asleep = TRUE]
    /\ Deliver("suspend", ToWindow)

Resume ==
    /\ session.asleep
    /\ session' = [session EXCEPT !.asleep = FALSE]
    /\ Deliver("resume", ToWindow)

(* Once the capture thread has ended nothing depends on the display. *)
Fault ==
    /\ owner # "crashed"
    /\ faults < MaxFaults
    /\ capture # "done"
    /\ faults' = faults + 1
    /\ UNCHANGED <<flagVars, monitorVars, ownerVars, capture, session, power,
                   events, staging, acquired, last, gaveUp>>

LoseAccess == Fault /\ dupl = "valid" /\ dupl' = "lost" /\ UNCHANGED <<device, works>>

RemoveDevice == Fault /\ device = "valid" /\ device' = "removed" /\ UNCHANGED <<dupl, works>>

BreakOrRepair == Fault /\ works' = ~works /\ UNCHANGED <<device, dupl>>

----------------------------------------------------------------------------
Acquire == AcquireTimesOut \/ AcquireAccessLost \/ Reinit \/ ReinitFails
           \/ AcquireFails \/ AcquireFrame

CaptureStep ==
    \/ CaptureTop \/ PushBlackFrame \/ CaptureExchange \/ ReinitDuplication
    \/ ReinitDuplicationFails \/ ReinitDuplicationCrashes \/ RequestReinit
    \/ CaptureChecksPointers \/ Acquire \/ ConvertOrMapFails \/ PrepareFrame
    \/ CaptureClearsForce

MonitorStep ==
    \/ MonitorBegins \/ MonitorHasQueue \/ CreateWindow \/ CreateWindowFails
    \/ MonitorTest \/ GetQuit \/ GetMessage \/ SecondStore \/ MonitorCleansUp

FinishStop == JoinCapture \/ PostQuit \/ AskToStop \/ ForgetThread \/ JoinMonitor

World == LockSession \/ UnlockSession \/ Suspend \/ Resume \/ LoseAccess
         \/ RemoveDevice \/ BreakOrRepair

Next ==
    \/ InitPlatform \/ InitPlatformFails \/ Start \/ StopCapture \/ FinishStop
    \/ CaptureStep \/ MonitorStep \/ World

Fairness == WF_vars(CaptureStep) /\ WF_vars(MonitorStep) /\ WF_vars(FinishStop)

Spec == Init /\ [][Next]_vars /\ Fairness

----------------------------------------------------------------------------
(* Properties                                                                *)

(* When the duplication is asked for an image no frame of it is held, and    *)
(* the frame that will be pushed again on a timeout is not in a texture that *)
(* has been released: every way through a re-creation, which releases the    *)
(* texture last_frame_ may point into, leads through a black frame. This     *)
(* does not make every timeout's frame a frame: one of the very first        *)
(* request reads a last_frame_ that nothing has set, an error the code has   *)
(* here as on X11, for which EncodesOnlyCaptured of VideoPipeline shows it.  *)
ReadyToAcquire == capture = "acquire" => ~acquired /\ last # "released"

(* What the capture thread dereferences without a test of its own is there:  *)
(* when it asks for an image, converts or maps it, the device, the           *)
(* duplication and the texture; when it creates the duplication anew, the    *)
(* device, unless an earlier reinit() failed. stop() releases none of them   *)
(* under the thread.                                                         *)
NullOnlyAfterGivingUp ==
    /\ capture \in {"acquire", "convert"} =>
           device # "null" /\ dupl # "null" /\ staging
    /\ capture = "recreate" /\ device = "null" => gaveUp

(* Nothing is locked, asleep, on its way or broken. *)
AllWell ==
    /\ owner = "running"
    /\ ~session.locked /\ ~session.asleep
    /\ monitor \in {"get", "ended"} /\ inbox = <<>>
    /\ works /\ device = "valid" /\ ~gaveUp

SetToCapture == dupl = "valid" /\ staging /\ ~force_black_flag

(* However lock, unlock, suspend, resume, lost access and failed attempts    *)
(* were interleaved with the captures, once all is well the screen is        *)
(* captured again: no request to create the duplication anew is forgotten    *)
(* and the black flag does not stay. Not so after reinit() has failed, which *)
(* is not tried again, nor with a removed device.                            *)
CaptureResumes == AllWell ~> (SetToCapture \/ ~AllWell)

(* The destructor returns if the monitor's thread has had a message queue    *)
(* when stop() was called first: either the thread is woken by WM_QUIT or it *)
(* sees the stop token.                                                      *)
MonitorStops ==
    (owner = "post" /\ calls = 1 /\ monitor \notin {"begin", "queue"}) ~> (owner = "gone")

=============================================================================
