# AVCapture: specifications and proofs

AVCapture records the screen and the sound of a desktop all the time and keeps
the last minutes on disk, as a ring of short MPEG-TS segments. A control API
(`/stop`, `/status`, `/shutdown`) or a signal has `ffmpeg` join the ring into
one MP4. This directory holds TLA+ modules of that program, TLC configurations
that check them on small instances, and TLAPS proofs that hold for all of them.

Paths below are relative to the repository.

## 1. The system

| component | source | state it keeps | operations | talks to |
|---|---|---|---|---|
| Ring of segments | `src/core/RollingSegments.cpp` | `seq_`, `segment_mutex_`, thread `th_`, the files `seg_NNN.ts` and `list.txt` in `dir_` | `start`, `stop`, `export_last_segments`, the tick | takes snapshots of both encoders' buffers and clears them; runs `ffmpeg` |
| Merge loop | same, `save_av_to_ts` | two indices into the snapshots | one loop | libavformat |
| `CircularBuffer` | `src/utils/CircularBuffer.hpp` | a deque, `capacity_`, a mutex | `push`, `clear`, `snapshot` | filled by an encoder thread, read and cleared by the tick |
| `MediaRecorder` | `src/core/MediaRecorder.cpp` | the ring, both capturers, `save_thread_` | `initialize`, `start`, `stop`, `save_recording`, `save_recording_async` | called by `main` and `Router` |
| Event loop | `src/main.cpp` | `io_ctx`, `shutdown_timer`, `signals` | `save_and_stop_recorder`, `on_shutdown_requested` | the recorder |
| Control API | `src/api/*.cpp` | one session per connection, the key | `/stop`, `/status`, `/shutdown`, `/health` | the recorder, on the event loop's thread |
| Video pipeline | `src/core/video/*.cpp` | the raw-frame queue, the encoder, a `CircularBuffer`, two threads | `start`, `stop`, `push_frame`, the capture and encoding loops | platform capture |
| Audio pipeline | `src/core/audio/*.cpp` | one queue per device, `pts_`, the encoder, a `CircularBuffer`, the mixer thread | `start`, `stop`, the two callbacks, the mixer loop | RtAudio |
| Platform capture | `src/platform/*.cpp` | the capture context, `last_frame_`; on Windows two flags shared with a window thread | `capture_frame`, reinitialisation | the encoder queue |
| Lock-free queue | `src/utils/readerwriterqueue.h` | a circle of blocks with an index pair for each side | `try_enqueue`, `enqueue`, `try_dequeue`, `peek` | between capture and encoder, between a callback and the mixer |
| Settings | `src/Settings.cpp` | a TOML table | `load`, `merge_into`, `parse_byte_size` | read once by `main` and once by the tray |
| Tray | `src/tray/*.cpp` | a poll timer, the last status, the port and key it read at its start | start, stop, save, edit settings | the control API over HTTP, the service manager |
| Service unit | `deploy/linux/deploy.sh` | active, restarting, inactive | start, restart on failure | the recorder's process |

The threads of a running recorder: the event loop (`main`), the tick thread,
at most two background saves, screen capture, video encoding, the mixer, the
two RtAudio callbacks, and on Windows the session monitor.

What is hard about it:

- **One commit, four steps.** A tick takes two snapshots, writes a slot, clears
  two buffers and increments `seq_`. Encoders run through all of it, the mutex
  covers only the first half, and every step up to the write can fail.
- **Readers of a ring that turns.** An export holds the mutex for as long as
  `ffmpeg` runs and trusts `seq_` to say which slots hold what.
- **Threads that join threads.** `/stop` joins the previous save, `stop()` joins
  the tick, the destructor joins the last save, and all of the first two happen
  on the only thread that serves the API.
- **A queue that drops, a codec that delays.** Frames get their timestamp before
  they find room in the queue, and leave the codec in another call than the one
  that sent them; `stop()` has to get the last of them out before it clears.
- **Removal without the mutex.** `stop()` deletes the directory whoever uses it.
- **What must eventually happen.** Accepted saves end, and a shutdown exits.
- **A queue without a lock.** Each side works with a stale copy of the other
  side's index, and a new block is linked in while the consumer walks the circle.
- **Two flags, two writers each.** The Windows capture thread and the window
  thread store `force_black_flag_` and `need_video_reinit_` in any order, and
  the display fails in between.
- **A restart by waiting.** The tray stops one process and starts the next 500 ms
  after a reply, against 200 ms and a background save of any length.
- **Buffers that are lost.** A device that overflows loses frames without a trace,
  and the mixer pairs frames by their place in the queues.

What makes each component correct is listed with its module below; the full
list of hazards, with the lines where they bite, is in `PROJECT.json`.

## 2. The modules

| module | what it is |
|---|---|
| `MuxInterleave.tla` | which prefixes of two snapshots the merge loop may leave written |
| `MuxLoop.tla` | the merge loop iteration by iteration, and that it leaves none but those |
| `RollingSegments.tla` | the ring: encoders, tick thread, exports, `start` and `stop` |
| `RollingSegmentsProofs.tla` | the ring's two inductive invariants and its theorems |
| `MediaRecorder.tla` | `RollingSegments` composed with the event loop, the API handlers, the save threads and the shutdown |
| `FrameFeed.tla` | abstract: what an encoder promises the ring |
| `VideoPipeline.tla` | capture thread, raw-frame queue, encoding thread, `stop()`; implements `FrameFeed` |
| `Fifo.tla` | abstract: what a queue promises its two users |
| `ReaderWriterQueue.tla` | the lock-free queue, load by load and store by store; implements `Fifo` |
| `AudioPipeline.tla` | device callbacks, their queues, the mixing thread and its codec, `start()` and `stop()` |
| `WinCapture.tla` | the Windows capture thread and the monitor of session and power events |
| `MuxLoopProofs.tla`, `MediaRecorderProofs.tla`, `VideoPipelineProofs.tla`, `ReaderWriterQueueProofs.tla`, `AudioPipelineProofs.tla`, `DesktopProofs.tla` | inductive invariant and theorems of the module they are named after |
| `FrameRotation.tla` | the copy loops that turn an image |
| `CaptureProofs.tla` | theorems of `WinCapture` and `FrameRotation` |
| `Desktop.tla` | tray, settings file, service unit and the recorder's process |
| `MCRollingSegments.tla`, `MCMediaRecorder.tla` | constants for TLC |

`MuxInterleave <- RollingSegments <- MediaRecorder` by `EXTENDS`: the actions of
`MediaRecorder` are conjunctions of an action of the ring and what the caller
does around it. `VideoPipeline` stands beside them: the ring only sees it through a
`CircularBuffer`, and what it relies on there is stated once, in `FrameFeed`.
`RollingSegments` names a frame by its position in that feed, `VideoPipeline` by
its timestamp. `VideoPipeline` and `AudioPipeline` keep their queues as
sequences, which `ReaderWriterQueue` justifies through `Fifo`; `MuxLoop`'s audio
snapshots are what `AudioPipeline` calls `Gapless`. `WinCapture` is what
`capture_frame` is on Windows, and `Desktop` sees the recorder from outside, as a process that `MediaRecorder` describes inside.

Definitions marked `Slip:` are plausible errors in the code, each placed before
the definition it would replace. No specification uses them. Substituted for
that definition, each one breaks a property (table in section 4), which shows
that the property depends on the code being as it is.

### RollingSegments

| state | code |
|---|---|
| `produced[s]`, `oldest[s]` | the `CircularBuffer` of stream `s`. A frame is its position in the stream; pushes append, eviction and `clear()` remove a prefix, so the buffer is always `oldest[s] .. produced[s]-1` |
| `seq` | `seq_` |
| `file` | what each slot holds: a set of frames per stream, `NoFile`, or `Leftover` of an earlier run |
| `lock` | holder of `segment_mutex_` |
| `tick`, `slot`, `snap`, `stopping` | where `th_` is, its `idx`, its two snapshots, its stop token. `idx` and the snapshots are locals of a tick: `TickReturn` resets them |
| `owner` | where the caller of `start()` and `stop()` is |
| `dir`, `list` | `config_.dir_` and `list.txt` exist |
| `exp[e]` | one call of `export_last_segments`: where it is, the next and the end of its listing, what `ffmpeg` has copied |

`TickTest ... TickAdvance` are `RollingSegments.cpp:49-61` and `:120-303`, one
action per step that another thread can see: stop test, sleep, lock, each
snapshot, `avio_open2` (which truncates the slot), header, merge loop with
trailer and unlock, each `clear`, the increment. `TickAbort` and
`TickHeaderFails` are the early returns: before `avio_open2` the slot is as it
was, after it the slot is empty. A packet that cannot be written ends the loop
early and the tick goes on as a success; so `TickMux` writes any prefix of
`MuxPrefixes`.

`ExportCall ... ExportFails` are `:78-118`. `ffmpeg` is a process that opens one
listed file after the other; it is modelled from how the code runs it
(`-f concat -c copy`): it fails when the list is missing or empty, or when the
first file cannot be opened; at a later file that cannot be opened it stops and
exits with 0. It may also fail at any point. `Start ... ResetSeq` are `:40-76`.

Correct means: the kept segments are the history, in order and disjoint
(`WindowInOrder`, `SavedOnlyOnce`); a frame is only lost where the code says so
(`NoOtherLoss`); an export is the history (`CleanExportInOrder`,
`OnlyFirstMisplaced`, `NoLeftoverExported`); the mutex does its job
(`MutexHeld`, `ListedFilesStable`).

### MediaRecorder

`io` is what the event loop's thread is doing; while it is not at `"loop"` no
request, signal or timer is served, which is how Asio runs handlers on
`io_context{1}` with one `run()`. `HandleStop` is `Router::handle_stop` with
`save_recording_async`: the new `jthread` has started when its move assignment
joins the old one, so there are `saveThread` and `newThread`. `HandleShutdown`,
`HandleSignal`, `SyncSaveReturns`, `StopRing`, `StopAudio`, `StopScreen`,
`TimerFires` and `DestroyRecorder` are `main.cpp:107-128`, `:167-182` and
`MediaRecorder::stop`. Every exporter but `Io` stands for one background save
and is used once, so the number of them bounds the accepted `/stop` requests.

### MuxLoop

`save_av_to_ts:240-300` on every pair of snapshots of up to `MaxSnapshot`
frames. Times count frames of their stream, scaled by `VideoTicks` and
`AudioTicks`. Video may have gaps (frames dropped at the encoder queue); audio may
repeat a time (the first frame, which the codec keeps back, and frames that fail
after they were sent) and may start one frame before zero (the AAC encoder's
priming packet). These are all the snapshots the two pipelines' modules produce
(`InOrder`, `Gapless`), up to gaps of more than one video frame, which the proofs
include.

`RollingSegments` does not look at times. What it takes of the loop is the set
`MuxPrefixes`: the loop never exhausts both snapshots, and writes at most the first
audio packet before the first video frame, since the video starts at time zero or
before. `LeavesMuxPrefix` shows on all those snapshots that the loop leaves nothing
else. The set is wider than what one given pair of snapshots leads to, so what holds
of the ring holds whatever the times are.

Correct means: packets in order (`WrittenInOrder`), nothing but a tail left out
(`OnlyTailLost`), and streams that start apart by exactly what is missing in them
(`StartApartByLosses`): rebasing puts the *last* frame of a snapshot at its number,
so `k` dropped video frames start the video `k` frames early.

### VideoPipeline and FrameFeed

| state | code |
|---|---|
| `pts`, `last`, `keeps` | `last_frame_pts_`; what `last_frame_` points to; whether that outlives `capture_frame` (SHM image or rotation buffer, decided by `init_platform`) |
| `queue` | `frame_queue_`, of the size that `try_enqueue` accepts |
| `held`, `inside` | the frame `encode_frame` was called with; the frames in the codec |
| `buffer` | `encoded_buffer_` |
| `owner`, `stops`, `capture`, `encoder` | `start()` and `stop()`, the stop tokens, where both loops are |
| `newest`, `lost`, `garbage` | history, read by no action: the last frame delivered, frames lost, frames whose bytes were never captured |

The capture is the X11 one. `CaptureFrame`, `CaptureReuses`, `CaptureNothing` and
`CaptureCrashes` are the ways through `capture_frame`; reading through an unset
or freed `last_frame_` is undefined, so it may find null (unset only), read
other bytes, or crash. One call of `encode_frame` ends as `SendFails`,
`NoPacketYet`, `ReceiveFails` or `PacketComesOut`; the codec is a FIFO of at most
`MaxDelay` frames that gives back one packet per call, which is all the code asks
of it. Neither the codec nor `frame_queue_` is flushed by the ring's tick, so
frames cross segment borders in order (`InOrder`). What is still in the codec at
`stop()` is never received; the buffer is cleared then anyway.

Correct means: timestamps in order and only missing where a frame was lost
(`InOrder`, `HolesAreLosses`), a stop that ends, encodes what was queued and
leaves nothing (`StopReturns`, `QueuedFramesAreEncoded`, `QuietAfterStop`), and
the promise to the ring (`FeedsTheRing`: `VideoPipeline` implements `FrameFeed`
with `window <- buffer`).

### ReaderWriterQueue and Fifo

| state | code |
|---|---|
| `blocks` | the `Block`s: `front`, `tail`, their shadows `localTail`, `localFront`, `next`, the places of the elements |
| `frontBlock`, `tailBlock`, `largestBlockSize` | the members of the same names |
| `canAlloc` | the producer uses `enqueue` (`AudioMixer`) rather than `try_enqueue` (`VideoEncoderQueue`) |
| `producer`, `consumer` | where `inner_enqueue` and `try_dequeue` or `peek` are, with their local variables |
| `offered`, `taken`, `destroyed` | elements offered, the one returned last, those the destructor destroyed |

A step reads or writes one location that the other thread uses; what only its
own thread uses goes with it. Memory is sequentially consistent: the queue's
fences are taken to give that, and `atomicops.h` is not modelled. The element
size is 1 and `MAX_BLOCK_SIZE` is a constant, so that one queue starts as a
circle of blocks (video) and one as a single block that grows (audio); which of
them is a choice of `Init`. `make_block` fails when `MaxBlocks` exist, as it does
without memory.

Correct means: a queue (`ImplementsFifo`, `ConsumerIsToldTheTruth`), of the size
it was asked for (`RefusesOnlyWhenFull`), whose assertions hold and whose
destructor misses nothing (`AssertionsHold`, `NothingLeaks`).

### AudioPipeline

| state | code |
|---|---|
| `mic`, `queues` | `mic_device_id_`; `audio_streams_`, by device id |
| `stream`, `callback` | the two RtAudio streams, whether a callback is past its `is_capturing_` test |
| `captured`, `lost` | history: frames each device has recorded, and those of them that were never queued |
| `is_capturing`, `owner`, `mixer_stop` | the flag, `start()` and `stop()`, the stop token |
| `mixer`, `mix` | where `mixer_loop` is; `current_frames` |
| `pts`, `codec`, `inside`, `buffer` | `pts_`; `codec_ctx_`; frames in the codec; `audio_buffer_` |
| `failures` | history: frames that failed to encode |

`Initialize ... LetCallbacksIn` follow `AudioCapturer::initialize` and `start`,
`CloseSystem ... LetCallbacksOut` follow `stop`: each close waits for the callback
of its stream, and the mixer is joined after both. `MixerTakes` is one step for a
wait that ends (`AllReady`, or the stop token), the frames taken and the sum;
only the callbacks run beside it, and they only append. The outcomes of
`encode_frame` are `FrameIsNotSent`, `CodecIsLost`, `NoCodec`, `ReceiveFails`,
`NoPacketYet` and `PacketComesOut`. Times are counted in frames.

A device loses a frame in two ways: it overflows before the callback reads it
(`DeviceOverflows`; the status that says so is logged at `AudioCapturer.cpp:164` and
`:200`, and the callback goes on with the buffer it has), or the callback gets no
buffer (`CallbackGetsNothing`, `:168`, `:204`). Frames are therefore records of the
moment and of what was lost before it; the code's frames carry neither.

The codec is FFmpeg's AAC encoder. It gives nothing back for the first frame, then a
priming packet dated one frame earlier (`WithMixed`). Since `pts_` only moves with a
packet, the second frame has the first one's time: the packets are dated -1, 0, 0,
1, 2. The module counts in frames of mono sound: `channels_` is 1 (`AudioConfig.hpp:13`)
and no setting changes it.

Correct means: streams that are apart only by what was lost (`MixedInStep`), times
without a hole, repeated only at 0 or after a failure (`Gapless`), what both devices
delivered is mixed (`DeliveredIsMixed`), a stop that ends and leaves nothing
(`StopReturns`, `QuietAfterStop`). That a lost frame shifts one sound against the
other for good is what the code does, and `MixedInStep` says by how much.

### WinCapture

| state | code |
|---|---|
| `device`, `dupl`, `staging` | `d3d_device_` with `d3d_context_`, `desk_dupl_`, `staging_texture_` |
| `acquired`, `last` | a frame is held between `AcquireNextFrame` and `ReleaseFrame`; what `last_frame_` points to |
| `force_black_flag`, `need_video_reinit` | the atomics of the monitor |
| `monitor`, `message`, `inbox`, `window`, `thread_id`, `hwnd` | the window thread, its queue and its window |
| `capture`, `owner`, the stop tokens | as in `VideoPipeline` |
| `session`, `power`, `works` | the world: lock and sleep, whether the window gets power messages, whether Direct3D calls succeed |

`capture_frame` is cut at its accesses to the two flags and to the duplication;
`WndProc` is cut between its two stores. Faults (`LoseAccess`, `RemoveDevice`,
`BreakOrRepair`) and session events happen at any step. A message-only window
gets no broadcasts, so `power` may be false. `last_frame_` starts `"unset"`; a black
frame leaves it null if `black_frame_` is still empty, as it may be before the first
image, when `final_stride_` is not set either (`BlackFrame`).

Correct means: a request to create the duplication anew survives every
interleaving and every failed attempt, and the black flag does not stick
(`CaptureResumes`); no frame is acquired twice and no released texture is pushed
again (`ReadyToAcquire`; an unset `last_frame_` is, see `video_reuse` in section 3);
what the thread dereferences without a test is there, unless a `reinit()` failed
(`NullOnlyAfterGivingUp`); `stop()` ends the window thread (`MonitorStops`). Two premises are the code's: `reinit()` after a removed device is tried once
(`gaveUp`), and a `stop()` that comes before the thread has a message queue loses
its `WM_QUIT`.

What nothing in the code promises, and no property claims: that no image is
pushed while the session is locked. The states of the model include one that is
(`ScreenRecorderWindows.cpp:416` clears the flag a lock has just set).

### FrameRotation

`DstPixel` is the address arithmetic of the three copy loops, `OutStride`,
`OutWidth`, `OutHeight` and `FrameSize` are what the encoder and the queue are
told. `Turned` is what the loops should do, defined from one turn by 90 degrees.
Everything about it is proved (section 5), so that it has no run. Offsets are
unbounded integers; the code needs `4 * w * h` to fit an `int`.

### Desktop

| state | code |
|---|---|
| `disk`, `edits` | `settings.toml`; settings saved so far |
| `unit`, `recorder`, `loaded`, `pending`, `crashes` | the service, where the process is, what it read, a `/shutdown` not yet handled |
| `save` | `save_thread_`: waiting for the segments, or exporting |
| `tray`, `client`, `shown` | where the tray's thread is, the port and key of its `ApiClient`, the status shown |
| `restart`, `attempts` | the single-shot timer of `on_settings_saved`, the health checks left |
| `promised` | history: the settings the user was told would be applied |

One action per handler of the tray and per step of the process that another one
can see. The tray's requests block: `perform_request` uses Beast's synchronous
operations, on which `expires_after` has no effect, so the tray's only thread waits
until the reply comes or the connection breaks. A handler that asks is therefore
one step, possible when the recorder would answer or refuse (`Waits` is when it does
neither); only `POST /shutdown` has a beginning and an end (`RequestEnds`), because
the recorder works on it in between.

A `/shutdown` is worked on in the steps of `main.cpp:107-128`: the save waits for the
segments, saves, stops, and replies. A background save that `POST /stop` began
(`ClickSave`) contends with it for the segments (`SaveLocks`, `SaveEnds`) and is
joined only when the process ends (`LeaveLoop`, `Exit`; `MediaRecorder` has the
details). The one relation between times that the model uses is that 500 ms are
longer than 200 ms: when the tray's timer fires, the recorder has left its event loop
(`HalfASecondLater`). Whether its process is gone by then is open.

Correct means: a confirmed change of settings ends with a recorder that runs with
them (`SettingsApplied`, which the code violates), unless a background save outlived
the timer (`AppliedUnlessSaving`), and the health check that says so was answered by
that one (`HealthyIsTheNewOne`).

## 3. The runs

| run | module, cfg | question | bounds |
|---|---|---|---|
| `ring` | `MCRollingSegments`, `RollingSegments_Ring.cfg` | does the ring keep the history, whatever fails? | 3 slots, 4 frames per stream, capacity 2, 1 exporter |
| `mux_loop` | `MuxLoop`, `MuxLoop.cfg` | is the merge loop right, and what the ring takes of it? | snapshots of 1 to 4 frames, which begin at times up to 2 |
| `api` | `MCMediaRecorder`, `MediaRecorder_Api.cfg` | does every save end and every shutdown exit? | 1 slot, 1 frame, a synchronous and 2 background saves |
| `video` | `VideoPipeline`, `VideoPipeline.cfg` | does the pipeline keep frames in order, account for the lost ones, and stop? | 4 frames, queue 2, buffer 2, codec delay 1 |
| `video_reuse` | `VideoPipeline_Reuse.cfg` | violated: `EncodesOnlyCaptured` | as `video` |
| `export_order` | `RollingSegments_Order.cfg` | violated: `ExportInOrder` | 2 slots, 3 frames |
| `ring_outlives_saves` | `MediaRecorder_RingOutlivesSaves.cfg` | violated: `RingOutlivesSaves` | as `api` |
| `frame_queue` | `ReaderWriterQueue`, `ReaderWriterQueue.cfg` | is the lock-free queue a queue, of its size? | sizes 8 and 1, blocks of 4, 13 elements, growth to 3 blocks |
| `audio` | `AudioPipeline`, `AudioPipeline.cfg` | is sound mixed in step and in time, and does `stop()` end? | 6 frames per device, 1 lost, buffer 3, 2 failures |
| `win_capture` | `WinCapture`, `WinCapture.cfg` | does capture survive locks, sleep and faults, and the monitor end? | 3 events, 2 faults |
| `desktop` | `Desktop`, `Desktop.cfg` | does a change of settings take effect? | 2 ports, 2 keys, 2 edits, 1 crash, 2 health checks |
| `settings_restart` | `Desktop_SaveRunning.cfg` | violated: `SettingsApplied` | 1 port, 1 edit, no crash; the output directory is there |

Why the bounds are enough. Wrap-around needs `seq_ >= ring_size_`; with 3 slots
and 4 frames per stream the ring wraps, each commit needs one new frame of
each stream, and a frame is to spare for eviction, for arriving between
snapshot and clear, or for a tick that fails first. Capacity 2 makes eviction
happen while a snapshot is held. Video and audio frames last 2 and 3 units, so
the merge loop ends with either stream. `MaxFrames`, `MaxSnapshot` and
`MaxStart` are the only bounds on what grows; `seq_` is bounded by them, since
each commit takes frames. Two background saves are what it takes for one to be
joined by another. In `video` four frames fill the queue, drop one and enqueue
another behind it, or overflow the buffer with one frame delayed in the codec
(five frames and a delay of two also pass, in two minutes). In `api` the contents of
the segments do not matter, hence one frame.

The queue of size 8 has blocks of 4 with 3 usable places, hence four blocks
(`initialBlockCount`). Twelve elements fill all of them when the consumer has taken
none, and `MaxElement = 13` offers one more, so that `try_enqueue` does refuse; with
elements taken in between, the tail comes round to the first block.
The queue of size 1 starts with one block of 2 and grows, by a block of 4 each time,
until `MaxBlocks = 3` exist. In `audio` six frames let one device run ahead of the
other, cross the priming packet and the repeated time 0 and still overflow the buffer
of 3, while a lost frame of each device and two failed ones fall anywhere in between.
Three events of the session and two faults are what it takes for a lock,
an unlock and a failed re-creation to meet in `win_capture`. Its screen is not
rotated (`Rotates = FALSE`), the harder case, where `last_frame_` points into the
texture; with `Rotates = TRUE` the same properties pass. Two edits in
`desktop` make one restart overlap the next, and a crash falls into either; its
output directory may be gone (`PathMayFail`), so that a shutdown also gets past a
running save without waiting for the segments. `settings_restart` excludes that, to
show that the race needs no failure.

Deadlock is checked in `ring` and `export_order`. Elsewhere the
program ends (`MediaRecorder`), a loop or both threads do (`MuxLoop`,
`VideoPipeline`, `AudioPipeline`, `WinCapture`), the queue is destroyed, or the tray
has quit and the recorder with it (`Desktop`). Those cfgs switch it off; what
should not stop there is stated as liveness.

Fairness. The threads of `MediaRecorder` are weakly fair: a thread that can run
does (the event loop while it is inside a handler, the tick
thread, each save). Nothing is assumed about requests, signals and encoders.
In `VideoPipeline` both loops and a `stop()` once called are weakly fair: none of
them waits for anything but a sleep of bounded length or a join.
`std::mutex` promises no fairness; an export's lock is strongly fair because the
tick thread sleeps `segment_buffer_seconds` between two rounds with the mutex
free, and only finitely many exports are there to compete with. `ffmpeg` is
assumed to end.
In `AudioPipeline` a callback under way, the mixer and a `stop()` once called are
fair; that a device delivers is not assumed. In `WinCapture` both threads and a
`stop()` once called are fair, the world is not. In `Desktop` the recorder's
process and its save thread go on (`ffmpeg` ends), the tray notices a reply or a broken
connection, and its timer fires; neither the user nor a crash is fair, and launching
`systemctl` may fail.


### What the violated runs show

- `export_order`. The tick releases the mutex with the new segment in the slot
  of the oldest one, and increments `seq_` after that
  (`RollingSegments.cpp:131-136`). An export that locks in between lists that
  slot first: the recording starts with its newest seconds and lacks its oldest.
  `CleanExportInOrder` shows that this window is the only cause, and
  `OnlyFirstMisplaced` that nothing worse comes of it.
- `ring_outlives_saves`. `/stop` answers with the path of a recording; a
  `/shutdown` right after removes the directory under it
  (`RollingSegments.cpp:74`). `EverySaveEnds` still holds: the save fails, or
  ends with what `ffmpeg` had read.
- `video_reuse`. Nothing sets `last_frame_` before the first image
  (`ScreenRecorderBase.hpp:71`), so a first capture that fails may push whatever
  it points to. With neither SHM nor rotation it also dangles after every
  capture (`ScreenRecorderLinux.cpp:333`).
  Windows has the same error: the first `AcquireNextFrame(0, ...)` that times out
  pushes from the pointer nothing has set (`ScreenRecorderWindows.cpp:338`). `WinCapture`
  has that step (`AcquireTimesOut` with `last = "unset"`), and no property there says
  that what a timeout pushes is a frame.
- `settings_restart`. A recording is being saved in the background (`/stop`) when the
  user confirms new settings. The save that `/shutdown` makes has the segments first;
  the background save gets them afterwards, while `stop()` still joins the tick thread,
  and `ffmpeg` runs. The reply comes, the event loop ends after 200 ms
  (`main.cpp:125-127`), and `~MediaRecorder` joins the save (`MediaRecorder.hpp:56-58`).
  If that lasts beyond the tray's 500 ms (`TrayIcon.cpp:180`), the start meets a service
  that is still active and does nothing; then the recorder exits with 0, which the
  unit does not restart (`src/deploy/linux/deploy.sh:61`). The user was told that recording restarts
  (`TrayIcon.cpp:174`). `desktop` shows that a save that is still being joined is the
  only way this comes about (`AppliedUnlessSaving`).

## 4. Properties and the errors that break them

| run | property | broken by |
|---|---|---|
| `ring` | `TypeOK` | `SlotOfTooWide`: `% (ring_size_ + 1)` |
| `ring` | `WindowInOrder`, `SavedOnlyOnce`, `OnlyFirstMisplaced` | `ClearNothing`: the buffers are not cleared after a commit |
| `ring` | `CleanExportInOrder` | `FirstListedTooEarly`: one segment too many |
| `ring` | `NoLeftoverExported` | `FirstListedUnclamped`: no clamp while `seq_` is small |
| `ring` | `NoOtherLoss` | `TickAbortClears`: a failed tick clears a buffer |
| `ring` | `ListedFilesStable` | `TickLocksAnyway`: the tick does not wait for the mutex |
| `mux_loop` | `LeavesMuxPrefix` | `VideoIsStrictlyNext`: ties go to audio |
| `mux_loop` | `WrittenInOrder` | `VideoIsNextRaw`: compared before rebasing |
| `mux_loop` | `OnlyTailLost` | `AudioIsNext`: the comparison is turned round |
| `mux_loop` | `StartApartByLosses` | `NoDiff`: no rebasing |
| `api` | `MutexHeld` | `TickAbortLocked`: an early return keeps the mutex |
| `api` | `NoOrphanSave` | `HandleStopDetaching`: detach instead of join |
| `api` | `NothingOutlivesMain` | `DestroyWithoutJoin`: no join at the end |
| `api` | `SavesAcceptedOnlyWhileRunning` | `RecordingOrNot`: no check of `is_recording` |
| `api` | `EverySaveEnds` | `ExportReturnsLocked`: the mutex stays locked |
| `api` | `ShutdownExits` | `RequestStopLocked`: `stop()` joins with the mutex held |
| `video` | `InOrder` | `PacketStampedWithInput`: the packet gets the timestamp of the frame just sent |
| `video` | `HolesAreLosses` | `EncoderTakesLatest`: older queued frames are skipped |
| `video` | `QuietAfterStop` | `LeaveCapture`: the capture thread is not joined |
| `video` | `QueuedFramesAreEncoded` | `EncoderTestNoDrain`: no second loop |
| `video` | `StopReturns` | `StopEncoderUnasked`: joined without `request_stop` |
| `video` | `FeedsTheRing` | `PushUnbounded`: no eviction |
| `frame_queue` | `ImplementsFifo` | `DequeueSkipsRecheck`: the block is left without looking again |
| `frame_queue` | `RefusesOnlyWhenFull` | `NoSpareBlockCount`: a block less |
| `frame_queue` | `ConsumerIsToldTheTruth` | `DequeueTrustsShadow`: the tail is not read again |
| `frame_queue` | `AssertionsHold` | `EnqueueLooksNowhere`: the next block is taken although the consumer is in it |
| `frame_queue` | `NothingLeaks` | `RemainingToTail`: the destructor stops at the tail block |
| `audio` | `MixedInStep` | `SomeReady`: the mixer goes on with the devices that have a frame |
| `audio` | `Gapless` | `TimePassesAnyway`: `pts_` advances for a frame that fails |
| `audio` | `QuietAfterStop` | `ClearsAtOnce`: cleared without the join |
| `audio` | `StopReturns` | `OnlyFramesEndIt`: the wait does not look at the stop token |
| `audio` | `DeliveredIsMixed` | `DevicesByStream`: a queue for a microphone that is not there |
| `win_capture` | `ReadyToAcquire` | `ReinitDuplicationAndGoOn`: no black frame after a re-creation |
| `win_capture` | `NullOnlyAfterGivingUp` | `ReleaseAtOnce`: the Direct3D objects are released without the join |
| `win_capture` | `CaptureResumes` | `ReinitDuplicationFailsForGood`: a failed attempt is not repeated |
| `win_capture` | `MonitorStops` | `PostNothing`: no `WM_QUIT` |
| `desktop` | `AppliedUnlessSaving` | `AtOnce`: started as soon as the reply is there |
| `desktop` | `HealthyIsTheNewOne` | `AtOnce` |

## 5. What is proved

Every theorem holds for all values of the constants that satisfy the module's
named assumption, which gives the constants their types (and says that sizes the
code divides by or allocates are positive); TLC evaluates the assumption in
every run of that module. Every safety property a passing run checks is proved:
every invariant, every action property and both refinements. Each inductive
invariant was an invariant of a TLC run before it was proved.

### The ring: `RollingSegmentsProofs.tla`

For every `RingSize > 0`, every `Requested`, every capacity and number of frames,
any frame durations and any set of exporters:

| theorem | states |
|---|---|
| `IInvHolds`, `EInvHolds` | the two inductive invariants |
| `TypeCorrect`, `MutualExclusion` | `Spec => []TypeOK`, `Spec => []MutexHeld` |
| `WindowStaysInOrder`, `FramesSavedOnlyOnce` | `Spec => []WindowInOrder`, `Spec => []SavedOnlyOnce` |
| `ExportsMisplaceAtMostTheFirst` | `Spec => []OnlyFirstMisplaced` |
| `CleanExportsInOrder`, `LeftoversNeverExported` | `Spec => []CleanExportInOrder`, `Spec => []NoLeftoverExported` |
| `ListedFilesStayStable`, `LossesAreKnown` | `Spec => ListedFilesStable`, `Spec => NoOtherLoss` |

A ring size of zero is excluded: the configuration arithmetic can produce it and
the code would then divide by it (see the hazards).

`WindowInOrder` alone is not inductive: nothing in it says that the frames now
being muxed are newer than those on disk. `IInv` adds, in this order:

1. `Control`: the tick thread exists only between `start()` and the join, and
   `idx` is the slot of the current `seq_` throughout a tick.
2. `Buffers`, `Cleared`: snapshot and buffer bounds, and that each clear
   removes at least what was snapshotted.
3. `KeptBeforeSnap`, `CommittedInSnap`: from the moment a stream is snapshotted,
   every kept segment precedes the snapshot, and what is being committed lies
   within it. `SavedOnlyOnce` gives the first of these at the snapshot; the
   clears turn both back into `SavedOnlyOnce` for the window with the new
   segment, at `TickAdvance`.
4. `ExportsOK`: the files a running export has yet to read continue, from the
   second one on, what it has read. It follows from `WindowInOrder` at the
   listing, since `OldestKept` excludes at most the first listed number, and is
   kept because the mutex keeps the tick out (`MutexHeld`) and removal only takes
   frames away.

The arithmetic behind it is `SlotsDistinct`: two sequence numbers less than
`RingSize` apart have different slots. There is one lemma per group of actions
and one step per conjunct that the action can disturb.

What an export writes needs three more facts, which `EInv` adds to `IInv`:

- `CommittedPrefix`: while a tick commits, what it wrote is the front of its
  snapshot. With the bounds of `IInv` this is `NoOtherLoss`: a frame that a clear
  removes was written, or is later than all that was, or came after the snapshot.
- `NoLeftovers`: a slot below `seq_`, and one that is listed, holds no file of
  an earlier run; so `NoLeftoverExported` is inductive.
- `CleanOK`: as long as `seq_` has not moved since the listing and no tick is
  committing, the order holds from the first listed segment on. The first segment
  is kept out of order only by the commit under way, which is the window that
  `export_order` shows.

`ListedFilesStable` needs `IInv` only: whoever writes a slot holds the mutex.

### The recorder: `MediaRecorderProofs.tla`

For any ring as above and any number of save threads:

| theorem | states |
|---|---|
| `MRInvHolds` | `MRSpec => []MRInv`, the inductive invariant |
| `RingPromisesKept` | `WindowInOrder`, `SavedOnlyOnce`, `CleanExportInOrder`, `OnlyFirstMisplaced` and `NoLeftoverExported`, under `MRSpec` |
| `RecorderMutexHeld` | `MRSpec => []MutexHeld` |
| `SavesAreOwned` | `MRSpec => []NoOrphanSave` |
| `MainEndsLast` | `MRSpec => []NothingOutlivesMain` |
| `AcceptedWhileRunning` | `MRSpec => SavesAcceptedOnlyWhileRunning` |

The ring's invariants carry over because every step of the recorder is a step of
the ring (`RecorderStepsRing`) or one of the two that clear a buffer after the ring
has stopped (`ClearStoppedKeepsRing`), which `RollingSegments` has no action for.
To that `MRInv` adds `IoControl`, what the ring and the capturers are doing for each
place of the event loop's thread, and `SaveControl`: exporting is the same as a
pending save, an export of the event loop itself happens only inside
`save_and_stop_recorder`, and a new thread waits for the old one only in the
assignment. `NoOrphanSave` is a conjunct and inductive with these. `MainEndsLast`
combines them at the end: the destructor waits for the last save, and the ring
had stopped, so that `MutexHeld` leaves nobody to hold the mutex.

### The merge loop: `MuxLoopProofs.tla`

For snapshots of any length that start anywhere, any gaps in the video, any repeated
times in the audio and any two frame durations:

| theorem | states |
|---|---|
| `IInvHolds` | `Spec => []IInv`, the inductive invariant |
| `PacketsInOrder`, `TailsAreLost` | `Spec => []WrittenInOrder`, `Spec => []OnlyTailLost` |
| `StreamsStartApartByLosses` | `Spec => []StartApartByLosses` |
| `LeavesMuxPrefixHolds` | `Spec => []LeavesMuxPrefix` |

`LeavesMuxPrefixHolds` is what the ring's theorems rest on: `RollingSegments` lets a
tick write any of the `MuxPrefixes`, and this theorem says that the loop leaves no
other. It needs that the first video frame is rebased to zero or before, and that only
the first audio packet can be. `OnlyTailLost` makes `WrittenInOrder` inductive, since the packet written
next is one of the tail. The snapshots are constrained one frame against the next
(`Rises`, `Climbs`), so the proof needs an induction over positions; the library's induction
theorems take an operator and cannot be instantiated, so it is done with
`LeastNatural`, which says that a set of naturals that is not empty has a
least element, and comes from the well-founded order of the naturals as a set.

### The video pipeline: `VideoPipelineProofs.tla`

For every size of the queue, capacity of the buffer and delay of the codec:

| theorem | states |
|---|---|
| `IInvHolds` | `Spec => [](IInv /\ TypeOK)`, the inductive invariant and the types |
| `FramesInOrder`, `HolesExplained` | `Spec => []InOrder`, `Spec => []HolesAreLosses` |
| `NothingAfterStop` | `Spec => []QuietAfterStop` |
| `BufferIsAFeed` | `Spec => FeedsTheRing`: the refinement of `FrameFeed` |

`IInv` says `InOrder` place by place (`Ordered`: every part of the line rises and
precedes those behind it), so that a step only disturbs the two places it moves a
frame between. `Accounted` is `HolesAreLosses` behind any frame of the line
instead of its head: heads leave. `Control` is the order of the two joins, with the
fact that an encoding thread that has ended left nothing in the queue. For the
refinement `Fresh` is added: all that has yet to reach the buffer is newer than
anything that has been in it. Then each step of the pipeline is a push, an eviction
with a push, a clear or a stutter of `FrameFeed`.

### The lock-free queue: `ReaderWriterQueueProofs.tla`

For a queue constructed for any positive number of elements, any maximal block size
that is a power of two above one, any number of blocks and elements:

| theorem | states |
|---|---|
| `IInvHolds` | `Spec => []IInv`, the inductive invariant, types included |
| `AssertionsAlwaysHold` | `Spec => []AssertionsHold`: the assertions of lines 351, 416 and 588 |
| `PlacesAreNotShared` | `Spec => []NoSharedPlace`: while the producer constructs an element and the consumer moves one out, they are in different places |
| `QueueIsAFifo` | `Spec => ImplementsFifo`: the refinement of `Fifo` |
| `NothingLeaksAtTheEnd` | `Spec => []NothingLeaks` |
| `ConsumerIsToldTrue` | `Spec => ConsumerIsToldTheTruth` |
| `RefusedOnlyWhenFull` | `Spec => RefusesOnlyWhenFull` |

A queue constructed for no element would get one block of one place, which holds
nothing; the code constructs them for 1024 and 15, and the assumption says that the
sizes are positive.

`IInv` has five parts. `Shadows`: in each block, each side's copy of the other's index
lies behind it, measured along the circular buffer (`Ahead`). `ProducerKnows` and
`ConsumerKnows`: what a side has found out (a free place, an element, a free block
ahead, a block that is not the tail) is true until it acts on it, whatever the
other does in between. `Circle`: there is a numbering of the linked blocks along
their `next` pointers from the front block on, in which every block up to the tail
block has an element, except perhaps the front one, and no block behind it has,
except the one about to become the tail. The numbering is no state of the program,
so it is quantified, and every step that stores to `next`, `front`, `tail`,
`frontBlock` or `tailBlock` shows the numbering of the next state: the old one,
that turned by one when the consumer moves on (`TurnedCircle`), or widened by one
place when a block is linked behind the tail (`WidenedCircle`). `AssertionsHold`
follows: a block behind the tail is empty, and the one after an empty front block
that is not the tail is not. That the constructor builds such a circle rests on
`CeilToPow2`: there is a power of two between `x` and `2 * x - 1`.

The other four theorems are about the elements. `Queue` is a recursive function along
the `next` pointers, and nothing in its definition says that it ends. `Chain(K, f)`
says of a set `K` of blocks and a function `f` that `K` holds the blocks from the front
to the tail block, each leading to another one of `K`, and that `f[b]` is what is read
from `b` on. Then `Queue` is `f[frontBlock]`: `Circle` gives each block a rank that
descends along `next`, so a block of least rank where the two differ would need one of
lower rank. `Circle` also gives a chain in every
state (`ChainThere`). Each kind of step then
shows the chain of the next state: `publish` and `publishNext` append to the last
block's elements, `release` drops the first of the front block's, going on to the
next block removes a first block that is empty, and all others change no block's
elements. So each step of the code appends to `Queue`, takes its head or leaves it,
which is `QueueIsAFifo`. Three further facts are kept along with it: `Written` (what
is about to be published is the element that was offered), `Told` (the consumer is about
to say that there is nothing only if there was nothing at the call) and `Gone` (what the
destructor has destroyed is all that was left in the queue).

`RefusedOnlyWhenFull` must count. `Packed`: between the front and the tail block there
is no block half full, since the producer leaves only full blocks behind, and the
consumer only empty ones. `Room`: with `try_enqueue` alone the circle stays the one
the constructor built, `n` blocks of one size with `(n - 1) * (blockSize - 1)` at least
the size asked for. `Warned`: the queue only shrinks while the producer looks for a
place, so what was full when it refuses was full at the call. `FullCircle` combines
them: if the block after the tail is the front block, every block but the front one is on
the way and full; the one block that does not count is why the constructor adds one.

### The audio pipeline: `AudioPipelineProofs.tla`

For any number of frames, of losses and of failures, and any capacity:

| theorem | states |
|---|---|
| `IInvHolds` | `Spec => []IInv`, the inductive invariant, types included |
| `MixedInStepHolds` | `Spec => []MixedInStep` |
| `GaplessHolds` | `Spec => []Gapless` |
| `QuietAfterStopHolds` | `Spec => []QuietAfterStop` |

`InStep` says that there is one number `k` such that every queue lacks exactly the
first `k` frames its stream has queued (`Lacking`), where a frame's place is its moment
less what was lost before it: callbacks append, a lost frame moves moment and
losses alike, a round of the mixer takes one from each, and the fronts agree in place
whatever the lengths. The round that `stop()` cuts short is the one that ends it,
when all streams are closed. `Times` takes `Gapless` from the buffer through the codec
to `pts_`, where the next packet's time comes from. `Control` is the order in which
`start()` and `stop()` deal with streams, callbacks and the mixer.

### Capture: `CaptureProofs.tla`

On Windows, for any number of events and faults, rotated or not: `CaptureInvHolds`,
`AlwaysReadyToAcquire` (`Spec => []ReadyToAcquire`) and `NullOnlyAfterFailedReinit`
(`Spec => []NullOnlyAfterGivingUp`). The invariant says that a frame is held only
while it is converted, that a pointer into a released texture is followed by a black
frame before the next image is asked for (it says nothing of a pointer that was never
set, see `video_reuse`), and that a null device is one a failed
`reinit()` left. The monitor's steps touch none of it, which is one lemma.

Of the rotation, for every width and height:

| theorem | states |
|---|---|
| `RotationTurnsTheImage` | each pixel goes where one, two or three turns by 90 degrees bring it, in rows of the encoder's stride |
| `RotationStaysInBuffer` | inside `rotation_buffer_`, which is exactly what `push_frame` copies |
| `RotationKeepsEveryPixel`, `RotationFillsBuffer` | no place is written twice, none is left out |

They rest on two facts of row-major order, `RowMajorInside` and
`RowMajorUnique`, and on `TurnedStaysInside`, and assume nothing but natural numbers.

### The tray: `DesktopProofs.tla`

For any ports and keys, any number of health checks, edits and crashes, and saves of
any length:

| theorem | states |
|---|---|
| `ReplacedHolds` | `Spec => []Replaced`, the inductive invariant |
| `HealthyRecorderIsNew` | `Spec => HealthyIsTheNewOne` |

`Replaced` says that the promised settings are those in the file, and that an old
process, one that has read others, is on its way out: it has the request before it
or is saving, and the tray still waits for the reply, or it is in the 200 ms after the
reply, with the tray's timer still to come. The one other place it can be in is the
join of a background save, where it listens no more. The timer finds no process that
answers (`HalfASecondLater`), a process started afterwards reads the file, and the
health check counts only when the timer is off. So the race of `settings_restart`
cannot make the tray report a success: the health checks fail, and the user is warned.

### Only model-checked

Liveness, which needs fairness and `ENABLED`: `EverySaveEnds`, `ShutdownExits`,
`StopReturns`, `QueuedFramesAreEncoded`, `DeliveredIsMixed`, `CaptureResumes`,
`MonitorStops`, `AppliedUnlessSaving`.

## 6. What is not modelled, and the plan

Abstracted on purpose: contents of frames and samples, MPEG-TS, codecs, HTTP
parsing, logging. Of `ffmpeg`, only which files it reads, in which order, and how
it ends. `remove_all` deletes files one by one; it is one step here, with any
subset of the files removed when it fails. `seq_` never wraps (64 bits, one per
segment). Relaxed memory: the queue's fences and the capture flags' release and
acquire are taken for sequential consistency.

Not modelled, and why:

- File names of recordings (two saves in one second share one): neither clock nor
  output directory is state of `MediaRecorder`.
- `Settings::merge_into` and `parse_byte_size`: pure functions on strings and
  tables that are used once at the start. The size wraps at 64 bits, for a log file's
  limit.
- `mix_samples`: an addition and a clip per sample.
- How `VideoEncoder` tries one codec after the other, how Windows adapters and X11
  rotation are detected: queries of the system, with no state that outlives them.
- The codec that the tick thread reads while `AudioEncoder::cleanup` may free it:
  needs `AudioPipeline` composed with `RollingSegments`, beyond TLC's reach at
  useful bounds.
- Drawing and dialogs, installation scripts but for the unit, build files.

The proofs to come: the steps of the liveness arguments that need neither fairness
nor `ENABLED`. For each of the properties above that is a rank which no step raises
and the fair steps lower, as an action property, and the guard of a fair step that
holds until then, as an invariant: first for `StopReturns` and `EverySaveEnds`, where
a thread waits for another one.
