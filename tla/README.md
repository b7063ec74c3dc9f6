# Specifications of traa

TLA+ models of [opentraa/traa](../src), a C++ library for screen capture, with the TLC
configurations that check them on small instances and TLAPS proofs for every value of
their constants. Every definition is translated from the source; `PROJECT.json` names, for
each one, the file and the lines it stands for. Source paths below are relative to the
repository root, and `tq.h` is short for `src/base/thread/task_queue.h`.

To check one module: `tlc -config TaskQueue.cfg MCTaskQueue.tla`; to check proofs: `tlapm
FutureState_proofs.tla`.

---

## 1. Inventory

### 1.1 Components

| Component | Source | State | Operations | Modelled |
|---|---|---|---|---|
| Future and promise | `base/thread/ffuture.h`, `ffuture.cc`, `waitable_future.h` | the shared state's bits, value, mutex and condition variable, reference count | `get_future`, copy, `set_value`, `~fpromise`, `get`, `get_for`, `wait_for`, ... | `FutureState`, `Completion` |
| Task queue and manager | `tq.h` | `tasks_`, `tasks_mutex_`, `aio_`, the thread, TLS slot; `task_queues_` under `lock_` | `create_queue`, `post_task`, `enqueue`, `__execute`, `release_queue`, `shutdown`, destructor | `TaskQueue`, `SerialExecutor` |
| Timers | `tq.h` 60-180, 357-400 | a `steady_timer`, the task, the interval | `enqueue_after`, `enqueue_at`, `enqueue_repeatly`, `start`, `stop` | `TaskTimer` |
| Public API, engine lifecycle | `main/traa.cc`, `main/engine.*` | `g_main_queue_id`, the thread-local `g_engine_instance` | `traa_init`, `traa_release`, `traa_set_event_handler`, `traa_enum_device_info`, `traa_free_device_info` | `TraaApi` |
| Capture wrappers | `fallback_desktop_capturer_wrapper.cc`, `blank_detector_...`, `desktop_capturer_differ_wrapper.cc` | whether the main capturer is given up, the verdict on blank frames, the last frame | `capture_frame`, `on_capture_result`, `select_source` | `CapturePipeline` |
| directx and gdi screen capturers | `win/screen_capturer_win_directx.cc`, `win/screen_capturer_win_gdi.cc`, `win/display_configuration_monitor.cc` | frame queues, the selected screen, the display configuration seen | `capture_frame`, `select_source`, `is_changed` | `CapturePipeline` |
| Shared frames and frame queue | `shared_desktop_frame.cc`, `screen_capture_frame_queue.h` | reference-counted buffers, a ring of two | `share`, `move_to_next_frame`, `replace_current_frame`, `reset` | `CapturePipeline` |
| DXGI controller | `win/dxgi/*` | adapters and outputs, contexts, last frames, the identity of the initialisation | `duplicate`, `duplicate_monitor`, `ensure_frame_captured`, `unregister`, `initialize` | `DxgiDuplication` |
| ScreenCaptureKit capturer | `darwin/screen_capturer_sck.mm` | stream, display, latest frame under two locks, the helper's lock | `start`, `select_source`, `capture_frame`, the handlers, the destructor | `SckCapturer` |
| Desktop region, rotation | `desktop_region.cc`, `desktop_geometry.*`, `desktop_frame_rotation.cc` | rows of spans | `add_rect`, `add_region`, `intersect`, `subtract`, `translate`, iteration, `rotate_rect` | `DesktopRegion`, `RegionOps` |
| Block comparison | `differ_block.cc`, `desktop_capturer_differ_wrapper.cc` | none | `compare_frames`, `compare_row` | `DesktopRegion` |
| Invalid-region helper | `screen_capturer_helper.cc` | the invalid region under a lock | `take_invalid_region`, `expand_to_grid` | partly, `DesktopRegion` |
| Weak callbacks | `base/thread/callback.h` | the flag shared between an object and its callbacks | `get_weak_flags`, call | no |
| WGC sessions | `win/wgc/*` | frame pool, session state, closed flag | `start_capture`, `get_frame`, item closed | no |
| Window, cropping, CoreGraphics, X11 capturers | `win`, `darwin`, `linux` | native handles | native calls | no |
| Snapshot and enumeration API | `main/traa.cc`, `devices/screen/enumerator.h` | none | `traa_enum_screen_source_info`, `traa_create_snapshot` | no |
| Shared X display, metrics, strings, numerics, logging, platform | `linux/x11`, `base/` | maps under a lock, or none | registration, conversions | no |

Capturer paths are below `src/base/devices/screen`. Section 6 says why the last ones are
left out.

### 1.2 How they interact

An application's threads call the C API. `traa_init` makes the main task queue if there is
none and posts a task that makes the engine; the other calls post a task and wait for the
answer with `waitable_future::get`. The queue's thread runs an `asio::io_context`; each
accepted task is a closure in `tasks_` and, separately, a handler in the context that will
run whatever is at the front. The engine lives in a thread-local variable of that thread
and is deleted when the thread leaves. The manager's map, a poster's temporary and (with a
TLS key) a running task share ownership of a queue, and whoever drops the last reference
runs the destructor, which stops and joins the thread. `shutdown` and `release_queue` do
so with the manager's `lock_` held. A closure that is destroyed without being run takes
its promise with it, and `~fpromise` abandons the future so that its waiter returns with
the default.

A screen capturer on Windows is a chain of wrappers,
`differ(fallback(blank_detector(directx), gdi))`: each is the callback of the next one in,
and one `capture_frame` of the application runs down the chain and back up to the
application's callback. Frames are not copied on the way but shared: a capturer draws into
the two buffers of its frame queue in turn while the differ holds a reference to the last
frame it has passed on. The directx capturer takes its frames from a process-wide
controller, which owns one duplication per monitor; a monitor tells of each change once,
and the controller spreads it to the contexts of all other frames. On macOS the capturer
is called back on threads of the system with the shareable content, the start of the
stream and samples, through a helper that outlives it. All of them describe what changed
by a `desktop_region`.

### 1.3 What is hard

- *Lifetime under concurrency.* References, a detached end of the thread, tasks that are
  accepted after `stop()`: whether anybody is left waiting, or inside an object that is
  gone, depends on who lets go last. The same for a capturer and the callbacks that the
  system still owes it.
- *Unsynchronised decisions.* `~fpromise` reads the bits and the use count without the
  mutex; `enqueue` skips `tasks_mutex_` on the queue's own thread; `traa_init` is made of
  several calls that each take `lock_` by themselves; the handler of the shareable content
  looks under `lock_` and acts under `lock_` again.
- *Lock and join.* `lock_` is held while a thread is joined that may want it.
- *Time.* Value and deadline arrive together; a timer is stopped while its handler is
  already due; tasks overrun their interval; durations are cut to milliseconds.
- *What changed, relative to what.* A change is reported once, against a buffer that
  somebody else may have drawn over, after captures that failed half-way, by one of two
  capturers, of a screen that was changed for another.

The full list, each at its line with the properties aimed at it, is `hazards` in
`PROJECT.json`.

### 1.4 What makes each modelled component correct

- *Future*: one result for everybody; no waiter is missed; the state is deleted exactly
  when nobody holds it; every call returns.
- *Task queue*: tasks run one at a time in the order they came, each at most once, each
  run or abandoned; nothing runs after `shutdown()`; nobody is inside a destroyed queue.
- *Timers*: never early, no drift, no lost period, a stop that finds the timer waiting is
  final.
- *API*: no queue, thread or engine left behind; every call returns; an application that
  keeps to a stated discipline never meets a missing engine or a lost `traa_init`.
- *Capture chain*: whoever applies the updated regions holds the frame delivered; no black
  frame of an adapter that shows nothing slips through; the frame is of the screen
  selected.
- *DXGI controller*: a frame delivered is current, its region misses nothing, every
  capture returns.
- *SCK capturer*: the latest sample is shown and marked, the last selection is followed,
  the destructor leaves nobody inside.
- *Region*: after any operations it is exactly the set of pixels meant, and the iterator
  hands out each once.

---

## 2. The modules

```
Completion     <== implemented by ==  FutureState  <- FutureState_proofs
SerialExecutor <== implemented by ==  TaskQueue    <- MCTaskQueue, TaskQueue_proofs
                                      TaskTimer    <- MCTaskTimer, TaskTimer_proofs
TraaApi (each queue incarnation a SerialExecutor with an engine)   <- TraaApi_proofs
CapturePipeline (the chain, both capturers, frames)  <- MCCapturePipeline, CapturePipeline_proofs
DxgiDuplication (below the directx capturer)         <- MCDxgiDuplication, DxgiDuplication_proofs
SckCapturer                                          <- MCSckCapturer, SckCapturer_proofs
DesktopRegion  <-  RegionOps                        <- MCRegionOps, RegionOps_proofs
```

`MC` modules hold the instances of the runs. Some definitions are followed or preceded by
a variant whose name carries a suffix (`Dispatch_FromNow`, `Put_Kept`, ...) under a
comment that begins with "Slip:". They are plausible bugs, used by no specification;
putting one in the place of the real definition makes the property it is paired with fail,
which shows that the property depends on that piece of code (`mutants` in `PROJECT.json`).

### 2.1 FutureState and Completion

One `_fassoc_state`: the promise inside a packaged task on one side and any number of
`fshared_future` handles on the other, one thread each. A critical section under `__mut_`
is one action; `valid()` and the test in `~fpromise` are reads outside it and so are
actions of their own. Waiting is explicit (`copy_blocked`, `wait_until_blocked`), with
notification, spurious wakeups and the deadline as separate steps. `owners` is
`__shared_owners_`, which starts at 0 for a reference that nobody adds and counts -1 when
the state is deleted.

| Code | Model |
|---|---|
| `__state_` bits | `bits` |
| `__shared_owners_` | `owners`; deletion is `freed` |
| `~fpromise` (ffuture.h 1239) | `DestroyPromise`, then `MakeAbandoned` or not, then `ReleasePromise` |
| `set_value` of the packaged task | `SetValue` |
| `waitable_future::get`, `get_for`, `wait_for` and their `_until` forms | `Call`, then `Copy` or `WaitUntil` |
| `__make_ready`, `__make_abandoned` | `NotifyAll` |

`Completion` is what a caller may rely on: a decision made once, seen alike by all,
timeouts only before it. `OneResultForAll` is `Completion!Spec` under the mapping that
reads the decision off the bits and translates the statuses.

Left out: the deferred and async states (no factory for them in the repository) and the
payload. `set_exception` has no caller.

### 2.2 TaskQueue and SerialExecutor

One queue, its thread, clients that post, and a manager thread inside `shutdown()` or
`release_queue()`. Who holds a `shared_ptr` is the set `refs`; `lock_` is held exclusively
from the manager's call to its return (`LockedPoints`). The write of `enqueue` to `tasks_`
begins and ends in separate steps because on the queue's own thread it does not take
`tasks_mutex_`; a race is two threads inside at once.

A client posts and has its future at once; it may go on to post the next task before any
is answered, with the reference it has (`PostAgain`) or by the id. Waiting for an answer
is the business of `FutureState`.

How the queue is *used* is a parameter (`Scenarios`): with or without the TLS key that
`task_queue_manager::init` allocates, by clients that post throughout or only the first
task (`once`), with tasks that post to their own queue through `post_task(f)` or
`post_task(id, f)`, and with `shutdown`, `release_queue`, both or neither.

| Code | Model |
|---|---|
| `post_task` (get_task_queue, enqueue, destruction of the temporary) | `GetTaskQueue`, `BeginEmplace`, `EndEmplace`, `Post`, `DropRef` |
| `enqueue` again on a queue that is held | `PostAgain` |
| `io_context::run`, `__execute` | `Dispatch`, `Execute`, `FinishTask` |
| the end of the thread function (219-228) | `Exit` |
| `shutdown`, `release_queue` | `Shutdown` or `ReleaseQueue`, `Stop`, `Join`, `ClearMap` |
| `~task_queue` on whatever thread | the same `Stop` and `Join` from `dtor`, then `Destroy` |

Several queues share nothing but `lock_`; one stands for all.

### 2.3 TaskTimer

Any number of timers on one queue. The clock counts ticks finer than the milliseconds the
timers are set in, so that the truncation in `enqueue_at` is visible. The asio part is
external, modelled from how the code uses it: a due timer's handler *joins* the ready
handlers of the context (`Expire`), and `cancel()` can turn only a handler that has not
joined them into one that gets an error (`Stop`). A repeating timer sets its next expiry
from the last *before* it runs the task (`Dispatch`), and waits again when the task
returns (`TaskReturns`), whether or not it was stopped meanwhile.

`cancel()` on one thread and `expires_at`/`async_wait` on the other touch one
`steady_timer`, which asio does not declare safe; the model gives such an overlap the
outcome of one order or the other. Whether a timer may outlive its queue is the
application's choice, since the library keeps no timer; the model ends the use of timers
with the queue.

### 2.4 TraaApi

Threads make the public calls in any order and at the same time. Since every `traa_init`
may make a new main queue, the queue is a function of its *incarnation*, and each
incarnation is what `TaskQueue` is shown to implement, a serial executor, together with
`g_engine_instance` of its thread. `traa_init` is the composition the code makes of
`is_task_queue_exist`, `create_queue`, `post_task(...).get` and, on failure,
`release_queue`, each under its own acquisition of `lock_`. References are kept exactly:
the map's, and the temporaries of `create_queue` and `post_task`, because the last one to
go joins the thread. `engine::init`'s own result and the log settings of `traa_init` have
no influence on the control and are left out; `traa_enum_device_info` and
`traa_free_device_info` differ from `traa_set_event_handler` only in the engine's method.

`disciplined` says whether the application keeps to two rules: it uses the engine only
after a `traa_init` of its own has succeeded, and it calls `traa_release` only when no
other call is in progress. Both kinds of application are checked in one run.

### 2.5 CapturePipeline

One `capture_frame` through the whole chain, a stage per action; what the screens show may
change between two stages. A picture is a function from the blocks of the resolution to
two colours, so that a block that changes twice can look as it did before.

| Code | Model |
|---|---|
| `fallback_desktop_capturer_wrapper::capture_frame` | `MainTurn`, `GdiTurn` |
| `screen_capturer_win_directx::capture_frame` | `CaptureMain`, `FailMain` (with or without blocks drawn already) |
| `blank_detector_..::on_capture_result` | `BlankDetector`: `PassOn` or `Judge` |
| `fallback_..::on_capture_result` | `Fallback`: on to the differ or to gdi, permanent errors kept |
| `screen_capturer_win_gdi::capture_frame`, `display_configuration_monitor::is_changed` | `CaptureGdi`, `FailGdi`, `is_changed`, `See` |
| `screen_capture_frame_queue`, `shared_desktop_frame` | `NextSlot`, `Put`: drawn in place where the differ may hold the buffer, or into a new one |
| `desktop_capturer_differ_wrapper::on_capture_result`, `compare_frames` | `DifferNull`, `DifferFrame` |
| `fallback_..::select_source` | `SelectSource(s, mainOk, gdiOk)` |

`dirty[m]` is what the directx duplication owes main buffer `m`, the conclusion of
`DxgiDuplication`. `view` is not in the code: it is the picture of an application that
applies nothing but the updated regions, and `gap` tells of the three things after which
the code does not keep the regions right (finding 3 and section 3). Which kinds of
failure, selection and display change happen is a parameter (`Scenarios`). A capturer
without a screen to select or with the magnifier in place of gdi is not modelled.

### 2.6 DxgiDuplication

The controller below directx: any number of frames (each capturer has two), outputs in
order, one capture at a time under `mutex_`. What a block of a buffer shows is reduced to
whether it is what its output presented when last acquired (`wrong`), and whether an
updated region has told of it (`news`). `Begin` is `do_duplicate` up to
`ensure_frame_captured` with the reinitialisation and the setup of the context;
`Duplicate` is one call on one output, of `ensure_frame_captured` (`phase = "ensure"`, all
outputs in rounds) or of the target; `DuplicateFails`, `TimedOut`, `PrepareFails` and
`InitializationFailed` are the error paths with their `deinitialize`. A frame for a
monitor that is gone (`Absent`) has no size, so that no output is acquired for it; its
capture ends as `InvalidMonitor`, which keeps the duplicators and the context it has set
up. Outputs spread a new change to every other registered context (`NewFrame`) or repeat
from `last_frame_` what the context is owed (`NoChange`).

`prepare()` may reset a context under `mutex_`, which the context's destructor locks
again. C++ leaves a second lock of a `std::mutex` by one thread undefined; the outcome
modelled is that of the compiler this code is built with, whose mutex counts. Where blocks
lie in a frame, rotation and textures are abstracted; rotation is in `DesktopRegion`.

### 2.7 SckCapturer

The capturer of macOS: the caller's thread and the handlers of the shareable content, of
samples and of the start of the stream. The first two come through `sck_helper`, whose
`_capturer_lock` is `holder`; the third holds no lock, and the destructor cancels it if
the stream has been started. Each acquisition of `lock_` and `latest_frame_lock_` is one
action, so that choosing a display and reconfiguring the stream (`ChooseDisplay`, then
`UpdateStream`) are two, and so are judging a sample and storing it (`SampleArrives`,
`StoreSample`). The making of a stream is an exception: the destructor reads `stream_`
without `lock_`, so the assignment (`MakeStream`), its withdrawal (`AddOutputFails`) and
the start (`StartStream`) are steps of their own, with `making` between them, during which
only those who take `lock_` are kept out. A stream that is stopped before it is started
is started all the same.

A sample shows either of two pictures. After a configuration the old display may send some
more samples (`Arriving`); the rectangles attached to the first sample of the new one say
anything, those of any other whether it differs from the one before (`Attached`, external,
from the comment at `screen_capturer_sck.mm:303`). That is so for any configuration, also
one of the same display, and displays may have the same size.

History variables remember what the properties make exceptions of: `asked`, a selection
that comes between `start()` and the stream, which the code may drop (`:192`); `lost`, a
surface that could not be locked, or a first sample with wrong rectangles and the size of
the latest frame (`Misled`), both until a sample is taken again; `early`, a destructor
that begins while a stream is `Due`: asked for, perhaps made, and not started.

### 2.8 DesktopRegion and RegionOps

The region operations, translated from their loops over rows and spans (with the binary
searches as `LowerBound`), and those built on them: `expand_to_grid` and
`take_invalid_region`, `rotate_rect`, `compare_frames` with its block rows. `RegionOps` is
a region on which they are called in any order, beside the set of pixels that set algebra
gives. A loop of the code is a function on the states of its walk (`AddWalk`,
`SubtractWalk`, `IterWalk`, ...): what is left to do and what has been put out, with one
operator for one turn (`AddToRow`, `SubtractRow`, `Advance`, ...), so that TLC can run it
and a proof can reason turn by turn. The iterators of the code are the split between the
rows before and those from the iterator on. The lock of the invalid region is not told
apart, and the size of the last frame is given.

---

## 3. The runs

| Run | Instance | Distinct states | Shows |
|---|---|---|---|
| `future_state` | 3 handles | 201,779 | the future's promises |
| `task_queue` | 2 clients, 4 tasks, 3 scenarios | 49,834 | the queue's promises in three ways of use |
| `task_timer` | 2 timers, 5 kinds of request, clock to 5 | 488,564 | the timers' promises |
| `task_timer_stop` | 1 repeating timer, clock to 6 | violation | `StopStopsTheTimer`, finding 1 |
| `traa_api` | 3 threads, 4 calls, disciplined or not | 285,155 | the API's promises |
| `traa_api_engine` | the same, undisciplined | violation | `EngineThereWhenUsed`, finding 2 |
| `capture_pipeline` | 2 screens, 2 resolutions of a block, 3 mixes of events | 2,553,592 | the chain's promises |
| `capture_region` | as above, one failing capturer | violation | `RegionCoversChanges`, finding 3 |
| `dxgi_duplication` | 2 outputs, 2 frames of the desktop, 1 of a monitor, 1 of none | 726,692 | the controller's promises |
| `sck_capturer` | 3 displays, 2 of one size, 2 requests in flight | 1,221,992 | the capturer's promises |
| `desktop_region` | 3x3, 5x1 and 1x5 screens, all regions and arguments | 672 | region operations against sets |
| `region_equals` | the same | violation | `EqualsIsSameArea`, finding 4 |

**future_state.** `CountMatchesHolders` and `FreedExactlyWhenUnheld` tie the counter to
the objects; `NoLostWakeup` says a blocked thread still has a promise before it that has
to settle; `OneResultForAll` is the refinement; `EveryCallReturns` needs fairness.
*Bounds*: three handles are one that is copied, one that waits and one that is dropped at
any moment; the promise's path is finite. Deadlock checking is off because everybody may
be done.

**task_queue.** `HandlersMatchTasks` relates the two queues that the code keeps apart
(closures and handlers); `TasksUnderMutex`, `NoUseAfterDestroy` and
`ShutdownStopsExecution` are about the end; `ServesInOrder` is the refinement of
`SerialExecutor`; `EveryTaskSettled` and `EndingReturns` are the promises that waiters and
`lock_` depend on. *Bounds*: two clients let one post while the other drops the last
reference; four tasks let one run, two be queued and posted at once by one client, and one
arrive after the stop. How the queue is used is one of three ways: `AsInTraa`, without a
TLS key and with clients that post whenever they like, as the library does; `AsKickedOff`,
with the key, where a client posts one task and tasks post all the others (the use of
`post_task(f)` in `task_queue_unittest.cc`); and `AsPostingByIdAlive`, where tasks and
clients post by the id of a queue that nobody ends. Outside of these the properties fail,
see "Other disagreements" below. The system ends, so deadlock is not checked.

**task_timer.** `NoDrift`: deadlines are the first one plus whole intervals. `NeverEarly`:
the bound is open by less than one millisecond, which is what `enqueue_at` cuts off; the
time points in `Asked` lie between two milliseconds and in the past. `FoundStopIsFinal` is
an action property. `EveryPeriodServed`: overrun periods are caught up, not dropped.
*Bounds*: two timers compete for the queue's thread; two ticks per millisecond make
half-millisecond points; five ticks hold two periods of the shorter interval and an
overrun. The clock ends at its bound, so deadlock is not checked.

**traa_api.** `NoOrphanQueue`, `MainQueueRuns`, `EveryCallReturns` hold for any
application; `DisciplinedUseIsSafe` for a disciplined one. *Bounds*: finding 2 needs two
threads, and the loss of a `traa_init` (below) three; four calls let an incarnation be
made, released, and made again while a call from before is still under way. The calls run
out, so deadlock is not checked.

**capture_pipeline.** `ViewFollowsFrames`: as long as `gap` is not set, the regions are
right whatever buffers were drawn over, resolutions changed, frames held back as blank or
capturers taken turns. `gap` is set by a capture that ends without a frame, by directx
moving to another screen, and by directx and gdi being on different screens (one refused
the selection); the differ clears it when it starts over with a frame of another size.
`BlankFramesHeld`: the cached verdict lets no black frame of directx through before a lit
one was captured. `SelectedIsDelivered`: also after refusals and the switch to gdi.
*Bounds*: one block per resolution, so that a screen is black or lit; two resolutions; the
events in three mixes, since all at once make a state space that adds nothing the mixes do
not reach in pairs. What depends on several blocks is left to the proofs. The two screens
are symmetric.

**dxgi_duplication.** `DeliveredIsCurrent`, `RegionCoversFrame`, and `EveryCaptureReturns`
under fairness. *Bounds*: two outputs let a capture fail between them; two frames of one
capturer alternate while a third, of one monitor, takes changes away and a fourth, of a
monitor that is gone, has a context and is never drawn; one block per output; two rounds
stand for the timeout's many, two skipped frames for five.

**sck_capturer.** `RegionTellsOfChange`, `LatestIsShown`, `SelectionFollowed`,
`EndIsQuiet`. The first says that a frame without an updated region shows no change. The
second holds for displays of any sizes and after any number of configurations, but for
what `lost` names; the last says that the start of the stream reports to a destroyed
capturer only if the stream was `Due` when the destructor began. *Bounds*: two requests in
flight are the one of `start` and one that a selection adds; of three displays the first
is the fallback, the two others have the same size and either may be gone.

**desktop_region.** `AreaIsExact` and `IteratorIsPartition` over all regions of the
screens that can be reached and every argument. *Bounds*: three rows hold a row that is
skipped, split or joined on both sides; a line of five holds three spans with gaps, and
turned by 90 degrees three rows with gaps. The 1,146,711 generated states are the
region-argument pairs; few are distinct because most results coincide. For other screens,
coordinates, grids and regions of any number of rows and spans, the theorems of
`RegionOps_proofs` say the same.

### Findings

The violation runs are disagreements between the code and what its comments or tests say.

1. `tq.h:117`: a `stop()` that comes while the handler is ready, or from the task itself,
   does not stop a repeating timer: it goes on for ever.
2. `traa.cc:110`: another thread's call may be executed before the engine is made; the
   header says the functions are thread-safe.
3. `desktop_capturer_differ_wrapper.cc:189`: the gdi capturer moves its frame queue on
   before anything that can fail. After one failed capture the next draws into the buffer
   the differ holds as its last frame, which is then compared with itself: nothing has
   changed.
4. `desktop_region.cc:285`: `subtract` inserts a row that it splits off without merging it
   with the one before, so two regions of the same pixels differ for `equals()`.

### Other disagreements

Met while modelling, and reproducible by giving the modules another instance:

- `tq.h:337`: with a TLS key, a task that posts to its own queue writes `tasks_` without
  `tasks_mutex_` while a client writes under it, though the comment at `tq.h:441` calls it
  "The mutex to protect the task queue" (`TasksUnderMutex`). One client is enough: with
  `[AsKickedOff EXCEPT !.once = FALSE]` and three tasks TLC has it post a task, and post
  again while that one runs and posts. `traa_init` does not allocate the key, so the
  public API does not meet it.
- `tq.h:682`: after `release_queue` has dropped the last reference,
  `get_current_task_queue` in the task still running throws `bad_weak_ptr`, where its
  comment promises the queue.
- `tq.h:519`: `shutdown()` joins under `lock_` a thread whose task waits for `lock_`, if a
  task posts by the id of its queue (`EndingReturns`).
- `traa.cc:85`: the failure path of `traa_init` releases the main queue by its id, which
  by then may be the queue of another thread's successful `traa_init` (`InitStands`
  without discipline).
- `screen_capturer_sck.mm:192`: a selection between `start()` and the stream being there
  is not followed, if the handler has chosen its display already (`SelectionFollowed`
  without `asked`).
- `screen_capturer_sck.mm:275`: "It should be safe to access `this` here" is not so if the
  destructor runs while the stream is being made: it reads `stream_` without `lock_`,
  stops a stream that is not started yet, or none, and the handler of the start that
  follows is not cancelled. An error then is written into the destroyed object
  (`EndIsQuiet` without `early`).
- `screen_capturer_sck.mm:306`: a reconfiguration that keeps the size and comes with wrong
  rectangles leaves the old picture until the next change (`LatestIsShown` without
  `Misled`).
- `dxgi_duplicator_controller.cc:441`: the size of the target is compared with a
  default-constructed one, so that the fallback frame made for small targets is never
  used.

### Fairness

Weak fairness, and only of what the system's scheduling provides: a thread that is inside
a call is scheduled (`CallStep`, `ClientStep`, `ManagerStep`), the queue's thread is
scheduled and its tasks return (`WorkerStep`, `QueueStep`), a closure is run or destroyed
in the end (`PromiseStep`), the clock advances (`Tick`), the thread inside `do_duplicate`
goes on (`Capture` of `DxgiDuplication`). Nobody is obliged to make a call, to drop a
handle, to stop a timer, to draw, or to shut anything down. No strong fairness is assumed
of `lock_`: the number of calls is bounded, so a waiter cannot be overtaken for ever; with
unboundedly many calls it would take a fair lock, which the code's read-write lock does
not promise. In `TaskTimer` a clock bounded by `MaxTime` lets every period up to the bound
be served. `CapturePipeline`, `SckCapturer` and `RegionOps` state no liveness: a capture
there is one call that goes straight through, and the code promises no answer of the
system.

---

## 4. The proofs

All are about the specifications the runs check, for every value of the constants under
the named assumptions of each module, which TLC evaluates in the runs.

**FutureState_proofs** (`HandlesAssumption`: `Handles` is finite and not empty). The
inductive invariant is `IInv == TypeOK /\ CountMatchesHolders /\ FreedExactlyWhenUnheld /\
NoLostWakeup /\ PromiseTellsBits`. The first four are not inductive: the step that matters
is `~fpromise`, which skips the abandonment when it sees a use count of one. That this
leaves nobody behind rests on `PromiseTellsBits`: what each point of the promise says
about the bits, and that a promise gone without settling leaves no handle. Counting
handles uses `FiniteSetTheorems` in three lemmas (a set that stays, gains or loses one).
`Refinement` shows `Spec => OneResultForAll` from the same invariant, one step per action,
each mapped to `Settle`, `Observe`, `GiveUp` or a stutter.

**TaskTimer_proofs** (`TaskTimerAssumption`: a millisecond is a positive number of ticks;
the arguments of `enqueue_after` and `enqueue_repeatly` are whole milliseconds, of either
sign, as their type says). `IInv == TypeOK /\ NoDrift /\ NeverEarly /\ Timing`; `Timing`
adds that a timer has not run before it is made, that no timer's expiry is a whole
millisecond early, and that a handler without an error belongs to a timer whose time has
come, which is what carries `NeverEarly` over `Dispatch`. `FoundStopCorrect` proves the
action property `FoundStopIsFinal` from a second invariant, `Found`: the only handler of a
timer whose wait was cancelled is the one with the error.

**TaskQueue_proofs** (and the hypothesis `Plain`: tasks do not post to the queue that runs
them, as in the library; with it the theorems hold for any number of clients and tasks and
any way of ending). The invariant says who owns what at which point: references by program
point and one thread in the destructor (`RefInv`), a stopped queue has been joined or
somebody is about to (`StopInv`), the mutex by whoever writes (`MutexInv`), a task not yet
emplaced in the hands of one thread (`TaskInv`), and the two containers in step.
`NoUseAfterDestroy`, `ShutdownStopsExecution`, `TasksUnderMutex` and `HandlersMatchTasks`
follow, and `Spec => ServesInOrder` maps every step to one of `SerialExecutor` or a
stutter; that a closure emplaced last is accepted last is the part that needs the mutex.

**TraaApi_proofs** (any finite set of threads, any number of calls). `IInv == Type /\
Counted /\ Refs /\ Locking /\ Life /\ MainQueueRuns /\ NoOrphanQueue`. `Counted` bounds
the queues ever made by the calls that have begun; `Refs` says where a thread holds a
reference and that nobody else does while it runs the destructor; `Life` follows a queue
from stop to the end of its thread: one that is stopped and no longer in the map has ended
or is being joined. `DisciplinedUseIsSafe` needs two more layers. `Posted`: a task is in
one place of one queue and its poster waits for it. `Orderly`: an application that keeps
to the discipline is alone in `traa_release`, its calls have to do with the queue in the
map and no other, which answers them, and the engine of that queue is there once a
`traa_init` was told so.

**CapturePipeline_proofs** (any screens, resolutions, blocks and sampled blocks). Nine
parts: the types, where a frame on its way comes from (`OriginInv`), what was selected
(`SelectedInv`), what the detector lets through (`BlankInv`), sizes of buffers and of the
last frame (`BufferInv`, `HandedInv`), the buffer being delivered is the one its queue has
come to (`FrameInv`), and `LastInv`, the heart: without a gap the differ's last frame is
what the application has, the capturers will not draw over it before they have drawn
elsewhere, and what directx does not report is as in that frame. With several blocks the
proof shows what the one-block runs cannot: a screen that gdi has refused and directx has
accepted makes `gap` necessary, since the differ then compares frames of two screens by
the hints of one.

**DxgiDuplication_proofs** (any frames, outputs and blocks). `OwedInv`: a context owes its
frame every block that is wrong in the buffer; `LastInv`: the last frame of an output
shows what it presents; `CallInv`: of a capture in progress the outputs before `at` are
done with. One lemma, `Drawn`, says what `duplicate` does to the blocks of all frames, and
both action properties follow block by block.

**SckCapturer_proofs** (any displays, of any sizes, and any bound on requests). `KitInv`:
who holds the locks while a stream is made, and that a stream never started has sent
nothing; `RegionInv`: an unmarked latest frame is the one the caller has; `ShownInv`: the
latest frame is the last sample unless something is `lost`; `FollowInv`: where a selection
that the stream does not follow yet is on its way; `EndInv`: if the destructor did not
begin early, no start is open from then on and no stream is due.

**RegionOps_proofs** (`RegionAssumption`: screens have an area and blocks a width;
`ArgumentsAssumption`: the regions passed as arguments are regions). The inductive
invariant is `RegionInv == TypeOK /\ AreaIsExact`, and neither half is inductive alone:
`TypeOK` says that rows and spans are in order with gaps between the spans, which the
binary searches and the walks rely on to hit the right pixels. Each action of `RegionOps`
has a step, and each step rests on a theorem about its operation, for all regions:
`AddRectExact`, `AddRegionExact`, `IntersectExact`, `SubtractExact`, `TranslateExact`,
`TakeInvalidExact`, `RotateExact`, `CompareFramesExact`. They say of every pixel `<<x, y>>`
whether it is on the result (`On`), and that the result is a region. Their argument, from
the bottom up:

- *Loops.* The library's induction theorems are out of the provers' reach, but its theorem
  `WFMin`, that a well-founded relation has minimal elements, is not. From it follow
  `LeastNat` (a set of numbers has a least one), `LoopExists` (a function that calls itself
  on its next state exists if each state leads to an end) and `LoopInvariant`: an invariant
  that every turn keeps while a measure falls holds of the result (`LoopInvariantPair` with
  two measures, for the iterator). Each loop gets its measure, for instance the spans left
  in both sets, or, for `add_rect`, the rows left and the gaps above them.
- *Spans.* `AddSpanExact`, `IntersectRowsExact`, `SubtractRowsExact`: one row.
- *Rows.* The invariant of each walk relates the rows before, the rows from the iterator on
  and what has not been inserted or subtracted yet to the pixels wanted at the end. That of
  `subtract` says where `top` may stand, the point that its mutant breaks; merging a row
  with the one before it is shown to change no pixel (`PushFacts`), and so is leaving two
  such rows apart, which `subtract` does (finding 4).
- *Iteration.* A `Tile` is a rectangle as wide as a longest run of pixels and as high as
  the run goes on; it is defined by the pixels alone. `IterateExact`: the iterator hands
  out exactly the tiles, from the top and from the left. `IteratePartition` and
  `IterateCanonical` follow: no pixel is left out or copied twice, and two regions that
  `equals` tells apart only for their rows are copied in the same rectangles.
- *Grid, rotation, comparison.* The grid is floor division by any block size; a turn is
  undone by the turn back; a line of blocks has the columns of the blocks in which a pixel
  differs (`CompareRowExact`), the last block cut short included.

So what the runs check on screens of a few pixels holds of all; what the proofs leave out
is the width of the code's integers, which the coordinates of screens do not exhaust.

Only model-checked: liveness (`EveryCallReturns`, `EveryTaskSettled`, `EndingReturns`,
`EveryPeriodServed`, `EveryCaptureReturns`), which is out of the prover's reach as
everything is that rests on fairness and ENABLED; and what the four violation runs refute.

---

## 5. What could follow

- The WGC session: its frame queue, the damage region of a frame that cannot be mapped
  (`wgc_capture_session.cc:420`), the item that closes while frames are pending.
- The cropping window capturer's choice between the screen and the window capturer.
- `CapturePipeline` with `DxgiDuplication` in place of `dirty`, as a refinement.

---

## 6. What is not modelled, and why

- *External code*: `asio`, the clock, the condition variable, ScreenCaptureKit, DXGI and
  GDI calls, by how the code uses them.
- *Weak callbacks*: the engine derives from `support_weak_callback`, but only the unit
  test makes callbacks of an object; no use of one on two threads can be read off the
  code.
- *WGC sessions*: their event handlers run on the capturing thread's dispatcher queue, so
  that they are sequential; the one hazard met there is listed.
- *Window, cropping, CoreGraphics, X11 and magnifier capturers, enumeration and
  snapshots*: calls into the window system on one thread, with little state between two
  calls.
- *Shared X display, metrics*: a map under one lock, or used on one thread.
- *Pure conversions*: strings, numerics, logging, registry, geometry helpers without
  loops.
- *Data*: task closures, payloads, engine methods, log settings, cursor shapes, DPI; no
  property tells them apart.
- *Counter widths*: the reference count and task ids do not come near their limits in any
  use the library makes of them; coordinates are those of screens.

The definitions stand for about 2,500 lines of a repository of 39,000. Of the rest the
larger part is unit tests, portability macros (`hedley.h`), enumeration of windows,
displays and registry keys, and wrappers around native calls, in which no two steps of the
program's own come after one another.
