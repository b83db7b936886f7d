# Verification of rk3588-cpp-edge-vision-nvr-lite

TLA+ models of the program in `src/`, TLC runs that check them, and theorems
that TLAPS proves about them. `PROJECT.json` lists components, runs, mutants,
hazards, findings and theorems, and maps each definition to the lines it stands
for. Paths below are relative to `src/`.

## The system

One process, several threads, connected by bounded queues:

    capture thread -> frame queue -> 1..3 inference workers -> result queue
        -> render thread -> latest JPEG  -> HTTP client threads (MJPEG)
                         -> event queue  -> event thread -> images, events.jsonl
                         -> SystemStats  -> HTTP client threads (JSON)
    main: start everything, poll, stop in order, print the final stats

| Component | State | Operations | Interacts with |
|---|---|---|---|
| `BoundedQueue<T>` (`include/utils.hpp`) | deque, limit, drop counter, mutex, condition variable | `pushDropOldest`, `popWait`, `size`, `dropped`, `notifyAll` | every stage of the pipeline |
| `VideoPipeline` (`src/video_pipeline.cpp`) | `running_`, two queues; `frame_id` of the capture thread; `pending` and `next_id` of the render thread | `start`, `captureLoop`, `inferenceLoop`, `renderLoop`, `stop` | all of them |
| capture source | the `cv::VideoCapture` | open, read, rewind, release | a file, a camera or an RTSP stream |
| `SystemStats` (`src/system_stats.cpp`) | counters under one mutex | `recordFrame`, `recordWorker`, `addEvents`, `setQueues`, `toJson`, `frameCount` | fed by every pipeline thread, read by clients and main |
| `EventManager` (`src/event_manager.cpp`) | queue of 32, `recent_`, the event directory | `submit`, `loop`, `remember`, `recentEventsJson`, `stop` | render thread, HTTP clients, the disk |
| `MjpegServer` on `httplib::Server` | two `running_` flags, `server_fd_`, `latest_jpeg_` | `start`, `listen`, `handleClient`, the stream, `updateFrame`, `stop` | render thread, browsers, main |
| `RknnDetector` (`src/rknn_detector.cpp`) | one RKNN context per worker, `available_` | `init`, `detect`, destructor | workers, the NPU runtime |
| YOLO postprocess (`src/yolo_postprocess.cpp`) | none | `letterbox`, `postprocessYoloViews`, `nmsDetections` | the detector, once per frame |
| configuration (`src/config.cpp`) | `Config`, `CliOptions` | `parseArgs`, `loadConfig`, `applyCliOverrides` | main |
| `main`, signal handler | `g_running`, the objects on its stack | start, poll, stop, destroy | everything |
| mock detector, MQTT placeholder, utilities, web UI, scripts | none, or none that others read | | |

What is hard about it, and where: a `notifyAll` outside the mutex and a
`running_` that is cleared without notifying (shutdown); workers that finish
out of order over queues that drop (ordering and reorder buffer); drops and
stops at any point (accounting); counters kept by different threads
(statistics); a stream that disconnects while options shadow each other
(capture); a process that crashes between two writes, or a log that cannot
be written (events); a server thread
blocked in `accept` and a flag that two threads set (HTTP); init that fails half
way and NPU calls that fail in the middle (detector); objects on one stack used
by threads that end at different times (main); outputs of a model that are told
apart by their sizes alone (postprocess); a file format with no errors, only
lines that do nothing (configuration). The hazards in `PROJECT.json` give the
line of each.

What makes each component correct:

* queue: it holds exactly the newest items in order, counts what it evicts,
  never lets a consumer sleep beside an item, and never blocks `stop()`;
* pipeline: every captured frame is in one place and accounted for, the
  reorder buffer is bounded, frames come out in order, all threads end;
* statistics: no snapshot shows what did not happen;
* capture: frames resume after an outage; a mock run always has a picture;
* events: no record without its image, an append-only log in order, the newest
  records in `/api/events`, whole frames, across crashes and restarts;
* HTTP: `stop()` returns, streams follow the newest frame;
* detector: a worker gets the result of its own frame; nothing leaks;
* postprocess: what it reports are the objects of the picture, each once;
* configuration: what is in force is what the user wrote;
* main: a signal ends it, and no thread it joins outlives what it uses.

## Modules

| Module | Models |
|---|---|
| `DropOldest` | the data operation of `BoundedQueue`: append, evicting the front at the limit, and the drop count |
| `DropOldestWindow` | abstract specification of the queue: a window `lo+1 .. hi` over the numbered pushes |
| `BoundedQueue` | the queue at the grain of its mutex and condition variable, with producers, consumers and the owner's `stop()` |
| `VideoPipeline` | the threads of the pipeline; queue operations are single steps, which `BoundedQueue` justifies |
| `PipelineStats` | `VideoPipeline` composed with `SystemStats` and `updateQueueStats` |
| `CaptureSource` | `captureLoop` and `openCapture` against a source that behaves |
| `EventManager` | submissions, the event thread, the disk, crash and restart |
| `HttpServer` | the server thread, client threads, the listening socket and `stop()` |
| `RknnDetector` | `init`, `detect` call by call, and the destructor, over the RKNN contexts |
| `ConfigFile` | command line, configuration file, overrides, and what the user meant by them |
| `Nvr` | `main` from its arguments to its exit, over `ConfigFile` and `HttpServer` |
| `Letterbox` | fitting a picture into the network's input, in exact fractions |
| `Nms` | non-maximum suppression, one iteration of the outer loop per step |
| `YoloHeads` | pairing the heads of a model, the layouts of the fallback, and what each reading yields |
| `YoloPostprocess` | `postprocessYoloViews` over these three |
| `DropOldestProofs`, `BoundedQueueProofs`, `VideoPipelineProofs`, `PipelineStatsProofs`, `EventManagerProofs`, `RknnDetectorProofs`, `YoloProofs`, `NvrProofs` | theorems |
| `MC*` | instances for TLC; a `.cfg` file gives the bounds |

How state and actions correspond to code:

* **BoundedQueue.** `pushDropOldest` is one critical section and one action.
  `popWait` is `Decide` (the predicate is false, the mutex is held), `Block`
  (`wait_for` sleeps and releases the mutex at once), `Timeout`,
  `SpuriousWakeup` or a notification, and then `Take` or `GiveUp`. `holder`
  exists to let `notifyAll` and the owner's `running` change between `Decide`
  and `Block`, which the code allows because neither takes the mutex. Items
  are numbered by the push that added them; `pushed`, `popped` and `last` are
  history.
* **VideoPipeline.** A frame is its id. Each loop is cut where it reads
  `running_` and where it hands something to another thread. `popWait` may time
  out whenever its queue is empty. Opening and reading the source may succeed
  or fail at any time. `RenderTake` and `RenderHold` are one iteration of
  `renderLoop` up to its choice of a frame; `RenderShow` is everything it does
  with that frame, up to the benchmark's test.
* **PipelineStats.** Every read of a queue in `updateQueueStats`, `setQueues`,
  `recordWorker` and `recordFrame` is a step, because each takes its own mutex.
  The order of the reads is free, as C++ leaves the evaluation order of
  arguments to the compiler.
* **CaptureSource.** `setup` is chosen in the initial state, so that one run
  covers the combinations of source and options. A live session that is lost
  stays lost until the capture is released; rewinding does nothing to it.
* **EventManager.** A frame is its run and number, a record the frame and the
  index of a detection. `images` and `log` are on disk and survive a crash;
  `buffer` is what the `std::ofstream` has not yet written. A record and the
  newline after it are two calls on the stream, which may write out what it
  holds between them. `log_open` is the `log` of `if (log)`, tested for each
  detection. The write behind `log <<` may fail (`SpillFails`) and so may the
  flush of the destructor (`CloseFails`), having written any first part of what
  they were given (`CutShort`), the beginning of a record included. After
  `SpillFails` the rest of the frame is remembered and not logged, and, as
  libstdc++ has it, the stream keeps what it held before the failing call and
  writes that again when it is closed, so a record may be in the log torn and
  then whole, or twice. A crash inside a write is such a failure followed by
  `Crash`. `cuts` is history: where a write failed, and of which frame. File
  names hold the time in milliseconds and the frame
  id; they are taken to differ between runs. A process that is down already has
  the memory of the next one, so that what it held makes no states.
* **HttpServer.** Two flags, the known and the open descriptor, and the state
  of the socket in the kernel. `accept` on a closed descriptor fails, a blocked
  `accept` is woken by `shutdown` only.
* **RknnDetector.** Each of `rknn_inputs_set`, `rknn_run`, `rknn_outputs_get`
  and `rknn_outputs_release` is a step, on the context `worker_id %
  contexts.size()`; the first three may fail.
* **ConfigFile.** A line is blank, bare (no colon) or a pair; a pair with an
  empty value is a line that ends in a colon, which the parser takes for a
  section. The parser trims every line, so it does not see whether a pair was
  indented; what the user meant does depend on it: a section is a name at the
  margin, an indented name is a key, as in `config.yaml`. The two disagree where
  a key is left empty, so `ConfigAsWritten` is about the files in which none is
  (`KeysHaveValues`); see the divergences below. One key of each kind stands for the others of its kind. `Effective`
  says what the user meant without a parser: the last setting under the nearest
  header, the command line first. Which words of a command line are options and
  which are their values is read off the runs of options before them
  (`OptionPlaces`); of an option given twice the last counts, so
  `--port 9 --port 0` overrides nothing. `CommandLine` says how the words end:
  in a configuration, in the help text, or in the exception of a `--port`
  without a number, whichever comes first.
* **Nvr.** `phase` is main's statement and `alive` its stack. Each early return
  goes to `unwind`, where objects are destroyed from the newest; the server's
  destructor is `HttpServer`'s `stop()`, step by step. The pipeline's threads
  and the event thread are a state each: that they end once told to is checked
  in `VideoPipeline` and `EventManager`.
* **YoloHeads, YoloPostprocess.** A tensor is its dims and what it holds: boxes,
  classes, scores or decoded rows, at one scale. The program sees only the
  dims. The objects the network sees are the input; reading a tensor as what it
  is yields them, reading it as something else may yield a stray detection,
  anywhere. Detections are ordered by confidence, in any order if equal, and
  `removed` and `kept` are the vectors of `nmsDetections`.
* **Letterbox.** Sizes are integers and `scale` is a fraction; `round` and the
  integer division are what they are in C++.

## Runs

| Run | Instance | States | Asks |
|---|---|---|---|
| `BoundedQueue` | 3 consumers, limit 2, 4 pushes | 23 k | does the queue keep its promises, and implement `DropOldestWindow`? |
| `VideoPipeline` | 2 workers, queues of 2, 4 frames, mock | 56 k | are frames accounted for, the buffer bounded, and does every thread end? |
| `VideoPipelineOrder` | 2 workers, queues of 2, 5 frames | | is rendering ordered? **No**, see findings |
| `PipelineStats` | 1 worker, queues of 1, 3 frames, benchmark of 2 | 6.2 M | are the statistics sound in every snapshot, and a benchmark exact? |
| `EventManager` | 2 runs of 3 and 1 frames of up to 2 detections, one frame whose writes may fail, queue of 2, 2 recent records | 711 k | do log, images, API and queue agree, crashes, failed writes and half-written lines included? |
| `Nvr` | every file of up to 4 lines of 9 kinds, 262 command lines, 2 clients, 2 frames | 257 k | is the configuration as written, does a signal end the process, do objects outlive their threads, are streams live? |
| `NvrEarly` | a signal before the server thread has run | | does the process exit? **No** |
| `YoloPostprocess` | 3 k inputs: head models in many orders, row models of each layout, 3 and 80 names | 23 k | are heads paired, is NMS greedy, are the scene's objects reported, does the picture fit? |
| `YoloPostprocessEmpty` | a head model and an empty scene | | is nothing reported? **No** |
| `CaptureSource` | a file of 3 frames, a stream with 2 outages, 12 setups | 2 k | do frames resume? |
| `CaptureSourceLoop` | a stream with the options of `config.yaml` | | do frames resume? **No** |
| `RknnDetector` | 3 workers (4 asked for), 4 calls | 611 k | own results, nothing leaked, nothing used after it is destroyed? |

Every property of a passing run has a mutant of a modelled definition that
breaks it; the mutated form stands before its original in the module, with a
comment that names the bug.

**Bounds.** A queue of two with three consumers has every relation the queue's
code distinguishes: empty, between, full; nobody, one or several asleep. Four
frames with two workers and queues of two allow an eviction in either queue, a
frame overtaken and a flush of the reorder buffer. Three events for a queue of
two evict, and three records for a list of two trim. A second run of one frame
appends to what a first of up to three left; one frame with failing writes can
fail in a spill and again at its close, and has frames before and behind it, in
its own run and in the next. Four lines of a configuration file are a header,
two settings and what disturbs them; three words of a command line are an
option, its value and another option, and two longer lines give an option twice.
Two clients can be in different handlers when the server stops. The postprocess
inputs take three scales of heads, as the exported model has, and scenes of up
to four objects, enough for a chain of overlaps. Three workers are the most
`start()` creates. The history counters end with the bound, so no run checks
what happens when a 64-bit counter wraps. Deadlock is not checked, since each
instance may end: the process stops, or the source falls silent at its bound.

**Fairness.** Threads are scheduled (weak fairness of each thread), timed waits
expire, and calls to `detect`, `read`, `imwrite` and `send` return. Main goes on
with a `stop()` it has begun and polls `running()`. Nothing requires a signal,
a push, a connection, an outage or a crash. A client that streams keeps reading
or is gone.

## Findings

1. **Late frames are rendered out of order** (`VideoPipelineOrder`). `README.md`
   promises an "ordered render". With two workers and `queue_size` 2, frames 1
   and 2 arrive before 0, the full buffer flushes 1, `next_id` moves on, and
   when 0 arrives and the buffer is full again it is flushed too, as
   `pending.begin()`. With one worker the order holds (theorem
   `SingleWorkerOrder`).
2. **The process may never exit** (`NvrEarly`). `listen()` stores
   `running_ = true` on the server thread. If that happens after `stop()` has
   stored `false`, the join waits for ever. It takes a main that stops at once,
   as it does when a signal came during the detector's init: the poll loop then
   does not sleep. After `listen()` has begun, a signal always ends the process
   (run `Nvr`).
3. **`loop_video` disables `reconnect`** (`CaptureSourceLoop`). The shipped
   `config.yaml` sets both; the branch for `loop_video` comes first, and a
   stream that has failed is rewound for ever. A mock run with these settings
   is left without pictures too; `MockNeverStarves` is checked for the others.
4. **An empty picture is decoded twice** (`YoloPostprocessEmpty`). A head model
   that sees nothing yields an empty list, which the caller takes for "not a
   head model": the raw outputs are decoded as rows, and their logits pass for
   scores.

More divergences are plain from the code and have no run of their own.
`updateQueueStats` reads and stores in separate critical sections, so the last
thread to store need not be the last that read, and the final statistics may
show fewer drops than there were. `use_all_cores` does not use one context
(`README.md:171`): it changes the mask of every context and not their number. A
key that is left empty ends its section (`src/config.cpp:110`), and the keys
below it are ignored without a word: `ConfigAsWritten` without its hypothesis
fails on such a file. A write to `events.jsonl` that fails is noticed by nobody:
the rest of the frame is served by `/api/events` and not logged, and the log may
hold a record torn or twice; the properties of `EventManager` say how far the
damage goes. And a head model with 16, 20, ... or 60 classes has class heads
that pass for box heads, one with 64 has no class head that differs from its box
head; the shipped model has 80.

## Proofs

For every number of consumers, workers and pushes, and every limit:

* `BoundedQueueProofs`: `TypeOK`, `HoldsTheNewest`, `EveryItemAccounted`,
  `NoLostWakeup`, and `Spec => Window!Spec`. `HoldsTheNewest` and
  `EveryItemAccounted` are inductive with the types. `NoLostWakeup` is not: one
  has to know that while a consumer is between its predicate and its sleep it
  holds the mutex, that the queue is then empty, and that nobody else is there;
  the inductive invariant adds this. A push then either finds nobody asleep or
  adds one item and one woken thread, and a woken thread that leaves takes an
  item with it or finds none. The refinement follows from `HoldsTheNewest`,
  which says that the item taken is the one after `lo`.
* `VideoPipelineProofs`: `TypeOK` and five properties over it.
  `ReorderBufferBounded`: a full buffer always has a frame to give up, the
  expected one or the least, which exists because ids are naturals
  (`FullBufferIsReady`). `FrameInOnePlace` needs one thing more to be
  inductive: no place holds the id that the capture thread gives next.
  `EveryFrameAccounted` then follows step by step, because a frame taken out of
  a place was in no other: `pending.emplace` always adds to the map.
  `BenchmarkExact` needs to know that a render thread that has not ended is
  still below the limit (`BenchmarkInv`).
  `RenderedInOrder` holds for a single worker. Its invariant `OrderInv` lays the
  places of a frame in a row (delivered, in delivery, reorder buffer, result
  queue, worker, frame queue, not yet captured) and says that each place holds
  only older frames than all the later ones, that the queues are sorted, and
  that `next_id` is no newer than any frame still to come. The one worker is
  what keeps the result queue older than the frame being inferred. No run
  checks the order for one worker: the theorem does, for every size of the
  reorder buffer, and the run `VideoPipelineOrder` shows two workers break it.
* `PipelineStatsProofs`: the composition with the statistics implements
  `VideoPipeline` (`StatsRefine`), so every theorem above holds in it;
  `ShownDropsHappened`, `InferredBeforeRendered` and `WorkerFramesAccounted`.
  The first rests on what threads have read and not yet stored being no more
  than the counters are now (`ReadingsInv`). The other two on `CountInv`, an
  equation that holds at every step, also in the middle of a frame: what the
  workers have counted is what has left them and what they have counted and
  still hold.
* `EventManagerProofs`: all the safety properties of the events, whatever is
  evicted, skipped or lost in a crash, and for any number of frames with failed
  writes.
  - `RecordsHaveImages` and `AppendOnly`. `StoredInv` says that whatever is in
    the log, in the stream's buffer or in `recent_` has its image, and that the
    frame in hand has one from the moment its image has been written. A crash
    leaves the images, so it can only shorten what must have one.
  - `EveryTaskAccounted`, by counting.
  - `LogInOrder` and `LinesSpoiltByCutsOnly`. The order of tasks is `TurnInv`:
    those still to come are newer than the one in hand, that one newer than
    those done. The stream holds records of the frame in hand and newlines, no
    others (`StreamInv`), and a cut is of a frame that is done or of the one in
    hand, whose stream is then bad (`CutsInv`). So what is in the log is before
    what is in the buffer, or of the same frame with a cut between them
    (`OrderInv`), and writing the buffer keeps the order. `LinesInv` adds how the log ends: in a
    newline, in a record whose newline the stream is about to write, in a line
    of an earlier run, or in what a failed write left.
  - `RecentIsNewest`: `recent_` is what trimming all the records of the run at
    once would leave; trimming after each gives the same (`TrimAgain`).
  - `WholeFrames` for the frame in hand (`WholeInv`): what is logged of it is
    what is remembered, or nothing if the log could not be opened, or the first
    of it once a write has failed.
* `RknnDetectorProofs`: `OwnResult`, `OutputsReleased`, `NoUseAfterDestroy` and
  `ContextsFreed`. `worker_id % contexts.size()` is `worker_id`, because as many
  contexts are opened as workers are started; `DetectorInv` adds where the
  frame of a worker is between its calls, and how far `init` has come.
* `NvrProofs`: `ObjectsOutliveThreads` and `ConfigAsWritten`. The first needs
  to know how many of main's objects exist at each statement (`ObjectsInv`),
  until when each thread runs (`ThreadsInv`, `ServerInv`), and that objects go in
  the reverse order of their coming. The second is about every file and every
  command line; what is in force is compared where `KeysHaveValues`, how the
  command line ends without a hypothesis. `ReadingInv` says, up to the word and
  the line that have been read, what `Effective` and `CommandLine` say of the
  whole; that the first word that ends the program decides is `FirstEnd`. That the parser's loop and
  `Effective` agree on which words are options is `PlaceAfterOption` and
  `PlaceAfterValue`; that clamping is going to the nearest bound is
  `NearestIsClamp`. The proof found `Effective` wrong where an option is given
  twice and the last value is 0; the runs now include such a line.
* `YoloProofs`:
  - `GreedySelection`, for every set of detections and every order the sort may
    leave them in: a detection the loop has not reached is marked as removed
    exactly if one that is kept suppresses it (`SelectionInv`).
  - `PictureFits`, for all sizes, by quotient and remainder of the rounding
    (`Quotient`, `Side`).
  - `HeadsPaired`, for a supported model (`Supported`): any number of heads in
    any order whose shapes tell them apart. `HeadModel` says what that takes: a
    size for each scale, as many channels as names in a class head and one in a
    score head, and not a number of names that would make the class head pass
    for a box head that finds a class head (`HeadShapes`). A model that decodes
    its boxes itself is supported if it has more anchors than channels, 4 or 5
    channels beside those of the names, and at most 256 if they come first
    (`DecodedModel`); that its layout is then guessed right is
    `LayoutRecognised`.
  - `ReportsScene`, for a supported model and whatever it sees: decoding finds
    the visible objects and nothing else (`HeadsGiveScene`, `RowsGiveScene`), the
    sort loses none (`OrderIsComplete`), NMS keeps each once (`KeptOnce`) and by
    `SelectionInv` the right ones; that overlap is symmetric is
    `OverlapBothWays`.
  TLC evaluates `Supported` on every input of the run, so the condition is met by
  all of them, the shipped model included; the inputs that do not meet it are
  those under findings.
* `DropOldestProofs`: what a push does to the length, the items and the count.

The assumptions are those on the constants, named in each module: finite sets
of threads, limits that are naturals (positive where the configuration clamps
them), an NMS threshold that is a fraction, possibly negative, since the
configuration does not clamp it, and inputs of the right type.

Only model-checked: liveness under fairness, which is out of the prover's reach
as `ENABLED` is. These are `StopEndsConsumers` and the liveness half of
`ImplementsWindow` for the queue, `ShutdownCompletes` and `FramesMove`,
`TasksMove` and `StopReturns` of the events, `ExitsWhenTold` and `FeedIsLive` of
main with its server, and the two properties of `CaptureSource`, which are all
it has. Every invariant and every safety action property of a passing run has a
theorem.

## Not modelled

Pixels and floating point (preprocessing, DFL, scores, drawing; the scale of
`Letterbox` is exact where the code's is a `float`), the clamping of boxes to
the picture, JSON and HTTP formatting, clocks, trimming and quoting in
configuration files, plain text settings, and memory order weaker than
interleaving. The event counter of `SystemStats` and its readings of `/proc`
are left out. Detached client threads that outlive the objects they use when
`main` returns are a hazard no property covers: in `Nvr` they may be in a
handler when the server is destroyed, and nothing in the repository promises
otherwise. The mock detector, the MQTT placeholder and the utilities keep no
state that another part reads.

## Plan

Done, in this order: the queue and its abstraction, the pipeline over it, the
statistics over the pipeline, events, HTTP, the source, the detector; proofs of
the queue and the first three theorems of the pipeline; then the postprocess
and its theorems, the configuration, `main` over the server, log lines torn by
a crash, and proofs of the pipeline's accounting, the detector and the events;
then the proofs of the remaining invariants: benchmark, statistics, log and
recent events, main, configuration, heads and scene; then failed writes of the event log, with
their proofs, and a configuration file whose headers are the user's. To come:

1. The event counter and queue of `SystemStats`, which needs `PipelineStats`
   over `EventManager`.
