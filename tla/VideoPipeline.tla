--------------------------- MODULE VideoPipeline ---------------------------
(***************************************************************************)
(* VideoPipeline (src/video_pipeline.cpp): the capture thread, the         *)
(* inference workers and the render thread, the two bounded queues between *)
(* them, the render thread's reorder buffer, and main's start and stop.    *)
(*                                                                         *)
(* A frame is its frame_id.  push and pop are single steps here; module    *)
(* BoundedQueue shows that they behave so.  popWait returns false at any   *)
(* moment the queue is empty: the timeout is 200 or 100 ms and inference   *)
(* or capture may take longer.  A thread reads `running` only at the head  *)
(* of its loop, so each loop is split there and wherever it has handed     *)
(* something to another thread.                                            *)
(*                                                                         *)
(* The statistics the threads record are added in module PipelineStats,    *)
(* submit() is module EventManager's and updateFrame() HttpServer's.       *)
(***************************************************************************)
EXTENDS DropOldest, FiniteSets, Functions

CONSTANTS
  Workers,          \* the inference threads
  QueueSize,        \* runtime.queue_size
  UseRknn,          \* runtime.use_rknn
  LoopVideo,        \* runtime.loop_video
  Reconnect,        \* video.reconnect
  Benchmark,        \* runtime.benchmark
  BenchmarkFrames,  \* runtime.benchmark_frames
  MaxFrames         \* bound: frames the source delivers before it stalls

ASSUME PipelineAssumption ==
  /\ IsFiniteSet(Workers) /\ Workers # {}
  /\ QueueSize \in Nat \ {0}
  /\ {UseRknn, LoopVideo, Reconnect, Benchmark} \subseteq BOOLEAN
  /\ BenchmarkFrames \in Nat
  /\ MaxFrames \in Nat

VARIABLES
  running,        \* running_
  cap_open,       \* cap.isOpened() in captureLoop
  frame_id,       \* captureLoop's next id
  frame_queue,    \* frame_queue_, a sequence of ids
  frame_drops,    \* frame_queue_.dropped()
  result_queue,   \* result_queue_, a sequence of ids
  result_drops,   \* result_queue_.dropped()
  held,           \* held[w]: the frame worker w is inferring, {} or {id}
  pending,        \* renderLoop's map, as the set of its keys
  next_id,        \* renderLoop's next_id
  shown,          \* the frame renderLoop is delivering, {} or {id}
  rendered,       \* history: ids in the order they were delivered
  pc_capture, pc_worker, pc_render, pc_main

queues == <<frame_queue, frame_drops, result_queue, result_drops>>
reorder == <<pending, next_id, shown, rendered>>
vars == <<running, cap_open, frame_id, queues, held, reorder,
          pc_capture, pc_worker, pc_render, pc_main>>

\* The state start() leaves: running_ is set before the threads are created.
Init ==
  /\ running = TRUE
  /\ cap_open = FALSE
  /\ frame_id = 0
  /\ frame_queue = <<>> /\ frame_drops = 0
  /\ result_queue = <<>> /\ result_drops = 0
  /\ held = [w \in Workers |-> {}]
  /\ pending = {} /\ next_id = 0 /\ shown = {} /\ rendered = <<>>
  /\ pc_capture = "loop"
  /\ pc_worker = [w \in Workers |-> "loop"]
  /\ pc_render = "loop"
  /\ pc_main = "serving"

-----------------------------------------------------------------------------
(* captureLoop                                                             *)

\* Once MaxFrames frames have come, the source blocks in read().
CaptureLoop ==
  /\ pc_capture = "loop"
  /\ pc_capture' = IF running THEN "grab" ELSE "done"
  /\ running => frame_id < MaxFrames
  /\ UNCHANGED <<running, cap_open, frame_id, queues, held, reorder,
                 pc_worker, pc_render, pc_main>>

\* The counter is advanced only for frames that did not evict another.
PushFrameReusingId ==
  /\ frame_queue' = PushDropOldest(frame_queue, frame_id, QueueSize)
  /\ frame_drops' = frame_drops + DropsOf(frame_queue, QueueSize)
  /\ frame_id' = frame_id + 1 - DropsOf(frame_queue, QueueSize)
  /\ pc_capture' = "loop"
  /\ UNCHANGED running

\* packet.frame_id = frame_id++ and pushDropOldest.
PushFrame ==
  /\ frame_queue' = PushDropOldest(frame_queue, frame_id, QueueSize)
  /\ frame_drops' = frame_drops + DropsOf(frame_queue, QueueSize)
  /\ frame_id' = frame_id + 1
  /\ pc_capture' = "loop"
  /\ UNCHANGED running

\* The source cannot be opened: a mock run makes a synthetic frame, an RKNN
\* run sleeps and tries again.
OpenFails ==
  /\ ~cap_open
  /\ UNCHANGED cap_open
  /\ IF UseRknn
     THEN /\ pc_capture' = "loop"
          /\ UNCHANGED <<running, frame_id, frame_queue, frame_drops>>
     ELSE PushFrame

\* The source is open, or has just been opened, and delivers a frame.
ReadSucceeds ==
  /\ cap_open' = TRUE
  /\ PushFrame

\* read() fails: rewind, or release and reopen, or end the pipeline.
ReadFails ==
  /\ UNCHANGED <<frame_id, frame_queue, frame_drops>>
  /\ \/ /\ LoopVideo
        /\ cap_open' = TRUE
        /\ pc_capture' = "loop"
        /\ UNCHANGED running
     \/ /\ ~LoopVideo /\ Reconnect
        /\ cap_open' = FALSE
        /\ pc_capture' = "loop"
        /\ UNCHANGED running
     \/ /\ ~LoopVideo /\ ~Reconnect
        /\ cap_open' = TRUE
        /\ pc_capture' = "done"
        /\ running' = FALSE

Grab ==
  /\ pc_capture = "grab"
  /\ OpenFails \/ ReadSucceeds \/ ReadFails
  /\ UNCHANGED <<result_queue, result_drops, held, reorder,
                 pc_worker, pc_render, pc_main>>

-----------------------------------------------------------------------------
(* inferenceLoop(w)                                                        *)

\* A worker that never looks at running_.
WorkerLoopForever(w) ==
  /\ pc_worker[w] = "loop"
  /\ pc_worker' = [pc_worker EXCEPT ![w] = "pop"]
  /\ UNCHANGED <<running, cap_open, frame_id, queues, held, reorder,
                 pc_capture, pc_render, pc_main>>

WorkerLoop(w) ==
  /\ pc_worker[w] = "loop"
  /\ pc_worker' = [pc_worker EXCEPT ![w] = IF running THEN "pop" ELSE "done"]
  /\ UNCHANGED <<running, cap_open, frame_id, queues, held, reorder,
                 pc_capture, pc_render, pc_main>>

WorkerPop(w) ==
  /\ pc_worker[w] = "pop"
  /\ frame_queue # <<>>
  /\ frame_queue' = Tail(frame_queue)
  /\ held' = [held EXCEPT ![w] = {Head(frame_queue)}]
  /\ pc_worker' = [pc_worker EXCEPT ![w] = "infer"]
  /\ UNCHANGED <<running, cap_open, frame_id, frame_drops, result_queue,
                 result_drops, reorder, pc_capture, pc_render, pc_main>>

\* popWait returned false.
WorkerPopNothing(w) ==
  /\ pc_worker[w] = "pop"
  /\ frame_queue = <<>>
  /\ pc_worker' = [pc_worker EXCEPT ![w] = "loop"]
  /\ UNCHANGED <<running, cap_open, frame_id, queues, held, reorder,
                 pc_capture, pc_render, pc_main>>

\* Leaves the packet with the worker after it has been pushed on.
WorkerPushKeeping(w) ==
  /\ pc_worker[w] = "infer"
  /\ \E id \in held[w] :
       /\ result_queue' = PushDropOldest(result_queue, id, QueueSize)
       /\ result_drops' = result_drops + DropsOf(result_queue, QueueSize)
  /\ UNCHANGED held
  /\ pc_worker' = [pc_worker EXCEPT ![w] = "loop"]
  /\ UNCHANGED <<running, cap_open, frame_id, frame_queue, frame_drops,
                 reorder, pc_capture, pc_render, pc_main>>

\* detect() has returned, with or without detections: the result is pushed,
\* whether or not the pipeline has been stopped meanwhile.
WorkerPush(w) ==
  /\ pc_worker[w] = "infer"
  /\ \E id \in held[w] :
       /\ result_queue' = PushDropOldest(result_queue, id, QueueSize)
       /\ result_drops' = result_drops + DropsOf(result_queue, QueueSize)
  /\ held' = [held EXCEPT ![w] = {}]
  /\ pc_worker' = [pc_worker EXCEPT ![w] = "loop"]
  /\ UNCHANGED <<running, cap_open, frame_id, frame_queue, frame_drops,
                 reorder, pc_capture, pc_render, pc_main>>

-----------------------------------------------------------------------------
(* renderLoop                                                              *)

RenderLoop ==
  /\ pc_render = "loop"
  /\ pc_render' = IF running THEN "pop" ELSE "done"
  /\ UNCHANGED <<running, cap_open, frame_id, queues, held, reorder,
                 pc_capture, pc_worker, pc_main>>

\* The buffer after popWait: an empty queue is a timeout, and the buffer is
\* looked at all the same.
Buffer ==
  pending \cup (IF result_queue = <<>> THEN {} ELSE {Head(result_queue)})

\* Flushes the newest frame of a full buffer.
ReadyNewest(id) ==
  \/ id = next_id
  \/ /\ next_id \notin Buffer
     /\ Cardinality(Buffer) >= QueueSize
     /\ \A other \in Buffer : other <= id

\* Flushes a buffer one frame too late.
ReadyLate(id) ==
  \/ id = next_id
  \/ /\ next_id \notin Buffer
     /\ Cardinality(Buffer) > QueueSize
     /\ \A other \in Buffer : id <= other

\* The frame renderLoop takes out of its buffer: the one it expects or, when
\* that one is missing and queue_size frames are waiting, the first of them.
Ready(id) ==
  \/ id = next_id
  \/ /\ next_id \notin Buffer
     /\ Cardinality(Buffer) >= QueueSize
     /\ \A other \in Buffer : id <= other

\* Looks at the first result and leaves it in the queue.
PeekResult == UNCHANGED result_queue

\* result_queue_.popWait: nothing happens to an empty queue.
PopResult == result_queue' = IF result_queue = <<>> THEN <<>> ELSE Tail(result_queue)

\* popWait, emplace, and a frame chosen to be delivered.
RenderTake ==
  /\ pc_render = "pop"
  /\ PopResult
  /\ \E id \in Buffer :
       /\ Ready(id)
       /\ shown' = {id}
       /\ pending' = Buffer \ {id}
       /\ next_id' = id + 1
  /\ pc_render' = "show"
  /\ UNCHANGED <<running, cap_open, frame_id, frame_queue, frame_drops,
                 result_drops, held, rendered, pc_capture, pc_worker, pc_main>>

\* popWait, emplace, and nothing to deliver yet.
RenderHold ==
  /\ pc_render = "pop"
  /\ PopResult
  /\ \A id \in Buffer : ~Ready(id)
  /\ pending' = Buffer
  /\ pc_render' = "loop"
  /\ UNCHANGED <<running, cap_open, frame_id, frame_queue, frame_drops,
                 result_drops, held, next_id, shown, rendered,
                 pc_capture, pc_worker, pc_main>>

\* A run that renders one frame more than it was asked for.
BenchmarkOverrun ==
  Benchmark /\ BenchmarkFrames > 0 /\ Len(rendered') > BenchmarkFrames

\* stats_.frameCount() has reached benchmark_frames.
BenchmarkDone ==
  Benchmark /\ BenchmarkFrames > 0 /\ Len(rendered') >= BenchmarkFrames

\* Draw, write, updateFrame, submit, recordFrame: the frame is out.
RenderShow ==
  /\ pc_render = "show"
  /\ \E id \in shown : rendered' = Append(rendered, id)
  /\ shown' = {}
  /\ running' = (running /\ ~BenchmarkDone)
  /\ pc_render' = IF BenchmarkDone THEN "done" ELSE "loop"
  /\ UNCHANGED <<cap_open, frame_id, queues, held, pending, next_id,
                 pc_capture, pc_worker, pc_main>>

-----------------------------------------------------------------------------
(* main: poll, then stop()                                                 *)

Stop ==
  /\ pc_main = "serving"
  /\ running' = FALSE
  /\ pc_main' = "joining"
  /\ UNCHANGED <<cap_open, frame_id, queues, held, reorder,
                 pc_capture, pc_worker, pc_render>>

\* SIGINT or SIGTERM: g_running is false at the next poll.
StopOnSignal == Stop

\* pipeline.running() is false at the next poll.
StopOnIdle == ~running /\ Stop

Joined ==
  /\ pc_main = "joining"
  /\ pc_capture = "done" /\ pc_render = "done"
  /\ \A w \in Workers : pc_worker[w] = "done"
  /\ pc_main' = "stopped"
  /\ UNCHANGED <<running, cap_open, frame_id, queues, held, reorder,
                 pc_capture, pc_worker, pc_render>>

-----------------------------------------------------------------------------
Capture == CaptureLoop \/ Grab
Worker(w) == WorkerLoop(w) \/ WorkerPop(w) \/ WorkerPopNothing(w) \/ WorkerPush(w)
Render == RenderLoop \/ RenderTake \/ RenderHold \/ RenderShow

Next ==
  \/ Capture
  \/ \E w \in Workers : Worker(w)
  \/ Render
  \/ StopOnSignal \/ Joined

Spec == Init /\ [][Next]_vars

\* The threads are scheduled, their popWaits time out, detect() and read()
\* return, and main polls running() and joins.  A signal may never come.
Fairness ==
  /\ WF_vars(Capture) /\ WF_vars(Render)
  /\ \A w \in Workers : WF_vars(Worker(w))
  /\ WF_vars(StopOnIdle \/ Joined)

FairSpec == Spec /\ Fairness

-----------------------------------------------------------------------------
Held == UNION {held[w] : w \in Workers}

\* Frames on their way from the capture thread to the reorder buffer.
InFlight == Range(frame_queue) \cup Held \cup Range(result_queue)

\* Every variable holds a value of its kind, the queues are within their
\* limits, and a thread holds a frame exactly where its code says it does.
TypeOK ==
  /\ running \in BOOLEAN /\ cap_open \in BOOLEAN
  /\ frame_id \in Nat /\ next_id \in Nat
  /\ frame_queue \in Seq(Nat) /\ Len(frame_queue) <= QueueSize
  /\ result_queue \in Seq(Nat) /\ Len(result_queue) <= QueueSize
  /\ frame_drops \in Nat /\ result_drops \in Nat
  /\ held \in [Workers -> SUBSET Nat]
  /\ pending \in SUBSET Nat /\ IsFiniteSet(pending)
  /\ shown \in SUBSET Nat
  /\ rendered \in Seq(Nat)
  /\ pc_capture \in {"loop", "grab", "done"}
  /\ pc_worker \in [Workers -> {"loop", "pop", "infer", "done"}]
  /\ pc_render \in {"loop", "pop", "show", "done"}
  /\ pc_main \in {"serving", "joining", "stopped"}
  /\ \A w \in Workers :
       IF pc_worker[w] = "infer" THEN \E id \in held[w] : held[w] = {id}
                                 ELSE held[w] = {}
  /\ IF pc_render = "show" THEN \E id \in shown : shown = {id} ELSE shown = {}

\* Between two iterations the reorder buffer holds fewer than queue_size
\* frames, however many workers there are and however late a frame is: the
\* map cannot grow while one frame is slow or lost.
ReorderBufferBounded == Cardinality(pending) < QueueSize

\* A frame is never in two places, so it is inferred once, delivered once,
\* and `pending.emplace` never meets an id it already holds.
FrameInOnePlace ==
  LET places == <<Range(frame_queue), Held, Range(result_queue), pending,
                  shown, Range(rendered)>>
  IN /\ \A i, j \in DOMAIN places : i # j => places[i] \cap places[j] = {}
     /\ \A v, w \in Workers : v # w => held[v] \cap held[w] = {}
     /\ \A q \in {frame_queue, result_queue, rendered} : IsInjective(q)

\* Every captured frame is in a queue, with a worker, in the reorder buffer,
\* delivered, or counted by one of the two drop counters.
EveryFrameAccounted ==
  frame_id = Len(frame_queue) + Cardinality({w \in Workers : held[w] # {}})
             + Len(result_queue) + Cardinality(pending) + Cardinality(shown)
             + Len(rendered) + frame_drops + result_drops

\* Frames are delivered to the preview, the events and the result video in
\* the order they were captured ("ordered render", README.md).
RenderedInOrder ==
  \A i, j \in DOMAIN rendered : i < j => rendered[i] < rendered[j]

\* A benchmark never renders more frames than it was asked for, and one that
\* ends by itself, on a source that does not end, has rendered exactly those.
BenchmarkExact ==
  Benchmark /\ BenchmarkFrames > 0 =>
    /\ Len(rendered) <= BenchmarkFrames
    /\ ~running /\ pc_main = "serving" /\ (LoopVideo \/ Reconnect)
         => Len(rendered) = BenchmarkFrames

\* However running_ was cleared (a signal, the end of the source with no
\* notification, the benchmark's limit), every thread leaves its loop and
\* main's stop() returns.
ShutdownCompletes == ~running ~> pc_main = "stopped"

\* No frame is stuck on its way: it reaches the reorder buffer or is evicted,
\* unless the pipeline is stopped first.
FramesMove ==
  \A id \in 0 .. MaxFrames - 1 : id \in InFlight ~> (id \notin InFlight \/ ~running)
=============================================================================
