--------------------------- MODULE PipelineStats ---------------------------
(***************************************************************************)
(* SystemStats (src/system_stats.cpp) as the pipeline feeds it: the steps  *)
(* of VideoPipeline composed with recordWorker, recordFrame and            *)
(* updateQueueStats.                                                       *)
(*                                                                         *)
(* Each method of SystemStats and of the queues takes its own mutex, so    *)
(* each is one step.  updateQueueStats is several: the queues are read one *)
(* by one, in an order C++ leaves to the compiler, and then setQueues      *)
(* stores what was read.  Every thread calls it, so an older reading may   *)
(* be stored after a newer one.  events_.queueSize() is read and stored in *)
(* the same way and left out: its queue is module EventManager's.          *)
(***************************************************************************)
EXTENDS VideoPipeline

CONSTANTS CaptureThread, RenderThread  \* the two threads beside Workers

ASSUME ThreadAssumption ==
  CaptureThread # RenderThread /\ {CaptureThread, RenderThread} \cap Workers = {}

Threads == Workers \cup {CaptureThread, RenderThread}

Fields == {"frame_queue", "frame_drops", "result_queue", "result_drops"}

VARIABLES
  unread,         \* per thread: what updateQueueStats still has to read
  reading,        \* per thread: what it has read
  updating,       \* per thread: it is inside updateQueueStats
  counted,        \* the worker or render thread has recorded the frame it has
  worker_frames,  \* worker_frames_
  frame_count,    \* frame_count_
  queues_shown,   \* capture_queue_ and result_queue_
  dropped_frames  \* dropped_frames_

update == <<unread, reading, updating>>
stats == <<worker_frames, frame_count, queues_shown, dropped_frames>>
allvars == <<vars, update, counted, stats>>

Nothing == [f \in Fields |-> 0]

StatsInit ==
  /\ Init
  /\ unread = [t \in Threads |-> {}]
  /\ reading = [t \in Threads |-> Nothing]
  /\ updating = [t \in Threads |-> FALSE]
  /\ counted = [t \in Threads |-> FALSE]
  /\ worker_frames = [w \in Workers |-> 0]
  /\ frame_count = 0
  /\ queues_shown = <<0, 0>>
  /\ dropped_frames = 0

-----------------------------------------------------------------------------
(* updateQueueStats, called by thread t                                    *)

StartUpdate(t) ==
  /\ updating' = [updating EXCEPT ![t] = TRUE]
  /\ unread' = [unread EXCEPT ![t] = Fields]
  /\ UNCHANGED reading

Value(f) ==
  CASE f = "frame_queue" -> Len(frame_queue)
    [] f = "frame_drops" -> frame_drops
    [] f = "result_queue" -> Len(result_queue)
    [] f = "result_drops" -> result_drops

\* One of size() and dropped() of the two queues.
ReadQueue(t) ==
  /\ updating[t]
  /\ \E f \in unread[t] :
       /\ reading' = [reading EXCEPT ![t][f] = Value(f)]
       /\ unread' = [unread EXCEPT ![t] = @ \ {f}]
  /\ UNCHANGED <<vars, updating, counted, stats>>

EndUpdate(t) ==
  /\ updating' = [updating EXCEPT ![t] = FALSE]
  /\ reading' = [reading EXCEPT ![t] = Nothing]
  /\ UNCHANGED unread

\* Adds what it has read to what is there.
SetQueuesAdding(t) ==
  /\ updating[t] /\ unread[t] = {}
  /\ queues_shown' = <<reading[t]["frame_queue"], reading[t]["result_queue"]>>
  /\ dropped_frames' = dropped_frames + reading[t]["frame_drops"] + reading[t]["result_drops"]
  /\ EndUpdate(t)
  /\ UNCHANGED <<vars, counted, worker_frames, frame_count>>

SetQueues(t) ==
  /\ updating[t] /\ unread[t] = {}
  /\ queues_shown' = <<reading[t]["frame_queue"], reading[t]["result_queue"]>>
  /\ dropped_frames' = reading[t]["frame_drops"] + reading[t]["result_drops"]
  /\ EndUpdate(t)
  /\ UNCHANGED <<vars, counted, worker_frames, frame_count>>

-----------------------------------------------------------------------------
(* The threads of the pipeline                                             *)

\* captureLoop calls updateQueueStats after it has pushed.
CaptureStep ==
  /\ ~updating[CaptureThread]
  /\ Capture
  /\ IF frame_id' = frame_id THEN UNCHANGED update ELSE StartUpdate(CaptureThread)
  /\ UNCHANGED <<counted, stats>>

\* recordWorker, after detect() and before the result is pushed.
RecordWorker(w) ==
  /\ pc_worker[w] = "infer" /\ ~counted[w]
  /\ counted' = [counted EXCEPT ![w] = TRUE]
  /\ worker_frames' = [worker_frames EXCEPT ![w] = @ + 1]
  /\ UNCHANGED <<vars, update, frame_count, queues_shown, dropped_frames>>

\* Pushes the result without having counted it.
WorkerStepUncounted(w) ==
  /\ ~updating[w]
  /\ Worker(w)
  /\ IF pc_worker[w] = "infer"
     THEN /\ counted' = [counted EXCEPT ![w] = FALSE]
          /\ StartUpdate(w)
     ELSE UNCHANGED <<counted, update>>
  /\ UNCHANGED stats

\* Every other step of inferenceLoop; after the push, updateQueueStats.
WorkerStep(w) ==
  /\ ~updating[w]
  /\ Worker(w)
  /\ IF pc_worker[w] = "infer"
     THEN /\ counted[w]
          /\ counted' = [counted EXCEPT ![w] = FALSE]
          /\ StartUpdate(w)
     ELSE UNCHANGED <<counted, update>>
  /\ UNCHANGED stats

\* addEvents and recordFrame; then updateQueueStats.
RecordFrame ==
  /\ pc_render = "show" /\ ~counted[RenderThread]
  /\ counted' = [counted EXCEPT ![RenderThread] = TRUE]
  /\ frame_count' = frame_count + 1
  /\ StartUpdate(RenderThread)
  /\ UNCHANGED <<vars, worker_frames, queues_shown, dropped_frames>>

\* Every other step of renderLoop; the benchmark's test comes after the update.
RenderStep ==
  /\ ~updating[RenderThread]
  /\ Render
  /\ IF pc_render = "show"
     THEN /\ counted[RenderThread]
          /\ counted' = [counted EXCEPT ![RenderThread] = FALSE]
     ELSE UNCHANGED counted
  /\ UNCHANGED <<update, stats>>

\* A thread ends only after its last update: join() waits for it.
MainStep ==
  /\ StopOnSignal \/ (Joined /\ \A t \in Threads : ~updating[t])
  /\ UNCHANGED <<update, counted, stats>>

StatsNext ==
  \/ \E t \in Threads : ReadQueue(t) \/ SetQueues(t)
  \/ CaptureStep
  \/ \E w \in Workers : RecordWorker(w) \/ WorkerStep(w)
  \/ RecordFrame \/ RenderStep
  \/ MainStep

StatsSpec == StatsInit /\ [][StatsNext]_allvars

-----------------------------------------------------------------------------
\* What the workers have recorded, one by one, and how much that is in all.
Recordings == UNION {{w} \X (1 .. worker_frames[w]) : w \in Workers}
WorkerFrames == Cardinality(Recordings)

\* The drops that are shown have happened: however the readings of several
\* threads are mixed, the stats never show more drops than there were.
ShownDropsHappened == dropped_frames <= frame_drops + result_drops

\* In any snapshot /api/stats takes, the workers' counters cover the rendered
\* frames: each was recorded by its worker before render could record it.
InferredBeforeRendered == frame_count <= WorkerFrames

\* A frame is recorded once by a worker and once by render, so when nobody is
\* in the middle of a frame the workers' counters are exactly the frames that
\* left them: rendered, waiting for render, or evicted on the way.
WorkerFramesAccounted ==
  (\A t \in Threads : ~counted[t]) =>
    /\ frame_count = Len(rendered)
    /\ WorkerFrames = Len(rendered) + Cardinality(shown) + Cardinality(pending)
                      + Len(result_queue) + result_drops
=============================================================================
