------------------------ MODULE PipelineStatsProofs ------------------------
(***************************************************************************)
(* Theorems about PipelineStats for every number of workers and frames and *)
(* every queue_size: recording statistics changes nothing about the        *)
(* pipeline, the statistics never show what did not happen, and they add   *)
(* up.                                                                     *)
(***************************************************************************)
EXTENDS PipelineStats, VideoPipelineProofs

-----------------------------------------------------------------------------
(* The pipeline under the statistics.                                      *)

\* A step of a thread is a step of the pipeline, or only records something.
LEMMA StatsStepRefines == [StatsNext]_allvars => [Next]_vars
<1>. SUFFICES ASSUME StatsNext PROVE [Next]_vars
  BY DEF allvars
<1>1. ASSUME NEW t \in Threads, ReadQueue(t) \/ SetQueues(t) PROVE UNCHANGED vars
  BY <1>1 DEF ReadQueue, SetQueues
<1>2. CaptureStep => Next
  BY DEF CaptureStep, Next
<1>3. ASSUME NEW w \in Workers, RecordWorker(w) PROVE UNCHANGED vars
  BY <1>3 DEF RecordWorker
<1>4. ASSUME NEW w \in Workers, WorkerStep(w) PROVE Next
  BY <1>4 DEF WorkerStep, Next
<1>5. RecordFrame => UNCHANGED vars
  BY DEF RecordFrame
<1>6. RenderStep \/ MainStep => Next
  BY DEF RenderStep, MainStep, Next
<1>. QED
  BY <1>1, <1>2, <1>3, <1>4, <1>5, <1>6 DEF StatsNext

\* With the statistics the pipeline does nothing it would not do without them.
THEOREM StatsRefine == StatsSpec => Spec
<1>1. StatsInit => Init
  BY DEF StatsInit
<1>. QED
  BY <1>1, StatsStepRefines, PTL DEF StatsSpec, Spec

LEMMA PipelineHolds == StatsSpec => [](TypeOK /\ PlacesInv)
  BY StatsRefine, TypeCorrect, PlacesHold, PTL

\* So a benchmark is exact while its frames are being counted.
THEOREM CountedBenchmark == StatsSpec => []BenchmarkExact
  BY StatsRefine, BenchmarkRuns, PTL

-----------------------------------------------------------------------------
(* Readings.                                                               *)

StatsTypeOK ==
  /\ unread \in [Threads -> SUBSET Fields]
  /\ reading \in [Threads -> [Fields -> Nat]]
  /\ updating \in [Threads -> BOOLEAN]
  /\ counted \in [Threads -> BOOLEAN]
  /\ worker_frames \in [Workers -> Nat]
  /\ frame_count \in Nat /\ dropped_frames \in Nat

\* What a thread has read of a drop counter was there when it read it, and drop
\* counters do not fall.
ReadingsInv ==
  /\ \A t \in Threads :
       /\ reading[t]["frame_drops"] <= frame_drops
       /\ reading[t]["result_drops"] <= result_drops
  /\ dropped_frames <= frame_drops + result_drops

\* Drops are only ever added.
LEMMA DropsGrow ==
  ASSUME TypeOK, [Next]_vars
  PROVE  /\ frame_drops \in Nat /\ result_drops \in Nat
         /\ frame_drops' \in Nat /\ result_drops' \in Nat
         /\ frame_drops <= frame_drops' /\ result_drops <= result_drops'
<1>1. TypeOK'
  BY NextType
<1>2. /\ frame_drops \in Nat /\ result_drops \in Nat
      /\ frame_drops' \in Nat /\ result_drops' \in Nat
  BY <1>1 DEF TypeOK
<1>3. DropsOf(frame_queue, QueueSize) \in Nat /\ DropsOf(result_queue, QueueSize) \in Nat
  BY DEF DropsOf
<1>4. \/ frame_drops' = frame_drops
      \/ frame_drops' = frame_drops + DropsOf(frame_queue, QueueSize)
  BY DEF Next, Capture, CaptureLoop, Grab, OpenFails, ReadSucceeds, ReadFails, PushFrame,
     Worker, WorkerLoop, WorkerPop, WorkerPopNothing, WorkerPush, Render, RenderLoop,
     RenderTake, RenderHold, RenderShow, StopOnSignal, Stop, Joined, vars, queues
<1>5. \/ result_drops' = result_drops
      \/ result_drops' = result_drops + DropsOf(result_queue, QueueSize)
  BY DEF Next, Capture, CaptureLoop, Grab, Worker, WorkerLoop, WorkerPop, WorkerPopNothing,
     WorkerPush, Render, RenderLoop, RenderTake, RenderHold, RenderShow, StopOnSignal,
     Stop, Joined, vars, queues
<1>. QED
  BY <1>2, <1>3, <1>4, <1>5

\* The fields of a reading.
LEMMA ValueType ==
  ASSUME TypeOK, NEW f \in Fields
  PROVE  /\ Value(f) \in Nat
         /\ f = "frame_drops" => Value(f) = frame_drops
         /\ f = "result_drops" => Value(f) = result_drops
<1>1. Len(frame_queue) \in Nat /\ Len(result_queue) \in Nat
  BY DEF TypeOK
<1>. QED
  BY <1>1 DEF TypeOK, Fields, Value

LEMMA StartUpdateType ==
  ASSUME StatsTypeOK, NEW t \in Threads, StartUpdate(t)
  PROVE  /\ updating' \in [Threads -> BOOLEAN] /\ unread' \in [Threads -> SUBSET Fields]
         /\ reading' = reading
  BY DEF StatsTypeOK, StartUpdate

LEMMA EndUpdateType ==
  ASSUME StatsTypeOK, NEW t \in Threads, EndUpdate(t)
  PROVE  /\ updating' \in [Threads -> BOOLEAN] /\ unread' = unread
         /\ reading' \in [Threads -> [Fields -> Nat]]
         /\ \A u \in Threads : reading'[u] = IF u = t THEN Nothing ELSE reading[u]
<1>1. Nothing \in [Fields -> Nat]
  BY DEF Nothing
<1>. QED
  BY <1>1 DEF StatsTypeOK, EndUpdate

LEMMA ReadQueueStep ==
  ASSUME TypeOK, StatsTypeOK, ReadingsInv, NEW t \in Threads, ReadQueue(t)
  PROVE  StatsTypeOK' /\ ReadingsInv'
<1>1. PICK f \in unread[t] :
        /\ reading' = [reading EXCEPT ![t][f] = Value(f)]
        /\ unread' = [unread EXCEPT ![t] = @ \ {f}]
  BY DEF ReadQueue
<1>2. /\ UNCHANGED <<frame_drops, result_drops, updating, counted, worker_frames,
                     frame_count, dropped_frames>>
  BY DEF ReadQueue, vars, queues, stats
<1>3. f \in Fields /\ reading \in [Threads -> [Fields -> Nat]]
  BY DEF StatsTypeOK
<1>4. /\ Value(f) \in Nat
      /\ f = "frame_drops" => Value(f) = frame_drops
      /\ f = "result_drops" => Value(f) = result_drops
  BY <1>3, ValueType
<1>. DEFINE v == Value(f)
<1>. HIDE DEF v
<1>5. reading' = [reading EXCEPT ![t] = [reading[t] EXCEPT ![f] = v]]
  BY <1>1, <1>3 DEF v
<1>6. /\ reading' \in [Threads -> [Fields -> Nat]]
      /\ \A u \in Threads \ {t} : reading'[u] = reading[u]
      /\ \A g \in Fields : reading'[t][g] = IF g = f THEN v ELSE reading[t][g]
  <2>1. v \in Nat
    BY <1>4 DEF v
  <2>2. reading[t] \in [Fields -> Nat]
    BY <1>3
  <2>3. [reading[t] EXCEPT ![f] = v] \in [Fields -> Nat]
    BY <1>3, <2>1, <2>2
  <2>. QED
    BY <1>3, <1>5, <2>2, <2>3
<1>7. StatsTypeOK'
  BY <1>1, <1>2, <1>6 DEF StatsTypeOK
<1>8. frame_drops \in Nat /\ result_drops \in Nat
  BY DEF TypeOK
<1>9. /\ reading'[t]["frame_drops"] <= frame_drops
      /\ reading'[t]["result_drops"] <= result_drops
  BY <1>4, <1>6, <1>8 DEF ReadingsInv, Fields, v
<1>. QED
  BY <1>2, <1>6, <1>7, <1>9 DEF ReadingsInv

LEMMA SetQueuesStep ==
  ASSUME TypeOK, StatsTypeOK, ReadingsInv, NEW t \in Threads, SetQueues(t)
  PROVE  StatsTypeOK' /\ ReadingsInv'
<1>1. /\ UNCHANGED <<frame_drops, result_drops, counted, worker_frames, frame_count>>
      /\ EndUpdate(t)
      /\ dropped_frames' = reading[t]["frame_drops"] + reading[t]["result_drops"]
  BY DEF SetQueues, vars, queues
<1>2. /\ updating' \in [Threads -> BOOLEAN] /\ unread' = unread
      /\ reading' \in [Threads -> [Fields -> Nat]]
      /\ \A u \in Threads : reading'[u] = IF u = t THEN Nothing ELSE reading[u]
  BY <1>1, EndUpdateType
<1>3. /\ reading[t]["frame_drops"] \in Nat /\ reading[t]["result_drops"] \in Nat
      /\ frame_drops \in Nat /\ result_drops \in Nat
      /\ Nothing["frame_drops"] = 0 /\ Nothing["result_drops"] = 0
  BY DEF StatsTypeOK, TypeOK, Nothing, Fields
<1>4. dropped_frames' \in Nat /\ dropped_frames' <= frame_drops + result_drops
  BY <1>1, <1>3 DEF ReadingsInv
<1>5. StatsTypeOK'
  BY <1>1, <1>2, <1>4 DEF StatsTypeOK
<1>6. \A u \in Threads : /\ reading'[u]["frame_drops"] <= frame_drops
                         /\ reading'[u]["result_drops"] <= result_drops
  BY <1>2, <1>3 DEF ReadingsInv
<1>. QED
  BY <1>1, <1>4, <1>5, <1>6 DEF ReadingsInv

\* The other steps store nothing that was read.
LEMMA ThreadsType == Workers \subseteq Threads /\ CaptureThread \in Threads /\ RenderThread \in Threads
  BY DEF Threads

LEMMA ReadingsStep ==
  ASSUME TypeOK, StatsTypeOK, ReadingsInv, [StatsNext]_allvars
  PROVE  StatsTypeOK' /\ ReadingsInv'
<1>1. ASSUME NEW t \in Threads, ReadQueue(t) \/ SetQueues(t)
      PROVE  StatsTypeOK' /\ ReadingsInv'
  BY <1>1, ReadQueueStep, SetQueuesStep
<1>2. ASSUME [Next]_vars, UNCHANGED <<reading, dropped_frames>> PROVE ReadingsInv'
  <2>1. /\ frame_drops \in Nat /\ result_drops \in Nat
        /\ frame_drops' \in Nat /\ result_drops' \in Nat
        /\ frame_drops <= frame_drops' /\ result_drops <= result_drops'
    BY <1>2, DropsGrow
  <2>2. /\ dropped_frames \in Nat
        /\ \A t \in Threads : reading[t]["frame_drops"] \in Nat /\ reading[t]["result_drops"] \in Nat
    BY DEF StatsTypeOK, Fields
  <2>. QED
    BY <1>2, <2>1, <2>2 DEF ReadingsInv
<1>3. [Next]_vars
  BY StatsStepRefines
<1>4. CASE CaptureStep
  <2>1. UNCHANGED update \/ StartUpdate(CaptureThread)
    BY <1>4 DEF CaptureStep
  <2>2. /\ updating' \in [Threads -> BOOLEAN] /\ unread' \in [Threads -> SUBSET Fields]
        /\ reading' = reading
    BY <2>1, StartUpdateType, ThreadsType DEF update, StatsTypeOK
  <2>3. UNCHANGED <<counted, stats>>
    BY <1>4 DEF CaptureStep
  <2>. QED
    BY <1>2, <1>3, <2>2, <2>3 DEF StatsTypeOK, stats
<1>5. ASSUME NEW w \in Workers, RecordWorker(w) PROVE StatsTypeOK' /\ ReadingsInv'
  <2>1. /\ counted' = [counted EXCEPT ![w] = TRUE]
        /\ worker_frames' = [worker_frames EXCEPT ![w] = @ + 1]
        /\ UNCHANGED <<update, frame_count, dropped_frames>>
    BY <1>5 DEF RecordWorker
  <2>2. counted' \in [Threads -> BOOLEAN] /\ worker_frames' \in [Workers -> Nat]
    <3>1. counted \in [Threads -> BOOLEAN] /\ worker_frames \in [Workers -> Nat]
      BY DEF StatsTypeOK
    <3>2. [counted EXCEPT ![w] = TRUE] \in [Threads -> BOOLEAN]
      BY <3>1
    <3>3. [worker_frames EXCEPT ![w] = @ + 1] \in [Workers -> Nat]
      BY <3>1
    <3>. QED
      BY <2>1, <3>2, <3>3
  <2>3. UNCHANGED <<unread, reading, updating>>
    BY <2>1 DEF update
  <2>. QED
    BY <1>2, <1>3, <2>1, <2>2, <2>3 DEF StatsTypeOK
<1>6. ASSUME NEW w \in Workers, WorkerStep(w) PROVE StatsTypeOK' /\ ReadingsInv'
  <2>1. UNCHANGED update \/ StartUpdate(w)
    BY <1>6 DEF WorkerStep
  <2>2. /\ updating' \in [Threads -> BOOLEAN] /\ unread' \in [Threads -> SUBSET Fields]
        /\ reading' = reading
    BY <2>1, StartUpdateType, ThreadsType DEF update, StatsTypeOK
  <2>3. UNCHANGED stats /\ counted' \in [Threads -> BOOLEAN]
    BY <1>6 DEF WorkerStep, StatsTypeOK
  <2>. QED
    BY <1>2, <1>3, <2>2, <2>3 DEF StatsTypeOK, stats
<1>7. CASE RecordFrame
  <2>1. /\ counted' = [counted EXCEPT ![RenderThread] = TRUE]
        /\ frame_count' = frame_count + 1 /\ StartUpdate(RenderThread)
        /\ UNCHANGED <<worker_frames, dropped_frames>>
    BY <1>7 DEF RecordFrame
  <2>2. /\ updating' \in [Threads -> BOOLEAN] /\ unread' \in [Threads -> SUBSET Fields]
        /\ reading' = reading
    BY <2>1, StartUpdateType, ThreadsType
  <2>3. counted' \in [Threads -> BOOLEAN] /\ frame_count' \in Nat
    <3>1. counted \in [Threads -> BOOLEAN] /\ frame_count \in Nat
      BY DEF StatsTypeOK
    <3>2. [counted EXCEPT ![RenderThread] = TRUE] \in [Threads -> BOOLEAN]
      BY <3>1
    <3>. QED
      BY <2>1, <3>1, <3>2
  <2>. QED
    BY <1>2, <1>3, <2>1, <2>2, <2>3 DEF StatsTypeOK
<1>8. CASE RenderStep
  <2>1. counted' \in [Threads -> BOOLEAN] /\ UNCHANGED <<update, stats>>
    BY <1>8 DEF RenderStep, StatsTypeOK
  <2>. QED
    BY <1>2, <1>3, <2>1 DEF StatsTypeOK, update, stats
<1>9. CASE MainStep \/ UNCHANGED allvars
  <2>1. UNCHANGED <<update, counted, stats>>
    BY <1>9 DEF MainStep, allvars
  <2>. QED
    BY <1>2, <1>3, <2>1 DEF StatsTypeOK, update, stats
<1>. QED
  BY <1>1, <1>4, <1>5, <1>6, <1>7, <1>8, <1>9 DEF StatsNext

LEMMA StatsInitType == StatsInit => StatsTypeOK /\ ReadingsInv
<1>. SUFFICES ASSUME StatsInit PROVE StatsTypeOK /\ ReadingsInv
  OBVIOUS
<1>1. Nothing \in [Fields -> Nat] /\ Nothing["frame_drops"] = 0 /\ Nothing["result_drops"] = 0
  BY DEF Nothing, Fields
<1>2. StatsTypeOK
  BY <1>1 DEF StatsInit, StatsTypeOK
<1>3. frame_drops = 0 /\ result_drops = 0
  BY DEF StatsInit, Init
<1>. QED
  BY <1>1, <1>2, <1>3 DEF StatsInit, ReadingsInv

LEMMA ReadingsHold == StatsSpec => [](StatsTypeOK /\ ReadingsInv)
  BY StatsInitType, ReadingsStep, PipelineHolds, PTL DEF StatsSpec

\* The drops that are shown have happened, however the readings of several
\* threads are mixed and in whatever order they are stored.
THEOREM DropsShown == StatsSpec => []ShownDropsHappened
<1>1. ReadingsInv => ShownDropsHappened
  BY DEF ReadingsInv, ShownDropsHappened
<1>. QED
  BY <1>1, ReadingsHold, PTL

-----------------------------------------------------------------------------
(* Counting.                                                               *)

\* The workers that have recorded the frame they still hold.
Recorded == {w \in Workers : counted[w]}

\* The frames that have left the workers.
PastWorkers == ToRender + Delivered

\* The counters are exact at every step: what a worker has recorded has left it
\* or is still with it, and render is at most one frame ahead of itself.
CountInv ==
  /\ \A w \in Workers : counted[w] => pc_worker[w] = "infer"
  /\ counted[RenderThread] => pc_render = "show"
  /\ IsFiniteSet(Recordings)
  /\ WorkerFrames = PastWorkers + Cardinality(Recorded)
  /\ frame_count = Len(rendered) + (IF counted[RenderThread] THEN 1 ELSE 0)

LEMMA RecordedType == IsFiniteSet(Recorded) /\ Cardinality(Recorded) \in Nat
<1>1. IsFiniteSet(Recorded)
  BY PipelineAssumption, FS_Subset DEF Recorded
<1>. QED
  BY <1>1, FS_CardinalityType

LEMMA CountType ==
  ASSUME TypeOK, CountInv
  PROVE  /\ WorkerFrames \in Nat /\ PastWorkers \in Nat
         /\ ToRender \in Nat /\ Delivered \in Nat /\ Len(rendered) \in Nat
<1>1. IsFiniteSet(Recordings)
  BY DEF CountInv
<1>. QED
  BY <1>1, FS_CardinalityType, BalanceType DEF PastWorkers, WorkerFrames

\* A step of the capture thread or of main, and one of a worker that pushes
\* nothing, leave what is past the workers alone.
LEMMA OthersFlow ==
  ASSUME Capture \/ StopOnSignal \/ Joined
  PROVE  /\ PastWorkers' = PastWorkers
         /\ UNCHANGED <<rendered, pc_worker, pc_render>>
<1>1. UNCHANGED <<result_queue, result_drops, pending, shown, rendered, pc_worker, pc_render>>
  BY DEF Capture, CaptureLoop, Grab, StopOnSignal, Stop, Joined, queues, reorder
<1>. QED
  BY <1>1 DEF PastWorkers, ToRender, Delivered

LEMMA WorkerFlow ==
  ASSUME TypeOK, PlacesInv, NEW w \in Workers, Worker(w)
  PROVE  /\ PastWorkers' = PastWorkers + (IF pc_worker[w] = "infer" THEN 1 ELSE 0)
         /\ UNCHANGED <<rendered, pc_render>>
         /\ \A v \in Workers : v # w => pc_worker'[v] = pc_worker[v]
         /\ pc_worker[w] = "infer" => WorkerPush(w)
<1>1. /\ ToRender \in Nat /\ Delivered \in Nat
      /\ pc_worker \in [Workers -> {"loop", "pop", "infer", "done"}]
  BY BalanceType DEF TypeOK
<1>2. CASE WorkerPush(w)
  <2>1. ToRender' = ToRender + 1 /\ Delivered' = Delivered
    BY <1>2, WorkerPushFlow
  <2>2. pc_worker[w] = "infer" /\ UNCHANGED <<rendered, pc_render>>
        /\ pc_worker' = [pc_worker EXCEPT ![w] = "loop"]
    BY <1>2 DEF WorkerPush, reorder
  <2>. QED
    BY <1>1, <1>2, <2>1, <2>2 DEF PastWorkers
<1>3. CASE WorkerLoop(w) \/ WorkerPop(w) \/ WorkerPopNothing(w)
  <2>1. /\ UNCHANGED <<result_queue, result_drops, pending, shown, rendered, pc_render>>
        /\ pc_worker[w] # "infer"
        /\ \E label : pc_worker' = [pc_worker EXCEPT ![w] = label]
    BY <1>3 DEF WorkerLoop, WorkerPop, WorkerPopNothing, queues, reorder
  <2>2. PastWorkers' = PastWorkers /\ PastWorkers \in Nat
    BY <1>1, <2>1 DEF PastWorkers, ToRender, Delivered
  <2>. QED
    BY <1>1, <2>1, <2>2
<1>. QED
  BY <1>2, <1>3 DEF Worker

LEMMA RenderFlow ==
  ASSUME TypeOK, PlacesInv, Render
  PROVE  /\ PastWorkers' = PastWorkers /\ UNCHANGED pc_worker
         /\ Len(rendered') = Len(rendered) + (IF pc_render = "show" THEN 1 ELSE 0)
<1>1. ToRender \in Nat /\ Delivered \in Nat /\ Len(rendered) \in Nat
  BY BalanceType
<1>2. CASE RenderShow
  <2>1. PICK id \in shown : rendered' = Append(rendered, id)
    BY <1>2 DEF RenderShow
  <2>2. Len(rendered') = Len(rendered) + 1
    BY <2>1 DEF TypeOK
  <2>3. pc_render = "show" /\ UNCHANGED pc_worker
    BY <1>2 DEF RenderShow
  <2>. QED
    BY <1>2, <2>2, <2>3, RenderShowFlow DEF PastWorkers
<1>3. CASE RenderTake
  <2>1. pc_render # "show" /\ UNCHANGED <<rendered, pc_worker>>
    BY <1>3 DEF RenderTake
  <2>2. PastWorkers' = PastWorkers
    BY <1>1, <1>3, RenderTakeFlow DEF PastWorkers
  <2>. QED
    BY <1>1, <2>1, <2>2
<1>4. CASE RenderHold
  <2>1. pc_render # "show" /\ UNCHANGED <<rendered, pc_worker>>
    BY <1>4 DEF RenderHold
  <2>2. PastWorkers' = PastWorkers
    BY <1>4, RenderHoldFlow DEF PastWorkers
  <2>. QED
    BY <1>1, <2>1, <2>2
<1>5. CASE RenderLoop
  <2>1. pc_render # "show" /\ UNCHANGED <<queues, reorder, pc_worker>>
    BY <1>5 DEF RenderLoop
  <2>. QED
    BY <1>1, <2>1 DEF queues, reorder, PastWorkers, ToRender, Delivered
<1>. QED
  BY <1>2, <1>3, <1>4, <1>5 DEF Render

\* One more recording of a worker is one more in all.
LEMMA OneMoreRecording ==
  ASSUME StatsTypeOK, IsFiniteSet(Recordings), NEW w \in Workers,
         worker_frames' = [worker_frames EXCEPT ![w] = @ + 1]
  PROVE  /\ IsFiniteSet(Recordings')
         /\ Cardinality(Recordings') = Cardinality(Recordings) + 1
<1>1. worker_frames \in [Workers -> Nat]
  BY DEF StatsTypeOK
<1>. DEFINE n == worker_frames[w]
            new == <<w, n + 1>>
<1>2. /\ n \in Nat /\ worker_frames'[w] = n + 1
      /\ \A v \in Workers : v # w => worker_frames'[v] = worker_frames[v]
  BY <1>1
<1>3. 1 .. n + 1 = (1 .. n) \cup {n + 1} /\ n + 1 \notin 1 .. n
  BY <1>2
<1>4. Recordings = {p \in Workers \X Nat : p[2] \in 1 .. worker_frames[p[1]]}
  BY <1>1 DEF Recordings
<1>5. Recordings' = {p \in Workers \X Nat : p[2] \in 1 .. worker_frames'[p[1]]}
  <2>1. worker_frames' \in [Workers -> Nat]
    BY <1>1
  <2>. QED
    BY <2>1 DEF Recordings
<1>. HIDE DEF n
<1>6. new \in Workers \X Nat /\ new[1] = w /\ new[2] = n + 1
  BY <1>2
<1>7. \A p \in Workers \X Nat : p = new <=> p[1] = w /\ p[2] = n + 1
  BY <1>2
<1>. HIDE DEF new
<1>8. Recordings' = Recordings \cup {new}
  <2>1. ASSUME NEW p \in Workers \X Nat
        PROVE  p[2] \in 1 .. worker_frames'[p[1]]
                 <=> p[2] \in 1 .. worker_frames[p[1]] \/ p = new
    <3>1. CASE p[1] = w
      BY <1>2, <1>3, <1>7, <3>1 DEF n
    <3>2. CASE p[1] # w
      BY <1>2, <1>6, <3>2
    <3>. QED
      BY <3>1, <3>2
  <2>. QED
    BY <1>4, <1>5, <1>6, <2>1
<1>9. new \notin Recordings
  BY <1>3, <1>4, <1>6 DEF n
<1>. QED
  BY <1>8, <1>9, FS_AddElement

\* Setting the flag of one thread.
LEMMA SetCounted ==
  ASSUME StatsTypeOK, NEW t \in Threads, NEW b \in BOOLEAN,
         counted' = [counted EXCEPT ![t] = b]
  PROVE  counted'[t] = b /\ \A u \in Threads \ {t} : counted'[u] = counted[u]
  BY DEF StatsTypeOK

LEMMA RenderThreadApart == RenderThread \notin Workers
  BY ThreadAssumption

LEMMA RecordWorkerCount ==
  ASSUME TypeOK, StatsTypeOK, CountInv, NEW w \in Workers, RecordWorker(w)
  PROVE  CountInv'
<1>1. /\ pc_worker[w] = "infer" /\ ~counted[w]
      /\ counted' = [counted EXCEPT ![w] = TRUE]
      /\ worker_frames' = [worker_frames EXCEPT ![w] = @ + 1]
      /\ UNCHANGED <<vars, frame_count>>
  BY DEF RecordWorker
<1>2. /\ UNCHANGED <<pc_worker, pc_render, rendered>> /\ PastWorkers' = PastWorkers
  BY <1>1 DEF vars, queues, reorder, PastWorkers, ToRender, Delivered
<1>3. counted'[w] = TRUE /\ \A u \in Threads \ {w} : counted'[u] = counted[u]
  BY <1>1, SetCounted, ThreadsType
<1>4. Recorded' = Recorded \cup {w} /\ w \notin Recorded
  BY <1>1, <1>3, ThreadsType DEF Recorded
<1>5. Cardinality(Recorded') = Cardinality(Recorded) + 1
  BY <1>4, RecordedType, FS_AddElement
<1>6. IsFiniteSet(Recordings') /\ WorkerFrames' = WorkerFrames + 1
  BY <1>1, OneMoreRecording DEF CountInv, WorkerFrames
<1>7. WorkerFrames' = PastWorkers' + Cardinality(Recorded')
  BY <1>2, <1>5, <1>6, RecordedType, CountType DEF CountInv
<1>8. counted'[RenderThread] = counted[RenderThread]
  BY <1>3, RenderThreadApart, ThreadsType
<1>9. \A v \in Workers : counted'[v] => pc_worker'[v] = "infer"
  BY <1>1, <1>2, <1>3, ThreadsType DEF CountInv
<1>. QED
  BY <1>1, <1>2, <1>6, <1>7, <1>8, <1>9 DEF CountInv

LEMMA WorkerStepCount ==
  ASSUME TypeOK, PlacesInv, StatsTypeOK, CountInv, NEW w \in Workers, WorkerStep(w)
  PROVE  CountInv'
<1>1. /\ Worker(w) /\ UNCHANGED stats
  BY DEF WorkerStep
<1>2. /\ PastWorkers' = PastWorkers + (IF pc_worker[w] = "infer" THEN 1 ELSE 0)
      /\ UNCHANGED <<rendered, pc_render>>
      /\ \A v \in Workers : v # w => pc_worker'[v] = pc_worker[v]
  BY <1>1, WorkerFlow
<1>3. /\ Recordings' = Recordings /\ WorkerFrames' = WorkerFrames
      /\ frame_count' = frame_count
  BY <1>1 DEF stats, Recordings, WorkerFrames
<1>4. CASE pc_worker[w] = "infer"
  <2>1. counted[w] /\ counted' = [counted EXCEPT ![w] = FALSE]
    BY <1>4 DEF WorkerStep
  <2>2. counted'[w] = FALSE /\ \A u \in Threads \ {w} : counted'[u] = counted[u]
    BY <2>1, SetCounted, ThreadsType
  <2>3. Recorded' = Recorded \ {w} /\ w \in Recorded
    BY <2>1, <2>2, ThreadsType DEF Recorded
  <2>4. Cardinality(Recorded') = Cardinality(Recorded) - 1
    BY <2>3, RecordedType, FS_RemoveElement
  <2>5. WorkerFrames' = PastWorkers' + Cardinality(Recorded')
    BY <1>2, <1>3, <1>4, <2>4, RecordedType, CountType DEF CountInv
  <2>6. counted'[RenderThread] = counted[RenderThread]
    BY <2>2, RenderThreadApart, ThreadsType
  <2>7. \A v \in Workers : counted'[v] => pc_worker'[v] = "infer"
    BY <1>2, <2>2, ThreadsType DEF CountInv
  <2>. QED
    BY <1>2, <1>3, <2>5, <2>6, <2>7 DEF CountInv
<1>5. CASE pc_worker[w] # "infer"
  <2>1. UNCHANGED counted
    BY <1>5 DEF WorkerStep
  <2>2. \A v \in Workers : counted'[v] => pc_worker'[v] = "infer"
    BY <1>2, <1>5, <2>1 DEF CountInv
  <2>3. Recorded' = Recorded /\ PastWorkers' = PastWorkers
    BY <1>2, <1>5, <2>1, CountType DEF Recorded
  <2>. QED
    BY <1>2, <1>3, <2>1, <2>2, <2>3 DEF CountInv
<1>. QED
  BY <1>4, <1>5

LEMMA RecordFrameCount ==
  ASSUME TypeOK, StatsTypeOK, CountInv, RecordFrame
  PROVE  CountInv'
<1>1. /\ pc_render = "show" /\ ~counted[RenderThread]
      /\ counted' = [counted EXCEPT ![RenderThread] = TRUE]
      /\ frame_count' = frame_count + 1
      /\ UNCHANGED <<vars, worker_frames>>
  BY DEF RecordFrame
<1>2. /\ UNCHANGED <<pc_worker, pc_render, rendered>> /\ PastWorkers' = PastWorkers
      /\ Recordings' = Recordings /\ WorkerFrames' = WorkerFrames
  BY <1>1 DEF vars, queues, reorder, PastWorkers, ToRender, Delivered, Recordings, WorkerFrames
<1>3. /\ counted'[RenderThread] = TRUE
      /\ \A u \in Threads \ {RenderThread} : counted'[u] = counted[u]
  BY <1>1, SetCounted, ThreadsType
<1>4. \A w \in Workers : counted'[w] = counted[w]
  BY <1>3, RenderThreadApart, ThreadsType
<1>5. Recorded' = Recorded
  BY <1>4 DEF Recorded
<1>6. frame_count' = Len(rendered') + 1
  BY <1>1, <1>2, CountType DEF CountInv
<1>. QED
  BY <1>1, <1>2, <1>3, <1>4, <1>5, <1>6 DEF CountInv

LEMMA RenderStepCount ==
  ASSUME TypeOK, PlacesInv, StatsTypeOK, CountInv, RenderStep
  PROVE  CountInv'
<1>1. Render /\ UNCHANGED stats
  BY DEF RenderStep
<1>2. /\ PastWorkers' = PastWorkers /\ UNCHANGED pc_worker
      /\ Len(rendered') = Len(rendered) + (IF pc_render = "show" THEN 1 ELSE 0)
  BY <1>1, RenderFlow
<1>3. /\ Recordings' = Recordings /\ WorkerFrames' = WorkerFrames
      /\ frame_count' = frame_count
  BY <1>1 DEF stats, Recordings, WorkerFrames
<1>4. /\ ~counted'[RenderThread] /\ \A w \in Workers : counted'[w] = counted[w]
      /\ frame_count = Len(rendered')
  <2>1. CASE pc_render = "show"
    <3>1. counted[RenderThread] /\ counted' = [counted EXCEPT ![RenderThread] = FALSE]
      BY <2>1 DEF RenderStep
    <3>2. /\ counted'[RenderThread] = FALSE
          /\ \A u \in Threads \ {RenderThread} : counted'[u] = counted[u]
      BY <3>1, SetCounted, ThreadsType
    <3>. QED
      BY <1>2, <2>1, <3>1, <3>2, RenderThreadApart, ThreadsType DEF CountInv
  <2>2. CASE pc_render # "show"
    <3>1. UNCHANGED counted /\ ~counted[RenderThread]
      BY <2>2 DEF RenderStep, CountInv
    <3>. QED
      BY <1>2, <2>2, <3>1, CountType DEF CountInv
  <2>. QED
    BY <2>1, <2>2
<1>5. Recorded' = Recorded
  BY <1>4 DEF Recorded
<1>6. frame_count' = Len(rendered') + 0
  BY <1>3, <1>4, <1>2, CountType
<1>. QED
  BY <1>2, <1>3, <1>4, <1>5, <1>6 DEF CountInv

\* Every other step leaves the counters, and what they count, alone.
LEMMA NothingCounted ==
  ASSUME CountInv, UNCHANGED <<counted, worker_frames, frame_count, rendered, pc_worker, pc_render>>,
         PastWorkers' = PastWorkers
  PROVE  CountInv'
<1>1. Recordings' = Recordings /\ WorkerFrames' = WorkerFrames /\ Recorded' = Recorded
  BY DEF Recordings, WorkerFrames, Recorded
<1>. QED
  BY <1>1 DEF CountInv

LEMMA CountStep ==
  ASSUME TypeOK, PlacesInv, StatsTypeOK, CountInv, [StatsNext]_allvars
  PROVE  CountInv'
<1>1. CASE \/ \E t \in Threads : ReadQueue(t) \/ SetQueues(t)
           \/ UNCHANGED allvars
  <2>1. UNCHANGED <<vars, counted, worker_frames, frame_count>>
    BY <1>1 DEF ReadQueue, SetQueues, allvars, stats
  <2>. QED
    BY <2>1, NothingCounted DEF vars, queues, reorder, PastWorkers, ToRender, Delivered
<1>2. CASE CaptureStep \/ MainStep
  <2>1. UNCHANGED <<counted, stats>> /\ (Capture \/ StopOnSignal \/ Joined)
    BY <1>2 DEF CaptureStep, MainStep
  <2>. QED
    BY <2>1, OthersFlow, NothingCounted DEF stats
<1>3. ASSUME NEW w \in Workers, RecordWorker(w) \/ WorkerStep(w) PROVE CountInv'
  BY <1>3, RecordWorkerCount, WorkerStepCount
<1>4. CASE RecordFrame \/ RenderStep
  BY <1>4, RecordFrameCount, RenderStepCount
<1>. QED
  BY <1>1, <1>2, <1>3, <1>4 DEF StatsNext

LEMMA CountInit == StatsInit => CountInv
<1>. SUFFICES ASSUME StatsInit PROVE CountInv
  OBVIOUS
<1>1. Recordings = {} /\ Recorded = {}
  BY ThreadsType DEF StatsInit, Recordings, Recorded
<1>2. /\ pending = {} /\ shown = {} /\ rendered = <<>> /\ result_queue = <<>>
      /\ result_drops = 0 /\ frame_count = 0
  BY DEF StatsInit, Init
<1>3. PastWorkers = 0 /\ WorkerFrames = 0 /\ Cardinality(Recorded) = 0
  BY <1>1, <1>2, FS_EmptySet DEF PastWorkers, ToRender, Delivered, WorkerFrames
<1>4. \A t \in Threads : ~counted[t]
  BY DEF StatsInit
<1>. QED
  BY <1>1, <1>2, <1>3, <1>4, ThreadsType, FS_EmptySet DEF CountInv

LEMMA CountHolds == StatsSpec => []CountInv
  BY CountInit, CountStep, PipelineHolds, ReadingsHold, PTL DEF StatsSpec

\* In any snapshot the workers' counters cover the rendered frames.
THEOREM InferredFirst == StatsSpec => []InferredBeforeRendered
<1>1. TypeOK /\ CountInv => InferredBeforeRendered
  <2>. SUFFICES ASSUME TypeOK, CountInv PROVE InferredBeforeRendered
    OBVIOUS
  <2>1. /\ ToRender \in Nat /\ Len(rendered) \in Nat
        /\ Cardinality(Recorded) \in Nat /\ Cardinality(shown) \in Nat
    BY CountType, RecordedType, BalanceType
  <2>2. counted[RenderThread] => Cardinality(shown) = 1
    BY FS_Singleton DEF CountInv, TypeOK
  <2>. QED
    BY <2>1, <2>2 DEF CountInv, InferredBeforeRendered, PastWorkers, Delivered
<1>. QED
  BY <1>1, CountHolds, PipelineHolds, PTL

\* When nobody is in the middle of a frame, every frame that left the workers
\* has been counted exactly once by a worker, and every frame that was
\* rendered exactly once by the render thread.
THEOREM CountersExact == StatsSpec => []WorkerFramesAccounted
<1>1. TypeOK /\ CountInv => WorkerFramesAccounted
  <2>. SUFFICES ASSUME TypeOK, CountInv, \A t \in Threads : ~counted[t]
                PROVE  /\ frame_count = Len(rendered)
                       /\ WorkerFrames = Len(rendered) + Cardinality(shown)
                            + Cardinality(pending) + Len(result_queue) + result_drops
    BY DEF WorkerFramesAccounted
  <2>1. Recorded = {} /\ ~counted[RenderThread]
    BY ThreadsType DEF Recorded
  <2>2. Cardinality(Recorded) = 0
    BY <2>1, FS_EmptySet
  <2>3. /\ Len(rendered) \in Nat /\ Cardinality(shown) \in Nat
        /\ Cardinality(pending) \in Nat /\ Len(result_queue) \in Nat /\ result_drops \in Nat
    BY BalanceType
  <2>. QED
    BY <2>1, <2>2, <2>3 DEF CountInv, PastWorkers, ToRender, Delivered
<1>. QED
  BY <1>1, CountHolds, PipelineHolds, PTL
=============================================================================
