------------------------ MODULE VideoPipelineProofs ------------------------
(***************************************************************************)
(* Theorems about VideoPipeline for every number of workers and frames,    *)
(* every queue_size and every setting: the variables keep their types, the *)
(* reorder buffer stays below queue_size, every frame is in one place and  *)
(* is accounted for, a benchmark renders the frames it was asked for, and  *)
(* with one worker frames are delivered in the order they were captured.   *)
(***************************************************************************)
EXTENDS VideoPipeline, DropOldestProofs, FiniteSetTheorems

\* A nonempty set of frame ids has a least one: what pending.begin() finds.
LEMMA LeastNatural ==
  ASSUME NEW T \in SUBSET Nat, T # {}
  PROVE  \E x \in T : \A y \in T : x <= y
<1> DEFINE R == OpToRel(<, Nat)
<1>1. IsWellFoundedOn(R, Nat)
  BY NatLessThanWellFounded
<1>2. PICK x \in T : \A y \in T : ~(<<y, x>> \in R)
  <2> HIDE DEF R
  <2> QED
    BY <1>1, WFMin
<1>3. \A y \in T : ~(y < x)
  BY <1>2 DEF OpToRel
<1> QED
  BY <1>3

\* queue_size is a legal limit of a queue.
LEMMA QueueSizeType == QueueSize \in Nat \ {0}
  BY PipelineAssumption

-----------------------------------------------------------------------------
(* Types.                                                                  *)

LEMMA InitType == Init => TypeOK
<1> SUFFICES ASSUME Init PROVE TypeOK
  OBVIOUS
<1>1. /\ frame_queue \in Seq(Nat) /\ Len(frame_queue) <= QueueSize
      /\ result_queue \in Seq(Nat) /\ Len(result_queue) <= QueueSize
      /\ rendered \in Seq(Nat)
  BY QueueSizeType DEF Init
<1>2. pending \in SUBSET Nat /\ IsFiniteSet(pending) /\ shown \in SUBSET Nat
  BY FS_EmptySet DEF Init
<1>3. /\ held \in [Workers -> SUBSET Nat]
      /\ pc_worker \in [Workers -> {"loop", "pop", "infer", "done"}]
      /\ \A w \in Workers : pc_worker[w] = "loop" /\ held[w] = {}
  BY DEF Init
<1>4. /\ running \in BOOLEAN /\ cap_open \in BOOLEAN
      /\ frame_id \in Nat /\ next_id \in Nat
      /\ frame_drops \in Nat /\ result_drops \in Nat
      /\ pc_capture = "loop" /\ pc_render = "loop" /\ pc_main = "serving"
      /\ shown = {}
  BY DEF Init
<1> QED
  BY <1>1, <1>2, <1>3, <1>4 DEF TypeOK

\* A push onto either queue keeps its type and limit.
LEMMA PushType ==
  ASSUME NEW q \in Seq(Nat), Len(q) <= QueueSize, NEW id \in Nat, NEW n \in Nat
  PROVE  /\ PushDropOldest(q, id, QueueSize) \in Seq(Nat)
         /\ Len(PushDropOldest(q, id, QueueSize)) <= QueueSize
         /\ n + DropsOf(q, QueueSize) \in Nat
<1>1. DropsOf(q, QueueSize) \in {0, 1}
  BY QueueSizeType, DropsOfBound
<1> QED
  BY <1>1, QueueSizeType, PushDropOldestItems

LEMMA BufferType ==
  ASSUME TypeOK
  PROVE  /\ Buffer \in SUBSET Nat /\ IsFiniteSet(Buffer)
         /\ Cardinality(Buffer) <= Cardinality(pending) + 1
         /\ Cardinality(Buffer) \in Nat /\ Cardinality(pending) \in Nat
<1>1. /\ pending \in SUBSET Nat /\ IsFiniteSet(pending)
      /\ Cardinality(pending) \in Nat /\ result_queue \in Seq(Nat)
  BY FS_CardinalityType DEF TypeOK
<1>2. CASE result_queue = <<>>
  <2>1. Buffer = pending
    BY <1>2 DEF Buffer
  <2> QED
    BY <1>1, <2>1
<1>3. CASE result_queue # <<>>
  <2>1. Buffer = pending \cup {Head(result_queue)} /\ Head(result_queue) \in Nat
    BY <1>1, <1>3 DEF Buffer
  <2>2. IsFiniteSet(Buffer)
    BY <1>1, <2>1, FS_AddElement
  <2>3. \/ Cardinality(Buffer) = Cardinality(pending)
        \/ Cardinality(Buffer) = Cardinality(pending) + 1
    BY <1>1, <2>1, FS_AddElement
  <2>4. Buffer \in SUBSET Nat
    BY <1>1, <2>1
  <2> QED
    BY <1>1, <2>2, <2>3, <2>4
<1> QED
  BY <1>2, <1>3

LEMMA GrabType == ASSUME TypeOK, Grab PROVE TypeOK'
<1>1. /\ frame_queue \in Seq(Nat) /\ Len(frame_queue) <= QueueSize
      /\ frame_id \in Nat /\ frame_drops \in Nat
  BY DEF TypeOK
<1>2. PushFrame => /\ frame_queue' \in Seq(Nat) /\ Len(frame_queue') <= QueueSize
                   /\ frame_drops' \in Nat /\ frame_id' \in Nat
                   /\ running' = running /\ pc_capture' = "loop"
  BY <1>1, PushType DEF PushFrame
<1>3. UNCHANGED <<result_queue, result_drops, held, reorder, pc_worker, pc_render, pc_main>>
  BY DEF Grab
<1>4. OpenFails \/ ReadSucceeds \/ ReadFails
  BY DEF Grab
<1>5. /\ frame_queue' \in Seq(Nat) /\ Len(frame_queue') <= QueueSize
      /\ frame_drops' \in Nat /\ frame_id' \in Nat
      /\ running' \in BOOLEAN /\ cap_open' \in BOOLEAN
      /\ pc_capture' \in {"loop", "grab", "done"}
  <2>1. CASE OpenFails
    BY <1>1, <1>2, <2>1 DEF OpenFails, TypeOK
  <2>2. CASE ReadSucceeds
    BY <1>2, <2>2 DEF ReadSucceeds, TypeOK
  <2>3. CASE ReadFails
    BY <1>1, <2>3 DEF ReadFails, TypeOK
  <2> QED
    BY <1>4, <2>1, <2>2, <2>3
<1> QED
  BY <1>3, <1>5 DEF TypeOK, reorder

LEMMA WorkerPopType == ASSUME TypeOK, NEW w \in Workers, WorkerPop(w) PROVE TypeOK'
<1>1. /\ Tail(frame_queue) \in Seq(Nat) /\ Head(frame_queue) \in Nat
      /\ Len(Tail(frame_queue)) <= QueueSize
  BY QueueSizeType DEF TypeOK, WorkerPop
<1> QED
  BY <1>1 DEF TypeOK, WorkerPop, reorder

LEMMA WorkerPushType == ASSUME TypeOK, NEW w \in Workers, WorkerPush(w) PROVE TypeOK'
<1>1. PICK id \in held[w] :
        /\ result_queue' = PushDropOldest(result_queue, id, QueueSize)
        /\ result_drops' = result_drops + DropsOf(result_queue, QueueSize)
  BY DEF WorkerPush
<1>2. id \in Nat
  BY DEF TypeOK
<1>3. /\ result_queue' \in Seq(Nat) /\ Len(result_queue') <= QueueSize
      /\ result_drops' \in Nat
  BY <1>1, <1>2, PushType DEF TypeOK
<1> QED
  BY <1>3 DEF TypeOK, WorkerPush, reorder

\* What popWait leaves of the result queue.
LEMMA PopResultType ==
  ASSUME TypeOK, PopResult
  PROVE  result_queue' \in Seq(Nat) /\ Len(result_queue') <= QueueSize
  BY QueueSizeType DEF TypeOK, PopResult

LEMMA RenderTakeType == ASSUME TypeOK, RenderTake PROVE TypeOK'
<1>1. result_queue' \in Seq(Nat) /\ Len(result_queue') <= QueueSize
  BY PopResultType DEF RenderTake
<1>2. PICK id \in Buffer :
        /\ shown' = {id} /\ pending' = Buffer \ {id} /\ next_id' = id + 1
  BY DEF RenderTake
<1>3. id \in Nat /\ pending' \in SUBSET Nat /\ IsFiniteSet(pending')
  BY <1>2, BufferType, FS_RemoveElement
<1>4. UNCHANGED <<running, cap_open, frame_id, frame_queue, frame_drops,
                  result_drops, held, rendered, pc_capture, pc_worker, pc_main>>
      /\ pc_render' = "show"
  BY DEF RenderTake
<1> QED
  BY <1>1, <1>2, <1>3, <1>4 DEF TypeOK

LEMMA RenderHoldType == ASSUME TypeOK, RenderHold PROVE TypeOK'
<1>1. result_queue' \in Seq(Nat) /\ Len(result_queue') <= QueueSize
  BY PopResultType DEF RenderHold
<1>2. pending' \in SUBSET Nat /\ IsFiniteSet(pending')
  BY BufferType DEF RenderHold
<1> QED
  BY <1>1, <1>2 DEF TypeOK, RenderHold

LEMMA RenderShowType == ASSUME TypeOK, RenderShow PROVE TypeOK'
<1>1. rendered' \in Seq(Nat)
  BY DEF TypeOK, RenderShow
<1>2. running' \in BOOLEAN /\ pc_render' \in {"loop", "done"}
  BY DEF TypeOK, RenderShow
<1> QED
  BY <1>1, <1>2 DEF TypeOK, RenderShow, queues

LEMMA NextType == ASSUME TypeOK, [Next]_vars PROVE TypeOK'
<1>1. CASE CaptureLoop
  BY <1>1 DEF CaptureLoop, TypeOK, queues, reorder
<1>2. CASE Grab
  BY <1>2, GrabType
<1>3. ASSUME NEW w \in Workers, WorkerLoop(w) PROVE TypeOK'
  BY <1>3 DEF WorkerLoop, TypeOK, queues, reorder
<1>4. ASSUME NEW w \in Workers, WorkerPop(w) PROVE TypeOK'
  BY <1>4, WorkerPopType
<1>5. ASSUME NEW w \in Workers, WorkerPopNothing(w) PROVE TypeOK'
  BY <1>5 DEF WorkerPopNothing, TypeOK, queues, reorder
<1>6. ASSUME NEW w \in Workers, WorkerPush(w) PROVE TypeOK'
  BY <1>6, WorkerPushType
<1>7. CASE RenderLoop
  BY <1>7 DEF RenderLoop, TypeOK, queues, reorder
<1>8. CASE RenderTake
  BY <1>8, RenderTakeType
<1>9. CASE RenderHold
  BY <1>9, RenderHoldType
<1>10. CASE RenderShow
  BY <1>10, RenderShowType
<1>11. CASE StopOnSignal \/ Joined
  BY <1>11 DEF StopOnSignal, Stop, Joined, TypeOK, queues, reorder
<1>12. CASE UNCHANGED vars
  BY <1>12 DEF vars, TypeOK, queues, reorder
<1> QED
  BY <1>1, <1>2, <1>3, <1>4, <1>5, <1>6, <1>7, <1>8, <1>9, <1>10, <1>11,
     <1>12 DEF Next, Capture, Worker, Render

\* Types, the limits of the queues, and who holds a frame where.
THEOREM TypeCorrect == Spec => []TypeOK
  BY InitType, NextType, PTL DEF Spec

-----------------------------------------------------------------------------
(* The reorder buffer.                                                     *)

\* A full buffer always has a frame to give up: the one expected, or the first.
LEMMA FullBufferIsReady ==
  ASSUME TypeOK, Cardinality(Buffer) >= QueueSize
  PROVE  \E id \in Buffer : Ready(id)
<1>1. Buffer \in SUBSET Nat /\ IsFiniteSet(Buffer) /\ Cardinality(Buffer) \in Nat
  BY BufferType
<1>2. Buffer # {}
  BY <1>1, QueueSizeType, FS_EmptySet
<1>3. CASE next_id \in Buffer
  BY <1>3 DEF Ready
<1>4. CASE next_id \notin Buffer
  <2>1. PICK id \in Buffer : \A other \in Buffer : id <= other
    BY <1>1, <1>2, LeastNatural
  <2> QED
    BY <1>4, <2>1 DEF Ready
<1> QED
  BY <1>3, <1>4

LEMMA NextKeepsBound ==
  ASSUME TypeOK, ReorderBufferBounded, [Next]_vars
  PROVE  ReorderBufferBounded'
<1>1. CASE RenderTake
  <2>1. PICK id \in Buffer : pending' = Buffer \ {id}
    BY <1>1 DEF RenderTake
  <2>2. Cardinality(pending') = Cardinality(Buffer) - 1
    BY <2>1, BufferType, FS_RemoveElement
  <2> QED
    BY <2>2, BufferType, QueueSizeType DEF ReorderBufferBounded
<1>2. CASE RenderHold
  <2>1. Cardinality(Buffer) < QueueSize
    BY <1>2, FullBufferIsReady, BufferType, QueueSizeType DEF RenderHold
  <2> QED
    BY <1>2, <2>1 DEF RenderHold, ReorderBufferBounded
<1>3. CASE UNCHANGED pending
  BY <1>3 DEF ReorderBufferBounded
<1>4. ASSUME ~RenderTake, ~RenderHold PROVE UNCHANGED pending
  BY <1>4 DEF Next, Capture, CaptureLoop, Grab, Worker, WorkerLoop, WorkerPop,
     WorkerPopNothing, WorkerPush, Render, RenderLoop, RenderShow,
     StopOnSignal, Stop, Joined, vars, reorder
<1> QED
  BY <1>1, <1>2, <1>3, <1>4

\* However many workers there are and however late a frame is, the map of
\* renderLoop holds fewer than queue_size frames between two iterations.
THEOREM ReorderBuffer == Spec => []ReorderBufferBounded
<1>1. Init => ReorderBufferBounded
  BY FS_EmptySet, QueueSizeType DEF Init, ReorderBufferBounded
<1> QED
  BY <1>1, TypeCorrect, NextKeepsBound, PTL DEF Spec

-----------------------------------------------------------------------------
(* Where the frames are: each is in one place.                             *)

Disjoint(A, B) == A \cap B = {}

\* FrameInOnePlace, pair by pair, with what makes it inductive: no place has
\* the id that the capture thread gives next, or a later one.
PlacesInv ==
  /\ Disjoint(Range(frame_queue),
              Held \cup Range(result_queue) \cup pending \cup shown \cup Range(rendered))
  /\ Disjoint(Held, Range(result_queue) \cup pending \cup shown \cup Range(rendered))
  /\ Disjoint(Range(result_queue), pending \cup shown \cup Range(rendered))
  /\ Disjoint(pending, shown \cup Range(rendered))
  /\ Disjoint(shown, Range(rendered))
  /\ \A v, w \in Workers : v # w => held[v] \cap held[w] = {}
  /\ IsInjective(frame_queue) /\ IsInjective(result_queue) /\ IsInjective(rendered)
  /\ \A id \in InFlight \cup pending \cup shown \cup Range(rendered) : id < frame_id

-----------------------------------------------------------------------------
(* Sequences without repetition.                                           *)

\* What a pop leaves has no repetition and no longer the item popped.
LEMMA PopDistinct ==
  ASSUME NEW q \in Seq(Nat), q # <<>>, IsInjective(q)
  PROVE  /\ Head(q) \in Range(q) /\ Head(q) \in Nat
         /\ Tail(q) \in Seq(Nat) /\ Len(Tail(q)) = Len(q) - 1
         /\ IsInjective(Tail(q))
         /\ Range(Tail(q)) \subseteq Range(q) \ {Head(q)}
<1>1. /\ Len(q) \in Nat \ {0} /\ DOMAIN q = 1 .. Len(q)
      /\ Tail(q) \in Seq(Nat) /\ Len(Tail(q)) = Len(q) - 1
      /\ DOMAIN Tail(q) = 1 .. Len(q) - 1
      /\ \A i \in 1 .. Len(q) - 1 : Tail(q)[i] = q[i + 1]
      /\ Head(q) = q[1] /\ Head(q) \in Nat
  OBVIOUS
<1>2. \A i, j \in 1 .. Len(q) : q[i] = q[j] => i = j
  BY <1>1 DEF IsInjective
<1>3. \A i \in 1 .. Len(q) - 1 : i + 1 \in 1 .. Len(q) /\ i + 1 # 1
  BY <1>1
<1>4. IsInjective(Tail(q))
  <2> SUFFICES ASSUME NEW i \in 1 .. Len(q) - 1, NEW j \in 1 .. Len(q) - 1,
                      Tail(q)[i] = Tail(q)[j]
               PROVE  i = j
    BY <1>1 DEF IsInjective
  <2>1. i + 1 = j + 1
    BY <1>1, <1>2, <1>3
  <2> QED
    BY <2>1
<1>5. Head(q) \in Range(q)
  BY <1>1 DEF Range
<1>6. Range(Tail(q)) \subseteq Range(q) \ {Head(q)}
  <2> SUFFICES ASSUME NEW i \in 1 .. Len(q) - 1
               PROVE  Tail(q)[i] \in Range(q) /\ Tail(q)[i] # Head(q)
    BY <1>1 DEF Range
  <2>1. Tail(q)[i] = q[i + 1] /\ i + 1 \in DOMAIN q /\ i + 1 # 1 /\ 1 \in DOMAIN q
    BY <1>1, <1>3
  <2> QED
    BY <1>1, <1>2, <2>1 DEF Range
<1> QED
  BY <1>1, <1>4, <1>5, <1>6

\* Appending a new item repeats nothing.
LEMMA AppendDistinct ==
  ASSUME NEW q \in Seq(Nat), IsInjective(q), NEW id \in Nat, id \notin Range(q)
  PROVE  /\ IsInjective(Append(q, id))
         /\ Range(Append(q, id)) = Range(q) \cup {id}
<1> DEFINE new == Append(q, id)
<1>1. /\ Len(q) \in Nat /\ DOMAIN q = 1 .. Len(q)
      /\ DOMAIN new = 1 .. Len(q) + 1
      /\ \A i \in 1 .. Len(q) : new[i] = q[i]
      /\ new[Len(q) + 1] = id
  OBVIOUS
<1>2. \A i \in 1 .. Len(q) : q[i] # id
  BY <1>1 DEF Range
<1>3. \A i \in 1 .. Len(q) + 1 : i \in 1 .. Len(q) \/ i = Len(q) + 1
  BY <1>1
<1>4. \A i \in 1 .. Len(q) : i \in 1 .. Len(q) + 1
  BY <1>1
<1>5. Len(q) + 1 \in 1 .. Len(q) + 1
  BY <1>1
<1> HIDE DEF new
<1>6. IsInjective(new)
  BY <1>1, <1>2, <1>3 DEF IsInjective
<1>7. Range(new) = Range(q) \cup {id}
  BY <1>1, <1>3, <1>4, <1>5 DEF Range
<1> QED
  BY <1>6, <1>7 DEF new

\* A push of a new item onto a queue within its limit repeats nothing, and
\* length and drops together grow by one.
LEMMA PushDistinct ==
  ASSUME NEW q \in Seq(Nat), Len(q) <= QueueSize, IsInjective(q),
         NEW id \in Nat, id \notin Range(q)
  PROVE  /\ IsInjective(PushDropOldest(q, id, QueueSize))
         /\ Range(PushDropOldest(q, id, QueueSize)) \subseteq Range(q) \cup {id}
         /\ Len(PushDropOldest(q, id, QueueSize)) + DropsOf(q, QueueSize) = Len(q) + 1
         /\ Len(PushDropOldest(q, id, QueueSize)) \in Nat /\ DropsOf(q, QueueSize) \in Nat
<1>1. CASE Full(q, QueueSize)
  <2>1. q # <<>>
    BY <1>1, QueueSizeType DEF Full
  <2>2. /\ Tail(q) \in Seq(Nat) /\ IsInjective(Tail(q))
        /\ Range(Tail(q)) \subseteq Range(q) /\ Len(Tail(q)) = Len(q) - 1
    BY <2>1, PopDistinct
  <2>3. PushDropOldest(q, id, QueueSize) = Append(Tail(q), id)
        /\ DropsOf(q, QueueSize) = 1
    BY <1>1 DEF PushDropOldest, DropsOf
  <2>4. Len(Append(Tail(q), id)) = Len(q) /\ Len(q) \in Nat
    BY <2>2
  <2>5. id \notin Range(Tail(q))
    BY <2>2
  <2>6. IsInjective(Append(Tail(q), id)) /\ Range(Append(Tail(q), id)) = Range(Tail(q)) \cup {id}
    BY <2>2, <2>5, AppendDistinct
  <2> QED
    BY <2>2, <2>3, <2>4, <2>6
<1>2. CASE ~Full(q, QueueSize)
  <2>1. PushDropOldest(q, id, QueueSize) = Append(q, id) /\ DropsOf(q, QueueSize) = 0
    BY <1>2 DEF PushDropOldest, DropsOf
  <2> QED
    BY <2>1, AppendDistinct
<1> QED
  BY <1>1, <1>2
-----------------------------------------------------------------------------
(* In one place.                                                           *)

LEMMA InitPlaces == Init => PlacesInv
<1> SUFFICES ASSUME Init PROVE PlacesInv
  OBVIOUS
<1>1. /\ Range(frame_queue) = {} /\ Range(result_queue) = {} /\ Range(rendered) = {}
      /\ Held = {} /\ pending = {} /\ shown = {}
      /\ IsInjective(frame_queue) /\ IsInjective(result_queue) /\ IsInjective(rendered)
  BY DEF Init, Range, Held, IsInjective
<1>2. \A v, w \in Workers : v # w => held[v] \cap held[w] = {}
  BY DEF Init
<1> QED
  BY <1>1, <1>2 DEF PlacesInv, Disjoint, InFlight

\* A new frame joins the frame queue, and may evict another from it.
LEMMA GrabPlaces == ASSUME TypeOK, PlacesInv, Grab PROVE PlacesInv'
<1>1. /\ frame_queue \in Seq(Nat) /\ Len(frame_queue) <= QueueSize
      /\ frame_id \in Nat /\ IsInjective(frame_queue)
  BY DEF TypeOK, PlacesInv
<1>2. UNCHANGED <<result_queue, held, pending, shown, rendered>> /\ Held' = Held
  BY DEF Grab, reorder, Held
<1>3. \/ UNCHANGED <<frame_queue, frame_id>>
      \/ PushFrame
  BY DEF Grab, OpenFails, ReadSucceeds, ReadFails
<1>4. CASE UNCHANGED <<frame_queue, frame_id>>
  BY <1>2, <1>4 DEF PlacesInv, InFlight
<1>5. CASE PushFrame
  <2>1. \A id \in InFlight \cup pending \cup shown \cup Range(rendered) :
          id < frame_id /\ id # frame_id
    BY <1>1 DEF PlacesInv
  <2>2. frame_id \notin Range(frame_queue)
    BY <2>1 DEF InFlight
  <2>3. /\ IsInjective(frame_queue')
        /\ Range(frame_queue') \subseteq Range(frame_queue) \cup {frame_id}
        /\ frame_id' = frame_id + 1
    BY <1>1, <1>5, <2>2, PushDistinct DEF PushFrame
  <2>4. \A id \in InFlight' \cup pending' \cup shown' \cup Range(rendered') :
          id \in InFlight \cup pending \cup shown \cup Range(rendered) \cup {frame_id}
    BY <1>2, <2>3 DEF InFlight
  <2>5. \A id \in Nat : id < frame_id \/ id = frame_id => id < frame_id'
    BY <1>1, <2>3
  <2>6. InFlight \cup pending \cup shown \cup Range(rendered) \subseteq Nat
    <3>1. /\ frame_queue \in Seq(Nat) /\ result_queue \in Seq(Nat)
          /\ rendered \in Seq(Nat) /\ held \in [Workers -> SUBSET Nat]
          /\ pending \in SUBSET Nat /\ shown \in SUBSET Nat
      BY DEF TypeOK
    <3>2. \A q \in Seq(Nat) : Range(q) \subseteq Nat
      BY DEF Range
    <3> QED
      BY <3>1, <3>2 DEF InFlight, Held
  <2>7. \A id \in InFlight' \cup pending' \cup shown' \cup Range(rendered') : id < frame_id'
    BY <1>1, <2>1, <2>4, <2>5, <2>6
  <2>8. frame_id \notin Held \cup Range(result_queue) \cup pending \cup shown \cup Range(rendered)
    BY <2>1 DEF InFlight
  <2> QED
    BY <1>2, <2>3, <2>7, <2>8 DEF PlacesInv, Disjoint
<1> QED
  BY <1>3, <1>4, <1>5

\* The head of the frame queue moves to the worker.
LEMMA WorkerPopPlaces ==
  ASSUME TypeOK, PlacesInv, NEW w \in Workers, WorkerPop(w)
  PROVE  PlacesInv'
<1> DEFINE id == Head(frame_queue)
<1>1. /\ id \in Range(frame_queue) /\ IsInjective(frame_queue')
      /\ Range(frame_queue') \subseteq Range(frame_queue) \ {id}
  BY PopDistinct DEF TypeOK, PlacesInv, WorkerPop
<1>2. /\ UNCHANGED <<frame_id, result_queue, pending, shown, rendered>>
      /\ held' = [held EXCEPT ![w] = {id}]
  BY DEF WorkerPop, reorder
<1>3. held[w] = {} /\ held \in [Workers -> SUBSET Nat]
  BY DEF TypeOK, WorkerPop
<1> HIDE DEF id
<1>4. /\ Held' = Held \cup {id} /\ held'[w] = {id}
      /\ \A v \in Workers : v # w => held'[v] = held[v]
  BY <1>2, <1>3 DEF Held
<1>5. id \notin Held
  BY <1>1 DEF PlacesInv, Disjoint
<1>6. \A u, v \in Workers : u # v => held'[u] \cap held'[v] = {}
  BY <1>4, <1>5 DEF PlacesInv, Held
<1>7. InFlight' \subseteq InFlight
  BY <1>1, <1>2, <1>4 DEF InFlight
<1> QED
  BY <1>1, <1>2, <1>4, <1>6, <1>7 DEF PlacesInv, Disjoint

\* The worker's frame moves to the result queue, and may evict another.
LEMMA WorkerPushPlaces ==
  ASSUME TypeOK, PlacesInv, NEW w \in Workers, WorkerPush(w)
  PROVE  PlacesInv'
<1>1. PICK id \in held[w] : result_queue' = PushDropOldest(result_queue, id, QueueSize)
  BY DEF WorkerPush
<1>2. /\ UNCHANGED <<frame_id, frame_queue, pending, shown, rendered>>
      /\ held' = [held EXCEPT ![w] = {}]
  BY DEF WorkerPush, reorder
<1>3. held[w] = {id} /\ id \in Nat /\ held \in [Workers -> SUBSET Nat]
  BY <1>1 DEF TypeOK, WorkerPush
<1>4. id \in Held
  BY <1>1 DEF Held
<1>5. id \notin Range(result_queue)
  BY <1>4 DEF PlacesInv, Disjoint
<1>6. /\ IsInjective(result_queue')
      /\ Range(result_queue') \subseteq Range(result_queue) \cup {id}
  BY <1>1, <1>3, <1>5, PushDistinct DEF TypeOK, PlacesInv
<1>7. /\ held'[w] = {} /\ \A v \in Workers : v # w => held'[v] = held[v]
  BY <1>2, <1>3
<1>8. Held' \subseteq Held \ {id}
  BY <1>3, <1>7 DEF Held, PlacesInv
<1>9. \A u, v \in Workers : u # v => held'[u] \cap held'[v] = {}
  BY <1>7 DEF PlacesInv
<1>10. InFlight' \subseteq InFlight
  BY <1>2, <1>4, <1>6, <1>8 DEF InFlight
<1> QED
  BY <1>2, <1>4, <1>6, <1>8, <1>9, <1>10 DEF PlacesInv, Disjoint

\* The head of the result queue moves to the reorder buffer.
LEMMA BufferPlaces ==
  ASSUME TypeOK, PlacesInv, PopResult
  PROVE  /\ IsInjective(result_queue')
         /\ Range(result_queue') \subseteq Range(result_queue) \ Buffer
         /\ Buffer \subseteq Range(result_queue) \cup pending
         /\ result_queue # <<>> => Head(result_queue) \notin pending
<1>1. CASE result_queue = <<>>
  BY <1>1 DEF PopResult, Buffer, PlacesInv, Range
<1>2. CASE result_queue # <<>>
  <2>1. /\ Head(result_queue) \in Range(result_queue) /\ IsInjective(result_queue')
        /\ Range(result_queue') \subseteq Range(result_queue) \ {Head(result_queue)}
    BY <1>2, PopDistinct DEF TypeOK, PlacesInv, PopResult
  <2> QED
    BY <1>2, <2>1 DEF Buffer, PlacesInv, Disjoint
<1> QED
  BY <1>1, <1>2

LEMMA RenderTakePlaces == ASSUME TypeOK, PlacesInv, RenderTake PROVE PlacesInv'
<1>1. /\ PopResult /\ UNCHANGED <<frame_id, frame_queue, held, rendered>> /\ Held' = Held
      /\ pc_render = "pop"
  BY DEF RenderTake, Held
<1>2. PICK id \in Buffer : shown' = {id} /\ pending' = Buffer \ {id}
  BY DEF RenderTake
<1>3. /\ IsInjective(result_queue')
      /\ Range(result_queue') \subseteq Range(result_queue) \ Buffer
      /\ Buffer \subseteq Range(result_queue) \cup pending
  BY <1>1, BufferPlaces
<1>4. InFlight' \subseteq InFlight
  BY <1>1, <1>3 DEF InFlight
<1>5. \A x \in InFlight' \cup pending' \cup shown' \cup Range(rendered') :
        x \in InFlight \cup pending \cup shown \cup Range(rendered)
  BY <1>1, <1>2, <1>3, <1>4 DEF InFlight
<1>6. \A x \in InFlight' \cup pending' \cup shown' \cup Range(rendered') : x < frame_id'
  BY <1>1, <1>5 DEF PlacesInv
<1> QED
  BY <1>1, <1>2, <1>3, <1>6 DEF PlacesInv, Disjoint

LEMMA RenderHoldPlaces == ASSUME TypeOK, PlacesInv, RenderHold PROVE PlacesInv'
<1>1. /\ PopResult /\ pending' = Buffer
      /\ UNCHANGED <<frame_id, frame_queue, held, shown, rendered>> /\ Held' = Held
  BY DEF RenderHold, Held
<1>2. /\ IsInjective(result_queue')
      /\ Range(result_queue') \subseteq Range(result_queue) \ Buffer
      /\ Buffer \subseteq Range(result_queue) \cup pending
  BY <1>1, BufferPlaces
<1>3. InFlight' \cup pending' \subseteq InFlight \cup pending
  BY <1>1, <1>2 DEF InFlight
<1>4. \A x \in InFlight' \cup pending' \cup shown' \cup Range(rendered') : x < frame_id'
  BY <1>1, <1>3 DEF PlacesInv
<1> QED
  BY <1>1, <1>2, <1>4 DEF PlacesInv, Disjoint

\* The frame being delivered has been delivered.
LEMMA RenderShowPlaces == ASSUME TypeOK, PlacesInv, RenderShow PROVE PlacesInv'
<1>1. PICK id \in shown : rendered' = Append(rendered, id)
  BY DEF RenderShow
<1>2. /\ shown' = {} /\ Held' = Held
      /\ UNCHANGED <<frame_id, frame_queue, held, result_queue, pending>>
  BY DEF RenderShow, queues, Held
<1>3. id \in Nat /\ rendered \in Seq(Nat) /\ id \notin Range(rendered)
  BY <1>1 DEF TypeOK, PlacesInv, Disjoint
<1>4. IsInjective(rendered') /\ Range(rendered') = Range(rendered) \cup {id}
  BY <1>1, <1>3, AppendDistinct DEF PlacesInv
<1>5. InFlight' = InFlight
  BY <1>2 DEF InFlight
<1> QED
  BY <1>1, <1>2, <1>4, <1>5 DEF PlacesInv, Disjoint

LEMMA NextPlaces == ASSUME TypeOK, PlacesInv, [Next]_vars PROVE PlacesInv'
<1>1. CASE Grab
  BY <1>1, GrabPlaces
<1>2. ASSUME NEW w \in Workers, WorkerPop(w) PROVE PlacesInv'
  BY <1>2, WorkerPopPlaces
<1>3. ASSUME NEW w \in Workers, WorkerPush(w) PROVE PlacesInv'
  BY <1>3, WorkerPushPlaces
<1>4. CASE RenderTake
  BY <1>4, RenderTakePlaces
<1>5. CASE RenderHold
  BY <1>5, RenderHoldPlaces
<1>6. CASE RenderShow
  BY <1>6, RenderShowPlaces
<1>7. CASE UNCHANGED <<frame_id, queues, held, reorder>>
  BY <1>7 DEF queues, reorder, PlacesInv, InFlight, Held
<1>8. ASSUME NEW w \in Workers, WorkerLoop(w) \/ WorkerPopNothing(w)
      PROVE  UNCHANGED <<frame_id, queues, held, reorder>>
  BY <1>8 DEF WorkerLoop, WorkerPopNothing
<1>9. CaptureLoop \/ RenderLoop \/ StopOnSignal \/ Joined \/ UNCHANGED vars
        => UNCHANGED <<frame_id, queues, held, reorder>>
  BY DEF CaptureLoop, RenderLoop, StopOnSignal, Stop, Joined, vars
<1> QED
  BY <1>1, <1>2, <1>3, <1>4, <1>5, <1>6, <1>7, <1>8, <1>9
  DEF Next, Capture, Worker, Render

LEMMA PlacesHold == Spec => []PlacesInv
  BY InitPlaces, NextPlaces, TypeCorrect, PTL DEF Spec

\* A frame is inferred once and delivered once, and `pending.emplace` never
\* meets an id it already holds, however the threads run and stop.
THEOREM OnePlace == Spec => []FrameInOnePlace
<1>1. PlacesInv => FrameInOnePlace
  BY DEF PlacesInv, FrameInOnePlace, Disjoint
<1> QED
  BY <1>1, PlacesHold, PTL

-----------------------------------------------------------------------------
(* Accounted for.                                                          *)

\* The workers that hold a frame.
Busy == {w \in Workers : held[w] # {}}

LEMMA BusyType == IsFiniteSet(Busy) /\ Cardinality(Busy) \in Nat
<1>1. IsFiniteSet(Busy)
  BY PipelineAssumption, FS_Subset DEF Busy
<1> QED
  BY <1>1, FS_CardinalityType

\* The terms of EveryFrameAccounted, by the thread that takes them on.
ToInfer == Len(frame_queue) + Cardinality(Busy) + frame_drops
ToRender == Len(result_queue) + Cardinality(pending) + result_drops
Delivered == Cardinality(shown) + Len(rendered)

Balance == frame_id = ToInfer + ToRender + Delivered

LEMMA BalanceType ==
  ASSUME TypeOK
  PROVE  /\ frame_id \in Nat /\ Len(frame_queue) \in Nat /\ Cardinality(Busy) \in Nat
         /\ Len(result_queue) \in Nat /\ Cardinality(pending) \in Nat
         /\ Len(rendered) \in Nat /\ frame_drops \in Nat /\ result_drops \in Nat
         /\ Cardinality(shown) \in Nat
         /\ ToInfer \in Nat /\ ToRender \in Nat /\ Delivered \in Nat
<1>1. shown = {} \/ \E id \in shown : shown = {id}
  BY DEF TypeOK
<1>2. Cardinality(shown) \in Nat
  <2>1. CASE shown = {}
    BY <2>1, FS_EmptySet
  <2>2. ASSUME NEW id, shown = {id} PROVE Cardinality(shown) \in Nat
    BY <2>2, FS_Singleton
  <2> QED
    BY <1>1, <2>1, <2>2
<1>3. /\ frame_id \in Nat /\ Len(frame_queue) \in Nat /\ Cardinality(Busy) \in Nat
      /\ Len(result_queue) \in Nat /\ Cardinality(pending) \in Nat
      /\ Len(rendered) \in Nat /\ frame_drops \in Nat /\ result_drops \in Nat
  BY BusyType, FS_CardinalityType DEF TypeOK
<1> QED
  BY <1>2, <1>3 DEF ToInfer, ToRender, Delivered

LEMMA InitBalance == Init => Balance
<1> SUFFICES ASSUME Init PROVE Balance
  OBVIOUS
<1>1. Busy = {} /\ pending = {} /\ shown = {}
  BY DEF Init, Busy
<1>2. /\ frame_id = 0 /\ Len(frame_queue) = 0 /\ Len(result_queue) = 0
      /\ Len(rendered) = 0 /\ frame_drops = 0 /\ result_drops = 0
  BY DEF Init
<1> QED
  BY <1>1, <1>2, FS_EmptySet DEF Balance, ToInfer, ToRender, Delivered

LEMMA GrabBalance == ASSUME TypeOK, PlacesInv, Balance, Grab PROVE Balance'
<1>1. UNCHANGED <<result_queue, result_drops, pending, shown, rendered>> /\ Busy' = Busy
  BY DEF Grab, reorder, Busy
<1>2. CASE UNCHANGED <<frame_queue, frame_drops, frame_id>>
  BY <1>1, <1>2 DEF Balance, ToInfer, ToRender, Delivered
<1>3. CASE PushFrame
  <2>1. frame_id \notin Range(frame_queue)
    BY DEF TypeOK, PlacesInv, InFlight
  <2>2. /\ Len(frame_queue') + DropsOf(frame_queue, QueueSize) = Len(frame_queue) + 1
        /\ Len(frame_queue') \in Nat /\ DropsOf(frame_queue, QueueSize) \in Nat
    BY <1>3, <2>1, PushDistinct DEF TypeOK, PlacesInv, PushFrame
  <2>3. frame_id' = frame_id + 1
        /\ frame_drops' = frame_drops + DropsOf(frame_queue, QueueSize)
    BY <1>3 DEF PushFrame
  <2>4. /\ Len(frame_queue) \in Nat /\ Cardinality(Busy) \in Nat /\ frame_drops \in Nat
        /\ ToInfer \in Nat /\ ToRender \in Nat /\ Delivered \in Nat
    BY BalanceType
  <2>5. ToInfer' = ToInfer + 1
    <3>1. /\ frame_drops' = frame_drops + DropsOf(frame_queue, QueueSize)
          /\ Cardinality(Busy') = Cardinality(Busy)
      BY <1>1, <2>3
    <3>2. /\ Len(frame_queue) \in Nat /\ Cardinality(Busy) \in Nat /\ frame_drops \in Nat
          /\ Len(frame_queue') \in Nat /\ DropsOf(frame_queue, QueueSize) \in Nat
      BY <2>2, <2>4
    <3>3. Len(frame_queue') = Len(frame_queue) + 1 - DropsOf(frame_queue, QueueSize)
      BY <2>2, <3>2
    <3>4. Len(frame_queue') + (frame_drops + DropsOf(frame_queue, QueueSize))
            = Len(frame_queue) + frame_drops + 1
      BY <3>2, <3>3
    <3>5. Len(frame_queue') + Cardinality(Busy)
              + (frame_drops + DropsOf(frame_queue, QueueSize))
            = Len(frame_queue) + Cardinality(Busy) + frame_drops + 1
      BY <3>2, <3>4
    <3> QED
      BY <3>1, <3>5 DEF ToInfer
  <2>6. ToRender' = ToRender /\ Delivered' = Delivered
    BY <1>1 DEF ToRender, Delivered
  <2> QED
    BY <2>3, <2>4, <2>5, <2>6 DEF Balance
<1> QED
  BY <1>2, <1>3 DEF Grab, OpenFails, ReadSucceeds, ReadFails

LEMMA WorkerPopBalance ==
  ASSUME TypeOK, PlacesInv, Balance, NEW w \in Workers, WorkerPop(w)
  PROVE  Balance'
<1>1. /\ UNCHANGED <<frame_id, frame_drops, result_queue, result_drops,
                    pending, shown, rendered>>
      /\ held' = [held EXCEPT ![w] = {Head(frame_queue)}]
  BY DEF WorkerPop, reorder
<1>2. Len(frame_queue') = Len(frame_queue) - 1
  BY DEF TypeOK, WorkerPop
<1>3. held[w] = {} /\ held \in [Workers -> SUBSET Nat]
  BY DEF TypeOK, WorkerPop
<1>4. Busy' = Busy \cup {w} /\ w \notin Busy
  BY <1>1, <1>3 DEF Busy
<1>5. Cardinality(Busy') = Cardinality(Busy) + 1
  BY <1>4, BusyType, FS_AddElement
<1>6. ToInfer' = ToInfer
  BY <1>1, <1>2, <1>5, BalanceType DEF ToInfer
<1>7. ToRender' = ToRender /\ Delivered' = Delivered
  BY <1>1 DEF ToRender, Delivered
<1> QED
  BY <1>1, <1>6, <1>7 DEF Balance

\* A frame that is inferred leaves its worker, whatever it evicts.
LEMMA WorkerPushFlow ==
  ASSUME TypeOK, PlacesInv, NEW w \in Workers, WorkerPush(w)
  PROVE  /\ UNCHANGED frame_id /\ ToInfer' = ToInfer - 1
         /\ ToRender' = ToRender + 1 /\ Delivered' = Delivered
<1>1. PICK id \in held[w] :
        /\ result_queue' = PushDropOldest(result_queue, id, QueueSize)
        /\ result_drops' = result_drops + DropsOf(result_queue, QueueSize)
  BY DEF WorkerPush
<1>2. /\ UNCHANGED <<frame_id, frame_queue, frame_drops, pending, shown, rendered>>
      /\ held' = [held EXCEPT ![w] = {}]
  BY DEF WorkerPush, reorder
<1>3. id \in Nat /\ held \in [Workers -> SUBSET Nat]
  BY <1>1 DEF TypeOK
<1>4. Busy' = Busy \ {w} /\ w \in Busy
  BY <1>1, <1>2, <1>3 DEF Busy
<1>5. Cardinality(Busy') = Cardinality(Busy) - 1
  BY <1>4, BusyType, FS_RemoveElement
<1>6. id \notin Range(result_queue)
  BY <1>1 DEF PlacesInv, Disjoint, Held
<1>7. /\ Len(result_queue') + DropsOf(result_queue, QueueSize) = Len(result_queue) + 1
      /\ Len(result_queue') \in Nat /\ DropsOf(result_queue, QueueSize) \in Nat
  BY <1>1, <1>3, <1>6, PushDistinct DEF TypeOK, PlacesInv
<1>8. ToInfer' = ToInfer - 1
  BY <1>2, <1>5, BalanceType DEF ToInfer
<1>t. /\ Len(result_queue) \in Nat /\ Cardinality(pending) \in Nat
      /\ result_drops \in Nat
  BY BalanceType
<1>9. ToRender' = ToRender + 1
  BY <1>1, <1>2, <1>7, <1>t DEF ToRender
<1>10. Delivered' = Delivered
  BY <1>2 DEF Delivered
<1> QED
  BY <1>2, <1>8, <1>9, <1>10

\* The reorder buffer grows by what the result queue loses.
LEMMA BufferBalance ==
  ASSUME TypeOK, PlacesInv, PopResult
  PROVE  /\ Cardinality(Buffer) + Len(result_queue') = Cardinality(pending) + Len(result_queue)
         /\ Len(result_queue') \in Nat
<1>1. /\ result_queue \in Seq(Nat) /\ IsFiniteSet(pending)
      /\ Cardinality(pending) \in Nat
  BY BufferType DEF TypeOK
<1>2. CASE result_queue = <<>>
  BY <1>1, <1>2 DEF PopResult, Buffer
<1>3. CASE result_queue # <<>>
  <2>1. Buffer = pending \cup {Head(result_queue)} /\ Head(result_queue) \notin pending
    BY <1>3, BufferPlaces DEF Buffer
  <2>2. Cardinality(Buffer) = Cardinality(pending) + 1
    BY <1>1, <2>1, FS_AddElement
  <2>3. Len(result_queue') = Len(result_queue) - 1 /\ Len(result_queue) \in Nat \ {0}
    BY <1>1, <1>3 DEF PopResult
  <2> QED
    BY <1>1, <2>2, <2>3
<1> QED
  BY <1>2, <1>3

LEMMA RenderTakeFlow ==
  ASSUME TypeOK, PlacesInv, RenderTake
  PROVE  /\ UNCHANGED frame_id /\ ToInfer' = ToInfer
         /\ ToRender' = ToRender - 1 /\ Delivered' = Delivered + 1
<1>1. /\ UNCHANGED <<frame_id, frame_queue, frame_drops, result_drops, rendered>>
      /\ Busy' = Busy /\ PopResult /\ pc_render = "pop"
  BY DEF RenderTake, Busy
<1>2. PICK id \in Buffer : shown' = {id} /\ pending' = Buffer \ {id}
  BY DEF RenderTake
<1>3. Cardinality(pending') = Cardinality(Buffer) - 1 /\ Cardinality(Buffer) \in Nat
  BY <1>2, BufferType, FS_RemoveElement
<1>4. Cardinality(shown) = 0 /\ Cardinality(shown') = 1
  BY <1>1, <1>2, FS_EmptySet, FS_Singleton DEF TypeOK
<1>5. ToRender' = ToRender - 1
  BY <1>1, <1>3, BufferBalance, BalanceType DEF ToRender
<1>6. Delivered' = Delivered + 1 /\ ToInfer' = ToInfer
  BY <1>1, <1>4, BalanceType DEF Delivered, ToInfer
<1> QED
  BY <1>1, <1>5, <1>6

LEMMA RenderHoldFlow ==
  ASSUME TypeOK, PlacesInv, RenderHold
  PROVE  /\ UNCHANGED frame_id /\ ToInfer' = ToInfer
         /\ ToRender' = ToRender /\ Delivered' = Delivered
<1>1. /\ UNCHANGED <<frame_id, frame_queue, frame_drops, result_drops, shown, rendered>>
      /\ Busy' = Busy /\ PopResult /\ pending' = Buffer
  BY DEF RenderHold, Busy
<1>2. ToRender' = ToRender
  BY <1>1, BufferBalance, BufferType, BalanceType DEF ToRender
<1>3. Delivered' = Delivered /\ ToInfer' = ToInfer
  BY <1>1 DEF Delivered, ToInfer
<1> QED
  BY <1>1, <1>2, <1>3

LEMMA RenderShowFlow ==
  ASSUME TypeOK, RenderShow
  PROVE  /\ UNCHANGED frame_id /\ ToInfer' = ToInfer
         /\ ToRender' = ToRender /\ Delivered' = Delivered
<1>1. PICK id \in shown : rendered' = Append(rendered, id)
  BY DEF RenderShow
<1>2. /\ UNCHANGED <<frame_id, frame_queue, frame_drops, result_queue, result_drops, pending>>
      /\ Busy' = Busy /\ shown' = {} /\ pc_render = "show"
  BY DEF RenderShow, queues, Busy
<1>3. Cardinality(shown) = 1 /\ Cardinality(shown') = 0
  BY <1>2, FS_EmptySet, FS_Singleton DEF TypeOK
<1>4. Len(rendered') = Len(rendered) + 1
  BY <1>1 DEF TypeOK
<1>5. Delivered' = Delivered
  BY <1>3, <1>4, BalanceType DEF Delivered
<1>6. ToRender' = ToRender /\ ToInfer' = ToInfer
  BY <1>2 DEF ToRender, ToInfer
<1> QED
  BY <1>2, <1>5, <1>6

LEMMA NextBalance == ASSUME TypeOK, PlacesInv, Balance, [Next]_vars PROVE Balance'
<1>1. CASE Grab
  BY <1>1, GrabBalance
<1>2. ASSUME NEW w \in Workers, WorkerPop(w) PROVE Balance'
  BY <1>2, WorkerPopBalance
<1>3. ASSUME NEW w \in Workers, WorkerPush(w) PROVE Balance'
  BY <1>3, WorkerPushFlow, BalanceType DEF Balance
<1>4. CASE RenderTake
  BY <1>4, RenderTakeFlow, BalanceType DEF Balance
<1>5. CASE RenderHold
  BY <1>5, RenderHoldFlow DEF Balance
<1>6. CASE RenderShow
  BY <1>6, RenderShowFlow DEF Balance
<1>7. CASE UNCHANGED <<frame_id, queues, held, reorder>>
  BY <1>7 DEF queues, reorder, Balance, ToInfer, ToRender, Delivered, Busy
<1>8. ASSUME NEW w \in Workers, WorkerLoop(w) \/ WorkerPopNothing(w)
      PROVE  UNCHANGED <<frame_id, queues, held, reorder>>
  BY <1>8 DEF WorkerLoop, WorkerPopNothing
<1>9. CaptureLoop \/ RenderLoop \/ StopOnSignal \/ Joined \/ UNCHANGED vars
        => UNCHANGED <<frame_id, queues, held, reorder>>
  BY DEF CaptureLoop, RenderLoop, StopOnSignal, Stop, Joined, vars
<1> QED
  BY <1>1, <1>2, <1>3, <1>4, <1>5, <1>6, <1>7, <1>8, <1>9
  DEF Next, Capture, Worker, Render

\* The terms of the balance in the order of EveryFrameAccounted.
LEMMA Regroup ==
  ASSUME NEW a \in Nat, NEW b \in Nat, NEW c \in Nat, NEW d \in Nat,
         NEW e \in Nat, NEW f \in Nat, NEW g \in Nat, NEW h \in Nat
  PROVE  (a + b + g) + (c + d + h) + (e + f) = a + b + c + d + e + f + g + h
  OBVIOUS

\* No frame vanishes between capture and delivery without being counted as
\* dropped, whatever the queues evict and whenever the threads stop.
THEOREM FramesAccounted == Spec => []EveryFrameAccounted
<1>1. TypeOK /\ Balance => EveryFrameAccounted
  <2> SUFFICES ASSUME TypeOK, Balance PROVE EveryFrameAccounted
    OBVIOUS
  <2>1. frame_id = Len(frame_queue) + Cardinality(Busy)
                   + Len(result_queue) + Cardinality(pending) + Cardinality(shown)
                   + Len(rendered) + frame_drops + result_drops
    <3>1. /\ Len(frame_queue) \in Nat /\ Cardinality(Busy) \in Nat
          /\ Len(result_queue) \in Nat /\ Cardinality(pending) \in Nat
          /\ Cardinality(shown) \in Nat /\ Len(rendered) \in Nat
          /\ frame_drops \in Nat /\ result_drops \in Nat
      BY BalanceType
    <3>2. (Len(frame_queue) + Cardinality(Busy) + frame_drops)
            + (Len(result_queue) + Cardinality(pending) + result_drops)
            + (Cardinality(shown) + Len(rendered))
          = Len(frame_queue) + Cardinality(Busy) + Len(result_queue)
            + Cardinality(pending) + Cardinality(shown) + Len(rendered)
            + frame_drops + result_drops
      BY <3>1, Regroup
    <3> QED
      BY <3>2 DEF Balance, ToInfer, ToRender, Delivered
  <2> QED
    BY <2>1 DEF Busy, EveryFrameAccounted
<1> QED
  BY <1>1, InitBalance, NextBalance, PlacesHold, TypeCorrect, PTL DEF Spec

-----------------------------------------------------------------------------
(* The benchmark.                                                          *)

Counting == Benchmark /\ BenchmarkFrames > 0

\* A source that ends ends the pipeline.
Endless == LoopVideo \/ Reconnect

\* BenchmarkExact, and that the render thread has not reached the limit as long
\* as it may render another frame.
BenchmarkInv ==
  Counting =>
    /\ Len(rendered) <= BenchmarkFrames
    /\ pc_render # "done" => Len(rendered) < BenchmarkFrames
    /\ ~running /\ pc_main = "serving" /\ Endless => Len(rendered) = BenchmarkFrames

LEMMA NextBenchmark ==
  ASSUME TypeOK, BenchmarkInv, [Next]_vars
  PROVE  BenchmarkInv'
<1> SUFFICES ASSUME Counting PROVE BenchmarkInv'
  BY DEF BenchmarkInv, Counting
<1>1. /\ Len(rendered) <= BenchmarkFrames
      /\ pc_render # "done" => Len(rendered) < BenchmarkFrames
      /\ ~running /\ pc_main = "serving" /\ Endless => Len(rendered) = BenchmarkFrames
      /\ Len(rendered) \in Nat /\ BenchmarkFrames \in Nat
  BY PipelineAssumption DEF BenchmarkInv, TypeOK
<1>2. CASE RenderShow
  <2>1. PICK id \in shown : rendered' = Append(rendered, id)
    BY <1>2 DEF RenderShow
  <2>2. /\ running' = (running /\ ~BenchmarkDone)
        /\ pc_render' = IF BenchmarkDone THEN "done" ELSE "loop"
        /\ pc_render = "show" /\ pc_main' = pc_main
    BY <1>2 DEF RenderShow
  <2>3. Len(rendered') = Len(rendered) + 1
    BY <2>1 DEF TypeOK
  <2>4. Len(rendered) < BenchmarkFrames
    BY <1>1, <2>2
  <2>5. Len(rendered') <= BenchmarkFrames
    BY <1>1, <2>3, <2>4
  <2>6. CASE BenchmarkDone
    <3>1. Len(rendered') = BenchmarkFrames
      BY <1>1, <2>3, <2>5, <2>6 DEF BenchmarkDone
    <3> QED
      BY <2>2, <2>5, <2>6, <3>1 DEF BenchmarkInv
  <2>7. CASE ~BenchmarkDone
    <3>1. Len(rendered') < BenchmarkFrames
      BY <1>1, <2>3, <2>7 DEF BenchmarkDone, Counting
    <3>2. running' = running
      BY <2>2, <2>7 DEF TypeOK
    <3>3. ~(~running /\ pc_main = "serving" /\ Endless)
      BY <1>1, <2>4
    <3> QED
      BY <2>2, <2>5, <3>1, <3>2, <3>3 DEF BenchmarkInv
  <2> QED
    BY <2>6, <2>7
<1>3. CASE ReadFails /\ Grab
  <2>1. UNCHANGED <<rendered, pc_render, pc_main>> /\ (running' = running \/ ~Endless)
    BY <1>3 DEF Grab, ReadFails, reorder, Endless
  <2> QED
    BY <1>1, <2>1 DEF BenchmarkInv, Endless
<1>4. CASE Stop
  BY <1>1, <1>4 DEF Stop, reorder, BenchmarkInv
<1>5. CASE /\ UNCHANGED <<rendered, running>>
           /\ pc_render' = "done" \/ pc_render # "done"
           /\ pc_main' = pc_main \/ pc_main' # "serving"
  BY <1>1, <1>5 DEF BenchmarkInv
<1>6. CASE Grab /\ ~ReadFails
  BY <1>5, <1>6 DEF Grab, OpenFails, ReadSucceeds, PushFrame, reorder
<1>7. CASE CaptureLoop \/ RenderLoop \/ RenderTake \/ RenderHold \/ Joined \/ UNCHANGED vars
  BY <1>5, <1>7 DEF CaptureLoop, RenderLoop, RenderTake, RenderHold, Joined, vars, reorder
<1>8. ASSUME NEW w \in Workers, Worker(w) PROVE BenchmarkInv'
  BY <1>5, <1>8 DEF Worker, WorkerLoop, WorkerPop, WorkerPopNothing, WorkerPush, reorder
<1> QED
  BY <1>2, <1>3, <1>4, <1>6, <1>7, <1>8 DEF Next, Capture, Render, StopOnSignal

LEMMA BenchmarkHolds == Spec => []BenchmarkInv
<1>1. Init => BenchmarkInv
  BY PipelineAssumption DEF Init, BenchmarkInv, Counting
<1> QED
  BY <1>1, NextBenchmark, TypeCorrect, PTL DEF Spec

\* A benchmark never renders a frame too many, and if it ends by itself, on a
\* source that does not end, it has rendered all of them.
THEOREM BenchmarkRuns == Spec => []BenchmarkExact
<1>1. BenchmarkInv => BenchmarkExact
  BY DEF BenchmarkInv, BenchmarkExact, Counting, Endless
<1> QED
  BY <1>1, BenchmarkHolds, PTL

-----------------------------------------------------------------------------
(* Order.  Every place a frame can be in holds only older frames than the   *)
(* places before it, and next_id is never newer than a frame that has still *)
(* to be chosen.  With more workers a worker may hold an older frame than   *)
(* one in the result queue, and RenderedInOrder fails.                      *)

Items(q) == {q[i] : i \in 1 .. Len(q)}

Ordered(q) == \A i, j \in 1 .. Len(q) : i < j => q[i] < q[j]

Below(A, B) == \A a \in A, b \in B : a < b

\* Frames that have not reached renderLoop's choice, by how far they are.
Captured == {frame_id}
Queued == Items(frame_queue) \cup Captured
Inferring == Held \cup Queued
Inferred == Items(result_queue) \cup Inferring
Waiting == pending \cup Inferred

\* The order of the pipeline, place by place: what RenderedInOrder rests on.
OrderInv ==
  /\ Ordered(frame_queue) /\ Ordered(result_queue) /\ Ordered(rendered)
  /\ Below(Items(frame_queue), Captured)
  /\ Below(Held, Queued)
  /\ Below(Items(result_queue), Inferring)
  /\ Below(pending, Inferred)
  /\ \A id \in Waiting : next_id <= id
  /\ Below(shown, {next_id})
  /\ Below(Items(rendered), shown \cup {next_id})

\* At most one inference thread.
SingleWorker == \A v, w \in Workers : v = w

-----------------------------------------------------------------------------
(* Queues.                                                                 *)

LEMMA ItemsType == ASSUME NEW q \in Seq(Nat) PROVE Items(q) \in SUBSET Nat
  BY DEF Items

\* A push behind older items keeps a queue in order and adds only that item.
LEMMA PushOrder ==
  ASSUME NEW q \in Seq(Nat), Len(q) <= QueueSize, Ordered(q),
         NEW id \in Nat, Below(Items(q), {id})
  PROVE  /\ Ordered(PushDropOldest(q, id, QueueSize))
         /\ Items(PushDropOldest(q, id, QueueSize)) \subseteq Items(q) \cup {id}
<1> DEFINE new == PushDropOldest(q, id, QueueSize)
           d == DropsOf(q, QueueSize)
<1>1. /\ new \in Seq(Nat)
      /\ Len(new) = Len(q) + 1 - d
      /\ new[Len(new)] = id
      /\ \A k \in 1 .. Len(new) - 1 : new[k] = q[k + d]
  BY QueueSizeType, PushDropOldestItems
<1>2. d \in {0, 1}
  BY QueueSizeType, DropsOfBound
<1>3. \A i \in 1 .. Len(q) : q[i] < id /\ q[i] \in Nat
  BY DEF Below, Items
<1> HIDE DEF new, d
<1>4. ASSUME NEW i \in 1 .. Len(new), NEW j \in 1 .. Len(new), i < j
      PROVE  new[i] < new[j]
  <2>1. new[i] = q[i + d] /\ i + d \in 1 .. Len(q)
    BY <1>1, <1>2, <1>4
  <2>2. CASE j = Len(new)
    BY <1>1, <1>3, <2>1, <2>2
  <2>3. CASE j # Len(new)
    <3>1. new[j] = q[j + d] /\ j + d \in 1 .. Len(q)
      <4>1. j \in 1 .. Len(new) - 1
        BY <1>1, <1>2, <2>3
      <4> QED
        BY <1>1, <1>2, <4>1
    <3>2. i + d < j + d
      BY <1>2, <1>4
    <3>3. \A a, b \in 1 .. Len(q) : a < b => q[a] < q[b]
      BY DEF Ordered
    <3> QED
      BY <2>1, <3>1, <3>2, <3>3
  <2> QED
    BY <2>2, <2>3
<1>5. ASSUME NEW i \in 1 .. Len(new) PROVE new[i] \in Items(q) \cup {id}
  <2>1. CASE i = Len(new)
    BY <1>1, <2>1
  <2>2. CASE i # Len(new)
    <3>1. new[i] = q[i + d] /\ i + d \in 1 .. Len(q)
      BY <1>1, <1>2, <1>5, <2>2
    <3> QED
      BY <3>1 DEF Items
  <2> QED
    BY <2>1, <2>2
<1> QED
  BY <1>4, <1>5 DEF Ordered, Items, new

\* A pop takes the oldest item and leaves the others in order.
LEMMA PopOrder ==
  ASSUME NEW q \in Seq(Nat), q # <<>>, Ordered(q)
  PROVE  /\ Head(q) \in Items(q) /\ Head(q) \in Nat
         /\ Tail(q) \in Seq(Nat) /\ Ordered(Tail(q))
         /\ Items(Tail(q)) \subseteq Items(q)
         /\ Below({Head(q)}, Items(Tail(q)))
<1>1. /\ Len(q) \in Nat \ {0} /\ Tail(q) \in Seq(Nat) /\ Len(Tail(q)) = Len(q) - 1
      /\ \A i \in 1 .. Len(q) - 1 : Tail(q)[i] = q[i + 1]
      /\ Head(q) = q[1] /\ Head(q) \in Nat
  OBVIOUS
<1>2. \A i \in 1 .. Len(Tail(q)) : i + 1 \in 1 .. Len(q) /\ 1 < i + 1
  BY <1>1
<1>3. Head(q) \in Items(q)
  BY <1>1 DEF Items
<1>4. Ordered(Tail(q))
  BY <1>1, <1>2 DEF Ordered
<1>5. Items(Tail(q)) \subseteq Items(q)
  BY <1>1, <1>2 DEF Items
<1>6. Below({Head(q)}, Items(Tail(q)))
  BY <1>1, <1>2 DEF Ordered, Items, Below
<1> QED
  BY <1>1, <1>3, <1>4, <1>5, <1>6

-----------------------------------------------------------------------------
(* The steps.                                                              *)

LEMMA PlacesType ==
  ASSUME TypeOK
  PROVE  /\ Items(frame_queue) \in SUBSET Nat /\ Items(result_queue) \in SUBSET Nat
         /\ Items(rendered) \in SUBSET Nat /\ Held \in SUBSET Nat
         /\ Queued \in SUBSET Nat /\ Inferring \in SUBSET Nat
         /\ Inferred \in SUBSET Nat /\ Waiting \in SUBSET Nat
<1>1. /\ frame_queue \in Seq(Nat) /\ result_queue \in Seq(Nat)
      /\ rendered \in Seq(Nat) /\ frame_id \in Nat /\ pending \in SUBSET Nat
      /\ held \in [Workers -> SUBSET Nat]
  BY DEF TypeOK
<1>2. Held \in SUBSET Nat
  BY <1>1 DEF Held
<1> QED
  BY <1>1, <1>2, ItemsType DEF Captured, Queued, Inferring, Inferred, Waiting

LEMMA InitOrder == Init => OrderInv
<1> SUFFICES ASSUME Init PROVE OrderInv
  OBVIOUS
<1>1. /\ Items(frame_queue) = {} /\ Items(result_queue) = {}
      /\ Items(rendered) = {} /\ Held = {}
      /\ pending = {} /\ shown = {} /\ next_id = 0 /\ frame_id = 0
  BY DEF Init, Items, Held
<1>2. Ordered(frame_queue) /\ Ordered(result_queue) /\ Ordered(rendered)
  BY DEF Init, Ordered
<1> QED
  BY <1>1, <1>2 DEF OrderInv, Below, Captured, Queued, Inferring, Inferred, Waiting

\* A captured frame is newer than every other.
LEMMA GrabOrder == ASSUME TypeOK, OrderInv, Grab PROVE OrderInv'
<1>1. /\ frame_queue \in Seq(Nat) /\ Len(frame_queue) <= QueueSize
      /\ frame_id \in Nat /\ next_id \in Nat
  BY DEF TypeOK
<1>2. Ordered(frame_queue) /\ Below(Items(frame_queue), {frame_id})
  BY DEF OrderInv, Captured
<1>3. UNCHANGED <<result_queue, held, pending, next_id, shown, rendered>>
  BY DEF Grab, reorder
<1>4. /\ Ordered(frame_queue') /\ frame_id' \in Nat /\ frame_id <= frame_id'
      /\ Items(frame_queue') \subseteq Items(frame_queue) \cup {frame_id}
      /\ Below(Items(frame_queue'), {frame_id'})
  <2>1. CASE PushFrame
    <3>1. /\ Ordered(frame_queue')
          /\ Items(frame_queue') \subseteq Items(frame_queue) \cup {frame_id}
          /\ frame_id' = frame_id + 1
      BY <1>1, <1>2, <2>1, PushOrder DEF PushFrame
    <3>2. \A a \in Items(frame_queue) : a \in Nat /\ a < frame_id
      BY <1>1, <1>2, ItemsType DEF Below
    <3>3. \A a \in Items(frame_queue') : a < frame_id'
      BY <1>1, <3>1, <3>2
    <3> QED
      BY <1>1, <3>1, <3>3 DEF Below
  <2>2. CASE UNCHANGED <<frame_id, frame_queue>>
    BY <1>1, <1>2, <2>2
  <2> QED
    BY <2>1, <2>2 DEF Grab, OpenFails, ReadSucceeds, ReadFails
<1>5. ASSUME NEW A \in SUBSET Nat, Below(A, Queued) PROVE Below(A, Queued')
  <2>1. \A a \in A : a < frame_id
    BY <1>5 DEF Below, Queued, Captured
  <2>2. \A b \in Queued' : b \in Queued \/ b = frame_id'
    BY <1>4 DEF Queued, Captured
  <2>3. \A a \in A : a < frame_id'
    BY <1>1, <1>4, <2>1
  <2> QED
    BY <1>5, <2>2, <2>3 DEF Below
<1>6. Held' = Held
  BY <1>3 DEF Held
<1>7. Below(Held', Queued')
  BY <1>5, <1>6, PlacesType DEF OrderInv
<1>8. Below(Items(result_queue)', Inferring')
  <2>1. Below(Items(result_queue), Held) /\ Below(Items(result_queue), Queued)
    BY DEF OrderInv, Below, Inferring
  <2>2. Below(Items(result_queue), Queued')
    BY <1>5, <2>1, PlacesType
  <2> QED
    BY <1>3, <1>6, <2>1, <2>2 DEF Below, Inferring
<1>9. Below(pending', Inferred')
  <2>1. /\ Below(pending, Items(result_queue)) /\ Below(pending, Held)
        /\ Below(pending, Queued)
    BY DEF OrderInv, Below, Inferring, Inferred
  <2>2. Below(pending, Queued')
    BY <1>5, <2>1 DEF TypeOK
  <2> QED
    BY <1>3, <1>6, <2>1, <2>2 DEF Below, Inferring, Inferred
<1>10. \A id \in Waiting' : next_id' <= id
  <2>1. next_id <= frame_id
    BY DEF OrderInv, Waiting, Inferred, Inferring, Queued, Captured
  <2>2. next_id <= frame_id'
    BY <1>1, <1>4, <2>1
  <2>3. \A id \in Waiting' : id \in Waiting \/ id = frame_id'
    BY <1>3, <1>4, <1>6 DEF Waiting, Inferred, Inferring, Queued, Captured
  <2> QED
    BY <1>3, <2>2, <2>3 DEF OrderInv
<1> QED
  BY <1>3, <1>4, <1>7, <1>8, <1>9, <1>10 DEF OrderInv, Captured

LEMMA WorkerPopOrder ==
  ASSUME TypeOK, OrderInv, SingleWorker, NEW w \in Workers, WorkerPop(w)
  PROVE  OrderInv'
<1>1. /\ UNCHANGED <<frame_id, result_queue, pending, next_id, shown, rendered>>
      /\ frame_queue' = Tail(frame_queue)
  BY DEF WorkerPop, reorder
<1>2. /\ Head(frame_queue) \in Items(frame_queue)
      /\ Ordered(frame_queue')
      /\ Items(frame_queue') \subseteq Items(frame_queue)
      /\ Below({Head(frame_queue)}, Items(frame_queue'))
  BY <1>1, PopOrder DEF WorkerPop, TypeOK, OrderInv
<1>3. Held' = {Head(frame_queue)}
  BY DEF Held, WorkerPop, SingleWorker, TypeOK
<1>4. Below(Items(frame_queue'), Captured') /\ Below(Held', Captured')
  BY <1>1, <1>2, <1>3 DEF OrderInv, Below, Captured
<1>5. Below(Held', Queued')
  BY <1>2, <1>3, <1>4 DEF Below, Queued
<1>6. Inferring' \subseteq Inferring
  BY <1>1, <1>2, <1>3 DEF Inferring, Queued, Captured
<1>7. Below(Items(result_queue)', Inferring')
  BY <1>1, <1>6 DEF OrderInv, Below
<1>8. Inferred' \subseteq Inferred /\ Waiting' \subseteq Waiting
  BY <1>1, <1>6 DEF Inferred, Waiting
<1>9. Below(pending', Inferred') /\ \A id \in Waiting' : next_id' <= id
  BY <1>1, <1>8 DEF OrderInv, Below
<1> QED
  BY <1>1, <1>2, <1>4, <1>5, <1>7, <1>9 DEF OrderInv

\* The only worker finishes its frame before it takes a newer one.
LEMMA WorkerPushOrder ==
  ASSUME TypeOK, OrderInv, SingleWorker, NEW w \in Workers, WorkerPush(w)
  PROVE  OrderInv'
<1>1. UNCHANGED <<frame_id, frame_queue, pending, next_id, shown, rendered>>
  BY DEF WorkerPush, reorder
<1>2. PICK id \in held[w] : result_queue' = PushDropOldest(result_queue, id, QueueSize)
  BY DEF WorkerPush
<1>3. id \in Held /\ id \in Nat
  BY <1>2, PlacesType DEF Held
<1>4. Held' = {}
  BY DEF Held, WorkerPush, SingleWorker, TypeOK
<1>5. Below(Items(result_queue), {id})
  BY <1>3 DEF OrderInv, Below, Inferring
<1>6. /\ Ordered(result_queue')
      /\ Items(result_queue') \subseteq Items(result_queue) \cup {id}
  BY <1>2, <1>3, <1>5, PushOrder DEF TypeOK, OrderInv
<1>7. Queued' = Queued /\ Inferring' = Queued
  BY <1>1, <1>4 DEF Inferring, Queued, Captured
<1>8. Below(Items(result_queue'), Inferring')
  <2>1. Below(Items(result_queue), Queued) /\ Below({id}, Queued)
    BY <1>3 DEF OrderInv, Below, Inferring
  <2> QED
    BY <1>6, <1>7, <2>1 DEF Below
<1>9. Inferred' \subseteq Inferred /\ Waiting' \subseteq Waiting
  BY <1>1, <1>3, <1>6, <1>7 DEF Inferred, Inferring, Waiting
<1>10. Below(pending', Inferred') /\ \A x \in Waiting' : next_id' <= x
  BY <1>1, <1>9 DEF OrderInv, Below
<1>11. Below(Held', Queued')
  BY <1>4 DEF Below
<1> QED
  BY <1>1, <1>6, <1>8, <1>10, <1>11 DEF OrderInv, Captured

\* Everything in the buffer is older than what popWait leaves behind.
LEMMA BufferOrder ==
  ASSUME TypeOK, OrderInv, PopResult, UNCHANGED <<frame_id, frame_queue, held>>
  PROVE  /\ Ordered(result_queue') /\ Below(Items(result_queue'), Inferring')
         /\ Inferring' = Inferring /\ Inferred' \subseteq Inferred
         /\ Buffer \subseteq Waiting /\ Below(Buffer, Inferred')
<1>1. Queued' = Queued /\ Held' = Held /\ Inferring' = Inferring
  BY DEF Inferring, Queued, Captured, Held
<1>2. result_queue \in Seq(Nat) /\ Ordered(result_queue)
  BY DEF TypeOK, OrderInv
<1>3. CASE result_queue = <<>>
  <2>1. result_queue' = result_queue /\ Buffer = pending
    BY <1>3 DEF PopResult, Buffer
  <2>2. Inferred' = Inferred
    BY <1>1, <2>1 DEF Inferred
  <2> QED
    BY <1>1, <1>2, <2>1, <2>2 DEF OrderInv, Waiting
<1>4. CASE result_queue # <<>>
  <2>1. result_queue' = Tail(result_queue) /\ Buffer = pending \cup {Head(result_queue)}
    BY <1>4 DEF PopResult, Buffer
  <2>2. /\ Head(result_queue) \in Items(result_queue)
        /\ Ordered(result_queue')
        /\ Items(result_queue') \subseteq Items(result_queue)
        /\ Below({Head(result_queue)}, Items(result_queue'))
    BY <1>2, <1>4, <2>1, PopOrder
  <2>3. Inferred' \subseteq Inferred /\ Buffer \subseteq Waiting
    BY <1>1, <2>1, <2>2 DEF Inferred, Waiting
  <2>4. Below({Head(result_queue)}, Inferring)
    BY <2>2 DEF OrderInv, Below
  <2>5. Below({Head(result_queue)}, Inferred')
    BY <1>1, <2>2, <2>4 DEF Inferred, Below
  <2>6. Below(pending, Inferred')
    BY <2>3 DEF OrderInv, Below
  <2>7. Below(Items(result_queue'), Inferring')
    BY <1>1, <2>2 DEF OrderInv, Below
  <2> QED
    BY <1>1, <2>1, <2>2, <2>3, <2>5, <2>6, <2>7 DEF Below
<1> QED
  BY <1>3, <1>4

\* renderLoop takes the oldest frame it can still meet.
LEMMA RenderTakeOrder == ASSUME TypeOK, OrderInv, RenderTake PROVE OrderInv'
<1>1. /\ PopResult /\ UNCHANGED <<frame_id, frame_queue, held, rendered>>
      /\ pc_render = "pop"
  BY DEF RenderTake
<1>2. PICK id \in Buffer :
        Ready(id) /\ shown' = {id} /\ pending' = Buffer \ {id} /\ next_id' = id + 1
  BY DEF RenderTake
<1>3. /\ Ordered(result_queue') /\ Below(Items(result_queue'), Inferring')
      /\ Inferring' = Inferring /\ Inferred' \subseteq Inferred
      /\ Buffer \subseteq Waiting /\ Below(Buffer, Inferred')
  BY <1>1, BufferOrder
<1>4. Held' = Held /\ Queued' = Queued /\ Captured' = Captured
  BY <1>1 DEF Held, Queued, Captured
<1>5. Waiting \in SUBSET Nat /\ Inferred \in SUBSET Nat /\ Buffer \in SUBSET Nat
      /\ Items(rendered) \in SUBSET Nat /\ id \in Nat /\ next_id \in Nat
  BY <1>2, PlacesType, BufferType DEF TypeOK
<1>6. next_id <= id /\ \A x \in Buffer : next_id <= x
  BY <1>2, <1>3 DEF OrderInv
<1>7. \A x \in Buffer \ {id} : id < x
  <2>1. \A x \in Buffer : id <= x
    BY <1>2, <1>6 DEF Ready
  <2> QED
    BY <1>5, <2>1
<1>8. \A x \in Waiting' : id < x /\ x \in Nat
  <2>1. \A x \in Inferred' : id < x /\ x \in Nat
    BY <1>2, <1>3, <1>5 DEF Below
  <2>2. \A x \in pending' : id < x /\ x \in Nat
    BY <1>2, <1>5, <1>7
  <2> QED
    BY <2>1, <2>2 DEF Waiting
<1>9. \A x \in Waiting' : next_id' <= x
  BY <1>2, <1>5, <1>8
<1>10. Below(pending', Inferred')
  BY <1>2, <1>3 DEF Below
<1>11. Below(shown', {next_id}')
  BY <1>2, <1>5 DEF Below
<1>12. \A x \in Items(rendered) : x < next_id
  BY DEF OrderInv, Below
<1>13. \A x \in Items(rendered) : x < id /\ x < id + 1
  BY <1>5, <1>6, <1>12
<1>14. Below(Items(rendered)', (shown \cup {next_id})')
  BY <1>1, <1>2, <1>13 DEF Below
<1> QED
  BY <1>1, <1>3, <1>4, <1>9, <1>10, <1>11, <1>14 DEF OrderInv

LEMMA RenderHoldOrder == ASSUME TypeOK, OrderInv, RenderHold PROVE OrderInv'
<1>1. /\ PopResult /\ pending' = Buffer
      /\ UNCHANGED <<frame_id, frame_queue, held, rendered, shown, next_id>>
  BY DEF RenderHold
<1>2. /\ Ordered(result_queue') /\ Below(Items(result_queue'), Inferring')
      /\ Inferring' = Inferring /\ Inferred' \subseteq Inferred
      /\ Buffer \subseteq Waiting /\ Below(Buffer, Inferred')
  BY <1>1, BufferOrder
<1>3. Held' = Held /\ Queued' = Queued /\ Captured' = Captured
  BY <1>1 DEF Held, Queued, Captured
<1>4. Waiting' \subseteq Waiting
  BY <1>1, <1>2 DEF Waiting
<1>5. \A x \in Waiting' : next_id' <= x
  BY <1>1, <1>4 DEF OrderInv
<1> QED
  BY <1>1, <1>2, <1>3, <1>5 DEF OrderInv

LEMMA RenderShowOrder == ASSUME TypeOK, OrderInv, RenderShow PROVE OrderInv'
<1>1. PICK id \in shown : rendered' = Append(rendered, id)
  BY DEF RenderShow
<1>2. /\ shown' = {}
      /\ UNCHANGED <<frame_id, frame_queue, held, result_queue, pending, next_id>>
  BY DEF RenderShow, queues
<1>3. id \in Nat /\ rendered \in Seq(Nat)
  BY DEF TypeOK
<1>4. \A i \in 1 .. Len(rendered) : rendered[i] < id
  BY DEF OrderInv, Below, Items
<1>5. /\ Len(rendered') = Len(rendered) + 1 /\ rendered'[Len(rendered) + 1] = id
      /\ \A i \in 1 .. Len(rendered) : rendered'[i] = rendered[i]
      /\ Len(rendered) \in Nat
  BY <1>1, <1>3
<1>6. \A i, j \in 1 .. Len(rendered) : i < j => rendered[i] < rendered[j]
  BY DEF OrderInv, Ordered
<1>7. Ordered(rendered')
  <2> SUFFICES ASSUME NEW i \in 1 .. Len(rendered'), NEW j \in 1 .. Len(rendered'),
                      i < j
               PROVE  rendered'[i] < rendered'[j]
    BY DEF Ordered
  <2>1. i \in 1 .. Len(rendered)
    BY <1>5
  <2>2. CASE j = Len(rendered) + 1
    BY <1>4, <1>5, <2>1, <2>2
  <2>3. CASE j # Len(rendered) + 1
    <3>1. j \in 1 .. Len(rendered)
      BY <1>5, <2>3
    <3> QED
      BY <1>5, <1>6, <2>1, <3>1
  <2> QED
    BY <2>2, <2>3
<1>8. Items(rendered') \subseteq Items(rendered) \cup {id}
  <2> SUFFICES ASSUME NEW i \in 1 .. Len(rendered')
               PROVE  rendered'[i] \in Items(rendered) \cup {id}
    BY DEF Items
  <2>1. CASE i = Len(rendered) + 1
    BY <1>5, <2>1
  <2>2. CASE i # Len(rendered) + 1
    <3>1. i \in 1 .. Len(rendered)
      BY <1>5, <2>2
    <3> QED
      BY <1>5, <3>1 DEF Items
  <2> QED
    BY <2>1, <2>2
<1>9. Below(Items(rendered'), {next_id})
  BY <1>8 DEF OrderInv, Below
<1>10. /\ Queued' = Queued /\ Held' = Held /\ Inferring' = Inferring
       /\ Inferred' = Inferred /\ Waiting' = Waiting /\ Captured' = Captured
  BY <1>2 DEF Queued, Held, Inferring, Inferred, Waiting, Captured
<1>11. Below(Items(rendered)', (shown \cup {next_id})') /\ Below(shown', {next_id}')
  BY <1>2, <1>9 DEF Below
<1> QED
  BY <1>2, <1>7, <1>10, <1>11 DEF OrderInv

LEMMA NextOrder ==
  ASSUME TypeOK, OrderInv, SingleWorker, [Next]_vars
  PROVE  OrderInv'
<1>1. CASE Grab
  BY <1>1, GrabOrder
<1>2. ASSUME NEW w \in Workers, WorkerPop(w) PROVE OrderInv'
  BY <1>2, WorkerPopOrder
<1>3. ASSUME NEW w \in Workers, WorkerPush(w) PROVE OrderInv'
  BY <1>3, WorkerPushOrder
<1>4. CASE RenderTake
  BY <1>4, RenderTakeOrder
<1>5. CASE RenderHold
  BY <1>5, RenderHoldOrder
<1>6. CASE RenderShow
  BY <1>6, RenderShowOrder
<1>7. CASE UNCHANGED <<frame_id, queues, held, reorder>>
  BY <1>7 DEF OrderInv, Captured, Queued, Held, Inferring, Inferred, Waiting,
     queues, reorder
<1>8. ASSUME NEW w \in Workers, WorkerLoop(w) \/ WorkerPopNothing(w)
      PROVE  UNCHANGED <<frame_id, queues, held, reorder>>
  BY <1>8 DEF WorkerLoop, WorkerPopNothing
<1>9. ASSUME CaptureLoop \/ RenderLoop \/ StopOnSignal \/ Joined \/ UNCHANGED vars
      PROVE  UNCHANGED <<frame_id, queues, held, reorder>>
  BY <1>9 DEF CaptureLoop, RenderLoop, StopOnSignal, Stop, Joined, vars
<1> QED
  BY <1>1, <1>2, <1>3, <1>4, <1>5, <1>6, <1>7, <1>8, <1>9
     DEF Next, Capture, Worker, Render

\* With one inference worker the preview, the events and the result video get
\* the frames in the order they were captured ("ordered render").
THEOREM SingleWorkerOrder ==
  ASSUME SingleWorker
  PROVE  Spec => []RenderedInOrder
<1>1. TypeOK /\ OrderInv => RenderedInOrder
  <2> SUFFICES ASSUME TypeOK, OrderInv PROVE RenderedInOrder
    OBVIOUS
  <2>1. DOMAIN rendered = 1 .. Len(rendered)
    BY DEF TypeOK
  <2> QED
    BY <2>1 DEF OrderInv, Ordered, RenderedInOrder
<1>2. TypeOK /\ OrderInv /\ [Next]_vars => OrderInv'
  BY NextOrder
<1> QED
  BY <1>1, <1>2, InitOrder, TypeCorrect, PTL DEF Spec
=============================================================================
