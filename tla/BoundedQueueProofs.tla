------------------------- MODULE BoundedQueueProofs -------------------------
(***************************************************************************)
(* The safety properties of BoundedQueue for every number of consumers,    *)
(* every limit and every number of pushes, and the safety half of its      *)
(* refinement of DropOldestWindow.                                         *)
(***************************************************************************)
EXTENDS BoundedQueue, DropOldestProofs, FiniteSetTheorems

LEMMA CapacityType == Capacity \in Nat \ {0}
  BY QueueAssumption DEF Capacity, Limit

\* A consumer between its predicate and the wait set holds the mutex, and
\* the queue is still as empty as it was when the predicate was evaluated:
\* what NoLostWakeup needs to be inductive.
DecidedOnEmpty ==
  \A c \in Consumers : pc[c] = "decided" => holder = c /\ queue = <<>>

Inv == TypeOK /\ HoldsTheNewest /\ EveryItemAccounted

-----------------------------------------------------------------------------
(* What the queue holds.                                                   *)

LEMMA InitInv == Init => Inv
<1> SUFFICES ASSUME Init PROVE Inv
  OBVIOUS
<1>1. TypeOK
  BY CapacityType DEF Init, TypeOK, Labels
<1>2. HoldsTheNewest /\ EveryItemAccounted
  BY DEF Init, HoldsTheNewest, EveryItemAccounted
<1> QED
  BY <1>1, <1>2 DEF Inv

LEMMA PushKeepsInv == ASSUME Inv, Push PROVE Inv'
<1> DEFINE new == PushDropOldest(queue, pushed + 1, Capacity)
           d == DropsOf(queue, Capacity)
<1>1. /\ queue \in Seq(Nat) /\ Len(queue) <= Capacity
      /\ pushed \in Nat /\ dropped \in Nat /\ popped \in Nat
      /\ Capacity \in Nat \ {0} /\ pushed + 1 \in Nat
  BY CapacityType DEF Inv, TypeOK
<1>2. /\ new \in Seq(Nat) /\ Len(new) = Len(queue) + 1 - d /\ Len(new) <= Capacity
      /\ new[Len(new)] = pushed + 1
      /\ \A i \in 1 .. Len(new) - 1 : new[i] = queue[i + d]
  BY <1>1, PushDropOldestItems
<1>3. d \in {0, 1} /\ d <= Len(queue)
  BY <1>1, DropsOfBound
<1>4. /\ queue' = new /\ dropped' = dropped + d /\ pushed' = pushed + 1
      /\ UNCHANGED <<holder, running, stopper, popped, last>>
  BY DEF Push
<1>5. pc' \in [Consumers -> Labels]
  BY DEF Inv, TypeOK, Push, NotifyOne, GoTo, Labels
<1> HIDE DEF new, d
<1>6. TypeOK'
  BY <1>1, <1>2, <1>3, <1>4, <1>5 DEF Inv, TypeOK
<1>7. HoldsTheNewest'
  <2>1. ASSUME NEW i \in 1 .. Len(new)
        PROVE  new[i] = (pushed + 1) - Len(new) + i
    <3>1. CASE i = Len(new)
      BY <1>1, <1>2, <3>1
    <3>2. CASE i # Len(new)
      <4>1. i \in 1 .. Len(new) - 1 /\ i + d \in 1 .. Len(queue)
        BY <1>1, <1>2, <1>3, <3>2
      <4>2. new[i] = queue[i + d]
        BY <1>2, <4>1
      <4>3. queue[i + d] = pushed - Len(queue) + (i + d)
        BY <4>1 DEF Inv, HoldsTheNewest
      <4> QED
        BY <1>1, <1>2, <1>3, <4>1, <4>2, <4>3
    <3> QED
      BY <3>1, <3>2
  <2> QED
    BY <1>4, <2>1 DEF HoldsTheNewest
<1>8. EveryItemAccounted'
  BY <1>1, <1>2, <1>3, <1>4 DEF Inv, EveryItemAccounted
<1> QED
  BY <1>6, <1>7, <1>8 DEF Inv

LEMMA TakeKeepsInv == ASSUME Inv, NEW c \in Consumers, Take(c) PROVE Inv'
<1>1. /\ queue \in Seq(Nat) /\ queue # <<>> /\ Len(queue) <= Capacity
      /\ pushed \in Nat /\ dropped \in Nat /\ popped \in Nat
      /\ Capacity \in Nat \ {0}
  BY CapacityType DEF Inv, TypeOK, Take
<1>2. /\ Tail(queue) \in Seq(Nat) /\ Len(Tail(queue)) = Len(queue) - 1
      /\ \A i \in 1 .. Len(queue) - 1 : Tail(queue)[i] = queue[i + 1]
      /\ Head(queue) \in Nat
  BY <1>1
<1>3. /\ queue' = Tail(queue) /\ last' = Head(queue) /\ popped' = popped + 1
      /\ UNCHANGED <<dropped, holder, running, stopper, pushed>>
      /\ pc' = [pc EXCEPT ![c] = "using"]
  BY DEF Take, GoTo
<1>4. TypeOK'
  BY <1>1, <1>2, <1>3 DEF Inv, TypeOK, Labels
<1>5. HoldsTheNewest'
  <2> SUFFICES ASSUME NEW i \in 1 .. Len(queue) - 1
               PROVE  Tail(queue)[i] = pushed - (Len(queue) - 1) + i
    BY <1>2, <1>3 DEF HoldsTheNewest
  <2>1. i + 1 \in 1 .. Len(queue)
    BY <1>1
  <2>2. queue[i + 1] = pushed - Len(queue) + (i + 1)
    BY <2>1 DEF Inv, HoldsTheNewest
  <2> QED
    BY <1>1, <1>2, <2>1, <2>2
<1>6. EveryItemAccounted'
  BY <1>1, <1>2, <1>3 DEF Inv, EveryItemAccounted
<1> QED
  BY <1>4, <1>5, <1>6 DEF Inv

\* The other steps leave the queue and its counters alone.
LEMMA OthersKeepInv ==
  ASSUME Inv, TypeOK', UNCHANGED <<queue, dropped, pushed, popped>>
  PROVE  Inv'
  BY DEF Inv, HoldsTheNewest, EveryItemAccounted

LEMMA NextKeepsInv == ASSUME Inv, [Next]_vars PROVE Inv'
<1> USE DEF Inv, TypeOK, Labels, GoTo
<1>1. CASE Push
  BY <1>1, PushKeepsInv
<1>2. ASSUME NEW c \in Consumers, Loop(c) PROVE Inv'
  BY <1>2, OthersKeepInv DEF Loop
<1>3. ASSUME NEW c \in Consumers, Take(c) PROVE Inv'
  BY <1>3, TakeKeepsInv
<1>4. ASSUME NEW c \in Consumers, GiveUp(c) PROVE Inv'
  BY <1>4, OthersKeepInv DEF GiveUp
<1>5. ASSUME NEW c \in Consumers, Decide(c) PROVE Inv'
  BY <1>5, OthersKeepInv DEF Decide
<1>6. ASSUME NEW c \in Consumers, Block(c) PROVE Inv'
  BY <1>6, OthersKeepInv DEF Block
<1>7. ASSUME NEW c \in Consumers, Timeout(c) PROVE Inv'
  BY <1>7, OthersKeepInv DEF Timeout
<1>8. ASSUME NEW c \in Consumers, Finish(c) PROVE Inv'
  BY <1>8, OthersKeepInv DEF Finish
<1>9. ASSUME NEW c \in Consumers, SpuriousWakeup(c) PROVE Inv'
  BY <1>9, OthersKeepInv DEF SpuriousWakeup
<1>10. CASE Quit
  BY <1>10, OthersKeepInv DEF Quit
<1>11. CASE StopStore
  BY <1>11, OthersKeepInv DEF StopStore
<1>12. CASE NotifyAll
  BY <1>12, OthersKeepInv DEF NotifyAll
<1>13. CASE Joined
  BY <1>13, OthersKeepInv DEF Joined
<1>14. CASE UNCHANGED vars
  BY <1>14, OthersKeepInv DEF vars
<1> QED
  BY <1>1, <1>2, <1>3, <1>4, <1>5, <1>6, <1>7, <1>8, <1>9, <1>10, <1>11,
     <1>12, <1>13, <1>14 DEF Next, Consume

THEOREM Invariance == Spec => []Inv
<1>1. Init => Inv
  BY InitInv
<1>2. Inv /\ [Next]_vars => Inv'
  BY NextKeepsInv
<1> QED
  BY <1>1, <1>2, PTL DEF Spec

\* The queue stays within its limit and every variable keeps its type.
THEOREM TypeCorrect == Spec => []TypeOK
<1>1. Inv => TypeOK
  BY DEF Inv
<1> QED
  BY <1>1, Invariance, PTL

\* The queue is always the most recent items in order, for every limit and
\* every interleaving of pushes and pops.
THEOREM NewestHeld == Spec => []HoldsTheNewest
<1>1. Inv => HoldsTheNewest
  BY DEF Inv
<1> QED
  BY <1>1, Invariance, PTL

\* No item disappears uncounted and none is handed out twice.
THEOREM ItemsAccounted == Spec => []EveryItemAccounted
<1>1. Inv => EveryItemAccounted
  BY DEF Inv
<1> QED
  BY <1>1, Invariance, PTL

-----------------------------------------------------------------------------
(* No lost wakeup.                                                         *)

\* The consumers at a label are finitely many.
LEMMA AtFinite ==
  ASSUME NEW label
  PROVE  IsFiniteSet(At(label)) /\ Cardinality(At(label)) \in Nat
<1>1. At(label) \in SUBSET Consumers
  BY DEF At
<1> QED
  BY <1>1, FS_Subset, FS_CardinalityType, QueueAssumption

WakeInv == Inv /\ DecidedOnEmpty /\ NoLostWakeup

\* A thread that is woken is one more that is awake.
LEMMA Waking ==
  ASSUME Inv, NEW c \in At("blocked"), GoTo(c, "woken")
  PROVE  Cardinality(At("woken"))' = Cardinality(At("woken")) + 1
<1>1. At("woken")' = At("woken") \cup {c} /\ c \notin At("woken")
  BY DEF At, GoTo, Inv, TypeOK
<1> QED
  BY <1>1, AtFinite, FS_AddElement

LEMMA PushWakes == ASSUME WakeInv, Push PROVE NoLostWakeup'
<1>1. Len(queue') <= Len(queue) + 1 /\ Len(queue) \in Nat /\ Len(queue') \in Nat
  <2>1. /\ queue \in Seq(Nat) /\ Len(queue) <= Capacity
        /\ Capacity \in Nat \ {0} /\ pushed + 1 \in Nat
    BY CapacityType DEF WakeInv, Inv, TypeOK
  <2>2. queue' = PushDropOldest(queue, pushed + 1, Capacity)
    BY DEF Push
  <2>3. Len(queue') = Len(queue) + 1 - DropsOf(queue, Capacity)
    BY <2>1, <2>2, PushDropOldestItems
  <2>4. DropsOf(queue, Capacity) \in {0, 1} /\ DropsOf(queue, Capacity) <= Len(queue)
    BY <2>1, DropsOfBound
  <2> QED
    BY <2>1, <2>3, <2>4
<1>2. CASE At("blocked") = {}
  <2>1. At("blocked")' = {}
    BY <1>2 DEF Push, NotifyOne, At
  <2> QED
    BY <2>1 DEF NoLostWakeup
<1>3. CASE At("blocked") # {}
  <2>1. PICK c \in At("blocked") : GoTo(c, "woken")
    BY <1>3 DEF Push, NotifyOne
  <2>2. Cardinality(At("woken"))' = Cardinality(At("woken")) + 1
    BY <2>1, Waking DEF WakeInv
  <2>3. Len(queue) <= Cardinality(At("woken"))
    BY <1>3 DEF WakeInv, NoLostWakeup
  <2>4. Cardinality(At("woken")) \in Nat
    BY AtFinite
  <2> QED
    BY <1>1, <2>2, <2>3, <2>4 DEF NoLostWakeup
<1> QED
  BY <1>2, <1>3

LEMMA TakeUsesItsWakeup ==
  ASSUME WakeInv, NEW c \in Consumers, Take(c)
  PROVE  NoLostWakeup'
<1>1. Len(queue') = Len(queue) - 1 /\ Len(queue) \in Nat
  BY DEF WakeInv, Inv, TypeOK, Take
<1>2. At("blocked")' = At("blocked")
  BY DEF Take, GoTo, At, WakeInv, Inv, TypeOK
<1>3. Cardinality(At("woken"))' >= Cardinality(At("woken")) - 1
  <2>1. At("woken")' = At("woken") \ {c}
    BY DEF Take, GoTo, At, WakeInv, Inv, TypeOK
  <2>2. /\ IsFiniteSet(At("woken")) /\ Cardinality(At("woken")) \in Nat
    BY AtFinite
  <2> QED
    BY <2>1, <2>2, FS_RemoveElement
<1>4. Cardinality(At("woken")) \in Nat /\ Cardinality(At("woken"))' \in Nat
  <2>1. At("woken")' = At("woken") \ {c}
    BY DEF Take, GoTo, At, WakeInv, Inv, TypeOK
  <2> QED
    BY <2>1, AtFinite, FS_RemoveElement, FS_CardinalityType
<1> QED
  BY <1>1, <1>2, <1>3, <1>4 DEF WakeInv, NoLostWakeup

\* With an empty queue there is nothing to wake anybody for.
LEMMA EmptyNeedsNoWakeup == ASSUME queue' = <<>> PROVE NoLostWakeup'
<1>1. Len(queue') = 0
  OBVIOUS
<1>2. Cardinality(At("woken")') \in Nat
  <2>1. At("woken")' \in SUBSET Consumers
    BY DEF At
  <2> QED
    BY <2>1, FS_Subset, FS_CardinalityType, QueueAssumption
<1> QED
  BY <1>1, <1>2 DEF NoLostWakeup

\* A step that leaves the queue alone, puts nobody to sleep and takes nobody
\* who was woken elsewhere.
LEMMA SleepersUndisturbed ==
  ASSUME WakeInv, UNCHANGED queue,
         At("blocked")' \subseteq At("blocked"), At("woken")' = At("woken")
  PROVE  NoLostWakeup'
  BY DEF WakeInv, NoLostWakeup

LEMMA SpuriousWakeupKeeps ==
  ASSUME WakeInv, NEW c \in Consumers, SpuriousWakeup(c)
  PROVE  NoLostWakeup'
<1>1. c \in At("blocked") /\ GoTo(c, "woken") /\ queue' = queue
  BY DEF SpuriousWakeup, At
<1>2. Cardinality(At("woken"))' = Cardinality(At("woken")) + 1
  BY <1>1, Waking DEF WakeInv
<1>3. Len(queue) <= Cardinality(At("woken"))
  BY <1>1 DEF WakeInv, NoLostWakeup
<1>4. Cardinality(At("woken")) \in Nat /\ Len(queue) \in Nat
  BY AtFinite DEF WakeInv, Inv, TypeOK
<1> QED
  BY <1>1, <1>2, <1>3, <1>4 DEF NoLostWakeup

LEMMA NextKeepsNoLostWakeup == ASSUME WakeInv, [Next]_vars PROVE NoLostWakeup'
<1> USE DEF GoTo, At
<1>1. CASE Push
  BY <1>1, PushWakes
<1>2. ASSUME NEW c \in Consumers, Loop(c) PROVE NoLostWakeup'
  BY <1>2, SleepersUndisturbed DEF Loop, WakeInv, Inv, TypeOK
<1>3. ASSUME NEW c \in Consumers, Take(c) PROVE NoLostWakeup'
  BY <1>3, TakeUsesItsWakeup
<1>4. ASSUME NEW c \in Consumers, GiveUp(c) PROVE NoLostWakeup'
  BY <1>4, EmptyNeedsNoWakeup DEF GiveUp
<1>5. ASSUME NEW c \in Consumers, Decide(c) PROVE NoLostWakeup'
  BY <1>5, EmptyNeedsNoWakeup DEF Decide
<1>6. ASSUME NEW c \in Consumers, Block(c) PROVE NoLostWakeup'
  BY <1>6, EmptyNeedsNoWakeup DEF Block, WakeInv, DecidedOnEmpty
<1>7. ASSUME NEW c \in Consumers, Timeout(c) PROVE NoLostWakeup'
  BY <1>7, SleepersUndisturbed DEF Timeout, WakeInv, Inv, TypeOK
<1>8. ASSUME NEW c \in Consumers, Finish(c) PROVE NoLostWakeup'
  BY <1>8, SleepersUndisturbed DEF Finish, WakeInv, Inv, TypeOK
<1>9. ASSUME NEW c \in Consumers, SpuriousWakeup(c) PROVE NoLostWakeup'
  BY <1>9, SpuriousWakeupKeeps
<1>10. CASE Quit
  BY <1>10, SleepersUndisturbed DEF Quit
<1>11. CASE StopStore
  BY <1>11, SleepersUndisturbed DEF StopStore
<1>12. CASE NotifyAll
  <2>1. At("blocked")' = {}
    BY <1>12 DEF NotifyAll
  <2> QED
    BY <2>1 DEF NoLostWakeup
<1>13. CASE Joined
  BY <1>13, SleepersUndisturbed DEF Joined
<1>14. CASE UNCHANGED vars
  BY <1>14, SleepersUndisturbed DEF vars
<1> QED
  BY <1>1, <1>2, <1>3, <1>4, <1>5, <1>6, <1>7, <1>8, <1>9, <1>10, <1>11,
     <1>12, <1>13, <1>14 DEF Next, Consume

LEMMA NextKeepsDecidedOnEmpty ==
  ASSUME WakeInv, [Next]_vars
  PROVE  DecidedOnEmpty'
<1> USE DEF WakeInv, Inv, TypeOK, DecidedOnEmpty, GoTo
<1>1. CASE Push
  BY <1>1, QueueAssumption DEF Push, NotifyOne, At
<1>2. ASSUME NEW c \in Consumers, Loop(c) PROVE DecidedOnEmpty'
  BY <1>2 DEF Loop
<1>3. ASSUME NEW c \in Consumers, Take(c) PROVE DecidedOnEmpty'
  BY <1>3, QueueAssumption DEF Take
<1>4. ASSUME NEW c \in Consumers, GiveUp(c) PROVE DecidedOnEmpty'
  BY <1>4 DEF GiveUp
<1>5. ASSUME NEW c \in Consumers, Decide(c) PROVE DecidedOnEmpty'
  BY <1>5, QueueAssumption DEF Decide
<1>6. ASSUME NEW c \in Consumers, Block(c) PROVE DecidedOnEmpty'
  BY <1>6 DEF Block
<1>7. ASSUME NEW c \in Consumers, Timeout(c) PROVE DecidedOnEmpty'
  BY <1>7 DEF Timeout
<1>8. ASSUME NEW c \in Consumers, Finish(c) PROVE DecidedOnEmpty'
  BY <1>8 DEF Finish
<1>9. ASSUME NEW c \in Consumers, SpuriousWakeup(c) PROVE DecidedOnEmpty'
  BY <1>9 DEF SpuriousWakeup
<1>10. CASE Quit
  BY <1>10 DEF Quit
<1>11. CASE StopStore
  BY <1>11 DEF StopStore
<1>12. CASE NotifyAll
  BY <1>12 DEF NotifyAll
<1>13. CASE Joined
  BY <1>13 DEF Joined
<1>14. CASE UNCHANGED vars
  BY <1>14 DEF vars
<1> QED
  BY <1>1, <1>2, <1>3, <1>4, <1>5, <1>6, <1>7, <1>8, <1>9, <1>10, <1>11,
     <1>12, <1>13, <1>14 DEF Next, Consume

\* However many consumers there are, a queued item never waits beside a
\* sleeping consumer without a wakeup on its way.
THEOREM WakeupsNotLost == Spec => []NoLostWakeup
<1>1. Init => WakeInv
  <2>1. Init => DecidedOnEmpty /\ At("blocked") = {}
    BY DEF Init, DecidedOnEmpty, At
  <2> QED
    BY <2>1, InitInv DEF WakeInv, NoLostWakeup
<1>2. WakeInv /\ [Next]_vars => WakeInv'
  BY NextKeepsInv, NextKeepsNoLostWakeup, NextKeepsDecidedOnEmpty DEF WakeInv
<1>3. WakeInv => NoLostWakeup
  BY DEF WakeInv
<1> QED
  BY <1>1, <1>2, <1>3, PTL DEF Spec

-----------------------------------------------------------------------------
(* Refinement.                                                             *)

LEMMA InitRefines == Init => Window!Init
<1> SUFFICES ASSUME Init PROVE Window!Init
  OBVIOUS
<1>1. Len(queue) = 0 /\ pushed = 0
  BY DEF Init
<1>2. 0 - 0 = 0
  OBVIOUS
<1> QED
  BY <1>1, <1>2 DEF Init, Window!Init

LEMMA PushRefines == ASSUME Inv, Push PROVE Window!Push
<1>1. /\ queue \in Seq(Nat) /\ Len(queue) <= Capacity
      /\ Capacity \in Nat \ {0} /\ pushed \in Nat /\ pushed + 1 \in Nat
  BY CapacityType DEF Inv, TypeOK
<1>2. /\ queue' = PushDropOldest(queue, pushed + 1, Capacity)
      /\ dropped' = dropped + DropsOf(queue, Capacity)
      /\ pushed' = pushed + 1 /\ UNCHANGED <<last, running>>
  BY DEF Push
<1>3. Len(queue') = Len(queue) + 1 - DropsOf(queue, Capacity)
  BY <1>1, <1>2, PushDropOldestItems
<1>4. CASE Len(queue) < Capacity
  BY <1>1, <1>2, <1>3, <1>4 DEF DropsOf, Full, Window!Push, Inv, TypeOK
<1>5. CASE Len(queue) = Capacity
  BY <1>1, <1>2, <1>3, <1>5 DEF DropsOf, Full, Window!Push, Inv, TypeOK
<1> QED
  BY <1>1, <1>4, <1>5

LEMMA TakeRefines == ASSUME Inv, NEW c \in Consumers, Take(c) PROVE Window!Pop
<1>1. /\ queue \in Seq(Nat) /\ queue # <<>> /\ pushed \in Nat
      /\ queue' = Tail(queue) /\ last' = Head(queue)
      /\ UNCHANGED <<pushed, dropped, running>>
  BY DEF Inv, TypeOK, Take
<1>2. Len(queue) \in Nat /\ Len(queue) # 0 /\ Len(queue') = Len(queue) - 1
  BY <1>1
<1>3. Head(queue) = pushed - Len(queue) + 1
  BY <1>1, <1>2 DEF Inv, HoldsTheNewest
<1> QED
  BY <1>1, <1>2, <1>3 DEF Window!Pop

LEMMA NextRefines == ASSUME Inv, [Next]_vars PROVE [Window!Next]_(Window!vars)
<1> DEFINE Same == UNCHANGED Window!vars
<1> USE DEF Window!vars
<1>1. CASE Push
  BY <1>1, PushRefines DEF Window!Next
<1>2. ASSUME NEW c \in Consumers, Take(c) PROVE Window!Next
  BY <1>2, TakeRefines DEF Window!Next
<1>3. ASSUME NEW c \in Consumers,
             Loop(c) \/ GiveUp(c) \/ Decide(c) \/ Block(c) \/ Timeout(c)
               \/ Finish(c) \/ SpuriousWakeup(c)
      PROVE  Same
  BY <1>3 DEF Loop, GiveUp, Decide, Block, Timeout, Finish, SpuriousWakeup
<1>4. CASE Quit \/ StopStore
  BY <1>4 DEF Quit, StopStore, Window!Next, Window!Close
<1>5. CASE NotifyAll \/ Joined \/ UNCHANGED vars
  BY <1>5 DEF NotifyAll, Joined, vars
<1> QED
  BY <1>1, <1>2, <1>3, <1>4, <1>5 DEF Next, Consume

\* The mutex, the condition variable and the deque implement the window of
\* the most recent items: every step of the queue is a push, a pop or the
\* closing of the window, or changes nothing of it.
THEOREM ImplementsWindowSafety == Spec => Window!Spec
<1>1. Inv /\ [Next]_vars => [Window!Next]_(Window!vars)
  BY NextRefines
<1> QED
  BY <1>1, InitRefines, Invariance, PTL DEF Spec, Window!Spec
=============================================================================
