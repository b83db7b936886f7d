---------------------------- MODULE BoundedQueue ----------------------------
(***************************************************************************)
(* BoundedQueue<T> of include/utils.hpp with the threads that use it, at   *)
(* the grain of its mutex and condition variable.                          *)
(*                                                                         *)
(* pushDropOldest holds the mutex from its first line to its last, so it   *)
(* is one step, taken by any producer.  popWait is several: it evaluates   *)
(* the predicate of wait_for with the mutex held, and between that and     *)
(* the moment the thread is in the condition variable's wait set nothing   *)
(* can be pushed, but notifyAll takes no mutex and `running` is an atomic  *)
(* of the owner, so both can happen in between and be missed.              *)
(*                                                                         *)
(* Items are numbered in the order of the pushes.                          *)
(***************************************************************************)
EXTENDS DropOldest, FiniteSets

CONSTANTS
  Consumers,  \* threads that call popWait in a `while (running)` loop
  MaxSize,    \* the constructor's argument
  MaxPushes   \* bound: number of pushes in a behaviour

NoOne == "no one"

ASSUME QueueAssumption ==
  /\ IsFiniteSet(Consumers) /\ NoOne \notin Consumers
  /\ MaxSize \in Nat
  /\ MaxPushes \in Nat

Capacity == Limit(MaxSize)

VARIABLES
  queue,    \* queue_
  dropped,  \* dropped_
  holder,   \* the consumer inside popWait that holds mutex_, or NoOne
  running,  \* the owner's flag, read by popWait and by the consumers' loops
  pc,       \* where each consumer is
  stopper,  \* where the owner's stop() is
  pushed,   \* history: number of pushes
  popped,   \* history: number of successful pops
  last      \* history: the item popped most recently

vars == <<queue, dropped, holder, running, pc, stopper, pushed, popped, last>>

At(label) == {c \in Consumers : pc[c] = label}
GoTo(c, label) == pc' = [pc EXCEPT ![c] = label]

Init ==
  /\ queue = <<>>
  /\ dropped = 0
  /\ holder = NoOne
  /\ running = TRUE
  /\ pc = [c \in Consumers |-> "loop"]
  /\ stopper = "idle"
  /\ pushed = 0
  /\ popped = 0
  /\ last = 0

-----------------------------------------------------------------------------
(* The producers.                                                          *)

\* Signals only the first item of a burst, the classic mistaken economy.
NotifyFirstOnly ==
  IF At("blocked") = {} \/ queue # <<>>
  THEN UNCHANGED pc
  ELSE \E c \in At("blocked") : GoTo(c, "woken")

\* notify_one: one thread of the wait set, if there is one, becomes runnable.
NotifyOne ==
  IF At("blocked") = {}
  THEN UNCHANGED pc
  ELSE \E c \in At("blocked") : GoTo(c, "woken")

\* pushDropOldest: one critical section.
Push ==
  /\ pushed < MaxPushes
  /\ holder = NoOne
  /\ queue' = PushDropOldest(queue, pushed + 1, Capacity)
  /\ dropped' = dropped + DropsOf(queue, Capacity)
  /\ pushed' = pushed + 1
  /\ NotifyOne
  /\ UNCHANGED <<holder, running, stopper, popped, last>>

-----------------------------------------------------------------------------
(* A consumer: while (running) { if (!popWait(...)) continue; use item }   *)

Loop(c) ==
  /\ pc[c] = "loop"
  /\ GoTo(c, IF running THEN "enter" ELSE "done")
  /\ UNCHANGED <<queue, dropped, holder, running, stopper, pushed, popped, last>>

\* Hands out the item at the back.
TakeBack(c) ==
  /\ pc[c] \in {"enter", "woken", "late"}
  /\ holder = NoOne
  /\ queue # <<>>
  /\ queue' = SubSeq(queue, 1, Len(queue) - 1)
  /\ last' = queue[Len(queue)]
  /\ popped' = popped + 1
  /\ GoTo(c, "using")
  /\ UNCHANGED <<dropped, holder, running, stopper, pushed>>

\* popWait returns true with the front of the queue.
Take(c) ==
  /\ pc[c] \in {"enter", "woken", "late"}
  /\ holder = NoOne
  /\ queue # <<>>
  /\ queue' = Tail(queue)
  /\ last' = Head(queue)
  /\ popped' = popped + 1
  /\ GoTo(c, "using")
  /\ UNCHANGED <<dropped, holder, running, stopper, pushed>>

\* popWait returns false: the queue is empty, and either the wait timed out
\* or the predicate holds because the owner has stopped.
GiveUp(c) ==
  /\ \/ pc[c] = "late"
     \/ pc[c] \in {"enter", "woken"} /\ ~running
  /\ holder = NoOne
  /\ queue = <<>>
  /\ GoTo(c, "loop")
  /\ UNCHANGED <<queue, dropped, holder, running, stopper, pushed, popped, last>>

\* The predicate is false; the mutex stays held until Block.
Decide(c) ==
  /\ pc[c] \in {"enter", "woken"}
  /\ holder = NoOne
  /\ queue = <<>>
  /\ running
  /\ holder' = c
  /\ GoTo(c, "decided")
  /\ UNCHANGED <<queue, dropped, running, stopper, pushed, popped, last>>

\* Enter the wait set and release the mutex, in one step.
Block(c) ==
  /\ pc[c] = "decided"
  /\ holder' = NoOne
  /\ GoTo(c, "blocked")
  /\ UNCHANGED <<queue, dropped, running, stopper, pushed, popped, last>>

\* A condition variable may wake a thread nobody notified.
SpuriousWakeup(c) ==
  /\ pc[c] = "blocked"
  /\ GoTo(c, "woken")
  /\ UNCHANGED <<queue, dropped, holder, running, stopper, pushed, popped, last>>

\* A wait with no deadline.
NoTimeout(c) == FALSE /\ UNCHANGED vars

\* timeout_ms has elapsed: wait_for evaluates the predicate once more and
\* returns whatever it says.
Timeout(c) ==
  /\ pc[c] = "blocked"
  /\ GoTo(c, "late")
  /\ UNCHANGED <<queue, dropped, holder, running, stopper, pushed, popped, last>>

\* The caller is done with the item.
Finish(c) ==
  /\ pc[c] = "using"
  /\ GoTo(c, "loop")
  /\ UNCHANGED <<queue, dropped, holder, running, stopper, pushed, popped, last>>

-----------------------------------------------------------------------------
(* The owner.                                                              *)

\* running_.store(false) with no notification, as captureLoop does at the
\* end of its source, and as stop() does before it notifies.
Quit ==
  /\ running
  /\ running' = FALSE
  /\ UNCHANGED <<queue, dropped, holder, pc, stopper, pushed, popped, last>>

StopStore ==
  /\ stopper = "idle"
  /\ running' = FALSE
  /\ stopper' = "notifying"
  /\ UNCHANGED <<queue, dropped, holder, pc, pushed, popped, last>>

\* notifyAll(), without the mutex.
NotifyAll ==
  /\ stopper = "notifying"
  /\ pc' = [c \in Consumers |-> IF pc[c] = "blocked" THEN "woken" ELSE pc[c]]
  /\ stopper' = "joining"
  /\ UNCHANGED <<queue, dropped, holder, running, pushed, popped, last>>

\* join() returns for every consumer.
Joined ==
  /\ stopper = "joining"
  /\ At("done") = Consumers
  /\ stopper' = "joined"
  /\ UNCHANGED <<queue, dropped, holder, running, pc, pushed, popped, last>>

-----------------------------------------------------------------------------
Consume(c) ==
  \/ Loop(c) \/ Take(c) \/ GiveUp(c) \/ Decide(c) \/ Block(c)
  \/ Timeout(c) \/ Finish(c)

Next ==
  \/ Push
  \/ \E c \in Consumers : Consume(c) \/ SpuriousWakeup(c)
  \/ Quit \/ StopStore \/ NotifyAll \/ Joined

Spec == Init /\ [][Next]_vars

\* Every consumer thread is scheduled, its 200 ms or 100 ms timer expires,
\* and a stop() that has begun goes on.  Nothing obliges a producer to push
\* or the owner to stop.
Fairness ==
  /\ \A c \in Consumers : WF_vars(Consume(c))
  /\ WF_vars(NotifyAll \/ Joined)

FairSpec == Spec /\ Fairness

-----------------------------------------------------------------------------
Labels == {"loop", "enter", "decided", "blocked", "woken", "late", "using", "done"}

\* Every variable holds a value of its kind, and the queue is within its limit.
TypeOK ==
  /\ queue \in Seq(Nat)
  /\ Len(queue) <= Capacity
  /\ dropped \in Nat
  /\ holder \in Consumers \cup {NoOne}
  /\ running \in BOOLEAN
  /\ pc \in [Consumers -> Labels]
  /\ stopper \in {"idle", "notifying", "joining", "joined"}
  /\ pushed \in Nat
  /\ popped \in Nat
  /\ last \in Nat

\* The queue always holds the most recent items, all of them, in order: an
\* item is evicted only from the front and popped only from the front,
\* whatever the interleaving of pushes, waits and timeouts.
HoldsTheNewest ==
  \A i \in 1 .. Len(queue) : queue[i] = pushed - Len(queue) + i

\* dropped() plus the items delivered plus the items still queued is the
\* number of pushes: no item disappears uncounted and none is handed out twice.
EveryItemAccounted == pushed = dropped + popped + Len(queue)

\* A consumer is never left asleep beside an item meant to wake it: while one
\* is in the wait set, every queued item has a thread that was notified and
\* has not run yet.  (Only the timeout, not a lost wakeup, then bounds how
\* long an item waits for a sleeping consumer.)
NoLostWakeup ==
  At("blocked") # {} => Len(queue) <= Cardinality(At("woken"))

\* notifyAll is not under the mutex, so a consumer that has read running_ can
\* go to sleep after it; the timeout still ends the wait, and every consumer
\* leaves its loop after running_ is cleared, notified or not.
StopEndsConsumers == ~running ~> (At("done") = Consumers)

\* The queue implements the window of the most recent items, liveness included.
Window == INSTANCE DropOldestWindow
  WITH hi <- pushed, lo <- pushed - Len(queue), lost <- dropped, open <- running

ImplementsWindow == Window!FairSpec
=============================================================================
