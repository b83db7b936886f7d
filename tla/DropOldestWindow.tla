------------------------- MODULE DropOldestWindow --------------------------
(***************************************************************************)
(* What a BoundedQueue promises the threads that share it, with no mutex,  *)
(* condition variable or queue in sight: items are numbered in the order   *)
(* of the pushes, and the queue is the window lo+1 .. hi of the most       *)
(* recent ones.  A push moves hi, and moves lo too when the window is at   *)
(* its limit; a pop hands out item lo+1 and nothing else.  While the queue *)
(* is open, a non-empty window does not stay as it is.                     *)
(***************************************************************************)
EXTENDS Naturals

CONSTANT Capacity

VARIABLES
  hi,    \* items pushed so far
  lo,    \* items that have left the window, popped or evicted
  last,  \* the item popped most recently, 0 before the first
  lost,  \* items evicted
  open   \* FALSE once the owner has told the queue's users to stop

vars == <<hi, lo, last, lost, open>>

Init ==
  /\ hi = 0
  /\ lo = 0
  /\ last = 0
  /\ lost = 0
  /\ open = TRUE

Push ==
  /\ hi' = hi + 1
  /\ \/ /\ hi - lo < Capacity
        /\ UNCHANGED <<lo, lost>>
     \/ /\ hi - lo = Capacity
        /\ lo' = lo + 1
        /\ lost' = lost + 1
  /\ UNCHANGED <<last, open>>

Pop ==
  /\ lo < hi
  /\ lo' = lo + 1
  /\ last' = lo + 1
  /\ UNCHANGED <<hi, lost, open>>

Close ==
  /\ open' = FALSE
  /\ UNCHANGED <<hi, lo, last, lost>>

Next == Push \/ Pop \/ Close

Spec == Init /\ [][Next]_vars

FairSpec == Spec /\ WF_vars(open /\ Pop)
============================================================================
