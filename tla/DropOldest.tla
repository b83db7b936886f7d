---------------------------- MODULE DropOldest ----------------------------
(***************************************************************************)
(* The data operation of BoundedQueue (include/utils.hpp) that every       *)
(* queue of the program is built on: append, and when the queue is at its  *)
(* limit evict the item at the front first.                                *)
(***************************************************************************)
EXTENDS Naturals, Sequences

\* BoundedQueue's constructor: a limit of zero is read as one.
Limit(max_size) == IF max_size = 0 THEN 1 ELSE max_size

Full(q, max_size) == Len(q) >= max_size

\* A queue that forgets to make room first.
GrowingPush(q, item, max_size) == Append(q, item)

\* A queue that refuses the new item instead of evicting the old one.
DropNewestPush(q, item, max_size) ==
  IF Full(q, max_size) THEN q ELSE Append(q, item)

\* The queue after pushDropOldest(item).
PushDropOldest(q, item, max_size) ==
  Append(IF Full(q, max_size) THEN Tail(q) ELSE q, item)

\* Counts an eviction one item too late.
DropsBeyond(q, max_size) == IF Len(q) > max_size THEN 1 ELSE 0

\* What pushDropOldest adds to the queue's drop counter.
DropsOf(q, max_size) == IF Full(q, max_size) THEN 1 ELSE 0
============================================================================
