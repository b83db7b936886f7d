-------------------------- MODULE DropOldestProofs --------------------------
(***************************************************************************)
(* What a push does to a queue that is within its limit: lemmas that the   *)
(* proofs about BoundedQueue and VideoPipeline rest on.                    *)
(***************************************************************************)
EXTENDS DropOldest, TLAPS

\* What a push adds to the drop counter is zero or one, and one only if the
\* queue is at its limit.
LEMMA DropsOfBound ==
  ASSUME NEW q \in Seq(Nat), NEW max \in Nat \ {0}, Len(q) <= max
  PROVE  /\ DropsOf(q, max) \in {0, 1}
         /\ DropsOf(q, max) = 1 => Len(q) = max
         /\ DropsOf(q, max) = 0 => Len(q) < max
         /\ DropsOf(q, max) <= Len(q)
  BY DEF DropsOf, Full

\* A push leaves a queue within its limit: the items it had, in order, without
\* the evicted one, and the new item behind them.
LEMMA PushDropOldestItems ==
  ASSUME NEW q \in Seq(Nat), NEW item \in Nat,
         NEW max \in Nat \ {0}, Len(q) <= max
  PROVE  /\ PushDropOldest(q, item, max) \in Seq(Nat)
         /\ Len(PushDropOldest(q, item, max)) = Len(q) + 1 - DropsOf(q, max)
         /\ Len(PushDropOldest(q, item, max)) <= max
         /\ PushDropOldest(q, item, max)[Len(PushDropOldest(q, item, max))] = item
         /\ \A i \in 1 .. Len(PushDropOldest(q, item, max)) - 1 :
              PushDropOldest(q, item, max)[i] = q[i + DropsOf(q, max)]
<1>1. CASE Full(q, max)
  <2>1. Len(q) = max /\ q # <<>>
    BY <1>1 DEF Full
  <2>2. /\ Tail(q) \in Seq(Nat)
        /\ Len(Tail(q)) = Len(q) - 1
        /\ \A i \in 1 .. Len(q) - 1 : Tail(q)[i] = q[i + 1]
    BY <2>1
  <2> QED
    BY <1>1, <2>1, <2>2 DEF PushDropOldest, DropsOf
<1>2. CASE ~Full(q, max)
  BY <1>2 DEF PushDropOldest, DropsOf, Full
<1> QED
  BY <1>1, <1>2

\* An item of a queue after a push is the new one or one that was there.
LEMMA PushDropOldestMembers ==
  ASSUME NEW q \in Seq(Nat), NEW item \in Nat,
         NEW max \in Nat \ {0}, Len(q) <= max,
         NEW i \in 1 .. Len(PushDropOldest(q, item, max))
  PROVE  \/ PushDropOldest(q, item, max)[i] = item
         \/ \E j \in 1 .. Len(q) : PushDropOldest(q, item, max)[i] = q[j]
<1> DEFINE new == PushDropOldest(q, item, max)
           d == DropsOf(q, max)
<1>1. /\ Len(new) = Len(q) + 1 - d
      /\ new[Len(new)] = item
      /\ \A k \in 1 .. Len(new) - 1 : new[k] = q[k + d]
  BY PushDropOldestItems
<1>2. d \in {0, 1}
  BY DropsOfBound
<1>3. CASE i = Len(new)
  BY <1>1, <1>3
<1>4. CASE i # Len(new)
  <2> HIDE DEF new, d
  <2>1. i \in 1 .. Len(new) - 1 /\ i + d \in 1 .. Len(q)
    BY <1>1, <1>2, <1>4 DEF new
  <2> QED
    BY <1>1, <2>1 DEF new
<1> QED
  BY <1>3, <1>4
=============================================================================
