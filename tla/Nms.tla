--------------------------------- MODULE Nms ---------------------------------
(***************************************************************************)
(* nmsDetections() of src/yolo_postprocess.cpp, one iteration of its outer *)
(* loop per step.  A detection has a class, a confidence and a box with    *)
(* integer corners; kept holds ranks in the sorted sequence.               *)
(***************************************************************************)
EXTENDS Integers, Sequences, FiniteSets

CONSTANT NmsThreshold  \* nms_threshold as a fraction <<num, den>>

ASSUME NmsAssumption == NmsThreshold \in Int \X (Nat \ {0})

VARIABLES
  sorted,   \* the detections by confidence
  rank,     \* the loop's index i
  removed,  \* which detections have been suppressed
  kept      \* the ranks of those pushed to the result

nmsVars == <<sorted, rank, removed, kept>>

Least(a, b) == IF a <= b THEN a ELSE b
Most(a, b) == IF a >= b THEN a ELSE b

Area(b) == Most(0, b.x2 - b.x1) * Most(0, b.y2 - b.y1)

\* The area two boxes share.
Inter(a, b) ==
  Area([x1 |-> Most(a.x1, b.x1), y1 |-> Most(a.y1, b.y1),
        x2 |-> Least(a.x2, b.x2), y2 |-> Least(a.y2, b.y2)])

\* iou(a, b) > nms_threshold.  The smallest area that is divided by stands for the
\* code's 1e-6: two empty boxes have iou 0.
Overlap(a, b) ==
  Inter(a, b) * NmsThreshold[2]
    > NmsThreshold[1] * Most(1, Area(a) + Area(b) - Inter(a, b))

Suppresses(d, e) == d.class = e.class /\ Overlap(d.box, e.box)

\* The result of std::sort by descending confidence.  The sort is not stable:
\* detections of one confidence come in any order.
Sorted(found) ==
  {s \in [1 .. Cardinality(found) -> found] :
     \A i, j \in DOMAIN s :
       i < j => s[i] # s[j] /\ s[i].conf >= s[j].conf}

NmsInit == sorted = <<>> /\ rank = 1 /\ removed = <<>> /\ kept = <<>>

NmsStart(found) ==
  /\ sorted' \in Sorted(found)
  /\ rank' = 1
  /\ removed' = [i \in DOMAIN sorted' |-> FALSE]
  /\ kept' = <<>>

\* Detections that have been removed themselves go on removing others.
NmsStepByRemoved ==
  /\ rank \in DOMAIN sorted
  /\ kept' = IF removed[rank] THEN kept ELSE Append(kept, rank)
  /\ removed' = [j \in DOMAIN sorted |->
                   removed[j] \/ (rank < j /\ Suppresses(sorted[rank], sorted[j]))]
  /\ rank' = rank + 1
  /\ UNCHANGED sorted

\* A detection that has not been removed is kept and removes those after it
\* that it suppresses.
NmsStep ==
  /\ rank \in DOMAIN sorted
  /\ kept' = IF removed[rank] THEN kept ELSE Append(kept, rank)
  /\ removed' = [j \in DOMAIN sorted |->
                   \/ removed[j]
                   \/ /\ ~removed[rank] /\ rank < j
                      /\ Suppresses(sorted[rank], sorted[j])]
  /\ rank' = rank + 1
  /\ UNCHANGED sorted

NmsDone == rank \notin DOMAIN sorted

Kept == {kept[i] : i \in DOMAIN kept}

-----------------------------------------------------------------------------
\* The reference definition of non-maximum suppression, over what is kept alone:
\* a detection is kept if and only if none that is kept and ranked before it
\* suppresses it.
GreedySelection ==
  \A j \in DOMAIN sorted :
    j < rank => (j \in Kept <=> \A k \in Kept :
                                  k < j => ~Suppresses(sorted[k], sorted[j]))
=============================================================================
