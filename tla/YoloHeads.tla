------------------------------ MODULE YoloHeads ------------------------------
(***************************************************************************)
(* How src/yolo_postprocess.cpp makes detections of a model's outputs.     *)
(* The program sees the dims of a tensor and its numbers; here the numbers *)
(* are what the tensor holds:                                              *)
(*                                                                         *)
(*   "box"      distributions of the distances to a box's edges (DFL)      *)
(*   "cls"      class scores, >= the threshold where an object is          *)
(*   "score"    their sum                                                  *)
(*   "anchors"  decoded rows x, y, w, h, (objectness,) scores              *)
(*                                                                         *)
(* A tensor is [dims, role, scale], and if its role is "anchors" it says   *)
(* whether channels come first and at which channel the classes start.     *)
(* Numbers that are read as something they are not may exceed any          *)
(* threshold; the stray detection this makes is a choice.                  *)
(***************************************************************************)
EXTENDS Integers, Sequences, FiniteSets

CONSTANT ConfThreshold  \* conf_threshold

First(S) == IF S = {} THEN 0 ELSE CHOOSE i \in S : \A j \in S : i <= j

\* shape4NCHW().
Is4D(t) == Len(t.dims) = 4
Channels(t) == t.dims[2]
SameSize(t, u) ==
  Is4D(t) /\ Is4D(u) /\ t.dims[3] = u.dims[3] /\ t.dims[4] = u.dims[4]

IsBoxHead(t) == Is4D(t) /\ Channels(t) % 4 = 0 /\ Channels(t) >= 16

\* The box head itself may be taken for its class head.
ClassHeadOrBox(outputs, names, b) ==
  First({i \in DOMAIN outputs :
           /\ SameSize(outputs[i], outputs[b])
           /\ names <= Channels(outputs[i]) /\ Channels(outputs[i]) <= 512})

\* The first output of the box head's size that has a channel for every name and
\* another number of channels; 0 if there is none.
ClassHead(outputs, names, b) ==
  First({i \in DOMAIN outputs :
           /\ SameSize(outputs[i], outputs[b])
           /\ names <= Channels(outputs[i]) /\ Channels(outputs[i]) <= 512
           /\ Channels(outputs[i]) # Channels(outputs[b])})

ScoreHead(outputs, b) ==
  First({i \in DOMAIN outputs :
           SameSize(outputs[i], outputs[b]) /\ Channels(outputs[i]) = 1})

\* The branches of decodeRockchipYolov8.  It sorts them by size, which nothing
\* depends on, since nmsDetections sorts what they yield.
Branches(outputs, names) ==
  {[box |-> b, cls |-> ClassHead(outputs, names, b),
    score |-> ScoreHead(outputs, b)] :
     b \in {i \in DOMAIN outputs :
              IsBoxHead(outputs[i]) /\ ClassHead(outputs, names, i) # 0}}

-----------------------------------------------------------------------------
(* Detections.  An object is [scale, class, conf, box].                    *)

Visible(o) == o.conf >= ConfThreshold

Anywhere == [x1 |-> 0, y1 |-> 0, x2 |-> 1, y2 |-> 1]

\* What output `by` says of an object, and what is read from meaningless numbers.
Reading(o, by) ==
  [by |-> by, genuine |-> TRUE, object |-> o,
   class |-> o.class, conf |-> o.conf, box |-> o.box]
Stray(by) ==
  [by |-> by, genuine |-> FALSE, object |-> 0,
   class |-> 0, conf |-> ConfThreshold, box |-> Anywhere]

\* Per cell of each branch: the best of the first `names` class scores, unless the
\* score head is below the threshold there, with the box of that cell.
HeadReadings(outputs, names, scene) ==
  UNION {LET box == outputs[br.box]
             cls == outputs[br.cls]
         IN {Reading(o, br.box) :
               o \in {o \in scene : /\ box.role = "box" /\ cls.role = "cls"
                                    /\ o.scale = box.scale /\ Visible(o)
                                    /\ o.class < names}} :
         br \in Branches(outputs, names)}

\* A branch whose heads are not a box and a class head.
HeadStrays(outputs, names, scene) ==
  {Stray(br.box) : br \in
     {br \in Branches(outputs, names) :
        /\ outputs[br.box].role # "box" \/ outputs[br.cls].role # "cls"
        /\ br.score = 0 \/ \E o \in scene : /\ o.scale = outputs[br.box].scale
                                            /\ Visible(o)}}

\* The last two dims choose between decodeChannelsFirst and decodeRows.
ChannelsFirst(t) ==
  LET a == t.dims[Len(t.dims) - 1]
      b == t.dims[Len(t.dims)]
  IN a <= 256 /\ b > a

Width(t) ==
  IF ChannelsFirst(t) THEN t.dims[Len(t.dims) - 1] ELSE t.dims[Len(t.dims)]

\* Objectness is assumed in every row.
ClassOffsetFive(t, names) == 5

\* class_offset: a row with room for the classes and one more has objectness.
ClassOffset(t, names) == IF Width(t) >= names + 5 THEN 5 ELSE 4

Decodable(t) == Len(t.dims) >= 2 /\ Width(t) >= 6

ReadAsMeant(t, names) ==
  /\ t.role = "anchors"
  /\ ChannelsFirst(t) = t.channels_first
  /\ ClassOffset(t, names) = t.class_offset

\* The loop over all outputs that follows when the heads have given nothing.
RowReadings(outputs, names, scene) ==
  {Reading(o, i) :
     i \in {i \in DOMAIN outputs :
              Decodable(outputs[i]) /\ ReadAsMeant(outputs[i], names)},
     o \in {o \in scene : Visible(o) /\ o.class < names}}

\* Rows that are not rows: the numbers of a box head exceed any threshold, those
\* of another head do where an object is.
RowStrays(outputs, names, scene) ==
  {Stray(i) : i \in
     {i \in DOMAIN outputs :
        /\ Decodable(outputs[i]) /\ ~ReadAsMeant(outputs[i], names)
        /\ \/ outputs[i].role = "box"
           \/ \E o \in scene : Visible(o) /\ o.scale = outputs[i].scale}}
=============================================================================
