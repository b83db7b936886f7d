-------------------------- MODULE MCYoloPostprocess --------------------------
(***************************************************************************)
(* YoloPostprocess for TLC: models with heads in every order, decoded      *)
(* models in both orientations, scenes that NMS has to thin out, pictures  *)
(* of many shapes.                                                         *)
(***************************************************************************)
EXTENDS YoloPostprocess, SequencesExt

Conf == 25         \* in percent
Nms45 == <<9, 20>> \* 0.45

\* Heads as the model zoo exports them: 16 bins for each edge.
HeadTensor(role, s, classes) ==
  [dims |-> <<1, CASE role = "box" -> 64 [] role = "cls" -> classes
                   [] role = "score" -> 1, s, s>>,
   role |-> role, scale |-> s]

Nine(classes) ==
  [i \in 1 .. 9 |->
     HeadTensor(<<"box", "cls", "score">>[((i - 1) % 3) + 1],
                <<80, 40, 20>>[((i - 1) \div 3) + 1], classes)]

\* Two scales with score heads, three without.
Six(classes) ==
  {HeadTensor(r, s, classes) : r \in Heads, s \in {80, 40}}
SixUnscored(classes) ==
  {HeadTensor(r, s, classes) : r \in {"box", "cls"}, s \in {80, 40, 20}}

Decoded(dims, first, offset) ==
  <<[dims |-> dims, role |-> "anchors", scale |-> 0, channels_first |-> first,
     class_offset |-> offset]>>

\* Boxes in a row: of A and C exactly 0.45 is shared, of B and either more.
Box(x) == [x1 |-> x, y1 |-> 0, x2 |-> x + 29, y2 |-> 10]
A == Box(0)
B == Box(6)
C == Box(11)

Object(s, class, conf, box) ==
  [scale |-> s, class |-> class, conf |-> conf, box |-> box]

Pool ==
  {Object(80, 0, 90, A), Object(40, 0, 60, B), Object(80, 0, 30, C),
   Object(40, 1, 60, B), Object(20, 0, 90, A), Object(80, 0, 24, C),
   Object(20, 2, 25, C)}

Scenes == {S \in SUBSET Pool : Cardinality(S) <= 4}
SomeScene == {Object(80, 0, 90, A), Object(40, 1, 60, A)}

Square == [w |-> 16, h |-> 16, input_w |-> 16, input_h |-> 16]
Sizes ==
  [w : {1, 2, 3, 5, 7, 16, 31, 100}, h : {1, 2, 4, 7, 9, 16, 99},
   input_w : {1, 2, 15, 16}, input_h : {1, 15, 16}]

Input(outputs, names, scene, size) ==
  [outputs |-> outputs, names |-> names, scene |-> scene, size |-> size]

SupportedInputs ==
  {Input(o, n, SomeScene, Square) :
     n \in {3}, o \in SetToSeqs(Six(3)) \cup SetToSeqs(SixUnscored(3))}
  \cup {Input(o, 80, SomeScene, Square) : o \in SetToSeqs(Six(80))}
  \cup {Input(Nine(80), 80, S, Square) : S \in Scenes}
  \cup {Input(o, 80, S, Square) :
          o \in {Decoded(<<1, 84, 8400>>, TRUE, 4), Decoded(<<84, 8400>>, TRUE, 4),
                 Decoded(<<1, 8400, 84>>, FALSE, 4), Decoded(<<8400, 84>>, FALSE, 4),
                 Decoded(<<1, 8400, 85>>, FALSE, 5)},
          S \in Scenes}
  \cup {Input(Nine(80), 80, SomeScene, z) : z \in Sizes}

\* All of them are calls the theorems speak of.
ASSUME SupportedAssumption == \A in \in SupportedInputs : Supported(in)

\* The shipped model in front of an empty scene.
Empty == {Input(Nine(80), 80, {}, Square)}
=============================================================================
