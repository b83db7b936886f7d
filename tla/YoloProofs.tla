----------------------------- MODULE YoloProofs -----------------------------
(***************************************************************************)
(* For every set of detections NMS makes the selection of its reference    *)
(* definition, a picture of any size fits the network's input, and from a  *)
(* supported model and what it sees, the call reports the scene.           *)
(***************************************************************************)
EXTENDS YoloPostprocess, FunctionTheorems, FiniteSetTheorems, TLAPS

\* What the marks of the loop mean: the kept are the unmarked ranks before i, and
\* a rank is marked if and only if one of the kept before it suppresses it.
SelectionInv ==
  /\ rank \in Nat \ {0}
  /\ kept \in Seq(Nat)
  /\ DOMAIN sorted \subseteq Nat
  /\ removed \in [DOMAIN sorted -> BOOLEAN]
  /\ Kept = {j \in DOMAIN sorted : j < rank /\ ~removed[j]}
  /\ \A j \in DOMAIN sorted :
       removed[j] <=> \E k \in Kept : k < j /\ Suppresses(sorted[k], sorted[j])

\* Pushing a rank adds it to the kept.
LEMMA KeptAppend ==
  ASSUME NEW s \in Seq(Nat), NEW r \in Nat
  PROVE  {Append(s, r)[i] : i \in DOMAIN Append(s, r)}
           = {s[i] : i \in DOMAIN s} \cup {r}
<1> DEFINE t == Append(s, r)
<1>1. /\ DOMAIN s = 1 .. Len(s) /\ DOMAIN t = 1 .. Len(s) + 1 /\ Len(s) \in Nat
      /\ t[Len(s) + 1] = r /\ \A i \in 1 .. Len(s) : t[i] = s[i]
  OBVIOUS
<1> HIDE DEF t
<1>2. ASSUME NEW i \in DOMAIN t PROVE t[i] \in {s[j] : j \in DOMAIN s} \cup {r}
  <2>1. CASE i = Len(s) + 1
    BY <2>1, <1>1
  <2>2. CASE i # Len(s) + 1
    BY <2>2, <1>1
  <2> QED BY <2>1, <2>2
<1>3. ASSUME NEW j \in DOMAIN s PROVE s[j] \in {t[i] : i \in DOMAIN t}
  BY <1>1
<1>4. r \in {t[i] : i \in DOMAIN t}
  BY <1>1
<1> QED BY <1>2, <1>3, <1>4 DEF t

\* One iteration of the loop preserves the meaning of the marks.
LEMMA SelectPreserves ==
  ASSUME SelectionInv, NmsStep
  PROVE  SelectionInv'
<1> USE DEF SelectionInv
<1>1. /\ rank \in DOMAIN sorted /\ rank \in Nat \ {0} /\ rank' = rank + 1
      /\ sorted' = sorted
  BY DEF NmsStep
<1>2. /\ removed' \in [DOMAIN sorted -> BOOLEAN]
      /\ \A j \in DOMAIN sorted :
           removed'[j] <=> \/ removed[j]
                           \/ /\ ~removed[rank] /\ rank < j
                              /\ Suppresses(sorted[rank], sorted[j])
  BY DEF NmsStep
<1>3. kept' \in Seq(Nat)
  BY DEF NmsStep
<1>4. \A j \in DOMAIN sorted : j <= rank => (removed'[j] <=> removed[j])
  BY <1>1, <1>2
<1>5. CASE removed[rank]
  <2>1. Kept' = Kept
    BY <1>5 DEF NmsStep, Kept
  <2>2. \A j \in DOMAIN sorted : removed'[j] <=> removed[j]
    BY <1>2, <1>5
  <2>3. Kept = {j \in DOMAIN sorted : j < rank + 1 /\ ~removed'[j]}
    BY <2>2, <1>1, <1>5
  <2> QED BY <1>1, <1>2, <1>3, <2>1, <2>2, <2>3
<1>6. CASE ~removed[rank]
  <2>1. Kept' = Kept \cup {rank}
    <3>1. kept' = Append(kept, rank) /\ kept \in Seq(Nat) /\ rank \in Nat
      BY <1>6 DEF NmsStep
    <3>2. {Append(kept, rank)[i] : i \in DOMAIN Append(kept, rank)}
            = {kept[i] : i \in DOMAIN kept} \cup {rank}
      BY <3>1, KeptAppend
    <3> QED BY <3>1, <3>2, Zenon DEF Kept
  <2>2. Kept' = {j \in DOMAIN sorted : j < rank + 1 /\ ~removed'[j]}
    BY <2>1, <1>1, <1>4, <1>6
  <2>3. ASSUME NEW j \in DOMAIN sorted
        PROVE  removed'[j] <=>
                 \E k \in Kept' : k < j /\ Suppresses(sorted[k], sorted[j])
    <3>1. removed'[j] <=> \/ removed[j]
                          \/ rank < j /\ Suppresses(sorted[rank], sorted[j])
      BY <1>2, <1>6
    <3>2. removed[j] <=> \E k \in Kept : k < j /\ Suppresses(sorted[k], sorted[j])
      OBVIOUS
    <3> QED BY <3>1, <3>2, <2>1
  <2> QED BY <1>1, <1>2, <1>3, <2>2, <2>3
<1> QED BY <1>5, <1>6

\* NMS starts without marks.
LEMMA StartEstablishes ==
  ASSUME NEW D, NmsStart(D)
  PROVE  SelectionInv'
<1>1. sorted' \in [1 .. Cardinality(D) -> D]
  BY DEF NmsStart, Sorted
<1>2. DOMAIN sorted' \subseteq Nat
  BY <1>1
<1>3. Kept' = {} /\ kept' \in Seq(Nat)
  BY DEF NmsStart, Kept
<1> QED BY <1>2, <1>3 DEF NmsStart, SelectionInv

\* GreedySelection for every input: what nmsDetections returns is what the
\* reference definition selects, at every iteration.
THEOREM Selection == Spec => []GreedySelection
<1>1. Init => SelectionInv
  <2> SUFFICES ASSUME Init PROVE SelectionInv
    OBVIOUS
  <2>1. Kept = {} /\ kept \in Seq(Nat) /\ DOMAIN sorted = {}
    BY DEF Init, NmsInit, Kept
  <2> QED BY <2>1 DEF Init, NmsInit, SelectionInv
<1>2. SelectionInv /\ [Next]_vars => SelectionInv'
  <2> SUFFICES ASSUME SelectionInv, [Next]_vars PROVE SelectionInv'
    OBVIOUS
  <2>1. CASE UNCHANGED nmsVars
    BY <2>1 DEF SelectionInv, Kept, nmsVars
  <2>2. CASE SortDetections
    BY <2>2, StartEstablishes DEF SortDetections
  <2>3. CASE Select
    BY <2>3, SelectPreserves DEF Select
  <2> QED BY <2>1, <2>2, <2>3 DEF Next, DecodeHeads, DecodeRows, Return, vars
<1>3. SelectionInv => GreedySelection
  BY DEF SelectionInv, GreedySelection
<1> QED BY <1>1, <1>2, <1>3, PTL DEF Spec

-----------------------------------------------------------------------------
\* Division, for positive divisors.
LEMMA Quotient ==
  ASSUME NEW a \in Nat, NEW b \in Nat \ {0}
  PROVE  a \div b \in Nat /\ b * (a \div b) <= a /\ a < b * (a \div b) + b
OBVIOUS

\* A side whose length is at least 1 and that, scaled, is no longer than the
\* input: rounding and the minimum of 1 keep it inside.
LEMMA Side ==
  ASSUME NEW n \in Nat \ {0}, NEW input_n \in Nat \ {0},
         NEW num \in Nat \ {0}, NEW den \in Nat \ {0}, n * num <= input_n * den
  PROVE  LET new == Resized(n, <<num, den>>)
         IN SideSound(n, input_n, new, Pad(input_n, new), <<num, den>>)
<1> DEFINE rounded == (2 * n * num + den) \div (2 * den)
           new == Resized(n, <<num, den>>)
           pad == Pad(input_n, new)
<1>1. /\ rounded \in Nat
      /\ 2 * den * rounded <= 2 * n * num + den
      /\ 2 * n * num + den < 2 * den * rounded + 2 * den
  <2>1. 2 * n * num + den \in Nat /\ 2 * den \in Nat \ {0}
    OBVIOUS
  <2> QED BY <2>1, Quotient
<1>2. rounded <= input_n
  <2>1. 2 * den * rounded < 2 * den * (input_n + 1)
    BY <1>1
  <2> QED BY <2>1, <1>1
<1>3. new = (IF rounded < 1 THEN 1 ELSE rounded)
  BY DEF Resized
<1>4. new \in Nat /\ new >= 1 /\ new <= input_n
  <2> HIDE DEF rounded, new
  <2> QED BY <1>1, <1>2, <1>3
<1>5. pad \in Nat /\ 2 * pad <= input_n - new /\ input_n - new < 2 * pad + 2
  <2> HIDE DEF new
  <2>1. input_n - new \in Nat
    BY <1>4
  <2> QED BY <2>1, Quotient DEF Pad
<1> HIDE DEF rounded, new, pad
<1>6. pad >= 0 /\ pad + new <= input_n /\ input_n - new - 2 * pad \in {0, 1}
  BY <1>4, <1>5
<1>7. new # 1 => 2 * (new * den - n * num) \in -den .. den
  BY <1>1, <1>3
<1> QED BY <1>4, <1>6, <1>7 DEF SideSound, new, pad

\* The side that the scale is taken from is filled exactly.
LEMMA Fills ==
  ASSUME NEW n \in Nat \ {0}, NEW input_n \in Nat \ {0}
  PROVE  Resized(n, <<input_n, n>>) = input_n
<1> DEFINE q == (2 * n * input_n + n) \div (2 * n)
<1>1. q \in Nat /\ 2 * n * q <= 2 * n * input_n + n
      /\ 2 * n * input_n + n < 2 * n * q + 2 * n
  <2>1. 2 * n * input_n + n \in Nat /\ 2 * n \in Nat \ {0}
    OBVIOUS
  <2> QED BY <2>1, Quotient
<1>2. q = input_n
  <2> HIDE DEF q
  <2>1. q <= input_n /\ q >= input_n
    BY <1>1
  <2> QED BY <2>1, <1>1
<1> QED BY <1>2 DEF Resized

\* What letterbox() copies lies inside the network's input, and its coordinates
\* can be restored, whatever the sizes.
LEMMA LetterboxSound ==
  ASSUME NEW w \in Nat \ {0}, NEW h \in Nat \ {0},
         NEW input_w \in Nat \ {0}, NEW input_h \in Nat \ {0}
  PROVE  Sound(w, h, input_w, input_h)
<1>1. CASE input_w * h <= input_h * w
  <2>1. Scale(w, h, input_w, input_h) = <<input_w, w>>
    BY <1>1 DEF Scale
  <2>2. /\ w * input_w <= input_w * w
        /\ h * input_w <= input_h * w
    BY <1>1
  <2>3. Resized(w, <<input_w, w>>) = input_w
    BY Fills
  <2> QED BY <2>1, <2>2, <2>3, Side DEF Sound, letterbox
<1>2. CASE ~(input_w * h <= input_h * w)
  <2>1. Scale(w, h, input_w, input_h) = <<input_h, h>>
    BY <1>2 DEF Scale
  <2>2. /\ h * input_h <= input_h * h
        /\ w * input_h <= input_w * h
    BY <1>2
  <2>3. Resized(h, <<input_h, h>>) = input_h
    BY Fills
  <2> QED BY <2>1, <2>2, <2>3, Side DEF Sound, letterbox
<1> QED BY <1>1, <1>2

\* PictureFits for every picture and every input size.
THEOREM PictureAlwaysFits == Spec => []PictureFits
<1>1. Init => input \in Inputs
  BY DEF Init
<1>2. input \in Inputs /\ [Next]_vars => (input \in Inputs)'
  BY DEF Next, DecodeHeads, DecodeRows, SortDetections, Select, Return, vars
<1>3. input \in Inputs => PictureFits
  BY InputsAssumption, LetterboxSound DEF PictureFits
<1> QED BY <1>1, <1>2, <1>3, PTL DEF Spec

-----------------------------------------------------------------------------
(* Heads.                                                                  *)

LEMMA FirstOnly == First({}) = 0 /\ \A i \in Int : First({i}) = i
  BY DEF First

\* What the shapes of a model with heads show.
LEMMA HeadShapes ==
  ASSUME NEW outputs, NEW names, HeadModel(outputs, names), NEW b \in DOMAIN outputs
  PROVE  /\ outputs[b].role = "box" =>
              /\ IsBoxHead(outputs[b])
              /\ {i \in DOMAIN outputs :
                    /\ SameSize(outputs[i], outputs[b])
                    /\ names <= Channels(outputs[i]) /\ Channels(outputs[i]) <= 512
                    /\ Channels(outputs[i]) # Channels(outputs[b])}
                   = {i \in DOMAIN outputs :
                        outputs[i].role = "cls" /\ outputs[i].scale = outputs[b].scale}
              /\ {i \in DOMAIN outputs :
                    SameSize(outputs[i], outputs[b]) /\ Channels(outputs[i]) = 1}
                   = {i \in DOMAIN outputs :
                        outputs[i].role = "score" /\ outputs[i].scale = outputs[b].scale}
              /\ {i \in DOMAIN outputs :
                        outputs[i].role = "box" /\ outputs[i].scale = outputs[b].scale} = {b}
         /\ outputs[b].role # "box" /\ IsBoxHead(outputs[b]) =>
              {i \in DOMAIN outputs :
                 /\ SameSize(outputs[i], outputs[b])
                 /\ names <= Channels(outputs[i]) /\ Channels(outputs[i]) <= 512
                 /\ Channels(outputs[i]) # Channels(outputs[b])} = {}
<1>. DEFINE c(i) == Channels(outputs[i])
            BoxShape(i) == c(i) % 4 = 0 /\ c(i) >= 16
<1>1. /\ names \in Nat /\ 2 <= names /\ names <= 512
      /\ \A i \in DOMAIN outputs :
           /\ c(i) \in Nat
           /\ \/ /\ outputs[i].role = "box" /\ BoxShape(i)
                 /\ names >= 16 /\ names % 4 = 0 => names > c(i)
              \/ outputs[i].role = "cls" /\ c(i) = names
              \/ outputs[i].role = "score" /\ c(i) = 1
  BY DEF HeadModel, IsBoxHead
<1>2. \A i, j \in DOMAIN outputs :
        /\ SameSize(outputs[i], outputs[j]) <=> outputs[i].scale = outputs[j].scale
        /\ outputs[i].role = outputs[j].role /\ outputs[i].scale = outputs[j].scale => i = j
  BY DEF HeadModel
<1>3. \A i \in DOMAIN outputs : Is4D(outputs[i]) /\ (IsBoxHead(outputs[i]) <=> BoxShape(i))
  BY DEF HeadModel, IsBoxHead
<1>. HIDE DEF c
<1>4. CASE outputs[b].role = "box"
  <2>1. ASSUME NEW i \in DOMAIN outputs
        PROVE  names <= c(i) /\ c(i) <= 512 /\ c(i) # c(b)
                 /\ outputs[i].scale = outputs[b].scale
               <=> outputs[i].role = "cls" /\ outputs[i].scale = outputs[b].scale
    BY <1>1, <1>2, <1>4
  <2>2. ASSUME NEW i \in DOMAIN outputs
        PROVE  c(i) = 1 <=> outputs[i].role = "score"
    BY <1>1
  <2>3. {i \in DOMAIN outputs :
           outputs[i].role = "box" /\ outputs[i].scale = outputs[b].scale} = {b}
    BY <1>2, <1>4
  <2>4. IsBoxHead(outputs[b])
    BY <1>1, <1>3, <1>4
  <2>. QED
    BY <1>2, <1>4, <2>1, <2>2, <2>3, <2>4 DEF c
<1>5. CASE outputs[b].role # "box" /\ IsBoxHead(outputs[b])
  <2>1. c(b) = names /\ names >= 16 /\ names % 4 = 0
    BY <1>1, <1>3, <1>5
  <2>2. ASSUME NEW i \in DOMAIN outputs, names <= c(i), c(i) # c(b) PROVE FALSE
    BY <1>1, <2>1, <2>2
  <2>. QED
    BY <1>5, <2>2 DEF c
<1>. QED
  BY <1>4, <1>5

\* The branches that are found are those of the scales.
LEMMA BranchesOfHeads ==
  ASSUME NEW outputs, NEW names, HeadModel(outputs, names),
         DOMAIN outputs \subseteq Nat \ {0}
  PROVE  /\ Branches(outputs, names) =
              {[box |-> HeadOf(outputs, "box", s), cls |-> HeadOf(outputs, "cls", s),
                score |-> HeadOf(outputs, "score", s)] : s \in Scales(outputs)}
         /\ \A s \in Scales(outputs), role \in {"box", "cls"} :
              LET h == HeadOf(outputs, role, s)
              IN h \in DOMAIN outputs /\ outputs[h].role = role /\ outputs[h].scale = s
<1>1. ASSUME NEW b \in DOMAIN outputs, outputs[b].role = "box"
      PROVE  /\ IsBoxHead(outputs[b])
             /\ ClassHead(outputs, names, b) = HeadOf(outputs, "cls", outputs[b].scale)
             /\ ScoreHead(outputs, b) = HeadOf(outputs, "score", outputs[b].scale)
             /\ HeadOf(outputs, "box", outputs[b].scale) = b
  <2>1. First({b}) = b
    BY FirstOnly
  <2>2. IsBoxHead(outputs[b])
    BY <1>1, HeadShapes
  <2>3. ClassHead(outputs, names, b) = HeadOf(outputs, "cls", outputs[b].scale)
    <3>1. {i \in DOMAIN outputs :
             /\ SameSize(outputs[i], outputs[b])
             /\ names <= Channels(outputs[i]) /\ Channels(outputs[i]) <= 512
             /\ Channels(outputs[i]) # Channels(outputs[b])}
            = {i \in DOMAIN outputs :
                 outputs[i].role = "cls" /\ outputs[i].scale = outputs[b].scale}
      BY <1>1, HeadShapes
    <3>. QED
      BY <3>1, Zenon DEF ClassHead, HeadOf
  <2>4. ScoreHead(outputs, b) = HeadOf(outputs, "score", outputs[b].scale)
    BY <1>1, HeadShapes DEF ScoreHead, HeadOf
  <2>5. HeadOf(outputs, "box", outputs[b].scale) = b
    BY <1>1, <2>1, HeadShapes DEF HeadOf
  <2>. QED
    BY <2>2, <2>3, <2>4, <2>5
<1>2. ASSUME NEW b \in DOMAIN outputs, outputs[b].role # "box", IsBoxHead(outputs[b])
      PROVE  ClassHead(outputs, names, b) = 0
  <2>1. {i \in DOMAIN outputs :
           /\ SameSize(outputs[i], outputs[b])
           /\ names <= Channels(outputs[i]) /\ Channels(outputs[i]) <= 512
           /\ Channels(outputs[i]) # Channels(outputs[b])} = {}
    BY <1>2, HeadShapes
  <2>2. First({}) = 0
    BY FirstOnly
  <2>. QED
    BY <2>1, <2>2, Zenon DEF ClassHead
<1>3. ASSUME NEW s \in Scales(outputs), NEW role \in {"box", "cls"}
      PROVE  LET h == HeadOf(outputs, role, s)
             IN h \in DOMAIN outputs /\ outputs[h].role = role /\ outputs[h].scale = s
  <2>1. PICK i \in DOMAIN outputs : outputs[i].role = role /\ outputs[i].scale = s
    BY DEF HeadModel
  <2>2. {j \in DOMAIN outputs : outputs[j].role = role /\ outputs[j].scale = s} = {i}
    BY <2>1 DEF HeadModel
  <2>3. HeadOf(outputs, role, s) = i
    BY <2>2, FirstOnly DEF HeadOf
  <2>. QED
    BY <2>1, <2>3
<1>. DEFINE branch(s) == [box |-> HeadOf(outputs, "box", s), cls |-> HeadOf(outputs, "cls", s),
                         score |-> HeadOf(outputs, "score", s)]
            boxes == {i \in DOMAIN outputs :
                        IsBoxHead(outputs[i]) /\ ClassHead(outputs, names, i) # 0}
            built(b) == [box |-> b, cls |-> ClassHead(outputs, names, b),
                         score |-> ScoreHead(outputs, b)]
<1>4. ASSUME NEW b \in boxes
      PROVE  outputs[b].scale \in Scales(outputs) /\ built(b) = branch(outputs[b].scale)
  <2>1. outputs[b].role = "box"
    BY <1>2
  <2>. QED
    BY <1>1, <2>1 DEF Scales
<1>5. ASSUME NEW s \in Scales(outputs)
      PROVE  \E b \in boxes : built(b) = branch(s)
  <2>. DEFINE b == HeadOf(outputs, "box", s)
  <2>1. b \in DOMAIN outputs /\ outputs[b].role = "box" /\ outputs[b].scale = s
    BY <1>3
  <2>2. HeadOf(outputs, "cls", s) \in DOMAIN outputs
    BY <1>3
  <2>. HIDE DEF b
  <2>3. ClassHead(outputs, names, b) # 0
    BY <1>1, <2>1, <2>2
  <2>4. b \in boxes /\ built(b) = branch(s)
    BY <1>1, <2>1, <2>3
  <2>. QED
    BY <2>4
<1>6. Branches(outputs, names) = {built(b) : b \in boxes}
  BY DEF Branches
<1>. HIDE DEF branch, built, boxes
<1>7. {built(b) : b \in boxes} = {branch(s) : s \in Scales(outputs)}
  BY <1>4, <1>5
<1>. QED
  BY <1>3, <1>6, <1>7 DEF branch

\* HeadsPaired for every model that its shapes tell apart, with any number of
\* outputs in any order.
THEOREM HeadsFound == Spec => [](Supported(input) => HeadsPaired)
<1>. DEFINE Claim == Supported(input) => HeadsPaired
<1>1. Claim
  <2>. SUFFICES ASSUME Supported(input),
                       \A i \in DOMAIN input.outputs : input.outputs[i].role \in Heads
                PROVE  Branches(input.outputs, input.names) =
                         {[box |-> HeadOf(input.outputs, "box", s),
                           cls |-> HeadOf(input.outputs, "cls", s),
                           score |-> HeadOf(input.outputs, "score", s)] :
                            s \in Scales(input.outputs)}
    BY DEF HeadsPaired
  <2>1. DOMAIN input.outputs \subseteq Nat \ {0}
    BY DEF Supported
  <2>2. ~DecodedModel(input.outputs, input.names)
    <3>. SUFFICES ASSUME DecodedModel(input.outputs, input.names) PROVE FALSE
      OBVIOUS
    <3>1. 1 \in DOMAIN input.outputs /\ input.outputs[1].role = "anchors"
      BY DEF Supported, DecodedModel
    <3>. QED
      BY <3>1 DEF Heads
  <2>3. HeadModel(input.outputs, input.names)
    BY <2>2 DEF Supported
  <2>. QED
    BY <2>1, <2>3, BranchesOfHeads
<1>. QED
  BY <1>1, PTL DEF Claim

-----------------------------------------------------------------------------
(* The scene.                                                              *)

\* The output that an object is read from.
By(in, o) ==
  IF DecodedModel(in.outputs, in.names) THEN 1 ELSE HeadOf(in.outputs, "box", o.scale)

\* What there is to read.
Meant(in) == {Reading(o, By(in, o)) : o \in {o \in in.scene : Visible(o)}}

Promised ==
  /\ Supported(input)
  /\ VisibleObjects # {} \/ DecodedModel(input.outputs, input.names)

\* At each statement: what has been found is the scene, sorted is an order of it,
\* and the selection has gone through all of it.
SceneInv ==
  /\ phase = "rows" => DecodedModel(input.outputs, input.names)
  /\ phase \in {"sort", "nms", "done"} => found = Meant(input)
  /\ phase \in {"nms", "done"} => sorted \in Sorted(found)
  /\ phase = "done" => rank \notin DOMAIN sorted

\* No rank is pushed twice.
KeptOnce == \A i, j \in DOMAIN kept : kept[i] = kept[j] => i = j

ReportInv == SelectionInv /\ KeptOnce /\ (Promised => SceneInv)

\* A model with heads gives the visible objects and nothing else.
LEMMA HeadsGiveScene ==
  ASSUME NEW in, Supported(in), ~DecodedModel(in.outputs, in.names)
  PROVE  /\ HeadReadings(in.outputs, in.names, in.scene) = Meant(in)
         /\ HeadStrays(in.outputs, in.names, in.scene) = {}
         /\ Len(in.outputs) >= 6
<1>. DEFINE outputs == in.outputs
            box(s) == HeadOf(outputs, "box", s)
            cls(s) == HeadOf(outputs, "cls", s)
            branch(s) == [box |-> box(s), cls |-> cls(s),
                          score |-> HeadOf(outputs, "score", s)]
<1>1. HeadModel(outputs, in.names) /\ Len(outputs) >= 6 /\ DOMAIN outputs \subseteq Nat \ {0}
  BY DEF Supported
<1>2. Branches(outputs, in.names) = {branch(s) : s \in Scales(outputs)}
  BY <1>1, BranchesOfHeads
<1>3. ASSUME NEW s \in Scales(outputs)
      PROVE  /\ outputs[box(s)].role = "box" /\ outputs[box(s)].scale = s
             /\ outputs[cls(s)].role = "cls"
  BY <1>1, BranchesOfHeads
<1>. DEFINE read(br) == {Reading(o, br.box) :
                           o \in {o \in in.scene :
                                    /\ outputs[br.box].role = "box"
                                    /\ outputs[br.cls].role = "cls"
                                    /\ o.scale = outputs[br.box].scale /\ Visible(o)
                                    /\ o.class < in.names}}
<1>4. HeadReadings(outputs, in.names, in.scene)
        = UNION {read(br) : br \in Branches(outputs, in.names)}
  BY DEF HeadReadings
<1>5. \A o \in in.scene : o.class < in.names /\ o.scale \in Scales(outputs)
  BY DEF Supported, SceneFits
<1>6. \A s : branch(s).box = box(s) /\ branch(s).cls = cls(s)
  OBVIOUS
<1>7. ASSUME NEW s \in Scales(outputs)
      PROVE  read(branch(s)) = {Reading(o, box(s)) :
                                  o \in {o \in in.scene : o.scale = s /\ Visible(o)}}
  BY <1>3, <1>5, <1>6
<1>8. Meant(in) = {Reading(o, box(o.scale)) : o \in {o \in in.scene : Visible(o)}}
  BY DEF Meant, By
<1>. HIDE DEF read, branch, box, cls, outputs
<1>9. UNION {read(br) : br \in Branches(outputs, in.names)} = Meant(in)
  <2>1. ASSUME NEW d \in Meant(in)
        PROVE  d \in UNION {read(br) : br \in Branches(outputs, in.names)}
    <3>1. PICK o \in in.scene : Visible(o) /\ d = Reading(o, box(o.scale))
      BY <1>8
    <3>2. d \in read(branch(o.scale)) /\ branch(o.scale) \in Branches(outputs, in.names)
      BY <1>2, <1>5, <1>7, <3>1
    <3>. QED
      BY <3>2
  <2>2. ASSUME NEW br \in Branches(outputs, in.names), NEW d \in read(br)
        PROVE  d \in Meant(in)
    <3>1. PICK s \in Scales(outputs) : br = branch(s)
      BY <1>2
    <3>2. PICK o \in in.scene : o.scale = s /\ Visible(o) /\ d = Reading(o, box(s))
      BY <1>7, <2>2, <3>1
    <3>. QED
      BY <1>8, <3>2
  <2>. QED
    BY <2>1, <2>2
<1>10. HeadStrays(outputs, in.names, in.scene) = {}
  BY <1>2, <1>3, <1>6 DEF HeadStrays
<1>. QED
  BY <1>1, <1>4, <1>9, <1>10 DEF outputs

\* The layout of a model that decodes its boxes itself is recognised.
LEMMA LayoutRecognised ==
  ASSUME NEW outputs, NEW names, DecodedModel(outputs, names)
  PROVE  Decodable(outputs[1]) /\ ReadAsMeant(outputs[1], names)
<1>. DEFINE t == outputs[1]
            dims == Len(t.dims)
            channels == IF t.channels_first THEN t.dims[dims - 1] ELSE t.dims[dims]
            anchors == IF t.channels_first THEN t.dims[dims] ELSE t.dims[dims - 1]
<1>1. /\ dims >= 2 /\ t.role = "anchors" /\ t.channels_first \in BOOLEAN
      /\ names \in Nat \ {0, 1} /\ t.class_offset \in {4, 5}
      /\ channels = names + t.class_offset /\ anchors \in Nat /\ channels < anchors
      /\ t.channels_first => channels <= 256
  BY DEF DecodedModel
<1>2. channels \in Nat /\ channels >= 6
  <2>. HIDE DEF channels
  <2>. QED
    BY <1>1
<1>3. ChannelsFirst(t) = t.channels_first
  BY <1>1, <1>2 DEF ChannelsFirst
<1>4. Width(t) = channels
  BY <1>1, <1>3 DEF Width
<1>5. ClassOffset(t, names) = t.class_offset
  BY <1>1, <1>4 DEF ClassOffset
<1>. QED
  BY <1>1, <1>2, <1>3, <1>4, <1>5 DEF Decodable, ReadAsMeant

\* It gives the visible objects and nothing else, too.
LEMMA RowsGiveScene ==
  ASSUME NEW in, Supported(in), DecodedModel(in.outputs, in.names)
  PROVE  /\ RowReadings(in.outputs, in.names, in.scene) = Meant(in)
         /\ RowStrays(in.outputs, in.names, in.scene) = {}
         /\ ~(Len(in.outputs) >= 6)
<1>1. /\ DOMAIN in.outputs = {1} /\ Len(in.outputs) = 1
      /\ Decodable(in.outputs[1]) /\ ReadAsMeant(in.outputs[1], in.names)
  BY LayoutRecognised DEF Supported, DecodedModel
<1>2. \A o \in in.scene : o.class < in.names
  BY DEF Supported, SceneFits
<1>3. {o \in in.scene : Visible(o) /\ o.class < in.names} = {o \in in.scene : Visible(o)}
  BY <1>2
<1>4. {i \in DOMAIN in.outputs :
         Decodable(in.outputs[i]) /\ ReadAsMeant(in.outputs[i], in.names)} = {1}
  BY <1>1
<1>5. RowReadings(in.outputs, in.names, in.scene)
        = {Reading(o, 1) : o \in {o \in in.scene : Visible(o)}}
  BY <1>3, <1>4 DEF RowReadings
<1>6. RowStrays(in.outputs, in.names, in.scene) = {}
  BY <1>1 DEF RowStrays
<1>. QED
  BY <1>1, <1>5, <1>6 DEF Meant, By

LEMMA ReportStart == Init => ReportInv
<1>. SUFFICES ASSUME Init PROVE ReportInv
  OBVIOUS
<1>1. Kept = {} /\ kept \in Seq(Nat) /\ DOMAIN sorted = {}
  BY DEF Init, NmsInit, Kept
<1>2. SelectionInv
  BY <1>1 DEF Init, NmsInit, SelectionInv
<1>3. KeptOnce
  BY DEF Init, NmsInit, KeptOnce
<1>4. SceneInv
  BY DEF Init, SceneInv
<1>. QED
  BY <1>2, <1>3, <1>4 DEF ReportInv

\* An iteration keeps a rank that was not kept before.
LEMMA SelectKeepsOnce ==
  ASSUME SelectionInv, KeptOnce, NmsStep
  PROVE  KeptOnce'
<1>1. CASE removed[rank]
  BY <1>1 DEF NmsStep, KeptOnce
<1>2. CASE ~removed[rank]
  <2>1. /\ kept' = Append(kept, rank) /\ kept \in Seq(Nat) /\ rank \in Nat
    BY <1>2 DEF NmsStep, SelectionInv
  <2>2. \A i \in DOMAIN kept : kept[i] \in Nat /\ kept[i] < rank
    BY DEF SelectionInv, Kept
  <2>3. /\ DOMAIN kept = 1 .. Len(kept) /\ DOMAIN kept' = 1 .. Len(kept) + 1
        /\ Len(kept) \in Nat
        /\ kept'[Len(kept) + 1] = rank /\ \A i \in 1 .. Len(kept) : kept'[i] = kept[i]
    BY <2>1
  <2>4. ASSUME NEW i \in DOMAIN kept', NEW j \in DOMAIN kept', kept'[i] = kept'[j]
        PROVE  i = j
    <3>1. CASE i = Len(kept) + 1 \/ j = Len(kept) + 1
      BY <2>2, <2>3, <2>4, <3>1
    <3>2. CASE i # Len(kept) + 1 /\ j # Len(kept) + 1
      BY <2>3, <2>4, <3>2 DEF KeptOnce
    <3>. QED
      BY <3>1, <3>2
  <2>. QED
    BY <2>4 DEF KeptOnce
<1>. QED
  BY <1>1, <1>2

LEMMA ReportStep == ReportInv /\ [Next]_vars => ReportInv'
<1>. SUFFICES ASSUME ReportInv, [Next]_vars PROVE ReportInv'
  OBVIOUS
<1>. USE DEF ReportInv
<1>1. input' = input /\ (Promised' <=> Promised)
  BY DEF Next, DecodeHeads, DecodeRows, SortDetections, Select, Return, vars, Promised,
         VisibleObjects
<1>2. ASSUME UNCHANGED nmsVars PROVE SelectionInv' /\ KeptOnce'
  BY <1>2 DEF SelectionInv, KeptOnce, Kept, nmsVars
<1>3. CASE DecodeHeads
  <2>1. ASSUME Promised PROVE SceneInv'
    <3>1. CASE DecodedModel(input.outputs, input.names)
      <4>1. found' = {}
        BY <1>3, <2>1, <3>1, RowsGiveScene DEF DecodeHeads, Promised
      <4>2. phase' = "rows"
        BY <1>3, <4>1 DEF DecodeHeads
      <4>. QED
        BY <1>1, <3>1, <4>2 DEF SceneInv
    <3>2. CASE ~DecodedModel(input.outputs, input.names)
      <4>1. found' = Meant(input)
        BY <1>3, <2>1, <3>2, HeadsGiveScene DEF DecodeHeads, Promised
      <4>2. Meant(input) # {}
        BY <2>1, <3>2 DEF Promised, Meant, VisibleObjects
      <4>3. phase' = "sort"
        BY <1>3, <4>1, <4>2 DEF DecodeHeads
      <4>. QED
        BY <1>1, <4>1, <4>3 DEF SceneInv
    <3>. QED
      BY <3>1, <3>2
  <2>. QED
    BY <1>1, <1>2, <1>3, <2>1 DEF DecodeHeads
<1>4. CASE DecodeRows
  <2>1. ASSUME Promised PROVE SceneInv'
    <3>1. DecodedModel(input.outputs, input.names)
      BY <1>4, <2>1 DEF DecodeRows, SceneInv
    <3>2. found' = Meant(input)
      BY <1>4, <2>1, <3>1, RowsGiveScene DEF DecodeRows, Promised
    <3>3. phase' = "sort"
      BY <1>4 DEF DecodeRows
    <3>. QED
      BY <1>1, <3>2, <3>3 DEF SceneInv
  <2>. QED
    BY <1>1, <1>2, <1>4, <2>1 DEF DecodeRows
<1>5. CASE SortDetections
  <2>1. SelectionInv'
    BY <1>5, StartEstablishes DEF SortDetections
  <2>2. KeptOnce'
    BY <1>5 DEF SortDetections, NmsStart, KeptOnce
  <2>3. ASSUME Promised PROVE SceneInv'
    BY <1>1, <1>5, <2>3 DEF SortDetections, NmsStart, SceneInv
  <2>. QED
    BY <1>1, <2>1, <2>2, <2>3
<1>6. CASE Select
  <2>1. SelectionInv' /\ KeptOnce'
    BY <1>6, SelectPreserves, SelectKeepsOnce DEF Select
  <2>2. ASSUME Promised PROVE SceneInv'
    BY <1>1, <1>6, <2>2 DEF Select, NmsStep, SceneInv
  <2>. QED
    BY <1>1, <2>1, <2>2
<1>7. CASE Return
  <2>1. ASSUME Promised PROVE SceneInv'
    BY <1>1, <1>7, <2>1 DEF Return, NmsDone, SceneInv, nmsVars
  <2>. QED
    BY <1>1, <1>2, <1>7, <2>1 DEF Return
<1>8. CASE UNCHANGED vars
  BY <1>1, <1>2, <1>8 DEF vars, SceneInv, nmsVars
<1>. QED
  BY <1>3, <1>4, <1>5, <1>6, <1>7, <1>8 DEF Next

\* Overlapping does not depend on which box comes first.
LEMMA OverlapBothWays ==
  ASSUME NEW a, NEW b, {a.x1, a.y1, a.x2, a.y2} \subseteq Int,
         {b.x1, b.y1, b.x2, b.y2} \subseteq Int
  PROVE  Overlap(a, b) <=> Overlap(b, a)
<1>1. \A m, n \in Int : Least(m, n) = Least(n, m) /\ Most(m, n) = Most(n, m)
  BY DEF Least, Most
<1>2. Inter(a, b) = Inter(b, a)
  BY <1>1 DEF Inter
<1>3. \A m, n \in Int : Most(0, m - n) \in Int
  BY DEF Most
<1>4. \A m, n \in Int : m * n \in Int
  OBVIOUS
<1>5. Area(a) \in Int /\ Area(b) \in Int
  BY <1>3, <1>4 DEF Area
<1>6. Area(a) + Area(b) = Area(b) + Area(a)
  BY <1>5
<1>7. Inter(a, b) \in Int
  <2>1. \A m, n \in Int : Least(m, n) \in Int /\ Most(m, n) \in Int
    BY DEF Least, Most
  <2>. DEFINE w == Most(0, Least(a.x2, b.x2) - Most(a.x1, b.x1))
              h == Most(0, Least(a.y2, b.y2) - Most(a.y1, b.y1))
  <2>2. w \in Int /\ h \in Int
    BY <1>3, <2>1
  <2>3. Inter(a, b) = w * h
    BY DEF Inter, Area
  <2>. HIDE DEF w, h
  <2>. QED
    BY <1>4, <2>2, <2>3
<1>8. NmsThreshold[1] \in Int /\ NmsThreshold[2] \in Int
  BY NmsAssumption
<1>9. \A m \in Int : Most(1, m) \in Int
  BY DEF Most
<1>. DEFINE over(inter, sum) ==
              inter * NmsThreshold[2] > NmsThreshold[1] * Most(1, sum - inter)
<1>10. Overlap(a, b) <=> over(Inter(a, b), Area(a) + Area(b))
  BY <1>5, <1>7, <1>8, <1>9 DEF Overlap
<1>11. Overlap(b, a) <=> over(Inter(b, a), Area(b) + Area(a))
  BY <1>2, <1>5, <1>7, <1>8, <1>9 DEF Overlap
<1>. HIDE DEF over
<1>. QED
  BY <1>2, <1>6, <1>10, <1>11

LEMMA UpTo ==
  ASSUME NEW n \in Nat
  PROVE  IsFiniteSet(1 .. n) /\ Cardinality(1 .. n) = n
BY FS_Interval

\* In an order of a finite set each member has one place.
LEMMA OrderIsComplete ==
  ASSUME NEW D, IsFiniteSet(D), NEW s \in Sorted(D)
  PROVE  /\ Cardinality(D) \in Nat /\ s \in [1 .. Cardinality(D) -> D]
         /\ \A i, j \in DOMAIN s : s[i] = s[j] => i = j
         /\ \A i, j \in DOMAIN s : i < j => s[i].conf >= s[j].conf
         /\ \A d \in D : \E i \in DOMAIN s : s[i] = d
<1>. DEFINE n == Cardinality(D)
<1>1. /\ s \in [1 .. n -> D]
      /\ \A i, j \in DOMAIN s : i < j => s[i] # s[j] /\ s[i].conf >= s[j].conf
  BY DEF Sorted
<1>2. n \in Nat
  BY FS_CardinalityType
<1>. HIDE DEF n
<1>3. ASSUME NEW i \in DOMAIN s, NEW j \in DOMAIN s, s[i] = s[j] PROVE i = j
  <2>1. i \in Int /\ j \in Int
    BY <1>1, <1>2
  <2>. QED
    BY <1>1, <1>3, <2>1
<1>4. IsFiniteSet(1 .. n) /\ Cardinality(1 .. n) = n
  BY <1>2, UpTo
<1>5. s \in Injection(1 .. n, D)
  BY <1>1, <1>3, Fun_IsInj
<1>6. s \in Surjection(1 .. n, D)
  BY <1>4, <1>5, FS_Injection DEF n
<1>. QED
  BY <1>1, <1>2, <1>3, <1>6 DEF n, Surjection

\* There are finitely many detections.
LEMMA MeantIsFinite ==
  ASSUME NEW in, IsFiniteSet(in.scene)
  PROVE  IsFiniteSet(Meant(in))
<1>. DEFINE seen == {o \in in.scene : Visible(o)}
            read(o) == Reading(o, By(in, o))
            f == [o \in seen |-> read(o)]
<1>1. IsFiniteSet(seen)
  BY FS_Subset
<1>2. Meant(in) = {read(o) : o \in seen}
  BY DEF Meant
<1>3. f \in Surjection(seen, Meant(in))
  <2>1. f \in [seen -> Meant(in)]
    BY <1>2
  <2>2. \A d \in Meant(in) : \E o \in seen : f[o] = d
    BY <1>2
  <2>. QED
    BY <2>1, <2>2, Fun_IsSurj
<1>. QED
  BY <1>1, <1>3, FS_Surjection

\* When the call returns, what the loop has kept is what ReportsScene asks for.
LEMMA ReportAtReturn ==
  ASSUME ReportInv, Promised, phase = "done"
  PROVE  LET reported == {sorted[r].object : r \in Kept}
         IN /\ \A r \in Kept : sorted[r].genuine
            /\ Cardinality(reported) = Len(kept)
            /\ reported \subseteq VisibleObjects
            /\ \A o, p \in reported :
                 o # p /\ o.class = p.class => ~Overlap(o.box, p.box)
            /\ \A o \in VisibleObjects \ reported :
                 \E p \in reported :
                   p.class = o.class /\ p.conf >= o.conf /\ Overlap(p.box, o.box)
<1>. DEFINE read(o) == Reading(o, By(input, o))
            obj(r) == sorted[r].object
            reported == {obj(r) : r \in Kept}
            n == Cardinality(Meant(input))
<1>1. /\ SelectionInv /\ KeptOnce /\ rank \notin DOMAIN sorted
      /\ sorted \in Sorted(Meant(input))
  BY DEF ReportInv, SceneInv
<1>2. Meant(input) = {read(o) : o \in VisibleObjects}
  BY DEF Meant, VisibleObjects
<1>3. /\ n \in Nat /\ sorted \in [1 .. n -> Meant(input)]
      /\ \A i, j \in DOMAIN sorted : sorted[i] = sorted[j] => i = j
      /\ \A i, j \in DOMAIN sorted : i < j => sorted[i].conf >= sorted[j].conf
      /\ \A d \in Meant(input) : \E i \in DOMAIN sorted : sorted[i] = d
  BY <1>1, MeantIsFinite, OrderIsComplete DEF Promised, Supported, SceneFits
<1>4. ASSUME NEW r \in DOMAIN sorted
      PROVE  /\ obj(r) \in VisibleObjects /\ sorted[r] = read(obj(r))
             /\ sorted[r].genuine /\ sorted[r].class = obj(r).class
             /\ sorted[r].conf = obj(r).conf /\ sorted[r].box = obj(r).box
  <2>1. PICK o \in VisibleObjects : sorted[r] = read(o)
    BY <1>2, <1>3
  <2>2. sorted[r].object = o /\ sorted[r].genuine
    BY <2>1 DEF Reading
  <2>. QED
    BY <2>1, <2>2 DEF Reading
<1>. HIDE DEF read, obj, n
<1>5. /\ rank \in Nat \ {0} /\ DOMAIN sorted = 1 .. n
      /\ \A j \in DOMAIN sorted : j \in Nat /\ j < rank
  BY <1>1, <1>3 DEF SelectionInv
<1>6. /\ Kept = {j \in DOMAIN sorted : ~removed[j]}
      /\ \A j \in DOMAIN sorted :
           removed[j] <=> \E k \in Kept : k < j /\ Suppresses(sorted[k], sorted[j])
      /\ \A j \in DOMAIN sorted : removed[j] \in BOOLEAN
  BY <1>1, <1>5 DEF SelectionInv
<1>7. \A i, j \in DOMAIN sorted : obj(i) = obj(j) => i = j
  BY <1>3, <1>4
<1>8. Cardinality(reported) = Len(kept)
  <2>. DEFINE f == [i \in 1 .. Len(kept) |-> obj(kept[i])]
  <2>1. /\ DOMAIN kept = 1 .. Len(kept) /\ Len(kept) \in Nat
        /\ Kept = {kept[i] : i \in DOMAIN kept}
    BY <1>1 DEF SelectionInv, Kept
  <2>2. f \in [1 .. Len(kept) -> reported]
    BY <2>1
  <2>3. \A i, j \in 1 .. Len(kept) : f[i] = f[j] => i = j
    BY <1>1, <1>6, <1>7, <2>1 DEF KeptOnce
  <2>4. \A o \in reported : \E i \in 1 .. Len(kept) : f[i] = o
    BY <2>1
  <2>5. f \in Bijection(1 .. Len(kept), reported)
    BY <2>2, <2>3, <2>4, Fun_IsBij
  <2>6. IsFiniteSet(1 .. Len(kept)) /\ Cardinality(1 .. Len(kept)) = Len(kept)
    BY <2>1, UpTo
  <2>. HIDE DEF f, reported
  <2>7. Cardinality(reported) = Cardinality(1 .. Len(kept))
    <3>1. ExistsBijection(1 .. Len(kept), reported)
      BY <2>5 DEF ExistsBijection
    <3>. QED
      BY <2>6, <3>1, FS_Bijection
  <2>. QED
    BY <2>6, <2>7
<1>9. \A a, b \in Kept :
        a < b => ~(obj(a).class = obj(b).class /\ Overlap(obj(a).box, obj(b).box))
  BY <1>4, <1>6 DEF Suppresses
<1>10. ASSUME NEW o \in reported, NEW p \in reported, o # p, o.class = p.class
       PROVE  ~Overlap(o.box, p.box)
  <2>1. PICK a \in Kept, b \in Kept : o = obj(a) /\ p = obj(b)
    OBVIOUS
  <2>2. a \in Nat /\ b \in Nat /\ a # b
    BY <1>5, <1>6, <1>10, <2>1
  <2>3. Overlap(o.box, p.box) <=> Overlap(p.box, o.box)
    <3>1. o \in input.scene /\ p \in input.scene
      BY <1>4, <1>6, <2>1 DEF VisibleObjects
    <3>. QED
      BY <3>1, OverlapBothWays DEF Promised, Supported, SceneFits
  <2>4. a < b \/ b < a
    BY <2>2
  <2>. QED
    BY <1>9, <1>10, <2>1, <2>3, <2>4
<1>11. ASSUME NEW o \in VisibleObjects \ reported
       PROVE  \E p \in reported :
                p.class = o.class /\ p.conf >= o.conf /\ Overlap(p.box, o.box)
  <2>1. PICK j \in DOMAIN sorted : sorted[j] = read(o)
    BY <1>2, <1>3
  <2>2. obj(j) = o
    BY <2>1 DEF obj, read, Reading
  <2>3. j \notin Kept
    BY <2>2
  <2>4. PICK k \in Kept : k < j /\ Suppresses(sorted[k], sorted[j])
    BY <1>6, <2>3
  <2>5. sorted[k].conf >= sorted[j].conf
    BY <1>3, <1>6, <2>4
  <2>6. obj(k) \in reported /\ obj(k).class = o.class /\ obj(k).conf >= o.conf
          /\ Overlap(obj(k).box, o.box)
    BY <1>4, <1>6, <2>2, <2>4, <2>5 DEF Suppresses
  <2>. QED
    BY <2>6
<1>12. reported \subseteq VisibleObjects /\ \A r \in Kept : sorted[r].genuine
  BY <1>4, <1>6
<1>. QED
  BY <1>8, <1>10, <1>11, <1>12 DEF obj

\* ReportsScene for every supported model, every scene it sees, every threshold and
\* every order of detections of equal confidence: a call returns objects of the
\* scene, each once, and leaves out only what overlaps one it returns.
THEOREM SceneReported == Spec => [](Supported(input) => ReportsScene)
<1>. DEFINE Claim == Supported(input) => ReportsScene
<1>1. ReportInv => Claim
  <2>. SUFFICES ASSUME ReportInv, Supported(input), phase = "done",
                       VisibleObjects # {} \/ Len(input.outputs) < 6
                PROVE  ReportsScene
    BY DEF ReportsScene
  <2>1. Promised
    BY HeadsGiveScene DEF Promised, Supported
  <2>. QED
    BY <2>1, ReportAtReturn DEF ReportsScene
<1>. QED
  BY <1>1, ReportStart, ReportStep, PTL DEF Spec
=============================================================================
