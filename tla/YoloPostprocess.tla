--------------------------- MODULE YoloPostprocess ---------------------------
(***************************************************************************)
(* postprocessYoloViews() of src/yolo_postprocess.cpp on one picture: the  *)
(* heads, the fallback when they give nothing, and NMS.                    *)
(***************************************************************************)
EXTENDS YoloHeads, Nms, Letterbox

CONSTANT Inputs  \* what a call may be given, see input

ASSUME InputsAssumption ==
  \A in \in Inputs :
    {in.size.w, in.size.h, in.size.input_w, in.size.input_h} \subseteq Nat \ {0}

VARIABLES
  input,  \* [outputs, names: how many class names, scene: the objects that
          \*  the network sees, size: the picture's and the network's]
  phase,  \* the statement of postprocessYoloViews
  found   \* detections before NMS

vars == <<input, phase, found, nmsVars>>

Init ==
  /\ input \in Inputs
  /\ phase = "heads"
  /\ found = {}
  /\ NmsInit

\* Six outputs or more may be heads.  What they give goes to NMS.
DecodeHeads ==
  /\ phase = "heads"
  /\ LET outputs == input.outputs
         strays == HeadStrays(outputs, input.names, input.scene)
     IN IF Len(outputs) >= 6
        THEN \E some \in SUBSET strays :
               found' = HeadReadings(outputs, input.names, input.scene) \cup some
        ELSE found' = {}
  /\ phase' = IF found' = {} THEN "rows" ELSE "sort"
  /\ UNCHANGED <<input, nmsVars>>

\* Otherwise every output is decoded as rows.
DecodeRows ==
  /\ phase = "rows"
  /\ \E some \in SUBSET RowStrays(input.outputs, input.names, input.scene) :
       found' = RowReadings(input.outputs, input.names, input.scene) \cup some
  /\ phase' = "sort"
  /\ UNCHANGED <<input, nmsVars>>

SortDetections ==
  /\ phase = "sort"
  /\ NmsStart(found)
  /\ phase' = "nms"
  /\ UNCHANGED <<input, found>>

Select ==
  /\ phase = "nms"
  /\ NmsStep
  /\ UNCHANGED <<input, phase, found>>

Return ==
  /\ phase = "nms" /\ NmsDone
  /\ phase' = "done"
  /\ UNCHANGED <<input, found, nmsVars>>

Next == DecodeHeads \/ DecodeRows \/ SortDetections \/ Select \/ Return

Spec == Init /\ [][Next]_vars

-----------------------------------------------------------------------------
Heads == {"box", "cls", "score"}
Scales(outputs) == {outputs[i].scale : i \in DOMAIN outputs}

\* The output with the given role at the given scale, 0 if there is none.
HeadOf(outputs, role, scale) ==
  First({i \in DOMAIN outputs :
           outputs[i].role = role /\ outputs[i].scale = scale})

\* A model whose heads their shapes tell apart: each scale has its own size, one
\* box head and one class head with a channel for each name, and as many channels
\* as there are names do not make a box head whose class head a box head could be.
HeadModel(outputs, names) ==
  /\ names \in 2 .. 512
  /\ \A i \in DOMAIN outputs :
       /\ Is4D(outputs[i]) /\ Channels(outputs[i]) \in Nat
       /\ \/ /\ outputs[i].role = "box" /\ IsBoxHead(outputs[i])
             /\ names >= 16 /\ names % 4 = 0 => names > Channels(outputs[i])
          \/ outputs[i].role = "cls" /\ Channels(outputs[i]) = names
          \/ outputs[i].role = "score" /\ Channels(outputs[i]) = 1
  /\ \A i, j \in DOMAIN outputs :
       /\ SameSize(outputs[i], outputs[j]) <=> outputs[i].scale = outputs[j].scale
       /\ outputs[i].role = outputs[j].role /\ outputs[i].scale = outputs[j].scale => i = j
  /\ \A s \in Scales(outputs), role \in {"box", "cls"} :
       \E i \in DOMAIN outputs : outputs[i].role = role /\ outputs[i].scale = s

\* A model that decodes its boxes itself: one tensor with a channel for each name
\* after the 4 of the box and perhaps one for objectness, and more anchors than
\* channels, of which there are at most 256 if they come first.
DecodedModel(outputs, names) ==
  LET t == outputs[1]
      dims == Len(t.dims)
      channels == IF t.channels_first THEN t.dims[dims - 1] ELSE t.dims[dims]
      anchors == IF t.channels_first THEN t.dims[dims] ELSE t.dims[dims - 1]
  IN /\ Len(outputs) = 1 /\ dims >= 2
     /\ t.role = "anchors" /\ t.channels_first \in BOOLEAN
     /\ names \in Nat \ {0, 1} /\ t.class_offset \in {4, 5}
     /\ channels = names + t.class_offset /\ anchors \in Nat /\ channels < anchors
     /\ t.channels_first => channels <= 256

\* What a model sees: objects that have a name, where it looks for them.
SceneFits(in) ==
  /\ IsFiniteSet(in.scene)
  /\ \A o \in in.scene :
       /\ {o.box.x1, o.box.y1, o.box.x2, o.box.y2} \subseteq Int
       /\ o.class < in.names
       /\ DecodedModel(in.outputs, in.names) \/ o.scale \in Scales(in.outputs)

\* A call for which more can be said: a supported model and what it sees.
Supported(in) ==
  /\ Len(in.outputs) \in Nat /\ DOMAIN in.outputs = 1 .. Len(in.outputs)
  /\ \/ HeadModel(in.outputs, in.names) /\ Len(in.outputs) >= 6
     \/ DecodedModel(in.outputs, in.names)
  /\ SceneFits(in)

\* Whatever the order of the outputs, each scale of a model with heads has one
\* branch, made of its own box, class and score head.  It takes no other branch:
\* not one with a class head in the place of the box.
HeadsPaired ==
  LET outputs == input.outputs
  IN (\A i \in DOMAIN outputs : outputs[i].role \in Heads) =>
       Branches(outputs, input.names) =
         {[box |-> HeadOf(outputs, "box", s), cls |-> HeadOf(outputs, "cls", s),
           score |-> HeadOf(outputs, "score", s)] : s \in Scales(outputs)}

VisibleObjects == {o \in input.scene : Visible(o)}

\* End to end: the call returns objects of the scene, each once, no two of a
\* class that overlap, and every visible object is returned or overlaps one of
\* its class that is returned and no less confident.  An empty scene is
\* left out for a model with heads; NothingInvented is about it.
ReportsScene ==
  phase = "done" /\ (VisibleObjects # {} \/ Len(input.outputs) < 6) =>
    LET reported == {sorted[r].object : r \in Kept}
    IN /\ \A r \in Kept : sorted[r].genuine
       /\ Cardinality(reported) = Len(kept)
       /\ reported \subseteq VisibleObjects
       /\ \A o, p \in reported :
            o # p /\ o.class = p.class => ~Overlap(o.box, p.box)
       /\ \A o \in VisibleObjects \ reported :
            \E p \in reported :
              p.class = o.class /\ p.conf >= o.conf /\ Overlap(p.box, o.box)

\* The picture fits the network's input, whatever its size, and coordinates are
\* restored to within half a pixel of the network.
PictureFits ==
  Sound(input.size.w, input.size.h, input.size.input_w, input.size.input_h)

\* A detection stands for an object of the scene: "the C++ postprocess path
\* decodes DFL boxes directly" (README.md), and decodes nothing else.
NothingInvented == phase = "done" => \A r \in Kept : sorted[r].genuine
=============================================================================
