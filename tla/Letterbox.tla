------------------------------ MODULE Letterbox ------------------------------
(***************************************************************************)
(* letterbox() of src/yolo_postprocess.cpp: a picture of any size is       *)
(* scaled to fit the network's input and centred between bars.  Sizes are  *)
(* integers and the scale is the exact fraction <<num, den>>; the rounding *)
(* of float is left out.                                                   *)
(***************************************************************************)
EXTENDS Integers

\* std::round(n * num / den) for a positive fraction, then at least 1.
Resized(n, scale) ==
  LET rounded == (2 * n * scale[1] + scale[2]) \div (2 * scale[2])
  IN IF rounded < 1 THEN 1 ELSE rounded

\* Takes the larger ratio: the picture would be cropped, not boxed.
FillScale(w, h, input_w, input_h) ==
  IF input_w * h >= input_h * w THEN <<input_w, w>> ELSE <<input_h, h>>

\* min(input_w / cols, input_h / rows).
Scale(w, h, input_w, input_h) ==
  IF input_w * h <= input_h * w THEN <<input_w, w>> ELSE <<input_h, h>>

\* The bar before the picture along one side of the input.
Pad(input, new) == (input - new) \div 2

letterbox(w, h, input_w, input_h) ==
  LET scale == Scale(w, h, input_w, input_h)
      new_w == Resized(w, scale)
      new_h == Resized(h, scale)
  IN [scale |-> scale, new_w |-> new_w, new_h |-> new_h,
      pad_x |-> Pad(input_w, new_w), pad_y |-> Pad(input_h, new_h)]

-----------------------------------------------------------------------------
\* Along one side: the rectangle that copyTo writes lies inside the input, the
\* bars differ by at most a pixel, and what (x - pad) / scale restores is within
\* half a pixel of the network, unless the picture shrank to a single line.
SideSound(n, input, new, pad, scale) ==
  /\ new >= 1 /\ pad >= 0 /\ pad + new <= input
  /\ input - new - 2 * pad \in {0, 1}
  /\ \/ new = 1
     \/ 2 * (new * scale[2] - n * scale[1]) \in -scale[2] .. scale[2]

\* The whole of it: both sides, one of which is filled.
Sound(w, h, input_w, input_h) ==
  LET lb == letterbox(w, h, input_w, input_h)
  IN /\ SideSound(w, input_w, lb.new_w, lb.pad_x, lb.scale)
     /\ SideSound(h, input_h, lb.new_h, lb.pad_y, lb.scale)
     /\ lb.new_w = input_w \/ lb.new_h = input_h
=============================================================================
