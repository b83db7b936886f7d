-------------------------- MODULE MCVideoPipeline --------------------------
(***************************************************************************)
(* VideoPipeline for TLC: the workers are interchangeable model values.    *)
(***************************************************************************)
EXTENDS VideoPipeline, TLC

WorkerSymmetry == Permutations(Workers)
============================================================================
