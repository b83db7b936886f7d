--------------------------- MODULE MCBoundedQueue ---------------------------
(***************************************************************************)
(* BoundedQueue for TLC.  The bounds are in the .cfg file.                 *)
(***************************************************************************)
EXTENDS BoundedQueue
=============================================================================
