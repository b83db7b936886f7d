--------------------------- MODULE MCRknnDetector ---------------------------
(***************************************************************************)
(* RknnDetector for TLC.  The bounds are in the .cfg files.                *)
(***************************************************************************)
EXTENDS RknnDetector
=============================================================================
