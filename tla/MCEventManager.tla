--------------------------- MODULE MCEventManager ---------------------------
(***************************************************************************)
(* EventManager for TLC.  The bounds are in the .cfg files.                *)
(***************************************************************************)
EXTENDS EventManager
=============================================================================
