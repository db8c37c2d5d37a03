---------------------------- MODULE MCTickEngine ----------------------------
(***************************************************************************)
(* Small instances of TickEngine.                                          *)
(***************************************************************************)
EXTENDS TickEngine

CONSTANTS b1, b2, x1
=============================================================================
