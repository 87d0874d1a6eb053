--------------------------- MODULE MCLiveExtract ----------------------------
(***************************************************************************)
(* LiveExtract for TLC: two callers, a pipe and a buffer so small that     *)
(* both fill up.                                                           *)
(***************************************************************************)
EXTENDS LiveExtract
=============================================================================
