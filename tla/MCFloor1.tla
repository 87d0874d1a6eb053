------------------------------ MODULE MCFloor1 ------------------------------
(***************************************************************************)
(* Floor1 for TLC, with a table of 8 entries in place of 256: the ranges   *)
(* are 8, 4, 3 and 2, of which the third is rounded up, as 86 is.          *)
(***************************************************************************)
EXTENDS Floor1
=============================================================================
