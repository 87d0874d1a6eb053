---------------------------- MODULE MCOggReader -----------------------------
(***************************************************************************)
(* OggReader for TLC: two interleaved streams, laps of one and two samples *)
(* and granule positions around them.                                      *)
(***************************************************************************)
EXTENDS OggReader
=============================================================================
