---------------------------- MODULE MCPcmBuffer -----------------------------
(***************************************************************************)
(* PcmBuffer for TLC.  The blocks are 4 and 16 samples: a ratio above 3 is *)
(* what makes _advancePcmOffset move its data to the right.  MaxPos leaves *)
(* room for the buffer to be filled and moved to the left by every size.   *)
(***************************************************************************)
EXTENDS PcmBuffer
=============================================================================
