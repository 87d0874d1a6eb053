------------------------------ MODULE Lapping -------------------------------
(***************************************************************************)
(* How two successive blocks of a Vorbis stream overlap: the arithmetic of *)
(* Vorbis_I_spec 1.3.2 as the comment on VorbisStreamDecodeState quotes it *)
(* and as addPcmFrame and forwardReadyPcm use it.                          *)
(***************************************************************************)
EXTENDS VorbisWindow

CONSTANT NoWindow     \* no block has been decoded yet

ASSUME NoWindowAssumption == NoWindow \notin Shapes

NoPcm == [prev |-> NoWindow, cur |-> NoWindow, frames |-> <<>>]

\* Number of samples between the centres of two successive blocks.
LapLength(w1, w2) ==
  IF w1 = NoWindow THEN 0 ELSE WinSize(w1) \div 4 + WinSize(w2) \div 4

\* The positions, in the previous and in the new block, that meet in sample p.
PrevIndex(w1, p)    == WinSize(w1) \div 2 + p
CurIndex(w1, w2, p) == (WinSize(w2) \div 4 - WinSize(w1) \div 4) + p

(***************************************************************************)
(* The weight block w has at position i, which may lie outside the block.  *)
(***************************************************************************)
WeightAt(w, i) == IF i \in 0 .. WinSize(w) - 1 THEN Weight(w, i) ELSE Zero

(***************************************************************************)
(* What block w adds to a sample: nothing, or its value at i.  A block is  *)
(* called by its age, 0 for the one just decoded and 1 for the one before. *)
(***************************************************************************)
Term(age, w, i) == IF WeightAt(w, i) = Zero THEN {} ELSE {<<age, i>>}

Lap(w1, w2, p) ==
  Term(1, w1, PrevIndex(w1, p)) \union Term(0, w2, CurIndex(w1, w2, p))

=============================================================================
