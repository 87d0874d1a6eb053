----------------------------- MODULE MCCodebook -----------------------------
(***************************************************************************)
(* Codebook for TLC: words of 5 bits, so that codewords of 1 to 4 bits are *)
(* short of a word, and all sequences of up to 8 lengths.                  *)
(***************************************************************************)
EXTENDS Codebook
=============================================================================
