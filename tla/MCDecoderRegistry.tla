------------------------- MODULE MCDecoderRegistry --------------------------
(***************************************************************************)
(* DecoderRegistry for TLC.  With two threads of three addresses each and  *)
(* five addresses in all, every address is reused by the other thread and  *)
(* as another kind of object.                                              *)
(***************************************************************************)
EXTENDS DecoderRegistry, TLC

Symmetry == Permutations(Threads) \union Permutations(Addresses)
=============================================================================
