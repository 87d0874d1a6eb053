---------------------------- MODULE LappedOutput ----------------------------
(***************************************************************************)
(* What the audio output of one Vorbis stream promises, without a buffer:  *)
(* every audio packet after the first hands over the samples between the   *)
(* centre of the previous block and the centre of its own, and each of     *)
(* those samples is the previous block's value there plus the new one's.   *)
(* A packet that ends a page carries a position the output must reach.     *)
(*                                                                         *)
(* PcmBuffer, the sliding buffer of the code, is shown to implement it.    *)
(***************************************************************************)
EXTENDS Lapping

VARIABLES
  last,     \* the window of the last block that was decoded
  total,    \* number of samples handed over so far
  ending,   \* the position announced for the next packet, negative for none
  pcm,      \* the samples the last packet handed over
  closed    \* no more packets: an error, or the listener refused samples

vars == <<last, total, ending, pcm, closed>>

Init ==
  /\ last = NoWindow
  /\ total = 0
  /\ ending = 0
  /\ pcm = NoPcm
  /\ closed = FALSE

Announce ==
  /\ ~closed
  /\ ending' \in Int
  /\ pcm' = NoPcm
  /\ UNCHANGED <<last, total, closed>>

Close ==
  /\ closed' = TRUE
  /\ UNCHANGED <<last, total, ending, pcm>>

\* How much of the lap a packet hands over: all, or up to the announced position.
Due(w, n) ==
  /\ n \in 0 .. LapLength(last, w)
  /\ IF ending < 0 THEN n = LapLength(last, w) ELSE total + n = ending

Output(w, n) ==
  [prev |-> last, cur |-> w, frames |-> [k \in 1 .. n |-> Lap(last, w, k - 1)]]

Packet(w, n) ==
  /\ ~closed
  /\ Due(w, n)
  /\ last' = w
  /\ total' = total + n
  /\ pcm' = IF n = 0 THEN pcm ELSE Output(w, n)
  /\ UNCHANGED <<ending, closed>>

\* The listener has seen the samples and refuses them: nothing is counted.
Refused(w, n) ==
  /\ ~closed
  /\ Due(w, n) /\ n > 0
  /\ pcm' = Output(w, n)
  /\ closed' = TRUE
  /\ UNCHANGED <<last, total, ending>>

Next ==
  \/ Announce
  \/ Close
  \/ \E w \in Shapes : \E n \in 0 .. LapLength(last, w) : Packet(w, n) \/ Refused(w, n)

Spec == Init /\ [][Next]_vars
=============================================================================
