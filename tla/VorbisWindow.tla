---------------------------- MODULE VorbisWindow ----------------------------
(***************************************************************************)
(* The window tables of VorbisModeNumber (precalc, getWindow): which part  *)
(* of a decoded block a window lets through, for a short block and for the *)
(* four variants of a long one.                                            *)
(*                                                                         *)
(* Every window value in the code is sin(pi/2 * sin(pi/2 * x)^2) for some  *)
(* x in [0,1].  The model keeps x, as a fraction <<numerator,              *)
(* denominator>>, and leaves the sine out: x = 0 is the weight 0 and x = 1 *)
(* the weight 1.                                                           *)
(***************************************************************************)
EXTENDS Integers

CONSTANTS
  Blocksize0,   \* VorbisIdHeader::get_blocksize_0(), the short block
  Blocksize1    \* VorbisIdHeader::get_blocksize_1(), the long block

(***************************************************************************)
(* parse_id accepts two powers of two between 64 and 8192, the short one   *)
(* not above the long one.  Only divisibility by four and the upper limit  *)
(* matter below, so that small instances can be checked.                   *)
(***************************************************************************)
ASSUME BlocksizeAssumption ==
  /\ Blocksize0 \in 4 .. 8192 /\ Blocksize0 % 4 = 0
  /\ Blocksize1 \in 4 .. 8192 /\ Blocksize1 % 4 = 0
  /\ Blocksize0 <= Blocksize1

(***************************************************************************)
(* What an audio packet says of its window: its mode's block_flag and, for *)
(* a long block only, whether the neighbouring blocks are long.            *)
(***************************************************************************)
Shape == [long : BOOLEAN, prev : BOOLEAN, next : BOOLEAN]
Shapes == {w \in Shape : w.long \/ (~w.prev /\ ~w.next)}

BlocksizeOf(long) == IF long THEN Blocksize1 ELSE Blocksize0

WinSize(w) == BlocksizeOf(w.long)

(***************************************************************************)
(* getWindow picks one of the tables that precalc filled: a short block    *)
(* has table 0 only, a long one the table of its two flags.                *)
(***************************************************************************)
WinIdx(w) ==
  IF ~w.long THEN 0
  ELSE IF w.next THEN (IF w.prev THEN 3 ELSE 2)
                 ELSE (IF w.prev THEN 1 ELSE 0)

\* precalc's reading of a table number: bit 0 is prev, bit 1 is next.
IdxPrev(idx) == idx % 2 = 1
IdxNext(idx) == (idx \div 2) % 2 = 1

LeftLen(idx)  == BlocksizeOf(IdxPrev(idx)) \div 2
RightLen(idx) == BlocksizeOf(IdxNext(idx)) \div 2

LeftBegin(size, idx)  == size \div 4 - LeftLen(idx) \div 2
RightBegin(size, idx) == size - size \div 4 - RightLen(idx) \div 2

Zero == <<0, 1>>
One  == <<1, 1>>

(***************************************************************************)
(* The window table idx of a block of the given size, at position i.  The  *)
(* code's three loops write the rising slope, the flat part and the        *)
(* falling slope; the resize before them left 0 everywhere else.           *)
(***************************************************************************)
Table(size, idx, i) ==
  LET left  == LeftLen(idx)
      right == RightLen(idx)
      lb    == LeftBegin(size, idx)
      rb    == RightBegin(size, idx)
  IN CASE lb <= i /\ i < lb + left  -> <<2 * (i - lb) + 1, 2 * left>>
       [] lb + left <= i /\ i < rb  -> One
       [] rb <= i /\ i < rb + right -> <<2 * (right - (i - rb)) - 1, 2 * right>>
       [] OTHER                     -> Zero

Weight(w, i) == Table(WinSize(w), WinIdx(w), i)

(***************************************************************************)
(* The slope functions at x and at 1 - x have squares that add up to 1,    *)
(* which is what makes two lapped windows cancel their aliasing.           *)
(***************************************************************************)
Complementary(x, y) == x[2] = y[2] /\ x[1] + y[1] = x[2]

(***************************************************************************)
(* What an encoder writes into the flags of two successive blocks.  The    *)
(* decoder reads the flags and never compares them with the blocks.        *)
(***************************************************************************)
Follows(w1, w2) ==
  /\ w1.long => (w1.next = w2.long)
  /\ w2.long => (w2.prev = w1.long)
=============================================================================
