----------------------------- MODULE BitReader ------------------------------
(***************************************************************************)
(* BitReader over a ConstDataReader: one packet, read field by field, the  *)
(* low bit of each byte first.  Bits are named by their place: bit i of    *)
(* byte b has the place 8 * b + i, whatever it holds.                      *)
(***************************************************************************)
EXTENDS Integers, FiniteSetsExt

\* A reader over a packet of n bytes.  asked is history: the bits asked for.
NewReader(n) ==
  [data_ |-> 0,                        \* ConstDataReader: bytes taken
   len_ |-> n,                         \* ConstDataReader: bytes left
   last_byte_remaining_bits_ |-> 0,    \* of byte data_ - 1
   reached_end_ |-> FALSE,
   asked |-> 0]

NoPlace == -1

Smaller(a, b) == IF a < b THEN a ELSE b

\* One of the loops over the whole words of c bytes, of which there are k.
Without(want, c, k) == [num |-> want.num - 8 * c * k, len |-> want.len - c * k]

\* want is the bits still wanted and the bytes left.
ReadWords(want, c) ==
  Without(want, c, Smaller(want.num \div (8 * c), want.len \div c))

\* Once last_byte_ is used up: words of 8, 4, 2 and 1 bytes.
ReadWhole(num, len) ==
  ReadWords(ReadWords(ReadWords(ReadWords(
    [num |-> num, len |-> len], 8), 4), 2), 1)

\* A mutant of Parts: a byte is begun even if no bit of it is wanted.
PartsRefilled(num, head, whole) ==
  [head |-> head, num |-> whole.num, len |-> whole.len,
   refill |-> num > head /\ whole.len > 0]

(***************************************************************************)
(* How readBits comes by num bits: head from the byte already begun, whole *)
(* words, and num more of which a new last_byte_ is wanted.                *)
(***************************************************************************)
Parts(num, head, whole) ==
  [head |-> head, num |-> whole.num, len |-> whole.len,
   refill |-> whole.num > 0 /\ whole.len > 0]

SplitAt(r, num, head) == Parts(num, head, ReadWhole(num - head, r.len_))

Split(r, num) == SplitAt(r, num, Smaller(num, r.last_byte_remaining_bits_))

\* The places of the bits of the result, for s = Split(r, num); a bit that is
\* not there stays 0.
PlacesOf(r, num, s) ==
  [i \in 0 .. num - 1 |->
     IF i < s.head THEN 8 * r.data_ - r.last_byte_remaining_bits_ + i
     ELSE IF i < num - s.num THEN 8 * r.data_ + (i - s.head)
     ELSE IF s.refill THEN 8 * (r.data_ + r.len_ - s.len) + (i - (num - s.num))
     ELSE NoPlace]

Places(r, num) == PlacesOf(r, num, Split(r, num))

\* The reader after readBits(num), for num > 0 and s = Split(r, num).
ReaderAfter(r, num, s) ==
  [data_ |-> r.data_ + (r.len_ - s.len) + (IF s.refill THEN 1 ELSE 0),
   len_ |-> s.len - (IF s.refill THEN 1 ELSE 0),
   last_byte_remaining_bits_ |->
     IF num = s.head THEN r.last_byte_remaining_bits_ - num
     ELSE IF s.refill THEN 8 - s.num ELSE 0,
   reached_end_ |-> r.reached_end_ \/ (s.num > 0 /\ ~s.refill),
   asked |-> r.asked + num]

AfterBits(r, num) == ReaderAfter(r, num, Split(r, num))

\* What is left to be read.
Left(r) == 8 * r.len_ + r.last_byte_remaining_bits_

(***************************************************************************)
(* The next num bits, from wherever the reader is, are those that follow   *)
(* the ones asked for so far: no bit is skipped or read twice, whichever   *)
(* words they are read in.  Bits behind the end are missing, which is what *)
(* reached_end_ says from then on (Utils.hpp:338: not an error).           *)
(***************************************************************************)
ReadsInOrder(r, total, num) ==
  /\ Places(r, num) =
       [i \in 0 .. num - 1 |-> IF r.asked + i < total THEN r.asked + i ELSE NoPlace]
  /\ LET after == AfterBits(r, num)
     IN /\ after.last_byte_remaining_bits_ \in 0 .. 7
        /\ Left(after) = IF r.asked + num < total THEN total - (r.asked + num) ELSE 0
        /\ after.reached_end_ <=> r.asked + num > total

=============================================================================
