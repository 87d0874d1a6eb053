------------------------- MODULE AudioPacketProofs --------------------------
(***************************************************************************)
(* Decoding a packet, for every setup and every packet, made by an encoder *)
(* or not: the reader and the classes (ReadInvariant), the limits, undone  *)
(* couplings, silence, values, the refusals of parse_audio, and types.     *)
(* Then packets that an encoder made: what it wrote is what is read, from  *)
(* single fields to the whole packet (EncodedIsDecoded).                   *)
(***************************************************************************)
EXTENDS AudioPacket, LoopProofs, FiniteSetTheorems

-----------------------------------------------------------------------------
(***************************************************************************)
(* The reader: every bit of a packet is read once and in order, for reads  *)
(* of any length.  Up to the end of the packet its place is what it was    *)
(* asked for; behind it, nothing is left.                                  *)
(***************************************************************************)
WellFormed(r, total) ==
  /\ r.data_ \in Nat /\ r.len_ \in Nat /\ r.asked \in Nat
  /\ r.last_byte_remaining_bits_ \in 0 .. 7
  /\ total = 8 * (r.data_ + r.len_)
  /\ r.asked <= total => 8 * r.data_ - r.last_byte_remaining_bits_ = r.asked
  /\ r.asked > total => r.len_ = 0 /\ r.last_byte_remaining_bits_ = 0
  /\ r.reached_end_ \in BOOLEAN
  /\ r.reached_end_ <=> r.asked > total

\* A new reader is at the first bit.
THEOREM NewIsWellFormed ==
  ASSUME NEW n \in Nat
  PROVE  WellFormed(NewReader(n), 8 * n)
BY DEF WellFormed, NewReader

-----------------------------------------------------------------------------
(* The words that are read                                                 *)

\* A loop over words of c bytes takes eight bits for each byte.
LEMMA WordsTaken ==
  ASSUME NEW want, want.num \in Nat, want.len \in Nat, NEW c \in {1, 2, 4, 8}
  PROVE  /\ ReadWords(want, c).num \in Nat /\ ReadWords(want, c).len \in Nat
         /\ want.num - ReadWords(want, c).num = 8 * (want.len - ReadWords(want, c).len)
         /\ ReadWords(want, c).num <= want.num /\ ReadWords(want, c).len <= want.len
         /\ c = 1 => ReadWords(want, c).num < 8 \/ ReadWords(want, c).len = 0
<1> DEFINE num == want.num
           len == want.len
           k == Smaller(num \div (8 * c), len \div c)
           w == ReadWords(want, c)
<1>1. w.num = num - 8 * c * k /\ w.len = len - c * k
  BY DEF ReadWords, Without
<1>2. num \in Nat /\ len \in Nat
  OBVIOUS
<1>3. k \in Nat /\ k <= num \div (8 * c) /\ k <= len \div c
      /\ (k = num \div (8 * c) \/ k = len \div c)
  <2> HIDE DEF num, len
  <2>1. num \div (8 * c) \in Nat /\ len \div c \in Nat
    BY <1>2
  <2> QED BY <2>1 DEF Smaller
<1> HIDE DEF k, w, num, len
<1>4. /\ w.num \in Nat /\ w.len \in Nat
      /\ num - w.num = 8 * (len - w.len)
      /\ w.num <= num /\ w.len <= len
      /\ c = 1 => w.num < 8 \/ w.len = 0
  <2>1. CASE c = 1 BY <1>1, <1>2, <1>3, <2>1
  <2>2. CASE c = 2 BY <1>1, <1>2, <1>3, <2>2
  <2>3. CASE c = 4 BY <1>1, <1>2, <1>3, <2>3
  <2>4. CASE c = 8 BY <1>1, <1>2, <1>3, <2>4
  <2> QED BY <2>1, <2>2, <2>3, <2>4
<1> QED BY <1>4 DEF w, num, len

\* All four loops: less than a byte is still wanted, or no byte is left.
LEMMA WholeTaken ==
  ASSUME NEW num \in Nat, NEW len \in Nat, NEW w, w = ReadWhole(num, len)
  PROVE  /\ w.num \in Nat /\ w.len \in Nat
         /\ num - w.num = 8 * (len - w.len)
         /\ w.num <= num /\ w.len <= len
         /\ w.num < 8 \/ w.len = 0
<1> DEFINE want == [num |-> num, len |-> len]
           a == ReadWords(want, 8)
           b == ReadWords(a, 4)
           c == ReadWords(b, 2)
<1>1. w = ReadWords(c, 1)
  BY DEF ReadWhole
<1>2. want.num = num /\ want.len = len
  OBVIOUS
<1> HIDE DEF want
<1>3. /\ a.num \in Nat /\ a.len \in Nat
      /\ num - a.num = 8 * (len - a.len) /\ a.num <= num /\ a.len <= len
  BY <1>2, WordsTaken
<1> HIDE DEF a
<1>4. /\ b.num \in Nat /\ b.len \in Nat
      /\ a.num - b.num = 8 * (a.len - b.len) /\ b.num <= a.num /\ b.len <= a.len
  BY <1>3, WordsTaken
<1> HIDE DEF b
<1>5. /\ c.num \in Nat /\ c.len \in Nat
      /\ b.num - c.num = 8 * (b.len - c.len) /\ c.num <= b.num /\ c.len <= b.len
  BY <1>4, WordsTaken
<1> HIDE DEF c
<1>6. /\ w.num \in Nat /\ w.len \in Nat
      /\ c.num - w.num = 8 * (c.len - w.len) /\ w.num <= c.num /\ w.len <= c.len
      /\ w.num < 8 \/ w.len = 0
  BY <1>1, <1>5, WordsTaken
<1> QED BY <1>3, <1>4, <1>5, <1>6

\* How a read is split, for a reader that may have part of a byte left.
LEMMA SplitTaken ==
  ASSUME NEW r, NEW num \in Nat \ {0},
         r.len_ \in Nat, r.last_byte_remaining_bits_ \in 0 .. 7,
         NEW s, s = Split(r, num)
  PROVE  /\ s.head \in Nat /\ s.num \in Nat /\ s.len \in Nat
         /\ s.head <= num /\ s.head <= r.last_byte_remaining_bits_
         /\ s.head = num \/ s.head = r.last_byte_remaining_bits_
         /\ (num - s.head) - s.num = 8 * (r.len_ - s.len)
         /\ s.num <= num - s.head /\ s.len <= r.len_
         /\ s.num < 8 \/ s.len = 0
         /\ s.refill = (s.num > 0 /\ s.len > 0)
<1> DEFINE head == Smaller(num, r.last_byte_remaining_bits_)
           w == ReadWhole(num - head, r.len_)
<1>1. head \in Nat /\ head <= num /\ head <= r.last_byte_remaining_bits_
      /\ (head = num \/ head = r.last_byte_remaining_bits_)
  BY DEF Smaller
<1>2. s = [head |-> head, num |-> w.num, len |-> w.len,
           refill |-> w.num > 0 /\ w.len > 0]
  BY DEF Split, SplitAt, Parts
<1> HIDE DEF head
<1>3. /\ w.num \in Nat /\ w.len \in Nat
      /\ (num - head) - w.num = 8 * (r.len_ - w.len)
      /\ w.num <= num - head /\ w.len <= r.len_
      /\ w.num < 8 \/ w.len = 0
  <2>1. num - head \in Nat
    BY <1>1
  <2> QED BY <2>1, WholeTaken
<1> HIDE DEF w
<1> QED BY <1>1, <1>2, <1>3

-----------------------------------------------------------------------------
(* One read                                                                *)

\* After a read the reader is where it should be.
THEOREM AfterIsWellFormed ==
  ASSUME NEW total, NEW r, WellFormed(r, total), NEW num \in Nat \ {0}
  PROVE  WellFormed(AfterBits(r, num), total)
<1> DEFINE s == Split(r, num)
           t == AfterBits(r, num)
           last == r.last_byte_remaining_bits_
<1>1. /\ s.head \in Nat /\ s.num \in Nat /\ s.len \in Nat
      /\ s.head <= num /\ s.head <= last
      /\ s.head = num \/ s.head = last
      /\ (num - s.head) - s.num = 8 * (r.len_ - s.len)
      /\ s.num <= num - s.head /\ s.len <= r.len_
      /\ s.num < 8 \/ s.len = 0
  BY SplitTaken DEF WellFormed
<1>2. s.refill = (s.num > 0 /\ s.len > 0)
  BY SplitTaken DEF WellFormed
<1>3. /\ t.data_ = r.data_ + (r.len_ - s.len) + (IF s.refill THEN 1 ELSE 0)
      /\ t.len_ = s.len - (IF s.refill THEN 1 ELSE 0)
      /\ t.last_byte_remaining_bits_ =
           IF num = s.head THEN last - num
           ELSE IF s.refill THEN 8 - s.num ELSE 0
      /\ t.asked = r.asked + num
  BY DEF AfterBits, ReaderAfter
<1>4. t.reached_end_ = (r.reached_end_ \/ (s.num > 0 /\ ~s.refill))
  BY DEF AfterBits, ReaderAfter
<1>5. /\ r.data_ \in Nat /\ r.len_ \in Nat /\ r.asked \in Nat
      /\ last \in 0 .. 7
      /\ total = 8 * (r.data_ + r.len_)
      /\ r.asked <= total => 8 * r.data_ - last = r.asked
      /\ r.asked > total => r.len_ = 0 /\ last = 0
  BY DEF WellFormed
<1>6. r.reached_end_ \in BOOLEAN /\ (r.reached_end_ <=> r.asked > total)
  BY DEF WellFormed
<1> HIDE DEF s, t, last
<1>7. /\ s.num > 0 /\ s.len > 0 => t.data_ = r.data_ + (r.len_ - s.len) + 1 /\ t.len_ = s.len - 1
      /\ num # s.head /\ s.num > 0 /\ s.len > 0 => t.last_byte_remaining_bits_ = 8 - s.num
  <2>1. SUFFICES ASSUME s.num > 0 /\ s.len > 0
                 PROVE  /\ t.data_ = r.data_ + (r.len_ - s.len) + 1 /\ t.len_ = s.len - 1
                        /\ num # s.head => t.last_byte_remaining_bits_ = 8 - s.num
    OBVIOUS
  <2>2. s.refill
    BY <1>2, <2>1, Zenon
  <2> QED BY <1>3, <2>2
<1>8. /\ ~(s.num > 0 /\ s.len > 0) => t.data_ = r.data_ + (r.len_ - s.len) /\ t.len_ = s.len
      /\ num # s.head /\ ~(s.num > 0 /\ s.len > 0) => t.last_byte_remaining_bits_ = 0
  <2>1. SUFFICES ASSUME ~(s.num > 0 /\ s.len > 0)
                 PROVE  /\ t.data_ = r.data_ + (r.len_ - s.len) /\ t.len_ = s.len
                        /\ num # s.head => t.last_byte_remaining_bits_ = 0
    OBVIOUS
  <2>2. ~s.refill
    BY <1>2, <2>1, Zenon
  <2>3. t.data_ = r.data_ + (r.len_ - s.len) + 0 /\ t.len_ = s.len - 0
        /\ (num # s.head => t.last_byte_remaining_bits_ = 0)
    BY <1>3, <2>2
  <2>4. \A x \in Int : x + 0 = x /\ x - 0 = x
    OBVIOUS
  <2>5. s.len \in Nat /\ r.len_ \in Nat /\ r.data_ \in Nat
    BY <1>1, <1>5, Zenon
  <2>6. r.data_ + (r.len_ - s.len) \in Int /\ s.len \in Int
    BY <2>5
  <2> QED BY <2>3, <2>4, <2>6, Zenon
<1>9. num = s.head => t.last_byte_remaining_bits_ = last - num
  BY <1>3
<1> DEFINE nn == s.num
           ll == s.len
           hh == s.head
           d2 == t.data_
           l2 == t.len_
           last2 == t.last_byte_remaining_bits_
           dd == r.data_
           le == r.len_
           aa == r.asked
<1>10. /\ d2 \in Nat /\ l2 \in Nat /\ last2 \in 0 .. 7
       /\ total = 8 * (d2 + l2)
       /\ aa + num <= total => 8 * d2 - last2 = aa + num
       /\ aa + num > total => l2 = 0 /\ last2 = 0
       /\ aa + num > total <=> aa > total \/ (nn > 0 /\ ~(nn > 0 /\ ll > 0))
  <2>1. /\ hh \in Nat /\ nn \in Nat /\ ll \in Nat
        /\ hh <= num /\ hh <= last
        /\ hh = num \/ hh = last
        /\ (num - hh) - nn = 8 * (le - ll)
        /\ nn <= num - hh /\ ll <= le
        /\ nn < 8 \/ ll = 0
        /\ nn > 0 /\ ll > 0 => d2 = dd + (le - ll) + 1 /\ l2 = ll - 1
        /\ ~(nn > 0 /\ ll > 0) => d2 = dd + (le - ll) /\ l2 = ll
        /\ num = hh => last2 = last - num
        /\ num # hh /\ nn > 0 /\ ll > 0 => last2 = 8 - nn
        /\ num # hh /\ ~(nn > 0 /\ ll > 0) => last2 = 0
    BY <1>1, <1>7, <1>8, <1>9
  <2>2. /\ dd \in Nat /\ le \in Nat /\ aa \in Nat /\ last \in 0 .. 7
        /\ total = 8 * (dd + le)
        /\ aa <= total => 8 * dd - last = aa
        /\ aa > total => le = 0 /\ last = 0
    BY <1>5
  <2> HIDE DEF nn, ll, hh, d2, l2, last2, dd, le, aa
  <2>3. CASE num = hh
    <3>1. nn = 0 /\ ll = le
      BY <2>1, <2>2, <2>3
    <3> QED BY <2>1, <2>2, <2>3, <3>1
  <2>4. CASE num # hh
    <3>1. hh = last
      BY <2>1, <2>4
    <3>2. CASE nn > 0 /\ ll > 0
      <4>1. nn \in 1 .. 7 /\ aa <= total
        BY <2>1, <2>2, <3>2
      <4>2. d2 = dd + (le - ll) + 1 /\ l2 = ll - 1 /\ last2 = 8 - nn
        BY <2>1, <2>4, <3>2
      <4>3. 8 * d2 - last2 = aa + num
        BY <2>1, <2>2, <3>1, <4>1, <4>2
      <4>4. d2 \in Nat /\ l2 \in Nat /\ last2 \in 1 .. 7 /\ total = 8 * (d2 + l2)
        BY <2>1, <2>2, <3>2, <4>1, <4>2
      <4> QED BY <2>2, <3>2, <4>1, <4>3, <4>4
    <3>3. CASE nn = 0
      BY <2>1, <2>2, <2>4, <3>1, <3>3
    <3>4. CASE nn > 0 /\ ll = 0
      <4>1. d2 = dd + le /\ l2 = 0 /\ last2 = 0
        BY <2>1, <2>2, <2>4, <3>4
      <4>2. aa + num > total
        BY <2>1, <2>2, <3>1, <3>4
      <4> QED BY <2>2, <3>4, <4>1, <4>2
    <3> QED BY <2>1, <3>2, <3>3, <3>4
  <2> QED BY <2>3, <2>4
<1>11. t.reached_end_ <=> r.reached_end_ \/ (s.num > 0 /\ ~(s.num > 0 /\ s.len > 0))
  BY <1>2, <1>4, Zenon
<1>12. t.reached_end_ \in BOOLEAN /\ (t.reached_end_ <=> t.asked > total)
  <2>1. t.reached_end_ \in BOOLEAN
    BY <1>4, <1>6, Zenon
  <2>2. t.reached_end_ <=> r.asked + num > total
    BY <1>6, <1>10, <1>11, Zenon
  <2> QED BY <1>3, <2>1, <2>2
<1>13. /\ t.data_ \in Nat /\ t.len_ \in Nat /\ t.asked \in Nat
       /\ t.last_byte_remaining_bits_ \in 0 .. 7
       /\ total = 8 * (t.data_ + t.len_)
       /\ t.asked <= total => 8 * t.data_ - t.last_byte_remaining_bits_ = t.asked
       /\ t.asked > total => t.len_ = 0 /\ t.last_byte_remaining_bits_ = 0
  BY <1>3, <1>5, <1>10
<1>14. WellFormed(t, total)
  BY <1>12, <1>13, Zenon DEF WellFormed
<1> QED BY <1>14 DEF t

\* The places of a read are those behind what was asked for so far.
THEOREM PlacesInOrder ==
  ASSUME NEW total, NEW r, WellFormed(r, total), NEW num \in Nat \ {0}
  PROVE  Places(r, num) =
           [i \in 0 .. num - 1 |-> IF r.asked + i < total THEN r.asked + i ELSE NoPlace]
<1> DEFINE s == Split(r, num)
           head == s.head
           n == s.num
           l == s.len
           data == r.data_
           len == r.len_
           last == r.last_byte_remaining_bits_
           asked == r.asked
<1>1. /\ head \in Nat /\ n \in Nat /\ l \in Nat
      /\ head <= num /\ head <= last
      /\ head = num \/ head = last
      /\ (num - head) - n = 8 * (len - l)
      /\ n <= num - head /\ l <= len
      /\ n < 8 \/ l = 0
  BY SplitTaken DEF WellFormed
<1>2. s.refill = (n > 0 /\ l > 0)
  BY SplitTaken DEF WellFormed
<1>3. Places(r, num) =
        [i \in 0 .. num - 1 |->
           IF i < head THEN 8 * data - last + i
           ELSE IF i < num - n THEN 8 * data + (i - head)
           ELSE IF s.refill THEN 8 * (data + len - l) + (i - (num - n))
           ELSE NoPlace]
  BY DEF Places, PlacesOf
<1>4. /\ data \in Nat /\ len \in Nat /\ asked \in Nat /\ last \in 0 .. 7
      /\ total = 8 * (data + len)
      /\ asked <= 8 * (data + len) => 8 * data - last = asked
      /\ asked > 8 * (data + len) => len = 0 /\ last = 0
  BY DEF WellFormed
<1> HIDE DEF s, head, n, l, data, len, last, asked
<1>5. Places(r, num) =
        [i \in 0 .. num - 1 |->
           IF i < head THEN 8 * data - last + i
           ELSE IF i < num - n THEN 8 * data + (i - head)
           ELSE IF n > 0 /\ l > 0 THEN 8 * (data + len - l) + (i - (num - n))
           ELSE NoPlace]
  BY <1>2, <1>3, Zenon
<1>6. \A i \in 0 .. num - 1 :
        (IF i < head THEN 8 * data - last + i
         ELSE IF i < num - n THEN 8 * data + (i - head)
         ELSE IF n > 0 /\ l > 0 THEN 8 * (data + len - l) + (i - (num - n))
         ELSE NoPlace)
        = IF asked + i < total THEN asked + i ELSE NoPlace
  <2>1. TAKE i \in 0 .. num - 1
  <2>2. (IF i < head THEN 8 * data - last + i
         ELSE IF i < num - n THEN 8 * data + (i - head)
         ELSE IF n > 0 /\ l > 0 THEN 8 * (data + len - l) + (i - (num - n))
         ELSE NoPlace)
        = IF asked + i < 8 * (data + len) THEN asked + i ELSE NoPlace
    <3>1. ASSUME i < head
          PROVE  8 * data - last + i = asked + i /\ asked + i < 8 * (data + len)
      BY <1>1, <1>4, <3>1
    <3>2. ASSUME ~(i < head), i < num - n
          PROVE  8 * data + (i - head) = asked + i /\ asked + i < 8 * (data + len)
      <4>1. head = last /\ asked <= 8 * (data + len)
        BY <1>1, <1>4, <3>2
      <4> QED BY <1>1, <1>4, <3>2, <4>1
    <3>3. ASSUME ~(i < head), ~(i < num - n), n > 0 /\ l > 0
          PROVE  /\ 8 * (data + len - l) + (i - (num - n)) = asked + i
                 /\ asked + i < 8 * (data + len)
      <4>1. head = last /\ n \in 1 .. 7 /\ asked <= 8 * (data + len)
        BY <1>1, <1>4, <3>3
      <4> QED BY <1>1, <1>4, <3>3, <4>1
    <3>4. ASSUME ~(i < head), ~(i < num - n), ~(n > 0 /\ l > 0)
          PROVE  ~(asked + i < 8 * (data + len))
      <4>1. n > 0 /\ l = 0 /\ head = last
        BY <1>1, <3>4
      <4> QED BY <1>1, <1>4, <3>4, <4>1
    <3> QED BY <3>1, <3>2, <3>3, <3>4, Zenon
  <2> QED BY <1>4, <2>2, Zenon
<1>7. Places(r, num) =
        [i \in 0 .. num - 1 |-> IF asked + i < total THEN asked + i ELSE NoPlace]
  BY <1>5, <1>6, Zenon
<1> QED BY <1>7 DEF asked

\* Both together, with what is left: what ReadsAreInOrder asks of a read.
THEOREM ReadsAreOrdered ==
  ASSUME NEW total, NEW r, WellFormed(r, total), NEW num \in Nat \ {0}
  PROVE  ReadsInOrder(r, total, num)
<1> DEFINE t == AfterBits(r, num)
<1>1. WellFormed(t, total)
  BY AfterIsWellFormed
<1>2. t.asked = r.asked + num
  BY DEF AfterBits, ReaderAfter
<1> HIDE DEF t
<1>3. /\ t.data_ \in Nat /\ t.len_ \in Nat /\ t.asked \in Nat
      /\ t.last_byte_remaining_bits_ \in 0 .. 7
      /\ total = 8 * (t.data_ + t.len_)
      /\ t.asked <= total => 8 * t.data_ - t.last_byte_remaining_bits_ = t.asked
      /\ t.asked > total => t.len_ = 0 /\ t.last_byte_remaining_bits_ = 0
  BY <1>1 DEF WellFormed
<1>4. Left(t) = (IF t.asked < total THEN total - t.asked ELSE 0)
  BY <1>3 DEF Left
<1>5. t.reached_end_ <=> t.asked > total
  BY <1>1, Zenon DEF WellFormed
<1>6. Places(r, num) =
        [i \in 0 .. num - 1 |-> IF r.asked + i < total THEN r.asked + i ELSE NoPlace]
  BY PlacesInOrder
<1>7. /\ t.last_byte_remaining_bits_ \in 0 .. 7
      /\ Left(t) = IF r.asked + num < total THEN total - (r.asked + num) ELSE 0
      /\ t.reached_end_ <=> r.asked + num > total
  BY <1>2, <1>3, <1>4, <1>5, Zenon
<1> QED BY <1>6, <1>7, Zenon DEF ReadsInOrder, t

-----------------------------------------------------------------------------
(* Classwords and partitions                                               *)

\* f[i] is what i divisions leave of temp.
Divides(f, temp, n) ==
  f[0] = temp /\ \A i \in 1 .. n : f[i] = f[i - 1] \div residue.num_classifications

LEMMA QuotientIs ==
  ASSUME NEW n \in Nat, NEW temp, NEW f, Divides(f, temp, n), NEW k \in 0 .. n
  PROVE  Quotient(temp, k) = f[k]
<1> DEFINE d == residue.num_classifications
           Is(l) == l = [i \in 0 .. k |-> IF i = 0 THEN temp ELSE l[i - 1] \div d]
           left == CHOOSE l : Is(l)
           part == [i \in 0 .. k |-> f[i]]
<1>1. f[0] = temp /\ \A i \in 1 .. k : f[i] = f[i - 1] \div d
  BY DEF Divides
<1> HIDE DEF d
<1>2. Is(part)
  BY <1>1
<1>3. Is(left)
  BY <1>2
<1>4. Quotient(temp, k) = left[k]
  BY DEF Quotient, d
<1> HIDE DEF left, part
<1>5. left[0] = f[0] /\ \A i \in 1 .. k : left[i - 1] = f[i - 1] => left[i] = f[i]
  BY <1>1, <1>3
<1>6. \A i \in 0 .. k : left[i] = f[i]
  BY <1>5, SameLoop
<1> QED
  BY <1>4, <1>6

\* Each turn divides what is left once more.
LEMMA QuotientStep ==
  ASSUME NEW temp \in Nat, NEW n \in Nat, residue.num_classifications \in Nat \ {0}
  PROVE  /\ Quotient(temp, 0) = temp
         /\ \A k \in 0 .. n : Quotient(temp, k) \in Nat
         /\ \A k \in 1 .. n :
              Quotient(temp, k) = Quotient(temp, k - 1) \div residue.num_classifications
<1> DEFINE d == residue.num_classifications
           S == Nat
           g == [x \in S |-> x \div d]
<1>1. g \in [S -> S] /\ temp \in S
  OBVIOUS
<1>2. PICK f \in [0 .. n -> S] : f[0] = temp /\ \A i \in 1 .. n : f[i] = g[f[i - 1]]
  <2> HIDE DEF g, S
  <2>1. HasLoop(S, g, temp, n)
    BY <1>1, LoopExists
  <2> QED
    BY <2>1 DEF HasLoop
<1>3. ASSUME NEW i \in 1 .. n PROVE f[i] = f[i - 1] \div d
  <2>1. f[i - 1] \in S
    BY <1>2
  <2> HIDE DEF d
  <2> QED
    BY <1>2, <2>1
<1> HIDE DEF d, g
<1>4. \A k \in 0 .. n : Quotient(temp, k) = f[k]
  <2>1. Divides(f, temp, n)
    BY <1>2, <1>3 DEF Divides, d
  <2> QED
    BY <2>1, QuotientIs
<1>5. 0 \in 0 .. n /\ \A k \in 1 .. n : k \in 0 .. n /\ k - 1 \in 0 .. n
  OBVIOUS
<1> QED
  BY <1>2, <1>3, <1>4, <1>5 DEF d

\* The digits of a classword are numbers.
LEMMA QuotientType ==
  ASSUME NEW temp \in Nat, NEW k \in Nat, residue.num_classifications \in Nat \ {0}
  PROVE  Quotient(temp, k) \in Nat
<1>1. k \in 0 .. k
  OBVIOUS
<1> QED
  BY <1>1, QuotientStep

\* A class is one of the residue's.
LEMMA ClassType ==
  ASSUME NEW temp \in Nat, residue.num_classifications \in Nat \ {0},
         classwords_per_codeword \in Nat \ {0},
         NEW i \in 0 .. classwords_per_codeword - 1
  PROVE  Class(temp, i) \in 0 .. residue.num_classifications - 1
<1> DEFINE q == Quotient(temp, classwords_per_codeword - 1 - i)
<1>1. q \in Nat
  <2>1. classwords_per_codeword - 1 - i \in Nat
    OBVIOUS
  <2> QED
    BY <2>1, QuotientType
<1> HIDE DEF q
<1>2. q % residue.num_classifications \in 0 .. residue.num_classifications - 1
  BY <1>1
<1> QED
  BY <1>2 DEF q, Class

-----------------------------------------------------------------------------
(* Readers                                                                 *)

\* The readers of a packet of this many bits, and what reading makes.
Readers(total) ==
  {r \in [data_ : Nat, len_ : Nat, last_byte_remaining_bits_ : 0 .. 7,
          reached_end_ : BOOLEAN, asked : Nat] : WellFormed(r, total)}

Readings(total) == [value : Nat, reader : Readers(total)]

LEMMA NewIsReader ==
  ASSUME NEW n \in Nat
  PROVE  NewReader(n) \in Readers(8 * n)
BY NewIsWellFormed DEF Readers, NewReader

LEMMA AfterIsReader ==
  ASSUME NEW total, NEW r \in Readers(total), NEW num \in Nat \ {0}
  PROVE  AfterBits(r, num) \in Readers(total)
<1> DEFINE t == AfterBits(r, num)
<1>1. WellFormed(t, total)
  BY AfterIsWellFormed DEF Readers
<1>2. t = [data_ |-> t.data_, len_ |-> t.len_,
           last_byte_remaining_bits_ |-> t.last_byte_remaining_bits_,
           reached_end_ |-> t.reached_end_, asked |-> t.asked]
  BY DEF AfterBits, ReaderAfter
<1> HIDE DEF t
<1>3. /\ t.data_ \in Nat /\ t.len_ \in Nat /\ t.asked \in Nat
      /\ t.last_byte_remaining_bits_ \in 0 .. 7
      /\ t.reached_end_ \in BOOLEAN
  BY <1>1 DEF WellFormed
<1>4. t \in [data_ : Nat, len_ : Nat, last_byte_remaining_bits_ : 0 .. 7,
             reached_end_ : BOOLEAN, asked : Nat]
  BY <1>2, <1>3, Zenon
<1> QED
  BY <1>1, <1>4 DEF Readers, t

LEMMA ReadBit ==
  ASSUME NEW total, NEW r \in Readers(total)
  PROVE  readBit(r) \in Readings(total) /\ readBit(r).value \in {0, 1}
<1>1. AfterBits(r, 1) \in Readers(total)
  BY AfterIsReader
<1>2. BitAt(Places(r, 1)[0]) \in {0, 1}
  BY DEF BitAt
<1> QED
  BY <1>1, <1>2 DEF readBit, Readings

LEMMA NextBitRead ==
  ASSUME NEW total, NEW x \in Readings(total)
  PROVE  NextBit(x, readBit(x.reader)) \in Readings(total)
<1> DEFINE bit == readBit(x.reader)
<1>1. bit.value \in {0, 1} /\ bit.reader \in Readers(total) /\ x.value \in Nat
  BY ReadBit DEF Readings
<1> HIDE DEF bit
<1>2. 2 * x.value + bit.value \in Nat
  BY <1>1
<1> QED
  BY <1>1, <1>2 DEF NextBit, Readings, bit

\* A codeword is read bit by bit.
LEMMA ScalarLoop ==
  ASSUME NEW total, NEW r \in Readers(total), NEW book, book.codeword_len \in Nat
  PROVE  \E l : l = [i \in 0 .. book.codeword_len |->
                       IF i = 0 THEN [value |-> 0, reader |-> r]
                       ELSE NextBit(l[i - 1], readBit(l[i - 1].reader))]
<1> DEFINE n == book.codeword_len
           S == Readings(total)
           base == [value |-> 0, reader |-> r]
           g == [x \in S |-> NextBit(x, readBit(x.reader))]
<1>1. g \in [S -> S] /\ base \in S
  BY NextBitRead DEF Readings
<1>2. PICK f \in [0 .. n -> S] :
         f[0] = base /\ \A i \in 1 .. n : f[i] = g[f[i - 1]]
  <2> HIDE DEF g, S, base
  <2>1. HasLoop(S, g, base, n)
    BY <1>1, LoopExists
  <2> QED
    BY <2>1 DEF HasLoop
<1>3. ASSUME NEW i \in 0 .. n
      PROVE  f[i] = IF i = 0 THEN base ELSE NextBit(f[i - 1], readBit(f[i - 1].reader))
  <2>1. CASE i = 0
    BY <1>2, <2>1
  <2>2. CASE i # 0
    <3>1. i \in 1 .. n /\ i - 1 \in 0 .. n
      BY <2>2
    <3>2. f[i - 1] \in S
      BY <1>2, <3>1
    <3>3. f[i] = g[f[i - 1]]
      BY <1>2, <3>1
    <3> QED
      BY <2>2, <3>2, <3>3
  <2> QED
    BY <2>1, <2>2
<1> HIDE DEF S
<1>4. f = [i \in 0 .. n |-> f[i]]
  BY <1>2
<1> QED
  BY <1>3, <1>4

LEMMA ScalarTurns ==
  ASSUME NEW total, NEW r \in Readers(total), NEW book, book.codeword_len \in Nat
  PROVE  \E read :
           /\ decodeScalar(r, book) = read[book.codeword_len]
           /\ read[0] = [value |-> 0, reader |-> r]
           /\ \A i \in 0 .. book.codeword_len : read[i] \in Readings(total)
           /\ \A i \in 1 .. book.codeword_len :
                read[i] = NextBit(read[i - 1], readBit(read[i - 1].reader))
<1> DEFINE n == book.codeword_len
           S == Readings(total)
           base == [value |-> 0, reader |-> r]
           Is(l) == l = [i \in 0 .. n |->
                           IF i = 0 THEN base
                           ELSE NextBit(l[i - 1], readBit(l[i - 1].reader))]
           read == CHOOSE l : Is(l)
<1>1. decodeScalar(r, book) = read[n]
  BY DEF decodeScalar
<1>2. \E l : Is(l)
  BY ScalarLoop
<1>3. Is(read)
  BY <1>2
<1>4. base \in S /\ \A x \in S : NextBit(x, readBit(x.reader)) \in S
  BY NextBitRead DEF Readings
<1> HIDE DEF read, S, base
<1>5. /\ read[0] = base
      /\ \A i \in 1 .. n : read[i] = NextBit(read[i - 1], readBit(read[i - 1].reader))
  BY <1>3
<1>6. read[0] \in S /\ \A i \in 1 .. n : read[i - 1] \in S => read[i] \in S
  BY <1>4, <1>5
<1>7. \A i \in 0 .. n : read[i] \in S
  BY <1>6, LoopStays
<1> QED
  BY <1>1, <1>5, <1>7 DEF S, base

LEMMA DecodeScalarReads ==
  ASSUME NEW total, NEW r \in Readers(total), NEW book, book.codeword_len \in Nat
  PROVE  decodeScalar(r, book) \in Readings(total)
<1>1. book.codeword_len \in 0 .. book.codeword_len
  OBVIOUS
<1>2. PICK read :
        /\ decodeScalar(r, book) = read[book.codeword_len]
        /\ \A i \in 0 .. book.codeword_len : read[i] \in Readings(total)
  BY ScalarTurns
<1> QED
  BY <1>1, <1>2

LEMMA NumVectorsType ==
  ASSUME NEW book, book.dimensions \in Nat \ {0}, residue.partition_size \in Nat \ {0}
  PROVE  NumVectors(book) \in Nat
<1> DEFINE d == book.dimensions
           size == residue.partition_size
<1>1. d \in Nat \ {0} /\ size \in Nat \ {0}
  OBVIOUS
<1> HIDE DEF d, size
<1>2. size \div d \in Nat /\ (size + d - 1) \div d \in Nat
  BY <1>1
<1> QED
  BY <1>2 DEF NumVectors, d, size

\* The vectors of a partition are read one after the other.
LEMMA EntriesLoop ==
  ASSUME NEW total, reader \in Readers(total),
         NEW book, book.codeword_len \in Nat, NumVectors(book) \in Nat
  PROVE  \E l : l = [i \in 0 .. NumVectors(book) |->
                       IF i = 0 THEN [value |-> 0, reader |-> reader]
                       ELSE decodeScalar(l[i - 1].reader, book)]
<1> DEFINE n == NumVectors(book)
           S == Readings(total)
           base == [value |-> 0, reader |-> reader]
           g == [x \in S |-> decodeScalar(x.reader, book)]
<1>1. g \in [S -> S] /\ base \in S
  BY DecodeScalarReads DEF Readings
<1>2. PICK f \in [0 .. n -> S] :
         f[0] = base /\ \A i \in 1 .. n : f[i] = g[f[i - 1]]
  <2> HIDE DEF g, S, base, n
  <2>1. HasLoop(S, g, base, n)
    BY <1>1, LoopExists DEF n
  <2> QED
    BY <2>1 DEF HasLoop
<1> HIDE DEF n
<1>3. n \in Nat
  BY DEF n
<1>4. ASSUME NEW i \in 0 .. n
      PROVE  f[i] = IF i = 0 THEN base ELSE decodeScalar(f[i - 1].reader, book)
  <2>1. CASE i = 0
    BY <1>2, <2>1
  <2>2. CASE i # 0
    <3>1. i \in 1 .. n /\ i - 1 \in 0 .. n
      BY <1>3, <2>2
    <3>2. f[i - 1] \in S
      BY <1>2, <3>1
    <3>3. f[i] = g[f[i - 1]]
      BY <1>2, <3>1
    <3> QED
      BY <2>2, <3>2, <3>3
  <2> QED
    BY <2>1, <2>2
<1> HIDE DEF S
<1>5. f = [i \in 0 .. n |-> f[i]]
  BY <1>2
<1>6. f = [i \in 0 .. n |-> IF i = 0 THEN base ELSE decodeScalar(f[i - 1].reader, book)]
  BY <1>4, <1>5
<1> QED
  BY <1>6 DEF n

LEMMA EntriesTurns ==
  ASSUME NEW total, reader \in Readers(total),
         NEW book, book.codeword_len \in Nat, NumVectors(book) \in Nat
  PROVE  /\ Entries(book)[0] = [value |-> 0, reader |-> reader]
         /\ \A i \in 0 .. NumVectors(book) : Entries(book)[i] \in Readings(total)
         /\ \A i \in 1 .. NumVectors(book) :
              Entries(book)[i] = decodeScalar(Entries(book)[i - 1].reader, book)
<1> DEFINE n == NumVectors(book)
           S == Readings(total)
           base == [value |-> 0, reader |-> reader]
           Is(l) == l = [i \in 0 .. n |->
                           IF i = 0 THEN base
                           ELSE decodeScalar(l[i - 1].reader, book)]
           read == CHOOSE l : Is(l)
<1>1. Entries(book) = read
  BY DEF Entries
<1>2. \E l : Is(l)
  BY EntriesLoop
<1>3. Is(read)
  BY <1>2
<1>4. base \in S /\ \A x \in S : decodeScalar(x.reader, book) \in S
  BY DecodeScalarReads DEF Readings
<1> HIDE DEF read, S, base, n
<1>5. n \in Nat
  BY DEF n
<1>6. /\ read[0] = base
      /\ \A i \in 1 .. n : read[i] = decodeScalar(read[i - 1].reader, book)
  BY <1>3, <1>5
<1>7. read[0] \in S /\ \A i \in 1 .. n : read[i - 1] \in S => read[i] \in S
  BY <1>4, <1>6
<1>8. \A i \in 0 .. n : read[i] \in S
  BY <1>5, <1>7, LoopStays
<1> QED
  BY <1>1, <1>6, <1>8 DEF S, n, base

LEMMA EntriesRead ==
  ASSUME NEW total, reader \in Readers(total),
         NEW book, book.codeword_len \in Nat, NumVectors(book) \in Nat
  PROVE  Entries(book)[NumVectors(book)] \in Readings(total)
<1>1. NumVectors(book) \in 0 .. NumVectors(book)
  OBVIOUS
<1> QED
  BY <1>1, EntriesTurns

-----------------------------------------------------------------------------
(* The invariant                                                           *)

\* The reader is one of this packet's, which has whole bytes.
ReaderOK ==
  \E k \in Nat : DOMAIN packet = 0 .. 8 * k - 1 /\ reader \in Readers(8 * k)

ModeOK == stage \in {"floors", "residues"} => mode_idx \in DOMAIN modes

Decoding == rstage \in {"pass", "classify", "partition"}

ClassesOK ==
  classifications \in
    [0 .. NumChannels - 1 ->
       [0 .. partitions_to_read + classwords_per_codeword - 1 ->
          0 .. residue.num_classifications - 1]]

VectorsOK ==
  /\ NumChannels \in Nat \ {0}
  /\ DOMAIN out = 0 .. NumChannels - 1
  /\ DecodeLen \in Nat
  /\ \A j \in 0 .. NumChannels - 1 : DOMAIN out[j] = 0 .. DecodeLen - 1
  /\ NumChannels <= classwords_per_codeword + 1

(***************************************************************************)
(* partition_count is counted up for each channel: it is ch behind the one *)
(* with which the turn of the channels began, and that is a partition.     *)
(***************************************************************************)
CountersOK ==
  /\ pass \in 0 .. Passes - 1
  /\ partition_count \in Nat
  /\ ch \in Nat
  /\ (rstage = "classify") =>
       (ch <= NumChannels /\ partition_count < partitions_to_read)
  /\ (rstage = "partition") =>
       (ch < NumChannels /\ ch <= partition_count
         /\ partition_count - ch < partitions_to_read)

LoopsOK ==
  Decoding => ParsedResidue(residue) /\ VectorsOK /\ ClassesOK /\ CountersOK

ReadInvariant ==
  modes \in Setups /\ ReaderOK /\ ModeOK /\ LoopsOK

LEMMA ResidueType ==
  ASSUME NEW r, ParsedResidue(r)
  PROVE  /\ r.classbook \in DOMAIN Codebooks
         /\ Codebooks[r.classbook].dimensions \in Nat \ {0}
         /\ Codebooks[r.classbook].codeword_len \in Nat
         /\ r.partition_size \in Nat \ {0}
         /\ r.num_classifications \in Nat \ {0}
         /\ r.type \in 0 .. 2
BY ResidueAssumption DEF ParsedResidue

\* How many partitions fit is a number.
LEMMA PartitionsType ==
  ASSUME NEW r, ParsedResidue(r), NEW len \in Nat
  PROVE  PartitionsIn(r, len) \in Nat
<1>1. /\ r.begin \in Nat /\ r.end \in Nat /\ r.begin <= r.end
      /\ r.partition_size \in Nat \ {0}
  BY DEF ParsedResidue
<1> DEFINE begin == r.begin
           end == r.end
           size == r.partition_size
           l == Smaller(end, len) - Smaller(begin, len)
<1>2. l \in Nat
  <2> HIDE DEF begin, end
  <2> QED
    BY <1>1 DEF Smaller, begin, end
<1> HIDE DEF l, size
<1>3. size \in Nat \ {0}
  BY <1>1 DEF size
<1>4. l \div size \in Nat
  BY <1>2, <1>3
<1> QED
  BY <1>4 DEF PartitionsIn, l, size

\* The sizes of the loops depend on the residue and on the lengths of the vectors.
LEMMA SizesStay ==
  ASSUME residue' = residue, DOMAIN out' = DOMAIN out, DOMAIN out'[0] = DOMAIN out[0]
  PROVE  /\ NumChannels' = NumChannels /\ DecodeLen' = DecodeLen
         /\ partitions_to_read' = partitions_to_read
         /\ classwords_per_codeword' = classwords_per_codeword
BY DEF NumChannels, DecodeLen, partitions_to_read,
       classwords_per_codeword, class_codebook

LEMMA VectorsStay ==
  ASSUME VectorsOK, residue' = residue, DOMAIN out' = DOMAIN out,
         \A j \in DOMAIN out : DOMAIN out'[j] = DOMAIN out[j]
  PROVE  /\ VectorsOK'
         /\ NumChannels' = NumChannels /\ DecodeLen' = DecodeLen
         /\ partitions_to_read' = partitions_to_read
         /\ classwords_per_codeword' = classwords_per_codeword
<1>1. 0 \in DOMAIN out
  <2>1. NumChannels \in Nat \ {0} /\ DOMAIN out = 0 .. NumChannels - 1
    BY DEF VectorsOK
  <2> HIDE DEF NumChannels
  <2> QED
    BY <2>1
<1>2. /\ NumChannels' = NumChannels /\ DecodeLen' = DecodeLen
      /\ partitions_to_read' = partitions_to_read
      /\ classwords_per_codeword' = classwords_per_codeword
  BY <1>1, SizesStay
<1>3. VectorsOK'
  BY <1>2 DEF VectorsOK
<1> QED
  BY <1>2, <1>3

-----------------------------------------------------------------------------
(* The steps of VorbisResidue::decode                                      *)

LEMMA NextClasswordKeeps ==
  ASSUME LoopsOK, NextClassword
  PROVE  LoopsOK'
<1>1. /\ rstage = "pass" /\ residue' = residue /\ out' = out
      /\ classifications' = classifications /\ ch' = 0
  BY DEF NextClassword, settings
<1>2. ParsedResidue(residue) /\ VectorsOK /\ ClassesOK /\ CountersOK
  BY <1>1 DEF LoopsOK, Decoding
<1>3. /\ VectorsOK'
      /\ NumChannels' = NumChannels
      /\ partitions_to_read' = partitions_to_read
      /\ classwords_per_codeword' = classwords_per_codeword
  BY <1>1, <1>2, VectorsStay
<1>4. ClassesOK'
  BY <1>1, <1>2, <1>3 DEF ClassesOK
<1>5. NumChannels \in Nat \ {0}
  BY <1>2 DEF VectorsOK
<1>6. CASE partition_count < partitions_to_read
  <2>1. rstage' = "classify" /\ pass' = pass /\ partition_count' = partition_count
    BY <1>6 DEF NextClassword
  <2>2. CountersOK'
    BY <1>1, <1>2, <1>3, <1>5, <1>6, <2>1 DEF CountersOK
  <2> QED
    BY <1>1, <1>2, <1>3, <1>4, <2>2 DEF LoopsOK
<1>7. CASE ~(partition_count < partitions_to_read)
  <2>1. /\ pass' = pass + 1 /\ partition_count' = 0
        /\ rstage' = IF pass' = Passes THEN "decoded" ELSE "pass"
    BY <1>7 DEF NextClassword
  <2>2. CASE pass' = Passes
    BY <2>1, <2>2 DEF LoopsOK, Decoding
  <2>3. CASE pass' # Passes
    <3>1. pass' \in 0 .. Passes - 1
      BY <1>2, <2>1, <2>3, ResidueAssumption DEF CountersOK
    <3>2. CountersOK'
      BY <1>1, <2>1, <2>3, <3>1 DEF CountersOK
    <3> QED
      BY <1>1, <1>2, <1>3, <1>4, <3>2 DEF LoopsOK
  <2> QED
    BY <2>2, <2>3
<1> QED
  BY <1>6, <1>7

\* A classword fills in classes of the residue.
LEMMA ClassifyFills ==
  ASSUME ParsedResidue(residue), VectorsOK, ClassesOK, CountersOK,
         rstage = "classify", ch # NumChannels, NEW temp \in Nat
  PROVE  [classifications EXCEPT ![ch] =
            [q \in DOMAIN @ |->
               IF q - partition_count \in 0 .. classwords_per_codeword - 1
               THEN Class(temp, q - partition_count) ELSE @[q]]]
         \in [0 .. NumChannels - 1 ->
               [0 .. partitions_to_read + classwords_per_codeword - 1 ->
                  0 .. residue.num_classifications - 1]]
<1> DEFINE D == 0 .. NumChannels - 1
           Q == 0 .. partitions_to_read + classwords_per_codeword - 1
           C == 0 .. residue.num_classifications - 1
           old == classifications[ch]
           new == [q \in DOMAIN old |->
                     IF q - partition_count \in 0 .. classwords_per_codeword - 1
                     THEN Class(temp, q - partition_count) ELSE old[q]]
<1>1. classwords_per_codeword \in Nat \ {0} /\ residue.num_classifications \in Nat \ {0}
  BY ResidueType DEF classwords_per_codeword, class_codebook
<1>2. ch \in D
  BY DEF CountersOK, VectorsOK
<1>3. classifications \in [D -> [Q -> C]]
  BY DEF ClassesOK
<1>4. old \in [Q -> C]
  BY <1>2, <1>3
<1>5. ASSUME NEW q \in Q PROVE new[q] \in C
  <2>1. CASE q - partition_count \in 0 .. classwords_per_codeword - 1
    <3>1. Class(temp, q - partition_count) \in C
      BY <1>1, <2>1, ClassType
    <3> QED
      BY <1>4, <2>1, <3>1
  <2>2. CASE q - partition_count \notin 0 .. classwords_per_codeword - 1
    BY <1>4, <2>2
  <2> QED
    BY <2>1, <2>2
<1>6. DOMAIN new = Q
  BY <1>4
<1>7. new \in [Q -> C]
  <2> HIDE DEF new, Q, C
  <2>1. new = [q \in Q |-> new[q]]
    BY <1>6 DEF new
  <2> QED
    BY <1>5, <2>1
<1> HIDE DEF D, Q, C
<1>8. [classifications EXCEPT ![ch] = new] \in [D -> [Q -> C]]
  <2> HIDE DEF new
  <2> QED
    BY <1>3, <1>7
<1> QED
  BY <1>8 DEF D, Q, C

LEMMA ClassifyKeeps ==
  ASSUME LoopsOK, NEW total, reader \in Readers(total), Classify
  PROVE  LoopsOK' /\ reader' \in Readers(total)
<1>1. /\ rstage = "classify" /\ residue' = residue /\ out' = out
      /\ pass' = pass /\ partition_count' = partition_count
  BY DEF Classify, settings
<1>2. ParsedResidue(residue) /\ VectorsOK /\ ClassesOK /\ CountersOK
  BY <1>1 DEF LoopsOK, Decoding
<1>3. /\ VectorsOK'
      /\ NumChannels' = NumChannels
      /\ partitions_to_read' = partitions_to_read
      /\ classwords_per_codeword' = classwords_per_codeword
  BY <1>1, <1>2, VectorsStay
<1>4. NumChannels \in Nat \ {0}
  BY <1>2 DEF VectorsOK
<1>5. ParsedResidue(residue')
  BY <1>1, <1>2
<1>6. CASE ch = NumChannels \/ pass > 0
  <2>1. /\ rstage' = "partition" /\ ch' = 0
        /\ reader' = reader /\ classifications' = classifications
    BY <1>6 DEF Classify
  <2>2. ClassesOK'
    BY <1>1, <1>2, <1>3, <2>1 DEF ClassesOK
  <2>3. CountersOK'
    BY <1>1, <1>2, <1>3, <1>4, <2>1 DEF CountersOK
  <2> QED
    BY <1>3, <1>5, <2>1, <2>2, <2>3 DEF LoopsOK
<1>7. CASE ~(ch = NumChannels \/ pass > 0)
  <2>1. ch' = ch + 1 /\ rstage' = rstage
    BY <1>7 DEF Classify
  <2>2. CountersOK'
    BY <1>1, <1>2, <1>3, <1>4, <1>7, <2>1 DEF CountersOK
  <2>3. ClassesOK' /\ reader' \in Readers(total)
    <3>1. CASE channel_used[ch]
      <4> DEFINE temp == decodeScalar(reader, class_codebook)
      <4>1. /\ reader' = temp.reader
            /\ classifications' = [classifications EXCEPT ![ch] =
                 [q \in DOMAIN @ |->
                    IF q - partition_count \in 0 .. classwords_per_codeword - 1
                    THEN Class(temp.value, q - partition_count) ELSE @[q]]]
        BY <1>7, <3>1 DEF Classify
      <4>2. class_codebook.codeword_len \in Nat
        BY <1>2, ResidueType DEF class_codebook
      <4>3. temp \in Readings(total)
        BY <4>2, DecodeScalarReads
      <4> HIDE DEF temp
      <4>4. temp.value \in Nat /\ temp.reader \in Readers(total)
        BY <4>3 DEF Readings
      <4>5. classifications' \in
              [0 .. NumChannels - 1 ->
                 [0 .. partitions_to_read + classwords_per_codeword - 1 ->
                    0 .. residue.num_classifications - 1]]
        BY <1>1, <1>2, <1>7, <4>1, <4>4, ClassifyFills
      <4>6. ClassesOK'
        BY <1>1, <1>3, <4>5 DEF ClassesOK
      <4> QED
        BY <4>1, <4>4, <4>6
    <3>2. CASE ~channel_used[ch]
      <4>1. reader' = reader /\ classifications' = classifications
        BY <1>7, <3>2 DEF Classify
      <4> QED
        BY <1>1, <1>2, <1>3, <4>1 DEF ClassesOK
    <3> QED
      BY <3>1, <3>2
  <2> QED
    BY <1>3, <1>5, <2>2, <2>3 DEF LoopsOK
<1> QED
  BY <1>6, <1>7

\* The class of the current partition is there, however far the counter ran.
LEMMA ClassIsThere ==
  ASSUME ParsedResidue(residue), VectorsOK, ClassesOK, CountersOK, rstage = "partition"
  PROVE  /\ ch \in DOMAIN classifications
         /\ partition_count \in DOMAIN classifications[ch]
         /\ vq_book \in {NoBook} \union DOMAIN Codebooks
<1> DEFINE n == NumChannels
           P == partitions_to_read
           W == classwords_per_codeword
           Q == 0 .. P + W - 1
           C == 0 .. residue.num_classifications - 1
           B == {NoBook} \union DOMAIN Codebooks
<1>1. W \in Nat \ {0}
  BY ResidueType DEF classwords_per_codeword, class_codebook
<1>2. P \in Nat
  BY PartitionsType DEF VectorsOK, partitions_to_read
<1>3. /\ ch \in Nat /\ partition_count \in Nat
      /\ ch < n /\ ch <= partition_count /\ partition_count - ch < P
  BY DEF CountersOK
<1>4. n \in Nat \ {0} /\ n <= W + 1
  BY DEF VectorsOK
<1>5. classifications \in [0 .. n - 1 -> [Q -> C]]
  BY DEF ClassesOK
<1> HIDE DEF n, P, W
<1>6. ch \in 0 .. n - 1 /\ partition_count \in Q
  BY <1>1, <1>2, <1>3, <1>4
<1> HIDE DEF Q, C, B
<1>7. /\ ch \in DOMAIN classifications
      /\ partition_count \in DOMAIN classifications[ch]
      /\ classifications[ch][partition_count] \in C
  BY <1>5, <1>6
<1>8. residue.books \in [C -> [0 .. Passes - 1 -> B]]
  BY DEF ParsedResidue, C, B
<1>9. pass \in 0 .. Passes - 1
  BY DEF CountersOK
<1>10. residue.books[classifications[ch][partition_count]][pass] \in B
  BY <1>7, <1>8, <1>9
<1> QED
  BY <1>7, <1>10 DEF vq_book, B

LEMMA DecodePartitionKeeps ==
  ASSUME LoopsOK, NEW total, reader \in Readers(total), DecodePartition
  PROVE  LoopsOK' /\ reader' \in Readers(total)
<1>1. /\ rstage = "partition" /\ residue' = residue
      /\ classifications' = classifications /\ pass' = pass
      /\ partition_count' = partition_count + 1
  BY DEF DecodePartition, settings
<1>2. ParsedResidue(residue) /\ VectorsOK /\ ClassesOK /\ CountersOK
  BY <1>1 DEF LoopsOK, Decoding
<1>3. /\ DOMAIN out' = DOMAIN out
      /\ \A j \in DOMAIN out : DOMAIN out'[j] = DOMAIN out[j]
      /\ reader' \in Readers(total)
  <2>1. CASE channel_used[ch] /\ vq_book # NoBook
    <3> DEFINE book == Codebooks[vq_book]
               added == Added(out[ch], vq_book)
    <3>1. out' = [out EXCEPT ![ch] = added] /\ reader' = Entries(book)[NumVectors(book)].reader
      BY <2>1 DEF DecodePartition
    <3>2. DOMAIN added = DOMAIN out[ch]
      BY DEF Added
    <3>3. vq_book \in DOMAIN Codebooks
      BY <1>1, <1>2, <2>1, ClassIsThere
    <3>4. book.dimensions \in Nat \ {0} /\ book.codeword_len \in Nat
      BY <3>3, ResidueAssumption
    <3>5. Entries(book)[NumVectors(book)] \in Readings(total)
      BY <1>2, <3>4, NumVectorsType, EntriesRead, ResidueType
    <3>6. reader' \in Readers(total)
      BY <3>1, <3>5 DEF Readings
    <3> HIDE DEF added
    <3> QED
      BY <3>1, <3>2, <3>6
  <2>2. CASE ~(channel_used[ch] /\ vq_book # NoBook)
    <3>1. out' = out /\ reader' = reader
      BY <2>2 DEF DecodePartition
    <3> QED
      BY <3>1
  <2> QED
    BY <2>1, <2>2
<1>4. /\ VectorsOK'
      /\ NumChannels' = NumChannels
      /\ partitions_to_read' = partitions_to_read
      /\ classwords_per_codeword' = classwords_per_codeword
  BY <1>1, <1>2, <1>3, VectorsStay
<1>5. ClassesOK' /\ ParsedResidue(residue')
  BY <1>1, <1>2, <1>4 DEF ClassesOK
<1>6. NumChannels \in Nat \ {0}
  BY <1>2 DEF VectorsOK
<1>7. CountersOK'
  <2>1. CASE ch + 1 < NumChannels
    <3>1. ch' = ch + 1 /\ rstage' = rstage
      BY <2>1 DEF DecodePartition
    <3> QED
      BY <1>1, <1>2, <1>4, <1>6, <2>1, <3>1 DEF CountersOK
  <2>2. CASE ~(ch + 1 < NumChannels)
    <3>1. /\ ch' = 0
          /\ rstage' = IF InWord(word', partition_count') THEN "partition" ELSE "pass"
      BY <2>2 DEF DecodePartition
    <3>2. (rstage' = "partition") => (partition_count' < partitions_to_read)
      BY <3>1 DEF InWord
    <3>3. rstage' \in {"partition", "pass"}
      BY <3>1
    <3> QED
      BY <1>1, <1>2, <1>4, <1>6, <3>1, <3>2, <3>3 DEF CountersOK
  <2> QED
    BY <2>1, <2>2
<1> QED
  BY <1>3, <1>4, <1>5, <1>7 DEF LoopsOK

LEMMA RefuseVectorKeeps ==
  ASSUME LoopsOK, NEW total, reader \in Readers(total), RefuseVector
  PROVE  LoopsOK' /\ reader' \in Readers(total)
<1>1. /\ rstage = "partition" /\ rstage' = "failed" /\ vq_book # NoBook
      /\ reader' = decodeScalar(reader, Codebooks[vq_book]).reader
  BY DEF RefuseVector
<1>2. vq_book \in DOMAIN Codebooks
  BY <1>1, ClassIsThere DEF LoopsOK, Decoding
<1>3. Codebooks[vq_book].codeword_len \in Nat
  BY <1>2, ResidueAssumption
<1>4. decodeScalar(reader, Codebooks[vq_book]) \in Readings(total)
  BY <1>3, DecodeScalarReads
<1>5. reader' \in Readers(total)
  BY <1>1, <1>4 DEF Readings
<1> QED
  BY <1>1, <1>5 DEF LoopsOK, Decoding

LEMMA CountOf ==
  ASSUME NEW n \in Nat
  PROVE  Cardinality(0 .. n - 1) = n /\ IsFiniteSet(0 .. n - 1)
<1>1. /\ IsFiniteSet(0 .. n - 1)
      /\ Cardinality(0 .. n - 1) = IF 0 > n - 1 THEN 0 ELSE n - 1 - 0 + 1
  BY FS_Interval
<1> QED
  BY <1>1

\* The start of decode, for n channels with vectors of a given length.
LEMMA BeginKeeps ==
  ASSUME NEW r, ParsedResidue(r), NEW n \in Nat,
         NEW used, DOMAIN used = 0 .. n - 1, NEW decode_len_ \in Nat,
         r.type = 2 \/ n <= Codebooks[r.classbook].dimensions + 1,
         BeginResidue(r, used, decode_len_)
  PROVE  LoopsOK'
<1> DEFINE len == IF r.type = 2 THEN n * decode_len_ ELSE decode_len_
           N == IF r.type = 2 THEN 1 ELSE n
           W == Codebooks[r.classbook].dimensions
           P == PartitionsIn(r, len)
<1>1. Cardinality(DOMAIN used) = n
  BY CountOf
<1>2. CASE n = 0
  <2>1. rstage' = "failed"
    BY <1>1, <1>2 DEF BeginResidue
  <2> QED
    BY <2>1 DEF LoopsOK, Decoding
<1>3. CASE n # 0
  <2>1. len \in Nat /\ N \in Nat \ {0} /\ W \in Nat \ {0} /\ N <= W + 1
    <3>1. W \in Nat \ {0}
      BY ResidueType
    <3>2. n * decode_len_ \in Nat
      OBVIOUS
    <3> HIDE DEF W
    <3> QED
      BY <1>3, <3>1, <3>2 DEF W
  <2>2. P \in Nat
    BY <2>1, PartitionsType
  <2>3. /\ residue' = r
        /\ channel_used' = IF r.type = 2 THEN [j \in {0} |-> TRUE] ELSE used
        /\ out' = [j \in DOMAIN channel_used' |-> [p \in 0 .. len - 1 |-> 0]]
        /\ classifications' = [j \in DOMAIN channel_used' |-> [q \in 0 .. P + W - 1 |-> 0]]
        /\ pass' = 0 /\ partition_count' = 0 /\ ch' = 0 /\ rstage' = "pass"
    <3> HIDE DEF N
    <3>1. /\ residue' = r
          /\ channel_used' = IF r.type = 2 THEN [j \in {0} |-> TRUE] ELSE used
      BY DEF BeginResidue
    <3>2. /\ pass' = 0 /\ partition_count' = 0 /\ ch' = 0 /\ rstage' = "pass"
      BY <1>1, <1>3 DEF BeginResidue
    <3>3. out' = [j \in DOMAIN channel_used' |-> [p \in 0 .. len - 1 |-> 0]]
      BY <1>1 DEF BeginResidue
    <3>4. classifications' = [j \in DOMAIN channel_used' |-> [q \in 0 .. P + W - 1 |-> 0]]
      <4> DEFINE L == IF r.type = 2 THEN Cardinality(DOMAIN used) * decode_len_
                      ELSE decode_len_
                 slots == PartitionsIn(r, L) + Codebooks[r.classbook].dimensions
      <4>1. classifications' = [j \in DOMAIN channel_used' |-> [q \in 0 .. slots - 1 |-> 0]]
        BY DEF BeginResidue
      <4>2. L = len
        BY <1>1
      <4> HIDE DEF L, len
      <4>3. slots = P + W
        BY <4>2
      <4> HIDE DEF slots, P, W
      <4>4. slots - 1 = P + W - 1
        BY <2>1, <2>2, <4>3
      <4> QED
        BY <4>1, <4>4, Zenon
    <3> QED
      BY <3>1, <3>2, <3>3, <3>4
  <2>4. DOMAIN channel_used' = 0 .. N - 1
    <3>1. {0} = 0 .. 1 - 1
      OBVIOUS
    <3> HIDE DEF len, P, W
    <3>2. CASE r.type = 2
      BY <2>3, <3>1, <3>2
    <3>3. CASE r.type # 2
      BY <2>3, <3>3
    <3> QED
      BY <3>2, <3>3
  <2> HIDE DEF len, N, P, W
  <2>5. /\ DOMAIN out' = 0 .. N - 1
        /\ \A j \in 0 .. N - 1 : DOMAIN out'[j] = 0 .. len - 1
    BY <2>3, <2>4
  <2>6. NumChannels' = N
    BY <2>1, <2>5, CountOf DEF NumChannels
  <2>7. DecodeLen' = len
    <3>1. 0 \in 0 .. N - 1
      BY <2>1
    <3> QED
      BY <2>1, <2>5, <3>1, CountOf DEF DecodeLen
  <2>8. classwords_per_codeword' = W /\ partitions_to_read' = P
    BY <2>3, <2>7 DEF classwords_per_codeword, class_codebook, partitions_to_read,
       W, P
  <2>9. VectorsOK'
    BY <2>1, <2>5, <2>6, <2>7, <2>8 DEF VectorsOK
  <2>10. ClassesOK'
    <3>1. 0 \in 0 .. r.num_classifications - 1
      BY ResidueType
    <3>2. classifications' \in [0 .. N - 1 ->
             [0 .. P + W - 1 -> 0 .. r.num_classifications - 1]]
      BY <2>3, <2>4, <3>1
    <3> QED
      BY <2>3, <2>6, <2>8, <3>2 DEF ClassesOK
  <2>11. CountersOK'
    BY <2>3, <2>1, <2>6, ResidueAssumption DEF CountersOK
  <2> QED
    BY <2>3, <2>9, <2>10, <2>11 DEF LoopsOK
<1> QED
  BY <1>2, <1>3

\* The channels of a submap are numbered without gaps.
LEMMA MembersCount ==
  ASSUME NEW m, NEW s
  PROVE  LET n == Cardinality({c \in Channels : m.muxs[c] = s})
         IN n \in Nat /\ DOMAIN Members(m, s) = 0 .. n - 1
<1> DEFINE mine == {c \in Channels : m.muxs[c] = s}
           n == Cardinality(mine)
<1>1. IsFiniteSet(Channels)
  BY AudioAssumption, CountOf DEF Channels
<1>2. mine \in SUBSET Channels
  OBVIOUS
<1>3. n \in Nat
  <2> HIDE DEF mine
  <2> QED
    BY <1>1, <1>2, FS_Subset, FS_CardinalityType
<1>4. DOMAIN Members(m, s) = 0 .. n - 1
  BY DEF Members, InOrder, Table
<1> QED
  BY <1>3, <1>4

LEMMA StartResidueKeeps ==
  ASSUME ReadInvariant, StartResidue
  PROVE  LoopsOK'
<1> DEFINE m == mapping(mode_idx)
           r == m.submaps[submap].residue
           members == Members(m, submap)
           n == Cardinality({c \in Channels : m.muxs[c] = submap})
           used == [j \in DOMAIN members |-> floor_output_used[members[j]]]
<1>1. submap \in DOMAIN m.submaps /\ BeginResidue(r, used, decode_len(modes, mode_idx))
  BY DEF StartResidue
<1>2. mode_idx \in DOMAIN modes /\ modes \in Setups
  BY DEF ReadInvariant, ModeOK, StartResidue
<1>3. ParsedMapping(m) /\ FewChannels(m) /\ modes[mode_idx].block_flag \in BOOLEAN
  BY <1>2, AudioAssumption DEF mapping
<1>4. ParsedResidue(r)
  BY <1>1, <1>3 DEF ParsedMapping
<1>5. r.type = 2 \/ n <= Codebooks[r.classbook].dimensions + 1
  BY <1>1, <1>3 DEF FewChannels
<1>6. n \in Nat /\ DOMAIN used = 0 .. n - 1
  BY MembersCount
<1>7. decode_len(modes, mode_idx) \in Nat
  BY <1>3, AudioAssumption DEF decode_len
<1> HIDE DEF m, r, n, used, members
<1> QED
  BY <1>1, <1>4, <1>5, <1>6, <1>7, BeginKeeps

-----------------------------------------------------------------------------
(* The steps of parse_audio                                                *)

\* How many bits the numbers of up to 64 modes have.
Log(v) ==
  CASE v = 0       -> 0
    [] v = 1       -> 1
    [] v \in 2 .. 3   -> 2
    [] v \in 4 .. 7   -> 3
    [] v \in 8 .. 15  -> 4
    [] v \in 16 .. 31 -> 5
    [] v \in 32 .. 63 -> 6

LEMMA HighestBit ==
  ASSUME NEW v \in 0 .. 63
  PROVE  highest_bit(v) = Log(v) /\ Log(v) \in 0 .. 6
<1> DEFINE Is(l) == l = [x \in 0 .. v |-> IF x = 0 THEN 0 ELSE 1 + l[x \div 2]]
           shifts == CHOOSE l : Is(l)
           f == [x \in 0 .. v |-> Log(x)]
<1>1. \A x \in 0 .. v : x # 0 => x \div 2 \in 0 .. v /\ x \div 2 < x
  OBVIOUS
<1>2. \A x \in 0 .. v : x # 0 => Log(x) = 1 + Log(x \div 2)
  BY DEF Log
<1>3. Is(f)
  <2>1. \A x \in 0 .. v : f[x] = IF x = 0 THEN 0 ELSE 1 + f[x \div 2]
    <3>1. Log(0) = 0
      BY DEF Log
    <3> QED
      BY <1>1, <1>2, <3>1
  <2> QED
    BY <2>1
<1>4. Is(shifts)
  BY <1>3
<1>5. highest_bit(v) = shifts[v]
  BY DEF highest_bit
<1> HIDE DEF shifts
<1> DEFINE Bad == {x \in 0 .. v : shifts[x] # Log(x)}
<1>6. Bad = {}
  <2>1. SUFFICES ASSUME Bad # {} PROVE FALSE
    OBVIOUS
  <2>2. PICK m \in Bad : \A k \in Bad : m <= k
    <3>1. Bad \in SUBSET Nat
      OBVIOUS
    <3> HIDE DEF Bad
    <3> QED
      BY <2>1, <3>1, LeastExists
  <2>3. m \in 0 .. v /\ shifts[m] # Log(m)
    OBVIOUS
  <2>4. shifts[m] = IF m = 0 THEN 0 ELSE 1 + shifts[m \div 2]
    BY <1>4, <2>3
  <2>5. m # 0
    BY <2>3, <2>4 DEF Log
  <2>6. m \div 2 \notin Bad
    <3> HIDE DEF Bad
    <3> QED
      BY <1>1, <2>2, <2>3, <2>5
  <2>7. shifts[m \div 2] = Log(m \div 2)
    BY <1>1, <2>3, <2>5, <2>6
  <2> HIDE DEF Bad
  <2> QED
    BY <1>2, <2>3, <2>4, <2>5, <2>7
<1>7. Log(v) \in 0 .. 6
  BY DEF Log
<1> QED
  BY <1>5, <1>6, <1>7

LEMMA ModesCount ==
  ASSUME modes \in Setups
  PROVE  /\ Cardinality(DOMAIN modes) - 1 \in 0 .. 63
         /\ DOMAIN modes = 0 .. Cardinality(DOMAIN modes) - 1
<1>1. PICK n \in 0 .. 63 : DOMAIN modes = 0 .. n
  BY AudioAssumption
<1>2. Cardinality(0 .. n) = n + 1
  BY FS_Interval
<1> QED
  BY <1>1, <1>2

LEMMA ReadHeadKeeps ==
  ASSUME modes \in Setups, NEW total, reader \in Readers(total), ReadHead
  PROVE  /\ reader' \in Readers(total)
         /\ stage' = "floors" => mode_idx' \in DOMAIN modes
<1> DEFINE type_ == readBit(reader)
           bits == highest_bit(Cardinality(DOMAIN modes) - 1)
           idx == readBits(type_.reader, bits)
           block == readBit(idx.reader)
           window == readBit(block.reader)
<1>1. bits \in Nat
  <2> DEFINE v == Cardinality(DOMAIN modes) - 1
  <2>1. v \in 0 .. 63
    BY ModesCount
  <2> HIDE DEF v
  <2>2. highest_bit(v) \in Nat
    BY <2>1, HighestBit
  <2> QED
    BY <2>2 DEF v
<1>2. type_.reader \in Readers(total)
  BY ReadBit DEF Readings
<1>3. bits # 0 => idx.reader \in Readers(total)
  BY <1>1, <1>2, AfterIsReader DEF readBits
<1>4. bits # 0 => window.reader \in Readers(total)
  BY <1>3, ReadBit DEF Readings
<1>5. CASE type_.value # 0
  <2>1. stage' = "failed" /\ reader' = type_.reader
    BY <1>5 DEF ReadHead
  <2> QED
    BY <1>2, <2>1
<1>6. CASE type_.value = 0 /\ bits = 0
  <2>1. stage' = "aborted" /\ reader' = type_.reader
    BY <1>6 DEF ReadHead
  <2> QED
    BY <1>2, <2>1
<1>7. CASE type_.value = 0 /\ bits # 0 /\ idx.value \notin DOMAIN modes
  <2>1. stage' = "undefined" /\ reader' = idx.reader
    BY <1>7 DEF ReadHead
  <2> QED
    BY <1>3, <1>7, <2>1
<1>8. CASE type_.value = 0 /\ bits # 0 /\ idx.value \in DOMAIN modes
  <2>1. /\ mode_idx' = idx.value
        /\ reader' = IF modes[idx.value].block_flag THEN window.reader ELSE idx.reader
    BY <1>8 DEF ReadHead
  <2> QED
    BY <1>3, <1>4, <1>8, <2>1
<1> QED
  BY <1>5, <1>6, <1>7, <1>8

LEMMA DecodeFloorReads ==
  ASSUME NEW total, reader \in Readers(total), DecodeFloor
  PROVE  reader' \in Readers(total)
<1> DEFINE used == readBit(reader)
           curve == readBits(used.reader, FloorBits)
<1>1. used.reader \in Readers(total)
  BY ReadBit DEF Readings
<1>2. curve.reader \in Readers(total)
  BY <1>1, AudioAssumption, AfterIsReader DEF readBits
<1>3. reader' \in {reader, used.reader, curve.reader}
  BY DEF DecodeFloor
<1> QED
  BY <1>1, <1>2, <1>3

\* No other step reads.
LEMMA OthersDoNotRead ==
  ASSUME \/ PropagateNonzero \/ StartResidue \/ FailResidue \/ FinishResidue
         \/ PushResidues \/ InverseCoupling \/ DotProduct
  PROVE  reader' = reader
BY DEF PropagateNonzero, StartResidue, FailResidue, FinishResidue,
       PushResidues, InverseCoupling, DotProduct

LEMMA ReadInit ==
  AInit => ReadInvariant
<1> SUFFICES ASSUME AInit PROVE ReadInvariant
  OBVIOUS
<1>1. modes \in Setups /\ stage = "head" /\ rstage = "none"
      /\ reader = NewReader(Cardinality(DOMAIN packet) \div 8)
  BY DEF AInit
<1>2. \E k \in Nat : DOMAIN packet = 0 .. 8 * k - 1
  <2>1. CASE MadePackets
    <3>1. PICK made \in Packets[modes], cut \in Cuts : packet = Packed(made.bits, cut)
      BY <2>1 DEF MadePackets
    <3>2. made.bits \in Seq({0, 1}) /\ cut \in Nat
      BY <1>1, PacketsAssumption DEF IsMade
    <3> DEFINE n == Len(made.bits)
               bytes == (n + 7) \div 8
               kept == IF cut < bytes THEN bytes - cut ELSE 0
    <3>3. n \in Nat
      BY <3>2
    <3>4. kept \in Nat
      <4> HIDE DEF n
      <4> QED
        BY <3>2, <3>3
    <3>5. DOMAIN packet = 0 .. 8 * kept - 1
      BY <3>1 DEF Packed
    <3> QED
      BY <3>4, <3>5
  <2>2. CASE packet \in Noise
    <3> DEFINE n == Cardinality(DOMAIN packet)
    <3>1. n \in Nat /\ n % 8 = 0 /\ packet \in [0 .. n - 1 -> {0, 1}]
      BY <2>2, PacketsAssumption
    <3> HIDE DEF n
    <3>2. n \div 8 \in Nat /\ 8 * (n \div 8) = n
      BY <3>1
    <3>3. DOMAIN packet = 0 .. 8 * (n \div 8) - 1
      BY <3>1, <3>2
    <3> QED
      BY <3>2, <3>3
  <2> QED
    BY <2>1, <2>2 DEF AInit
<1>3. PICK k \in Nat : DOMAIN packet = 0 .. 8 * k - 1
  BY <1>2
<1>4. Cardinality(DOMAIN packet) \div 8 = k
  <2>1. 8 * k \in Nat
    OBVIOUS
  <2>2. Cardinality(DOMAIN packet) = 8 * k
    BY <1>3, <2>1, CountOf
  <2> QED
    BY <2>2
<1>5. ReaderOK
  BY <1>1, <1>3, <1>4, NewIsReader DEF ReaderOK
<1> QED
  BY <1>1, <1>5 DEF ReadInvariant, ModeOK, LoopsOK, Decoding

\* The setup and the packet stay what they are.
LEMMA PacketStays ==
  ASSUME [ANext]_avars
  PROVE  modes' = modes /\ packet' = packet
BY DEF ANext, avars, given, ReadHead, DecodeFloor, PropagateNonzero, StartResidue,
       DecodeResidue, ResidueNext, NextClassword, Classify, DecodePartition,
       RefuseVector, settings, FailResidue, FinishResidue, PushResidues,
       InverseCoupling, DotProduct

LEMMA ReaderKeeps ==
  ASSUME ReadInvariant, [ANext]_avars, NEW total, reader \in Readers(total)
  PROVE  reader' \in Readers(total)
<1>1. CASE ReadHead
  BY <1>1, ReadHeadKeeps DEF ReadInvariant
<1>2. CASE DecodeFloor
  BY <1>2, DecodeFloorReads
<1>3. CASE DecodeResidue
  <2>1. CASE NextClassword
    BY <2>1 DEF NextClassword
  <2>2. CASE Classify
    BY <2>2, ClassifyKeeps DEF ReadInvariant
  <2>3. CASE DecodePartition
    BY <2>3, DecodePartitionKeeps DEF ReadInvariant
  <2>4. CASE RefuseVector
    BY <2>4, RefuseVectorKeeps DEF ReadInvariant
  <2> QED
    BY <1>3, <2>1, <2>2, <2>3, <2>4 DEF DecodeResidue, ResidueNext
<1>4. CASE PropagateNonzero \/ StartResidue \/ FailResidue \/ FinishResidue
           \/ PushResidues \/ InverseCoupling \/ DotProduct
  BY <1>4, OthersDoNotRead
<1>5. CASE UNCHANGED avars
  BY <1>5 DEF avars
<1> QED
  BY <1>1, <1>2, <1>3, <1>4, <1>5 DEF ANext

LEMMA ModeKeeps ==
  ASSUME ReadInvariant, [ANext]_avars
  PROVE  ModeOK'
<1>1. modes' = modes
  BY PacketStays
<1>2. CASE ReadHead
  <2>1. stage' = "floors" => mode_idx' \in DOMAIN modes
    <3>1. PICK k \in Nat : reader \in Readers(8 * k)
      BY DEF ReadInvariant, ReaderOK
    <3> QED
      BY <1>2, <3>1, ReadHeadKeeps DEF ReadInvariant
  <2>2. stage' # "residues"
    BY <1>2 DEF ReadHead
  <2> QED
    BY <1>1, <2>1, <2>2 DEF ModeOK
<1>3. CASE DecodeFloor \/ PropagateNonzero \/ StartResidue \/ DecodeResidue \/ FinishResidue
  <2>1. mode_idx' = mode_idx /\ stage \in {"floors", "residues"}
    BY <1>3 DEF DecodeFloor, PropagateNonzero, StartResidue, DecodeResidue, FinishResidue
  <2> QED
    BY <1>1, <2>1 DEF ReadInvariant, ModeOK
<1>4. CASE FailResidue \/ PushResidues \/ InverseCoupling \/ DotProduct
  <2>1. stage' \notin {"floors", "residues"}
    BY <1>4 DEF FailResidue, PushResidues, InverseCoupling, DotProduct
  <2> QED
    BY <2>1 DEF ModeOK
<1>5. CASE UNCHANGED avars
  BY <1>5 DEF avars, given, ReadInvariant, ModeOK
<1> QED
  BY <1>2, <1>3, <1>4, <1>5 DEF ANext

\* Outside of decode its variables stay, except that it ends.
LEMMA LoopsUnchanged ==
  ASSUME LoopsOK, loops' = loops
  PROVE  LoopsOK'
<1>1. /\ residue' = residue /\ out' = out /\ classifications' = classifications
      /\ pass' = pass /\ partition_count' = partition_count /\ ch' = ch /\ rstage' = rstage
  BY DEF loops
<1>2. CASE Decoding
  <2>1. ParsedResidue(residue) /\ VectorsOK /\ ClassesOK /\ CountersOK
    BY <1>2 DEF LoopsOK
  <2>2. /\ VectorsOK' /\ NumChannels' = NumChannels
        /\ partitions_to_read' = partitions_to_read
        /\ classwords_per_codeword' = classwords_per_codeword
    BY <1>1, <2>1, VectorsStay
  <2>3. ClassesOK' /\ CountersOK' /\ ParsedResidue(residue')
    BY <1>1, <2>1, <2>2 DEF ClassesOK, CountersOK
  <2> QED
    BY <2>2, <2>3 DEF LoopsOK
<1>3. CASE ~Decoding
  BY <1>1, <1>3 DEF LoopsOK, Decoding
<1> QED
  BY <1>2, <1>3

LEMMA LoopsKeep ==
  ASSUME ReadInvariant, [ANext]_avars
  PROVE  LoopsOK'
<1>1. PICK k \in Nat : reader \in Readers(8 * k)
  BY DEF ReadInvariant, ReaderOK
<1>2. LoopsOK
  BY DEF ReadInvariant
<1>3. CASE DecodeResidue
  <2>1. CASE NextClassword
    BY <1>2, <2>1, NextClasswordKeeps
  <2>2. CASE Classify
    BY <1>1, <1>2, <2>2, ClassifyKeeps
  <2>3. CASE DecodePartition
    BY <1>1, <1>2, <2>3, DecodePartitionKeeps
  <2>4. CASE RefuseVector
    BY <1>1, <1>2, <2>4, RefuseVectorKeeps
  <2> QED
    BY <1>3, <2>1, <2>2, <2>3, <2>4 DEF DecodeResidue, ResidueNext
<1>4. CASE StartResidue
  BY <1>4, StartResidueKeeps
<1>5. CASE FinishResidue
  <2>1. rstage' = "none"
    BY <1>5 DEF FinishResidue
  <2> QED
    BY <2>1 DEF LoopsOK, Decoding
<1>6. CASE \/ ReadHead \/ DecodeFloor \/ PropagateNonzero \/ FailResidue
           \/ PushResidues \/ InverseCoupling \/ DotProduct \/ UNCHANGED avars
  <2>1. loops' = loops
    BY <1>6 DEF ReadHead, DecodeFloor, PropagateNonzero, FailResidue,
       PushResidues, InverseCoupling, DotProduct, avars
  <2> QED
    BY <1>2, <2>1, LoopsUnchanged
<1> QED
  BY <1>3, <1>4, <1>5, <1>6 DEF ANext

LEMMA ReadNext ==
  ReadInvariant /\ [ANext]_avars => ReadInvariant'
<1> SUFFICES ASSUME ReadInvariant, [ANext]_avars
             PROVE  ReadInvariant'
  OBVIOUS
<1>1. modes' \in Setups
  BY PacketStays DEF ReadInvariant
<1>2. ReaderOK'
  <2>1. PICK k \in Nat : DOMAIN packet = 0 .. 8 * k - 1 /\ reader \in Readers(8 * k)
    BY DEF ReadInvariant, ReaderOK
  <2>2. reader' \in Readers(8 * k)
    BY <2>1, ReaderKeeps
  <2>3. DOMAIN packet' = 0 .. 8 * k - 1
    BY <2>1, PacketStays
  <2> QED
    BY <2>2, <2>3 DEF ReaderOK
<1> QED
  BY <1>1, <1>2, ModeKeeps, LoopsKeep DEF ReadInvariant

-----------------------------------------------------------------------------

(***************************************************************************)
(* Every class that a partition is decoded with has been read or set to 0: *)
(* the counter, which DecodePartition counts up for each channel, never    *)
(* leaves the classifications (their slots behind the last partition are   *)
(* as many as a classword has), and the class has a place in the books.    *)
(***************************************************************************)
ClassesAreThere ==
  rstage = "partition" =>
    /\ ch \in DOMAIN classifications
    /\ partition_count \in DOMAIN classifications[ch]
    /\ vq_book \in {NoBook} \union DOMAIN Codebooks

THEOREM ClassesAreAlwaysThere ==
  ASpec => []ClassesAreThere
<1>1. ReadInvariant => ClassesAreThere
  BY ClassIsThere DEF ReadInvariant, LoopsOK, Decoding, ClassesAreThere
<1> QED
  BY <1>1, ReadInit, ReadNext, PTL DEF ASpec

(***************************************************************************)
(* Wherever parse_audio is in a packet, whatever it has read before, the   *)
(* next read gives the bits that follow those asked for so far.            *)
(***************************************************************************)
THEOREM ReadsStayInOrder ==
  ASpec => []ReadsAreInOrder
<1>1. ReadInvariant => ReadsAreInOrder
  <2>1. SUFFICES ASSUME ReadInvariant, NEW num \in Widths
                 PROVE  ReadsInOrder(reader, Cardinality(DOMAIN packet), num)
    BY DEF ReadsAreInOrder
  <2>2. PICK k \in Nat : DOMAIN packet = 0 .. 8 * k - 1 /\ reader \in Readers(8 * k)
    BY <2>1 DEF ReadInvariant, ReaderOK
  <2>3. Cardinality(DOMAIN packet) = 8 * k
    <3>1. 8 * k \in Nat
      OBVIOUS
    <3> QED
      BY <2>2, <3>1, CountOf
  <2>4. num \in Nat \ {0} /\ WellFormed(reader, 8 * k)
    BY <2>2, PacketsAssumption DEF Readers
  <2> QED
    BY <2>3, <2>4, ReadsAreOrdered
<1> QED
  BY <1>1, ReadInit, ReadNext, PTL DEF ASpec

-----------------------------------------------------------------------------
(* Partitions stay within the limits                                       *)

(***************************************************************************)
(* What the limit rests on and parse does not ask for: partitions of whole *)
(* vectors, and only one vector to decode for each submap.                 *)
(***************************************************************************)
OneVectorEach ==
  \A s \in Setups : \A m \in DOMAIN s : \A i \in DOMAIN s[m].mapping.submaps :
    LET r == s[m].mapping.submaps[i].residue
    IN /\ WholeVectors(r)
       /\ r.type = 2 \/ Cardinality({c \in Channels : s[m].mapping.muxs[c] = i}) <= 1

SingleOK == Decoding => NumChannels = 1 /\ WholeVectors(residue)

\* A place of a partition, in either layout, is one of its places.
LEMMA PlaceInPartition ==
  ASSUME NEW d \in Nat \ {0}, NEW size \in Nat \ {0}, size % d = 0,
         NEW l \in 0 .. d - 1
  PROVE  /\ \A k \in 0 .. (size \div d) - 1 : k + l * (size \div d) \in 0 .. size - 1
         /\ \A k \in 0 .. ((size + d - 1) \div d) - 1 : k * d + l \in 0 .. size - 1
<1> DEFINE v == size \div d
<1>1. v \in Nat /\ size = v * d
  OBVIOUS
<1>2. (size + d - 1) \div d = v
  <2> HIDE DEF v
  <2>1. size + d - 1 = v * d + (d - 1)
    BY <1>1
  <2> QED
    BY <1>1, <2>1
<1> HIDE DEF v
<1>3. ASSUME NEW k \in 0 .. v - 1 PROVE k + l * v \in 0 .. size - 1
  <2>1. l * v \in Nat /\ l * v <= (d - 1) * v
    BY <1>1
  <2>2. (d - 1) * v = size - v
    BY <1>1
  <2> HIDE DEF v
  <2> DEFINE x == l * v
             y == (d - 1) * v
  <2>3. x \in Nat /\ x <= y /\ y = size - v
    BY <2>1, <2>2
  <2> HIDE DEF x, y
  <2>4. k + x \in 0 .. size - 1
    BY <1>1, <2>3
  <2> QED
    BY <2>4 DEF x
<1>4. ASSUME NEW k \in 0 .. v - 1 PROVE k * d + l \in 0 .. size - 1
  <2>1. k * d \in Nat /\ k * d <= (v - 1) * d
    BY <1>1
  <2>2. (v - 1) * d = size - d
    BY <1>1
  <2> DEFINE x == k * d
             y == (v - 1) * d
  <2>3. x \in Nat /\ x <= y /\ y = size - d
    BY <2>1, <2>2
  <2> HIDE DEF x, y
  <2>4. x + l \in 0 .. size - 1
    BY <1>1, <2>3
  <2> QED
    BY <2>4 DEF x
<1> QED
  BY <1>2, <1>3, <1>4 DEF v

\* A partition that fits lies between the limits.
LEMMA PartitionWithin ==
  ASSUME NEW begin \in Nat, NEW end \in Nat, NEW size \in Nat \ {0},
         NEW count \in Nat, count < (end - begin) \div size, begin <= end,
         NEW x \in 0 .. size - 1
  PROVE  begin + count * size + x \in begin .. end - 1
<1> DEFINE P == (end - begin) \div size
<1>1. end - begin \in Nat
  OBVIOUS
<1>2. P \in Nat /\ P * size <= end - begin
  <2> DEFINE l == end - begin
  <2>1. l \in Nat
    BY <1>1
  <2> HIDE DEF l
  <2>2. (l \div size) \in Nat /\ (l \div size) * size <= l
    BY <2>1
  <2> QED
    BY <2>2 DEF l
<1>3. count < P
  OBVIOUS
<1> HIDE DEF P
<1>4. (count + 1) * size <= P * size
  <2>1. count + 1 <= P /\ count + 1 \in Nat
    BY <1>2, <1>3
  <2> QED
    BY <1>2, <2>1
<1>5. (count + 1) * size = count * size + size /\ count * size \in Nat
  OBVIOUS
<1> DEFINE y == count * size
           z == (count + 1) * size
           w == P * size
<1>6. y \in Nat /\ z = y + size /\ z <= w /\ w <= end - begin
  BY <1>2, <1>4, <1>5
<1>7. w \in Nat
  BY <1>2
<1> HIDE DEF y, z, w
<1>8. begin + y + x \in begin .. end - 1
  BY <1>6, <1>7
<1> QED
  BY <1>8 DEF y

\* What is written for the current partition is in it.
LEMMA SingleWithinLimit ==
  ASSUME ReadInvariant, SingleOK
  PROVE  WithinLimit
<1>1. SUFFICES ASSUME NEW p \in Written PROVE p \in limit_begin .. limit_end - 1
  BY DEF WithinLimit
<1>2. rstage = "partition" /\ vq_book # NoBook
  BY DEF Written
<1>3. /\ ParsedResidue(residue) /\ VectorsOK /\ ClassesOK /\ CountersOK
      /\ NumChannels = 1 /\ WholeVectors(residue)
  BY <1>2 DEF ReadInvariant, LoopsOK, SingleOK, Decoding
<1> DEFINE book == Codebooks[vq_book]
           d == book.dimensions
           size == residue.partition_size
<1>4. vq_book \in DOMAIN Codebooks /\ d \in Nat \ {0} /\ size \in Nat \ {0}
  BY <1>2, <1>3, ClassIsThere, ResidueAssumption, ResidueType
<1>5. size % d = 0
  <2> DEFINE c == classifications[ch][partition_count]
  <2>1. ch \in 0 .. NumChannels - 1
    BY <1>2, <1>3 DEF CountersOK
  <2>2. c \in 0 .. residue.num_classifications - 1
    <3>1. ch \in DOMAIN classifications /\ partition_count \in DOMAIN classifications[ch]
      BY <1>2, <1>3, ClassIsThere
    <3> QED
      BY <1>3, <3>1 DEF ClassesOK
  <2>3. pass \in 0 .. Passes - 1
    BY <1>3 DEF CountersOK
  <2> HIDE DEF c
  <2>4. residue.books[c][pass] # NoBook =>
          residue.partition_size % Codebooks[residue.books[c][pass]].dimensions = 0
    BY <1>3, <2>2, <2>3 DEF WholeVectors
  <2> QED
    BY <1>2, <2>4 DEF c, vq_book
<1>6. PICK kl \in Components(book) : p = offset + Place(book, kl[1], kl[2])
  BY <1>2 DEF Written
<1> DEFINE k == kl[1]
           l == kl[2]
           x == Place(book, k, l)
<1>7. k \in 0 .. NumVectors(book) - 1 /\ l \in 0 .. d - 1
  BY <1>6 DEF Components
<1>8. x \in 0 .. size - 1
  <2> HIDE DEF k, l, d, size
  <2>1. CASE type = 0
    <3>1. NumVectors(book) = size \div d /\ x = k + l * (size \div d)
      BY <2>1 DEF NumVectors, Place, size, d
    <3> HIDE DEF x
    <3>2. k \in 0 .. (size \div d) - 1 /\ l \in 0 .. d - 1
      BY <1>7, <3>1
    <3>3. k + l * (size \div d) \in 0 .. size - 1
      BY <1>4, <1>5, <3>2, PlaceInPartition
    <3> QED
      BY <3>1, <3>3
  <2>2. CASE type # 0
    <3>1. NumVectors(book) = (size + d - 1) \div d /\ x = k * d + l
      BY <2>2 DEF NumVectors, Place, size, d
    <3> HIDE DEF x
    <3>2. k \in 0 .. ((size + d - 1) \div d) - 1 /\ l \in 0 .. d - 1
      BY <1>7, <3>1
    <3>3. k * d + l \in 0 .. size - 1
      BY <1>4, <1>5, <3>2, PlaceInPartition
    <3> QED
      BY <3>1, <3>3
  <2> QED
    BY <2>1, <2>2
<1> HIDE DEF x, k, l, book, d
<1>9. /\ residue.begin \in Nat /\ residue.end \in Nat /\ residue.begin <= residue.end
      /\ DecodeLen \in Nat
  BY <1>3 DEF ParsedResidue, VectorsOK
<1>10. limit_begin \in Nat /\ limit_end \in Nat /\ limit_begin <= limit_end
  <2> DEFINE begin == residue.begin
             end == residue.end
             len == DecodeLen
  <2>1. begin \in Nat /\ end \in Nat /\ begin <= end /\ len \in Nat
    BY <1>9
  <2> HIDE DEF begin, end, len
  <2>2. /\ Smaller(begin, len) \in Nat /\ Smaller(end, len) \in Nat
        /\ Smaller(begin, len) <= Smaller(end, len)
    BY <2>1 DEF Smaller
  <2> QED
    BY <2>2 DEF limit_begin, limit_end, begin, end, len
<1>11. partition_count \in Nat /\ partition_count < (limit_end - limit_begin) \div size
  <2>1. partitions_to_read = (limit_end - limit_begin) \div size
    BY DEF partitions_to_read, PartitionsIn, limit_begin, limit_end
  <2>2. /\ partition_count \in Nat /\ ch \in Nat /\ ch < 1
        /\ partition_count - ch < partitions_to_read
    BY <1>2, <1>3 DEF CountersOK
  <2> HIDE DEF size
  <2> QED
    BY <2>1, <2>2
<1>12. limit_begin + partition_count * size + x \in limit_begin .. limit_end - 1
  <2> HIDE DEF size
  <2> QED
    BY <1>4, <1>8, <1>10, <1>11, PartitionWithin
<1>13. p = limit_begin + partition_count * size + x
  BY <1>6 DEF offset, x, k, l
<1> QED
  BY <1>12, <1>13

\* decode is started with one vector.
LEMMA StartsSingle ==
  ASSUME OneVectorEach, ReadInvariant, StartResidue
  PROVE  SingleOK'
<1> DEFINE m == mapping(mode_idx)
           r == m.submaps[submap].residue
           members == Members(m, submap)
           n == Cardinality({c \in Channels : m.muxs[c] = submap})
           used == [j \in DOMAIN members |-> floor_output_used[members[j]]]
           len == decode_len(modes, mode_idx)
<1>1. submap \in DOMAIN m.submaps /\ BeginResidue(r, used, len)
  BY DEF StartResidue
<1>2. mode_idx \in DOMAIN modes /\ modes \in Setups
  BY DEF ReadInvariant, ModeOK, StartResidue
<1>3. WholeVectors(r) /\ (r.type = 2 \/ n <= 1)
  BY <1>1, <1>2 DEF OneVectorEach, mapping
<1>4. n \in Nat /\ DOMAIN used = 0 .. n - 1
  BY MembersCount
<1> HIDE DEF m, r, n, used, members, len
<1>5. Cardinality(DOMAIN used) = n
  BY <1>4, CountOf
<1>6. CASE n = 0
  <2>1. rstage' = "failed"
    BY <1>1, <1>5, <1>6 DEF BeginResidue
  <2> QED
    BY <2>1 DEF SingleOK, Decoding
<1>7. CASE n # 0
  <2>1. /\ residue' = r
        /\ channel_used' = IF r.type = 2 THEN [j \in {0} |-> TRUE] ELSE used
    BY <1>1 DEF BeginResidue
  <2>2. DOMAIN out' = DOMAIN channel_used'
    BY <1>1 DEF BeginResidue
  <2>3. DOMAIN channel_used' = 0 .. 1 - 1
    <3>1. {0} = 0 .. 1 - 1
      OBVIOUS
    <3>2. CASE r.type = 2
      BY <2>1, <3>1, <3>2
    <3>3. CASE r.type # 2
      <4>1. n = 1
        BY <1>3, <1>4, <1>7, <3>3
      <4> QED
        BY <1>4, <2>1, <3>3, <4>1
    <3> QED
      BY <3>2, <3>3
  <2>4. NumChannels' = 1
    BY <2>2, <2>3, CountOf DEF NumChannels
  <2> QED
    BY <1>3, <2>1, <2>4 DEF SingleOK
<1> QED
  BY <1>4, <1>6, <1>7

LEMMA SingleNext ==
  ASSUME OneVectorEach, ReadInvariant, SingleOK, [ANext]_avars
  PROVE  SingleOK'
<1>1. CASE DecodeResidue
  <2>1. Decoding
    BY <1>1 DEF DecodeResidue, ResidueNext, NextClassword, Classify,
       DecodePartition, RefuseVector, Decoding
  <2>2. residue' = residue
    BY <1>1 DEF DecodeResidue, ResidueNext, NextClassword, Classify,
       DecodePartition, RefuseVector, settings
  <2>3. DOMAIN out' = DOMAIN out
    <3>1. CASE DecodePartition
      <4>1. \/ out' = out
            \/ \E added : out' = [out EXCEPT ![ch] = added]
        BY <3>1 DEF DecodePartition
      <4> QED
        BY <4>1
    <3>2. CASE NextClassword \/ Classify \/ RefuseVector
      <4>1. out' = out
        BY <3>2 DEF NextClassword, Classify, RefuseVector
      <4> QED
        BY <4>1
    <3> QED
      BY <1>1, <3>1, <3>2 DEF DecodeResidue, ResidueNext
  <2> QED
    BY <2>1, <2>2, <2>3 DEF SingleOK, NumChannels
<1>2. CASE StartResidue
  BY <1>2, StartsSingle
<1>3. CASE FinishResidue
  <2>1. rstage' = "none"
    BY <1>3 DEF FinishResidue
  <2> QED
    BY <2>1 DEF SingleOK, Decoding
<1>4. CASE \/ ReadHead \/ DecodeFloor \/ PropagateNonzero \/ FailResidue
           \/ PushResidues \/ InverseCoupling \/ DotProduct \/ UNCHANGED avars
  <2>1. loops' = loops
    BY <1>4 DEF ReadHead, DecodeFloor, PropagateNonzero, FailResidue,
       PushResidues, InverseCoupling, DotProduct, avars
  <2>2. residue' = residue /\ out' = out /\ rstage' = rstage
    BY <2>1 DEF loops
  <2> QED
    BY <2>2 DEF SingleOK, Decoding, NumChannels
<1> QED
  BY <1>1, <1>2, <1>3, <1>4 DEF ANext

(***************************************************************************)
(* No partition is written to outside of the limits (parse_audio's "we     *)
(* want to limit by decode_len") for setups with one vector to decode in   *)
(* each submap and whole vectors in each partition.  With more vectors the *)
(* counter runs ahead and the limit does not hold.                         *)
(***************************************************************************)
THEOREM StaysWithinLimit ==
  ASSUME OneVectorEach
  PROVE  ASpec => []WithinLimit
<1>1. AInit => ReadInvariant /\ SingleOK
  <2>1. AInit => SingleOK
    BY DEF AInit, SingleOK, Decoding
  <2> QED
    BY <2>1, ReadInit
<1>2. ReadInvariant /\ SingleOK /\ [ANext]_avars => (ReadInvariant /\ SingleOK)'
  BY ReadNext, SingleNext
<1>3. ReadInvariant /\ SingleOK => WithinLimit
  BY SingleWithinLimit
<1> QED
  BY <1>1, <1>2, <1>3, PTL DEF ASpec

-----------------------------------------------------------------------------
(***************************************************************************)
(* Undoing couplings: for every setup, however many couplings a mapping    *)
(* has and whichever channels they share, parse_audio takes the vectors    *)
(* that an encoder coupled back to those it was given.                     *)
(***************************************************************************)

\* The inverse of the coupling of two values, for all integers.
THEOREM UncoupleCouple ==
  ASSUME NEW x \in Int, NEW y \in Int
  PROVE  /\ Couple(x, y) \in Int \X Int
         /\ Uncouple(Couple(x, y)[1], Couple(x, y)[2]) = <<x, y>>
<1>1. CASE Magnitude(x) > Magnitude(y)
  <2>1. CASE x > 0
    <3>1. Couple(x, y) = <<x, x - y>> /\ y < x
      BY <1>1, <2>1 DEF Couple, Magnitude
    <3>2. Uncouple(x, x - y) = <<x, y>>
      BY <2>1, <3>1 DEF Uncouple
    <3> QED
      BY <3>1, <3>2
  <2>2. CASE ~(x > 0)
    <3>1. Couple(x, y) = <<x, y - x>> /\ y > x
      BY <1>1, <2>2 DEF Couple, Magnitude
    <3>2. Uncouple(x, y - x) = <<x, y>>
      BY <2>2, <3>1 DEF Uncouple
    <3> QED
      BY <3>1, <3>2
  <2> QED
    BY <2>1, <2>2
<1>2. CASE ~(Magnitude(x) > Magnitude(y))
  <2>1. CASE y > 0
    <3>1. Couple(x, y) = <<y, x - y>> /\ x <= y
      BY <1>2, <2>1 DEF Couple, Magnitude
    <3>2. Uncouple(y, x - y) = <<x, y>>
      BY <2>1, <3>1 DEF Uncouple
    <3> QED
      BY <3>1, <3>2
  <2>2. CASE ~(y > 0)
    <3>1. Couple(x, y) = <<y, y - x>> /\ x >= y
      BY <1>2, <2>2 DEF Couple, Magnitude
    <3>2. Uncouple(y, y - x) = <<x, y>>
      BY <2>2, <3>1 DEF Uncouple
    <3> QED
      BY <3>1, <3>2
  <2> QED
    BY <2>1, <2>2
<1> QED
  BY <1>1, <1>2

\* Table changes nothing.
LEMMA TableIsItself ==
  ASSUME NEW f
  PROVE  Table(f) = f
BY DEF Table

\* A step of InverseCoupling takes CoupleVectors back.
LEMMA UncoupleVectorsOfCoupled ==
  ASSUME NEW n, NEW v \in [Channels -> [0 .. n - 1 -> Int]],
         NEW k, k.magnitude \in Channels, k.angle \in Channels,
         k.magnitude # k.angle
  PROVE  UncoupleVectors(CoupleVectors(v, k), k) = v
<1> DEFINE P == 0 .. n - 1
           m == k.magnitude
           a == k.angle
           both == [p \in P |-> Couple(v[m][p], v[a][p])]
           ms == [p \in P |-> both[p][1]]
           as == [p \in P |-> both[p][2]]
           w == [v EXCEPT ![m] = ms, ![a] = as]
<1>1. /\ m \in Channels /\ a \in Channels /\ m # a
      /\ v[m] \in [P -> Int] /\ v[a] \in [P -> Int]
      /\ DOMAIN v = Channels
  OBVIOUS
<1>2. CoupleVectors(v, k) = w
  BY <1>1, TableIsItself DEF CoupleVectors
<1>3. ASSUME NEW p \in P
      PROVE  Uncouple(ms[p], as[p]) = <<v[m][p], v[a][p]>>
  <2>1. v[m][p] \in Int /\ v[a][p] \in Int
    BY <1>1
  <2>2. ms[p] = Couple(v[m][p], v[a][p])[1] /\ as[p] = Couple(v[m][p], v[a][p])[2]
    OBVIOUS
  <2> QED
    BY <2>1, <2>2, UncoupleCouple
<1> HIDE DEF P
<1>4. /\ DOMAIN w = Channels /\ w[m] = ms /\ w[a] = as
      /\ \A c \in Channels \ {m, a} : w[c] = v[c]
  BY <1>1
<1>5. DOMAIN ms = P /\ DOMAIN as = P
  OBVIOUS
<1> HIDE DEF w, ms, as, both
<1> DEFINE um == [p \in P |-> Uncouple(ms[p], as[p])[1]]
           ua == [p \in P |-> Uncouple(ms[p], as[p])[2]]
<1>6. UncoupleVectors(w, k) = [w EXCEPT ![m] = um, ![a] = ua]
  BY <1>1, <1>4, <1>5 DEF UncoupleVectors
<1>7. um = v[m] /\ ua = v[a]
  <2> HIDE DEF m, a
  <2>1. ASSUME NEW p \in P
        PROVE  um[p] = v[m][p] /\ ua[p] = v[a][p]
    <3>1. Uncouple(ms[p], as[p]) = <<v[m][p], v[a][p]>>
      BY <1>3
    <3>2. um[p] = Uncouple(ms[p], as[p])[1] /\ ua[p] = Uncouple(ms[p], as[p])[2]
      OBVIOUS
    <3> HIDE DEF um, ua
    <3> QED
      BY <3>1, <3>2
  <2> QED
    BY <1>1, <2>1
<1> HIDE DEF um, ua, m, a
<1>8. [w EXCEPT ![m] = um, ![a] = ua] = v
  BY <1>1, <1>4, <1>7
<1> QED
  BY <1>2, <1>6, <1>8

-----------------------------------------------------------------------------
(* The invariant                                                           *)

\* The packet is an encoder's, or its content is not known.
ContentIsMade ==
  \/ content = NoContent
  \/ \E made \in Packets[modes], cut \in Cuts : content = Content(made.from, cut)

CouplingsOf(m) == mapping(m).couplings

StepInRange ==
  stage = "coupling" /\ content # NoContent /\ mode_idx = content.mode
    => step \in 0 .. Len(CouplingsOf(mode_idx))

CouplingInvariant ==
  /\ modes \in Setups
  /\ ContentIsMade
  /\ StepInRange
  /\ CouplingIsUndone

\* What the assumptions say of an encoder's packet.
LEMMA ContentOfPacket ==
  ASSUME modes \in Setups, ContentIsMade, content # NoContent
  PROVE  /\ Len(CouplingsOf(content.mode)) \in Nat
         /\ \A i \in 1 .. Len(CouplingsOf(content.mode)) :
              /\ CouplingsOf(content.mode)[i].magnitude \in Channels
              /\ CouplingsOf(content.mode)[i].angle \in Channels
              /\ CouplingsOf(content.mode)[i].magnitude
                   # CouplingsOf(content.mode)[i].angle
              /\ content.coupled[i] =
                   CoupleVectors(content.coupled[i - 1], CouplingsOf(content.mode)[i])
         /\ \A i \in 0 .. Len(CouplingsOf(content.mode)) :
              content.coupled[i] \in
                [Channels -> [0 .. decode_len(modes, content.mode) - 1 -> Int]]
<1>1. PICK made \in Packets[modes], cut \in Cuts : content = Content(made.from, cut)
  BY DEF ContentIsMade
<1> DEFINE x == made.from
           couplings == modes[x.mode].mapping.couplings
<1>2. content.mode = x.mode /\ content.coupled = x.coupled
  BY <1>1 DEF Content
<1>3. IsMade(modes, made)
  BY PacketsAssumption
<1>4. x.mode \in DOMAIN modes
  BY <1>3 DEF IsMade
<1>5. ParsedMapping(modes[x.mode].mapping)
  BY <1>4, AudioAssumption
<1>6. /\ couplings \in Seq([magnitude : Channels, angle : Channels])
      /\ \A i \in DOMAIN couplings : couplings[i].magnitude # couplings[i].angle
  BY <1>5 DEF ParsedMapping
<1>7. CouplingsOf(content.mode) = couplings
  BY <1>2 DEF CouplingsOf, mapping
<1>8. /\ Len(couplings) \in Nat
      /\ \A i \in 1 .. Len(couplings) :
           couplings[i] \in [magnitude : Channels, angle : Channels]
           /\ i \in DOMAIN couplings
  <2> DEFINE Ks == [magnitude : Channels, angle : Channels]
  <2>1. couplings \in Seq(Ks)
    BY <1>6
  <2> HIDE DEF couplings, Ks
  <2>2. Len(couplings) \in Nat /\ DOMAIN couplings = 1 .. Len(couplings)
    BY <2>1
  <2>3. \A i \in 1 .. Len(couplings) : couplings[i] \in Ks
    BY <2>1
  <2> QED
    BY <2>2, <2>3 DEF Ks
<1>9. /\ x.coupled \in [0 .. Len(couplings) ->
                         [Channels -> [0 .. decode_len(modes, x.mode) - 1 -> Int]]]
      /\ \A i \in 1 .. Len(couplings) :
           x.coupled[i] = CoupleVectors(x.coupled[i - 1], couplings[i])
  BY <1>3 DEF IsMade
<1> HIDE DEF x, couplings
<1>10. \A i \in 1 .. Len(couplings) :
         /\ couplings[i].magnitude \in Channels
         /\ couplings[i].angle \in Channels
         /\ couplings[i].magnitude # couplings[i].angle
  BY <1>6, <1>8
<1> QED
  BY <1>2, <1>7, <1>8, <1>9, <1>10

\* One coupling less.
LEMMA UndoneOnce ==
  ASSUME CouplingInvariant, InverseCoupling
  PROVE  CouplingIsUndone'
<1>1. /\ stage = "coupling" /\ step > 0 /\ step' = step - 1
      /\ residue_outputs' = UncoupleVectors(residue_outputs, CouplingsOf(mode_idx)[step])
      /\ modes' = modes /\ content' = content /\ mode_idx' = mode_idx
      /\ after_residue' = after_residue
  BY DEF InverseCoupling, NextCoupling, CouplingsOf, given, pushed
<1>2. /\ modes \in Setups /\ ContentIsMade /\ CouplingIsUndone
      /\ StepInRange
  BY <1>1 DEF CouplingInvariant
<1>3. SUFFICES ASSUME content # NoContent,
                      after_residue = content.coupled[Len(CouplingsOf(content.mode))],
                      mode_idx = content.mode
               PROVE  residue_outputs' = content.coupled[step - 1]
  BY <1>1 DEF CouplingIsUndone, CouplingsOf, mapping
<1> DEFINE v == content.coupled[step - 1]
           k == CouplingsOf(content.mode)[step]
<1>4. residue_outputs = content.coupled[step]
  BY <1>1, <1>2, <1>3 DEF CouplingIsUndone, CouplingsOf
<1>5. step \in 1 .. Len(CouplingsOf(content.mode))
  BY <1>1, <1>2, <1>3, ContentOfPacket DEF StepInRange
<1>6. /\ k.magnitude \in Channels /\ k.angle \in Channels
      /\ k.magnitude # k.angle
      /\ content.coupled[step] = CoupleVectors(v, k)
  BY <1>2, <1>3, <1>5, ContentOfPacket
<1>7. step - 1 \in 0 .. Len(CouplingsOf(content.mode))
  <2>1. step \in Int /\ step >= 1 /\ step <= Len(CouplingsOf(content.mode))
    BY <1>5
  <2> QED
    BY <2>1, <1>2, <1>3, ContentOfPacket
<1>8. v \in [Channels -> [0 .. decode_len(modes, content.mode) - 1 -> Int]]
  BY <1>2, <1>3, <1>7, ContentOfPacket
<1>9. UncoupleVectors(CoupleVectors(v, k), k) = v
  BY <1>6, <1>8, UncoupleVectorsOfCoupled
<1> QED
  BY <1>1, <1>3, <1>4, <1>6, <1>9

LEMMA CouplingInit ==
  AInit => CouplingInvariant
BY DEF AInit, MadePackets, CouplingInvariant, StepInRange, ContentIsMade, CouplingIsUndone

\* What is given to parse_audio stays.
LEMMA GivenStays ==
  ASSUME [ANext]_avars
  PROVE  modes' = modes /\ content' = content
BY DEF ANext, avars, given, ReadHead, DecodeFloor, PropagateNonzero, StartResidue,
       DecodeResidue, FailResidue, FinishResidue, PushResidues, InverseCoupling,
       DotProduct

LEMMA CouplingNext ==
  CouplingInvariant /\ [ANext]_avars => CouplingInvariant'
<1> SUFFICES ASSUME CouplingInvariant, [ANext]_avars
             PROVE  CouplingInvariant'
  OBVIOUS
<1>1. modes' = modes /\ content' = content
  BY GivenStays
<1>2. modes' \in Setups /\ ContentIsMade'
  BY <1>1 DEF CouplingInvariant, ContentIsMade
<1>3. SUFFICES StepInRange' /\ CouplingIsUndone'
  BY <1>2 DEF CouplingInvariant
<1>4. CASE ReadHead \/ DecodeFloor \/ PropagateNonzero \/ StartResidue
           \/ DecodeResidue \/ FailResidue \/ FinishResidue \/ DotProduct
  <2>1. stage' # "coupling"
    BY <1>4 DEF ReadHead, DecodeFloor, PropagateNonzero, StartResidue,
       DecodeResidue, FailResidue, FinishResidue, DotProduct
  <2> QED
    BY <2>1 DEF CouplingIsUndone, StepInRange
<1>5. CASE PushResidues
  <2>1. /\ after_residue' = residue_outputs /\ residue_outputs' = residue_outputs
        /\ step' = Len(CouplingsOf(mode_idx)) /\ mode_idx' = mode_idx
    BY <1>5 DEF PushResidues, CouplingsOf
  <2>2. CouplingIsUndone'
    BY <1>1, <2>1 DEF CouplingIsUndone, CouplingsOf, mapping
  <2>3. StepInRange'
    <3>1. SUFFICES ASSUME content # NoContent, mode_idx = content.mode
                   PROVE  step' \in 0 .. Len(CouplingsOf(mode_idx))
      BY <1>1, <2>1 DEF StepInRange, CouplingsOf, mapping
    <3>2. Len(CouplingsOf(mode_idx)) \in Nat
      BY <3>1, ContentOfPacket DEF CouplingInvariant
    <3> QED
      BY <2>1, <3>2
  <2> QED
    BY <2>2, <2>3
<1>6. CASE InverseCoupling
  <2>1. CouplingIsUndone'
    BY <1>6, UndoneOnce
  <2>2. /\ stage = "coupling" /\ step > 0 /\ step' = step - 1
        /\ mode_idx' = mode_idx
    BY <1>6 DEF InverseCoupling
  <2>3. StepInRange'
    <3>1. SUFFICES ASSUME content # NoContent, mode_idx = content.mode
                   PROVE  step' \in 0 .. Len(CouplingsOf(mode_idx))
      BY <1>1, <2>2 DEF StepInRange, CouplingsOf, mapping
    <3>2. step \in 0 .. Len(CouplingsOf(mode_idx))
      BY <2>2, <3>1 DEF CouplingInvariant, StepInRange
    <3>3. Len(CouplingsOf(mode_idx)) \in Nat
      BY <3>1, ContentOfPacket DEF CouplingInvariant
    <3> QED
      BY <2>2, <3>2, <3>3
  <2> QED
    BY <2>1, <2>3
<1>7. CASE UNCHANGED avars
  BY <1>7 DEF CouplingInvariant, StepInRange, CouplingIsUndone, CouplingsOf, mapping, avars,
              given, pushed
<1> QED
  BY <1>4, <1>5, <1>6, <1>7 DEF ANext

(***************************************************************************)
(* Every coupling is undone, in the reverse order: from the vectors of an  *)
(* encoder after all of its couplings, parse_audio gets to those after     *)
(* each lower number of them, and in the end to the ones it was given.     *)
(***************************************************************************)
THEOREM CouplingsAreUndone ==
  ASpec => []CouplingIsUndone
<1>1. AInit => CouplingInvariant
  BY CouplingInit
<1>2. CouplingInvariant /\ [ANext]_avars => CouplingInvariant'
  BY CouplingNext
<1>3. CouplingInvariant => CouplingIsUndone
  BY DEF CouplingInvariant
<1> QED
  BY <1>1, <1>2, <1>3, PTL DEF ASpec

-----------------------------------------------------------------------------
(***************************************************************************)
(* Silence.  A channel without a floor that is not mixed in a type 2       *)
(* residue keeps the zeros decode was started with, through the residues   *)
(* and through the couplings that are undone.                              *)
(***************************************************************************)

\* The couplings up to n have no channel in common with the i-th, from i on.
Separate(couplings, i, n) ==
  \A j \in i + 1 .. n : Ends(couplings[i]) \intersect Ends(couplings[j]) = {}

\* A coupling that no later one has touched has the same flag at both ends.
Evened(used, couplings, n) ==
  \A i \in 1 .. n : Separate(couplings, i, n) =>
    used[couplings[i].magnitude] = used[couplings[i].angle]

PropagationInv ==
  /\ floor_output_used \in [Channels -> BOOLEAN]
  /\ stage = "head" => step = 0
  /\ stage = "floors" =>
       /\ step \in Nat
       /\ channel < AudioChannels => step = 0
       /\ Evened(floor_output_used, CouplingsOf(mode_idx), step)
  /\ stage \in {"residues", "coupling", "done"} =>
       /\ mode_idx \in DOMAIN modes
       /\ Evened(floor_output_used, CouplingsOf(mode_idx), Len(CouplingsOf(mode_idx)))

IsSilent(c) == ~floor_output_used[c] /\ ~IsMixed(mapping(mode_idx), c)

Quiet(c) == residue_outputs[c] = Zeros(decode_len(modes, mode_idx))

\* The channels of the submap that is decoded, and what they have so far.
LoopsSilent ==
  LET m == mapping(mode_idx)
      members == Members(m, submap)
  IN rstage \in {"pass", "classify", "partition", "decoded"} =>
       /\ stage = "residues"
       /\ residue = m.submaps[submap].residue
       /\ residue.type # 2 =>
            /\ DOMAIN out = DOMAIN members
            /\ \A j \in DOMAIN members :
                 /\ channel_used[j] = floor_output_used[members[j]]
                 /\ ~channel_used[j] => out[j] = Zeros(decode_len(modes, mode_idx))

ResiduesSilent ==
  /\ submap \in Nat
  /\ stage \in {"head", "floors"} => submap = 0
  /\ DOMAIN residue_outputs = Channels
  /\ stage = "residues" =>
       \A c \in Channels :
         mapping(mode_idx).muxs[c] < submap /\ IsSilent(c) => Quiet(c)

\* None of the couplings undone so far has this channel.
IsUntouched(c) ==
  \A j \in step + 1 .. Len(CouplingsOf(mode_idx)) :
    c \notin Ends(CouplingsOf(mode_idx)[j])

CouplingsSilent ==
  stage = "coupling" =>
    /\ step \in 0 .. Len(CouplingsOf(mode_idx))
    /\ \A c \in Channels :
         IsSilent(c) /\ (IsUntouched(c) \/ StandsAlone(mapping(mode_idx), c)) => Quiet(c)

SilenceInvariant ==
  /\ ReadInvariant
  /\ PropagationInv
  /\ LoopsSilent
  /\ ResiduesSilent
  /\ CouplingsSilent
  /\ SilenceIsKept

\* What parse lets pass of a mapping.
LEMMA MappingType ==
  ASSUME modes \in Setups, mode_idx \in DOMAIN modes
  PROVE  /\ Len(CouplingsOf(mode_idx)) \in Nat
         /\ \A i \in 1 .. Len(CouplingsOf(mode_idx)) :
              /\ CouplingsOf(mode_idx)[i].magnitude \in Channels
              /\ CouplingsOf(mode_idx)[i].angle \in Channels
              /\ CouplingsOf(mode_idx)[i].magnitude # CouplingsOf(mode_idx)[i].angle
         /\ \E n \in Nat : DOMAIN mapping(mode_idx).submaps = 0 .. n - 1
         /\ mapping(mode_idx).muxs \in [Channels -> DOMAIN mapping(mode_idx).submaps]
<1> DEFINE m == mapping(mode_idx)
           couplings == m.couplings
           Ks == [magnitude : Channels, angle : Channels]
<1>1. ParsedMapping(m)
  BY AudioAssumption DEF mapping
<1>2. /\ couplings \in Seq(Ks)
      /\ \A i \in DOMAIN couplings : couplings[i].magnitude # couplings[i].angle
      /\ \E n \in 1 .. 16 : DOMAIN m.submaps = 0 .. n - 1
      /\ m.muxs \in [Channels -> DOMAIN m.submaps]
  BY <1>1 DEF ParsedMapping
<1>3. CouplingsOf(mode_idx) = couplings
  BY DEF CouplingsOf
<1> HIDE DEF couplings, Ks, m
<1>4. Len(couplings) \in Nat /\ DOMAIN couplings = 1 .. Len(couplings)
  BY <1>2
<1>5. \A i \in 1 .. Len(couplings) : couplings[i] \in Ks
  BY <1>2
<1>6. \E n \in Nat : DOMAIN m.submaps = 0 .. n - 1
  BY <1>2
<1> QED
  BY <1>2, <1>3, <1>4, <1>5, <1>6 DEF Ks, m

\* One coupling more is evened out, and those before it that it leaves alone stay even.
LEMMA PropagatedEvens ==
  ASSUME NEW couplings, NEW n \in Nat,
         \A i \in 1 .. n + 1 :
           couplings[i].magnitude \in Channels /\ couplings[i].angle \in Channels,
         NEW used \in [Channels -> BOOLEAN], Evened(used, couplings, n)
  PROVE  /\ Propagated(used, couplings[n + 1]) \in [Channels -> BOOLEAN]
         /\ Evened(Propagated(used, couplings[n + 1]), couplings, n + 1)
<1> DEFINE k == couplings[n + 1]
           after == Propagated(used, k)
<1>1. k.magnitude \in Channels /\ k.angle \in Channels
  <2>1. n + 1 \in 1 .. n + 1
    OBVIOUS
  <2> QED
    BY <2>1
<1>2. /\ after \in [Channels -> BOOLEAN]
      /\ after[k.magnitude] = after[k.angle]
      /\ \A c \in Channels \ Ends(k) : after[c] = used[c]
  <2> HIDE DEF k
  <2>1. CASE used[k.angle] \/ used[k.magnitude]
    <3>1. after = [used EXCEPT ![k.angle] = TRUE, ![k.magnitude] = TRUE]
      BY <2>1 DEF Propagated
    <3> HIDE DEF after
    <3> QED
      BY <1>1, <3>1 DEF Ends
  <2>2. CASE ~(used[k.angle] \/ used[k.magnitude])
    <3>1. after = used
      BY <2>2 DEF Propagated
    <3>2. used[k.magnitude] = FALSE /\ used[k.angle] = FALSE
      BY <1>1, <2>2
    <3> QED
      BY <3>1, <3>2
  <2> QED
    BY <2>1, <2>2
<1> HIDE DEF after
<1>3. ASSUME NEW i \in 1 .. n + 1, Separate(couplings, i, n + 1)
      PROVE  after[couplings[i].magnitude] = after[couplings[i].angle]
  <2>1. CASE i = n + 1
    BY <1>2, <2>1
  <2>2. CASE i # n + 1
    <3>1. i \in 1 .. n /\ n + 1 \in i + 1 .. n + 1
      BY <2>2
    <3>2. Separate(couplings, i, n)
      BY <1>3, <3>1 DEF Separate
    <3>3. Ends(couplings[i]) \intersect Ends(k) = {}
      BY <1>3, <3>1 DEF Separate
    <3>4. couplings[i].magnitude \in Channels \ Ends(k)
          /\ couplings[i].angle \in Channels \ Ends(k)
      <4>1. couplings[i].magnitude \in Ends(couplings[i])
            /\ couplings[i].angle \in Ends(couplings[i])
        BY DEF Ends
      <4> HIDE DEF k
      <4> QED
        BY <3>3, <4>1
    <3>5. used[couplings[i].magnitude] = used[couplings[i].angle]
      BY <3>1, <3>2 DEF Evened
    <3> QED
      BY <1>2, <3>4, <3>5
  <2> QED
    BY <2>1, <2>2
<1>4. Evened(after, couplings, n + 1)
  BY <1>3 DEF Evened
<1> QED
  BY <1>2, <1>4 DEF after

\* A channel's place among those of its submap has that channel.
LEMMA MemberExists ==
  ASSUME NEW m, NEW c \in Channels
  PROVE  \E j \in DOMAIN Members(m, m.muxs[c]) : Members(m, m.muxs[c])[j] = c
<1> DEFINE mine == {d \in Channels : m.muxs[d] = m.muxs[c]}
           Below(d) == {e \in mine : e < d}
           n == Cardinality(mine)
           j == Cardinality(Below(c))
<1>1. IsFiniteSet(Channels)
  BY AudioAssumption, CountOf DEF Channels
<1>2. c \in mine /\ mine \in SUBSET Channels /\ Channels \in SUBSET Int
  BY AudioAssumption DEF Channels
<1>3. IsFiniteSet(mine) /\ n \in Nat
  <2> HIDE DEF mine
  <2> QED
    BY <1>1, <1>2, FS_Subset, FS_CardinalityType
<1>4. ASSUME NEW S, NEW T \in SUBSET S, NEW x \in S \ T, IsFiniteSet(S)
      PROVE  Cardinality(T) \in Nat /\ Cardinality(T) < Cardinality(S)
  <2>1. Cardinality(T) <= Cardinality(S) /\ (Cardinality(T) = Cardinality(S) => S = T)
        /\ IsFiniteSet(T)
    BY <1>4, FS_Subset
  <2>2. Cardinality(T) \in Nat /\ Cardinality(S) \in Nat
    BY <1>4, <2>1, FS_CardinalityType
  <2>3. S # T
    OBVIOUS
  <2> QED
    BY <2>1, <2>2, <2>3
<1>5. ASSUME NEW d \in mine
      PROVE  IsFiniteSet(Below(d)) /\ Below(d) \in SUBSET mine
  <2>1. Below(d) \in SUBSET mine
    OBVIOUS
  <2> HIDE DEF mine, Below
  <2> QED
    BY <1>3, <2>1, FS_Subset
<1>6. j \in 0 .. n - 1
  <2>1. c \in mine \ Below(c)
    BY <1>2
  <2>2. Below(c) \in SUBSET mine
    OBVIOUS
  <2> HIDE DEF mine, Below
  <2>3. j \in Nat /\ j < n
    BY <1>3, <1>4, <2>1, <2>2
  <2> QED
    BY <1>3, <2>3
<1>7. ASSUME NEW d \in mine, Cardinality(Below(d)) = j
      PROVE  d = c
  <2>1. d \in Int /\ c \in Int
    BY <1>2
  <2>2. ASSUME NEW x \in mine, NEW y \in mine, x < y
        PROVE  Cardinality(Below(x)) < Cardinality(Below(y))
    <3>1. Below(x) \in SUBSET Below(y) /\ x \in Below(y) \ Below(x)
      <4>1. x \in Int /\ y \in Int /\ \A e \in mine : e \in Int
        BY <1>2
      <4> HIDE DEF mine
      <4>2. \A e \in mine : e < x => e < y
        BY <2>2, <4>1
      <4>3. ~(x < x)
        BY <4>1
      <4> QED
        BY <2>2, <4>2, <4>3
    <3>2. IsFiniteSet(Below(y))
      BY <1>5
    <3> HIDE DEF mine, Below
    <3> QED
      BY <1>4, <3>1, <3>2
  <2>3. Cardinality(Below(d)) \in Nat /\ Cardinality(Below(c)) \in Nat
    <3> HIDE DEF mine, Below
    <3> QED
      BY <1>2, <1>5, FS_CardinalityType
  <2>4. ~(d < c) /\ ~(c < d)
    <3> HIDE DEF mine, Below
    <3> QED
      BY <1>2, <1>7, <2>2, <2>3
  <2> QED
    BY <2>1, <2>4
<1>8. DOMAIN Members(m, m.muxs[c]) = 0 .. n - 1
      /\ Members(m, m.muxs[c])[j] = CHOOSE d \in mine : Cardinality(Below(d)) = j
  BY <1>6 DEF Members, InOrder, Table
<1>9. (CHOOSE d \in mine : Cardinality(Below(d)) = j) = c
  <2> DEFINE Is(d) == Cardinality(Below(d)) = j
  <2>1. c \in mine /\ Is(c) /\ \A d \in mine : Is(d) => d = c
    BY <1>2, <1>7
  <2> HIDE DEF Is, mine
  <2>2. (CHOOSE d \in mine : Is(d)) = c
    BY <2>1
  <2> QED
    BY <2>2 DEF Is
<1> QED
  BY <1>6, <1>8, <1>9

-----------------------------------------------------------------------------
(* Propagation                                                             *)

LEMMA PropagationKeeps ==
  ASSUME ReadInvariant, PropagationInv, [ANext]_avars
  PROVE  PropagationInv'
<1>1. modes' = modes
  BY PacketStays
<1>2. stage \in {"floors", "residues", "coupling", "done"} =>
        /\ mode_idx \in DOMAIN modes
        /\ Len(CouplingsOf(mode_idx)) \in Nat
  BY MappingType DEF ReadInvariant, ModeOK, PropagationInv
<1>3. CASE ReadHead
  <2>1. /\ stage = "head" /\ step' = step /\ floor_output_used' = floor_output_used
        /\ stage' \in {"failed", "aborted", "undefined", "misplaced", "floors"}
    BY <1>3 DEF ReadHead, floors
  <2>2. step = 0
    BY <2>1 DEF PropagationInv
  <2>3. Evened(floor_output_used', CouplingsOf(mode_idx)', 0)
    BY DEF Evened
  <2> QED
    BY <2>1, <2>2, <2>3 DEF PropagationInv
<1>4. CASE DecodeFloor
  <2>1. /\ stage = "floors" /\ channel < AudioChannels /\ mode_idx' = mode_idx
        /\ step' = step /\ stage' \in {"floors", "failed", "refused"}
    BY <1>4 DEF DecodeFloor
  <2>2. step = 0
    BY <2>1 DEF PropagationInv
  <2>3. floor_output_used' \in [Channels -> BOOLEAN]
    <3>1. \/ floor_output_used' = floor_output_used
          \/ floor_output_used' =
               [floor_output_used EXCEPT ![channel] = readBit(reader).value = 1]
      BY <1>4 DEF DecodeFloor, floors
    <3>2. floor_output_used \in [Channels -> BOOLEAN]
      BY DEF PropagationInv
    <3>3. (readBit(reader).value = 1) \in BOOLEAN
      OBVIOUS
    <3> QED
      BY <3>1, <3>2, <3>3
  <2>4. Evened(floor_output_used', CouplingsOf(mode_idx)', 0)
    BY DEF Evened
  <2> QED
    BY <2>1, <2>2, <2>3, <2>4 DEF PropagationInv
<1>5. CASE PropagateNonzero
  <2>1. /\ stage = "floors" /\ channel = AudioChannels /\ channel' = channel
        /\ mode_idx' = mode_idx
    BY <1>5 DEF PropagateNonzero
  <2>2. /\ CouplingsOf(mode_idx)' = CouplingsOf(mode_idx)
        /\ step \in Nat /\ floor_output_used \in [Channels -> BOOLEAN]
        /\ Evened(floor_output_used, CouplingsOf(mode_idx), step)
        /\ ~(channel' < AudioChannels)
    BY <1>1, <2>1, AudioAssumption DEF PropagationInv, CouplingsOf, mapping
  <2>3. CASE step < Len(CouplingsOf(mode_idx))
    <3>1. /\ floor_output_used' =
                Propagated(floor_output_used, CouplingsOf(mode_idx)[step + 1])
          /\ step' = step + 1 /\ stage' = "floors"
      BY <1>5, <2>3 DEF PropagateNonzero, CouplingsOf
    <3>2. \A i \in 1 .. step + 1 :
            /\ CouplingsOf(mode_idx)[i].magnitude \in Channels
            /\ CouplingsOf(mode_idx)[i].angle \in Channels
      <4>1. \A i \in 1 .. step + 1 : i \in 1 .. Len(CouplingsOf(mode_idx))
        BY <1>2, <2>1, <2>2, <2>3
      <4> QED
        BY <1>2, <2>1, <4>1, MappingType DEF ReadInvariant
    <3>3. /\ floor_output_used' \in [Channels -> BOOLEAN]
          /\ Evened(floor_output_used', CouplingsOf(mode_idx), step + 1)
      BY <2>2, <3>1, <3>2, PropagatedEvens
    <3> QED
      BY <2>2, <3>1, <3>3 DEF PropagationInv
  <2>4. CASE ~(step < Len(CouplingsOf(mode_idx)))
    <3>1. /\ step = Len(CouplingsOf(mode_idx)) /\ step' = step
          /\ floor_output_used' = floor_output_used /\ stage' = "residues"
      BY <1>5, <2>4 DEF PropagateNonzero, CouplingsOf
    <3> QED
      BY <1>1, <1>2, <2>1, <2>2, <3>1 DEF PropagationInv
  <2> QED
    BY <2>3, <2>4
<1>6. CASE \/ StartResidue \/ DecodeResidue \/ FailResidue \/ FinishResidue
           \/ PushResidues \/ InverseCoupling \/ DotProduct
  <2>1. /\ stage \in {"residues", "coupling"}
        /\ stage' \in {"residues", "coupling", "done", "failed"}
        /\ floor_output_used' = floor_output_used /\ mode_idx' = mode_idx
    BY <1>6 DEF StartResidue, DecodeResidue, FailResidue, FinishResidue,
       PushResidues, InverseCoupling, DotProduct, floors
  <2>2. CouplingsOf(mode_idx)' = CouplingsOf(mode_idx)
    BY <1>1, <2>1 DEF CouplingsOf, mapping
  <2> QED
    BY <1>1, <2>1, <2>2 DEF PropagationInv
<1>7. CASE UNCHANGED avars
  <2>1. /\ stage' = stage /\ step' = step /\ channel' = channel
        /\ floor_output_used' = floor_output_used /\ mode_idx' = mode_idx
    BY <1>7 DEF avars, floors
  <2>2. CouplingsOf(mode_idx)' = CouplingsOf(mode_idx)
    BY <1>1, <2>1 DEF CouplingsOf, mapping
  <2> QED
    BY <1>1, <2>1, <2>2 DEF PropagationInv
<1> QED
  BY <1>3, <1>4, <1>5, <1>6, <1>7 DEF ANext

-----------------------------------------------------------------------------
(* The residues                                                            *)

\* decode is started with zeros for every channel.
LEMMA StartsSilent ==
  ASSUME ReadInvariant, StartResidue
  PROVE  LoopsSilent'
<1> DEFINE m == mapping(mode_idx)
           r == m.submaps[submap].residue
           members == Members(m, submap)
           used == [j \in DOMAIN members |-> floor_output_used[members[j]]]
           len == decode_len(modes, mode_idx)
<1>1. /\ BeginResidue(r, used, len) /\ stage = "residues" /\ stage' = stage
      /\ modes' = modes /\ mode_idx' = mode_idx /\ submap' = submap
      /\ floor_output_used' = floor_output_used
  BY PacketStays DEF StartResidue, floors, given
<1>2. /\ residue' = r
      /\ r.type # 2 => channel_used' = used
      /\ r.type # 2 => out' = [j \in DOMAIN channel_used' |-> [p \in 0 .. len - 1 |-> 0]]
  <2> HIDE DEF m, used, len, r
  <2> QED
    BY <1>1 DEF BeginResidue
<1>3. /\ m' = m /\ members' = members /\ len' = len
  BY <1>1 DEF mapping, decode_len
<1>4. DOMAIN used = DOMAIN members /\ \A j \in DOMAIN members : used[j] = floor_output_used[members[j]]
  OBVIOUS
<1>5. r.type # 2 =>
        /\ DOMAIN out' = DOMAIN members
        /\ \A j \in DOMAIN members :
             channel_used'[j] = floor_output_used[members[j]] /\ out'[j] = Zeros(len)
  <2> HIDE DEF m, members, len, r, used
  <2> QED
    BY <1>2, <1>4 DEF Zeros
<1> HIDE DEF r
<1>6. r = m.submaps[submap].residue
  BY DEF r
<1> HIDE DEF m, members, len, used
<1> QED
  BY <1>1, <1>2, <1>3, <1>5, <1>6 DEF LoopsSilent, m, members, len

\* Only the vectors of used channels are added to.
LEMMA DecodesSilent ==
  ASSUME ReadInvariant, LoopsSilent, DecodeResidue
  PROVE  LoopsSilent'
<1> DEFINE m == mapping(mode_idx)
           members == Members(m, submap)
           len == decode_len(modes, mode_idx)
<1>1. /\ stage' = stage /\ modes' = modes /\ mode_idx' = mode_idx /\ submap' = submap
      /\ floor_output_used' = floor_output_used
  BY DEF DecodeResidue, floors
<1>2. /\ residue' = residue /\ channel_used' = channel_used
      /\ rstage \in {"pass", "classify", "partition"}
  BY DEF DecodeResidue, ResidueNext, NextClassword, Classify, DecodePartition,
         RefuseVector, settings
<1>3. \/ out' = out
      \/ channel_used[ch] /\ \E added : out' = [out EXCEPT ![ch] = added]
  BY DEF DecodeResidue, ResidueNext, NextClassword, Classify, DecodePartition, RefuseVector
<1>4. /\ m' = m /\ members' = members /\ len' = len
  BY <1>1 DEF mapping, decode_len
<1>5. /\ stage = "residues" /\ residue = m.submaps[submap].residue
      /\ residue.type # 2 =>
           /\ DOMAIN out = DOMAIN members
           /\ \A j \in DOMAIN members :
                /\ channel_used[j] = floor_output_used[members[j]]
                /\ ~channel_used[j] => out[j] = Zeros(len)
  BY <1>2 DEF LoopsSilent
<1>6. /\ DOMAIN out' = DOMAIN out
      /\ \A j \in DOMAIN out : ~channel_used[j] => out'[j] = out[j]
  BY <1>3
<1> HIDE DEF m, members, len
<1> QED
  BY <1>1, <1>2, <1>4, <1>5, <1>6 DEF LoopsSilent, m, members, len

LEMMA LoopsStaySilent ==
  ASSUME ReadInvariant, LoopsSilent, [ANext]_avars
  PROVE  LoopsSilent'
<1>1. CASE StartResidue
  BY <1>1, StartsSilent
<1>2. CASE DecodeResidue
  BY <1>2, DecodesSilent
<1>3. CASE FinishResidue \/ PushResidues
  <2>1. rstage' = "none"
    BY <1>3 DEF FinishResidue, PushResidues, loops
  <2> QED
    BY <2>1 DEF LoopsSilent
<1>4. CASE FailResidue
  <2>1. rstage' = "failed"
    BY <1>4 DEF FailResidue, loops
  <2> QED
    BY <2>1 DEF LoopsSilent
<1>5. CASE ReadHead \/ DecodeFloor \/ PropagateNonzero \/ InverseCoupling \/ DotProduct
  <2>1. stage # "residues" /\ rstage' = rstage
    BY <1>5 DEF ReadHead, DecodeFloor, PropagateNonzero, InverseCoupling, DotProduct, loops
  <2> QED
    BY <2>1 DEF LoopsSilent
<1>6. CASE UNCHANGED avars
  BY <1>6 DEF avars, given, floors, loops, LoopsSilent, mapping, decode_len
<1> QED
  BY <1>1, <1>2, <1>3, <1>4, <1>5, <1>6 DEF ANext

\* A silent channel of the submap gets zeros.
LEMMA FinishesSilent ==
  ASSUME ReadInvariant, LoopsSilent, ResiduesSilent, FinishResidue
  PROVE  ResiduesSilent'
<1> DEFINE m == mapping(mode_idx)
           members == Members(m, submap)
           len == decode_len(modes, mode_idx)
           n == Cardinality(DOMAIN members)
           result == ResidueOutput(n, len)
           number(c) == CHOOSE j \in DOMAIN members : members[j] = c
<1>1. /\ stage = "residues" /\ stage' = stage /\ rstage = "decoded"
      /\ modes' = modes /\ mode_idx' = mode_idx /\ submap' = submap + 1
      /\ floor_output_used' = floor_output_used
  BY DEF FinishResidue, floors, given
<1>2. residue_outputs' = [c \in Channels |->
        IF m.muxs[c] = submap THEN result[number(c)] ELSE residue_outputs[c]]
  BY DEF FinishResidue
<1>3. m' = m /\ len' = len
  BY <1>1 DEF mapping, decode_len
<1>4. submap \in Nat /\ DOMAIN residue_outputs = Channels
  BY DEF ResiduesSilent
<1>5. ASSUME NEW c \in Channels, m.muxs[c] < submap + 1,
             ~floor_output_used[c], ~IsMixed(m, c)
      PROVE  residue_outputs'[c] = Zeros(len)
  <2>1. CASE m.muxs[c] = submap
    <3>1. /\ residue = m.submaps[submap].residue
          /\ residue.type # 2 =>
               /\ DOMAIN out = DOMAIN members
               /\ \A j \in DOMAIN members :
                    /\ channel_used[j] = floor_output_used[members[j]]
                    /\ ~channel_used[j] => out[j] = Zeros(len)
      BY <1>1 DEF LoopsSilent
    <3>2. residue.type # 2
      BY <1>5, <2>1, <3>1 DEF IsMixed
    <3>3. \E j \in DOMAIN members : members[j] = c
      BY <2>1, MemberExists
    <3>4. result = out
      BY <3>2 DEF ResidueOutput
    <3>5. residue_outputs'[c] = result[number(c)]
      BY <1>2, <2>1
    <3> HIDE DEF m, len, result, members
    <3>6. number(c) \in DOMAIN members /\ members[number(c)] = c
      BY <3>3
    <3> HIDE DEF number
    <3> QED
      BY <1>5, <3>1, <3>2, <3>4, <3>5, <3>6
  <2>2. CASE m.muxs[c] # submap
    <3>1. residue_outputs'[c] = residue_outputs[c]
      BY <1>2, <2>2
    <3>2. m.muxs[c] \in Int
      <4>1. mode_idx \in DOMAIN modes /\ modes \in Setups
        BY <1>1 DEF ReadInvariant, ModeOK
      <4> QED
        BY <4>1, MappingType
    <3>3. m.muxs[c] < submap
      <4> HIDE DEF m
      <4> QED
        BY <1>4, <1>5, <2>2, <3>2
    <3>4. residue_outputs[c] = Zeros(len)
      BY <1>1, <1>5, <3>3 DEF ResiduesSilent, IsSilent, Quiet
    <3> QED
      BY <3>1, <3>4
  <2> QED
    BY <2>1, <2>2
<1>6. DOMAIN residue_outputs' = Channels
  BY <1>2
<1> HIDE DEF m, len, result, number
<1>7. \A c \in Channels : (m.muxs[c] < submap + 1 /\ IsSilent(c)' => Quiet(c)')
  <2>1. \A c \in Channels : IsSilent(c)' <=> ~floor_output_used[c] /\ ~IsMixed(m, c)
    BY <1>1, <1>3 DEF IsSilent, IsMixed, m
  <2>2. \A c \in Channels : Quiet(c)' <=> residue_outputs'[c] = Zeros(len)
    BY <1>3 DEF Quiet, len, Zeros
  <2> QED
    BY <1>5, <2>1, <2>2
<1> QED
  BY <1>1, <1>3, <1>4, <1>6, <1>7 DEF ResiduesSilent, m

LEMMA ResiduesStaySilent ==
  ASSUME ReadInvariant, PropagationInv, LoopsSilent, ResiduesSilent, [ANext]_avars
  PROVE  ResiduesSilent'
<1>1. CASE FinishResidue
  BY <1>1, FinishesSilent
<1>2. CASE PropagateNonzero
  <2>1. /\ submap' = submap /\ residue_outputs' = residue_outputs
        /\ modes' = modes /\ mode_idx' = mode_idx /\ stage = "floors"
    BY <1>2 DEF PropagateNonzero, given
  <2>2. submap = 0 /\ DOMAIN residue_outputs = Channels
    BY <2>1 DEF ResiduesSilent
  <2>3. \A c \in Channels : ~(mapping(mode_idx).muxs[c] < 0)
    <3>1. mode_idx \in DOMAIN modes /\ modes \in Setups
      BY <2>1 DEF ReadInvariant, ModeOK
    <3>2. PICK n \in Nat : DOMAIN mapping(mode_idx).submaps = 0 .. n - 1
      BY <3>1, MappingType
    <3>3. \A c \in Channels : mapping(mode_idx).muxs[c] \in 0 .. n - 1
      BY <3>1, <3>2, MappingType
    <3> QED
      BY <3>3
  <2>4. mapping(mode_idx)' = mapping(mode_idx)
    BY <2>1 DEF mapping
  <2>5. stage' \in {"floors", "residues"}
    BY <1>2 DEF PropagateNonzero
  <2> QED
    BY <2>1, <2>2, <2>3, <2>4, <2>5 DEF ResiduesSilent
<1>3. CASE ReadHead \/ DecodeFloor
  <2>1. /\ submap' = submap /\ residue_outputs' = residue_outputs
        /\ stage \in {"head", "floors"} /\ stage' # "residues"
    BY <1>3 DEF ReadHead, DecodeFloor
  <2> QED
    BY <2>1 DEF ResiduesSilent
<1>4. CASE StartResidue \/ DecodeResidue \/ UNCHANGED avars
  <2>1. /\ submap' = submap /\ residue_outputs' = residue_outputs
        /\ modes' = modes /\ mode_idx' = mode_idx /\ stage' = stage
        /\ floor_output_used' = floor_output_used
    BY <1>4 DEF StartResidue, DecodeResidue, avars, given, floors
  <2> QED
    BY <2>1 DEF ResiduesSilent, IsSilent, IsMixed, Quiet, mapping, decode_len
<1>5. CASE FailResidue \/ PushResidues
  <2>1. /\ submap' = submap /\ residue_outputs' = residue_outputs
        /\ stage' \in {"failed", "coupling"}
    BY <1>5 DEF FailResidue, PushResidues
  <2> QED
    BY <2>1 DEF ResiduesSilent
<1>6. CASE InverseCoupling \/ DotProduct
  <2>1. /\ submap' = submap /\ stage' \in {"coupling", "done"}
    BY <1>6 DEF InverseCoupling, DotProduct
  <2>2. DOMAIN residue_outputs' = Channels
    <3>1. DOMAIN residue_outputs = Channels
      BY DEF ResiduesSilent
    <3> QED
      BY <1>6, <3>1 DEF InverseCoupling, UncoupleVectors, DotProduct
  <2> QED
    BY <2>1, <2>2 DEF ResiduesSilent
<1> QED
  BY <1>1, <1>2, <1>3, <1>4, <1>5, <1>6 DEF ANext

-----------------------------------------------------------------------------
(* The couplings                                                           *)

\* All residues are there: those of silent channels are zeros.
LEMMA PushesSilent ==
  ASSUME ReadInvariant, PropagationInv, ResiduesSilent, PushResidues
  PROVE  CouplingsSilent'
<1> DEFINE m == mapping(mode_idx)
<1>1. /\ stage = "residues" /\ submap \notin DOMAIN m.submaps
      /\ modes' = modes /\ mode_idx' = mode_idx
      /\ residue_outputs' = residue_outputs /\ floor_output_used' = floor_output_used
      /\ step' = Len(CouplingsOf(mode_idx))
  BY DEF PushResidues, given, floors, CouplingsOf
<1>2. modes \in Setups /\ mode_idx \in DOMAIN modes
  BY <1>1 DEF ReadInvariant, PropagationInv
<1>3. PICK n \in Nat : DOMAIN m.submaps = 0 .. n - 1
  BY <1>2, MappingType
<1>4. ASSUME NEW c \in Channels, IsSilent(c) PROVE Quiet(c)
  <2>1. submap \in Nat /\ m.muxs[c] \in 0 .. n - 1
    BY <1>2, <1>3, MappingType DEF ResiduesSilent
  <2> HIDE DEF m
  <2>2. m.muxs[c] < submap
    BY <1>1, <1>3, <2>1
  <2> QED
    BY <1>1, <1>4, <2>2 DEF ResiduesSilent, m
<1>5. CouplingsOf(mode_idx)' = CouplingsOf(mode_idx)
  BY <1>1 DEF CouplingsOf, mapping
<1>6. step' \in 0 .. Len(CouplingsOf(mode_idx)')
  BY <1>1, <1>2, <1>5, MappingType
<1>7. \A c \in Channels : IsSilent(c)' => Quiet(c)'
  <2>1. \A c \in Channels : (IsSilent(c)' <=> IsSilent(c)) /\ (Quiet(c)' <=> Quiet(c))
    BY <1>1 DEF IsSilent, IsMixed, Quiet, mapping, decode_len
  <2> QED
    BY <1>4, <2>1
<1> QED
  BY <1>6, <1>7 DEF CouplingsSilent

\* Of two vectors of zeros come two of zeros.
LEMMA UncoupledZeros ==
  ASSUME NEW v, DOMAIN v = Channels, NEW len, NEW k,
         k.magnitude \in Channels, k.angle \in Channels, k.magnitude # k.angle,
         v[k.magnitude] = Zeros(len), v[k.angle] = Zeros(len),
         NEW c \in Ends(k)
  PROVE  UncoupleVectors(v, k)[c] = Zeros(len)
<1>1. Uncouple(0, 0) = <<0, 0>>
  BY DEF Uncouple
<1> DEFINE P == 0 .. len - 1
<1>2. DOMAIN Zeros(len) = P /\ \A p \in P : Zeros(len)[p] = 0
  BY DEF Zeros
<1> DEFINE um == [p \in DOMAIN v[k.magnitude] |->
                    Uncouple(v[k.magnitude][p], v[k.angle][p])[1]]
           ua == [p \in DOMAIN v[k.angle] |->
                    Uncouple(v[k.magnitude][p], v[k.angle][p])[2]]
<1>3. UncoupleVectors(v, k) = [v EXCEPT ![k.magnitude] = um, ![k.angle] = ua]
  BY DEF UncoupleVectors
<1>4. um = [p \in P |-> 0] /\ ua = [p \in P |-> 0]
  BY <1>1, <1>2
<1>5. um = Zeros(len) /\ ua = Zeros(len)
  BY <1>4 DEF Zeros
<1> HIDE DEF um, ua
<1> QED
  BY <1>3, <1>5 DEF Ends

\* The others are left alone.
LEMMA UncoupledOthers ==
  ASSUME NEW v, NEW k, NEW c \in DOMAIN v, c \notin Ends(k)
  PROVE  UncoupleVectors(v, k)[c] = v[c]
BY DEF UncoupleVectors, Ends

LEMMA UncouplesSilent ==
  ASSUME ReadInvariant, PropagationInv, ResiduesSilent, CouplingsSilent, InverseCoupling
  PROVE  CouplingsSilent'
<1> DEFINE m == mapping(mode_idx)
           couplings == CouplingsOf(mode_idx)
           k == couplings[step]
           len == decode_len(modes, mode_idx)
<1>1. /\ stage = "coupling" /\ step > 0 /\ step' = step - 1
      /\ modes' = modes /\ mode_idx' = mode_idx
      /\ residue_outputs' = UncoupleVectors(residue_outputs, k)
      /\ floor_output_used' = floor_output_used
  BY DEF InverseCoupling, given, floors, CouplingsOf, NextCoupling
<1>2. modes \in Setups /\ mode_idx \in DOMAIN modes
  BY <1>1 DEF ReadInvariant, PropagationInv
<1>3. Len(couplings) \in Nat /\ step \in 1 .. Len(couplings)
  <2>1. Len(couplings) \in Nat /\ step \in 0 .. Len(couplings)
    BY <1>1, <1>2, MappingType DEF CouplingsSilent
  <2> HIDE DEF couplings
  <2> QED
    BY <1>1, <2>1
<1>4. k.magnitude \in Channels /\ k.angle \in Channels /\ k.magnitude # k.angle
  BY <1>2, <1>3, MappingType
<1>5. couplings' = couplings /\ m' = m /\ len' = len
  BY <1>1 DEF CouplingsOf, mapping, decode_len
<1>6. \A c \in Channels :
        IsSilent(c) /\ (IsUntouched(c) \/ StandsAlone(m, c)) => Quiet(c)
  BY <1>1 DEF CouplingsSilent
<1>7. ASSUME NEW c \in Channels, IsSilent(c),
             (\A j \in step .. Len(couplings) : c \notin Ends(couplings[j])) \/ StandsAlone(m, c)
      PROVE  residue_outputs'[c] = Zeros(len)
  <2>1. CASE c \notin Ends(k)
    <3>1. residue_outputs'[c] = residue_outputs[c]
      BY <1>1, <2>1, UncoupledOthers DEF ResiduesSilent
    <3>2. IsUntouched(c) \/ StandsAlone(m, c)
      BY <1>3, <1>7 DEF IsUntouched
    <3> QED
      BY <1>6, <1>7, <3>1, <3>2 DEF Quiet
  <2>2. CASE c \in Ends(k)
    <3>1. StandsAlone(m, c)
      BY <1>3, <1>7, <2>2
    <3>2. m.couplings = couplings
      BY DEF CouplingsOf
    <3>3. /\ \A d \in Ends(k) : ~IsMixed(m, d)
          /\ Separate(couplings, step, Len(couplings))
      BY <1>3, <2>2, <3>1, <3>2 DEF StandsAlone, Separate
    <3>4. floor_output_used[k.magnitude] = floor_output_used[k.angle]
      BY <1>1, <1>3, <3>3 DEF PropagationInv, Evened
    <3>5. \A d \in Ends(k) : IsSilent(d)
      BY <1>7, <2>2, <3>3, <3>4 DEF IsSilent, Ends
    <3>6. \A d \in Ends(k) : IsUntouched(d)
      BY <3>3 DEF IsUntouched, Separate
    <3>7. residue_outputs[k.magnitude] = Zeros(len) /\ residue_outputs[k.angle] = Zeros(len)
      BY <1>4, <1>6, <3>5, <3>6 DEF Quiet, Ends
    <3>8. DOMAIN residue_outputs = Channels
      BY DEF ResiduesSilent
    <3> HIDE DEF k, len
    <3> QED
      BY <1>1, <1>4, <2>2, <3>7, <3>8, UncoupledZeros
  <2> QED
    BY <2>1, <2>2
<1>8. \A c \in Channels :
        /\ IsSilent(c)' <=> IsSilent(c)
        /\ Quiet(c)' <=> residue_outputs'[c] = Zeros(len)
        /\ IsUntouched(c)' <=> \A j \in step .. Len(couplings) : c \notin Ends(couplings[j])
  <2>1. \A c \in Channels : IsSilent(c)' <=> IsSilent(c)
    BY <1>1, <1>5 DEF IsSilent, IsMixed
  <2>2. \A c \in Channels : Quiet(c)' <=> residue_outputs'[c] = Zeros(len)
    BY <1>5 DEF Quiet, Zeros
  <2>3. step' + 1 = step
    BY <1>1, <1>3
  <2> HIDE DEF couplings
  <2>4. \A c \in Channels : IsUntouched(c)' <=>
          \A j \in step .. Len(couplings) : c \notin Ends(couplings[j])
    BY <1>5, <2>3 DEF IsUntouched, couplings, Ends
  <2> QED
    BY <2>1, <2>2, <2>4
<1>9. step' \in 0 .. Len(couplings')
  BY <1>1, <1>3, <1>5
<1>10. \A c \in Channels : StandsAlone(m, c)' <=> StandsAlone(m, c)
  BY <1>5 DEF StandsAlone, IsMixed, Ends
<1> HIDE DEF couplings, m, len
<1> QED
  BY <1>5, <1>7, <1>8, <1>9, <1>10 DEF CouplingsSilent, couplings, m

LEMMA CouplingsStaySilent ==
  ASSUME ReadInvariant, PropagationInv, ResiduesSilent, CouplingsSilent, [ANext]_avars
  PROVE  CouplingsSilent'
<1>1. CASE PushResidues
  BY <1>1, PushesSilent
<1>2. CASE InverseCoupling
  BY <1>2, UncouplesSilent
<1>3. CASE \/ ReadHead \/ DecodeFloor \/ PropagateNonzero \/ StartResidue
           \/ DecodeResidue \/ FailResidue \/ FinishResidue \/ DotProduct
  <2>1. stage' # "coupling"
    BY <1>3 DEF ReadHead, DecodeFloor, PropagateNonzero, StartResidue,
       DecodeResidue, FailResidue, FinishResidue, DotProduct
  <2> QED
    BY <2>1 DEF CouplingsSilent
<1>4. CASE UNCHANGED avars
  <2>1. /\ stage' = stage /\ step' = step /\ modes' = modes /\ mode_idx' = mode_idx
        /\ residue_outputs' = residue_outputs /\ floor_output_used' = floor_output_used
    BY <1>4 DEF avars, given, floors
  <2> QED
    BY <2>1, ZenonT(30) DEF CouplingsSilent, IsSilent, IsUntouched, Quiet, CouplingsOf, mapping,
       decode_len, IsMixed, StandsAlone
<1> QED
  BY <1>1, <1>2, <1>3, <1>4 DEF ANext

\* The product leaves a channel without a floor as it is.
LEMMA MultipliesSilent ==
  ASSUME ReadInvariant, PropagationInv, CouplingsSilent, DotProduct
  PROVE  SilenceIsKept'
<1> DEFINE m == mapping(mode_idx)
           len == decode_len(modes, mode_idx)
<1>1. /\ stage = "coupling" /\ modes' = modes /\ mode_idx' = mode_idx
      /\ floor_output_used' = floor_output_used /\ after_envelope' = residue_outputs'
      /\ \A c \in Channels : ~floor_output_used[c] => residue_outputs'[c] = residue_outputs[c]
  BY DEF DotProduct, given, floors
<1>2. m' = m /\ len' = len
  BY <1>1 DEF mapping, decode_len
<1>3. ASSUME NEW c \in Channels, ~floor_output_used[c], StandsAlone(m, c)
      PROVE  after_envelope'[c] = Zeros(len)
  <2>1. IsSilent(c)
    BY <1>3 DEF IsSilent, StandsAlone
  <2> QED
    BY <1>1, <1>3, <2>1 DEF CouplingsSilent, Quiet
<1>4. \A c \in Channels : StandsAlone(m, c)' <=> StandsAlone(m, c)
  BY <1>2 DEF StandsAlone, IsMixed, Ends
<1> HIDE DEF m, len
<1> QED
  BY <1>1, <1>2, <1>3, <1>4 DEF SilenceIsKept, m, len, Zeros

LEMMA SilenceStays ==
  ASSUME ReadInvariant, PropagationInv, CouplingsSilent, SilenceIsKept, [ANext]_avars
  PROVE  SilenceIsKept'
<1>1. CASE DotProduct
  BY <1>1, MultipliesSilent
<1>2. CASE \/ ReadHead \/ DecodeFloor \/ PropagateNonzero \/ StartResidue
           \/ DecodeResidue \/ FailResidue \/ FinishResidue \/ PushResidues
           \/ InverseCoupling
  <2>1. stage' # "done"
    BY <1>2 DEF ReadHead, DecodeFloor, PropagateNonzero, StartResidue,
       DecodeResidue, FailResidue, FinishResidue, PushResidues, InverseCoupling
  <2> QED
    BY <2>1 DEF SilenceIsKept
<1>3. CASE UNCHANGED avars
  <2>1. /\ stage' = stage /\ modes' = modes /\ mode_idx' = mode_idx
        /\ after_envelope' = after_envelope /\ floor_output_used' = floor_output_used
    BY <1>3 DEF avars, given, floors, pushed
  <2> QED
    BY <2>1 DEF SilenceIsKept, mapping, decode_len, StandsAlone, IsMixed
<1> QED
  BY <1>1, <1>2, <1>3 DEF ANext

(***************************************************************************)
(* No sound comes from a channel without a floor, for every setup and      *)
(* every packet, as long as no type 2 residue and no coupling that others  *)
(* follow on brings it that of another channel.                            *)
(***************************************************************************)
THEOREM SilentChannelsStaySilent ==
  ASpec => []SilenceIsKept
<1>1. AInit => SilenceInvariant
  <2>1. SUFFICES ASSUME AInit PROVE SilenceInvariant
    OBVIOUS
  <2>2. /\ stage = "head" /\ step = 0 /\ submap = 0 /\ rstage = "none"
        /\ floor_output_used = [c \in Channels |-> FALSE]
        /\ residue_outputs = [c \in Channels |-> <<>>]
    BY <2>1 DEF AInit
  <2> QED
    BY <2>1, <2>2, ReadInit
       DEF SilenceInvariant, PropagationInv, LoopsSilent, ResiduesSilent, CouplingsSilent,
           SilenceIsKept
<1>2. SilenceInvariant /\ [ANext]_avars => SilenceInvariant'
  BY ReadNext, PropagationKeeps, LoopsStaySilent, ResiduesStaySilent,
     CouplingsStaySilent, SilenceStays DEF SilenceInvariant
<1>3. SilenceInvariant => SilenceIsKept
  BY DEF SilenceInvariant
<1> QED
  BY <1>1, <1>2, <1>3, PTL DEF ASpec

-----------------------------------------------------------------------------
(***************************************************************************)
(* Values.  A field of n bits is less than 2^n, which is here what n turns *)
(* of doubling make of 1: the provers know nothing of powers.              *)
(***************************************************************************)

\* f[i] is 2^i for i up to n.
Doubles(f, n) ==
  f \in [0 .. n -> Nat] /\ f[0] = 1 /\ \A i \in 1 .. n : f[i] = 2 * f[i - 1]

LEMMA DoublesExist ==
  ASSUME NEW n \in Nat
  PROVE  \E f : Doubles(f, n)
<1> DEFINE g == [x \in Nat |-> 2 * x]
<1>1. g \in [Nat -> Nat] /\ 1 \in Nat
  OBVIOUS
<1> HIDE DEF g
<1>2. PICK f \in [0 .. n -> Nat] : f[0] = 1 /\ \A i \in 1 .. n : f[i] = g[f[i - 1]]
  <2>1. HasLoop(Nat, g, 1, n)
    BY <1>1, LoopExists
  <2> QED
    BY <2>1 DEF HasLoop
<1>3. ASSUME NEW i \in 1 .. n PROVE f[i] = 2 * f[i - 1]
  <2>1. f[i - 1] \in Nat
    BY <1>2
  <2> QED
    BY <1>2, <2>1 DEF g
<1> QED
  BY <1>2, <1>3 DEF Doubles

\* 2^n, however far the doubling goes on.
LEMMA DoubledIs ==
  ASSUME NEW m \in Nat, NEW f, Doubles(f, m), NEW n \in 0 .. m
  PROVE  Doubled(n) = f[n]
<1> DEFINE Is(l) == l = [i \in 0 .. n |-> IF i = 0 THEN 1 ELSE 2 * l[i - 1]]
           doubled == CHOOSE l : Is(l)
           h == [i \in 0 .. n |-> f[i]]
<1>1. f[0] = 1 /\ \A i \in 1 .. n : f[i] = 2 * f[i - 1]
  BY DEF Doubles
<1>2. Is(h)
  BY <1>1
<1>3. Is(doubled)
  BY <1>2
<1>4. Doubled(n) = doubled[n]
  BY DEF Doubled
<1> HIDE DEF doubled, h
<1>5. doubled[0] = f[0] /\ \A i \in 1 .. n : doubled[i - 1] = f[i - 1] => doubled[i] = f[i]
  BY <1>1, <1>3
<1>6. \A i \in 0 .. n : doubled[i] = f[i]
  BY <1>5, SameLoop
<1> QED
  BY <1>4, <1>6

LEMMA DoubledStep ==
  ASSUME NEW n \in Nat
  PROVE  Doubled(0) = 1 /\ Doubled(n) \in Nat \ {0} /\ Doubled(n + 1) = 2 * Doubled(n)
<1>1. PICK f : Doubles(f, n + 1)
  BY DoublesExist
<1>2. f[0] = 1 /\ \A i \in 1 .. n + 1 : f[i] = 2 * f[i - 1]
  BY <1>1 DEF Doubles
<1>3. \A i \in 0 .. n + 1 : Doubled(i) = f[i]
  BY <1>1, DoubledIs
<1> DEFINE Positive == Nat \ {0}
<1>4. \A i \in 0 .. n + 1 : f[i] \in Positive
  <2>1. f[0] \in Positive /\ \A i \in 1 .. n + 1 : f[i - 1] \in Positive => f[i] \in Positive
    BY <1>2
  <2> HIDE DEF Positive
  <2> QED
    BY <2>1, LoopStays
<1>5. 0 \in 0 .. n + 1 /\ n \in 0 .. n + 1 /\ n + 1 \in 1 .. n + 1
  OBVIOUS
<1> QED
  BY <1>2, <1>3, <1>4, <1>5

\* What is less than 1 at first, and then twice as much or one more, is less than 2^k.
LEMMA HornerBound ==
  ASSUME NEW n \in Nat, NEW d, Doubles(d, n), NEW f, f[0] = 0,
         \A k \in 1 .. n : f[k] \in {2 * f[k - 1], 2 * f[k - 1] + 1}
  PROVE  \A k \in 0 .. n : f[k] \in 0 .. d[k] - 1
<1> DEFINE fits == [k \in 0 .. n |-> IF f[k] \in 0 .. d[k] - 1 THEN 1 ELSE 0]
<1>1. d \in [0 .. n -> Nat] /\ d[0] = 1 /\ \A i \in 1 .. n : d[i] = 2 * d[i - 1]
  BY DEF Doubles
<1>2. fits[0] \in {1}
  BY <1>1
<1>3. ASSUME NEW k \in 1 .. n, fits[k - 1] \in {1}
      PROVE  fits[k] \in {1}
  <2>1. k \in 0 .. n /\ k - 1 \in 0 .. n
    OBVIOUS
  <2>2. f[k - 1] \in 0 .. d[k - 1] - 1 /\ d[k - 1] \in Nat /\ d[k] = 2 * d[k - 1]
    BY <1>1, <1>3, <2>1
  <2>3. f[k] \in {2 * f[k - 1], 2 * f[k - 1] + 1}
    OBVIOUS
  <2> HIDE DEF fits
  <2>4. f[k] \in 0 .. d[k] - 1
    BY <2>2, <2>3
  <2> QED
    BY <2>1, <2>4 DEF fits
<1> HIDE DEF fits
<1>4. \A k \in 0 .. n : fits[k] \in {1}
  <2> DEFINE One == {1}
  <2>1. fits[0] \in One /\ \A k \in 1 .. n : fits[k - 1] \in One => fits[k] \in One
    BY <1>2, <1>3
  <2> HIDE DEF One
  <2>2. \A k \in 0 .. n : fits[k] \in One
    BY <2>1, LoopStays
  <2> QED
    BY <2>2 DEF One
<1> QED
  BY <1>4 DEF fits

\* f is the value at every turn of the loop that starts at the highest bit.
Turns(f, n, places) ==
  /\ Value(places, n) = f[n] /\ f[0] = 0
  /\ \A k \in 1 .. n : f[k] = 2 * f[k - 1] + BitAt(places[n - k])

\* The value grows by the highest of the bits that are left.
LEMMA ValueTurns ==
  ASSUME NEW n \in Nat, NEW places
  PROVE  \E f : Turns(f, n, places)
<1> DEFINE Is(l) == l = [i \in 0 .. n |->
                           IF i = 0 THEN 0 ELSE 2 * l[i - 1] + BitAt(places[n - i])]
           highest == CHOOSE l : Is(l)
<1>1. Value(places, n) = highest[n]
  BY DEF Value
<1>2. \A place : BitAt(place) \in {0, 1}
  BY DEF BitAt
<1>3. \E l : Is(l)
  <2> DEFINE g == [kx \in (1 .. n) \X Nat |-> 2 * kx[2] + BitAt(places[n - kx[1]])]
  <2>1. g \in [(1 .. n) \X Nat -> Nat]
    <3>1. ASSUME NEW kx \in (1 .. n) \X Nat
          PROVE  2 * kx[2] + BitAt(places[n - kx[1]]) \in Nat
      <4>1. kx[2] \in Nat /\ BitAt(places[n - kx[1]]) \in {0, 1}
        BY <1>2
      <4> QED
        BY <4>1
    <3> QED
      BY <3>1
  <2>2. PICK f \in [0 .. n -> Nat] : f[0] = 0 /\ \A k \in 1 .. n : f[k] = g[<<k, f[k - 1]>>]
    <3> HIDE DEF g
    <3>1. HasSeries(Nat, g, 0, n)
      BY <2>1, SeriesExists
    <3> QED
      BY <3>1 DEF HasSeries
  <2>3. \A k \in 1 .. n : f[k] = 2 * f[k - 1] + BitAt(places[n - k])
    <3>1. ASSUME NEW k \in 1 .. n PROVE f[k] = 2 * f[k - 1] + BitAt(places[n - k])
      <4>1. f[k - 1] \in Nat
        BY <2>2
      <4>2. <<k, f[k - 1]>> \in (1 .. n) \X Nat
        BY <4>1
      <4> QED
        BY <2>2, <4>2
    <3> QED
      BY <3>1
  <2>4. \A i \in 0 .. n : f[i] = IF i = 0 THEN 0 ELSE 2 * f[i - 1] + BitAt(places[n - i])
    BY <2>2, <2>3
  <2>5. Is(f)
    BY <2>2, <2>4
  <2> QED
    BY <2>5
<1>4. Is(highest)
  BY <1>3
<1> HIDE DEF highest
<1>5. highest[0] = 0 /\ \A k \in 1 .. n :
        highest[k] = 2 * highest[k - 1] + BitAt(places[n - k])
  BY <1>4
<1>6. Turns(highest, n, places)
  BY <1>1, <1>5 DEF Turns
<1> QED
  BY <1>6

LEMMA ValueBound ==
  ASSUME NEW n \in Nat, NEW d, Doubles(d, n), NEW places
  PROVE  Value(places, n) \in 0 .. d[n] - 1
<1>1. \A place : BitAt(place) \in {0, 1}
  BY DEF BitAt
<1>a. PICK highest : Turns(highest, n, places)
  BY ValueTurns
<1>2. /\ Value(places, n) = highest[n] /\ highest[0] = 0
      /\ \A k \in 1 .. n : highest[k] = 2 * highest[k - 1] + BitAt(places[n - k])
  BY <1>a DEF Turns
<1>3. \A k \in 1 .. n : highest[k - 1] \in Nat => highest[k] \in Nat
  BY <1>1, <1>2
<1>4. \A k \in 0 .. n : highest[k] \in Nat
  <2>1. highest[0] \in Nat
    BY <1>2
  <2> QED
    BY <1>3, <2>1, LoopStays
<1>5. ASSUME NEW k \in 1 .. n
      PROVE  highest[k] \in {2 * highest[k - 1], 2 * highest[k - 1] + 1}
  <2>1. BitAt(places[n - k]) \in {0, 1} /\ highest[k - 1] \in Nat
    BY <1>1, <1>4
  <2> QED
    BY <1>2, <2>1
<1>6. \A k \in 0 .. n : highest[k] \in 0 .. d[k] - 1
  BY <1>2, <1>5, HornerBound
<1> QED
  BY <1>2, <1>6

\* The number of entries is a power of 2.
LEMMA EntriesDouble ==
  ASSUME NEW book, book.codeword_len \in Nat
  PROVE  \E d : Doubles(d, book.codeword_len) /\ num_entries_(book) = d[book.codeword_len]
<1>1. PICK d : Doubles(d, book.codeword_len)
  BY DoublesExist
<1> QED
  BY <1>1, DoubledIs DEF num_entries_

\* A codeword that is read has an entry.
LEMMA ScalarHasEntry ==
  ASSUME NEW total, NEW r \in Readers(total), NEW book, book.codeword_len \in Nat
  PROVE  decodeScalar(r, book).value \in 0 .. num_entries_(book) - 1
<1> DEFINE n == book.codeword_len
           S == Readings(total)
           base == [value |-> 0, reader |-> r]
<1>1. PICK read :
        /\ decodeScalar(r, book) = read[n] /\ read[0] = base
        /\ \A i \in 0 .. n : read[i] \in S
        /\ \A i \in 1 .. n : read[i] = NextBit(read[i - 1], readBit(read[i - 1].reader))
  BY ScalarTurns
<1> HIDE DEF S
<1>4. /\ read[0] = base
      /\ \A i \in 1 .. n : read[i] = NextBit(read[i - 1], readBit(read[i - 1].reader))
  BY <1>1
<1>5. \A i \in 0 .. n : read[i] \in S
  BY <1>1
<1> DEFINE f == [i \in 0 .. n |-> read[i].value]
<1>6. f[0] = 0
  BY <1>4
<1>7. ASSUME NEW i \in 1 .. n
      PROVE  f[i] \in {2 * f[i - 1], 2 * f[i - 1] + 1}
  <2>1. i \in 0 .. n /\ i - 1 \in 0 .. n
    OBVIOUS
  <2>2. read[i - 1].reader \in Readers(total) /\ read[i - 1].value \in Nat
    BY <1>5, <2>1 DEF S, Readings
  <2>3. readBit(read[i - 1].reader).value \in {0, 1}
    BY <2>2, ReadBit
  <2>4. read[i].value = 2 * read[i - 1].value + readBit(read[i - 1].reader).value
    <3>1. read[i] = NextBit(read[i - 1], readBit(read[i - 1].reader))
      BY <1>4
    <3>2. \A before, bit : NextBit(before, bit).value = 2 * before.value + bit.value
      BY DEF NextBit
    <3> QED
      BY <3>1, <3>2
  <2> QED
    BY <2>1, <2>2, <2>3, <2>4
<1>8. PICK d : Doubles(d, n) /\ num_entries_(book) = d[n]
  BY EntriesDouble
<1> HIDE DEF f
<1>9. \A i \in 0 .. n : f[i] \in 0 .. d[i] - 1
  BY <1>6, <1>7, <1>8, HornerBound
<1>10. f[n] = read[n].value
  BY DEF f
<1> QED
  BY <1>1, <1>8, <1>9, <1>10

\* So have the codewords of a partition's vectors.
LEMMA EntriesHaveVectors ==
  ASSUME NEW total, reader \in Readers(total),
         NEW book, book.codeword_len \in Nat, NumVectors(book) \in Nat,
         NEW k \in 1 .. NumVectors(book)
  PROVE  Entries(book)[k].value \in 0 .. num_entries_(book) - 1
<1>1. k - 1 \in 0 .. NumVectors(book)
  OBVIOUS
<1>2. Entries(book)[k - 1].reader \in Readers(total)
  BY <1>1, EntriesTurns DEF Readings
<1>3. Entries(book)[k] = decodeScalar(Entries(book)[k - 1].reader, book)
  BY EntriesTurns
<1> QED
  BY <1>2, <1>3, ScalarHasEntry

-----------------------------------------------------------------------------
(***************************************************************************)
(* Any packet.  With a sound setup none of the refusals of parse_audio can *)
(* be reached but three: of what is not audio, of its place, of a floor.   *)
(***************************************************************************)

\* Before anything is read.
AtBegin ==
  stage = "head" =>
    \E k \in Nat : DOMAIN packet = 0 .. 8 * k - 1 /\ reader = NewReader(k)

ChannelOK == channel \in 0 .. AudioChannels

SubmapOK == Decoding => submap \in DOMAIN mapping(mode_idx).submaps

\* decode does not fail.
NoFailure == Sound => rstage # "failed"

AnyInvariant ==
  /\ ReadInvariant /\ LoopsSilent
  /\ AtBegin /\ ChannelOK /\ SubmapOK
  /\ NoFailure
  /\ RefusedForAReason

FlagAt(flag) == flag \in DOMAIN packet /\ packet[flag] = 1

\* A flag that is read as 1 is in the packet.
LEMMA FlagIsThere ==
  ASSUME ReaderOK, readBit(reader).value = 1
  PROVE  FlagAt(reader.asked)
<1>1. PICK k \in Nat : DOMAIN packet = 0 .. 8 * k - 1 /\ reader \in Readers(8 * k)
  BY DEF ReaderOK
<1> DEFINE total == 8 * k
           asked == reader.asked
<1>2. WellFormed(reader, total) /\ asked \in Nat
  BY <1>1 DEF Readers
<1> HIDE DEF total
<1>3. Places(reader, 1) =
        [i \in 0 .. 1 - 1 |-> IF asked + i < total THEN asked + i ELSE NoPlace]
  <2>1. 1 \in Nat \ {0}
    OBVIOUS
  <2> QED
    BY <1>2, <2>1, PlacesInOrder, Zenon
<1>4. Places(reader, 1)[0] = IF asked < total THEN asked ELSE NoPlace
  BY <1>2, <1>3
<1>5. Places(reader, 1)[0] # NoPlace /\ packet[Places(reader, 1)[0]] = 1
  BY DEF readBit, BitAt
<1>6. asked < total /\ packet[asked] = 1
  BY <1>4, <1>5
<1> QED
  BY <1>1, <1>2, <1>6 DEF total, FlagAt

\* A floor is refused only with its flag.
LEMMA RefusesWithFlag ==
  ASSUME ReadInvariant, DecodeFloor, stage' = "refused"
  PROVE  FlagAt(reader'.asked - FloorBits - 1)
<1> DEFINE used == readBit(reader)
           curve == readBits(used.reader, FloorBits)
<1>1. used.value = 1 /\ reader' = curve.reader
  BY DEF DecodeFloor
<1>2. reader.asked \in Nat
  BY DEF ReadInvariant, ReaderOK, Readers
<1>3. used.reader.asked = reader.asked + 1
  BY DEF readBit, AfterBits, ReaderAfter
<1>4. FlagAt(reader.asked)
  BY <1>1, FlagIsThere DEF ReadInvariant
<1> HIDE DEF used
<1>5. curve.reader.asked = used.reader.asked + FloorBits
  BY DEF readBits, AfterBits, ReaderAfter
<1>6. reader'.asked - FloorBits - 1 = reader.asked
  <2> HIDE DEF curve
  <2> QED
    BY <1>1, <1>2, <1>3, <1>5, AudioAssumption
<1> QED
  BY <1>4, <1>6

\* The first bit of a packet is the one that is read first.
LEMMA FirstBit ==
  ASSUME NEW k \in Nat, DOMAIN packet = 0 .. 8 * k - 1,
         readBit(NewReader(k)).value # 0
  PROVE  0 \in DOMAIN packet /\ packet[0] = 1
<1> DEFINE place == Places(NewReader(k), 1)[0]
<1>1. place # NoPlace /\ packet[place] = 1
  BY DEF readBit, BitAt
<1>2. Split(NewReader(k), 1) = [head |-> 0, num |-> 1, len |-> k, refill |-> k > 0]
  <2>1. \A c \in {1, 2, 4, 8} :
          ReadWords([num |-> 1, len |-> k], c) = [num |-> 1, len |-> k]
    <3> SUFFICES ASSUME NEW c \in {1, 2, 4, 8}
                 PROVE  ReadWords([num |-> 1, len |-> k], c) = [num |-> 1, len |-> k]
      OBVIOUS
    <3>1. 1 \div (8 * c) = 0 /\ k \div c \in Nat
      OBVIOUS
    <3>2. Smaller(1 \div (8 * c), k \div c) = 0
      BY <3>1 DEF Smaller
    <3> QED
      BY <3>2 DEF ReadWords, Without
  <2>2. ReadWhole(1, k) = [num |-> 1, len |-> k]
    BY <2>1 DEF ReadWhole
  <2>3. Smaller(1, 0) = 0 /\ 1 - 0 = 1
    BY DEF Smaller
  <2> QED
    BY <2>2, <2>3 DEF Split, SplitAt, Parts, NewReader
<1>3. place = IF k > 0 THEN 0 ELSE NoPlace
  <2> DEFINE r == NewReader(k)
             s == Split(r, 1)
  <2>1. r.data_ = 0 /\ r.len_ = k
    BY DEF NewReader
  <2>2. s.head = 0 /\ s.num = 1 /\ s.len = k /\ s.refill = (k > 0)
    BY <1>2
  <2> HIDE DEF r, s
  <2>3. PlacesOf(r, 1, s)[0] = IF s.refill THEN 8 * (r.data_ + r.len_ - s.len) + 0 ELSE NoPlace
    BY <2>2 DEF PlacesOf
  <2>4. 8 * (r.data_ + r.len_ - s.len) + 0 = 0
    BY <2>1, <2>2
  <2> QED
    BY <2>2, <2>3, <2>4 DEF Places, r, s
<1> HIDE DEF place
<1>4. k > 0 /\ packet[0] = 1
  BY <1>1, <1>3
<1> QED
  BY <1>4

\* A number of as many bits as the number of the last mode is that of a mode.
LEMMA NumberIsMode ==
  ASSUME modes \in Setups, Sound, NEW places
  PROVE  LET bits == highest_bit(Cardinality(DOMAIN modes) - 1)
         IN bits # 0 /\ Value(places, bits) \in DOMAIN modes
<1> DEFINE v == Cardinality(DOMAIN modes) - 1
           bits == highest_bit(v)
<1>1. v \in 0 .. 63 /\ DOMAIN modes = 0 .. v
  BY ModesCount
<1>2. PICK n \in 1 .. 6 : Cardinality(DOMAIN modes) = 2 ^ n
  BY DEF Sound
<1>3. v = 2 ^ n - 1
  BY <1>2
<1> HIDE DEF v
<1>4. bits = Log(v)
  BY <1>1, HighestBit
<1> HIDE DEF bits
<1>5. bits = n
  <2>1. CASE n = 1
    <3>1. v = 1
      BY <1>3, <2>1
    <3> QED
      BY <1>4, <2>1, <3>1 DEF Log
  <2>2. CASE n = 2
    <3>1. v = 3
      BY <1>3, <2>2
    <3> QED
      BY <1>4, <2>2, <3>1 DEF Log
  <2>3. CASE n = 3
    <3>1. v = 7
      BY <1>3, <2>3
    <3> QED
      BY <1>4, <2>3, <3>1 DEF Log
  <2>4. CASE n = 4
    <3>1. v = 15
      BY <1>3, <2>4
    <3> QED
      BY <1>4, <2>4, <3>1 DEF Log
  <2>5. CASE n = 5
    <3>1. v = 31
      BY <1>3, <2>5
    <3> QED
      BY <1>4, <2>5, <3>1 DEF Log
  <2>6. CASE n = 6
    <3>1. v = 63
      BY <1>3, <2>6
    <3> QED
      BY <1>4, <2>6, <3>1 DEF Log
  <2> QED
    BY <2>1, <2>2, <2>3, <2>4, <2>5, <2>6
<1>6. PICK d : Doubles(d, n)
  BY DoublesExist
<1>7. d[n] = 2 ^ n
  <2>1. d[0] = 1 /\ \A i \in 1 .. n : d[i] = 2 * d[i - 1]
    BY <1>6 DEF Doubles
  <2>2. n >= 1 => d[1] = 2
    BY <2>1
  <2>3. n >= 2 => d[2] = 4
    BY <2>1, <2>2
  <2>4. n >= 3 => d[3] = 8
    BY <2>1, <2>3
  <2>5. n >= 4 => d[4] = 16
    BY <2>1, <2>4
  <2>6. n >= 5 => d[5] = 32
    BY <2>1, <2>5
  <2>7. n >= 6 => d[6] = 64
    BY <2>1, <2>6
  <2>8. CASE n = 1
    BY <2>2, <2>8
  <2>9. CASE n = 2
    BY <2>3, <2>9
  <2>10. CASE n = 3
    BY <2>4, <2>10
  <2>11. CASE n = 4
    BY <2>5, <2>11
  <2>12. CASE n = 5
    BY <2>6, <2>12
  <2>13. CASE n = 6
    BY <2>7, <2>13
  <2> QED
    BY <2>8, <2>9, <2>10, <2>11, <2>12, <2>13
<1>8. Value(places, n) \in 0 .. v
  <2>1. Value(places, n) \in 0 .. d[n] - 1
    BY <1>6, ValueBound
  <2> QED
    BY <1>3, <1>7, <2>1
<1>9. bits # 0 /\ Value(places, bits) \in DOMAIN modes
  BY <1>1, <1>5, <1>8
<1> QED
  BY <1>9 DEF bits, v

\* A setup stays as sound as it is.
LEMMA SoundStays ==
  ASSUME [ANext]_avars
  PROVE  Sound' <=> Sound
<1>1. modes' = modes
  BY PacketStays
<1> QED
  BY <1>1 DEF Sound, mapping

LEMMA AtBeginKeeps ==
  ASSUME AtBegin, [ANext]_avars
  PROVE  AtBegin'
<1>1. CASE ANext
  <2>1. stage' # "head"
    BY <1>1 DEF ANext, ReadHead, DecodeFloor, PropagateNonzero, StartResidue,
       DecodeResidue, FailResidue, FinishResidue, PushResidues, InverseCoupling, DotProduct
  <2> QED
    BY <2>1 DEF AtBegin
<1>2. CASE UNCHANGED avars
  BY <1>2 DEF avars, given, AtBegin
<1> QED
  BY <1>1, <1>2

LEMMA ChannelKeeps ==
  ASSUME ChannelOK, [ANext]_avars
  PROVE  ChannelOK'
<1>1. CASE DecodeFloor
  <2>1. channel < AudioChannels /\ channel' \in {channel, channel + 1}
    BY <1>1 DEF DecodeFloor, floors
  <2> QED
    BY <2>1, AudioAssumption DEF ChannelOK
<1>2. CASE \/ ReadHead \/ PropagateNonzero \/ StartResidue \/ DecodeResidue
           \/ FailResidue \/ FinishResidue \/ PushResidues \/ InverseCoupling
           \/ DotProduct \/ UNCHANGED avars
  <2>1. channel' = channel
    BY <1>2 DEF ReadHead, PropagateNonzero, StartResidue, DecodeResidue, FailResidue,
       FinishResidue, PushResidues, InverseCoupling, DotProduct, avars, floors
  <2> QED
    BY <2>1 DEF ChannelOK
<1> QED
  BY <1>1, <1>2 DEF ANext

LEMMA SubmapKeeps ==
  ASSUME LoopsSilent, SubmapOK, [ANext]_avars
  PROVE  SubmapOK'
<1>1. CASE StartResidue
  <2>1. /\ submap \in DOMAIN mapping(mode_idx).submaps
        /\ modes' = modes /\ mode_idx' = mode_idx /\ submap' = submap
    BY <1>1, PacketStays DEF StartResidue
  <2> QED
    BY <2>1 DEF SubmapOK, mapping
<1>2. CASE DecodeResidue
  <2>1. Decoding /\ modes' = modes /\ mode_idx' = mode_idx /\ submap' = submap
    BY <1>2 DEF DecodeResidue, ResidueNext, NextClassword, Classify,
       DecodePartition, RefuseVector, Decoding
  <2> QED
    BY <2>1 DEF SubmapOK, mapping
<1>3. CASE FinishResidue \/ PushResidues \/ FailResidue
  <2>1. ~Decoding'
    BY <1>3 DEF FinishResidue, PushResidues, FailResidue, loops, Decoding
  <2> QED
    BY <2>1 DEF SubmapOK
<1>4. CASE ReadHead \/ DecodeFloor \/ PropagateNonzero \/ InverseCoupling \/ DotProduct
  <2>1. stage # "residues" /\ rstage' = rstage
    BY <1>4 DEF ReadHead, DecodeFloor, PropagateNonzero, InverseCoupling, DotProduct, loops
  <2> QED
    BY <2>1 DEF LoopsSilent, SubmapOK, Decoding
<1>5. CASE UNCHANGED avars
  BY <1>5 DEF avars, given, loops, SubmapOK, Decoding, mapping
<1> QED
  BY <1>1, <1>2, <1>3, <1>4, <1>5 DEF ANext

\* The class of a partition has no codebook without vectors.
LEMMA VectorsAreThere ==
  ASSUME Sound, ReadInvariant, LoopsSilent, SubmapOK, DecodeResidue
  PROVE  ~RefuseVector
<1>1. SUFFICES ASSUME RefuseVector PROVE FALSE
  OBVIOUS
<1>2. rstage = "partition" /\ vq_book # NoBook /\ Codebooks[vq_book].lookup_type = 0
  BY <1>1 DEF RefuseVector, NoVectors
<1> DEFINE m == mapping(mode_idx)
           c == classifications[ch][partition_count]
<1>3. /\ stage = "residues" /\ residue = m.submaps[submap].residue
      /\ submap \in DOMAIN m.submaps
  BY <1>2 DEF LoopsSilent, SubmapOK, Decoding
<1>4. mode_idx \in DOMAIN modes
  BY <1>3 DEF ReadInvariant, ModeOK
<1>5. \A d \in DOMAIN residue.books : \A p \in DOMAIN residue.books[d] :
        residue.books[d][p] # NoBook =>
          Codebooks[residue.books[d][p]].lookup_type # 0
  BY <1>3, <1>4 DEF Sound
<1>6. ParsedResidue(residue) /\ VectorsOK /\ ClassesOK /\ CountersOK
  BY <1>2 DEF ReadInvariant, LoopsOK, Decoding
<1>7. c \in DOMAIN residue.books /\ pass \in DOMAIN residue.books[c]
  <2>1. ch \in DOMAIN classifications /\ partition_count \in DOMAIN classifications[ch]
    BY <1>2, <1>6, ClassIsThere
  <2>2. c \in 0 .. residue.num_classifications - 1
    BY <1>6, <2>1 DEF ClassesOK
  <2>3. pass \in 0 .. Passes - 1
    BY <1>6 DEF CountersOK
  <2> HIDE DEF c
  <2> QED
    BY <1>6, <2>2, <2>3 DEF ParsedResidue
<1> QED
  BY <1>2, <1>5, <1>7 DEF vq_book

\* A submap has channels, so decode begins.
LEMMA BeginsWithChannels ==
  ASSUME Sound, ReadInvariant, StartResidue
  PROVE  rstage' # "failed"
<1> DEFINE m == mapping(mode_idx)
           r == m.submaps[submap].residue
           members == Members(m, submap)
           mine == {c \in Channels : m.muxs[c] = submap}
           n == Cardinality(mine)
           used == [j \in DOMAIN members |-> floor_output_used[members[j]]]
           len == decode_len(modes, mode_idx)
<1>1. submap \in DOMAIN m.submaps /\ BeginResidue(r, used, len)
  BY DEF StartResidue
<1>2. mode_idx \in DOMAIN modes
  BY DEF ReadInvariant, ModeOK, StartResidue
<1>3. PICK c \in Channels : m.muxs[c] = submap
  <2>1. mine # {} \/ Cardinality(mine) = 1
    BY <1>1, <1>2 DEF Sound
  <2>2. mine # {}
    BY <2>1, FS_EmptySet
  <2> QED
    BY <2>2
<1>4. DOMAIN used = DOMAIN Members(m, m.muxs[c])
  BY <1>3
<1>5. DOMAIN used # {}
  BY <1>4, MemberExists
<1>6. n \in Nat /\ DOMAIN used = 0 .. n - 1
  BY MembersCount
<1> HIDE DEF used, n, r, len
<1>7. Cardinality(DOMAIN used) = n /\ n # 0
  BY <1>5, <1>6, CountOf
<1>8. rstage' = "pass"
  BY <1>1, <1>7 DEF BeginResidue
<1> QED
  BY <1>8

LEMMA NoFailureKeeps ==
  ASSUME ReadInvariant, LoopsSilent, SubmapOK, NoFailure, [ANext]_avars
  PROVE  NoFailure'
<1>1. SUFFICES ASSUME Sound PROVE rstage' # "failed"
  BY SoundStays DEF NoFailure
<1>2. rstage # "failed"
  BY <1>1 DEF NoFailure
<1>3. CASE StartResidue
  BY <1>1, <1>3, BeginsWithChannels
<1>4. CASE DecodeResidue
  <2>1. NextClassword \/ Classify \/ DecodePartition
    BY <1>1, <1>4, VectorsAreThere DEF DecodeResidue, ResidueNext
  <2> QED
    BY <1>2, <2>1 DEF NextClassword, Classify, DecodePartition
<1>5. CASE FinishResidue
  BY <1>5 DEF FinishResidue
<1>6. CASE \/ ReadHead \/ DecodeFloor \/ PropagateNonzero \/ FailResidue
           \/ PushResidues \/ InverseCoupling \/ DotProduct \/ UNCHANGED avars
  <2>1. rstage' = rstage
    BY <1>6 DEF ReadHead, DecodeFloor, PropagateNonzero, FailResidue,
       PushResidues, InverseCoupling, DotProduct, avars, loops
  <2> QED
    BY <1>2, <2>1
<1> QED
  BY <1>3, <1>4, <1>5, <1>6 DEF ANext

\* What is refused is not audio.
LEMMA RefusesOthers ==
  ASSUME AnyInvariant, Sound, [ANext]_avars,
         stage' \in {"failed", "aborted", "undefined"}
  PROVE  0 \in DOMAIN packet /\ packet[0] = 1
<1>1. /\ ReadInvariant /\ AtBegin /\ ChannelOK /\ rstage # "failed"
      /\ RefusedForAReason
  BY DEF AnyInvariant, NoFailure
<1>2. CASE stage \in {"failed", "aborted", "undefined"}
  BY <1>1, <1>2 DEF RefusedForAReason
<1>3. CASE ReadHead
  <2> DEFINE bits == highest_bit(Cardinality(DOMAIN modes) - 1)
  <2>1. PICK k \in Nat : DOMAIN packet = 0 .. 8 * k - 1 /\ reader = NewReader(k)
    BY <1>1, <1>3 DEF AtBegin, ReadHead
  <2>2. modes \in Setups
    BY <1>1 DEF ReadInvariant
  <2>3. /\ bits # 0
        /\ \A r : readBits(r, bits).value \in DOMAIN modes
    BY <2>2, NumberIsMode DEF readBits
  <2> HIDE DEF bits
  <2>4. readBit(reader).value # 0
    <3>1. SUFFICES ASSUME readBit(reader).value = 0 PROVE FALSE
      OBVIOUS
    <3>2. stage' \in {"floors", "misplaced"}
      BY <1>3, <2>3, <3>1 DEF ReadHead, bits
    <3> QED
      BY <3>2
  <2> QED
    BY <2>1, <2>4, FirstBit
<1>4. CASE DecodeFloor
  <2> DEFINE m == mapping(mode_idx)
  <2>1. stage = "floors" /\ channel \in Channels
    BY <1>1, <1>4, AudioAssumption DEF DecodeFloor, ChannelOK, Channels
  <2>2. modes \in Setups /\ mode_idx \in DOMAIN modes
    BY <1>1, <2>1 DEF ReadInvariant, ModeOK
  <2>3. m.muxs[channel] \in DOMAIN m.submaps
    BY <2>1, <2>2, MappingType
  <2>4. m.submaps[m.muxs[channel]].floor # 0
    <3>1. \A i \in DOMAIN modes : \A s \in DOMAIN mapping(i).submaps :
            mapping(i).submaps[s].floor = 1
      BY DEF Sound
    <3> QED
      BY <2>2, <2>3, <3>1
  <2>5. stage' \in {stage, "refused"}
    BY <1>4, <2>4 DEF DecodeFloor
  <2> QED
    BY <2>1, <2>5
<1>5. CASE FailResidue
  BY <1>1, <1>5 DEF FailResidue
<1>6. CASE \/ PropagateNonzero \/ StartResidue \/ DecodeResidue \/ FinishResidue
           \/ PushResidues \/ InverseCoupling \/ DotProduct
  <2>1. /\ stage \in {"floors", "residues", "coupling"}
        /\ stage' \in {stage, "residues", "coupling", "done"}
    BY <1>6 DEF PropagateNonzero, StartResidue, DecodeResidue, FinishResidue,
       PushResidues, InverseCoupling, DotProduct
  <2> QED
    BY <2>1
<1>7. CASE UNCHANGED avars
  BY <1>2, <1>7 DEF avars
<1> QED
  BY <1>3, <1>4, <1>5, <1>6, <1>7 DEF ANext

LEMMA BeginInit ==
  AInit => AtBegin
<1> SUFFICES ASSUME AInit PROVE AtBegin
  OBVIOUS
<1>1. PICK k \in Nat : DOMAIN packet = 0 .. 8 * k - 1
  BY ReadInit DEF ReadInvariant, ReaderOK
<1>2. 8 * k \in Nat
  OBVIOUS
<1>3. Cardinality(DOMAIN packet) = 8 * k
  BY <1>1, <1>2, CountOf
<1>4. Cardinality(DOMAIN packet) \div 8 = k
  BY <1>3
<1> QED
  BY <1>1, <1>4 DEF AtBegin, AInit

\* What is refused stays so.
LEMMA FlagsKeep ==
  ASSUME AnyInvariant, [ANext]_avars, stage' = "refused"
  PROVE  FlagAt(reader'.asked - FloorBits - 1)
<1>1. CASE DecodeFloor
  BY <1>1, RefusesWithFlag DEF AnyInvariant
<1>2. CASE UNCHANGED avars
  BY <1>2 DEF avars, AnyInvariant, RefusedForAReason, FlagAt
<1>3. CASE \/ ReadHead \/ PropagateNonzero \/ StartResidue \/ DecodeResidue
           \/ FailResidue \/ FinishResidue \/ PushResidues \/ InverseCoupling
           \/ DotProduct
  BY <1>3 DEF ReadHead, PropagateNonzero, StartResidue, DecodeResidue, FailResidue,
     FinishResidue, PushResidues, InverseCoupling, DotProduct
<1> QED
  BY <1>1, <1>2, <1>3 DEF ANext

(***************************************************************************)
(* With a sound setup parse_audio gives up, before its synthesis, on what  *)
(* is not an audio packet, when the packet's place is refused, and when    *)
(* floor 1 refuses amplitudes, for which the packet has the flag: reading  *)
(* on behind the end is not an error (Utils.hpp:338), and no other check   *)
(* of parse_audio fails.                                                   *)
(***************************************************************************)
THEOREM NothingElseIsRefused ==
  ASpec => []RefusedForAReason
<1>1. AInit => AnyInvariant
  <2>1. SUFFICES ASSUME AInit PROVE AnyInvariant
    OBVIOUS
  <2>2. /\ stage = "head" /\ rstage = "none" /\ channel = 0
        /\ reader = NewReader(Cardinality(DOMAIN packet) \div 8)
    BY <2>1 DEF AInit
  <2>3. ReadInvariant
    BY <2>1, ReadInit
  <2>4. AtBegin
    BY <2>1, BeginInit
  <2> QED
    BY <2>2, <2>3, <2>4, AudioAssumption
       DEF AnyInvariant, LoopsSilent, ChannelOK, SubmapOK, Decoding, NoFailure,
           RefusedForAReason
<1>2. AnyInvariant /\ [ANext]_avars => AnyInvariant'
  <2>1. SUFFICES ASSUME AnyInvariant, [ANext]_avars PROVE AnyInvariant'
    OBVIOUS
  <2>2. /\ ReadInvariant /\ LoopsSilent /\ AtBegin /\ ChannelOK /\ SubmapOK
        /\ NoFailure
    BY <2>1 DEF AnyInvariant
  <2>3. RefusedForAReason'
    <3>1. packet' = packet /\ FloorBits' = FloorBits
      BY <2>1, PacketStays
    <3>2. ASSUME Sound', stage' \in {"failed", "aborted", "undefined"}
          PROVE  0 \in DOMAIN packet /\ packet[0] = 1
      BY <2>1, <3>2, RefusesOthers, SoundStays
    <3>3. ASSUME stage' = "refused" PROVE FlagAt(reader'.asked - FloorBits - 1)
      BY <2>1, <3>3, FlagsKeep
    <3> QED
      BY <3>1, <3>2, <3>3 DEF RefusedForAReason, FlagAt
  <2> QED
    BY <2>1, <2>2, <2>3, ReadNext, LoopsStaySilent, AtBeginKeeps, ChannelKeeps,
       SubmapKeeps, NoFailureKeeps DEF AnyInvariant
<1>3. AnyInvariant => RefusedForAReason
  BY DEF AnyInvariant
<1> QED
  BY <1>1, <1>2, <1>3, PTL DEF ASpec

-----------------------------------------------------------------------------
(***************************************************************************)
(* Types: what comes out are vectors of numbers, each as long as the block *)
(* of its mode demands.  The numbers are those of the codebooks' vectors.  *)
(***************************************************************************)

Vector(len) == [0 .. len - 1 -> Int]

\* The codebooks that have vectors.
VQBooks == {b \in DOMAIN Codebooks : Codebooks[b].lookup_type # 0}

\* l is what the loop over index_divisor makes.
DivisorsOf(l, size, n) ==
  l = [dim \in 0 .. n |-> IF dim = 0 THEN 1 ELSE l[dim - 1] * size]

\* l has the components of a vector, each added to those before it or alone.
SumsOf(l, value, n, sequence_p) ==
  l = [dim \in 0 .. n |->
         value[dim] + (IF sequence_p /\ dim > 0 THEN l[dim - 1] ELSE 0)]

\* Powers of a size that is not 0.
LEMMA DivisorType ==
  ASSUME NEW size \in Nat \ {0}, NEW n \in Nat
  PROVE  /\ \E l : DivisorsOf(l, size, n)
         /\ \A l : DivisorsOf(l, size, n) => \A dim \in 0 .. n : l[dim] \in Nat \ {0}
<1> DEFINE g == [x \in Nat \ {0} |-> x * size]
<1>1. g \in [Nat \ {0} -> Nat \ {0}] /\ 1 \in Nat \ {0}
  <2>1. \A x \in Nat \ {0} : x * size \in Nat \ {0}
    OBVIOUS
  <2> QED
    BY <2>1
<1>2. \E l : DivisorsOf(l, size, n)
  <2>1. PICK f \in [0 .. n -> Nat \ {0}] : f[0] = 1 /\ \A k \in 1 .. n : f[k] = g[f[k - 1]]
    <3> HIDE DEF g
    <3>1. HasLoop(Nat \ {0}, g, 1, n)
      BY <1>1, LoopExists
    <3> QED
      BY <3>1 DEF HasLoop
  <2>2. \A k \in 1 .. n : f[k] = f[k - 1] * size
    <3>1. ASSUME NEW k \in 1 .. n PROVE f[k] = f[k - 1] * size
      <4>1. f[k - 1] \in Nat \ {0}
        BY <2>1
      <4> QED
        BY <2>1, <4>1
    <3> QED
      BY <3>1
  <2>3. \A dim \in 0 .. n : f[dim] = IF dim = 0 THEN 1 ELSE f[dim - 1] * size
    BY <2>1, <2>2
  <2>4. DivisorsOf(f, size, n)
    BY <2>1, <2>3 DEF DivisorsOf
  <2> QED
    BY <2>4
<1>3. ASSUME NEW l, DivisorsOf(l, size, n)
      PROVE  \A dim \in 0 .. n : l[dim] \in Nat \ {0}
  <2> DEFINE S == Nat \ {0}
  <2>1. l[0] = 1 /\ \A k \in 1 .. n : l[k] = l[k - 1] * size
    BY <1>3 DEF DivisorsOf
  <2>2. l[0] \in S /\ \A k \in 1 .. n : l[k - 1] \in S => l[k] \in S
    BY <2>1
  <2> HIDE DEF S
  <2>3. \A dim \in 0 .. n : l[dim] \in S
    BY <2>2, LoopStays
  <2> QED
    BY <2>3 DEF S
<1> QED
  BY <1>2, <1>3

\* Sums of numbers, or numbers as they are.
LEMMA SumsType ==
  ASSUME NEW n \in Nat, NEW value, \A dim \in 0 .. n : value[dim] \in Int,
         NEW sequence_p
  PROVE  /\ \E l : SumsOf(l, value, n, sequence_p)
         /\ \A l : SumsOf(l, value, n, sequence_p) => \A dim \in 0 .. n : l[dim] \in Int
<1> DEFINE g == [kx \in (1 .. n) \X Int |->
                   value[kx[1]] + (IF sequence_p THEN kx[2] ELSE 0)]
<1>1. g \in [(1 .. n) \X Int -> Int] /\ value[0] \in Int
  <2>1. ASSUME NEW kx \in (1 .. n) \X Int
        PROVE  value[kx[1]] + (IF sequence_p THEN kx[2] ELSE 0) \in Int
    <3>1. kx[1] \in 0 .. n /\ kx[2] \in Int
      OBVIOUS
    <3> QED
      BY <3>1
  <2> QED
    BY <2>1
<1>2. \E l : SumsOf(l, value, n, sequence_p)
  <2>1. PICK f \in [0 .. n -> Int] :
          f[0] = value[0] /\ \A k \in 1 .. n : f[k] = g[<<k, f[k - 1]>>]
    <3> HIDE DEF g
    <3>1. HasSeries(Int, g, value[0], n)
      BY <1>1, SeriesExists
    <3> QED
      BY <3>1 DEF HasSeries
  <2>2. \A k \in 1 .. n : f[k] = value[k] + (IF sequence_p THEN f[k - 1] ELSE 0)
    <3>1. ASSUME NEW k \in 1 .. n
          PROVE  f[k] = value[k] + (IF sequence_p THEN f[k - 1] ELSE 0)
      <4>1. <<k, f[k - 1]>> \in (1 .. n) \X Int
        BY <2>1
      <4> QED
        BY <2>1, <4>1
    <3> QED
      BY <3>1
  <2>3. \A dim \in 0 .. n :
          f[dim] = value[dim] + (IF sequence_p /\ dim > 0 THEN f[dim - 1] ELSE 0)
    BY <2>1, <2>2
  <2>4. SumsOf(f, value, n, sequence_p)
    BY <2>1, <2>3 DEF SumsOf
  <2> QED
    BY <2>4
<1>3. ASSUME NEW l, SumsOf(l, value, n, sequence_p)
      PROVE  \A dim \in 0 .. n : l[dim] \in Int
  <2>1. /\ l[0] = value[0] + 0
        /\ \A k \in 1 .. n : l[k] = value[k] + (IF sequence_p THEN l[k - 1] ELSE 0)
    BY <1>3 DEF SumsOf
  <2>2. l[0] \in Int /\ \A k \in 1 .. n : l[k - 1] \in Int => l[k] \in Int
    BY <2>1
  <2> QED
    BY <2>2, LoopStays
<1> QED
  BY <1>2, <1>3

\* _buildVQ makes a vector of numbers for each entry.
LEMMA VectorsType ==
  ASSUME NEW b \in VQBooks,
         NEW entry \in 0 .. num_entries_(Codebooks[b]) - 1,
         NEW dim \in 0 .. Codebooks[b].dimensions - 1
  PROVE  Vectors[b][entry][dim] \in Int
<1> DEFINE book == Codebooks[b]
           d == book.dimensions
           size == Cardinality(DOMAIN book.multiplicands)
           divisor == CHOOSE l : l = [i \in 0 .. book.dimensions |->
                                        IF i = 0 THEN 1 ELSE l[i - 1] * size]
           at(i) == IF book.lookup_type = 1
                    THEN (entry \div divisor[i]) % size
                    ELSE entry * book.dimensions + i
           val(i) == book.multiplicands[at(i)] * book.delta + book.minimum
           vector == CHOOSE l : l = [i \in 0 .. book.dimensions - 1 |->
                       val(i) + (IF book.sequence_p /\ i > 0 THEN l[i - 1] ELSE 0)]
<1>1. /\ d \in Nat \ {0} /\ book.codeword_len \in Nat /\ book.lookup_type \in 1 .. 2
  BY ResidueAssumption DEF VQBooks
<1>2. /\ size \in Nat \ {0}
      /\ book.multiplicands \in [0 .. size - 1 -> Int]
      /\ book.lookup_type = 2 => size = num_entries_(book) * d
      /\ book.delta \in Int /\ book.minimum \in Int
  BY VectorsAssumption DEF VQBooks
<1>3. Vectors[b][entry][dim] = vector[dim]
  <2>1. Vectors[b] = lookup_table_(book)
    BY DEF Vectors, Table, VQBooks
  <2>2. lookup_table_(book)[entry] = [i \in 0 .. book.dimensions - 1 |-> vector[i]]
    BY DEF lookup_table_, Table
  <2> QED
    BY <2>1, <2>2
<1>4. \A i \in 0 .. d : divisor[i] \in Nat \ {0}
  <2>1. divisor = CHOOSE l : DivisorsOf(l, size, book.dimensions)
    BY DEF DivisorsOf
  <2> HIDE DEF divisor, size
  <2>2. DivisorsOf(divisor, size, d)
    BY <1>1, <1>2, <2>1, DivisorType
  <2> QED
    BY <1>1, <1>2, <2>2, DivisorType
<1> DEFINE number == num_entries_(book)
<1>5. number \in Nat
  <2>1. PICK f : Doubles(f, book.codeword_len) /\ number = f[book.codeword_len]
    BY <1>1, EntriesDouble
  <2> QED
    BY <1>1, <2>1 DEF Doubles
<1>6. entry \in 0 .. number - 1 /\ dim \in 0 .. d - 1
  OBVIOUS
<1>7. ASSUME NEW i \in 0 .. d - 1
      PROVE  at(i) \in 0 .. size - 1
  <2>1. i \in 0 .. d /\ entry \in Nat
    BY <1>1, <1>5
  <2>2. CASE book.lookup_type = 1
    <3>1. divisor[i] \in Nat \ {0}
      BY <1>4, <2>1
    <3> DEFINE q == entry \div divisor[i]
    <3>2. q \in Nat
      <4> DEFINE x == divisor[i]
      <4>1. x \in Nat \ {0}
        BY <3>1
      <4> HIDE DEF x
      <4>2. entry \div x \in Nat
        BY <2>1, <4>1
      <4> QED
        BY <4>2 DEF x
    <3> HIDE DEF q, size
    <3>3. q % size \in 0 .. size - 1
      BY <1>2, <3>2
    <3> QED
      BY <2>2, <3>3 DEF q
  <2>3. CASE book.lookup_type = 2
    <3>1. size = number * d
      BY <1>2, <2>3
    <3> HIDE DEF d, size, number
    <3>2. entry * d \in Nat /\ entry * d <= (number - 1) * d
      BY <1>1, <1>5, <1>6
    <3>3. (number - 1) * d = size - d
      BY <1>1, <1>5, <3>1
    <3> DEFINE x == entry * d
               y == (number - 1) * d
    <3>4. x \in Nat /\ x <= y /\ y = size - d
      BY <3>2, <3>3
    <3> HIDE DEF x, y
    <3>5. x + i \in 0 .. size - 1
      BY <1>1, <1>2, <3>4
    <3> QED
      BY <2>3, <3>5 DEF x, d
  <2> QED
    BY <1>1, <2>2, <2>3
<1> HIDE DEF at
<1>8. \A i \in 0 .. d - 1 : val(i) \in Int
  <2>1. ASSUME NEW i \in 0 .. d - 1 PROVE val(i) \in Int
    <3>1. book.multiplicands[at(i)] \in Int
      BY <1>2, <1>7
    <3> QED
      BY <1>2, <3>1
  <2> QED
    BY <2>1
<1> DEFINE value == [i \in 0 .. d - 1 |-> val(i)]
           Is(l) == l = [i \in 0 .. book.dimensions - 1 |->
                       val(i) + (IF book.sequence_p /\ i > 0 THEN l[i - 1] ELSE 0)]
<1>9. \A l : Is(l) <=> SumsOf(l, value, d - 1, book.sequence_p)
  <2> HIDE DEF val
  <2> QED
    BY DEF SumsOf
<1>10. vector = CHOOSE l : Is(l)
  OBVIOUS
<1> HIDE DEF vector, Is
<1>11. /\ \E l : SumsOf(l, value, d - 1, book.sequence_p)
       /\ \A l : SumsOf(l, value, d - 1, book.sequence_p) =>
                   \A i \in 0 .. d - 1 : l[i] \in Int
  <2> DEFINE n == d - 1
  <2>1. n \in Nat /\ \A i \in 0 .. n : value[i] \in Int
    BY <1>1, <1>8
  <2> HIDE DEF value, n
  <2>2. /\ \E l : SumsOf(l, value, n, book.sequence_p)
        /\ \A l : SumsOf(l, value, n, book.sequence_p) => \A i \in 0 .. n : l[i] \in Int
    BY <2>1, SumsType
  <2> QED
    BY <2>2 DEF n
<1> QED
  BY <1>3, <1>9, <1>10, <1>11

\* What is added to a vector are numbers.
LEMMA AddedType ==
  ASSUME ParsedResidue(residue), NEW total, reader \in Readers(total),
         NEW b \in VQBooks, NEW L, NEW v \in Vector(L)
  PROVE  Added(v, b) \in Vector(L)
<1> DEFINE book == Codebooks[b]
           Chosen(p) == CHOOSE kl \in At(book, p - offset) : TRUE
           term(p) == Vectors[b][Entries(book)[Chosen(p)[1] + 1].value][Chosen(p)[2]]
<1>1. Added(v, b) = [p \in DOMAIN v |->
        IF At(book, p - offset) = {} THEN v[p] ELSE v[p] + term(p)]
  BY DEF Added
<1>2. DOMAIN v = 0 .. L - 1 /\ \A p \in 0 .. L - 1 : v[p] \in Int
  BY DEF Vector
<1>3. book.dimensions \in Nat \ {0} /\ book.codeword_len \in Nat
  BY ResidueAssumption DEF VQBooks
<1>4. NumVectors(book) \in Nat
  BY <1>3, NumVectorsType, ResidueType
<1>5. ASSUME NEW p, At(book, p - offset) # {}
      PROVE  term(p) \in Int
  <2>1. Chosen(p) \in Components(book)
    BY <1>5 DEF At
  <2> HIDE DEF Chosen
  <2>2. /\ Chosen(p)[1] \in 0 .. NumVectors(book) - 1
        /\ Chosen(p)[2] \in 0 .. book.dimensions - 1
    BY <2>1 DEF Components
  <2>3. Chosen(p)[1] + 1 \in 1 .. NumVectors(book)
    BY <1>4, <2>2
  <2>4. Entries(book)[Chosen(p)[1] + 1].value \in 0 .. num_entries_(book) - 1
    BY <1>3, <1>4, <2>3, EntriesHaveVectors
  <2> QED
    BY <2>2, <2>4, VectorsType
<1> HIDE DEF term
<1>6. \A p \in 0 .. L - 1 :
        (IF At(book, p - offset) = {} THEN v[p] ELSE v[p] + term(p)) \in Int
  BY <1>2, <1>5
<1> QED
  BY <1>1, <1>2, <1>6 DEF Vector

-----------------------------------------------------------------------------
(* The type invariant                                                      *)

Length == decode_len(modes, mode_idx)

Stages == {"head", "floors", "residues", "coupling", "done",
           "failed", "aborted", "undefined", "misplaced", "refused"}

CountsOK ==
  /\ packet \in [DOMAIN packet -> {0, 1}]
  /\ mode_idx \in {-1} \union DOMAIN modes
  /\ floor_outputs \in [Channels -> Nat]
  /\ step \in Nat
  /\ stage \in Stages
  /\ rstage \in {"none", "pass", "classify", "partition", "decoded", "failed"}

\* What is decoded: one long vector for all channels, or one for each.
OutOK ==
  LET members == Members(mapping(mode_idx), submap)
  IN rstage \in {"pass", "classify", "partition", "decoded"} =>
       out \in IF residue.type = 2
               THEN [{0} -> Vector(Cardinality(DOMAIN members) * Length)]
               ELSE [DOMAIN members -> Vector(Length)]

\* What the channels have got so far.
OutputsOK ==
  \A c \in Channels :
    \/ stage = "residues" /\ mapping(mode_idx).muxs[c] < submap
    \/ stage \in {"coupling", "done"}
    => residue_outputs[c] \in Vector(Length)

TypeInvariant ==
  /\ ReadInvariant /\ PropagationInv
  /\ LoopsSilent /\ ResiduesSilent /\ CouplingsSilent
  /\ ChannelOK /\ CountsOK /\ OutOK /\ OutputsOK

LEMMA LengthType ==
  ASSUME modes \in Setups, mode_idx \in DOMAIN modes
  PROVE  Length \in Nat
BY AudioAssumption DEF Length, decode_len

LEMMA CountsInit ==
  ASSUME AInit
  PROVE  CountsOK
<1>1. packet \in [DOMAIN packet -> {0, 1}]
  <2>1. CASE MadePackets
    <3>1. PICK made \in Packets[modes], cut \in Cuts : packet = Packed(made.bits, cut)
      BY <2>1 DEF MadePackets
    <3>2. modes \in Setups
      BY DEF AInit
    <3>3. made.bits \in Seq({0, 1})
      BY <3>1, <3>2, PacketsAssumption DEF IsMade
    <3> DEFINE bits == made.bits
               bytes == (Len(bits) + 7) \div 8
               D == 0 .. 8 * (IF cut < bytes THEN bytes - cut ELSE 0) - 1
    <3>4. packet = [i \in D |-> IF i < Len(bits) THEN bits[i + 1] ELSE 0]
      BY <3>1 DEF Packed
    <3>5. \A i \in D : i \in Nat
      OBVIOUS
    <3> HIDE DEF D, bits
    <3>6. \A i \in D : (IF i < Len(bits) THEN bits[i + 1] ELSE 0) \in {0, 1}
      <4>1. ASSUME NEW i \in D, i < Len(bits) PROVE bits[i + 1] \in {0, 1}
        <5>1. i + 1 \in 1 .. Len(bits)
          BY <3>3, <3>5, <4>1 DEF bits
        <5> QED
          BY <3>3, <5>1 DEF bits
      <4> QED
        BY <4>1
    <3> QED
      BY <3>4, <3>6
  <2>2. CASE packet \in Noise
    BY <2>2, PacketsAssumption
  <2> QED
    BY <2>1, <2>2 DEF AInit
<1> QED
  BY <1>1 DEF AInit, CountsOK, Stages

LEMMA CountsKeep ==
  ASSUME ReadInvariant, ChannelOK, CountsOK, [ANext]_avars
  PROVE  CountsOK'
<1>1. modes' = modes /\ packet' = packet
  BY PacketStays
<1>2. CASE ReadHead
  <2>1. /\ mode_idx' = mode_idx \/ mode_idx' \in DOMAIN modes
        /\ stage' \in {"failed", "aborted", "undefined", "misplaced", "floors"}
        /\ floor_outputs' = floor_outputs /\ step' = step /\ rstage' = rstage
    BY <1>2 DEF ReadHead, floors, loops
  <2> QED
    BY <1>1, <2>1 DEF CountsOK, Stages
<1>3. CASE DecodeFloor
  <2> DEFINE curve == readBits(readBit(reader).reader, FloorBits)
  <2>1. /\ mode_idx' = mode_idx /\ stage' \in {"floors", "failed", "refused"}
        /\ step' = step /\ rstage' = rstage
        /\ \/ floor_outputs' = floor_outputs
           \/ floor_outputs' = [floor_outputs EXCEPT ![channel] = 1 + curve.value]
    BY <1>3 DEF DecodeFloor, floors, loops
  <2>2. curve.value \in Nat
    <3>1. PICK d : Doubles(d, FloorBits)
      BY AudioAssumption, DoublesExist
    <3>2. curve.value \in 0 .. d[FloorBits] - 1
      BY <3>1, AudioAssumption, ValueBound DEF readBits
    <3> QED
      BY <3>2
  <2> HIDE DEF curve
  <2>3. floor_outputs' \in [Channels -> Nat]
    BY <2>1, <2>2 DEF CountsOK
  <2> QED
    BY <1>1, <2>1, <2>3 DEF CountsOK, Stages
<1>4. CASE PropagateNonzero
  <2>1. /\ mode_idx' = mode_idx /\ stage' \in {"floors", "residues"}
        /\ step' \in {step, step + 1} /\ rstage' = rstage /\ floor_outputs' = floor_outputs
    BY <1>4 DEF PropagateNonzero, floors, loops
  <2> QED
    BY <1>1, <2>1 DEF CountsOK, Stages
<1>5. CASE StartResidue
  <2>1. /\ mode_idx' = mode_idx /\ stage' = stage /\ step' = step
        /\ floor_outputs' = floor_outputs /\ rstage' \in {"failed", "pass"}
    BY <1>5 DEF StartResidue, BeginResidue, floors
  <2> QED
    BY <1>1, <2>1 DEF CountsOK
<1>6. CASE DecodeResidue
  <2>1. /\ mode_idx' = mode_idx /\ stage' = stage /\ step' = step
        /\ floor_outputs' = floor_outputs
    BY <1>6 DEF DecodeResidue, floors
  <2>2. rstage' \in {"pass", "classify", "partition", "decoded", "failed"}
    BY <1>6 DEF DecodeResidue, ResidueNext, NextClassword, Classify, DecodePartition,
       RefuseVector
  <2> QED
    BY <1>1, <2>1, <2>2 DEF CountsOK
<1>7. CASE FailResidue \/ FinishResidue
  <2>1. /\ mode_idx' = mode_idx /\ stage' \in {stage, "failed"} /\ step' = step
        /\ floor_outputs' = floor_outputs /\ rstage' \in {"none", "failed"}
    BY <1>7 DEF FailResidue, FinishResidue, floors, loops
  <2> QED
    BY <1>1, <2>1 DEF CountsOK, Stages
<1>8. CASE PushResidues
  <2>1. /\ mode_idx' = mode_idx /\ stage' = "coupling" /\ rstage' = rstage
        /\ step' = Len(CouplingsOf(mode_idx)) /\ floor_outputs' = floor_outputs
        /\ stage = "residues"
    BY <1>8 DEF PushResidues, floors, loops, CouplingsOf
  <2>2. Len(CouplingsOf(mode_idx)) \in Nat
    BY <2>1, MappingType DEF ReadInvariant, ModeOK
  <2> QED
    BY <1>1, <2>1, <2>2 DEF CountsOK, Stages
<1>9. CASE InverseCoupling \/ DotProduct
  <2>1. /\ mode_idx' = mode_idx /\ stage' \in {stage, "done"} /\ rstage' = rstage
        /\ step' = step \/ (step > 0 /\ step' = step - 1)
        /\ floor_outputs' = floor_outputs
    BY <1>9 DEF InverseCoupling, DotProduct, floors, loops
  <2> QED
    BY <1>1, <2>1 DEF CountsOK, Stages
<1>10. CASE UNCHANGED avars
  BY <1>10 DEF avars, given, floors, loops, CountsOK
<1> QED
  BY <1>2, <1>3, <1>4, <1>5, <1>6, <1>7, <1>8, <1>9, <1>10 DEF ANext

\* decode is started with zeros.
LEMMA StartsVectors ==
  ASSUME ReadInvariant, StartResidue
  PROVE  OutOK'
<1> DEFINE m == mapping(mode_idx)
           r == m.submaps[submap].residue
           members == Members(m, submap)
           used == [j \in DOMAIN members |-> floor_output_used[members[j]]]
<1>1. /\ BeginResidue(r, used, Length) /\ modes' = modes /\ mode_idx' = mode_idx
      /\ submap' = submap
  BY PacketStays DEF StartResidue, given, Length
<1>2. members' = members /\ Length' = Length
  BY <1>1 DEF mapping, Length, decode_len
<1> DEFINE n == Cardinality(DOMAIN members)
           len == IF r.type = 2 THEN n * Length ELSE Length
<1>3. DOMAIN used = DOMAIN members
  OBVIOUS
<1> HIDE DEF used, r, members
<1>4. /\ residue' = r
      /\ channel_used' = IF r.type = 2 THEN [j \in {0} |-> TRUE] ELSE used
      /\ out' = [j \in DOMAIN channel_used' |-> [p \in 0 .. len - 1 |-> 0]]
  BY <1>1, <1>3 DEF BeginResidue
<1>5. [p \in 0 .. len - 1 |-> 0] \in Vector(len)
  BY DEF Vector
<1> DEFINE zeros == [p \in 0 .. len - 1 |-> 0]
<1>6. CASE r.type = 2
  <2>1. DOMAIN channel_used' = {0}
    BY <1>4, <1>6
  <2>2. out' = [j \in {0} |-> zeros] /\ zeros \in Vector(n * Length)
    BY <1>4, <1>5, <1>6, <2>1
  <2> HIDE DEF zeros, n
  <2>3. out' \in [{0} -> Vector(n * Length)]
    BY <2>2
  <2> QED
    BY <1>2, <1>4, <1>6, <2>3 DEF OutOK, n, members, m, Vector
<1>7. CASE r.type # 2
  <2>1. DOMAIN channel_used' = DOMAIN members
    BY <1>3, <1>4, <1>7
  <2>2. out' = [j \in DOMAIN members |-> zeros] /\ zeros \in Vector(Length)
    BY <1>4, <1>5, <1>7, <2>1
  <2> HIDE DEF zeros
  <2>3. out' \in [DOMAIN members -> Vector(Length)]
    BY <2>2
  <2> QED
    BY <1>2, <1>4, <1>7, <2>3 DEF OutOK, members, m, Vector
<1> QED
  BY <1>6, <1>7

\* Numbers are added to them.
\* Where there are no vectors, nothing is added.
LEMMA NothingIsAdded ==
  ASSUME NEW b, NumVectors(Codebooks[b]) = 0, NEW n, NEW v \in [0 .. n - 1 -> Int]
  PROVE  Added(v, b) = v
<1>1. Components(Codebooks[b]) = {}
  BY DEF Components
<1>2. \A p : At(Codebooks[b], p) = {}
  BY <1>1 DEF At
<1>3. Added(v, b) = [p \in DOMAIN v |-> v[p]]
  BY <1>2 DEF Added
<1> QED
  BY <1>3

LEMMA DecodesVectors ==
  ASSUME ReadInvariant, OutOK, DecodeResidue
  PROVE  OutOK'
<1> DEFINE members == Members(mapping(mode_idx), submap)
           D == IF residue.type = 2 THEN {0} ELSE DOMAIN members
           L == IF residue.type = 2 THEN Cardinality(DOMAIN members) * Length ELSE Length
<1>1. /\ modes' = modes /\ mode_idx' = mode_idx /\ submap' = submap
      /\ residue' = residue /\ rstage \in {"pass", "classify", "partition"}
  BY DEF DecodeResidue, ResidueNext, NextClassword, Classify, DecodePartition,
         RefuseVector, settings
<1>2. members' = members /\ Length' = Length
  BY <1>1 DEF mapping, Length, decode_len
<1>3. out \in [D -> Vector(L)]
  BY <1>1 DEF OutOK
<1>4. out' \in [D -> Vector(L)]
  <2>1. CASE out' = out
    BY <1>3, <2>1
  <2>2. CASE DecodePartition /\ channel_used[ch] /\ vq_book # NoBook
    <3>1. /\ rstage = "partition" /\ ~NoVectors(Codebooks[vq_book])
          /\ out' = [out EXCEPT ![ch] = Added(out[ch], vq_book)]
      BY <2>2 DEF DecodePartition
    <3>2. ParsedResidue(residue) /\ VectorsOK /\ ClassesOK /\ CountersOK
      BY <3>1 DEF ReadInvariant, LoopsOK, Decoding
    <3>3. vq_book \in DOMAIN Codebooks
      BY <2>2, <3>1, <3>2, ClassIsThere
    <3>4. PICK k \in Nat : reader \in Readers(8 * k)
      BY DEF ReadInvariant, ReaderOK
    <3>5. CASE ch \in D
      <4>1. out[ch] \in Vector(L)
        BY <1>3, <3>5
      <4>2. Added(out[ch], vq_book) \in Vector(L)
        <5>1. CASE vq_book \in VQBooks
          BY <3>2, <3>4, <4>1, <5>1, AddedType
        <5>2. CASE vq_book \notin VQBooks
          <6>1. NumVectors(Codebooks[vq_book]) = 0
            BY <3>1, <3>3, <5>2 DEF VQBooks, NoVectors
          <6> QED
            BY <4>1, <6>1, NothingIsAdded DEF Vector
        <5> QED
          BY <5>1, <5>2
      <4> HIDE DEF D, L
      <4> QED
        BY <1>3, <3>1, <3>5, <4>2
    <3>6. CASE ch \notin D
      <4> HIDE DEF D, L
      <4> QED
        BY <1>3, <3>1, <3>6
    <3> QED
      BY <3>5, <3>6
  <2> QED
    BY <2>1, <2>2 DEF DecodeResidue, ResidueNext, NextClassword, Classify,
       DecodePartition, RefuseVector
<1> QED
  BY <1>1, <1>2, <1>4 DEF OutOK, Vector

LEMMA OutKeeps ==
  ASSUME ReadInvariant, LoopsSilent, OutOK, [ANext]_avars
  PROVE  OutOK'
<1>1. CASE StartResidue
  BY <1>1, StartsVectors
<1>2. CASE DecodeResidue
  BY <1>2, DecodesVectors
<1>3. CASE FinishResidue \/ PushResidues \/ FailResidue
  <2>1. rstage' \in {"none", "failed"}
    BY <1>3 DEF FinishResidue, PushResidues, FailResidue, loops
  <2> QED
    BY <2>1 DEF OutOK
<1>4. CASE ReadHead \/ DecodeFloor \/ PropagateNonzero \/ InverseCoupling \/ DotProduct
  <2>1. stage # "residues" /\ rstage' = rstage
    BY <1>4 DEF ReadHead, DecodeFloor, PropagateNonzero, InverseCoupling, DotProduct, loops
  <2> QED
    BY <2>1 DEF LoopsSilent, OutOK
<1>5. CASE UNCHANGED avars
  BY <1>5 DEF avars, given, loops, OutOK, mapping, Length, decode_len, Vector
<1> QED
  BY <1>1, <1>2, <1>3, <1>4, <1>5 DEF ANext

\* Each channel of the submap gets a vector of its own.
LEMMA ResultType ==
  ASSUME OutOK, rstage = "decoded", Length \in Nat
  PROVE  LET members == Members(mapping(mode_idx), submap)
         IN \A j \in DOMAIN members :
              ResidueOutput(Cardinality(DOMAIN members), Length)[j] \in Vector(Length)
<1> DEFINE members == Members(mapping(mode_idx), submap)
           n == Cardinality(DOMAIN members)
           len == Length
<1>1. PICK k \in Nat : DOMAIN members = 0 .. k - 1
  BY MembersCount
<1>2. n = k
  BY <1>1, CountOf
<1>3. ASSUME NEW j \in DOMAIN members
      PROVE  ResidueOutput(n, len)[j] \in Vector(len)
  <2>1. CASE residue.type = 2
    <3>1. out \in [{0} -> Vector(n * len)]
      BY <2>1 DEF OutOK
    <3>2. j \in 0 .. n - 1 /\ n \in Nat /\ len \in Nat
      BY <1>1, <1>2
    <3>3. ResidueOutput(n, len)[j] = [i \in 0 .. len - 1 |-> out[0][j + n * i]]
      BY <2>1, <3>2 DEF ResidueOutput
    <3> HIDE DEF n, len
    <3>4. ASSUME NEW i \in 0 .. len - 1
          PROVE  out[0][j + n * i] \in Int
      <4>1. n * i \in Nat /\ n * i <= n * (len - 1)
        BY <3>2
      <4>2. n * (len - 1) = n * len - n /\ n * len \in Nat
        BY <3>2
      <4> DEFINE x == n * i
                 y == n * (len - 1)
                 z == n * len
      <4>3. x \in Nat /\ x <= y /\ y = z - n /\ z \in Nat
        BY <4>1, <4>2
      <4> HIDE DEF x, y, z
      <4>4. j + x \in 0 .. z - 1
        BY <3>2, <4>3
      <4>5. out[0] \in [0 .. z - 1 -> Int]
        BY <3>1 DEF Vector, z
      <4>6. out[0][j + x] \in Int
        BY <4>4, <4>5
      <4> QED
        BY <4>6 DEF x
    <3> QED
      BY <3>3, <3>4 DEF Vector
  <2>2. CASE residue.type # 2
    <3>1. out \in [DOMAIN members -> Vector(len)]
      BY <2>2 DEF OutOK
    <3>2. ResidueOutput(n, len) = out
      BY <2>2 DEF ResidueOutput
    <3> HIDE DEF len, members
    <3> QED
      BY <3>1, <3>2
  <2> QED
    BY <2>1, <2>2
<1> QED
  BY <1>3

\* Undoing a coupling makes numbers of numbers.
LEMMA UncoupledType ==
  ASSUME NEW len, NEW v, DOMAIN v = Channels, \A c \in Channels : v[c] \in Vector(len),
         NEW k, k.magnitude \in Channels, k.angle \in Channels
  PROVE  \A c \in Channels : UncoupleVectors(v, k)[c] \in Vector(len)
<1> DEFINE P == 0 .. len - 1
           um == [p \in DOMAIN v[k.magnitude] |->
                    Uncouple(v[k.magnitude][p], v[k.angle][p])[1]]
           ua(f) == [p \in DOMAIN f |->
                    Uncouple(v[k.magnitude][p], v[k.angle][p])[2]]
<1>1. \A x, y \in Int : Uncouple(x, y)[1] \in Int /\ Uncouple(x, y)[2] \in Int
  BY DEF Uncouple
<1>2. \A c \in Channels : DOMAIN v[c] = P /\ \A p \in P : v[c][p] \in Int
  BY DEF Vector
<1>3. um \in Vector(len) /\ \A f \in Vector(len) : ua(f) \in Vector(len)
  <2>1. \A p \in P : /\ Uncouple(v[k.magnitude][p], v[k.angle][p])[1] \in Int
                     /\ Uncouple(v[k.magnitude][p], v[k.angle][p])[2] \in Int
    BY <1>1, <1>2
  <2> QED
    BY <1>2, <2>1 DEF Vector
<1> DEFINE w == [v EXCEPT ![k.magnitude] = um]
<1>4. UncoupleVectors(v, k) = [w EXCEPT ![k.angle] = ua(w[k.angle])]
  BY DEF UncoupleVectors
<1> HIDE DEF um, ua
<1>5. DOMAIN w = Channels /\ \A c \in Channels : w[c] \in Vector(len)
  BY <1>3
<1> HIDE DEF w
<1> QED
  BY <1>3, <1>4, <1>5

LEMMA OutputsKeep ==
  ASSUME ReadInvariant, PropagationInv, LoopsSilent, ResiduesSilent, CouplingsSilent,
         CountsOK, OutOK, OutputsOK, [ANext]_avars
  PROVE  OutputsOK'
<1> DEFINE m == mapping(mode_idx)
<1>1. modes' = modes
  BY PacketStays
<1>2. stage \in {"floors", "residues", "coupling", "done"} =>
        modes \in Setups /\ mode_idx \in DOMAIN modes
  BY DEF ReadInvariant, ModeOK, PropagationInv
<1>3. submap \in Nat /\ DOMAIN residue_outputs = Channels
  BY DEF ResiduesSilent
<1>4. CASE FinishResidue
  <2> DEFINE members == Members(m, submap)
             result == ResidueOutput(Cardinality(DOMAIN members), Length)
             number(c) == CHOOSE j \in DOMAIN members : members[j] = c
  <2>1. /\ stage = "residues" /\ stage' = stage /\ rstage = "decoded"
        /\ mode_idx' = mode_idx /\ submap' = submap + 1
        /\ residue_outputs' = [c \in Channels |->
             IF m.muxs[c] = submap THEN result[number(c)] ELSE residue_outputs[c]]
    BY <1>4 DEF FinishResidue, Length
  <2>2. m' = m /\ Length' = Length
    BY <1>1, <2>1 DEF mapping, Length, decode_len
  <2>3. ASSUME NEW c \in Channels, m.muxs[c] < submap + 1
        PROVE  residue_outputs'[c] \in Vector(Length)
    <3>1. CASE m.muxs[c] = submap
      <4>1. \E j \in DOMAIN members : members[j] = c
        BY <3>1, MemberExists
      <4>2. number(c) \in DOMAIN members
        BY <4>1
      <4>3. Length \in Nat
        BY <1>2, <2>1, LengthType
      <4>4. result[number(c)] \in Vector(Length)
        BY <2>1, <4>2, <4>3, ResultType
      <4> QED
        BY <2>1, <3>1, <4>4
    <3>2. CASE m.muxs[c] # submap
      <4>1. m.muxs[c] \in Int
        BY <1>2, <2>1, MappingType
      <4>2. m.muxs[c] < submap
        <5> HIDE DEF m
        <5> QED
          BY <1>3, <2>3, <3>2, <4>1
      <4> QED
        BY <2>1, <3>2, <4>2 DEF OutputsOK
    <3> QED
      BY <3>1, <3>2
  <2> HIDE DEF m
  <2> QED
    BY <2>1, <2>2, <2>3 DEF OutputsOK, m, Vector
<1>5. CASE PushResidues
  <2>1. /\ stage = "residues" /\ stage' = "coupling" /\ mode_idx' = mode_idx
        /\ submap \notin DOMAIN m.submaps /\ residue_outputs' = residue_outputs
    BY <1>5 DEF PushResidues
  <2>2. PICK n \in Nat : DOMAIN m.submaps = 0 .. n - 1
    BY <1>2, <2>1, MappingType
  <2>3. \A c \in Channels : m.muxs[c] < submap
    <3>1. \A c \in Channels : m.muxs[c] \in 0 .. n - 1
      BY <1>2, <2>1, <2>2, MappingType
    <3> HIDE DEF m
    <3> QED
      BY <1>3, <2>1, <2>2, <3>1
  <2>4. Length' = Length
    BY <1>1, <2>1 DEF Length, decode_len
  <2> QED
    BY <2>1, <2>3, <2>4 DEF OutputsOK, Vector
<1>6. CASE InverseCoupling
  <2> DEFINE k == CouplingsOf(mode_idx)[step]
  <2>1. /\ stage = "coupling" /\ stage' = stage /\ mode_idx' = mode_idx /\ step > 0
        /\ residue_outputs' = UncoupleVectors(residue_outputs, k)
    BY <1>6 DEF InverseCoupling, NextCoupling, CouplingsOf
  <2>2. Length' = Length
    BY <1>1, <2>1 DEF Length, decode_len
  <2>3. k.magnitude \in Channels /\ k.angle \in Channels
    <3>1. step \in 1 .. Len(CouplingsOf(mode_idx))
      <4>1. Len(CouplingsOf(mode_idx)) \in Nat /\ step \in 0 .. Len(CouplingsOf(mode_idx))
        BY <1>2, <2>1, MappingType DEF CouplingsSilent
      <4> QED
        BY <2>1, <4>1
    <3> QED
      BY <1>2, <2>1, <3>1, MappingType
  <2>4. \A c \in Channels : UncoupleVectors(residue_outputs, k)[c] \in Vector(Length)
    BY <1>3, <2>1, <2>3, UncoupledType DEF OutputsOK
  <2> QED
    BY <2>1, <2>2, <2>4 DEF OutputsOK, Vector
<1>7. CASE DotProduct
  <2>1. /\ stage = "coupling" /\ stage' = "done" /\ mode_idx' = mode_idx
        /\ residue_outputs' = [c \in Channels |->
             IF floor_output_used[c]
             THEN [p \in DOMAIN residue_outputs[c] |->
                     residue_outputs[c][p] * floor_outputs[c]]
             ELSE residue_outputs[c]]
    BY <1>7 DEF DotProduct
  <2>2. Length' = Length
    BY <1>1, <2>1 DEF Length, decode_len
  <2>3. ASSUME NEW c \in Channels
        PROVE  residue_outputs'[c] \in Vector(Length)
    <3>1. residue_outputs[c] \in Vector(Length) /\ floor_outputs[c] \in Nat
      BY <2>1 DEF OutputsOK, CountsOK
    <3> DEFINE v == residue_outputs[c]
               f == floor_outputs[c]
    <3>2. DOMAIN v = 0 .. Length - 1 /\ (\A p \in DOMAIN v : v[p] \in Int) /\ f \in Int
      <4>1. v \in [0 .. Length - 1 -> Int] /\ f \in Nat
        BY <3>1 DEF Vector
      <4> HIDE DEF v, f
      <4> QED
        BY <4>1
    <3> HIDE DEF v, f
    <3>3. \A p \in DOMAIN v : v[p] * f \in Int
      BY <3>2
    <3>4. [p \in DOMAIN v |-> v[p] * f] \in Vector(Length)
      BY <3>2, <3>3 DEF Vector
    <3>5. residue_outputs'[c] = IF floor_output_used[c] THEN [p \in DOMAIN v |-> v[p] * f]
                                ELSE v
      BY <2>1 DEF v, f
    <3> QED
      BY <3>1, <3>4, <3>5 DEF v
  <2> QED
    BY <2>1, <2>2, <2>3 DEF OutputsOK, Vector
<1>8. CASE ReadHead \/ DecodeFloor \/ FailResidue
  <2>1. stage' \notin {"residues", "coupling", "done"}
    BY <1>8 DEF ReadHead, DecodeFloor, FailResidue
  <2> QED
    BY <2>1 DEF OutputsOK
<1>9. CASE PropagateNonzero
  <2>1. /\ stage = "floors" /\ stage' \in {"floors", "residues"}
        /\ mode_idx' = mode_idx /\ submap' = submap
    BY <1>9 DEF PropagateNonzero
  <2>2. submap = 0
    BY <2>1 DEF ResiduesSilent
  <2>3. \A c \in Channels : ~(m.muxs[c] < 0)
    <3>1. PICK n \in Nat : DOMAIN m.submaps = 0 .. n - 1
      BY <1>2, <2>1, MappingType
    <3>2. \A c \in Channels : m.muxs[c] \in 0 .. n - 1
      BY <1>2, <2>1, <3>1, MappingType
    <3> QED
      BY <3>2
  <2>4. m' = m
    BY <1>1, <2>1 DEF mapping
  <2> QED
    BY <2>1, <2>2, <2>3, <2>4 DEF OutputsOK
<1>10. CASE StartResidue \/ DecodeResidue \/ UNCHANGED avars
  <2>1. /\ stage' = stage /\ mode_idx' = mode_idx /\ submap' = submap
        /\ residue_outputs' = residue_outputs
    BY <1>10 DEF StartResidue, DecodeResidue, avars
  <2> QED
    BY <1>1, <2>1 DEF OutputsOK, Vector, Length, mapping, decode_len
<1> QED
  BY <1>4, <1>5, <1>6, <1>7, <1>8, <1>9, <1>10 DEF ANext

LEMMA TypesInit ==
  AInit => TypeInvariant
<1> SUFFICES ASSUME AInit PROVE TypeInvariant
  OBVIOUS
<1>1. /\ stage = "head" /\ step = 0 /\ submap = 0 /\ rstage = "none" /\ channel = 0
      /\ floor_output_used = [c \in Channels |-> FALSE]
      /\ residue_outputs = [c \in Channels |-> <<>>]
  BY DEF AInit
<1> QED
  BY <1>1, ReadInit, CountsInit, AudioAssumption
     DEF TypeInvariant, PropagationInv, LoopsSilent, ResiduesSilent, CouplingsSilent,
         ChannelOK, OutOK, OutputsOK

LEMMA TypesNext ==
  ASSUME TypeInvariant, [ANext]_avars
  PROVE  TypeInvariant'
BY ReadNext, PropagationKeeps, LoopsStaySilent, ResiduesStaySilent,
   CouplingsStaySilent, ChannelKeeps, CountsKeep, OutKeeps, OutputsKeep DEF TypeInvariant

(***************************************************************************)
(* Every variable keeps its type.  Above all, every channel comes out with *)
(* a vector of numbers that is as long as its block demands, whichever     *)
(* layout it was decoded in: the entry of each codeword has a vector, the  *)
(* interleaved vector of a type 2 residue has a place for each channel's   *)
(* components, and each channel is one of its submap's.                    *)
(***************************************************************************)
THEOREM AudioTypes ==
  ASpec => []ATypeOK
<1>1. AInit => TypeInvariant
  BY TypesInit
<1>2. TypeInvariant /\ [ANext]_avars => TypeInvariant'
  BY TypesNext
<1>3. TypeInvariant => ATypeOK
  <2>1. SUFFICES ASSUME TypeInvariant PROVE ATypeOK
    OBVIOUS
  <2>2. CountsOK /\ ChannelOK /\ submap \in Nat
        /\ floor_output_used \in [Channels -> BOOLEAN]
    BY <2>1 DEF TypeInvariant, PropagationInv, ResiduesSilent
  <2>3. ASSUME stage \in {"coupling", "done"}, NEW c \in Channels
        PROVE  VectorOf(residue_outputs[c])
    <3>1. mode_idx \in DOMAIN modes
      BY <2>1, <2>3 DEF TypeInvariant, PropagationInv
    <3>2. residue_outputs[c] \in [0 .. Length - 1 -> Int] /\ Length \in Lengths
      BY <2>1, <2>3, <3>1 DEF TypeInvariant, OutputsOK, Vector, Lengths, Length
    <3> QED
      BY <3>2 DEF VectorOf
  <2> QED
    BY <2>2, <2>3 DEF ATypeOK, CountsOK, ChannelOK, Stages
<1> QED
  BY <1>1, <1>2, <1>3, PTL DEF ASpec

-----------------------------------------------------------------------------
(***************************************************************************)
(* What an encoder writes is what is read.  A packet holds a sequence of   *)
(* bits at a place; a sequence made of others holds each of them behind    *)
(* those before it.                                                        *)
(***************************************************************************)

Bit == {0, 1}

Holds(a, s) ==
  \A i \in 1 .. Len(s) : a + i - 1 \in DOMAIN packet /\ packet[a + i - 1] = s[i]

LEMMA BothType ==
  ASSUME NEW s \in Seq(Bit), NEW t \in Seq(Bit)
  PROVE  /\ s \o t \in Seq(Bit) /\ Len(s \o t) = Len(s) + Len(t)
         /\ Len(s) \in Nat /\ Len(t) \in Nat
OBVIOUS

LEMMA HoldsParts ==
  ASSUME NEW a \in Nat, NEW s \in Seq(Bit), NEW t \in Seq(Bit)
  PROVE  /\ Holds(a, s \o t) => Holds(a, s) /\ Holds(a + Len(s), t)
         /\ s \o t \in Seq(Bit) /\ Len(s \o t) = Len(s) + Len(t)
         /\ Len(s) \in Nat /\ Len(t) \in Nat
<1>1. /\ s \o t \in Seq(Bit) /\ Len(s \o t) = Len(s) + Len(t)
      /\ Len(s) \in Nat /\ Len(t) \in Nat
      /\ \A i \in 1 .. Len(s) : (s \o t)[i] = s[i]
      /\ \A i \in 1 .. Len(t) : (s \o t)[Len(s) + i] = t[i]
  OBVIOUS
<1> DEFINE both == s \o t
           m == Len(s)
           n == Len(t)
<1>2. /\ Len(both) = m + n /\ m \in Nat /\ n \in Nat
      /\ \A i \in 1 .. m : both[i] = s[i]
      /\ \A i \in 1 .. n : both[m + i] = t[i]
  BY <1>1
<1> HIDE DEF both, m, n
<1>3. ASSUME Holds(a, both) PROVE Holds(a, s) /\ Holds(a + m, t)
  <2>1. ASSUME NEW i \in 1 .. m
        PROVE  a + i - 1 \in DOMAIN packet /\ packet[a + i - 1] = s[i]
    <3>1. i \in 1 .. m + n
      BY <1>2
    <3> QED
      BY <1>2, <1>3, <3>1 DEF Holds
  <2>2. ASSUME NEW i \in 1 .. n
        PROVE  a + m + i - 1 \in DOMAIN packet /\ packet[a + m + i - 1] = t[i]
    <3>1. m + i \in 1 .. m + n /\ a + (m + i) - 1 = a + m + i - 1
      BY <1>2
    <3>2. a + (m + i) - 1 \in DOMAIN packet /\ packet[a + (m + i) - 1] = both[m + i]
      BY <1>2, <1>3, <3>1 DEF Holds
    <3> QED
      BY <1>2, <3>1, <3>2
  <2> QED
    BY <2>1, <2>2 DEF Holds, m, n
<1> QED
  BY <1>1, <1>3 DEF both, m

-----------------------------------------------------------------------------
(* Sequences one behind the other                                          *)

AreBits(f, n) == \A i \in 0 .. n - 1 : f[i] \in Seq(Bit)

Joins(h, f, n) == h[0] = <<>> /\ \A k \in 1 .. n : h[k] = h[k - 1] \o f[k - 1]

LEMMA JoinedIs ==
  ASSUME NEW n \in Nat, NEW f, NEW h, Joins(h, f, n), NEW m \in 0 .. n
  PROVE  Joined(f, m) = h[m]
<1> DEFINE Is(l) == l = [i \in 0 .. m |-> IF i = 0 THEN <<>> ELSE l[i - 1] \o f[i - 1]]
           joined == CHOOSE l : Is(l)
           part == [i \in 0 .. m |-> h[i]]
<1>1. h[0] = <<>> /\ \A k \in 1 .. m : h[k] = h[k - 1] \o f[k - 1]
  <2>1. \A k \in 1 .. m : k \in 1 .. n
    OBVIOUS
  <2> QED
    BY <2>1, Zenon DEF Joins
<1>2. Is(part)
  BY <1>1
<1>3. Is(joined)
  BY <1>2
<1>4. Joined(f, m) = joined[m]
  BY DEF Joined
<1> HIDE DEF joined, part
<1>5. joined[0] = h[0] /\ \A k \in 1 .. m : joined[k - 1] = h[k - 1] => joined[k] = h[k]
  <2>1. joined[0] = h[0]
    BY <1>1, <1>3
  <2>2. ASSUME NEW k \in 1 .. m, joined[k - 1] = h[k - 1] PROVE joined[k] = h[k]
    <3>1. k \in 0 .. m /\ k # 0
      OBVIOUS
    <3>2. joined[k] = joined[k - 1] \o f[k - 1]
      BY <1>3, <3>1
    <3>3. h[k] = h[k - 1] \o f[k - 1]
      BY <1>1, Zenon
    <3> QED
      BY <2>2, <3>2, <3>3, Zenon
  <2> QED
    BY <2>1, <2>2
<1>6. \A k \in 0 .. m : joined[k] = h[k]
  BY <1>5, SameLoop
<1> QED
  BY <1>4, <1>6

LEMMA JoinedStep ==
  ASSUME NEW n \in Nat, NEW f, AreBits(f, n)
  PROVE  /\ Joined(f, 0) = <<>>
         /\ \A i \in 0 .. n : Joined(f, i) \in Seq(Bit)
         /\ \A i \in 1 .. n : Joined(f, i) = Joined(f, i - 1) \o f[i - 1]
<1> DEFINE S == Seq(Bit)
           g == [kx \in (1 .. n) \X S |-> kx[2] \o f[kx[1] - 1]]
<1>1. g \in [(1 .. n) \X S -> S] /\ <<>> \in S
  <2>1. ASSUME NEW kx \in (1 .. n) \X S PROVE kx[2] \o f[kx[1] - 1] \in S
    <3>1. kx[2] \in Seq(Bit) /\ f[kx[1] - 1] \in Seq(Bit)
      <4>1. kx[1] - 1 \in 0 .. n - 1
        OBVIOUS
      <4> QED
        BY <4>1 DEF AreBits
    <3> QED
      BY <3>1
  <2> QED
    BY <2>1
<1>2. PICK h \in [0 .. n -> S] : h[0] = <<>> /\ \A k \in 1 .. n : h[k] = g[<<k, h[k - 1]>>]
  <2> HIDE DEF g, S
  <2>1. HasSeries(S, g, <<>>, n)
    BY <1>1, SeriesExists
  <2> QED
    BY <2>1 DEF HasSeries
<1>3. Joins(h, f, n)
  <2>1. ASSUME NEW k \in 1 .. n PROVE h[k] = h[k - 1] \o f[k - 1]
    <3>1. h[k - 1] \in S
      BY <1>2
    <3> HIDE DEF S
    <3>2. <<k, h[k - 1]>> \in (1 .. n) \X S
      BY <3>1
    <3> QED
      BY <1>2, <3>2
  <2> QED
    BY <1>2, <2>1 DEF Joins
<1> HIDE DEF g, S
<1>4. \A m \in 0 .. n : Joined(f, m) = h[m]
  BY <1>3, JoinedIs
<1>5. \A i \in 0 .. n : h[i] \in Seq(Bit)
  BY <1>2 DEF S
<1>6. 0 \in 0 .. n /\ \A i \in 1 .. n : i \in 0 .. n /\ i - 1 \in 0 .. n
  OBVIOUS
<1>7. h[0] = <<>> /\ \A k \in 1 .. n : h[k] = h[k - 1] \o f[k - 1]
  BY <1>3 DEF Joins
<1> QED
  BY <1>4, <1>5, <1>6, <1>7

\* Each of them is behind those before it.
LEMMA HoldsJoined ==
  ASSUME NEW a \in Nat, NEW n \in Nat, NEW f, AreBits(f, n),
         Holds(a, Joined(f, n)), NEW i \in 0 .. n - 1
  PROVE  Holds(a + Len(Joined(f, i)), f[i])
<1> DEFINE G == {k \in 0 .. n : Holds(a, Joined(f, n - k))}
<1>1. /\ \A k \in 0 .. n : Joined(f, k) \in Seq(Bit)
      /\ \A k \in 1 .. n : Joined(f, k) = Joined(f, k - 1) \o f[k - 1]
  BY JoinedStep
<1>2. 0 \in G
  OBVIOUS
<1>3. ASSUME NEW k \in 0 + 1 .. n, k - 1 \in G PROVE k \in G
  <2> DEFINE m == n - k + 1
  <2>1. m \in 1 .. n /\ n - (k - 1) = m /\ n - k = m - 1 /\ m - 1 \in 0 .. n - 1 /\ m - 1 \in 0 .. n
    OBVIOUS
  <2>2. Holds(a, Joined(f, m))
    BY <1>3, <2>1
  <2> HIDE DEF m
  <2>3. Holds(a, Joined(f, m - 1))
    <3>1. Joined(f, m) = Joined(f, m - 1) \o f[m - 1]
      BY <1>1, <2>1
    <3>2. Joined(f, m - 1) \in Seq(Bit) /\ f[m - 1] \in Seq(Bit)
      BY <1>1, <2>1 DEF AreBits
    <3> QED
      BY <2>2, <3>1, <3>2, HoldsParts
  <2> QED
    BY <2>1, <2>3
<1> HIDE DEF G
<1>4. \A k \in 0 .. n : k \in G
  <2>1. 0 \in Int /\ n \in Int
    OBVIOUS
  <2> QED
    BY <1>2, <1>3, <2>1, UpTo
<1>5. /\ n - (i + 1) \in 0 .. n /\ n - (n - (i + 1)) = i + 1 /\ i + 1 \in 1 .. n
      /\ (i + 1) - 1 = i /\ i \in 0 .. n
  OBVIOUS
<1>6. Holds(a, Joined(f, i + 1))
  BY <1>4, <1>5 DEF G
<1>7. Joined(f, i + 1) = Joined(f, i) \o f[i]
  BY <1>1, <1>5
<1>8. Joined(f, i) \in Seq(Bit) /\ f[i] \in Seq(Bit)
  BY <1>1, <1>5 DEF AreBits
<1> DEFINE s == Joined(f, i)
           t == f[i]
<1>9. s \in Seq(Bit) /\ t \in Seq(Bit) /\ Holds(a, s \o t)
  BY <1>6, <1>7, <1>8
<1> HIDE DEF s, t
<1>10. Holds(a + Len(s), t)
  BY <1>9, HoldsParts
<1> QED
  BY <1>10 DEF s, t

-----------------------------------------------------------------------------
(* Fields and codewords                                                    *)

\* The highest bits of v, one more with each turn.
LEMMA HighestBits ==
  ASSUME NEW n \in Nat, NEW v \in 0 .. Doubled(n) - 1, NEW f, f[0] = 0,
         \A k \in 1 .. n : f[k] = 2 * f[k - 1] + ((v \div Doubled(n - k)) % 2)
  PROVE  f[n] = v
<1> DEFINE h == [k \in 0 .. n |-> v \div Doubled(n - k)]
<1>1. Doubled(n) \in Nat \ {0} /\ v \in Nat
  BY DoubledStep
<1>2. h[0] = 0
  <2>1. h[0] = v \div Doubled(n)
    OBVIOUS
  <2> DEFINE d == Doubled(n)
  <2>2. d \in Nat \ {0} /\ v \in 0 .. d - 1
    BY <1>1
  <2> HIDE DEF d, h
  <2>3. d * 0 + v = v /\ 0 \in Nat
    BY <2>2
  <2>4. v \div d = 0
    BY <2>2, <2>3, Divided
  <2> QED
    BY <2>1, <2>4 DEF d
<1>3. h[n] = v
  <2>1. h[n] = v \div Doubled(0)
    OBVIOUS
  <2> HIDE DEF h
  <2> QED
    BY <1>1, <2>1, DoubledStep
<1>4. ASSUME NEW k \in 1 .. n PROVE h[k] = 2 * h[k - 1] + ((v \div Doubled(n - k)) % 2)
  <2> DEFINE d == Doubled(n - k)
  <2>1. n - k \in Nat /\ n - (k - 1) = (n - k) + 1 /\ k \in 0 .. n /\ k - 1 \in 0 .. n
    OBVIOUS
  <2>2. d \in Nat \ {0} /\ Doubled(n - (k - 1)) = 2 * d
    BY <2>1, DoubledStep
  <2>3. h[k] = v \div d /\ h[k - 1] = v \div (2 * d)
    BY <2>1, <2>2
  <2> HIDE DEF d, h
  <2> DEFINE q == v \div d
  <2>4. q \in Nat /\ v \div (2 * d) = q \div 2
    BY <1>1, <2>2, Halves
  <2> HIDE DEF q
  <2>5. q = 2 * (q \div 2) + (q % 2)
    BY <2>4
  <2>6. h[k] = 2 * h[k - 1] + (q % 2)
    BY <2>3, <2>4, <2>5 DEF q
  <2> QED
    BY <2>6 DEF q, d
<1> HIDE DEF h
<1>5. f[0] = h[0] /\ \A k \in 1 .. n : f[k - 1] = h[k - 1] => f[k] = h[k]
  BY <1>2, <1>4
<1>6. \A k \in 0 .. n : f[k] = h[k]
  BY <1>5, SameLoop
<1> QED
  BY <1>3, <1>6

LEMMA BitsType ==
  ASSUME NEW n \in Nat, NEW v \in Nat
  PROVE  /\ Bits(v, n) \in Seq(Bit) /\ Len(Bits(v, n)) = n
         /\ \A i \in 1 .. n : Bits(v, n)[i] = (v \div Doubled(i - 1)) % 2
<1>1. ASSUME NEW i \in 1 .. n PROVE (v \div Doubled(i - 1)) % 2 \in Bit
  <2>1. Doubled(i - 1) \in Nat \ {0}
    BY DoubledStep
  <2>2. v \div Doubled(i - 1) \in Nat
    BY <2>1, Division
  <2> QED
    BY <2>2 DEF Bit
<1> DEFINE b == [i \in 1 .. n |-> (v \div Doubled(i - 1)) % 2]
<1>2. b \in [1 .. n -> Bit] /\ \A i \in 1 .. n : b[i] = (v \div Doubled(i - 1)) % 2
  BY <1>1
<1> HIDE DEF b
<1>3. b \in Seq(Bit) /\ Len(b) = n
  BY <1>2
<1> QED
  BY <1>2, <1>3 DEF Bits, b

LEMMA CodewordType ==
  ASSUME NEW book, book.codeword_len \in Nat, NEW entry \in Nat
  PROVE  /\ Codeword(book, entry) \in Seq(Bit)
         /\ Len(Codeword(book, entry)) = book.codeword_len
         /\ \A i \in 1 .. book.codeword_len :
              Codeword(book, entry)[i] = (entry \div Doubled(book.codeword_len - i)) % 2
<1> DEFINE n == book.codeword_len
           b == [i \in 1 .. n |-> (entry \div Doubled(n - i)) % 2]
<1>1. Codeword(book, entry) = b
  BY DEF Codeword
<1>2. n \in Nat
  OBVIOUS
<1> HIDE DEF n
<1>3. ASSUME NEW i \in 1 .. n PROVE (entry \div Doubled(n - i)) % 2 \in Bit
  <2>1. n - i \in Nat
    BY <1>2
  <2>2. Doubled(n - i) \in Nat \ {0}
    BY <2>1, DoubledStep
  <2>3. entry \div Doubled(n - i) \in Nat
    BY <2>2, Division
  <2> QED
    BY <2>3 DEF Bit
<1>4. b \in [1 .. n -> Bit] /\ \A i \in 1 .. n : b[i] = (entry \div Doubled(n - i)) % 2
  BY <1>3
<1> HIDE DEF b
<1>5. b \in Seq(Bit) /\ Len(b) = n
  BY <1>2, <1>4
<1> QED
  BY <1>1, <1>4, <1>5 DEF n

LEMMA PlaceIs ==
  ASSUME NEW total \in Nat, NEW r \in Readers(total), NEW num \in Nat \ {0},
         NEW i \in 0 .. num - 1, r.asked + i < total
  PROVE  Places(r, num)[i] = r.asked + i
<1>1. WellFormed(r, total)
  BY DEF Readers
<1>2. Places(r, num) =
        [x \in 0 .. num - 1 |-> IF r.asked + x < total THEN r.asked + x ELSE NoPlace]
  BY <1>1, PlacesInOrder
<1> QED
  BY <1>2

\* A bit the packet holds is read.
LEMMA BitIsRead ==
  ASSUME NEW total \in Nat, DOMAIN packet = 0 .. total - 1, NEW r \in Readers(total),
         NEW b \in Bit, r.asked \in DOMAIN packet, packet[r.asked] = b
  PROVE  /\ readBit(r).value = b /\ readBit(r).reader \in Readers(total)
         /\ readBit(r).reader.asked = r.asked + 1
<1>1. WellFormed(r, total) /\ r.asked \in Nat /\ r.asked < total
  BY DEF Readers
<1>2. Places(r, 1)[0] = r.asked
  <2>1. 1 \in Nat \ {0} /\ 0 \in 0 .. 1 - 1 /\ r.asked + 0 < total /\ r.asked + 0 = r.asked
    BY <1>1
  <2> QED
    BY <2>1, PlaceIs
<1>3. BitAt(r.asked) = b
  BY <1>1 DEF BitAt, NoPlace, Bit
<1>4. AfterBits(r, 1).asked = r.asked + 1
  BY DEF AfterBits, ReaderAfter
<1>5. AfterBits(r, 1) \in Readers(total)
  BY AfterIsReader
<1> QED
  BY <1>2, <1>3, <1>4, <1>5 DEF readBit

\* readBits gives back the field that was written where the reader is, of any
\* length and wherever in a byte it begins.
THEOREM FieldIsRead ==
  ASSUME NEW total \in Nat, DOMAIN packet = 0 .. total - 1, NEW r \in Readers(total),
         NEW n \in Nat \ {0}, NEW v \in 0 .. Doubled(n) - 1, Holds(r.asked, Bits(v, n))
  PROVE  /\ readBits(r, n).value = v /\ readBits(r, n).reader \in Readers(total)
         /\ readBits(r, n).reader.asked = r.asked + n
<1> DEFINE places == Places(r, n)
<1>1. r.asked \in Nat /\ Doubled(n) \in Nat \ {0} /\ v \in Nat
  BY DoubledStep DEF Readers
<1>2. /\ Bits(v, n) \in Seq(Bit) /\ Len(Bits(v, n)) = n
      /\ \A i \in 1 .. n : Bits(v, n)[i] = (v \div Doubled(i - 1)) % 2
  BY <1>1, BitsType
<1>3. ASSUME NEW k \in 1 .. n
      PROVE  BitAt(places[n - k]) = (v \div Doubled(n - k)) % 2
  <2> DEFINE i == n - k + 1
             b == Bits(v, n)[i]
  <2>1. i \in 1 .. n /\ i - 1 = n - k /\ n - k \in 0 .. n - 1 /\ r.asked + i - 1 = r.asked + (n - k)
    BY <1>1
  <2>2. r.asked + (n - k) \in DOMAIN packet /\ packet[r.asked + (n - k)] = b
    BY <1>2, <2>1 DEF Holds
  <2>3. b = (v \div Doubled(n - k)) % 2 /\ b \in Bit
    BY <1>2, <2>1
  <2>4. places[n - k] = r.asked + (n - k) /\ r.asked + (n - k) # NoPlace
    <3>1. r.asked + (n - k) < total /\ r.asked + (n - k) # NoPlace
      <4> DEFINE p == r.asked + (n - k)
      <4>1. p \in 0 .. total - 1
        BY <2>2
      <4> HIDE DEF p
      <4>2. p < total /\ p # NoPlace
        BY <4>1 DEF NoPlace
      <4> QED
        BY <4>2 DEF p
    <3> QED
      BY <2>1, <3>1, PlaceIs
  <2> HIDE DEF b, places
  <2> QED
    BY <2>2, <2>3, <2>4 DEF BitAt, Bit
<1> HIDE DEF places
<1>a. PICK f : Turns(f, n, places)
  BY ValueTurns
<1>4. /\ Value(places, n) = f[n] /\ f[0] = 0
      /\ \A k \in 1 .. n : f[k] = 2 * f[k - 1] + BitAt(places[n - k])
  BY <1>a DEF Turns
<1>5. \A k \in 1 .. n : f[k] = 2 * f[k - 1] + ((v \div Doubled(n - k)) % 2)
  BY <1>3, <1>4
<1>6. f[n] = v
  BY <1>4, <1>5, HighestBits
<1>7. AfterBits(r, n).asked = r.asked + n
  BY DEF AfterBits, ReaderAfter
<1>8. AfterBits(r, n) \in Readers(total)
  BY AfterIsReader
<1> QED
  BY <1>4, <1>6, <1>7, <1>8 DEF readBits, places

\* decodeScalar gives back the entry whose codeword is where the reader is, and
\* reads as many bits as the codeword has.
THEOREM CodewordIsRead ==
  ASSUME NEW total \in Nat, DOMAIN packet = 0 .. total - 1, NEW r \in Readers(total),
         NEW book, book.codeword_len \in Nat, NEW entry \in 0 .. num_entries_(book) - 1,
         Holds(r.asked, Codeword(book, entry))
  PROVE  /\ decodeScalar(r, book).value = entry
         /\ decodeScalar(r, book).reader \in Readers(total)
         /\ decodeScalar(r, book).reader.asked = r.asked + book.codeword_len
<1> DEFINE n == book.codeword_len
           S == Readings(total)
           base == [value |-> 0, reader |-> r]
<1>1. PICK read :
        /\ decodeScalar(r, book) = read[n] /\ read[0] = base
        /\ \A i \in 0 .. n : read[i] \in S
        /\ \A i \in 1 .. n : read[i] = NextBit(read[i - 1], readBit(read[i - 1].reader))
  BY ScalarTurns
<1>2. r.asked \in Nat /\ entry \in 0 .. Doubled(n) - 1 /\ entry \in Nat /\ n \in Nat
  BY DoubledStep DEF Readers, num_entries_
<1>3. /\ Len(Codeword(book, entry)) = n
      /\ \A i \in 1 .. n : Codeword(book, entry)[i] = (entry \div Doubled(n - i)) % 2
      /\ \A i \in 1 .. n : Codeword(book, entry)[i] \in Bit
  <2>1. /\ Codeword(book, entry) \in Seq(Bit) /\ Len(Codeword(book, entry)) = n
        /\ \A i \in 1 .. n : Codeword(book, entry)[i] = (entry \div Doubled(n - i)) % 2
    BY <1>2, CodewordType
  <2> QED
    BY <2>1
<1> DEFINE f == [i \in 0 .. n |-> read[i].value]
           At_ == {i \in 0 .. n : read[i].reader.asked = r.asked + i}
<1>4. 0 \in At_
  BY <1>1, <1>2
<1>5. ASSUME NEW i \in 1 .. n, i - 1 \in At_
      PROVE  /\ read[i].reader.asked = r.asked + i
             /\ read[i].value = 2 * read[i - 1].value + ((entry \div Doubled(n - i)) % 2)
  <2> DEFINE before == read[i - 1].reader
             bit == readBit(before)
             b == Codeword(book, entry)[i]
  <2>1. i - 1 \in 0 .. n /\ before.asked = r.asked + (i - 1) /\ r.asked + (i - 1) = r.asked + i - 1
    BY <1>2, <1>5
  <2>2. before \in Readers(total) /\ read[i - 1].value \in Nat
    BY <1>1, <2>1 DEF Readings
  <2>3. b \in Bit /\ before.asked \in DOMAIN packet /\ packet[before.asked] = b
    BY <1>3, <2>1 DEF Holds
  <2> HIDE DEF before, b
  <2>4. bit.value = b /\ bit.reader \in Readers(total) /\ bit.reader.asked = before.asked + 1
    BY <2>2, <2>3, BitIsRead
  <2>5. read[i].value = 2 * read[i - 1].value + bit.value /\ read[i].reader = bit.reader
    <3>1. read[i] = NextBit(read[i - 1], bit)
      BY <1>1 DEF before
    <3> QED
      BY <3>1 DEF NextBit
  <2> HIDE DEF bit
  <2>6. before.asked + 1 = r.asked + i
    BY <1>2, <2>1
  <2> QED
    BY <1>3, <2>4, <2>5, <2>6 DEF b
<1>6. \A i \in 0 .. n : i \in At_
  <2>1. ASSUME NEW i \in 0 + 1 .. n, i - 1 \in At_ PROVE i \in At_
    BY <1>5, <2>1
  <2>2. 0 \in Int /\ n \in Int
    BY <1>2
  <2> HIDE DEF At_
  <2> QED
    BY <1>4, <2>1, <2>2, UpTo
<1>7. f[0] = 0 /\ \A i \in 1 .. n : f[i] = 2 * f[i - 1] + ((entry \div Doubled(n - i)) % 2)
  <2>1. f[0] = 0
    BY <1>1
  <2>2. ASSUME NEW i \in 1 .. n
        PROVE  f[i] = 2 * f[i - 1] + ((entry \div Doubled(n - i)) % 2)
    <3>1. i \in 0 .. n /\ i - 1 \in 0 .. n
      OBVIOUS
    <3>2. f[i] = read[i].value /\ f[i - 1] = read[i - 1].value
      BY <3>1
    <3> HIDE DEF f, At_
    <3>3. i - 1 \in At_
      BY <1>6, <3>1
    <3> QED
      BY <1>5, <3>2, <3>3
  <2> QED
    BY <2>1, <2>2
<1>8. f[n] = read[n].value /\ n \in 0 .. n
  BY <1>2
<1> HIDE DEF f
<1>9. f[n] = entry
  BY <1>2, <1>7, HighestBits
<1>10. read[n].reader.asked = r.asked + n /\ read[n].reader \in Readers(total)
  <2>1. n \in At_ /\ read[n] \in S
    BY <1>1, <1>6, <1>8
  <2> QED
    BY <2>1 DEF Readings
<1> QED
  BY <1>1, <1>8, <1>9, <1>10

-----------------------------------------------------------------------------
(* The entries of a partition                                              *)

LEMMA EntriesOfType ==
  ASSUME NEW book, book.codeword_len \in Nat, NEW nv \in Nat,
         NEW picked \in [0 .. nv - 1 -> Nat]
  PROVE  \E f : /\ EntriesOf(book, picked) = Joined(f, nv)
                /\ AreBits(f, nv)
                /\ \A k \in 0 .. nv - 1 : f[k] = Codeword(book, picked[k])
<1> DEFINE f == [k \in DOMAIN picked |-> Codeword(book, picked[k])]
<1>1. DOMAIN picked = 0 .. nv - 1 /\ Cardinality(DOMAIN picked) = nv
  BY CountOf
<1>2. \A k \in 0 .. nv - 1 : f[k] = Codeword(book, picked[k])
  BY <1>1
<1>3. EntriesOf(book, picked) = Joined(f, nv)
  BY <1>1 DEF EntriesOf
<1>4. AreBits(f, nv)
  <2>1. ASSUME NEW k \in 0 .. nv - 1 PROVE f[k] \in Seq(Bit)
    <3>1. picked[k] \in Nat
      OBVIOUS
    <3>2. Codeword(book, picked[k]) \in Seq(Bit)
      BY <3>1, CodewordType
    <3> QED
      BY <1>2, <3>2
  <2> QED
    BY <2>1 DEF AreBits
<1> HIDE DEF f
<1> QED
  BY <1>2, <1>3, <1>4

LEMMA EntriesAreRead ==
  ASSUME NEW total \in Nat, DOMAIN packet = 0 .. total - 1, reader \in Readers(total),
         NEW book, book.codeword_len \in Nat, NEW nv \in Nat, NumVectors(book) = nv,
         NEW picked \in [0 .. nv - 1 -> 0 .. num_entries_(book) - 1],
         Holds(reader.asked, EntriesOf(book, picked))
  PROVE  /\ \A k \in 0 .. nv - 1 : Entries(book)[k + 1].value = picked[k]
         /\ Entries(book)[nv].reader.asked = reader.asked + Len(EntriesOf(book, picked))
<1> DEFINE a == reader.asked
           read == Entries(book)
<1>1. a \in Nat
  BY DEF Readers
<1>2. \A k \in 0 .. nv - 1 : picked[k] \in 0 .. num_entries_(book) - 1 /\ picked[k] \in Nat
  OBVIOUS
<1>3. PICK f : /\ EntriesOf(book, picked) = Joined(f, nv)
               /\ AreBits(f, nv)
               /\ \A k \in 0 .. nv - 1 : f[k] = Codeword(book, picked[k])
  <2>1. picked \in [0 .. nv - 1 -> Nat]
    BY <1>2
  <2> QED
    BY <2>1, EntriesOfType
<1>4. /\ Joined(f, 0) = <<>>
      /\ \A i \in 0 .. nv : Joined(f, i) \in Seq(Bit)
      /\ \A i \in 1 .. nv : Joined(f, i) = Joined(f, i - 1) \o f[i - 1]
  BY <1>3, JoinedStep
<1>5. /\ read[0] = [value |-> 0, reader |-> reader]
      /\ \A i \in 0 .. nv : read[i] \in Readings(total)
      /\ \A i \in 1 .. nv : read[i] = decodeScalar(read[i - 1].reader, book)
  BY EntriesTurns
<1> HIDE DEF read, a
<1> DEFINE G == {i \in 0 .. nv : read[i].reader.asked = a + Len(Joined(f, i))}
<1>6. 0 \in G
  <2>1. Len(Joined(f, 0)) = 0
    BY <1>4
  <2>2. read[0].reader.asked = a
    BY <1>5 DEF a
  <2> QED
    BY <1>1, <2>1, <2>2
<1>7. ASSUME NEW i \in 1 .. nv, i - 1 \in G
      PROVE  read[i].value = picked[i - 1] /\ i \in G
  <2> DEFINE r == read[i - 1].reader
             entry == picked[i - 1]
             before == Joined(f, i - 1)
  <2>1. i - 1 \in 0 .. nv - 1 /\ i - 1 \in 0 .. nv /\ i \in 0 .. nv
    OBVIOUS
  <2>2. r \in Readers(total) /\ r.asked = a + Len(before)
    BY <1>5, <1>7, <2>1 DEF Readings
  <2>3. Holds(a + Len(before), f[i - 1])
    BY <1>1, <1>3, <2>1, HoldsJoined DEF a
  <2>4. entry \in 0 .. num_entries_(book) - 1 /\ entry \in Nat /\ f[i - 1] = Codeword(book, entry)
    BY <1>2, <1>3, <2>1
  <2>5. Joined(f, i) = before \o f[i - 1] /\ before \in Seq(Bit)
    BY <1>4, <2>1
  <2>6. read[i] = decodeScalar(r, book)
    BY <1>5
  <2> HIDE DEF r, entry, before, G
  <2>7. Holds(r.asked, Codeword(book, entry))
    BY <2>2, <2>3, <2>4
  <2>8. read[i].value = entry /\ read[i].reader.asked = r.asked + book.codeword_len
    BY <2>2, <2>4, <2>6, <2>7, CodewordIsRead
  <2>9. f[i - 1] \in Seq(Bit) /\ Len(f[i - 1]) = book.codeword_len
    BY <2>4, CodewordType
  <2>10. Len(Joined(f, i)) = Len(before) + book.codeword_len /\ Len(before) \in Nat
    <3> DEFINE t == f[i - 1]
    <3>1. t \in Seq(Bit) /\ Len(t) = book.codeword_len /\ Joined(f, i) = before \o t
      BY <2>5, <2>9
    <3> HIDE DEF t
    <3> QED
      BY <2>5, <3>1, BothType
  <2>11. read[i].reader.asked = a + Len(Joined(f, i))
    BY <1>1, <2>2, <2>8, <2>10
  <2> QED
    BY <2>1, <2>8, <2>11 DEF entry, G
<1>8. \A i \in 0 .. nv : i \in G
  <2>1. ASSUME NEW i \in 0 + 1 .. nv, i - 1 \in G PROVE i \in G
    BY <1>7, <2>1
  <2>2. 0 \in Int /\ nv \in Int
    OBVIOUS
  <2> HIDE DEF G
  <2> QED
    BY <1>6, <2>1, <2>2, UpTo
<1>9. ASSUME NEW k \in 0 .. nv - 1 PROVE read[k + 1].value = picked[k]
  <2>1. k + 1 \in 1 .. nv /\ (k + 1) - 1 = k /\ k \in 0 .. nv
    OBVIOUS
  <2> HIDE DEF G
  <2>2. (k + 1) - 1 \in G
    BY <1>8, <2>1
  <2>3. read[k + 1].value = picked[(k + 1) - 1]
    BY <1>7, <2>1, <2>2
  <2> QED
    BY <2>1, <2>3
<1>10. read[nv].reader.asked = a + Len(EntriesOf(book, picked))
  <2>1. nv \in 0 .. nv
    OBVIOUS
  <2> QED
    BY <1>3, <1>8, <2>1
<1> QED
  BY <1>9, <1>10 DEF read, a

-----------------------------------------------------------------------------
(* Classwords                                                              *)

\* f[i] is the number that the first i classes from partition q on make.
Numbers(f, r, codings, j, q, n) ==
  f[0] = 0 /\ \A i \in 1 .. n :
    f[i] = f[i - 1] * r.num_classifications + ClassOf(codings, j, q + i - 1)

LEMMA DigitsIs ==
  ASSUME NEW r, NEW codings, NEW j, NEW q, NEW n \in Nat, NEW f,
         Numbers(f, r, codings, j, q, n), NEW k \in 0 .. n
  PROVE  Digits(r, codings, j, q, k) = f[k]
<1> DEFINE d == r.num_classifications
           c(i) == ClassOf(codings, j, q + i - 1)
           Is(l) == l = [i \in 0 .. k |-> IF i = 0 THEN 0 ELSE l[i - 1] * d + c(i)]
           digits == CHOOSE l : Is(l)
           part == [i \in 0 .. k |-> f[i]]
<1>1. f[0] = 0 /\ \A i \in 1 .. k : f[i] = f[i - 1] * d + c(i)
  BY DEF Numbers
<1>4. Digits(r, codings, j, q, k) = digits[k]
  BY DEF Digits
<1> HIDE DEF d, c
<1>2. Is(part)
  BY <1>1
<1>3. Is(digits)
  BY <1>2
<1> HIDE DEF digits, part
<1>5. digits[0] = f[0] /\ \A i \in 1 .. k : digits[i - 1] = f[i - 1] => digits[i] = f[i]
  BY <1>1, <1>3
<1>6. \A i \in 0 .. k : digits[i] = f[i]
  BY <1>5, SameLoop
<1> QED
  BY <1>4, <1>6

\* The classes of partitions.
ClassesFit(r, codings, j, q, n) ==
  \A i \in 0 .. n - 1 : ClassOf(codings, j, q + i) \in 0 .. r.num_classifications - 1

LEMMA DigitsStep ==
  ASSUME NEW r, r.num_classifications \in Nat \ {0}, NEW codings, NEW j, NEW q \in Nat,
         NEW n \in Nat, ClassesFit(r, codings, j, q, n)
  PROVE  /\ Digits(r, codings, j, q, 0) = 0
         /\ \A i \in 0 .. n : Digits(r, codings, j, q, i) \in Nat
         /\ \A i \in 1 .. n :
              Digits(r, codings, j, q, i) =
                Digits(r, codings, j, q, i - 1) * r.num_classifications
                  + ClassOf(codings, j, q + i - 1)
<1> DEFINE d == r.num_classifications
           S == Nat
           c == [i \in 1 .. n |-> ClassOf(codings, j, q + i - 1)]
           g == [kx \in (1 .. n) \X S |-> kx[2] * d + c[kx[1]]]
<1>1. d \in Nat /\ \A i \in 1 .. n : c[i] \in Nat /\ c[i] = ClassOf(codings, j, q + i - 1)
  <2>1. ASSUME NEW i \in 1 .. n PROVE ClassOf(codings, j, q + i - 1) \in Nat
    <3>1. i - 1 \in 0 .. n - 1 /\ q + (i - 1) = q + i - 1
      OBVIOUS
    <3>2. ClassOf(codings, j, q + (i - 1)) \in 0 .. r.num_classifications - 1
      BY <3>1 DEF ClassesFit
    <3> QED
      BY <3>1, <3>2
  <2> QED
    BY <2>1
<1> HIDE DEF d, c
<1>2. g \in [(1 .. n) \X S -> S] /\ 0 \in S
  <2>1. ASSUME NEW x \in Nat, NEW i \in 1 .. n PROVE x * d + c[i] \in Nat
    <3>1. x * d \in Nat
      BY <1>1
    <3> QED
      BY <1>1, <3>1
  <2> QED
    BY <2>1
<1>3. PICK f \in [0 .. n -> S] : f[0] = 0 /\ \A k \in 1 .. n : f[k] = g[<<k, f[k - 1]>>]
  <2> HIDE DEF g, S
  <2>1. HasSeries(S, g, 0, n)
    BY <1>2, SeriesExists
  <2> QED
    BY <2>1 DEF HasSeries
<1>4. \A i \in 1 .. n : f[i] = f[i - 1] * d + c[i]
  <2>1. ASSUME NEW i \in 1 .. n PROVE f[i] = f[i - 1] * d + c[i]
    <3>1. f[i - 1] \in S
      BY <1>3
    <3> HIDE DEF S
    <3>2. <<i, f[i - 1]>> \in (1 .. n) \X S
      BY <3>1
    <3> QED
      BY <1>3, <3>2
  <2> QED
    BY <2>1
<1> HIDE DEF g
<1>5. Numbers(f, r, codings, j, q, n)
  BY <1>1, <1>3, <1>4 DEF Numbers, d
<1>6. \A k \in 0 .. n : Digits(r, codings, j, q, k) = f[k]
  BY <1>5, DigitsIs
<1>7. 0 \in 0 .. n /\ \A i \in 1 .. n : i \in 0 .. n /\ i - 1 \in 0 .. n
  OBVIOUS
<1>8. \A i \in 0 .. n : f[i] \in Nat
  BY <1>3
<1> QED
  BY <1>1, <1>3, <1>4, <1>6, <1>7, <1>8 DEF d

\* decode's divisions of a classword by the number of classes, the last class
\* first, take the encoder's digits apart again.
THEOREM ClassesBack ==
  ASSUME residue.num_classifications \in Nat \ {0}, classwords_per_codeword \in Nat \ {0},
         NEW codings, NEW j, NEW q \in Nat,
         ClassesFit(residue, codings, j, q, classwords_per_codeword),
         NEW i \in 0 .. classwords_per_codeword - 1
  PROVE  /\ ClasswordEntry(residue, codings, j, q) \in Nat
         /\ Class(ClasswordEntry(residue, codings, j, q), i) = ClassOf(codings, j, q + i)
<1> DEFINE n == classwords_per_codeword
           d == residue.num_classifications
           D == [k \in 0 .. n |-> Digits(residue, codings, j, q, k)]
           c == [k \in 1 .. n |-> ClassOf(codings, j, q + k - 1)]
           temp == D[n]
<1>1. /\ D[0] = 0 /\ \A k \in 0 .. n : D[k] \in Nat
      /\ \A k \in 1 .. n : D[k] = D[k - 1] * d + c[k]
  <2>1. 0 \in 0 .. n /\ \A k \in 1 .. n : k \in 0 .. n /\ k - 1 \in 0 .. n
    OBVIOUS
  <2> QED
    BY <2>1, DigitsStep
<1>2. \A k \in 1 .. n : c[k] \in 0 .. d - 1
  <2>1. ASSUME NEW k \in 1 .. n PROVE ClassOf(codings, j, q + k - 1) \in 0 .. d - 1
    <3>1. k - 1 \in 0 .. n - 1 /\ q + (k - 1) = q + k - 1
      OBVIOUS
    <3>2. ClassOf(codings, j, q + (k - 1)) \in 0 .. d - 1
      BY <3>1 DEF ClassesFit
    <3> QED
      BY <3>1, <3>2
  <2> QED
    BY <2>1
<1>3. n \in Nat \ {0} /\ d \in Nat \ {0} /\ i \in 0 .. n - 1 /\ temp \in Nat
  BY <1>1
<1>4. c[i + 1] = ClassOf(codings, j, q + i)
  <2>1. i + 1 \in 1 .. n /\ q + (i + 1) - 1 = q + i
    OBVIOUS
  <2> QED
    BY <2>1
<1>5. ClasswordEntry(residue, codings, j, q) = temp
  BY <1>3 DEF ClasswordEntry, classwords_per_codeword, class_codebook
<1>6. /\ Quotient(temp, 0) = temp
      /\ \A k \in 1 .. n : Quotient(temp, k) = Quotient(temp, k - 1) \div d
  BY <1>3, QuotientStep
<1>7. Class(temp, i) = Quotient(temp, n - 1 - i) % d
  BY DEF Class
<1> HIDE DEF D, c, n, d
<1>8. ASSUME NEW k \in 1 .. n
      PROVE  D[k] \div d = D[k - 1] /\ D[k] % d = c[k]
  <2> DEFINE x == D[k - 1]
             t == c[k]
  <2>1. x \in Nat /\ t \in 0 .. d - 1 /\ D[k] = x * d + t
    BY <1>1, <1>2, <1>3
  <2> HIDE DEF x, t
  <2>2. D[k] = d * x + t
    BY <1>3, <2>1
  <2>3. (d * x + t) \div d = x /\ ((d * x + t) % d) = t
    BY <1>3, <2>1, Divided
  <2>4. D[k] \div d = x /\ (D[k] % d) = t
    BY <2>2, <2>3
  <2> QED
    BY <2>4 DEF x, t
<1> DEFINE h == [k \in 0 .. n |-> D[n - k]]
           f == [k \in 0 .. n |-> Quotient(temp, k)]
<1>9. f[0] = h[0]
  BY <1>3, <1>6
<1>10. ASSUME NEW k \in 1 .. n, f[k - 1] = h[k - 1] PROVE f[k] = h[k]
  <2>1. k \in 0 .. n /\ k - 1 \in 0 .. n /\ n - (k - 1) \in 1 .. n /\ (n - (k - 1)) - 1 = n - k
    BY <1>3
  <2>2. f[k] = f[k - 1] \div d
    BY <1>6, <2>1
  <2>3. h[k - 1] \div d = D[(n - (k - 1)) - 1]
    BY <1>8, <2>1
  <2> QED
    BY <1>10, <2>1, <2>2, <2>3
<1>11. \A k \in 0 .. n : f[k] = h[k]
  <2> HIDE DEF f, h
  <2>1. n \in Nat
    BY <1>3
  <2>2. \A k \in 1 .. n : f[k - 1] = h[k - 1] => f[k] = h[k]
    BY <1>10
  <2> QED
    BY <1>9, <2>1, <2>2, SameLoop
<1>12. n - 1 - i \in 0 .. n /\ n - (n - 1 - i) = i + 1 /\ i + 1 \in 1 .. n
  BY <1>3
<1>13. Quotient(temp, n - 1 - i) = D[i + 1]
  BY <1>11, <1>12
<1> QED
  BY <1>3, <1>4, <1>5, <1>7, <1>8, <1>12, <1>13

-----------------------------------------------------------------------------
(***************************************************************************)
(* The layout of a partition.  If it is made of whole vectors, each of its *)
(* places has one component of one of them, where the encoder takes it     *)
(* from, and there are no others.                                          *)
(***************************************************************************)

\* The two ways to count places, and that each is counted once.
LEMMA PlaceIsCounted ==
  ASSUME NEW d \in Nat \ {0}, NEW n \in Nat, NEW x \in 0 .. n * d - 1
  PROVE  /\ x \div d \in 0 .. n - 1 /\ x % d \in 0 .. d - 1
         /\ (x \div d) * d + (x % d) = x
         /\ \A k \in 0 .. n - 1, l \in 0 .. d - 1 :
              k * d + l = x => k = x \div d /\ l = x % d
<1> DEFINE q == x \div d
           t == x % d
<1>1. x \in Nat /\ n * d \in Nat
  OBVIOUS
<1>2. q \in Nat /\ t \in 0 .. d - 1 /\ x = d * q + t
  BY <1>1, Division
<1>3. ASSUME NEW k \in Nat, NEW l \in 0 .. d - 1, k * d + l = x
      PROVE  k = q /\ l = t
  <2>1. d * k + l = x
    BY <1>3
  <2>2. (d * k + l) \div d = k /\ ((d * k + l) % d) = l
    BY Divided
  <2> QED
    BY <2>1, <2>2
<1> HIDE DEF q, t
<1>4. q <= n - 1
  <2>1. SUFFICES ASSUME n <= q PROVE FALSE
    BY <1>2
  <2>2. d * n <= d * q
    BY <1>2, <2>1
  <2>3. d * n = n * d
    OBVIOUS
  <2> DEFINE y == d * q
             z == n * d
  <2>4. y \in Nat /\ z \in Nat /\ z <= y /\ x = y + t
    BY <1>1, <1>2, <2>2, <2>3
  <2>5. x \in 0 .. z - 1
    OBVIOUS
  <2> HIDE DEF y, z
  <2> QED
    BY <1>2, <2>4, <2>5
<1>5. q * d + t = x
  <2>1. q * d = d * q
    BY <1>2
  <2> QED
    BY <1>2, <2>1
<1> QED
  BY <1>2, <1>3, <1>4, <1>5 DEF q, t

\* A residue's codebook whose vectors make up its partitions.
FitsBook(r, b) ==
  /\ b \in VQBooks
  /\ r.partition_size \in Nat \ {0}
  /\ r.partition_size % Codebooks[b].dimensions = 0

VectorsIn(r, b) == r.partition_size \div Codebooks[b].dimensions

LEMMA VectorsFit ==
  ASSUME NEW r, NEW b, FitsBook(r, b)
  PROVE  /\ Codebooks[b].dimensions \in Nat \ {0} /\ VectorsIn(r, b) \in Nat
         /\ r.partition_size = VectorsIn(r, b) * Codebooks[b].dimensions
<1> DEFINE d == Codebooks[b].dimensions
           size == r.partition_size
<1>1. d \in Nat \ {0} /\ size \in Nat \ {0} /\ size % d = 0
  BY ResidueAssumption DEF FitsBook, VQBooks
<1> HIDE DEF d, size
<1>2. size \div d \in Nat /\ size = (size \div d) * d
  BY <1>1
<1> QED
  BY <1>1, <1>2 DEF VectorsIn, d, size

\* Where the encoder takes a place's component from.
LEMMA HomeIsThere ==
  ASSUME NEW r, NEW b, FitsBook(r, b), NEW x \in 0 .. r.partition_size - 1
  PROVE  /\ Home(r, Codebooks[b], x)[1] \in 0 .. VectorsIn(r, b) - 1
         /\ Home(r, Codebooks[b], x)[2] \in 0 .. Codebooks[b].dimensions - 1
<1> DEFINE d == Codebooks[b].dimensions
           n == VectorsIn(r, b)
<1>1. d \in Nat \ {0} /\ n \in Nat /\ r.partition_size = n * d
  BY VectorsFit
<1>2. Home(r, Codebooks[b], x) = IF r.type = 0 THEN <<x % n, x \div n>>
                                 ELSE <<x \div d, x % d>>
  BY DEF Home, VectorsIn
<1> HIDE DEF d, n
<1>3. x \in 0 .. n * d - 1
  BY <1>1
<1>4. n \in Nat \ {0}
  <2>1. CASE n = 0
    <3>1. n * d = 0
      BY <1>1, <2>1
    <3> QED
      BY <1>3, <3>1
  <2> QED
    BY <1>1, <2>1
<1>5. x \in 0 .. d * n - 1
  BY <1>1, <1>3
<1>6. x \div d \in 0 .. n - 1 /\ x % d \in 0 .. d - 1
  BY <1>1, <1>3, PlaceIsCounted
<1>7. x \div n \in 0 .. d - 1 /\ x % n \in 0 .. n - 1
  BY <1>1, <1>4, <1>5, PlaceIsCounted
<1> QED
  BY <1>2, <1>6, <1>7 DEF d, n

\* It is also the one component that the decoder adds there.
LEMMA AtIsHome ==
  ASSUME residue.type \in 0 .. 2, NEW b, FitsBook(residue, b)
  PROVE  /\ NumVectors(Codebooks[b]) = VectorsIn(residue, b)
         /\ \A x \in 0 .. residue.partition_size - 1 :
              At(Codebooks[b], x) = {Home(residue, Codebooks[b], x)}
         /\ \A x \in Int \ (0 .. residue.partition_size - 1) : At(Codebooks[b], x) = {}
<1> DEFINE book == Codebooks[b]
           d == book.dimensions
           n == VectorsIn(residue, b)
           size == residue.partition_size
<1>1. d \in Nat \ {0} /\ n \in Nat /\ size = n * d /\ size \in Nat \ {0}
  BY VectorsFit DEF FitsBook
<1>2. n = size \div d /\ size % d = 0
  BY DEF VectorsIn, FitsBook
<1>3. (type = 0) <=> (residue.type = 0)
  BY DEF type
<1>4. (size + d - 1) \div d = n
  <2> HIDE DEF n, d, size
  <2>1. size + d - 1 = d * n + (d - 1) /\ d - 1 \in 0 .. d - 1
    BY <1>1
  <2>2. (d * n + (d - 1)) \div d = n
    BY <1>1, <2>1, Divided
  <2> QED
    BY <2>1, <2>2
<1>5. NumVectors(book) = n
  BY <1>2, <1>4 DEF NumVectors
<1>6. \A k, l : Place(book, k, l) = IF type = 0 THEN k + l * n ELSE k * d + l
  BY <1>2 DEF Place
<1>7. \A x : Home(residue, book, x) = IF type = 0 THEN <<x % n, x \div n>>
                                      ELSE <<x \div d, x % d>>
  BY <1>3 DEF Home, VectorsIn
<1>8. Components(book) = (0 .. n - 1) \X (0 .. d - 1)
  BY <1>5 DEF Components
<1> HIDE DEF n, d, size
<1>9. ASSUME NEW x \in 0 .. size - 1, type = 0
      PROVE  At(book, x) = {Home(residue, book, x)}
  <2>1. n \in Nat \ {0}
    <3>1. CASE n = 0
      <4>1. n * d = 0
        BY <1>1, <3>1
      <4> QED
        BY <1>1, <4>1
    <3> QED
      BY <1>1, <3>1
  <2>2. x \in 0 .. d * n - 1
    BY <1>1
  <2>3. /\ x \div n \in 0 .. d - 1 /\ x % n \in 0 .. n - 1
        /\ (x \div n) * n + (x % n) = x
        /\ \A l \in 0 .. d - 1, k \in 0 .. n - 1 :
             l * n + k = x => l = x \div n /\ k = x % n
    BY <1>1, <2>1, <2>2, PlaceIsCounted
  <2>4. \A k \in 0 .. n - 1, l \in 0 .. d - 1 : k + l * n = l * n + k
    BY <1>1
  <2> DEFINE k0 == x % n
             l0 == x \div n
  <2>5. /\ l0 \in 0 .. d - 1 /\ k0 \in 0 .. n - 1 /\ k0 + l0 * n = x
        /\ \A l \in 0 .. d - 1, k \in 0 .. n - 1 : k + l * n = x => l = l0 /\ k = k0
    BY <2>3, <2>4
  <2>6. Home(residue, book, x) = <<k0, l0>>
    BY <1>7, <1>9
  <2>7. \A k, l : Place(book, k, l) = k + l * n
    BY <1>6, <1>9
  <2> HIDE DEF k0, l0
  <2>8. \A kl \in Components(book) : Place(book, kl[1], kl[2]) = x => kl = <<k0, l0>>
    BY <1>8, <2>5, <2>7
  <2>9. <<k0, l0>> \in Components(book) /\ Place(book, k0, l0) = x
    BY <1>8, <2>5, <2>7
  <2> QED
    BY <2>6, <2>8, <2>9 DEF At
<1>10. ASSUME NEW x \in 0 .. size - 1, type # 0
       PROVE  At(book, x) = {Home(residue, book, x)}
  <2>1. x \in 0 .. n * d - 1
    BY <1>1
  <2> DEFINE k0 == x \div d
             l0 == x % d
  <2>2. /\ k0 \in 0 .. n - 1 /\ l0 \in 0 .. d - 1 /\ k0 * d + l0 = x
        /\ \A k \in 0 .. n - 1, l \in 0 .. d - 1 : k * d + l = x => k = k0 /\ l = l0
    BY <1>1, <2>1, PlaceIsCounted
  <2>3. Home(residue, book, x) = <<k0, l0>>
    BY <1>7, <1>10
  <2>4. \A k, l : Place(book, k, l) = k * d + l
    BY <1>6, <1>10
  <2> HIDE DEF k0, l0
  <2>5. \A kl \in Components(book) : Place(book, kl[1], kl[2]) = x => kl = <<k0, l0>>
    BY <1>8, <2>2, <2>4
  <2>6. <<k0, l0>> \in Components(book) /\ Place(book, k0, l0) = x
    BY <1>8, <2>2, <2>4
  <2> QED
    BY <2>3, <2>5, <2>6 DEF At
<1>11. ASSUME NEW x \in Int \ (0 .. size - 1)
       PROVE  At(book, x) = {}
  <2>1. ASSUME NEW k \in 0 .. n - 1, NEW l \in 0 .. d - 1
        PROVE  Place(book, k, l) \in 0 .. size - 1
    <3>1. /\ \A i \in 0 .. (size \div d) - 1 : i + l * (size \div d) \in 0 .. size - 1
          /\ \A i \in 0 .. ((size + d - 1) \div d) - 1 : i * d + l \in 0 .. size - 1
      BY <1>1, <1>2, PlaceInPartition
    <3>2. k + l * n \in 0 .. size - 1 /\ k * d + l \in 0 .. size - 1
      BY <1>2, <1>4, <3>1
    <3> QED
      BY <1>6, <3>2
  <2> QED
    BY <1>8, <2>1 DEF At
<1> QED
  BY <1>5, <1>9, <1>10, <1>11 DEF n, d, size

\* The entries that are read for n vectors.
Reads(book, picked, n) == \A k \in 0 .. n - 1 : Entries(book)[k + 1].value = picked[k]

\* What the entries e have for place x of a partition.
ShareOf(r, b, e, x) ==
  Vectors[b][e[Home(r, Codebooks[b], x)[1]]][Home(r, Codebooks[b], x)[2]]

\* new has the shares of a partition added to old.
HasShares(new, old, b, e, len) ==
  /\ \A x \in 0 .. residue.partition_size - 1 :
       offset + x \in 0 .. len - 1 =>
         new[offset + x] = old[offset + x] + ShareOf(residue, b, e, x)
  /\ \A p \in 0 .. len - 1 :
       p - offset \notin 0 .. residue.partition_size - 1 => new[p] = old[p]

\* With the entries that the encoder has picked, its vectors are added up.
LEMMA AddedIs ==
  ASSUME residue.type \in 0 .. 2, NEW b, FitsBook(residue, b),
         NEW picked, Reads(Codebooks[b], picked, VectorsIn(residue, b)),
         offset \in Int, NEW len \in Nat, NEW v, DOMAIN v = 0 .. len - 1
  PROVE  HasShares(Added(v, b), v, b, picked, len)
<1> DEFINE book == Codebooks[b]
           entries == Entries(book)
           size == residue.partition_size
           value(kl) == Vectors[b][entries[kl[1] + 1].value][kl[2]]
<1>1. \A p \in 0 .. len - 1 : Added(v, b)[p] =
        IF At(book, p - offset) = {} THEN v[p]
        ELSE v[p] + value(CHOOSE kl \in At(book, p - offset) : TRUE)
  BY DEF Added
<1>2. /\ \A x \in 0 .. size - 1 : At(book, x) = {Home(residue, book, x)}
      /\ \A x \in Int \ (0 .. size - 1) : At(book, x) = {}
  BY AtIsHome
<1>3. ASSUME NEW x \in 0 .. size - 1, offset + x \in 0 .. len - 1
      PROVE  Added(v, b)[offset + x] = v[offset + x] + ShareOf(residue, b, picked, x)
  <2> DEFINE home == Home(residue, book, x)
  <2>1. x \in Int
    BY DEF FitsBook
  <2>2. (offset + x) - offset = x
    BY <2>1
  <2>3. At(book, x) = {home}
    BY <1>2
  <2>4. (CHOOSE kl \in At(book, x) : TRUE) = home
    BY <2>3
  <2>5. home[1] \in 0 .. VectorsIn(residue, b) - 1
    BY HomeIsThere
  <2> HIDE DEF home
  <2>6. entries[home[1] + 1].value = picked[home[1]]
    BY <2>5 DEF Reads
  <2>7. Added(v, b)[offset + x] = v[offset + x] + value(home)
    BY <1>1, <1>3, <2>2, <2>3, <2>4
  <2> QED
    BY <2>6, <2>7 DEF home, ShareOf
<1>4. ASSUME NEW p \in 0 .. len - 1, p - offset \notin 0 .. size - 1
      PROVE  Added(v, b)[p] = v[p]
  <2>1. At(book, p - offset) = {}
    BY <1>2, <1>4
  <2> QED
    BY <1>1, <2>1
<1> QED
  BY <1>3, <1>4 DEF HasShares

-----------------------------------------------------------------------------
(***************************************************************************)
(* The entries of a partition: pass after pass takes the vectors it has    *)
(* picked from what was left, and in the end nothing is.                   *)
(***************************************************************************)

FirstLayer(t) == [ok |-> TRUE, rest |-> t, picked |-> <<>>]

\* l is what Layers makes in its first n turns.
LayersTo(l, r, c, t, reach, n) ==
  l = [p \in 0 .. n |-> IF p = 0 THEN FirstLayer(t)
                        ELSE AddLayer(r, r.books[c][p - 1], l[p - 1], reach[p])]

LEMMA LayersExist ==
  ASSUME NEW r, NEW c, NEW t, NEW reach, NEW n \in Nat
  PROVE  \E l : LayersTo(l, r, c, t, reach, n)
<1> DEFINE G == {k \in 0 .. n : \E l : LayersTo(l, r, c, t, reach, k)}
<1>1. 0 \in G
  <2> DEFINE l == [p \in 0 .. 0 |-> FirstLayer(t)]
  <2>1. \A p \in 0 .. 0 : p = 0
    OBVIOUS
  <2>2. l = [p \in 0 .. 0 |-> IF p = 0 THEN FirstLayer(t)
                              ELSE AddLayer(r, r.books[c][p - 1], l[p - 1], reach[p])]
    BY <2>1
  <2>3. LayersTo(l, r, c, t, reach, 0)
    BY <2>2 DEF LayersTo
  <2> HIDE DEF l
  <2> QED
    BY <2>3
<1>2. ASSUME NEW k \in 0 + 1 .. n, k - 1 \in G PROVE k \in G
  <2>1. PICK f : LayersTo(f, r, c, t, reach, k - 1)
    BY <1>2
  <2>2. \A p \in 0 .. k - 1 : f[p] = IF p = 0 THEN FirstLayer(t)
                        ELSE AddLayer(r, r.books[c][p - 1], f[p - 1], reach[p])
    BY <2>1 DEF LayersTo
  <2> DEFINE l == [p \in 0 .. k |-> IF p < k THEN f[p]
                     ELSE AddLayer(r, r.books[c][p - 1], f[p - 1], reach[p])]
  <2>3. ASSUME NEW p \in 0 .. k
        PROVE  l[p] = IF p = 0 THEN FirstLayer(t)
                      ELSE AddLayer(r, r.books[c][p - 1], l[p - 1], reach[p])
    <3>1. CASE p = 0
      <4>1. l[p] = f[p] /\ p \in 0 .. k - 1
        BY <3>1
      <4> QED
        BY <2>2, <3>1, <4>1
    <3>2. CASE p # 0
      <4>1. l[p - 1] = f[p - 1] /\ p - 1 \in 0 .. k
        BY <3>2
      <4>2. CASE p < k
        <5>1. l[p] = f[p] /\ p \in 0 .. k - 1
          BY <4>2
        <5> QED
          BY <2>2, <3>2, <4>1, <5>1
      <4>3. CASE ~(p < k)
        <5>1. l[p] = AddLayer(r, r.books[c][p - 1], f[p - 1], reach[p])
          BY <4>3
        <5> QED
          BY <3>2, <4>1, <5>1
      <4> QED
        BY <4>2, <4>3
    <3> QED
      BY <3>1, <3>2
  <2>4. l = [p \in 0 .. k |-> l[p]]
    OBVIOUS
  <2> HIDE DEF l
  <2>5. LayersTo(l, r, c, t, reach, k)
    BY <2>3, <2>4 DEF LayersTo
  <2> QED
    BY <2>5
<1> HIDE DEF G
<1>3. 0 \in Int /\ n \in Int /\ n \in 0 .. n
  OBVIOUS
<1>4. n \in G
  BY <1>1, <1>2, <1>3, UpTo
<1> QED
  BY <1>4 DEF G

LEMMA LayersTurns ==
  ASSUME NEW r, NEW c, NEW t, NEW reach
  PROVE  \E l : /\ Layers(r, c, t, reach) = l[Passes]
                /\ l[0] = FirstLayer(t)
                /\ \A p \in 1 .. Passes :
                     l[p] = AddLayer(r, r.books[c][p - 1], l[p - 1], reach[p])
<1> DEFINE Is(l) == l = [p \in 0 .. Passes |-> IF p = 0 THEN [ok |-> TRUE, rest |-> t, picked |-> <<>>]
                        ELSE AddLayer(r, r.books[c][p - 1], l[p - 1], reach[p])]
           layers == CHOOSE l : Is(l)
<1>1. Passes \in Nat \ {0}
  BY ResidueAssumption
<1>2. \E l : Is(l)
  <2>1. Passes \in Nat
    BY <1>1
  <2>2. PICK l : LayersTo(l, r, c, t, reach, Passes)
    BY <2>1, LayersExist
  <2>3. Is(l)
    BY <2>2 DEF LayersTo, FirstLayer
  <2> QED
    BY <2>3
<1>3. Is(layers)
  BY <1>2
<1>4. Layers(r, c, t, reach) = layers[Passes]
  BY DEF Layers
<1> HIDE DEF layers
<1>5. layers[0] = FirstLayer(t)
  BY <1>1, <1>3 DEF FirstLayer
<1>6. ASSUME NEW p \in 1 .. Passes
      PROVE  layers[p] = AddLayer(r, r.books[c][p - 1], layers[p - 1], reach[p])
  <2>1. p \in 0 .. Passes /\ p # 0
    BY <1>1
  <2> HIDE DEF Is
  <2>2. layers = [i \in 0 .. Passes |-> IF i = 0 THEN [ok |-> TRUE, rest |-> t, picked |-> <<>>]
                        ELSE AddLayer(r, r.books[c][i - 1], layers[i - 1], reach[i])]
    BY <1>3 DEF Is
  <2> QED
    BY <2>1, <2>2, Zenon
<1> QED
  BY <1>4, <1>5, <1>6

\* What a pass can have picked: an entry for each vector, or nothing.
PicksOf(r, b) == [0 .. VectorsIn(r, b) - 1 -> DOMAIN Vectors[b]]
Picks(r) == {<<>>} \union UNION {PicksOf(r, b) : b \in VQBooks}

Numbered(r) == [0 .. r.partition_size - 1 -> Int]
LayerType(r) == [ok : BOOLEAN, rest : Numbered(r), picked : Seq(Picks(r))]

LEMMA EntriesDomain ==
  ASSUME NEW b \in VQBooks
  PROVE  DOMAIN Vectors[b] = 0 .. num_entries_(Codebooks[b]) - 1
<1>1. Vectors[b] = lookup_table_(Codebooks[b])
  BY DEF Vectors, Table, VQBooks
<1>2. DOMAIN lookup_table_(Codebooks[b]) = 0 .. num_entries_(Codebooks[b]) - 1
  BY DEF lookup_table_, Table
<1> QED
  BY <1>1, <1>2

LEMMA RestType ==
  ASSUME NEW r, NEW b, FitsBook(r, b), NEW t \in Numbered(r), NEW e \in PicksOf(r, b)
  PROVE  /\ Rest(r, b, t, e) \in Numbered(r)
         /\ \A x \in 0 .. r.partition_size - 1 :
              /\ Rest(r, b, t, e)[x] = t[x] - ShareOf(r, b, e, x)
              /\ ShareOf(r, b, e, x) \in Int
<1> DEFINE X == 0 .. r.partition_size - 1
           home(x) == Home(r, Codebooks[b], x)
           part(x) == Vectors[b][e[home(x)[1]]][home(x)[2]]
<1>1. DOMAIN t = X /\ \A x \in X : t[x] \in Int
  BY DEF Numbered
<1>2. Rest(r, b, t, e) = [x \in X |-> t[x] - part(x)]
  BY <1>1, TableIsItself DEF Rest
<1>3. ASSUME NEW x \in X PROVE part(x) \in Int
  <2>1. /\ home(x)[1] \in 0 .. VectorsIn(r, b) - 1
        /\ home(x)[2] \in 0 .. Codebooks[b].dimensions - 1
    BY HomeIsThere
  <2>2. b \in VQBooks /\ DOMAIN Vectors[b] = 0 .. num_entries_(Codebooks[b]) - 1
    BY EntriesDomain DEF FitsBook
  <2> HIDE DEF home
  <2>3. e[home(x)[1]] \in 0 .. num_entries_(Codebooks[b]) - 1
    BY <2>1, <2>2 DEF PicksOf
  <2> QED
    BY <2>1, <2>2, <2>3, VectorsType
<1> HIDE DEF part, X
<1>4. \A x \in X : t[x] - part(x) \in Int
  BY <1>1, <1>3
<1>5. [x \in X |-> t[x] - part(x)] \in [X -> Int]
  BY <1>4
<1>6. \A x \in X : part(x) = ShareOf(r, b, e, x)
  BY DEF ShareOf, part
<1> QED
  BY <1>2, <1>3, <1>5, <1>6 DEF Numbered, X

\* A codebook of the residue, or none.
BookFits(r, b) ==
  b # NoBook => b \in DOMAIN Codebooks /\ (Codebooks[b].lookup_type # 0 => FitsBook(r, b))

\* What a pass leaves of t, if it has picked e.
LeavesOf(r, b, t, e, rest) ==
  IF b = NoBook THEN e = <<>> /\ rest = t
  ELSE FitsBook(r, b) /\ e \in PicksOf(r, b) /\ rest = Rest(r, b, t, e)

LEMMA AddLayerIs ==
  ASSUME NEW r, NEW b, BookFits(r, b), NEW layers \in LayerType(r), NEW reach
  PROVE  /\ AddLayer(r, b, layers, reach) \in LayerType(r)
         /\ AddLayer(r, b, layers, reach).ok =>
              /\ layers.ok
              /\ \E e \in Picks(r) :
                   /\ AddLayer(r, b, layers, reach).picked = Append(layers.picked, e)
                   /\ LeavesOf(r, b, layers.rest, e, AddLayer(r, b, layers, reach).rest)
<1> DEFINE next == AddLayer(r, b, layers, reach)
           S == Picks(r)
<1>1. /\ layers = [ok |-> layers.ok, rest |-> layers.rest, picked |-> layers.picked]
      /\ layers.ok \in BOOLEAN /\ layers.rest \in Numbered(r) /\ layers.picked \in Seq(S)
  BY DEF LayerType
<1>2. CASE b = NoBook
  <2>1. next = [layers EXCEPT !.picked = Append(@, <<>>)]
    BY <1>2 DEF AddLayer
  <2>2. next = [ok |-> layers.ok, rest |-> layers.rest, picked |-> Append(layers.picked, <<>>)]
    BY <1>1, <2>1
  <2>3. <<>> \in S
    BY DEF Picks
  <2> HIDE DEF next, S
  <2>4. Append(layers.picked, <<>>) \in Seq(S)
    BY <1>1, <2>3
  <2>5. next \in LayerType(r)
    BY <1>1, <2>2, <2>4 DEF LayerType, S
  <2>6. LeavesOf(r, b, layers.rest, <<>>, next.rest)
    BY <1>2, <2>2 DEF LeavesOf
  <2> QED
    BY <2>2, <2>3, <2>5, <2>6 DEF next, S
<1>3. CASE b # NoBook /\ (~layers.ok \/ Codebooks[b].lookup_type = 0)
  <2>1. next = [layers EXCEPT !.ok = FALSE]
    BY <1>3 DEF AddLayer
  <2>2. next = [ok |-> FALSE, rest |-> layers.rest, picked |-> layers.picked]
    BY <1>1, <2>1
  <2> HIDE DEF next, S
  <2> QED
    BY <1>1, <2>2 DEF LayerType, next, S
<1>4. CASE b # NoBook /\ ~(~layers.ok \/ Codebooks[b].lookup_type = 0)
  <2> DEFINE fit == Fitting(r, b, layers.rest, reach)
             e == [k \in DOMAIN fit |-> CHOOSE x \in fit[k] : TRUE]
  <2>1. next = IF \E k \in DOMAIN fit : fit[k] = {} THEN [layers EXCEPT !.ok = FALSE]
               ELSE Picked(r, b, layers, e)
    BY <1>4, TableIsItself DEF AddLayer
  <2>2. DOMAIN fit = 0 .. VectorsIn(r, b) - 1 /\ \A k \in DOMAIN fit : fit[k] \subseteq DOMAIN Vectors[b]
    <3> DEFINE n == VectorsIn(r, b)
               Fits(k) == {x \in DOMAIN Vectors[b] :
                             \A p \in DOMAIN layers.rest :
                               LET home == Home(r, Codebooks[b], p)
                               IN home[1] = k =>
                                    layers.rest[p] - Vectors[b][x][home[2]] \in reach}
    <3>1. fit = Table([k \in 0 .. n - 1 |-> Fits(k)])
      BY DEF Fitting, VectorsIn
    <3>2. \A k : Fits(k) \subseteq DOMAIN Vectors[b]
      OBVIOUS
    <3> HIDE DEF fit, n, Fits
    <3>3. fit = [k \in 0 .. n - 1 |-> Fits(k)]
      BY <3>1, TableIsItself, Zenon
    <3> QED
      BY <3>2, <3>3 DEF n
  <2> HIDE DEF next, fit
  <2>3. CASE \E k \in DOMAIN fit : fit[k] = {}
    <3>1. next = [ok |-> FALSE, rest |-> layers.rest, picked |-> layers.picked]
      BY <1>1, <2>1, <2>3
    <3> HIDE DEF S
    <3> QED
      BY <1>1, <3>1 DEF LayerType, next, S
  <2>4. CASE ~(\E k \in DOMAIN fit : fit[k] = {})
    <3>1. e \in PicksOf(r, b)
      BY <2>2, <2>4 DEF PicksOf
    <3>2. FitsBook(r, b) /\ b \in VQBooks
      BY <1>4 DEF BookFits, FitsBook
    <3>3. e \in S
      <4> HIDE DEF e
      <4> QED
        BY <3>1, <3>2 DEF Picks
    <3>4. next = Picked(r, b, layers, e)
      BY <2>1, <2>4
    <3> HIDE DEF e
    <3> DEFINE rest == Rest(r, b, layers.rest, e)
    <3>5. next = [ok |-> layers.ok, rest |-> rest, picked |-> Append(layers.picked, e)]
      BY <1>1, <3>4 DEF Picked
    <3>6. rest \in Numbered(r)
      BY <1>1, <3>1, <3>2, RestType
    <3>7. LeavesOf(r, b, layers.rest, e, rest)
      BY <1>4, <3>1, <3>2 DEF LeavesOf
    <3> HIDE DEF rest, S
    <3>8. Append(layers.picked, e) \in Seq(S)
      BY <1>1, <3>3
    <3>9. next \in LayerType(r)
      BY <1>1, <3>5, <3>6, <3>8 DEF LayerType, S
    <3> QED
      BY <1>4, <3>3, <3>5, <3>7, <3>9 DEF next, S
  <2> QED
    BY <2>3, <2>4
<1> QED
  BY <1>2, <1>3, <1>4

\* What is left of t before each pass, and in the end: nothing.
RestsOf(r, c, picked, t, rests) ==
  /\ rests[0] = t
  /\ \A p \in 0 .. Passes : rests[p] \in Numbered(r)
  /\ \A p \in 0 .. Passes - 1 :
       LeavesOf(r, r.books[c][p], rests[p], picked[p + 1], rests[p + 1])
  /\ \A x \in 0 .. r.partition_size - 1 : rests[Passes][x] = 0

LEMMA LayersLeave ==
  ASSUME NEW r, NEW c, NEW t \in Numbered(r), NEW reach,
         \A p \in 0 .. Passes - 1 : BookFits(r, r.books[c][p]),
         Layers(r, c, t, reach).ok,
         \A x \in 0 .. r.partition_size - 1 : Layers(r, c, t, reach).rest[x] = 0
  PROVE  \E rests : RestsOf(r, c, Layers(r, c, t, reach).picked, t, rests)
<1> DEFINE b(p) == r.books[c][p - 1]
           n == Passes
<1>1. PICK l : /\ Layers(r, c, t, reach) = l[n]
               /\ l[0] = FirstLayer(t)
               /\ \A p \in 1 .. n : l[p] = AddLayer(r, b(p), l[p - 1], reach[p])
  BY LayersTurns
<1>2. n \in Nat \ {0}
  BY ResidueAssumption
<1>3. \A p \in 1 .. n : BookFits(r, b(p))
  <2>1. \A p \in 1 .. n : p - 1 \in 0 .. n - 1
    BY <1>2
  <2> QED
    BY <2>1
<1> HIDE DEF b, n
<1>4. \A p \in 0 .. n : l[p] \in LayerType(r)
  <2> DEFINE S == LayerType(r)
  <2>1. l[0] \in S
    <3> DEFINE P == Picks(r)
    <3> HIDE DEF P
    <3>1. <<>> \in Seq(P)
      OBVIOUS
    <3> QED
      BY <1>1, <3>1 DEF FirstLayer, LayerType, P
  <2>2. \A p \in 1 .. n : l[p - 1] \in S => l[p] \in S
    BY <1>1, <1>3, AddLayerIs
  <2> HIDE DEF S
  <2>3. \A p \in 0 .. n : l[p] \in S
    BY <1>2, <2>1, <2>2, LoopStays
  <2> QED
    BY <2>3 DEF S
<1>5. ASSUME NEW p \in 1 .. n, l[p].ok
      PROVE  /\ l[p - 1].ok
             /\ \E e \in Picks(r) : /\ l[p].picked = Append(l[p - 1].picked, e)
                                    /\ LeavesOf(r, b(p), l[p - 1].rest, e, l[p].rest)
  <2>1. l[p - 1] \in LayerType(r) /\ BookFits(r, b(p))
    BY <1>2, <1>3, <1>4
  <2>2. l[p] = AddLayer(r, b(p), l[p - 1], reach[p])
    BY <1>1
  <2> QED
    BY <1>5, <2>1, <2>2, AddLayerIs
<1>6. \A p \in 0 .. n : l[p].ok
  <2> DEFINE G == {k \in 0 .. n : l[n - k].ok}
  <2>1. 0 \in G
    <3>1. l[n - 0].ok
      BY <1>1, <1>2
    <3> QED
      BY <1>2, <3>1
  <2>2. ASSUME NEW k \in 0 + 1 .. n, k - 1 \in G PROVE k \in G
    <3>1. n - (k - 1) \in 1 .. n /\ (n - (k - 1)) - 1 = n - k /\ k \in 0 .. n
      BY <1>2
    <3>2. l[n - (k - 1)].ok
      BY <2>2
    <3>3. l[(n - (k - 1)) - 1].ok
      BY <1>5, <3>1, <3>2
    <3> QED
      BY <3>1, <3>3
  <2> HIDE DEF G
  <2>3. \A k \in 0 .. n : k \in G
    <3>1. 0 \in Int /\ n \in Int
      BY <1>2
    <3> QED
      BY <2>1, <2>2, <3>1, UpTo
  <2>4. ASSUME NEW p \in 0 .. n PROVE l[p].ok
    <3>1. n - p \in 0 .. n /\ n - (n - p) = p
      BY <1>2
    <3>2. l[n - (n - p)].ok
      BY <2>3, <3>1 DEF G
    <3> QED
      BY <3>1, <3>2
  <2> QED
    BY <2>4
<1> DEFINE Leaves(p, i) == LeavesOf(r, b(i), l[i - 1].rest, l[p].picked[i], l[i].rest)
           H == {p \in 0 .. n : Len(l[p].picked) = p /\ \A i \in 1 .. p : Leaves(p, i)}
<1>7. 0 \in H
  <2>1. l[0].picked = <<>>
    BY <1>1 DEF FirstLayer
  <2>2. Len(l[0].picked) = 0
    BY <2>1
  <2> HIDE DEF Leaves
  <2> QED
    BY <1>2, <2>2
<1>8. ASSUME NEW p \in 0 + 1 .. n, p - 1 \in H PROVE p \in H
  <2>1. p \in 1 .. n /\ p - 1 \in 0 .. n /\ p \in 0 .. n
    BY <1>2
  <2>2. PICK e \in Picks(r) : /\ l[p].picked = Append(l[p - 1].picked, e)
                              /\ LeavesOf(r, b(p), l[p - 1].rest, e, l[p].rest)
    BY <1>5, <1>6, <2>1
  <2> DEFINE s == l[p - 1].picked
             S == Picks(r)
  <2>3. s \in Seq(S) /\ Len(s) = p - 1 /\ e \in S
    BY <1>4, <1>8, <2>1 DEF LayerType
  <2>4. \A i \in 1 .. p - 1 : Leaves(p - 1, i)
    BY <1>8
  <2>5. l[p].picked = Append(s, e)
    BY <2>2
  <2>6. /\ Len(Append(s, e)) = p /\ Append(s, e)[p] = e
        /\ \A i \in 1 .. p - 1 : Append(s, e)[i] = s[i]
    <3> HIDE DEF s, S
    <3> QED
      BY <2>1, <2>3
  <2>7. Len(l[p].picked) = p
    BY <2>5, <2>6
  <2>8. ASSUME NEW i \in 1 .. p PROVE Leaves(p, i)
    <3>1. CASE i = p
      <4>1. l[p].picked[p] = e
        BY <2>5, <2>6
      <4> QED
        BY <2>2, <3>1, <4>1
    <3>2. CASE i # p
      <4>1. i \in 1 .. p - 1
        BY <3>2
      <4>2. l[p].picked[i] = l[p - 1].picked[i]
        BY <2>5, <2>6, <4>1
      <4> QED
        BY <2>4, <4>1, <4>2
    <3> QED
      BY <3>1, <3>2
  <2> HIDE DEF Leaves
  <2> QED
    BY <2>1, <2>7, <2>8
<1> HIDE DEF H, Leaves
<1>9. n \in H
  <2>1. 0 \in Int /\ n \in Int /\ n \in 0 .. n
    BY <1>2
  <2> QED
    BY <1>7, <1>8, <2>1, UpTo
<1> DEFINE rests == [p \in 0 .. n |-> l[p].rest]
           picked == l[n].picked
<1>10. rests[0] = t
  <2>1. rests[0] = l[0].rest
    BY <1>2
  <2> QED
    BY <1>1, <2>1 DEF FirstLayer
<1>11. \A p \in 0 .. n : rests[p] \in Numbered(r)
  BY <1>4 DEF LayerType
<1>12. ASSUME NEW p \in 0 .. n - 1
       PROVE  LeavesOf(r, r.books[c][p], rests[p], picked[p + 1], rests[p + 1])
  <2>1. p + 1 \in 1 .. n /\ (p + 1) - 1 = p /\ p \in 0 .. n /\ p + 1 \in 0 .. n
    BY <1>2
  <2>2. LeavesOf(r, b(p + 1), l[(p + 1) - 1].rest, l[n].picked[p + 1], l[p + 1].rest)
    BY <1>9, <2>1 DEF H, Leaves
  <2>3. b(p + 1) = r.books[c][p]
    BY <2>1 DEF b
  <2>4. rests[p] = l[p].rest /\ rests[p + 1] = l[p + 1].rest
    BY <2>1
  <2> QED
    BY <2>1, <2>2, <2>3, <2>4
<1>13. \A x \in 0 .. r.partition_size - 1 : rests[n][x] = 0
  <2>1. rests[n] = l[n].rest
    BY <1>2
  <2> QED
    BY <1>1, <2>1
<1> HIDE DEF rests
<1>14. RestsOf(r, c, picked, t, rests)
  BY <1>10, <1>11, <1>12, <1>13 DEF RestsOf, n
<1> QED
  BY <1>1, <1>14

\* A coding of the partition t.
IsCoding(r, t, coding) ==
  /\ coding.class \in 0 .. r.num_classifications - 1
  /\ \E rests : RestsOf(r, coding.class, coding.picked, t, rests)

BooksFit(r) ==
  \A c \in 0 .. r.num_classifications - 1 : \A p \in 0 .. Passes - 1 :
    BookFits(r, r.books[c][p])

\* The class that is chosen for a partition has entries for each pass of decode
\* which, added one after the other, leave nothing of the partition.
THEOREM PartitionIsCoded ==
  ASSUME NEW r, r.num_classifications \in Nat, BooksFit(r), NEW t \in Numbered(r),
         EncodePartition(r, t).class >= 0
  PROVE  IsCoding(r, t, EncodePartition(r, t))
<1> DEFINE N == 0 .. r.num_classifications - 1
           layers == [c \in N |-> Layers(r, c, t, Reach(r, c))]
           fitting == {c \in DOMAIN layers :
                         layers[c].ok /\ \A x \in DOMAIN t : layers[c].rest[x] = 0}
           coding == EncodePartition(r, t)
<1>1. coding = IF fitting = {} THEN [class |-> -1]
               ELSE [class |-> Min(fitting), picked |-> layers[Min(fitting)].picked]
  <2> DEFINE Fit(l) == {c \in DOMAIN l : l[c].ok /\ \A x \in DOMAIN t : l[c].rest[x] = 0}
             Made(l) == IF Fit(l) = {} THEN [class |-> -1]
                        ELSE [class |-> Min(Fit(l)), picked |-> l[Min(Fit(l))].picked]
  <2>1. coding = Made(Table(layers))
    BY DEF EncodePartition
  <2>2. fitting = Fit(layers)
    OBVIOUS
  <2> HIDE DEF layers, fitting, coding
  <2>3. Table(layers) = layers
    BY TableIsItself
  <2> QED
    BY <2>1, <2>2, <2>3
<1>2. \A c \in N : layers[c] = Layers(r, c, t, Reach(r, c))
  OBVIOUS
<1>3. fitting \in SUBSET N /\ N \in SUBSET Nat
  OBVIOUS
<1>4. \A c \in fitting : layers[c].ok /\ \A x \in DOMAIN t : layers[c].rest[x] = 0
  OBVIOUS
<1>5. DOMAIN t = 0 .. r.partition_size - 1
  BY DEF Numbered
<1> HIDE DEF coding, fitting, layers, N
<1>6. fitting # {}
  <2>1. CASE fitting = {}
    <3>1. coding.class = -1
      BY <1>1, <2>1
    <3> QED
      BY <3>1 DEF coding
  <2> QED
    BY <2>1
<1> DEFINE c == Min(fitting)
<1>7. c \in fitting
  <2>1. PICK j \in fitting : \A k \in fitting : j <= k
    BY <1>3, <1>6, LeastExists
  <2> QED
    BY <2>1 DEF Min
<1>8. coding.class = c /\ coding.picked = layers[c].picked
  BY <1>1, <1>6
<1> HIDE DEF c
<1>9. c \in N /\ layers[c] = Layers(r, c, t, Reach(r, c))
  BY <1>2, <1>3, <1>7
<1>10. \E rests : RestsOf(r, c, Layers(r, c, t, Reach(r, c)).picked, t, rests)
  <2>1. /\ Layers(r, c, t, Reach(r, c)).ok
        /\ \A x \in 0 .. r.partition_size - 1 : Layers(r, c, t, Reach(r, c)).rest[x] = 0
    BY <1>4, <1>5, <1>7, <1>9
  <2>2. \A p \in 0 .. Passes - 1 : BookFits(r, r.books[c][p])
    BY <1>9 DEF BooksFit, N
  <2> QED
    BY <2>1, <2>2, LayersLeave
<1> QED
  BY <1>8, <1>9, <1>10 DEF IsCoding, N, coding

-----------------------------------------------------------------------------
(***************************************************************************)
(* The bits of a residue with one vector v: pass after pass, partition     *)
(* after partition, with a classword before every first partition of one.  *)
(***************************************************************************)

ClassDims(r) == Codebooks[r.classbook].dimensions

\* The partitions of v have codings, and their classwords have entries.
Coded(r, v, codings, count) ==
  /\ ParsedResidue(r) /\ BooksFit(r) /\ count \in Nat
  /\ DOMAIN codings = {0} /\ DOMAIN codings[0] = 0 .. count - 1
  /\ \A q \in 0 .. count - 1 :
       /\ IsCoding(r, Partition(r, v, q), codings[0][q])
       /\ q % ClassDims(r) = 0 =>
            ClasswordEntry(r, codings, 0, q) < num_entries_(Codebooks[r.classbook])

HeadAt(r, codings, q, p) ==
  IF p = 0 /\ q % ClassDims(r) = 0 THEN Classword(r, codings, 0, q) ELSE <<>>

LEMMA BooksAreFit ==
  ASSUME NEW r, ParsedResidue(r), WholeVectors(r)
  PROVE  BooksFit(r)
<1> SUFFICES ASSUME NEW c \in 0 .. r.num_classifications - 1, NEW p \in 0 .. Passes - 1
             PROVE  BookFits(r, r.books[c][p])
  BY DEF BooksFit
<1> DEFINE b == r.books[c][p]
<1>1. b \in {NoBook} \union DOMAIN Codebooks /\ r.partition_size \in Nat \ {0}
  BY DEF ParsedResidue
<1>2. b # NoBook => r.partition_size % Codebooks[b].dimensions = 0
  BY DEF WholeVectors
<1> HIDE DEF b
<1>3. BookFits(r, b)
  BY <1>1, <1>2 DEF BookFits, FitsBook, VQBooks
<1> QED
  BY <1>3 DEF b

LEMMA JoinedOne ==
  ASSUME NEW f, f[0] \in Seq(Bit)
  PROVE  Joined(f, 1) = f[0]
<1>1. AreBits(f, 1)
  <2>1. \A i \in 0 .. 1 - 1 : i = 0
    OBVIOUS
  <2> QED
    BY <2>1 DEF AreBits
<1>2. Joined(f, 0) = <<>> /\ \A i \in 1 .. 1 : Joined(f, i) = Joined(f, i - 1) \o f[i - 1]
  BY <1>1, JoinedStep
<1>3. 1 \in 1 .. 1 /\ 1 - 1 = 0
  OBVIOUS
<1>4. Joined(f, 1) = <<>> \o f[0]
  BY <1>2, <1>3
<1> DEFINE s == f[0]
<1>5. s \in Seq(Bit)
  OBVIOUS
<1> HIDE DEF s
<1>6. <<>> \o s = s
  BY <1>5
<1> QED
  BY <1>4, <1>6 DEF s

LEMMA NothingJoined ==
  ASSUME NEW book
  PROVE  EntriesOf(book, <<>>) = <<>>
<1> DEFINE f == [k \in DOMAIN <<>> |-> Codeword(book, <<>>[k])]
<1>1. DOMAIN <<>> = {} /\ Cardinality({}) = 0
  BY FS_EmptySet
<1>2. EntriesOf(book, <<>>) = Joined(f, 0)
  BY <1>1 DEF EntriesOf
<1> HIDE DEF f
<1>3. AreBits(f, 0)
  BY DEF AreBits
<1>4. Joined(f, 0) = <<>>
  BY <1>3, JoinedStep
<1> QED
  BY <1>2, <1>4

\* The class of a partition that is not encoded is 0, any other is the residue's.
LEMMA CodedClassesFit ==
  ASSUME NEW r, NEW v, NEW codings, NEW count, Coded(r, v, codings, count),
         NEW q \in Nat, NEW n
  PROVE  ClassesFit(r, codings, 0, q, n)
<1>1. /\ 0 \in 0 .. r.num_classifications - 1
      /\ DOMAIN codings = {0} /\ DOMAIN codings[0] = 0 .. count - 1
      /\ \A k \in 0 .. count - 1 : codings[0][k].class \in 0 .. r.num_classifications - 1
  BY ResidueType DEF Coded, IsCoding
<1>2. ASSUME NEW k
      PROVE  ClassOf(codings, 0, k) \in 0 .. r.num_classifications - 1
  <2>1. CASE k \in DOMAIN codings[0]
    <3>1. k \in 0 .. count - 1
      BY <1>1, <2>1
    <3> QED
      BY <1>1, <2>1, <3>1 DEF ClassOf
  <2>2. CASE k \notin DOMAIN codings[0]
    BY <1>1, <2>2 DEF ClassOf
  <2> QED
    BY <2>1, <2>2
<1> QED
  BY <1>2 DEF ClassesFit

LEMMA HeadType ==
  ASSUME NEW r, NEW v, NEW codings, NEW count, Coded(r, v, codings, count), NEW q \in Nat
  PROVE  /\ ClasswordEntry(r, codings, 0, q) \in Nat
         /\ Classword(r, codings, 0, q) \in Seq(Bit)
<1> DEFINE n == ClassDims(r)
<1>1. /\ n \in Nat \ {0} /\ Codebooks[r.classbook].codeword_len \in Nat
      /\ r.num_classifications \in Nat \ {0}
  BY ResidueType DEF Coded, ClassDims
<1>2. ClasswordEntry(r, codings, 0, q) = Digits(r, codings, 0, q, n)
  BY DEF ClasswordEntry, ClassDims
<1> HIDE DEF n
<1>3. ClassesFit(r, codings, 0, q, n) /\ n \in 0 .. n
  BY <1>1, CodedClassesFit
<1>4. Digits(r, codings, 0, q, n) \in Nat
  BY <1>1, <1>3, DigitsStep
<1> QED
  BY <1>1, <1>2, <1>4, CodewordType DEF Classword

BookAt(r, codings, q, p) == r.books[codings[0][q].class][p]
PickedAt(codings, q, p) == codings[0][q].picked[p + 1]

TailAt(r, codings, q, p) ==
  EntriesOf(Codebooks[BookAt(r, codings, q, p)], PickedAt(codings, q, p))

\* What a pass has picked for a partition.
LEMMA PickedIs ==
  ASSUME NEW r, NEW v, NEW codings, NEW count, Coded(r, v, codings, count),
         NEW q \in 0 .. count - 1, NEW p \in 0 .. Passes - 1
  PROVE  /\ BookAt(r, codings, q, p) = NoBook => PickedAt(codings, q, p) = <<>>
         /\ BookAt(r, codings, q, p) # NoBook =>
              /\ FitsBook(r, BookAt(r, codings, q, p))
              /\ Codebooks[BookAt(r, codings, q, p)].codeword_len \in Nat
              /\ PickedAt(codings, q, p) \in
                   [0 .. VectorsIn(r, BookAt(r, codings, q, p)) - 1 ->
                      0 .. num_entries_(Codebooks[BookAt(r, codings, q, p)]) - 1]
              /\ PickedAt(codings, q, p) \in
                   [0 .. VectorsIn(r, BookAt(r, codings, q, p)) - 1 -> Nat]
<1> DEFINE b == BookAt(r, codings, q, p)
           e == PickedAt(codings, q, p)
<1>1. IsCoding(r, Partition(r, v, q), codings[0][q])
  BY DEF Coded
<1>2. PICK rests : LeavesOf(r, b, rests[p], e, rests[p + 1])
  BY <1>1 DEF IsCoding, RestsOf, BookAt, PickedAt
<1> HIDE DEF b, e
<1>3. CASE b = NoBook
  BY <1>2, <1>3 DEF LeavesOf, b, e
<1>4. CASE b # NoBook
  <2>1. FitsBook(r, b) /\ b \in VQBooks /\ e \in PicksOf(r, b)
    BY <1>2, <1>4 DEF LeavesOf, FitsBook
  <2>2. DOMAIN Vectors[b] = 0 .. num_entries_(Codebooks[b]) - 1
    BY <2>1, EntriesDomain
  <2>3. Codebooks[b].codeword_len \in Nat
    BY <2>1, ResidueAssumption DEF VQBooks
  <2>4. e \in [0 .. VectorsIn(r, b) - 1 -> 0 .. num_entries_(Codebooks[b]) - 1]
    BY <2>1, <2>2 DEF PicksOf
  <2>5. num_entries_(Codebooks[b]) \in Nat
    BY <2>3, DoubledStep DEF num_entries_
  <2>6. e \in [0 .. VectorsIn(r, b) - 1 -> Nat]
    BY <2>4, <2>5
  <2> QED
    BY <1>4, <2>1, <2>3, <2>4, <2>6 DEF b, e
<1> QED
  BY <1>3, <1>4

LEMMA TailType ==
  ASSUME NEW r, NEW v, NEW codings, NEW count, Coded(r, v, codings, count),
         NEW q \in 0 .. count - 1, NEW p \in 0 .. Passes - 1
  PROVE  TailAt(r, codings, q, p) \in Seq(Bit)
<1> DEFINE b == BookAt(r, codings, q, p)
           e == PickedAt(codings, q, p)
<1>1. TailAt(r, codings, q, p) = EntriesOf(Codebooks[b], e)
  BY DEF TailAt
<1>2. /\ b = NoBook => e = <<>>
      /\ b # NoBook => /\ FitsBook(r, b) /\ Codebooks[b].codeword_len \in Nat
                       /\ e \in [0 .. VectorsIn(r, b) - 1 -> Nat]
  BY PickedIs
<1> HIDE DEF b, e
<1>3. CASE b = NoBook
  <2>1. EntriesOf(Codebooks[b], e) = <<>>
    BY <1>2, <1>3, NothingJoined
  <2>2. <<>> \in Seq(Bit)
    OBVIOUS
  <2> QED
    BY <1>1, <2>1, <2>2
<1>4. CASE b # NoBook
  <2> DEFINE n == VectorsIn(r, b)
             book == Codebooks[b]
  <2>1. n \in Nat /\ e \in [0 .. n - 1 -> Nat] /\ book.codeword_len \in Nat
    BY <1>2, <1>4, VectorsFit
  <2> HIDE DEF n, book
  <2>2. PICK f : EntriesOf(book, e) = Joined(f, n) /\ AreBits(f, n)
    BY <2>1, EntriesOfType
  <2>3. n \in 0 .. n
    BY <2>1
  <2>4. Joined(f, n) \in Seq(Bit)
    BY <2>1, <2>2, <2>3, JoinedStep
  <2> QED
    BY <1>1, <2>2, <2>4 DEF book
<1> QED
  BY <1>3, <1>4

LEMMA EncodeAtIs ==
  ASSUME NEW r, NEW v, NEW codings, NEW count, Coded(r, v, codings, count),
         NEW q \in 0 .. count - 1, NEW p \in 0 .. Passes - 1
  PROVE  /\ EncodeAt(r, codings, 1, q, p) = HeadAt(r, codings, q, p) \o TailAt(r, codings, q, p)
         /\ HeadAt(r, codings, q, p) \in Seq(Bit) /\ TailAt(r, codings, q, p) \in Seq(Bit)
<1> DEFINE head == Classword(r, codings, 0, q)
           tail == TailAt(r, codings, q, p)
           f == [j \in 0 .. 1 - 1 |-> IF j \in DOMAIN codings THEN Classword(r, codings, j, q) ELSE <<>>]
           g == [j \in 0 .. 1 - 1 |->
                   IF j \in DOMAIN codings
                   THEN EntriesOf(BookOf(r, codings[j][q].class, p), codings[j][q].picked[p + 1])
                   ELSE <<>>]
<1>1. q \in Nat /\ 0 \in DOMAIN codings
  BY DEF Coded
<1>2. head \in Seq(Bit) /\ tail \in Seq(Bit)
  BY <1>1, HeadType, TailType
<1>3. 0 \in 0 .. 1 - 1
  OBVIOUS
<1>4. f[0] = head
  BY <1>1, <1>3
<1>5. g[0] = tail
  BY <1>1, <1>3 DEF TailAt, BookAt, PickedAt, BookOf
<1>6. ClasswordsAt(r, codings, 1, q) = Joined(f, 1)
  BY DEF ClasswordsAt
<1>7. EntriesAt(r, codings, 1, q, p) = Joined(g, 1)
  BY DEF EntriesAt
<1> HIDE DEF f, g, head, tail
<1>8. Joined(f, 1) = head /\ Joined(g, 1) = tail
  BY <1>2, <1>4, <1>5, JoinedOne
<1>9. HeadAt(r, codings, q, p) = IF p = 0 /\ q % ClassDims(r) = 0 THEN head ELSE <<>>
  BY DEF HeadAt, head
<1>10. EncodeAt(r, codings, 1, q, p) =
         (IF p = 0 /\ q % ClassDims(r) = 0 THEN head ELSE <<>>) \o tail
  BY <1>6, <1>7, <1>8 DEF EncodeAt, ClassDims
<1>11. <<>> \in Seq(Bit)
  OBVIOUS
<1>12. HeadAt(r, codings, q, p) \in Seq(Bit)
  BY <1>2, <1>9, <1>11
<1> QED
  BY <1>2, <1>9, <1>10, <1>12 DEF tail

\* The bits of a pass, by partition, and those of all, by pass.
OfPass(r, codings, count, p) == [q \in 0 .. count - 1 |-> EncodeAt(r, codings, 1, q, p)]
OfPasses(r, codings, count) == [p \in 0 .. Passes - 1 |-> EncodePass(r, codings, 1, count, p)]

LEMMA EncodeTypes ==
  ASSUME NEW r, NEW v, NEW codings, NEW count, Coded(r, v, codings, count)
  PROVE  /\ \A p \in 0 .. Passes - 1 :
              /\ AreBits(OfPass(r, codings, count, p), count)
              /\ EncodePass(r, codings, 1, count, p) = Joined(OfPass(r, codings, count, p), count)
              /\ EncodePass(r, codings, 1, count, p) \in Seq(Bit)
         /\ AreBits(OfPasses(r, codings, count), Passes)
         /\ EncodeWith(r, codings, 1, count) = Joined(OfPasses(r, codings, count), Passes)
         /\ EncodeWith(r, codings, 1, count) \in Seq(Bit)
<1>1. count \in Nat /\ Passes \in Nat
  BY ResidueAssumption DEF Coded
<1>2. ASSUME NEW p \in 0 .. Passes - 1
      PROVE  /\ AreBits(OfPass(r, codings, count, p), count)
             /\ EncodePass(r, codings, 1, count, p) = Joined(OfPass(r, codings, count, p), count)
             /\ EncodePass(r, codings, 1, count, p) \in Seq(Bit)
  <2> DEFINE f == OfPass(r, codings, count, p)
  <2>1. ASSUME NEW q \in 0 .. count - 1 PROVE f[q] \in Seq(Bit)
    <3>1. f[q] = HeadAt(r, codings, q, p) \o TailAt(r, codings, q, p)
      BY EncodeAtIs DEF OfPass
    <3>2. HeadAt(r, codings, q, p) \in Seq(Bit) /\ TailAt(r, codings, q, p) \in Seq(Bit)
      BY EncodeAtIs
    <3> QED
      BY <3>1, <3>2, BothType
  <2>2. EncodePass(r, codings, 1, count, p) = Joined(f, count)
    BY DEF EncodePass, OfPass
  <2> HIDE DEF f
  <2>3. AreBits(f, count)
    BY <2>1 DEF AreBits
  <2>4. count \in 0 .. count
    BY <1>1
  <2>5. Joined(f, count) \in Seq(Bit)
    BY <1>1, <2>3, <2>4, JoinedStep
  <2> QED
    BY <2>2, <2>3, <2>5 DEF f
<1> DEFINE g == OfPasses(r, codings, count)
<1>3. AreBits(g, Passes)
  BY <1>2 DEF AreBits, OfPasses
<1>4. EncodeWith(r, codings, 1, count) = Joined(g, Passes)
  BY DEF EncodeWith, OfPasses
<1> HIDE DEF g
<1>5. Passes \in 0 .. Passes
  BY <1>1
<1>6. Joined(g, Passes) \in Seq(Bit)
  BY <1>1, <1>3, <1>5, JoinedStep
<1> QED
  BY <1>2, <1>3, <1>4, <1>6 DEF g

\* How many bits are before partition q of pass p.
Before(r, codings, count, p, q) ==
  Len(Joined(OfPasses(r, codings, count), p)) + Len(Joined(OfPass(r, codings, count, p), q))

LEMMA BeforeFirst ==
  ASSUME NEW r, NEW v, NEW codings, NEW count, Coded(r, v, codings, count)
  PROVE  Before(r, codings, count, 0, 0) = 0
<1>1. Passes \in Nat /\ count \in Nat /\ 0 \in 0 .. Passes - 1
  BY ResidueAssumption DEF Coded
<1>2. /\ AreBits(OfPass(r, codings, count, 0), count)
      /\ AreBits(OfPasses(r, codings, count), Passes)
  BY <1>1, EncodeTypes
<1>3. /\ Joined(OfPass(r, codings, count, 0), 0) = <<>>
      /\ Joined(OfPasses(r, codings, count), 0) = <<>>
  BY <1>1, <1>2, JoinedStep
<1>4. Len(<<>>) = 0
  OBVIOUS
<1> QED
  BY <1>3, <1>4 DEF Before

LEMMA BeforeNext ==
  ASSUME NEW r, NEW v, NEW codings, NEW count, Coded(r, v, codings, count),
         NEW p \in 0 .. Passes - 1, NEW q \in 0 .. count - 1
  PROVE  /\ Before(r, codings, count, p, q) \in Nat
         /\ Before(r, codings, count, p, q + 1) =
              Before(r, codings, count, p, q) + Len(HeadAt(r, codings, q, p))
                + Len(TailAt(r, codings, q, p))
         /\ Len(HeadAt(r, codings, q, p)) \in Nat /\ Len(TailAt(r, codings, q, p)) \in Nat
<1> DEFINE f == OfPass(r, codings, count, p)
           g == OfPasses(r, codings, count)
           head == HeadAt(r, codings, q, p)
           tail == TailAt(r, codings, q, p)
<1>1. Passes \in Nat /\ count \in Nat
  BY ResidueAssumption DEF Coded
<1>2. AreBits(f, count) /\ AreBits(g, Passes)
  BY EncodeTypes
<1>3. f[q] = head \o tail /\ head \in Seq(Bit) /\ tail \in Seq(Bit)
  BY EncodeAtIs DEF OfPass
<1>4. /\ Before(r, codings, count, p, q) = Len(Joined(g, p)) + Len(Joined(f, q))
      /\ Before(r, codings, count, p, q + 1) = Len(Joined(g, p)) + Len(Joined(f, q + 1))
  BY DEF Before
<1> HIDE DEF f, g, head, tail
<1>5. q \in 0 .. count /\ q + 1 \in 1 .. count /\ (q + 1) - 1 = q /\ p \in 0 .. Passes
  BY <1>1
<1>6. /\ Joined(f, q) \in Seq(Bit) /\ Joined(g, p) \in Seq(Bit)
      /\ Joined(f, q + 1) = Joined(f, q) \o f[q]
  <2>1. /\ \A i \in 0 .. count : Joined(f, i) \in Seq(Bit)
        /\ \A i \in 1 .. count : Joined(f, i) = Joined(f, i - 1) \o f[i - 1]
    BY <1>1, <1>2, JoinedStep
  <2>2. \A i \in 0 .. Passes : Joined(g, i) \in Seq(Bit)
    BY <1>1, <1>2, JoinedStep
  <2>3. Joined(f, q + 1) = Joined(f, (q + 1) - 1) \o f[(q + 1) - 1]
    BY <1>5, <2>1
  <2> QED
    BY <1>5, <2>1, <2>2, <2>3
<1> DEFINE s == Joined(f, q)
           t == Joined(g, p)
<1>7. s \in Seq(Bit) /\ t \in Seq(Bit)
  BY <1>6
<1>8. Joined(f, q + 1) = s \o (head \o tail)
  BY <1>3, <1>6
<1> HIDE DEF s, t
<1>9. /\ head \o tail \in Seq(Bit) /\ Len(head \o tail) = Len(head) + Len(tail)
      /\ Len(head) \in Nat /\ Len(tail) \in Nat
  BY <1>3, BothType
<1>10. Len(s \o (head \o tail)) = Len(s) + Len(head \o tail) /\ Len(s) \in Nat
  BY <1>7, <1>9, BothType
<1>11. Len(t) \in Nat
  BY <1>7
<1>12. Before(r, codings, count, p, q) = Len(t) + Len(s)
  BY <1>4 DEF s, t
<1>13. Before(r, codings, count, p, q + 1) = Len(t) + (Len(s) + (Len(head) + Len(tail)))
  <2>1. Before(r, codings, count, p, q + 1) = Len(t) + Len(s \o (head \o tail))
    BY <1>4, <1>8 DEF t
  <2> QED
    BY <2>1, <1>9, <1>10
<1>14. /\ Before(r, codings, count, p, q) \in Nat
       /\ Before(r, codings, count, p, q + 1) =
            Before(r, codings, count, p, q) + Len(head) + Len(tail)
  BY <1>9, <1>10, <1>11, <1>12, <1>13
<1> QED
  BY <1>9, <1>14 DEF head, tail

LEMMA BeforeEnd ==
  ASSUME NEW r, NEW v, NEW codings, NEW count, Coded(r, v, codings, count),
         NEW p \in 0 .. Passes - 1
  PROVE  /\ p + 1 \in 0 .. Passes - 1 =>
              Before(r, codings, count, p + 1, 0) = Before(r, codings, count, p, count)
         /\ p + 1 = Passes =>
              Len(EncodeWith(r, codings, 1, count)) = Before(r, codings, count, p, count)
<1> DEFINE f == OfPass(r, codings, count, p)
           h == OfPass(r, codings, count, p + 1)
           g == OfPasses(r, codings, count)
<1>1. Passes \in Nat /\ count \in Nat
  BY ResidueAssumption DEF Coded
<1>2. AreBits(f, count) /\ AreBits(g, Passes)
  BY EncodeTypes
<1>3. g[p] = Joined(f, count)
  <2>1. EncodePass(r, codings, 1, count, p) = Joined(f, count)
    BY EncodeTypes
  <2>2. g[p] = EncodePass(r, codings, 1, count, p)
    BY DEF OfPasses
  <2> QED
    BY <2>1, <2>2
<1>4. EncodeWith(r, codings, 1, count) = Joined(g, Passes)
  BY EncodeTypes
<1>5. /\ Before(r, codings, count, p, count) = Len(Joined(g, p)) + Len(Joined(f, count))
      /\ Before(r, codings, count, p + 1, 0) = Len(Joined(g, p + 1)) + Len(Joined(h, 0))
  BY DEF Before
<1>6. p + 1 \in 0 .. Passes - 1 => AreBits(h, count)
  BY EncodeTypes
<1> HIDE DEF f, g, h
<1>7. p + 1 \in 0 .. Passes - 1 => Joined(h, 0) = <<>>
  BY <1>1, <1>6, JoinedStep
<1>8. /\ p + 1 \in 1 .. Passes /\ (p + 1) - 1 = p /\ p \in 0 .. Passes /\ count \in 0 .. count
  BY <1>1
<1> DEFINE s == Joined(g, p)
           t == Joined(f, count)
<1>9. s \in Seq(Bit) /\ t \in Seq(Bit) /\ Joined(g, p + 1) = s \o t
  <2>1. /\ \A i \in 0 .. Passes : Joined(g, i) \in Seq(Bit)
        /\ \A i \in 1 .. Passes : Joined(g, i) = Joined(g, i - 1) \o g[i - 1]
    BY <1>1, <1>2, JoinedStep
  <2>2. \A i \in 0 .. count : Joined(f, i) \in Seq(Bit)
    BY <1>1, <1>2, JoinedStep
  <2>3. Joined(g, p + 1) = Joined(g, (p + 1) - 1) \o g[(p + 1) - 1]
    BY <1>8, <2>1
  <2> QED
    BY <1>3, <1>8, <2>1, <2>2, <2>3
<1> HIDE DEF s, t
<1>10. Len(Joined(g, p + 1)) = Len(s) + Len(t) /\ Len(s) \in Nat /\ Len(t) \in Nat
  BY <1>9, BothType
<1>11. Len(<<>>) = 0
  OBVIOUS
<1> QED
  BY <1>4, <1>5, <1>7, <1>10, <1>11 DEF s, t

\* A packet that holds the bits of a residue holds those of each partition.
LEMMA HoldsAt ==
  ASSUME NEW r, NEW v, NEW codings, NEW count, Coded(r, v, codings, count),
         NEW a \in Nat, Holds(a, EncodeWith(r, codings, 1, count)),
         NEW p \in 0 .. Passes - 1, NEW q \in 0 .. count - 1
  PROVE  /\ Holds(a + Before(r, codings, count, p, q), HeadAt(r, codings, q, p))
         /\ Holds(a + Before(r, codings, count, p, q) + Len(HeadAt(r, codings, q, p)),
                  TailAt(r, codings, q, p))
<1> DEFINE f == OfPass(r, codings, count, p)
           g == OfPasses(r, codings, count)
           head == HeadAt(r, codings, q, p)
           tail == TailAt(r, codings, q, p)
<1>1. Passes \in Nat /\ count \in Nat
  BY ResidueAssumption DEF Coded
<1>2. AreBits(f, count) /\ AreBits(g, Passes)
  BY EncodeTypes
<1>3. g[p] = Joined(f, count) /\ Holds(a, Joined(g, Passes))
  <2>1. EncodePass(r, codings, 1, count, p) = Joined(f, count)
    BY EncodeTypes
  <2>2. g[p] = EncodePass(r, codings, 1, count, p)
    BY DEF OfPasses
  <2>3. Holds(a, Joined(g, Passes))
    BY EncodeTypes
  <2> QED
    BY <2>1, <2>2, <2>3
<1>4. f[q] = head \o tail /\ head \in Seq(Bit) /\ tail \in Seq(Bit)
  BY EncodeAtIs DEF OfPass
<1>5. Before(r, codings, count, p, q) = Len(Joined(g, p)) + Len(Joined(f, q))
  BY DEF Before
<1> HIDE DEF f, g, head, tail
<1> DEFINE i == Len(Joined(g, p))
           j == Len(Joined(f, q))
<1>6. i \in Nat /\ j \in Nat
  <2>1. p \in 0 .. Passes /\ q \in 0 .. count
    BY <1>1
  <2>2. Joined(g, p) \in Seq(Bit) /\ Joined(f, q) \in Seq(Bit)
    BY <1>1, <1>2, <2>1, JoinedStep
  <2> QED
    BY <2>2, BothType
<1>7. Holds(a + i, Joined(f, count))
  BY <1>1, <1>2, <1>3, HoldsJoined
<1>8. Holds((a + i) + j, f[q])
  <2> HIDE DEF i
  <2>1. a + i \in Nat
    BY <1>6
  <2> QED
    BY <1>1, <1>2, <1>7, <2>1, HoldsJoined
<1> DEFINE b == (a + i) + j
<1>9. b \in Nat /\ b = a + Before(r, codings, count, p, q)
  BY <1>5, <1>6
<1>10. Holds(b, head \o tail)
  BY <1>4, <1>8
<1> HIDE DEF b, i, j
<1>11. Holds(b, head) /\ Holds(b + Len(head), tail)
  BY <1>4, <1>9, <1>10, HoldsParts
<1> QED
  BY <1>9, <1>11 DEF head, tail

-----------------------------------------------------------------------------
(***************************************************************************)
(* Decoding a vector that was encoded.  What is left of a partition is     *)
(* what the passes to come will add to it.                                 *)
(***************************************************************************)

\* The packet has the bits of the vector v from a on.
Sent(r, v, codings, count, a, len) ==
  /\ Coded(r, v, codings, count)
  /\ len \in Nat /\ a \in Nat /\ v \in Vector(len)
  /\ count = PartitionsIn(r, len)
  /\ Holds(a, EncodeWith(r, codings, 1, count))
  /\ \A p \in 0 .. len - 1 :
       v[p] # 0 => p \in r.begin .. r.begin + count * r.partition_size - 1

\* What the passes before p leave of partition q.
RestAt(r, v, codings, q, p) ==
  (CHOOSE rests : RestsOf(r, codings[0][q].class, codings[0][q].picked,
                          Partition(r, v, q), rests))[p]

LEMMA RestAtIs ==
  ASSUME NEW r, NEW v, NEW codings, NEW count, Coded(r, v, codings, count),
         NEW q \in 0 .. count - 1
  PROVE  /\ RestAt(r, v, codings, q, 0) = Partition(r, v, q)
         /\ \A p \in 0 .. Passes : RestAt(r, v, codings, q, p) \in Numbered(r)
         /\ \A p \in 0 .. Passes - 1 :
              LeavesOf(r, BookAt(r, codings, q, p), RestAt(r, v, codings, q, p),
                       PickedAt(codings, q, p), RestAt(r, v, codings, q, p + 1))
         /\ \A x \in 0 .. r.partition_size - 1 : RestAt(r, v, codings, q, Passes)[x] = 0
<1> DEFINE c == codings[0][q].class
           picked == codings[0][q].picked
           t == Partition(r, v, q)
           chosen == CHOOSE rests : RestsOf(r, c, picked, t, rests)
<1>1. IsCoding(r, t, codings[0][q])
  BY DEF Coded
<1>2. \E rests : RestsOf(r, c, picked, t, rests)
  BY <1>1 DEF IsCoding
<1>3. RestsOf(r, c, picked, t, chosen)
  BY <1>2
<1>4. \A p : RestAt(r, v, codings, q, p) = chosen[p]
  BY DEF RestAt
<1> HIDE DEF chosen
<1> QED
  BY <1>3, <1>4 DEF RestsOf, BookAt, PickedAt

\* The places of the partitions.
PlaceOf(r, q, x) == r.begin + q * r.partition_size + x
Covered(r, count) == r.begin .. r.begin + count * r.partition_size - 1

LEMMA PartitionHas ==
  ASSUME NEW r, NEW v, NEW q, NEW x \in 0 .. r.partition_size - 1
  PROVE  Partition(r, v, q)[x] = v[PlaceOf(r, q, x)]
<1> DEFINE f == [y \in 0 .. r.partition_size - 1 |-> v[r.begin + q * r.partition_size + y]]
<1>1. Table(f) = f
  BY TableIsItself
<1>2. Partition(r, v, q) = f
  BY <1>1 DEF Partition
<1> QED
  BY <1>2 DEF PlaceOf

\* A partition's places are none of another's.
LEMMA PlacesDiffer ==
  ASSUME NEW size \in Nat \ {0}, NEW q \in Nat, NEW k \in Nat, q # k,
         NEW x \in 0 .. size - 1
  PROVE  (q * size + x) - k * size \notin 0 .. size - 1
<1>1. CASE q < k
  <2>1. PICK d \in Nat : k = q + 1 + d
    <3>1. k - q - 1 \in Nat /\ k = q + 1 + (k - q - 1)
      BY <1>1
    <3> QED
      BY <3>1
  <2>2. k * size = q * size + size + d * size
    BY <2>1
  <2>3. d * size \in Nat /\ q * size \in Nat
    BY <2>1
  <2> QED
    BY <2>2, <2>3
<1>2. CASE k < q
  <2>1. PICK d \in Nat : q = k + 1 + d
    <3>1. q - k - 1 \in Nat /\ q = k + 1 + (q - k - 1)
      BY <1>2
    <3> QED
      BY <3>1
  <2>2. q * size = k * size + size + d * size
    BY <2>1
  <2>3. d * size \in Nat /\ k * size \in Nat
    BY <2>1
  <2> QED
    BY <2>2, <2>3
<1> QED
  BY <1>1, <1>2

LEMMA PlacesAre ==
  ASSUME NEW r, ParsedResidue(r), NEW len \in Nat, NEW count, count = PartitionsIn(r, len)
  PROVE  /\ count \in Nat /\ r.begin \in Nat /\ r.partition_size \in Nat \ {0}
         /\ \A q \in 0 .. count - 1 : \A x \in 0 .. r.partition_size - 1 :
              PlaceOf(r, q, x) \in 0 .. len - 1 /\ PlaceOf(r, q, x) \in Covered(r, count)
         /\ \A p \in Covered(r, count) :
              \E q \in 0 .. count - 1 : \E x \in 0 .. r.partition_size - 1 : p = PlaceOf(r, q, x)
         /\ count > 0 => Smaller(r.begin, len) = r.begin
<1> DEFINE size == r.partition_size
           b == Smaller(r.begin, len)
           e == Smaller(r.end, len)
<1>1. /\ r.begin \in Nat /\ r.end \in Nat /\ r.begin <= r.end /\ size \in Nat \ {0}
  BY DEF ParsedResidue
<1>2. count \in Nat
  BY PartitionsType
<1>3. /\ b \in Nat /\ e \in Nat /\ b <= e /\ e <= len
      /\ b = r.begin \/ b = e
  BY <1>1 DEF Smaller
<1>4. count = (e - b) \div size
  BY DEF PartitionsIn
<1> HIDE DEF size, b, e
<1>5. count > 0 => b = r.begin
  <2>1. b = e => count = 0
    <3>1. 0 \div size = 0
      BY <1>1
    <3> QED
      BY <1>3, <1>4, <3>1
  <2> QED
    BY <1>3, <2>1
<1>6. ASSUME NEW q \in 0 .. count - 1, NEW x \in 0 .. size - 1
      PROVE  PlaceOf(r, q, x) \in 0 .. len - 1 /\ PlaceOf(r, q, x) \in Covered(r, count)
  <2>1. b + q * size + x \in b .. e - 1
    <3>1. q \in Nat /\ q < (e - b) \div size
      BY <1>2, <1>4
    <3> QED
      BY <1>1, <1>3, <3>1, PartitionWithin
  <2>2. b = r.begin
    BY <1>2, <1>5
  <2>3. q * size \in Nat /\ q * size + size <= count * size
    <3>1. PICK d \in Nat : count = q + 1 + d
      <4>1. count - q - 1 \in Nat /\ count = q + 1 + (count - q - 1)
        BY <1>2
      <4> QED
        BY <4>1
    <3>2. count * size = q * size + size + d * size /\ d * size \in Nat
      BY <1>1, <3>1
    <3>3. q * size \in Nat
      BY <1>1
    <3>4. count * size \in Nat
      BY <1>1, <1>2
    <3> QED
      BY <1>1, <3>2, <3>3, <3>4
  <2>4. count * size \in Nat
    BY <1>1, <1>2
  <2>5. r.begin + q * size + x \in r.begin .. r.begin + count * size - 1
    BY <1>1, <2>3, <2>4
  <2>6. r.begin + q * size + x \in 0 .. len - 1
    BY <1>1, <1>3, <2>1, <2>2, <2>3
  <2> QED
    BY <2>5, <2>6 DEF PlaceOf, Covered, size
<1>7. ASSUME NEW p \in Covered(r, count)
      PROVE  \E q \in 0 .. count - 1 : \E x \in 0 .. size - 1 : p = PlaceOf(r, q, x)
  <2> DEFINE y == p - r.begin
             q == y \div size
             x == y % size
  <2>1. count * size \in Nat
    BY <1>1, <1>2
  <2>2. p \in r.begin .. r.begin + count * size - 1
    BY DEF Covered, size
  <2>3. y \in 0 .. count * size - 1 /\ p = r.begin + y
    BY <1>1, <2>1, <2>2
  <2> HIDE DEF y
  <2>4. q \in 0 .. count - 1 /\ x \in 0 .. size - 1 /\ q * size + x = y
    BY <1>1, <1>2, <2>3, PlaceIsCounted
  <2> HIDE DEF q, x
  <2>5. q * size \in Nat
    BY <1>1, <2>4
  <2>6. p = r.begin + q * size + x
    BY <1>1, <2>3, <2>4, <2>5
  <2> QED
    BY <2>4, <2>6 DEF PlaceOf, size
<1> QED
  BY <1>1, <1>2, <1>5, <1>6, <1>7 DEF size, b

-----------------------------------------------------------------------------
(***************************************************************************)
(* Where decode is in the bits of a residue with one vector, what it knows *)
(* of the classes, and what the vector has so far.                         *)
(***************************************************************************)

\* The classword before a partition has been read, if there is one.
Headed == rstage = "partition" \/ (rstage = "classify" /\ ch = 1)

CountsFit(r, count) ==
  /\ partition_count \in 0 .. count
  /\ pass \in 0 .. Passes - 1
  /\ rstage = "pass" =>
       /\ ch = 0
       /\ pass = 0 /\ partition_count < count => partition_count % ClassDims(r) = 0
  /\ rstage = "classify" =>
       /\ partition_count < count /\ word = 0 /\ ch \in {0, 1}
       /\ pass > 0 => ch = 0
       /\ pass = 0 => partition_count % ClassDims(r) = 0
  /\ rstage = "partition" =>
       /\ partition_count < count /\ ch = 0
       /\ word \in 0 .. ClassDims(r) - 1
       /\ pass = 0 => partition_count % ClassDims(r) = word

ClassIsKnown(r, q) ==
  \/ pass > 0
  \/ q < partition_count
  \/ Headed /\ q < partition_count - word + ClassDims(r)

ClassesKnown(r, codings, count) ==
  \A q \in 0 .. count - 1 :
    ClassIsKnown(r, q) => classifications[0][q] = codings[0][q].class

AskedFits(r, codings, count, a) ==
  /\ ~Headed => reader.asked = a + Before(r, codings, count, pass, partition_count)
  /\ Headed =>
       reader.asked = a + Before(r, codings, count, pass, partition_count)
                        + Len(HeadAt(r, codings, partition_count, pass))

\* At q's places the vector w has what p passes add up to.
SumsAt(w, r, v, codings, q, p) ==
  \A x \in 0 .. r.partition_size - 1 :
    w[PlaceOf(r, q, x)] = v[PlaceOf(r, q, x)] - RestAt(r, v, codings, q, p)[x]

\* It is zero outside of the partitions.
ZeroOutside(w, r, count, len) ==
  \A p \in 0 .. len - 1 : p \notin Covered(r, count) => w[p] = 0

ValuesFit(r, v, codings, count, len) ==
  /\ \A q \in 0 .. count - 1 :
       /\ q < partition_count => SumsAt(out[0], r, v, codings, q, pass + 1)
       /\ q >= partition_count => SumsAt(out[0], r, v, codings, q, pass)
  /\ ZeroOutside(out[0], r, count, len)

Goes(r, v, codings, count, a, len) ==
  /\ residue = r /\ channel_used[0] /\ DecodeLen = len
  /\ CountsFit(r, count)
  /\ ClassesKnown(r, codings, count)
  /\ AskedFits(r, codings, count, a)
  /\ ValuesFit(r, v, codings, count, len)

Follows(r, v, codings, count, a, len) ==
  /\ Decoding => Goes(r, v, codings, count, a, len)
  /\ rstage = "decoded" =>
       /\ out[0] = v
       /\ reader.asked = a + Len(EncodeWith(r, codings, 1, count))

\* What the other invariants say of decode with one vector.
LEMMA PlaceIsThere ==
  ASSUME NEW r, ParsedResidue(r), NEW len \in Nat, NEW count, count = PartitionsIn(r, len),
         NEW p \in Covered(r, count)
  PROVE  \E q \in 0 .. count - 1 : \E x \in 0 .. r.partition_size - 1 : p = PlaceOf(r, q, x)
<1>1. \A y \in Covered(r, count) :
              \E q \in 0 .. count - 1 : \E x \in 0 .. r.partition_size - 1 : y = PlaceOf(r, q, x)
  BY PlacesAre
<1> QED
  BY <1>1

LEMMA OneVector ==
  ASSUME LoopsOK, SingleOK, Decoding, NEW r, residue = r, NEW len, DecodeLen = len,
         NEW count, count = PartitionsIn(r, len)
  PROVE  /\ ParsedResidue(r) /\ NumChannels = 1 /\ DOMAIN out = {0}
         /\ DOMAIN out[0] = 0 .. len - 1 /\ len \in Nat
         /\ partitions_to_read = count /\ count \in Nat
         /\ classwords_per_codeword = ClassDims(r) /\ ClassDims(r) \in Nat \ {0}
         /\ pass \in 0 .. Passes - 1
         /\ DOMAIN classifications = {0}
         /\ DOMAIN classifications[0] = 0 .. count + ClassDims(r) - 1
<1>1. NumChannels = 1
  BY DEF SingleOK
<1>2. ParsedResidue(residue) /\ VectorsOK /\ ClassesOK /\ CountersOK
  BY DEF LoopsOK
<1>3. /\ DOMAIN out = {0} /\ DOMAIN out[0] = 0 .. len - 1 /\ len \in Nat
  <2>1. 0 .. NumChannels - 1 = {0}
    BY <1>1
  <2> QED
    BY <1>2, <2>1 DEF VectorsOK
<1>4. partitions_to_read = count
  BY DEF partitions_to_read
<1>5. classwords_per_codeword = ClassDims(r)
  BY DEF classwords_per_codeword, class_codebook, ClassDims
<1>6. ClassDims(r) \in Nat \ {0}
  BY <1>2, ResidueType DEF ClassDims
<1>7. count \in Nat
  BY <1>2, <1>3, PartitionsType
<1>8. classifications \in [{0} -> [0 .. count + ClassDims(r) - 1 ->
                                    0 .. residue.num_classifications - 1]]
  <2>1. 0 .. NumChannels - 1 = {0}
    BY <1>1
  <2> QED
    BY <1>2, <1>4, <1>5, <2>1 DEF ClassesOK
<1>9. DOMAIN classifications = {0} /\ DOMAIN classifications[0] = 0 .. count + ClassDims(r) - 1
  BY <1>8
<1>10. pass \in 0 .. Passes - 1
  BY <1>2 DEF CountersOK
<1> QED
  BY <1>1, <1>2, <1>3, <1>4, <1>5, <1>6, <1>7, <1>9, <1>10

\* When all passes are done, the vector is there.
LEMMA AllAdded ==
  ASSUME NEW r, NEW v, NEW codings, NEW count, NEW a, NEW len, Sent(r, v, codings, count, a, len),
         NEW w, w = [p \in 0 .. len - 1 |-> w[p]],
         \A q \in 0 .. count - 1 : SumsAt(w, r, v, codings, q, Passes),
         ZeroOutside(w, r, count, len)
  PROVE  w = v
<1>1. /\ Coded(r, v, codings, count) /\ len \in Nat /\ v \in [0 .. len - 1 -> Int]
      /\ count = PartitionsIn(r, len) /\ ParsedResidue(r)
      /\ \A p \in 0 .. len - 1 : v[p] # 0 => p \in Covered(r, count)
  BY DEF Sent, Coded, Covered, Vector
<1>2. \A p \in Covered(r, count) :
        \E q \in 0 .. count - 1 : \E x \in 0 .. r.partition_size - 1 : p = PlaceOf(r, q, x)
  <2>1. ParsedResidue(r) /\ len \in Nat /\ count = PartitionsIn(r, len)
    BY <1>1
  <2> QED
    BY <2>1, PlaceIsThere
<1>3. ASSUME NEW p \in 0 .. len - 1 PROVE w[p] = v[p]
  <2>1. CASE p \in Covered(r, count)
    <3>1. PICK q \in 0 .. count - 1, x \in 0 .. r.partition_size - 1 : p = PlaceOf(r, q, x)
      BY <1>2, <2>1
    <3>2. w[PlaceOf(r, q, x)] = v[PlaceOf(r, q, x)] - RestAt(r, v, codings, q, Passes)[x]
      BY DEF SumsAt
    <3>3. RestAt(r, v, codings, q, Passes)[x] = 0
      BY <1>1, RestAtIs
    <3>4. v[p] \in Int
      BY <1>1
    <3> QED
      BY <3>1, <3>2, <3>3, <3>4
  <2>2. CASE p \notin Covered(r, count)
    BY <1>1, <2>2 DEF ZeroOutside
  <2> QED
    BY <2>1, <2>2
<1>4. v = [p \in 0 .. len - 1 |-> v[p]]
  BY <1>1
<1> QED
  BY <1>3, <1>4

LEMMA NextClasswordFollows ==
  ASSUME NEW r, NEW v, NEW codings, NEW count, NEW a, NEW len, Sent(r, v, codings, count, a, len),
         LoopsOK, SingleOK, Decoding, Goes(r, v, codings, count, a, len), NextClassword,
         out[0] = [p \in 0 .. len - 1 |-> out[0][p]]
  PROVE  Follows(r, v, codings, count, a, len)'
<1>1. /\ Coded(r, v, codings, count) /\ count = PartitionsIn(r, len) /\ count \in Nat
      /\ a \in Nat
  BY DEF Sent, Coded
<1>2. /\ residue = r /\ channel_used[0] /\ DecodeLen = len
      /\ CountsFit(r, count) /\ ClassesKnown(r, codings, count)
      /\ AskedFits(r, codings, count, a) /\ ValuesFit(r, v, codings, count, len)
  BY DEF Goes
<1>3. /\ partitions_to_read = count /\ ClassDims(r) \in Nat \ {0}
      /\ pass \in 0 .. Passes - 1 /\ DOMAIN out[0] = 0 .. len - 1
  BY <1>1, <1>2, OneVector
<1>4. /\ rstage = "pass" /\ word' = 0 /\ ch' = 0
      /\ residue' = residue /\ channel_used' = channel_used /\ reader' = reader
      /\ out' = out /\ classifications' = classifications
  BY DEF NextClassword, settings
<1>5. Passes \in Nat \ {0} /\ partition_count \in 0 .. count /\ ch = 0
  BY <1>2, <1>4, ResidueAssumption DEF CountsFit
<1>6. DecodeLen' = DecodeLen
  BY <1>4 DEF DecodeLen
<1>7. reader.asked = a + Before(r, codings, count, pass, partition_count)
  BY <1>2, <1>4 DEF AskedFits, Headed
<1>8. CASE partition_count < count
  <2>1. rstage' = "classify" /\ pass' = pass /\ partition_count' = partition_count
    BY <1>3, <1>8 DEF NextClassword
  <2>2. CountsFit(r, count)'
    BY <1>2, <1>4, <1>5, <1>8, <2>1 DEF CountsFit
  <2>3. ~Headed'
    BY <1>4, <2>1 DEF Headed
  <2>4. ClassesKnown(r, codings, count)'
    BY <1>2, <1>4, <2>1, <2>3 DEF ClassesKnown, ClassIsKnown
  <2>5. AskedFits(r, codings, count, a)'
    BY <1>4, <1>7, <2>1, <2>3 DEF AskedFits
  <2>6. ValuesFit(r, v, codings, count, len)'
    BY <1>2, <1>4, <2>1 DEF ValuesFit
  <2>7. Goes(r, v, codings, count, a, len)'
    BY <1>2, <1>4, <1>6, <2>2, <2>4, <2>5, <2>6 DEF Goes
  <2> QED
    BY <2>1, <2>7 DEF Follows
<1>9. CASE ~(partition_count < count)
  <2>1. /\ pass' = pass + 1 /\ partition_count' = 0 /\ partition_count = count
        /\ rstage' = IF pass' = Passes THEN "decoded" ELSE "pass"
    BY <1>1, <1>3, <1>5, <1>9 DEF NextClassword
  <2>2. \A q \in 0 .. count - 1 : SumsAt(out[0], r, v, codings, q, pass + 1)
    BY <1>1, <1>2, <2>1 DEF ValuesFit
  <2>3. ZeroOutside(out[0], r, count, len)
    BY <1>2 DEF ValuesFit
  <2>4. CASE pass + 1 = Passes
    <3>1. rstage' = "decoded"
      BY <2>1, <2>4
    <3>2. out[0] = v
      <4>1. \A q \in 0 .. count - 1 : SumsAt(out[0], r, v, codings, q, Passes)
        BY <2>2, <2>4
      <4> QED
        BY <1>3, <2>3, <4>1, AllAdded
    <3>3. Len(EncodeWith(r, codings, 1, count)) = Before(r, codings, count, pass, count)
      BY <1>1, <1>3, <2>4, BeforeEnd
    <3>4. reader.asked = a + Len(EncodeWith(r, codings, 1, count))
      BY <1>7, <2>1, <3>3
    <3>5. ~Decoding'
      BY <3>1 DEF Decoding
    <3> QED
      BY <1>4, <3>2, <3>4, <3>5 DEF Follows
  <2>5. CASE pass + 1 # Passes
    <3>1. rstage' = "pass" /\ pass + 1 \in 0 .. Passes - 1
      BY <1>3, <1>5, <2>1, <2>5
    <3>2. CountsFit(r, count)'
      BY <1>1, <1>3, <1>4, <2>1, <3>1 DEF CountsFit
    <3>3. ClassesKnown(r, codings, count)'
      <4>1. \A q \in 0 .. count - 1 : ClassIsKnown(r, q)
        BY <1>1, <2>1 DEF ClassIsKnown
      <4> QED
        BY <1>2, <1>4, <4>1 DEF ClassesKnown
    <3>4. ~Headed'
      BY <3>1 DEF Headed
    <3>5. Before(r, codings, count, pass + 1, 0) = Before(r, codings, count, pass, count)
      BY <1>1, <1>3, <3>1, BeforeEnd
    <3>6. AskedFits(r, codings, count, a)'
      BY <1>4, <1>7, <2>1, <3>4, <3>5 DEF AskedFits
    <3>7. ValuesFit(r, v, codings, count, len)'
      <4>1. ZeroOutside(out[0], r, count, len)'
        BY <1>4, <2>3 DEF ZeroOutside
      <4>2. ASSUME NEW q \in 0 .. count - 1
            PROVE  ~(q < partition_count') /\ SumsAt(out'[0], r, v, codings, q, pass')
        BY <1>4, <2>1, <2>2
      <4> QED
        BY <1>4, <2>1, <4>1, <4>2 DEF ValuesFit
    <3>8. Goes(r, v, codings, count, a, len)'
      BY <1>2, <1>4, <1>6, <3>2, <3>3, <3>6, <3>7 DEF Goes
    <3> QED
      BY <3>1, <3>8 DEF Follows
  <2> QED
    BY <2>4, <2>5
<1> QED
  BY <1>8, <1>9

\* Only the first pass has classwords, before every first partition of one.
LEMMA HeadIs ==
  ASSUME NEW r, NEW codings, NEW q, NEW p
  PROVE  /\ p = 0 /\ q % ClassDims(r) = 0 =>
              HeadAt(r, codings, q, p) = Classword(r, codings, 0, q)
         /\ ~(p = 0 /\ q % ClassDims(r) = 0) =>
              HeadAt(r, codings, q, p) = <<>> /\ Len(HeadAt(r, codings, q, p)) = 0
BY DEF HeadAt

\* The classword before a partition, and the classes that it gives.
LEMMA ClasswordIsRead ==
  ASSUME NEW r, NEW v, NEW codings, NEW count, NEW a, NEW len, Sent(r, v, codings, count, a, len),
         residue = r, NEW total \in Nat, DOMAIN packet = 0 .. total - 1, reader \in Readers(total),
         NEW q \in 0 .. count - 1, q % ClassDims(r) = 0,
         reader.asked = a + Before(r, codings, count, 0, q),
         NEW temp, temp = decodeScalar(reader, class_codebook)
  PROVE  /\ temp.reader.asked = reader.asked + Len(HeadAt(r, codings, q, 0))
         /\ \A i \in 0 .. ClassDims(r) - 1 :
              q + i \in 0 .. count - 1 => Class(temp.value, i) = codings[0][q + i].class
<1> DEFINE book == Codebooks[r.classbook]
           entry == ClasswordEntry(r, codings, 0, q)
<1>1. /\ Coded(r, v, codings, count) /\ count \in Nat /\ a \in Nat /\ ParsedResidue(r)
      /\ Holds(a, EncodeWith(r, codings, 1, count))
      /\ DOMAIN codings[0] = 0 .. count - 1
      /\ entry < num_entries_(book)
  BY DEF Sent, Coded
<1>2. 0 \in 0 .. Passes - 1 /\ q \in Nat
  BY <1>1, ResidueAssumption
<1>3. entry \in Nat
  BY <1>1, <1>2, HeadType
<1>4. /\ book.codeword_len \in Nat /\ ClassDims(r) \in Nat \ {0}
      /\ r.num_classifications \in Nat \ {0}
  BY <1>1, ResidueType DEF ClassDims
<1>5. /\ HeadAt(r, codings, q, 0) = Codeword(book, entry)
      /\ Len(HeadAt(r, codings, q, 0)) = book.codeword_len
  <2>1. HeadAt(r, codings, q, 0) = Codeword(book, entry)
    BY HeadIs DEF Classword
  <2> HIDE DEF book, entry
  <2> QED
    BY <1>3, <1>4, <2>1, CodewordType
<1>6. Holds(reader.asked, Codeword(book, entry))
  BY <1>1, <1>2, <1>5, HoldsAt
<1>7. entry \in 0 .. num_entries_(book) - 1
  <2>1. num_entries_(book) \in Nat
    BY <1>4, DoubledStep DEF num_entries_
  <2> HIDE DEF book, entry
  <2> QED
    BY <1>1, <1>3, <2>1
<1>8. temp = decodeScalar(reader, book)
  BY DEF class_codebook
<1>9. temp.value = entry /\ temp.reader.asked = reader.asked + book.codeword_len
  <2> HIDE DEF book, entry
  <2> QED
    BY <1>4, <1>6, <1>7, <1>8, CodewordIsRead
<1>10. classwords_per_codeword = ClassDims(r)
  BY DEF classwords_per_codeword, class_codebook, ClassDims
<1>11. ASSUME NEW i \in 0 .. ClassDims(r) - 1, q + i \in 0 .. count - 1
       PROVE  Class(temp.value, i) = codings[0][q + i].class
  <2>1. ClassesFit(residue, codings, 0, q, classwords_per_codeword)
    BY <1>1, <1>2, CodedClassesFit
  <2>2. Class(ClasswordEntry(residue, codings, 0, q), i) = ClassOf(codings, 0, q + i)
    BY <1>2, <1>4, <1>10, <2>1, ClassesBack
  <2>3. ClassOf(codings, 0, q + i) = codings[0][q + i].class
    BY <1>1, <1>11 DEF ClassOf
  <2> QED
    BY <1>9, <2>2, <2>3
<1> QED
  BY <1>5, <1>9, <1>11

LEMMA ClassifyFollows ==
  ASSUME NEW r, NEW v, NEW codings, NEW count, NEW a, NEW len, Sent(r, v, codings, count, a, len),
         NEW total \in Nat, DOMAIN packet = 0 .. total - 1, reader \in Readers(total),
         LoopsOK, SingleOK, Decoding, Goes(r, v, codings, count, a, len), Classify
  PROVE  Follows(r, v, codings, count, a, len)'
<1>1. /\ Coded(r, v, codings, count) /\ count = PartitionsIn(r, len) /\ count \in Nat
      /\ a \in Nat
  BY DEF Sent, Coded
<1>2. /\ residue = r /\ channel_used[0] /\ DecodeLen = len
      /\ CountsFit(r, count) /\ ClassesKnown(r, codings, count)
      /\ AskedFits(r, codings, count, a) /\ ValuesFit(r, v, codings, count, len)
  BY DEF Goes
<1>3. /\ NumChannels = 1 /\ ClassDims(r) \in Nat \ {0} /\ pass \in 0 .. Passes - 1
      /\ classwords_per_codeword = ClassDims(r)
      /\ DOMAIN classifications = {0}
      /\ DOMAIN classifications[0] = 0 .. count + ClassDims(r) - 1
  BY <1>1, <1>2, OneVector
<1>4. /\ rstage = "classify" /\ residue' = residue /\ channel_used' = channel_used
      /\ out' = out /\ pass' = pass /\ partition_count' = partition_count /\ word' = word
  BY DEF Classify, settings
<1>5. /\ partition_count \in 0 .. count - 1 /\ word = 0 /\ ch \in {0, 1}
      /\ pass > 0 => ch = 0
      /\ pass = 0 => partition_count % ClassDims(r) = 0
  BY <1>1, <1>2, <1>4 DEF CountsFit
<1>6. DecodeLen' = DecodeLen
  BY <1>4 DEF DecodeLen
<1>7. ValuesFit(r, v, codings, count, len)'
  BY <1>2, <1>4 DEF ValuesFit, ZeroOutside, SumsAt
<1>8. CASE ch = 1 \/ pass > 0
  <2>1. /\ rstage' = "partition" /\ ch' = 0
        /\ reader' = reader /\ classifications' = classifications
    BY <1>3, <1>8 DEF Classify
  <2>2. CountsFit(r, count)'
    BY <1>2, <1>3, <1>4, <1>5, <2>1 DEF CountsFit
  <2>3. Headed' /\ (ch = 1 => Headed) /\ (ch # 1 => ~Headed)
    BY <1>4, <2>1 DEF Headed
  <2>4. ClassesKnown(r, codings, count)'
    <3>1. \A q \in 0 .. count - 1 : ClassIsKnown(r, q)' => ClassIsKnown(r, q)
      BY <1>4, <1>8, <2>3 DEF ClassIsKnown
    <3> QED
      BY <1>2, <2>1, <3>1 DEF ClassesKnown
  <2>5. AskedFits(r, codings, count, a)'
    <3>1. CASE ch = 1
      BY <1>2, <1>4, <2>1, <2>3, <3>1 DEF AskedFits
    <3>2. CASE ch # 1
      <4>1. Len(HeadAt(r, codings, partition_count, pass)) = 0
        BY <1>8, <3>2, HeadIs
      <4>2. reader.asked = a + Before(r, codings, count, pass, partition_count)
        BY <1>2, <2>3, <3>2 DEF AskedFits
      <4>3. Before(r, codings, count, pass, partition_count) \in Nat
        BY <1>1, <1>3, <1>5, BeforeNext
      <4>4. reader'.asked = a + Before(r, codings, count, pass', partition_count')
                              + Len(HeadAt(r, codings, partition_count', pass'))
        BY <1>1, <1>4, <2>1, <4>1, <4>2, <4>3
      <4> QED
        BY <2>3, <4>4 DEF AskedFits
    <3> QED
      BY <3>1, <3>2
  <2>6. Goes(r, v, codings, count, a, len)'
    BY <1>2, <1>4, <1>6, <1>7, <2>2, <2>4, <2>5 DEF Goes
  <2> QED
    BY <2>1, <2>6 DEF Follows
<1>9. CASE ~(ch = 1 \/ pass > 0)
  <2> DEFINE temp == decodeScalar(reader, class_codebook)
             old == classifications[0]
             new == [q \in DOMAIN old |->
                       IF q - partition_count \in 0 .. classwords_per_codeword - 1
                       THEN Class(temp.value, q - partition_count)
                       ELSE old[q]]
  <2>1. ch = 0 /\ pass = 0
    BY <1>3, <1>5, <1>9
  <2>2. /\ rstage' = "classify" /\ ch' = 1 /\ reader' = temp.reader
        /\ classifications' = [classifications EXCEPT ![0] = new]
    <3>1. ~(ch = NumChannels \/ pass > 0) /\ channel_used[ch]
      BY <1>2, <1>3, <2>1
    <3>2. /\ rstage' = rstage /\ ch' = ch + 1 /\ reader' = temp.reader
          /\ classifications' = [classifications EXCEPT ![ch] =
               [q \in DOMAIN @ |->
                  IF q - partition_count \in 0 .. classwords_per_codeword - 1
                  THEN Class(temp.value, q - partition_count) ELSE @[q]]]
      BY <3>1 DEF Classify
    <3> HIDE DEF temp
    <3> QED
      BY <1>4, <2>1, <3>2
  <2>3. ~Headed /\ Headed'
    BY <1>4, <2>1, <2>2 DEF Headed
  <2>4. reader.asked = a + Before(r, codings, count, 0, partition_count)
    BY <1>2, <2>1, <2>3 DEF AskedFits
  <2>5. /\ temp.reader.asked = reader.asked + Len(HeadAt(r, codings, partition_count, 0))
        /\ \A i \in 0 .. ClassDims(r) - 1 :
             partition_count + i \in 0 .. count - 1 =>
               Class(temp.value, i) = codings[0][partition_count + i].class
    <3>1. partition_count % ClassDims(r) = 0
      BY <1>5, <2>1
    <3> QED
      BY <1>2, <1>5, <2>4, <3>1, ClasswordIsRead
  <2> HIDE DEF temp
  <2>6. CountsFit(r, count)'
    BY <1>1, <1>2, <1>4, <1>5, <2>1, <2>2 DEF CountsFit
  <2>7. ClassesKnown(r, codings, count)'
    <3>1. ASSUME NEW q \in 0 .. count - 1, ClassIsKnown(r, q)'
          PROVE  new[q] = codings[0][q].class
      <4>1. q \in DOMAIN old /\ q \in Int /\ partition_count \in Int
        BY <1>1, <1>3, <1>5
      <4>2. CASE q < partition_count
        <5>1. q - partition_count \notin 0 .. classwords_per_codeword - 1
          BY <4>1, <4>2
        <5>2. new[q] = old[q]
          BY <4>1, <5>1
        <5>3. old[q] = codings[0][q].class
          BY <1>2, <4>2 DEF ClassesKnown, ClassIsKnown
        <5> QED
          BY <5>2, <5>3
      <4>3. CASE ~(q < partition_count)
        <5>1. q < partition_count - word + ClassDims(r)
          BY <1>4, <2>1, <3>1, <4>3 DEF ClassIsKnown
        <5>2. q - partition_count \in 0 .. ClassDims(r) - 1
          BY <1>3, <1>5, <4>1, <4>3, <5>1
        <5>3. new[q] = Class(temp.value, q - partition_count)
          BY <1>3, <4>1, <5>2
        <5>4. partition_count + (q - partition_count) = q
          BY <4>1
        <5> HIDE DEF new
        <5> QED
          BY <2>5, <5>2, <5>3, <5>4
      <4> QED
        BY <4>2, <4>3
    <3>2. classifications'[0] = new
      <4> HIDE DEF new
      <4> QED
        BY <1>3, <2>2
    <3> HIDE DEF new
    <3> QED
      BY <3>1, <3>2 DEF ClassesKnown
  <2>8. AskedFits(r, codings, count, a)'
    BY <1>4, <2>1, <2>2, <2>3, <2>4, <2>5 DEF AskedFits
  <2>9. Goes(r, v, codings, count, a, len)'
    BY <1>2, <1>4, <1>6, <1>7, <2>6, <2>7, <2>8 DEF Goes
  <2> QED
    BY <2>2, <2>9 DEF Follows
<1> QED
  BY <1>8, <1>9

LEMMA NextRemainder ==
  ASSUME NEW d \in Nat \ {0}, NEW q \in Nat
  PROVE  /\ (q % d) + 1 < d => (q + 1) % d = (q % d) + 1
         /\ (q % d) + 1 >= d => (q + 1) % d = 0
<1> DEFINE c == q \div d
           t == q % d
<1>1. c \in Nat /\ t \in 0 .. d - 1 /\ q = d * c + t
  BY Division
<1> HIDE DEF c, t
<1>2. CASE t + 1 < d
  <2>1. q + 1 = d * c + (t + 1)
    <3>1. d * c \in Nat
      BY <1>1
    <3> QED
      BY <1>1, <3>1
  <2>2. t + 1 \in 0 .. d - 1
    BY <1>1, <1>2
  <2>3. (d * c + (t + 1)) % d = t + 1
    BY <1>1, <2>2, Divided
  <2> QED
    BY <1>1, <1>2, <2>1, <2>3 DEF t
<1>3. CASE ~(t + 1 < d)
  <2>1. t + 1 = d
    BY <1>1, <1>3
  <2>2. q + 1 = d * (c + 1) + 0
    <3>1. d * c \in Nat /\ d * (c + 1) = d * c + d
      BY <1>1
    <3> QED
      BY <1>1, <2>1, <3>1
  <2>3. c + 1 \in Nat /\ 0 \in 0 .. d - 1
    BY <1>1
  <2>4. (d * (c + 1) + 0) % d = 0
    BY <2>3, Divided
  <2> QED
    BY <1>1, <2>1, <2>2, <2>4 DEF t
<1> QED
  BY <1>2, <1>3

\* The codebook is the one of the partition's class, and what it adds is what the
\* encoder took away.
LEMMA PartitionIsAdded ==
  ASSUME NEW r, NEW v, NEW codings, NEW count, NEW a, NEW len, Sent(r, v, codings, count, a, len),
         NEW total \in Nat, DOMAIN packet = 0 .. total - 1, reader \in Readers(total),
         LoopsOK, SingleOK, Decoding, Goes(r, v, codings, count, a, len), DecodePartition,
         out[0] \in Vector(len)
  PROVE  /\ reader'.asked = reader.asked + Len(TailAt(r, codings, partition_count, pass))
         /\ SumsAt(out'[0], r, v, codings, partition_count, pass + 1)
         /\ \A q \in 0 .. count - 1 : q # partition_count =>
              \A x \in 0 .. r.partition_size - 1 :
                out'[0][PlaceOf(r, q, x)] = out[0][PlaceOf(r, q, x)]
         /\ \A p \in 0 .. len - 1 : p \notin Covered(r, count) => out'[0][p] = out[0][p]
         /\ DOMAIN out' = DOMAIN out /\ DOMAIN out'[0] = DOMAIN out[0]
<1> DEFINE b == BookAt(r, codings, partition_count, pass)
           picked == PickedAt(codings, partition_count, pass)
           tail == TailAt(r, codings, partition_count, pass)
           t == RestAt(r, v, codings, partition_count, pass)
           rest == RestAt(r, v, codings, partition_count, pass + 1)
           size == r.partition_size
<1>1. /\ Coded(r, v, codings, count) /\ count = PartitionsIn(r, len) /\ count \in Nat
      /\ a \in Nat /\ ParsedResidue(r) /\ v \in [0 .. len - 1 -> Int]
      /\ Holds(a, EncodeWith(r, codings, 1, count))
  BY DEF Sent, Coded, Vector
<1>2. /\ residue = r /\ channel_used[0] /\ DecodeLen = len
      /\ CountsFit(r, count) /\ ClassesKnown(r, codings, count)
      /\ AskedFits(r, codings, count, a) /\ ValuesFit(r, v, codings, count, len)
  BY DEF Goes
<1>3. /\ NumChannels = 1 /\ ClassDims(r) \in Nat \ {0} /\ pass \in 0 .. Passes - 1
      /\ DOMAIN out = {0} /\ DOMAIN out[0] = 0 .. len - 1 /\ len \in Nat
  BY <1>1, <1>2, OneVector
<1>4. rstage = "partition"
  BY DEF DecodePartition
<1>5. /\ partition_count \in 0 .. count - 1 /\ ch = 0
      /\ word \in 0 .. ClassDims(r) - 1
  BY <1>1, <1>2, <1>4 DEF CountsFit
<1>6. vq_book = b
  <2>1. ClassIsKnown(r, partition_count)
    BY <1>3, <1>4, <1>5 DEF ClassIsKnown, Headed
  <2>2. classifications[0][partition_count] = codings[0][partition_count].class
    BY <1>2, <1>5, <2>1 DEF ClassesKnown
  <2> QED
    BY <1>2, <1>5, <2>2 DEF vq_book, BookAt
<1>7. reader.asked = a + Before(r, codings, count, pass, partition_count)
                       + Len(HeadAt(r, codings, partition_count, pass))
  BY <1>2, <1>4 DEF AskedFits, Headed
<1>8. Holds(reader.asked, tail)
  BY <1>1, <1>3, <1>5, <1>7, HoldsAt
<1>9. /\ LeavesOf(r, b, t, picked, rest)
      /\ t \in Numbered(r)
  <2>1. pass \in 0 .. Passes
    BY <1>3, ResidueAssumption
  <2> QED
    BY <1>1, <1>3, <1>5, <2>1, RestAtIs
<1>10. SumsAt(out[0], r, v, codings, partition_count, pass)
  BY <1>2, <1>5 DEF ValuesFit
<1>11. /\ \A q \in 0 .. count - 1 : \A x \in 0 .. size - 1 :
            PlaceOf(r, q, x) \in 0 .. len - 1 /\ PlaceOf(r, q, x) \in Covered(r, count)
       /\ Smaller(r.begin, len) = r.begin /\ r.begin \in Nat /\ size \in Nat \ {0}
  <2>1. ParsedResidue(r) /\ len \in Nat /\ count = PartitionsIn(r, len) /\ count > 0
    BY <1>1, <1>3, <1>5
  <2> QED
    BY <2>1, PlacesAre
<1>12. CASE b = NoBook
  <2>1. out' = out /\ reader' = reader
    BY <1>6, <1>12 DEF DecodePartition
  <2>2. picked = <<>> /\ rest = t
    BY <1>9, <1>12 DEF LeavesOf
  <2>3. tail = <<>>
    BY <2>2, NothingJoined DEF TailAt
  <2>4. Len(tail) = 0
    BY <2>3
  <2>5. reader.asked \in Nat
    BY DEF Readers
  <2>6. SumsAt(out[0], r, v, codings, partition_count, pass + 1)
    BY <1>10, <2>2 DEF SumsAt
  <2> QED
    BY <2>1, <2>4, <2>5, <2>6
<1>13. CASE b # NoBook
  <2> DEFINE book == Codebooks[b]
             n == VectorsIn(r, b)
  <2>1. /\ FitsBook(r, b) /\ book.codeword_len \in Nat
        /\ picked \in [0 .. n - 1 -> 0 .. num_entries_(book) - 1]
        /\ picked \in PicksOf(r, b) /\ rest = Rest(r, b, t, picked)
    BY <1>1, <1>3, <1>5, <1>9, <1>13, PickedIs DEF LeavesOf
  <2>2. r.type \in 0 .. 2
    BY <1>1, ResidueType
  <2>3. NumVectors(book) = n /\ n \in Nat
    BY <1>2, <2>1, <2>2, AtIsHome, VectorsFit
  <2>4. /\ out' = [out EXCEPT ![0] = Added(out[0], b)]
        /\ reader' = Entries(book)[n].reader
    <3>1. channel_used[ch] /\ vq_book # NoBook
      BY <1>2, <1>5, <1>6, <1>13
    <3>2. /\ out' = [out EXCEPT ![ch] = Added(@, vq_book)]
          /\ reader' = Entries(Codebooks[vq_book])[NumVectors(Codebooks[vq_book])].reader
      BY <3>1 DEF DecodePartition
    <3> HIDE DEF b
    <3> QED
      BY <1>5, <1>6, <2>3, <3>2
  <2>5. /\ \A k \in 0 .. n - 1 : Entries(book)[k + 1].value = picked[k]
        /\ Entries(book)[n].reader.asked = reader.asked + Len(tail)
    <3>1. Holds(reader.asked, EntriesOf(book, picked))
      BY <1>8 DEF TailAt
    <3>2. tail = EntriesOf(book, picked)
      BY DEF TailAt
    <3> HIDE DEF picked, b, tail, n
    <3> QED
      BY <2>1, <2>3, <3>1, <3>2, EntriesAreRead
  <2>6. \A x : offset + x = PlaceOf(r, partition_count, x)
    BY <1>2, <1>11 DEF offset, limit_begin, PlaceOf
  <2>7. offset \in Int /\ offset = r.begin + partition_count * size
    BY <1>2, <1>5, <1>11 DEF offset, limit_begin
  <2>8. /\ \A x \in 0 .. size - 1 :
             offset + x \in 0 .. len - 1 =>
               Added(out[0], b)[offset + x] = out[0][offset + x] + ShareOf(r, b, picked, x)
        /\ \A p \in 0 .. len - 1 :
             p - offset \notin 0 .. size - 1 => Added(out[0], b)[p] = out[0][p]
    <3>1. residue.type \in 0 .. 2 /\ FitsBook(residue, b)
      BY <1>2, <2>1, <2>2
    <3>2. Reads(Codebooks[b], picked, VectorsIn(residue, b))
      BY <1>2, <2>5 DEF Reads
    <3>3. DOMAIN out[0] = 0 .. len - 1 /\ len \in Nat /\ offset \in Int
      BY <1>3, <2>7
    <3> DEFINE w == out[0]
    <3> HIDE DEF picked, b, w
    <3>4. DOMAIN w = 0 .. len - 1
      BY <3>3 DEF w
    <3>5. HasShares(Added(w, b), w, b, picked, len)
      BY <3>1, <3>2, <3>3, <3>4, AddedIs
    <3> QED
      BY <1>2, <3>5 DEF w, HasShares
  <2>9. SumsAt(out'[0], r, v, codings, partition_count, pass + 1)
    <3> SUFFICES ASSUME NEW x \in 0 .. size - 1
                 PROVE  out'[0][PlaceOf(r, partition_count, x)] =
                          v[PlaceOf(r, partition_count, x)] - rest[x]
      BY DEF SumsAt
    <3> DEFINE add == ShareOf(r, b, picked, x)
               p == PlaceOf(r, partition_count, x)
    <3>1. p \in 0 .. len - 1 /\ offset + x = p
      BY <1>5, <1>11, <2>6
    <3>2. Added(out[0], b)[p] = out[0][p] + add
      BY <2>8, <3>1
    <3>3. out[0][p] = v[p] - t[x]
      BY <1>10 DEF SumsAt
    <3>4. rest[x] = t[x] - add /\ add \in Int
      <4> HIDE DEF b, picked, t, rest
      <4> QED
        BY <1>9, <2>1, RestType
    <3>5. out'[0] = Added(out[0], b)
      BY <1>3, <2>4
    <3>6. t[x] \in Int /\ v[p] \in Int
      BY <1>1, <1>9, <3>1 DEF Numbered
    <3> HIDE DEF add, p, t, rest
    <3> QED
      BY <3>2, <3>3, <3>4, <3>5, <3>6 DEF p
  <2>10. ASSUME NEW q \in 0 .. count - 1, q # partition_count, NEW x \in 0 .. size - 1
         PROVE  out'[0][PlaceOf(r, q, x)] = out[0][PlaceOf(r, q, x)]
    <3> DEFINE p == PlaceOf(r, q, x)
    <3>1. p \in 0 .. len - 1
      BY <1>11
    <3>2. p - offset \notin 0 .. size - 1
      <4>1. (q * size + x) - partition_count * size \notin 0 .. size - 1
        <5>1. q \in Nat /\ partition_count \in Nat
          BY <1>1, <1>5
        <5> QED
          BY <1>11, <2>10, <5>1, PlacesDiffer
      <4>2. q * size \in Int /\ partition_count * size \in Int
        <5>1. q \in Int /\ partition_count \in Int /\ size \in Int
          BY <1>1, <1>5, <1>11
        <5> QED
          BY <5>1
      <4>3. p - offset = (q * size + x) - partition_count * size
        <5>1. p = r.begin + q * size + x
          BY DEF PlaceOf
        <5>2. x \in Int /\ r.begin \in Int
          BY <1>11
        <5> DEFINE y == q * size
                   z == partition_count * size
        <5> HIDE DEF y, z, p, size
        <5> QED
          BY <2>7, <4>2, <5>1, <5>2 DEF y, z
      <4> QED
        BY <4>1, <4>3
    <3>3. out'[0] = Added(out[0], b)
      BY <1>3, <2>4
    <3> QED
      BY <2>8, <3>1, <3>2, <3>3
  <2>11. ASSUME NEW p \in 0 .. len - 1, p \notin Covered(r, count)
         PROVE  out'[0][p] = out[0][p]
    <3>1. p - offset \notin 0 .. size - 1
      <4>1. ASSUME p - offset \in 0 .. size - 1 PROVE FALSE
        <5>1. PlaceOf(r, partition_count, p - offset) \in Covered(r, count)
          BY <1>5, <1>11, <4>1
        <5>2. offset + (p - offset) = p
          BY <2>7
        <5> QED
          BY <2>6, <2>11, <5>1, <5>2
      <4> QED
        BY <4>1
    <3>2. out'[0] = Added(out[0], b)
      BY <1>3, <2>4
    <3> QED
      BY <2>8, <3>1, <3>2
  <2>12. DOMAIN out' = DOMAIN out /\ DOMAIN out'[0] = DOMAIN out[0]
    <3>1. DOMAIN Added(out[0], b) = DOMAIN out[0]
      BY DEF Added
    <3> QED
      BY <1>3, <2>4, <3>1
  <2>13. reader'.asked = reader.asked + Len(tail)
    BY <2>4, <2>5
  <2> QED
    BY <2>9, <2>10, <2>11, <2>12, <2>13
<1> QED
  BY <1>12, <1>13

LEMMA DecodePartitionFollows ==
  ASSUME NEW r, NEW v, NEW codings, NEW count, NEW a, NEW len, Sent(r, v, codings, count, a, len),
         NEW total \in Nat, DOMAIN packet = 0 .. total - 1, reader \in Readers(total),
         LoopsOK, SingleOK, Decoding, Goes(r, v, codings, count, a, len), DecodePartition,
         out[0] \in Vector(len)
  PROVE  Follows(r, v, codings, count, a, len)'
<1>1. /\ Coded(r, v, codings, count) /\ count = PartitionsIn(r, len) /\ count \in Nat
      /\ a \in Nat /\ ParsedResidue(r)
  BY DEF Sent, Coded
<1>2. /\ residue = r /\ channel_used[0] /\ DecodeLen = len
      /\ CountsFit(r, count) /\ ClassesKnown(r, codings, count)
      /\ AskedFits(r, codings, count, a) /\ ValuesFit(r, v, codings, count, len)
  BY DEF Goes
<1>3. /\ NumChannels = 1 /\ ClassDims(r) \in Nat \ {0} /\ pass \in 0 .. Passes - 1
      /\ DOMAIN out = {0} /\ partitions_to_read = count
      /\ classwords_per_codeword = ClassDims(r) /\ len \in Nat
  BY <1>1, <1>2, OneVector
<1>4. /\ rstage = "partition" /\ residue' = residue /\ channel_used' = channel_used
      /\ partition_count' = partition_count + 1
      /\ classifications' = classifications /\ pass' = pass
  BY DEF DecodePartition, settings
<1>5. /\ partition_count \in 0 .. count - 1 /\ ch = 0
      /\ word \in 0 .. ClassDims(r) - 1
      /\ pass = 0 => partition_count % ClassDims(r) = word
  BY <1>1, <1>2, <1>4 DEF CountsFit
<1>6. /\ ch' = 0 /\ word' = word + 1
      /\ rstage' = IF InWord(word', partition_count') THEN "partition" ELSE "pass"
  BY <1>3, <1>5 DEF DecodePartition
<1>7. /\ reader'.asked = reader.asked + Len(TailAt(r, codings, partition_count, pass))
      /\ SumsAt(out'[0], r, v, codings, partition_count, pass + 1)
      /\ \A q \in 0 .. count - 1 : q # partition_count =>
           \A x \in 0 .. r.partition_size - 1 :
             out'[0][PlaceOf(r, q, x)] = out[0][PlaceOf(r, q, x)]
      /\ \A p \in 0 .. len - 1 : p \notin Covered(r, count) => out'[0][p] = out[0][p]
      /\ DOMAIN out'[0] = DOMAIN out[0]
  BY PartitionIsAdded
<1>8. DecodeLen' = DecodeLen
  BY <1>7 DEF DecodeLen
<1>9. /\ rstage' = "partition" => word + 1 < ClassDims(r) /\ partition_count + 1 < count
      /\ rstage' # "partition" => rstage' = "pass"
      /\ rstage' = "pass" /\ partition_count + 1 < count => word + 1 >= ClassDims(r)
  <2>1. InWord(word', partition_count') <=>
          (word + 1 < ClassDims(r) /\ partition_count + 1 < count)
    BY <1>3, <1>4, <1>6 DEF InWord
  <2>2. InWord(word', partition_count') => rstage' = "partition"
    BY <1>6
  <2>3. ~InWord(word', partition_count') => rstage' = "pass"
    BY <1>6
  <2> QED
    BY <1>1, <1>3, <1>5, <2>1, <2>2, <2>3
<1>10. /\ pass = 0 /\ rstage' = "partition" => (partition_count + 1) % ClassDims(r) = word + 1
       /\ pass = 0 /\ rstage' = "pass" /\ partition_count + 1 < count =>
            (partition_count + 1) % ClassDims(r) = 0
  <2>1. partition_count \in Nat
    BY <1>5
  <2>2. /\ (partition_count % ClassDims(r)) + 1 < ClassDims(r) =>
             (partition_count + 1) % ClassDims(r) = (partition_count % ClassDims(r)) + 1
        /\ (partition_count % ClassDims(r)) + 1 >= ClassDims(r) =>
             (partition_count + 1) % ClassDims(r) = 0
    BY <1>3, <2>1, NextRemainder
  <2> QED
    BY <1>5, <1>9, <2>2
<1>11. CountsFit(r, count)'
  <2>1. partition_count + 1 \in 0 .. count /\ rstage' \in {"partition", "pass"}
    BY <1>1, <1>5, <1>9
  <2>2. rstage' = "pass" => (pass = 0 /\ partition_count + 1 < count =>
          (partition_count + 1) % ClassDims(r) = 0)
    BY <1>10
  <2>3. rstage' = "partition" =>
          /\ partition_count + 1 < count /\ word + 1 \in 0 .. ClassDims(r) - 1
          /\ pass = 0 => (partition_count + 1) % ClassDims(r) = word + 1
    BY <1>3, <1>5, <1>9, <1>10
  <2> QED
    BY <1>3, <1>4, <1>6, <2>1, <2>2, <2>3 DEF CountsFit
<1>12. ClassesKnown(r, codings, count)'
  <2>1. ASSUME NEW q \in 0 .. count - 1, ClassIsKnown(r, q)' PROVE ClassIsKnown(r, q)
    <3>1. CASE pass > 0
      BY <3>1 DEF ClassIsKnown
    <3>2. CASE ~(pass > 0)
      <4>1. q < partition_count + 1 \/ q < (partition_count + 1) - (word + 1) + ClassDims(r)
        BY <1>4, <1>6, <2>1, <3>2 DEF ClassIsKnown
      <4>2. q < partition_count - word + ClassDims(r)
        BY <1>3, <1>5, <4>1
      <4> QED
        BY <1>4, <4>2 DEF ClassIsKnown, Headed
    <3> QED
      BY <3>1, <3>2
  <2> QED
    BY <1>2, <1>4, <2>1 DEF ClassesKnown
<1>13. AskedFits(r, codings, count, a)'
  <2> DEFINE before == Before(r, codings, count, pass, partition_count)
             head == HeadAt(r, codings, partition_count, pass)
             tail == TailAt(r, codings, partition_count, pass)
             next == Before(r, codings, count, pass, partition_count + 1)
  <2>1. reader.asked = a + before + Len(head)
    BY <1>2, <1>4 DEF AskedFits, Headed
  <2>2. /\ before \in Nat /\ next = before + Len(head) + Len(tail)
        /\ Len(head) \in Nat /\ Len(tail) \in Nat
    BY <1>1, <1>3, <1>5, BeforeNext
  <2>3. reader'.asked = reader.asked + Len(tail)
    BY <1>7
  <2>4. Headed' => Len(HeadAt(r, codings, partition_count + 1, pass)) = 0
    <3>1. Headed' => rstage' = "partition"
      BY <1>6, <1>9 DEF Headed
    <3>2. ASSUME rstage' = "partition"
          PROVE  ~(pass = 0 /\ (partition_count + 1) % ClassDims(r) = 0)
      BY <1>5, <1>10, <3>2
    <3> QED
      BY <3>1, <3>2, HeadIs
  <2> HIDE DEF before, head, tail, next
  <2>5. reader'.asked = a + next /\ next \in Nat /\ reader'.asked = a + next + 0
    BY <1>1, <2>1, <2>2, <2>3
  <2>6. reader'.asked = a + Before(r, codings, count, pass', partition_count')
    BY <1>4, <2>5 DEF next
  <2>7. Headed' => reader'.asked = a + Before(r, codings, count, pass', partition_count')
                        + Len(HeadAt(r, codings, partition_count', pass'))
    BY <1>4, <2>4, <2>5 DEF next
  <2> QED
    BY <2>6, <2>7 DEF AskedFits
<1>14. ValuesFit(r, v, codings, count, len)'
  <2>1. ZeroOutside(out'[0], r, count, len)
    BY <1>2, <1>7 DEF ValuesFit, ZeroOutside
  <2>2. ASSUME NEW q \in 0 .. count - 1, q < partition_count + 1
        PROVE  SumsAt(out'[0], r, v, codings, q, pass + 1)
    <3>1. CASE q = partition_count
      BY <1>7, <3>1
    <3>2. CASE q # partition_count
      <4>1. q < partition_count
        BY <1>5, <2>2, <3>2
      <4>2. SumsAt(out[0], r, v, codings, q, pass + 1)
        BY <1>2, <4>1 DEF ValuesFit
      <4>3. \A x \in 0 .. r.partition_size - 1 :
              out'[0][PlaceOf(r, q, x)] = out[0][PlaceOf(r, q, x)]
        BY <1>7, <3>2
      <4> QED
        BY <4>2, <4>3 DEF SumsAt
    <3> QED
      BY <3>1, <3>2
  <2>3. ASSUME NEW q \in 0 .. count - 1, q >= partition_count + 1
        PROVE  SumsAt(out'[0], r, v, codings, q, pass)
    <3>1. q >= partition_count /\ q # partition_count
      BY <1>5, <2>3
    <3>2. SumsAt(out[0], r, v, codings, q, pass)
      BY <1>2, <3>1 DEF ValuesFit
    <3>3. \A x \in 0 .. r.partition_size - 1 :
            out'[0][PlaceOf(r, q, x)] = out[0][PlaceOf(r, q, x)]
      BY <1>7, <3>1
    <3> QED
      BY <3>2, <3>3 DEF SumsAt
  <2> QED
    BY <1>4, <2>1, <2>2, <2>3 DEF ValuesFit
<1>15. Goes(r, v, codings, count, a, len)'
  BY <1>2, <1>4, <1>8, <1>11, <1>12, <1>13, <1>14 DEF Goes
<1>16. rstage' # "decoded"
  BY <1>9
<1> QED
  BY <1>15, <1>16 DEF Follows

\* Every step of decode follows the bits of the vector.
LEMMA ResidueFollows ==
  ASSUME NEW r, NEW v, NEW codings, NEW count, NEW a, NEW len, Sent(r, v, codings, count, a, len),
         NEW total \in Nat, DOMAIN packet = 0 .. total - 1, reader \in Readers(total),
         LoopsOK, SingleOK, Follows(r, v, codings, count, a, len), ResidueNext,
         Decoding => out[0] \in Vector(len)
  PROVE  Follows(r, v, codings, count, a, len)'
<1>1. CASE NextClassword
  <2>1. Decoding
    BY <1>1 DEF NextClassword, Decoding
  <2>2. Goes(r, v, codings, count, a, len) /\ out[0] = [p \in 0 .. len - 1 |-> out[0][p]]
    BY <2>1 DEF Follows, Vector
  <2> QED
    BY <1>1, <2>1, <2>2, NextClasswordFollows
<1>2. CASE Classify
  <2>1. Decoding
    BY <1>2 DEF Classify, Decoding
  <2>2. Goes(r, v, codings, count, a, len)
    BY <2>1 DEF Follows
  <2> QED
    BY <1>2, <2>1, <2>2, ClassifyFollows
<1>3. CASE DecodePartition
  <2>1. Decoding
    BY <1>3 DEF DecodePartition, Decoding
  <2>2. Goes(r, v, codings, count, a, len)
    BY <2>1 DEF Follows
  <2> QED
    BY <1>3, <2>1, <2>2, DecodePartitionFollows
<1>4. CASE RefuseVector
  <2>1. rstage' = "failed"
    BY <1>4 DEF RefuseVector
  <2> QED
    BY <2>1 DEF Follows, Decoding
<1> QED
  BY <1>1, <1>2, <1>3, <1>4 DEF ResidueNext

\* decode begins with the first of its bits.
LEMMA BeginFollows ==
  ASSUME NEW r, NEW v, NEW codings, NEW count, NEW a, NEW len, Sent(r, v, codings, count, a, len),
         reader.asked = a, residue' = r, channel_used' = [j \in {0} |-> TRUE],
         out' = [j \in {0} |-> Zeros(len)], reader' = reader,
         pass' = 0, partition_count' = 0, word' = 0, ch' = 0, rstage' = "pass"
  PROVE  Follows(r, v, codings, count, a, len)'
<1>1. /\ Coded(r, v, codings, count) /\ count = PartitionsIn(r, len) /\ count \in Nat
      /\ a \in Nat /\ len \in Nat /\ ParsedResidue(r) /\ v \in [0 .. len - 1 -> Int]
  BY DEF Sent, Coded, Vector
<1>2. /\ ClassDims(r) \in Nat \ {0} /\ Passes \in Nat \ {0}
  BY <1>1, ResidueType, ResidueAssumption DEF ClassDims
<1>3. out'[0] = Zeros(len) /\ channel_used'[0]
  OBVIOUS
<1>4. DecodeLen' = len
  <2>1. DOMAIN out'[0] = 0 .. len - 1
    BY <1>3 DEF Zeros
  <2> QED
    BY <1>1, <2>1, CountOf DEF DecodeLen
<1>5. CountsFit(r, count)'
  <2>1. 0 % ClassDims(r) = 0
    BY <1>2
  <2>2. 0 \in 0 .. count /\ 0 \in 0 .. Passes - 1
    BY <1>1, <1>2
  <2> QED
    BY <2>1, <2>2 DEF CountsFit
<1>6. ~Headed'
  BY DEF Headed
<1>7. ClassesKnown(r, codings, count)'
  BY <1>6 DEF ClassesKnown, ClassIsKnown
<1>8. AskedFits(r, codings, count, a)'
  <2>1. Before(r, codings, count, 0, 0) = 0
    BY <1>1, BeforeFirst
  <2>2. a = a + Before(r, codings, count, 0, 0)
    BY <1>1, <2>1
  <2> QED
    BY <1>6, <2>2 DEF AskedFits
<1>9. ValuesFit(r, v, codings, count, len)'
  <2>1. ZeroOutside(out'[0], r, count, len)
    BY <1>3 DEF ZeroOutside, Zeros
  <2>2. ASSUME NEW q \in 0 .. count - 1
        PROVE  SumsAt(out'[0], r, v, codings, q, 0)
    <3> SUFFICES ASSUME NEW x \in 0 .. r.partition_size - 1
                 PROVE  out'[0][PlaceOf(r, q, x)] =
                          v[PlaceOf(r, q, x)] - RestAt(r, v, codings, q, 0)[x]
      BY DEF SumsAt
    <3>1. PlaceOf(r, q, x) \in 0 .. len - 1
      BY <1>1, PlacesAre
    <3>2. RestAt(r, v, codings, q, 0) = Partition(r, v, q)
      BY <1>1, RestAtIs
    <3>3. Partition(r, v, q)[x] = v[PlaceOf(r, q, x)]
      BY PartitionHas
    <3>4. v[PlaceOf(r, q, x)] \in Int
      BY <1>1, <3>1
    <3>5. out'[0][PlaceOf(r, q, x)] = 0
      BY <1>3, <3>1 DEF Zeros
    <3> QED
      BY <3>2, <3>3, <3>4, <3>5
  <2>3. \A q \in 0 .. count - 1 : ~(q < 0)
    OBVIOUS
  <2> QED
    BY <2>1, <2>2, <2>3 DEF ValuesFit
<1>10. Goes(r, v, codings, count, a, len)'
  BY <1>3, <1>4, <1>5, <1>7, <1>8, <1>9 DEF Goes
<1> QED
  BY <1>10 DEF Follows

-----------------------------------------------------------------------------
(***************************************************************************)
(* The bits of a packet that an encoder made: its head, the floors of the  *)
(* channels and the residues of the submaps, each with one vector.         *)
(***************************************************************************)

\* One vector for all channels of a residue, and how it is encoded.
Alone(w) == [j \in {0} |-> w]
CodingsOf(r, w) == Codings(r, Alone(w), Alone(TRUE))

LEMMA CodingsOfIs ==
  ASSUME NEW r, NEW len \in Nat, NEW w \in Vector(len)
  PROVE  /\ PartitionCount(r, Cardinality(DOMAIN w)) = PartitionsIn(r, len)
         /\ PartitionCount(r, Cardinality(DOMAIN (Alone(w)[0]))) = PartitionsIn(r, len)
         /\ CodingsOf(r, w) = [j \in {0} |->
              [q \in 0 .. PartitionsIn(r, len) - 1 |-> EncodePartition(r, Partition(r, w, q))]]
<1>1. Cardinality(DOMAIN w) = len
  BY CountOf DEF Vector
<1>2. Alone(w)[0] = w
  BY DEF Alone
<1>3. PartitionCount(r, len) = PartitionsIn(r, len)
  BY DEF PartitionCount, PartitionsIn
<1> DEFINE f == [q \in 0 .. PartitionsIn(r, len) - 1 |-> EncodePartition(r, Partition(r, w, q))]
           n == PartitionCount(r, Cardinality(DOMAIN (Alone(w)[0])))
<1>4. n = PartitionsIn(r, len)
  BY <1>1, <1>2, <1>3
<1>5. {i \in DOMAIN Alone(w) : Alone(TRUE)[i]} = {0}
  BY DEF Alone
<1>6. CodingsOf(r, w) = [j \in {0} |-> f]
  <2>1. CodingsOf(r, w) = [j \in {0} |->
          [q \in 0 .. n - 1 |-> EncodePartition(r, Partition(r, Alone(w)[j], q))]]
    BY <1>5, TableIsItself DEF CodingsOf, Codings
  <2>2. \A j \in {0} : [q \in 0 .. n - 1 |-> EncodePartition(r, Partition(r, Alone(w)[j], q))] = f
    BY <1>2, <1>4
  <2> QED
    BY <2>1, <2>2
<1> QED
  BY <1>1, <1>2, <1>3, <1>6

LEMMA EncodableIsCoded ==
  ASSUME NEW r, ParsedResidue(r), WholeVectors(r), NEW len \in Nat, NEW w \in Vector(len),
         Encodable(r, w)
  PROVE  /\ Coded(r, w, CodingsOf(r, w), PartitionsIn(r, len))
         /\ \A p \in 0 .. len - 1 :
              w[p] # 0 => p \in r.begin .. r.begin + PartitionsIn(r, len) * r.partition_size - 1
<1> DEFINE count == PartitionsIn(r, len)
           codings == CodingsOf(r, w)
<1>1. count \in Nat /\ r.num_classifications \in Nat /\ BooksFit(r)
  BY PartitionsType, ResidueType, BooksAreFit
<1>2. /\ PartitionCount(r, Cardinality(DOMAIN w)) = count
      /\ codings = [j \in {0} |->
           [q \in 0 .. count - 1 |-> EncodePartition(r, Partition(r, w, q))]]
  BY CodingsOfIs
<1>3. /\ \A p \in DOMAIN w : w[p] # 0 =>
           p \in r.begin .. r.begin + count * r.partition_size - 1
      /\ \A q \in 0 .. count - 1 :
           /\ codings[0][q].class >= 0
           /\ q % Codebooks[r.classbook].dimensions = 0 =>
                ClasswordEntry(r, codings, 0, q) < num_entries_(Codebooks[r.classbook])
  BY <1>2 DEF Encodable, CodingsOf, Alone
<1> HIDE DEF codings, count
<1>4. /\ DOMAIN codings = {0} /\ DOMAIN codings[0] = 0 .. count - 1
      /\ \A q \in 0 .. count - 1 : codings[0][q] = EncodePartition(r, Partition(r, w, q))
  BY <1>2
<1>5. ASSUME NEW q \in 0 .. count - 1
      PROVE  IsCoding(r, Partition(r, w, q), codings[0][q])
  <2>1. Partition(r, w, q) \in Numbered(r)
    <3>1. \A y \in 0 .. r.partition_size - 1 : PlaceOf(r, q, y) \in 0 .. len - 1
      BY PlacesAre DEF count
    <3>2. Partition(r, w, q) = [y \in 0 .. r.partition_size - 1 |-> w[PlaceOf(r, q, y)]]
      BY TableIsItself DEF Partition, PlaceOf
    <3>3. \A y \in 0 .. r.partition_size - 1 : w[PlaceOf(r, q, y)] \in Int
      BY <3>1 DEF Vector
    <3> QED
      BY <3>2, <3>3 DEF Numbered
  <2>2. EncodePartition(r, Partition(r, w, q)).class >= 0
    BY <1>3, <1>4
  <2>3. IsCoding(r, Partition(r, w, q), EncodePartition(r, Partition(r, w, q)))
    BY <1>1, <2>1, <2>2, PartitionIsCoded
  <2> QED
    BY <1>4, <2>3
<1>6. Coded(r, w, codings, count)
  BY <1>1, <1>3, <1>4, <1>5 DEF Coded, ClassDims
<1>7. DOMAIN w = 0 .. len - 1
  BY DEF Vector
<1> QED
  BY <1>3, <1>6, <1>7 DEF codings, count

LEMMA EncodeAlone ==
  ASSUME NEW r, NEW len \in Nat, NEW w \in Vector(len)
  PROVE  EncodeVectors(r, Alone(w), Alone(TRUE))
           = EncodeWith(r, CodingsOf(r, w), 1, PartitionsIn(r, len))
<1>1. Cardinality(DOMAIN Alone(w)) = 1
  <2>1. DOMAIN Alone(w) = 0 .. 1 - 1
    BY DEF Alone
  <2> QED
    BY <2>1, CountOf
<1> QED
  BY <1>1, CodingsOfIs DEF EncodeVectors, CodingsOf

\* A submap's members are its channels, each of which is one of them (MemberExists).
LEMMA MembersAre ==
  ASSUME NEW m, NEW s, NEW j \in DOMAIN Members(m, s)
  PROVE  Members(m, s)[j] \in Channels /\ m.muxs[Members(m, s)[j]] = s
<1> DEFINE mine == {c \in Channels : m.muxs[c] = s}
           n == Cardinality(mine)
           D == DOMAIN Members(m, s)
           g == [c \in mine |-> CHOOSE k \in D : Members(m, s)[k] = c]
<1>1. n \in Nat /\ D = 0 .. n - 1
  BY MembersCount
<1>2. ASSUME NEW c \in mine PROVE g[c] \in D /\ Members(m, s)[g[c]] = c
  <2>1. \E k \in D : Members(m, s)[k] = c
    BY MemberExists
  <2> QED
    BY <2>1
<1>3. \A c \in mine : c \in Channels /\ m.muxs[c] = s
  OBVIOUS
<1>4. DOMAIN g = mine
  OBVIOUS
<1> HIDE DEF mine
<1>5. g \in [mine -> D]
  BY <1>2
<1> HIDE DEF g
<1>6. g \in Injection(mine, D)
  <2>1. ASSUME NEW c \in mine, NEW d \in mine, g[c] = g[d] PROVE c = d
    BY <1>2, <2>1
  <2>2. IsInjective(g)
    BY <1>4, <2>1 DEF IsInjective
  <2> HIDE DEF D
  <2> QED
    BY <1>5, <2>2 DEF Injection
<1>7. IsFiniteSet(D) /\ Cardinality(D) = Cardinality(mine)
  BY <1>1, CountOf
<1>8. g \in Surjection(mine, D)
  <2> HIDE DEF D
  <2> QED
    BY <1>6, <1>7, FS_Injection
<1>9. PICK c \in mine : g[c] = j
  <2> HIDE DEF D
  <2>1. j \in D
    BY DEF D
  <2> QED
    BY <1>8, <2>1 DEF Surjection
<1> QED
  BY <1>2, <1>3, <1>9

\* The vectors of all channels in one, where each channel finds its own.
LEMMA InterleavedIs ==
  ASSUME NEW n \in Nat \ {0}, NEW len \in Nat, NEW v \in [0 .. n - 1 -> Vector(len)]
  PROVE  /\ Interleaved(v) \in Vector(n * len)
         /\ \A j \in 0 .. n - 1, i \in 0 .. len - 1 :
              j + n * i \in 0 .. n * len - 1 /\ Interleaved(v)[j + n * i] = v[j][i]
<1> DEFINE X == 0 .. n * len - 1
           f == [x \in X |-> v[x % n][x \div n]]
<1>1. DOMAIN v = 0 .. n - 1 /\ \A j \in 0 .. n - 1 : v[j] \in [0 .. len - 1 -> Int]
  BY DEF Vector
<1>2. Cardinality(DOMAIN v) = n /\ Cardinality(DOMAIN v[0]) = len
  <2>1. DOMAIN v[0] = 0 .. len - 1
    BY <1>1
  <2> QED
    BY <1>1, <2>1, CountOf
<1>3. Interleaved(v) = f
  BY <1>2, TableIsItself DEF Interleaved
<1>4. ASSUME NEW x \in X PROVE (x % n) \in 0 .. n - 1 /\ x \div n \in 0 .. len - 1
  <2>1. x \in 0 .. len * n - 1
    OBVIOUS
  <2> QED
    BY <2>1, PlaceIsCounted
<1>5. \A x \in X : v[x % n][x \div n] \in Int
  BY <1>1, <1>4
<1>6. f \in Vector(n * len)
  <2> HIDE DEF X
  <2>1. f \in [X -> Int]
    BY <1>5
  <2> QED
    BY <2>1 DEF Vector, X
<1>7. ASSUME NEW j \in 0 .. n - 1, NEW i \in 0 .. len - 1
      PROVE  j + n * i \in X /\ f[j + n * i] = v[j][i]
  <2>1. (n * i + j) \div n = i /\ (n * i + j) % n = j
    <3>1. i \in Nat
      OBVIOUS
    <3> QED
      BY <3>1, Divided
  <2>2. n * i \in Nat /\ n * i + n <= n * len /\ n * len \in Nat
    <3>1. PICK d \in Nat : len = i + 1 + d
      <4>1. len - i - 1 \in Nat /\ len = i + 1 + (len - i - 1)
        OBVIOUS
      <4> QED
        BY <4>1
    <3>2. n * len = n * i + n + n * d /\ n * d \in Nat /\ n * i \in Nat
      BY <3>1
    <3> QED
      BY <3>2
  <2>3. j + n * i = n * i + j /\ j + n * i \in X
    BY <2>2
  <2> QED
    BY <2>1, <2>3
<1> QED
  BY <1>3, <1>6, <1>7

\* What an encoder can send with the setup s.
Makes(s, x) ==
  /\ s \in Setups /\ x.mode \in DOMAIN s
  /\ x.used \in [Channels -> BOOLEAN]
  /\ x.coupled \in [0 .. Len(s[x.mode].mapping.couplings) ->
                      [Channels -> Vector(decode_len(s, x.mode))]]
  /\ \A i \in 1 .. Len(s[x.mode].mapping.couplings) :
       x.coupled[i] = CoupleVectors(x.coupled[i - 1], s[x.mode].mapping.couplings[i])
  /\ x.sent = x.coupled[0]
  /\ CanSend(s, x)

SentCoupled(s, x) == x.coupled[Len(s[x.mode].mapping.couplings)]
IsSentFor(s, x, c) == IsDecoded(s[x.mode].mapping, x.used, c)
MembersOf(s, x, i) == Members(s[x.mode].mapping, i)
ResidueOf(s, x, i) == s[x.mode].mapping.submaps[i].residue
CountIn(s, x, i) == Cardinality(DOMAIN MembersOf(s, x, i))

\* The one vector of a submap, if it is decoded.
IsSentIn(s, x, i) == ResidueOf(s, x, i).type = 2 \/ IsSentFor(s, x, MembersOf(s, x, i)[0])
LengthIn(s, x, i) ==
  IF ResidueOf(s, x, i).type = 2 THEN CountIn(s, x, i) * decode_len(s, x.mode)
  ELSE decode_len(s, x.mode)
VectorIn(s, x, i) ==
  IF ResidueOf(s, x, i).type = 2 THEN Interleaved(Of(MembersOf(s, x, i), SentCoupled(s, x)))
  ELSE SentCoupled(s, x)[MembersOf(s, x, i)[0]]

LEMMA SetupIs ==
  ASSUME NEW s, NEW x, Makes(s, x)
  PROVE  /\ Len(s[x.mode].mapping.couplings) \in Nat
         /\ decode_len(s, x.mode) \in Nat
         /\ SentCoupled(s, x) \in [Channels -> Vector(decode_len(s, x.mode))]
         /\ s[x.mode].mapping.muxs \in [Channels -> DOMAIN s[x.mode].mapping.submaps]
         /\ \E n \in Nat : DOMAIN s[x.mode].mapping.submaps = 0 .. n - 1
         /\ s[x.mode].block_flag \in BOOLEAN
<1>1. s \in Setups /\ x.mode \in DOMAIN s
  BY DEF Makes
<1>2. ParsedMapping(s[x.mode].mapping) /\ s[x.mode].block_flag \in BOOLEAN
  BY <1>1, AudioAssumption
<1>3. Len(s[x.mode].mapping.couplings) \in Nat
  <2>1. s[x.mode].mapping.couplings \in Seq([magnitude : Channels, angle : Channels])
    BY <1>2 DEF ParsedMapping
  <2> QED
    BY <2>1
<1>4. decode_len(s, x.mode) \in Nat
  <2>1. Blocksize[s[x.mode].block_flag] \in Nat
    BY <1>2, AudioAssumption
  <2> QED
    BY <2>1 DEF decode_len
<1>5. SentCoupled(s, x) \in [Channels -> Vector(decode_len(s, x.mode))]
  <2>1. Len(s[x.mode].mapping.couplings) \in 0 .. Len(s[x.mode].mapping.couplings)
    BY <1>3
  <2> QED
    BY <2>1 DEF Makes, SentCoupled
<1>6. /\ s[x.mode].mapping.muxs \in [Channels -> DOMAIN s[x.mode].mapping.submaps]
      /\ \E n \in 1 .. 16 : DOMAIN s[x.mode].mapping.submaps = 0 .. n - 1
  BY <1>2 DEF ParsedMapping
<1> QED
  BY <1>2, <1>3, <1>4, <1>5, <1>6

LEMMA SubmapIs ==
  ASSUME OneVectorEach, NEW s, NEW x, Makes(s, x), NEW i \in DOMAIN s[x.mode].mapping.submaps
  PROVE  /\ ParsedResidue(ResidueOf(s, x, i)) /\ WholeVectors(ResidueOf(s, x, i))
         /\ CountIn(s, x, i) \in Nat \ {0}
         /\ DOMAIN MembersOf(s, x, i) = 0 .. CountIn(s, x, i) - 1
         /\ ResidueOf(s, x, i).type # 2 => CountIn(s, x, i) = 1
         /\ LengthIn(s, x, i) \in Nat
         /\ VectorIn(s, x, i) \in Vector(LengthIn(s, x, i))
         /\ Of(MembersOf(s, x, i), SentCoupled(s, x)) \in
              [0 .. CountIn(s, x, i) - 1 -> Vector(decode_len(s, x.mode))]
<1> DEFINE m == s[x.mode].mapping
           r == ResidueOf(s, x, i)
           members == MembersOf(s, x, i)
           mine == {c \in Channels : m.muxs[c] = i}
           n == CountIn(s, x, i)
           len == decode_len(s, x.mode)
           coupled == SentCoupled(s, x)
<1>1. s \in Setups /\ x.mode \in DOMAIN s /\ CanSend(s, x)
  BY DEF Makes
<1>2. ParsedMapping(m)
  BY <1>1, AudioAssumption
<1>3. ParsedResidue(r)
  BY <1>2 DEF ParsedMapping, ResidueOf
<1>4. WholeVectors(r) /\ (r.type = 2 \/ Cardinality(mine) <= 1)
  BY <1>1 DEF OneVectorEach, ResidueOf
<1>5. Cardinality(mine) \in Nat /\ DOMAIN members = 0 .. Cardinality(mine) - 1
  BY MembersCount DEF MembersOf
<1>6. n = Cardinality(mine)
  BY <1>5, CountOf DEF CountIn
<1>7. DOMAIN members # {}
  BY <1>1 DEF CanSend, MembersOf
<1> HIDE DEF mine, n
<1>8. n \in Nat \ {0} /\ DOMAIN members = 0 .. n - 1 /\ 0 \in 0 .. n - 1
  <2>1. Cardinality(mine) # 0
    <3>1. 0 .. 0 - 1 = {}
      OBVIOUS
    <3> QED
      BY <1>5, <1>7, <3>1
  <2> QED
    BY <1>5, <1>6, <2>1
<1>9. r.type # 2 => n = 1
  BY <1>4, <1>6, <1>8
<1>10. len \in Nat /\ coupled \in [Channels -> Vector(len)]
  BY SetupIs
<1>11. \A j \in 0 .. n - 1 : members[j] \in Channels
  BY <1>8, MembersAre DEF MembersOf
<1>12. Of(members, coupled) = [j \in 0 .. n - 1 |-> coupled[members[j]]]
  BY <1>8, TableIsItself DEF Of
<1> HIDE DEF len, coupled, members, r
<1>13. Of(members, coupled) \in [0 .. n - 1 -> Vector(len)]
  BY <1>10, <1>11, <1>12
<1>14. LengthIn(s, x, i) \in Nat /\ VectorIn(s, x, i) \in Vector(LengthIn(s, x, i))
  <2>1. CASE r.type = 2
    <3>1. Interleaved(Of(members, coupled)) \in Vector(n * len) /\ n * len \in Nat
      BY <1>8, <1>10, <1>13, InterleavedIs
    <3> QED
      BY <2>1, <3>1 DEF LengthIn, VectorIn, r, members, coupled, len, n
  <2>2. CASE r.type # 2
    <3>1. coupled[members[0]] \in Vector(len)
      BY <1>8, <1>10, <1>11
    <3> QED
      BY <1>10, <2>2, <3>1 DEF LengthIn, VectorIn, r, members, coupled, len
  <2> QED
    BY <2>1, <2>2
<1> QED
  BY <1>3, <1>4, <1>8, <1>9, <1>13, <1>14 DEF r, members, coupled, len, n

\* The bits of a submap: those of its vector, or none.
LEMMA EncodeSubmapIs ==
  ASSUME OneVectorEach, NEW s, NEW x, Makes(s, x), NEW i \in DOMAIN s[x.mode].mapping.submaps,
         NEW r, r = ResidueOf(s, x, i), NEW w, w = VectorIn(s, x, i),
         NEW count, count = PartitionsIn(r, LengthIn(s, x, i)),
         NEW bits, bits = EncodeSubmap(s[x.mode].mapping, x, i)
  PROVE  /\ IsSentIn(s, x, i) =>
              /\ bits = EncodeWith(r, CodingsOf(r, w), 1, count)
              /\ Coded(r, w, CodingsOf(r, w), count)
              /\ \A p \in 0 .. LengthIn(s, x, i) - 1 :
                   w[p] # 0 => p \in r.begin .. r.begin + count * r.partition_size - 1
         /\ ~IsSentIn(s, x, i) => bits = <<>>
         /\ bits \in Seq(Bit)
<1> DEFINE m == s[x.mode].mapping
           members == MembersOf(s, x, i)
           n == CountIn(s, x, i)
           len == LengthIn(s, x, i)
           decoded == [c \in Channels |-> IsDecoded(m, x.used, c)]
           v == Of(members, SentCoupled(s, x))
           used == Of(members, decoded)
<1>1. /\ ParsedResidue(r) /\ WholeVectors(r) /\ n \in Nat \ {0}
      /\ DOMAIN members = 0 .. n - 1 /\ (r.type # 2 => n = 1)
      /\ len \in Nat /\ w \in Vector(len) /\ 0 \in 0 .. n - 1
  BY SubmapIs
<1>2. /\ v = [j \in 0 .. n - 1 |-> SentCoupled(s, x)[members[j]]]
      /\ used = [j \in 0 .. n - 1 |-> decoded[members[j]]]
  BY <1>1, TableIsItself DEF Of
<1>3. bits = EncodeResidue(r, v, used)
  BY TableIsItself DEF EncodeSubmap, ResidueOf, MembersOf, SentCoupled
<1>4. /\ (r.type = 2 => \E c \in Channels : m.muxs[c] = i /\ decoded[c])
      /\ ResidueEncodable(r, v, used)
  <2>1. Table(decoded) = decoded
    BY TableIsItself
  <2>2. CanSend(s, x)
    BY DEF Makes
  <2> QED
    BY <2>1, <2>2 DEF CanSend, ResidueOf, MembersOf, SentCoupled
<1>5. \A j \in 0 .. n - 1 : members[j] \in Channels
  BY <1>1, MembersAre DEF MembersOf
<1>6. CASE r.type = 2
  <2>1. IsSentIn(s, x, i) /\ w = Interleaved(v)
    BY <1>6 DEF IsSentIn, VectorIn
  <2>2. ~(\A j \in DOMAIN used : ~used[j])
    <3>1. PICK c \in Channels : m.muxs[c] = i /\ decoded[c]
      BY <1>4, <1>6
    <3>2. PICK j \in DOMAIN members : members[j] = c
      BY <3>1, MemberExists DEF MembersOf
    <3> HIDE DEF decoded, members
    <3>3. used[j] /\ j \in DOMAIN used
      BY <1>1, <1>2, <3>1, <3>2
    <3> QED
      BY <3>3
  <2>3. bits = EncodeVectors(r, Alone(w), Alone(TRUE))
    <3> HIDE DEF used, v
    <3> QED
      BY <1>3, <1>6, <2>1, <2>2 DEF EncodeResidue, AsOne, Alone
  <2>4. Encodable(r, w)
    <3> HIDE DEF used, v
    <3> QED
      BY <1>4, <1>6, <2>1 DEF ResidueEncodable
  <2>5. bits = EncodeWith(r, CodingsOf(r, w), 1, count)
    BY <1>1, <2>3, EncodeAlone
  <2>6. /\ Coded(r, w, CodingsOf(r, w), count)
        /\ \A p \in 0 .. len - 1 :
             w[p] # 0 => p \in r.begin .. r.begin + count * r.partition_size - 1
    BY <1>1, <2>4, EncodableIsCoded
  <2>7. bits \in Seq(Bit)
    BY <2>5, <2>6, EncodeTypes
  <2> QED
    BY <2>1, <2>5, <2>6, <2>7
<1>7. CASE r.type # 2 /\ decoded[members[0]]
  <2>1. IsSentIn(s, x, i) /\ w = SentCoupled(s, x)[members[0]] /\ n = 1
    <3>1. IsDecoded(m, x.used, members[0])
      BY <1>1, <1>5, <1>7
    <3> QED
      BY <1>1, <1>7, <3>1 DEF IsSentIn, VectorIn, IsSentFor
  <2>2. \A j : j \in 0 .. 1 - 1 <=> j = 0
    OBVIOUS
  <2>3. v = Alone(w)
    <3> HIDE DEF v
    <3> QED
      BY <1>2, <2>1, <2>2 DEF Alone
  <2>4. used = Alone(TRUE)
    <3>1. decoded[members[0]] = TRUE
      BY <1>1, <1>5, <1>7
    <3>2. used = [j \in {0} |-> decoded[members[j]]]
      <4>1. 0 .. n - 1 = {0}
        BY <2>1, <2>2
      <4> HIDE DEF used, decoded, members, n
      <4> QED
        BY <1>2, <4>1
    <3> HIDE DEF used, decoded, members
    <3>3. \A j \in {0} : decoded[members[j]] = TRUE
      BY <3>1
    <3> QED
      BY <3>2, <3>3, Zenon DEF Alone
  <2>5. bits = EncodeVectors(r, Alone(w), Alone(TRUE))
    <3> HIDE DEF used, v
    <3>1. ~(\A j \in DOMAIN used : ~used[j])
      BY <2>4 DEF Alone
    <3> QED
      BY <1>3, <1>7, <2>3, <2>4, <3>1 DEF EncodeResidue, AsOne
  <2>6. Encodable(r, w)
    <3> HIDE DEF used, v
    <3>1. v[0] = w /\ 0 \in {j \in DOMAIN v : used[j]}
      BY <2>3, <2>4 DEF Alone
    <3> QED
      BY <1>4, <1>7, <3>1 DEF ResidueEncodable
  <2>7. bits = EncodeWith(r, CodingsOf(r, w), 1, count)
    BY <1>1, <2>5, EncodeAlone
  <2>8. /\ Coded(r, w, CodingsOf(r, w), count)
        /\ \A p \in 0 .. len - 1 :
             w[p] # 0 => p \in r.begin .. r.begin + count * r.partition_size - 1
    BY <1>1, <2>6, EncodableIsCoded
  <2>9. bits \in Seq(Bit)
    BY <2>7, <2>8, EncodeTypes
  <2> QED
    BY <2>1, <2>7, <2>8, <2>9
<1>8. CASE r.type # 2 /\ ~decoded[members[0]]
  <2>1. ~IsSentIn(s, x, i)
    <3>1. ~IsDecoded(m, x.used, members[0])
      BY <1>1, <1>5, <1>8
    <3> QED
      BY <1>8, <3>1 DEF IsSentIn, IsSentFor
  <2>2. \A j \in DOMAIN used : ~used[j]
    <3>1. \A j \in 0 .. 1 - 1 : j = 0
      OBVIOUS
    <3> HIDE DEF used, decoded
    <3> QED
      BY <1>1, <1>2, <1>8, <3>1
  <2>3. bits = <<>>
    <3> HIDE DEF used, v
    <3> QED
      BY <1>3, <2>2 DEF EncodeResidue
  <2> QED
    BY <2>1, <2>3
<1> QED
  BY <1>6, <1>7, <1>8

-----------------------------------------------------------------------------
(* Where the parts of a packet are                                         *)

FloorsOf(x) == [c \in Channels |-> EncodeFloor(x, c)]
SubmapsOf(s, x) ==
  [i \in DOMAIN s[x.mode].mapping.submaps |-> EncodeSubmap(s[x.mode].mapping, x, i)]
FloorAt(s, x, c) == Len(EncodeHead(s, x)) + Len(Joined(FloorsOf(x), c))
SubmapAt(s, x, i) == FloorAt(s, x, AudioChannels) + Len(Joined(SubmapsOf(s, x), i))

\* All bits of a packet to which nothing is missing.
LEMMA PackedHolds ==
  ASSUME NEW bits \in Seq(Bit), packet = Packed(bits, 0)
  PROVE  Holds(0, bits)
<1> DEFINE n == Len(bits)
           bytes == (n + 7) \div 8
           kept == IF 0 < bytes THEN bytes - 0 ELSE 0
<1>1. n \in Nat /\ bytes \in Nat /\ 8 * bytes >= n
  OBVIOUS
<1>2. kept = bytes
  BY <1>1
<1>3. packet = [i \in 0 .. 8 * kept - 1 |-> IF i < n THEN bits[i + 1] ELSE 0]
  BY DEF Packed
<1> HIDE DEF n, bytes, kept
<1>4. ASSUME NEW i \in 1 .. n
      PROVE  0 + i - 1 \in DOMAIN packet /\ packet[0 + i - 1] = bits[i]
  <2>1. i - 1 \in 0 .. 8 * kept - 1 /\ i - 1 < n /\ (i - 1) + 1 = i /\ 0 + i - 1 = i - 1
    BY <1>1, <1>2
  <2>2. packet[i - 1] = bits[(i - 1) + 1] /\ i - 1 \in DOMAIN packet
    BY <1>3, <2>1
  <2> QED
    BY <2>1, <2>2
<1> QED
  BY <1>4 DEF Holds, n

\* A number has no more bits than this.
LEMMA LogBounds ==
  ASSUME NEW n \in 0 .. 63, NEW v \in 0 .. n
  PROVE  v \in 0 .. Doubled(Log(n)) - 1
<1>1. Doubled(0) = 1 /\ Doubled(0 + 1) = 2 * Doubled(0)
  BY DoubledStep
<1>2. Doubled(1 + 1) = 2 * Doubled(1)
  BY DoubledStep
<1>3. Doubled(2 + 1) = 2 * Doubled(2)
  BY DoubledStep
<1>4. Doubled(3 + 1) = 2 * Doubled(3)
  BY DoubledStep
<1>5. Doubled(4 + 1) = 2 * Doubled(4)
  BY DoubledStep
<1>6. Doubled(5 + 1) = 2 * Doubled(5)
  BY DoubledStep
<1>7. /\ Doubled(0) = 1 /\ Doubled(1) = 2 /\ Doubled(2) = 4 /\ Doubled(3) = 8
      /\ Doubled(4) = 16 /\ Doubled(5) = 32 /\ Doubled(6) = 64
  BY <1>1, <1>2, <1>3, <1>4, <1>5, <1>6
<1>8. \/ n = 0 \/ n = 1 \/ n \in 2 .. 3 \/ n \in 4 .. 7 \/ n \in 8 .. 15
      \/ n \in 16 .. 31 \/ n \in 32 .. 63
  OBVIOUS
<1>9. \/ Log(n) = 0 /\ n < 1
      \/ Log(n) = 1 /\ n < 2
      \/ Log(n) = 2 /\ n < 4
      \/ Log(n) = 3 /\ n < 8
      \/ Log(n) = 4 /\ n < 16
      \/ Log(n) = 5 /\ n < 32
      \/ Log(n) = 6 /\ n < 64
  BY <1>8 DEF Log
<1> QED
  BY <1>7, <1>9

\* The mode's number and its bits.
LEMMA ModeFits ==
  ASSUME NEW s, NEW x, Makes(s, x),
         NEW hb, hb = highest_bit(Cardinality(DOMAIN s) - 1)
  PROVE  hb \in Nat /\ x.mode \in 0 .. Doubled(hb) - 1
<1>1. PICK k \in 0 .. 63 : DOMAIN s = 0 .. k
  <2>1. s \in Setups
    BY DEF Makes
  <2> QED
    BY <2>1, AudioAssumption
<1>2. Cardinality(DOMAIN s) = k + 1
  <2>1. 0 .. k = 0 .. (k + 1) - 1 /\ k + 1 \in Nat
    OBVIOUS
  <2> QED
    BY <1>1, <2>1, CountOf
<1>3. hb = highest_bit(k)
  <2>1. k + 1 - 1 = k
    OBVIOUS
  <2> QED
    BY <1>2, <2>1
<1>4. hb = Log(k) /\ Log(k) \in 0 .. 6
  BY <1>3, HighestBit
<1>5. x.mode \in 0 .. k
  BY <1>1 DEF Makes
<1> QED
  BY <1>4, <1>5, LogBounds

FlagBits(s, x) == IF s[x.mode].block_flag THEN <<0, 1>> ELSE <<>>

LEMMA HeadIsBits ==
  ASSUME NEW s, NEW x, Makes(s, x),
         NEW hb, hb = highest_bit(Cardinality(DOMAIN s) - 1)
  PROVE  /\ EncodeHead(s, x) = (<<0>> \o Bits(x.mode, hb)) \o FlagBits(s, x)
         /\ <<0>> \o Bits(x.mode, hb) \in Seq(Bit) /\ Len(<<0>> \o Bits(x.mode, hb)) = 1 + hb
         /\ FlagBits(s, x) \in Seq(Bit)
         /\ Len(FlagBits(s, x)) = IF s[x.mode].block_flag THEN 2 ELSE 0
         /\ EncodeHead(s, x) \in Seq(Bit)
         /\ Len(EncodeHead(s, x)) = 1 + hb + Len(FlagBits(s, x))
<1>1. hb \in Nat /\ x.mode \in Nat
  BY ModeFits
<1>2. Bits(x.mode, hb) \in Seq(Bit) /\ Len(Bits(x.mode, hb)) = hb
  BY <1>1, BitsType
<1>3. <<0>> \in Seq(Bit) /\ Len(<<0>>) = 1
  BY DEF Bit
<1>4. <<0>> \o Bits(x.mode, hb) \in Seq(Bit) /\ Len(<<0>> \o Bits(x.mode, hb)) = 1 + hb
  BY <1>2, <1>3, BothType
<1>5. /\ FlagBits(s, x) \in Seq(Bit)
      /\ Len(FlagBits(s, x)) = IF s[x.mode].block_flag THEN 2 ELSE 0
  <2>1. <<0, 1>> \in Seq(Bit) /\ Len(<<0, 1>>) = 2
    BY DEF Bit
  <2>2. <<>> \in Seq(Bit) /\ Len(<<>>) = 0
    OBVIOUS
  <2> QED
    BY <2>1, <2>2 DEF FlagBits
<1>6. EncodeHead(s, x) = (<<0>> \o Bits(x.mode, hb)) \o FlagBits(s, x)
  BY DEF EncodeHead, FlagBits
<1>7. EncodeHead(s, x) \in Seq(Bit) /\ Len(EncodeHead(s, x)) = 1 + hb + Len(FlagBits(s, x))
  BY <1>4, <1>5, <1>6, BothType
<1> QED
  BY <1>4, <1>5, <1>6, <1>7

LEMMA FloorIsBits ==
  ASSUME NEW x, NEW c \in Channels
  PROVE  /\ EncodeFloor(x, c) \in Seq(Bit)
         /\ x.used[c] => /\ EncodeFloor(x, c) = <<1>> \o Bits(Curve(c), FloorBits)
                         /\ Len(EncodeFloor(x, c)) = 1 + FloorBits
         /\ ~x.used[c] => EncodeFloor(x, c) = <<0>> /\ Len(EncodeFloor(x, c)) = 1
         /\ Curve(c) \in 0 .. Doubled(FloorBits) - 1
         /\ Bits(Curve(c), FloorBits) \in Seq(Bit)
         /\ Len(Bits(Curve(c), FloorBits)) = FloorBits
<1>1. FloorBits \in Nat \ {0} /\ c \in Nat
  BY AudioAssumption DEF Channels
<1>2. Doubled(FloorBits) \in Nat \ {0}
  BY <1>1, DoubledStep
<1>3. Curve(c) \in 0 .. Doubled(FloorBits) - 1
  BY <1>1, <1>2 DEF Curve
<1>4. Bits(Curve(c), FloorBits) \in Seq(Bit) /\ Len(Bits(Curve(c), FloorBits)) = FloorBits
  BY <1>1, <1>2, <1>3, BitsType
<1>5. <<1>> \in Seq(Bit) /\ Len(<<1>>) = 1 /\ <<0>> \in Seq(Bit) /\ Len(<<0>>) = 1
  BY DEF Bit
<1>6. /\ <<1>> \o Bits(Curve(c), FloorBits) \in Seq(Bit)
      /\ Len(<<1>> \o Bits(Curve(c), FloorBits)) = 1 + FloorBits
  BY <1>4, <1>5, BothType
<1> QED
  BY <1>3, <1>4, <1>5, <1>6 DEF EncodeFloor

\* All of them, and none.
LEMMA AllJoined ==
  ASSUME NEW n \in Nat, NEW f, AreBits(f, n)
  PROVE  Joined(f, n) \in Seq(Bit) /\ Joined(f, 0) = <<>> /\ Len(Joined(f, 0)) = 0
<1>1. Joined(f, 0) = <<>> /\ \A i \in 0 .. n : Joined(f, i) \in Seq(Bit)
  BY JoinedStep
<1>2. n \in 0 .. n /\ Len(<<>>) = 0
  OBVIOUS
<1> QED
  BY <1>1, <1>2

\* One more.
LEMMA OneMoreJoined ==
  ASSUME NEW n \in Nat, NEW f, AreBits(f, n), NEW i \in 0 .. n - 1
  PROVE  /\ Len(Joined(f, i)) \in Nat
         /\ Len(Joined(f, i + 1)) = Len(Joined(f, i)) + Len(f[i])
         /\ Len(f[i]) \in Nat
<1>1. /\ \A k \in 0 .. n : Joined(f, k) \in Seq(Bit)
      /\ \A k \in 1 .. n : Joined(f, k) = Joined(f, k - 1) \o f[k - 1]
  BY JoinedStep
<1>2. f[i] \in Seq(Bit)
  BY DEF AreBits
<1>3. i \in 0 .. n /\ i + 1 \in 1 .. n /\ (i + 1) - 1 = i
  OBVIOUS
<1>4. Joined(f, i) \in Seq(Bit) /\ Joined(f, i + 1) = Joined(f, i) \o f[i]
  BY <1>1, <1>3
<1> QED
  BY <1>2, <1>4, BothType

FloorsEnd(s, x) == EncodeHead(s, x) \o Joined(FloorsOf(x), AudioChannels)

LEMMA PartsOf ==
  ASSUME OneVectorEach, NEW s, NEW x, Makes(s, x),
         NEW n \in Nat, DOMAIN s[x.mode].mapping.submaps = 0 .. n - 1
  PROVE  /\ AudioChannels \in Nat
         /\ AreBits(FloorsOf(x), AudioChannels)
         /\ AreBits(SubmapsOf(s, x), n)
         /\ EncodeHead(s, x) \in Seq(Bit)
         /\ FloorsEnd(s, x) \in Seq(Bit)
         /\ Len(FloorsEnd(s, x)) = FloorAt(s, x, AudioChannels)
         /\ Encode(s, x) = FloorsEnd(s, x) \o Joined(SubmapsOf(s, x), n)
         /\ Encode(s, x) \in Seq(Bit)
<1>1. AudioChannels \in Nat
  BY AudioAssumption
<1>2. AreBits(FloorsOf(x), AudioChannels)
  <2>1. \A c \in Channels : FloorsOf(x)[c] = EncodeFloor(x, c) /\ EncodeFloor(x, c) \in Seq(Bit)
    BY FloorIsBits DEF FloorsOf
  <2> QED
    BY <2>1 DEF AreBits, Channels
<1>3. AreBits(SubmapsOf(s, x), n)
  <2>1. ASSUME NEW i \in 0 .. n - 1 PROVE SubmapsOf(s, x)[i] \in Seq(Bit)
    <3>1. EncodeSubmap(s[x.mode].mapping, x, i) \in Seq(Bit)
      BY EncodeSubmapIs
    <3>2. SubmapsOf(s, x)[i] = EncodeSubmap(s[x.mode].mapping, x, i)
      BY DEF SubmapsOf
    <3> QED
      BY <3>1, <3>2
  <2> QED
    BY <2>1 DEF AreBits
<1>4. EncodeHead(s, x) \in Seq(Bit)
  BY HeadIsBits
<1>5. Joined(FloorsOf(x), AudioChannels) \in Seq(Bit)
  BY <1>1, <1>2, AllJoined
<1>6. FloorsEnd(s, x) \in Seq(Bit) /\ Len(FloorsEnd(s, x)) = FloorAt(s, x, AudioChannels)
  BY <1>4, <1>5, BothType DEF FloorsEnd, FloorAt
<1>7. Joined(SubmapsOf(s, x), n) \in Seq(Bit)
  BY <1>3, AllJoined
<1>8. Encode(s, x) = FloorsEnd(s, x) \o Joined(SubmapsOf(s, x), n)
  <2>1. Cardinality(DOMAIN s[x.mode].mapping.submaps) = n
    BY CountOf
  <2> QED
    BY <2>1 DEF Encode, FloorsEnd, FloorsOf, SubmapsOf
<1>9. Encode(s, x) \in Seq(Bit)
  BY <1>6, <1>7, <1>8, BothType
<1> QED
  BY <1>1, <1>2, <1>3, <1>4, <1>6, <1>8, <1>9

\* The packet has each of the parts behind those before it.
LEMMA PartsAreHeld ==
  ASSUME OneVectorEach, NEW s, NEW x, Makes(s, x), Holds(0, Encode(s, x))
  PROVE  /\ Holds(0, EncodeHead(s, x))
         /\ FloorAt(s, x, 0) = Len(EncodeHead(s, x))
         /\ \A c \in Channels :
              /\ FloorAt(s, x, c) \in Nat
              /\ Holds(FloorAt(s, x, c), EncodeFloor(x, c))
              /\ FloorAt(s, x, c + 1) = FloorAt(s, x, c) + Len(EncodeFloor(x, c))
         /\ SubmapAt(s, x, 0) = FloorAt(s, x, AudioChannels)
         /\ \A i \in DOMAIN s[x.mode].mapping.submaps :
              /\ SubmapAt(s, x, i) \in Nat
              /\ Holds(SubmapAt(s, x, i), EncodeSubmap(s[x.mode].mapping, x, i))
              /\ SubmapAt(s, x, i + 1)
                   = SubmapAt(s, x, i) + Len(EncodeSubmap(s[x.mode].mapping, x, i))
<1>1. PICK n \in Nat : DOMAIN s[x.mode].mapping.submaps = 0 .. n - 1
  BY SetupIs
<1> DEFINE h == EncodeHead(s, x)
           f == FloorsOf(x)
           g == SubmapsOf(s, x)
           N == AudioChannels
           a == FloorAt(s, x, N)
<1>2. /\ N \in Nat /\ AreBits(f, N) /\ AreBits(g, n) /\ h \in Seq(Bit)
      /\ FloorsEnd(s, x) \in Seq(Bit) /\ Len(FloorsEnd(s, x)) = a
      /\ Encode(s, x) = FloorsEnd(s, x) \o Joined(g, n)
  BY <1>1, PartsOf
<1>3. \A c \in Channels : f[c] = EncodeFloor(x, c) /\ c \in 0 .. N - 1
  BY DEF FloorsOf, Channels
<1>4. \A i \in 0 .. n - 1 : g[i] = EncodeSubmap(s[x.mode].mapping, x, i)
  BY <1>1 DEF SubmapsOf
<1>5. FloorsEnd(s, x) = h \o Joined(f, N)
  BY DEF FloorsEnd
<1>6. /\ \A c \in 0 .. N : FloorAt(s, x, c) = Len(h) + Len(Joined(f, c))
      /\ \A i \in 0 .. n : SubmapAt(s, x, i) = a + Len(Joined(g, i))
  BY DEF FloorAt, SubmapAt
<1> HIDE DEF h, f, g, N, a
<1>7. /\ Joined(f, N) \in Seq(Bit) /\ Joined(g, n) \in Seq(Bit)
      /\ Len(Joined(f, 0)) = 0 /\ Len(Joined(g, 0)) = 0
  BY <1>2, AllJoined
<1>8. /\ Holds(0, FloorsEnd(s, x)) /\ Holds(0 + a, Joined(g, n))
      /\ a \in Nat /\ 0 + a = a
  BY <1>2, <1>7, HoldsParts
<1>9. Holds(0, h) /\ Holds(0 + Len(h), Joined(f, N)) /\ Len(h) \in Nat /\ 0 + Len(h) = Len(h)
  BY <1>2, <1>5, <1>7, <1>8, HoldsParts
<1>10. FloorAt(s, x, 0) = Len(h)
  <2>1. 0 \in 0 .. N
    BY <1>2
  <2> QED
    BY <1>6, <1>7, <1>9, <2>1
<1>11. SubmapAt(s, x, 0) = a
  <2>1. 0 \in 0 .. n
    OBVIOUS
  <2>2. SubmapAt(s, x, 0) = a + Len(Joined(g, 0))
    BY <1>6, <2>1, Zenon
  <2>3. a + Len(Joined(g, 0)) = a
    BY <1>7, <1>8
  <2> QED
    BY <2>2, <2>3
<1>12. ASSUME NEW c \in Channels
       PROVE  /\ FloorAt(s, x, c) \in Nat
              /\ Holds(FloorAt(s, x, c), EncodeFloor(x, c))
              /\ FloorAt(s, x, c + 1) = FloorAt(s, x, c) + Len(EncodeFloor(x, c))
  <2>1. c \in 0 .. N - 1 /\ f[c] = EncodeFloor(x, c) /\ c \in 0 .. N /\ c + 1 \in 1 .. N
        /\ c + 1 \in 0 .. N /\ c + 1 - 1 = c
    BY <1>2, <1>3
  <2>2. Holds(Len(h) + Len(Joined(f, c)), f[c])
    BY <1>2, <1>9, <2>1, HoldsJoined
  <2>3. /\ Len(Joined(f, c)) \in Nat /\ Len(f[c]) \in Nat
        /\ Len(Joined(f, c + 1)) = Len(Joined(f, c)) + Len(f[c])
    BY <1>2, <2>1, OneMoreJoined
  <2> QED
    BY <1>6, <1>9, <2>1, <2>2, <2>3
<1>13. ASSUME NEW i \in DOMAIN s[x.mode].mapping.submaps
       PROVE  /\ SubmapAt(s, x, i) \in Nat
              /\ Holds(SubmapAt(s, x, i), EncodeSubmap(s[x.mode].mapping, x, i))
              /\ SubmapAt(s, x, i + 1)
                   = SubmapAt(s, x, i) + Len(EncodeSubmap(s[x.mode].mapping, x, i))
  <2>1. i \in 0 .. n - 1 /\ i \in 0 .. n /\ i + 1 \in 1 .. n
        /\ i + 1 \in 0 .. n /\ i + 1 - 1 = i
    BY <1>1
  <2>2. Holds(a + Len(Joined(g, i)), g[i])
    BY <1>2, <1>8, <2>1, HoldsJoined
  <2>3. /\ Len(Joined(g, i)) \in Nat /\ Len(g[i]) \in Nat
        /\ Len(Joined(g, i + 1)) = Len(Joined(g, i)) + Len(g[i])
    BY <1>2, <2>1, OneMoreJoined
  <2>4. /\ SubmapAt(s, x, i) = a + Len(Joined(g, i))
        /\ SubmapAt(s, x, i + 1) = a + Len(Joined(g, i + 1))
    BY <1>6, <2>1, Zenon
  <2>5. g[i] = EncodeSubmap(s[x.mode].mapping, x, i)
    BY <1>4, <2>1
  <2>6. a \in Nat
    BY <1>8
  <2>7. SubmapAt(s, x, i) \in Nat
    BY <2>3, <2>4, <2>6
  <2> DEFINE l == Len(Joined(g, i))
             k == Len(g[i])
  <2>8. SubmapAt(s, x, i + 1) = SubmapAt(s, x, i) + Len(g[i])
    <3>1. SubmapAt(s, x, i) = a + l /\ SubmapAt(s, x, i + 1) = a + (l + k)
      BY <2>3, <2>4, Zenon
    <3>2. l \in Nat /\ k \in Nat
      BY <2>3
    <3> HIDE DEF l, k
    <3>3. a + (l + k) = (a + l) + k
      BY <2>6, <3>2
    <3>4. SubmapAt(s, x, i + 1) = SubmapAt(s, x, i) + k
      BY <3>1, <3>3, Zenon
    <3> QED
      BY <3>4 DEF k
  <2> QED
    BY <2>2, <2>4, <2>5, <2>7, <2>8
<1> QED
  BY <1>9, <1>10, <1>11, <1>12, <1>13 DEF h, a, N

-----------------------------------------------------------------------------
(***************************************************************************)
(* Where parse_audio is in a packet that was made from x, what it knows of *)
(* the floors, and which vectors it has.                                   *)
(***************************************************************************)

\* All of what x was encoded to is in the packet.
Sends(s, x) ==
  /\ Makes(s, x)
  /\ content = Content(x, 0)
  /\ Holds(0, Encode(s, x))

\* The floors read so far, and the couplings they are passed on through.
FloorsFit(s, x) ==
  /\ mode_idx = x.mode
  /\ reader.asked = FloorAt(s, x, channel)
  /\ \A c \in Channels :
       /\ floor_output_used[c] => IsSentFor(s, x, c)
       /\ x.used[c] /\ c < channel =>
            floor_output_used[c] /\ floor_outputs[c] = 1 + Curve(c)
  /\ \A i \in 1 .. step :
       LET k == s[x.mode].mapping.couplings[i]
       IN x.used[k.magnitude] \/ x.used[k.angle] =>
            floor_output_used[k.magnitude] /\ floor_output_used[k.angle]

\* All floors are known.
FloorsKnown(s, x) ==
  /\ mode_idx = x.mode
  /\ \A c \in Channels :
       /\ floor_output_used[c] = IsSentFor(s, x, c)
       /\ x.used[c] => floor_outputs[c] = 1 + Curve(c)

FollowsSubmap(s, x, i) ==
  Follows(ResidueOf(s, x, i), VectorIn(s, x, i),
          CodingsOf(ResidueOf(s, x, i), VectorIn(s, x, i)),
          PartitionsIn(ResidueOf(s, x, i), LengthIn(s, x, i)),
          SubmapAt(s, x, i), LengthIn(s, x, i))

\* The residues of the submaps before this one, and where it is in this one's.
ResiduesFit(s, x) ==
  /\ rstage = "none" => reader.asked = SubmapAt(s, x, submap)
  /\ rstage \in {"pass", "classify", "partition", "decoded"} =>
       /\ submap \in DOMAIN s[x.mode].mapping.submaps
       /\ IsSentIn(s, x, submap) => FollowsSubmap(s, x, submap)
       /\ ~IsSentIn(s, x, submap) => reader.asked = SubmapAt(s, x, submap)
  /\ \A c \in Channels :
       s[x.mode].mapping.muxs[c] < submap => residue_outputs[c] = SentCoupled(s, x)[c]

Tracks(s, x) ==
  /\ stage = "head" => channel = 0 /\ floor_output_used = [c \in Channels |-> FALSE]
  /\ stage = "floors" => FloorsFit(s, x)
  /\ stage \in {"residues", "coupling", "done"} => FloorsKnown(s, x)
  /\ stage = "residues" => ResiduesFit(s, x)
  /\ stage = "coupling" => after_residue = SentCoupled(s, x)
  /\ DecodesWhatWasEncoded

\* No action of parse_audio changes what it was given.
LEMMA SendsStays ==
  ASSUME NEW s, NEW x, Sends(s, x), [ANext]_avars
  PROVE  Sends(s, x)'
<1>1. modes' = modes /\ packet' = packet /\ content' = content
  BY PacketStays, GivenStays
<1> QED
  BY <1>1 DEF Sends, Holds, Makes, Encode

LEMMA HeadTracks ==
  ASSUME OneVectorEach, NEW s, s = modes, NEW x, Sends(s, x), ReadInvariant,
         AtBegin, PropagationInv,
         Tracks(s, x), ReadHead
  PROVE  Tracks(s, x)'
<1> DEFINE type_ == readBit(reader)
           bits == highest_bit(Cardinality(DOMAIN s) - 1)
           idx == readBits(type_.reader, bits)
           block == readBit(idx.reader)
           window == readBit(block.reader)
<1>1. PICK k \in Nat : DOMAIN packet = 0 .. 8 * k - 1 /\ reader = NewReader(k)
  BY DEF AtBegin, ReadHead
<1> DEFINE total == 8 * k
<1>2. total \in Nat /\ DOMAIN packet = 0 .. total - 1 /\ reader \in Readers(total)
      /\ reader.asked = 0
  BY <1>1, NewIsReader DEF NewReader
<1> HIDE DEF total
<1>3. Makes(s, x) /\ Holds(0, Encode(s, x)) /\ x.mode \in DOMAIN s
  BY DEF Sends, Makes
<1>4. Holds(0, EncodeHead(s, x)) /\ FloorAt(s, x, 0) = Len(EncodeHead(s, x))
  BY <1>3, PartsAreHeld
<1>5. bits \in Nat /\ x.mode \in 0 .. Doubled(bits) - 1
  BY <1>3, ModeFits
<1> HIDE DEF bits
<1>6. /\ EncodeHead(s, x) = (<<0>> \o Bits(x.mode, bits)) \o FlagBits(s, x)
      /\ <<0>> \o Bits(x.mode, bits) \in Seq(Bit)
      /\ FlagBits(s, x) \in Seq(Bit)
      /\ Len(EncodeHead(s, x)) = 1 + bits + Len(FlagBits(s, x))
      /\ Len(FlagBits(s, x)) = IF s[x.mode].block_flag THEN 2 ELSE 0
  BY <1>3, HeadIsBits DEF bits
<1>7. <<0>> \in Seq(Bit) /\ Len(<<0>>) = 1 /\ Bits(x.mode, bits) \in Seq(Bit)
      /\ <<0>>[1] = 0
  <2>1. Bits(x.mode, bits) \in Seq(Bit)
    <3>1. x.mode \in Nat
      BY <1>5
    <3> QED
      BY <1>5, <3>1, BitsType
  <2> QED
    BY <2>1 DEF Bit
<1> DEFINE start == <<0>> \o Bits(x.mode, bits)
<1>8. Holds(0, start)
  <2>1. EncodeHead(s, x) = start \o FlagBits(s, x) /\ start \in Seq(Bit)
    BY <1>6
  <2> HIDE DEF start
  <2>2. Holds(0, start \o FlagBits(s, x))
    BY <1>4, <2>1
  <2> QED
    BY <1>6, <2>1, <2>2, HoldsParts
<1>9. Holds(0, <<0>>) /\ Holds(0 + Len(<<0>>), Bits(x.mode, bits))
  BY <1>7, <1>8, HoldsParts
<1>10. type_.value = 0 /\ type_.reader \in Readers(total) /\ type_.reader.asked = 1
  <2>1. 0 \in DOMAIN packet /\ packet[0] = 0
    <3>1. 1 \in 1 .. Len(<<0>>) /\ 0 + 1 - 1 = 0
      BY <1>7
    <3> QED
      BY <1>7, <1>9, <3>1 DEF Holds
  <2> QED
    BY <1>2, <2>1, BitIsRead DEF Bit
<1> HIDE DEF type_
<1>11. ASSUME bits # 0
       PROVE  /\ idx.value = x.mode /\ idx.reader \in Readers(total)
              /\ idx.reader.asked = 1 + bits
  <2>1. Holds(type_.reader.asked, Bits(x.mode, bits)) /\ bits \in Nat \ {0}
    BY <1>5, <1>7, <1>9, <1>10, <1>11
  <2> QED
    BY <1>2, <1>5, <1>10, <2>1, FieldIsRead
<1> HIDE DEF idx
<1>12. CASE bits = 0
  <2>1. stage' = "aborted"
    BY <1>10, <1>12 DEF ReadHead, type_, bits
  <2> QED
    BY <2>1 DEF Tracks, DecodesWhatWasEncoded
<1>13. CASE stage' = "misplaced"
  BY <1>13 DEF Tracks, DecodesWhatWasEncoded
<1>14. CASE bits # 0 /\ stage' # "misplaced"
  <2>1. /\ mode_idx' = x.mode /\ stage' = "floors"
        /\ reader' = IF s[x.mode].block_flag THEN window.reader ELSE idx.reader
        /\ channel' = channel /\ floor_output_used' = floor_output_used
        /\ step' = step
    <3>1. idx.value \in DOMAIN s
      BY <1>3, <1>11, <1>14
    <3> QED
      BY <1>10, <1>11, <1>14, <3>1 DEF ReadHead, type_, idx, bits, floors
  <2>2. window.reader.asked = 1 + bits + 2
    <3>1. block.reader.asked = idx.reader.asked + 1
      BY DEF readBit, AfterBits, ReaderAfter
    <3> HIDE DEF block
    <3>2. window.reader.asked = block.reader.asked + 1
      BY DEF readBit, AfterBits, ReaderAfter
    <3> HIDE DEF window
    <3> QED
      BY <1>5, <1>11, <1>14, <3>1, <3>2
  <2> HIDE DEF window
  <2>3. reader'.asked = FloorAt(s, x, 0)
    BY <1>4, <1>5, <1>6, <1>11, <1>14, <2>1, <2>2
  <2>4. step' = 0
    BY <2>1 DEF PropagationInv, ReadHead
  <2>5. FloorsFit(s, x)'
    <3>1. \A c \in Channels : c \in Nat /\ ~(c < 0) /\ ~floor_output_used'[c]
      BY <2>1, AudioAssumption DEF Channels, Tracks, ReadHead
    <3>2. \A i \in 1 .. 0 : FALSE
      OBVIOUS
    <3> QED
      BY <2>1, <2>3, <2>4, <3>1, <3>2 DEF FloorsFit, Tracks, ReadHead
  <2> QED
    BY <2>1, <2>5 DEF Tracks, DecodesWhatWasEncoded
<1> QED
  BY <1>12, <1>13, <1>14

\* What is read for a channel's floor.
LEMMA FloorIsRead ==
  ASSUME NEW x, NEW c \in Channels, NEW total \in Nat, DOMAIN packet = 0 .. total - 1,
         NEW r \in Readers(total), Holds(r.asked, EncodeFloor(x, c)), x.used[c] \in BOOLEAN
  PROVE  /\ x.used[c] =>
              /\ readBit(r).value = 1
              /\ readBits(readBit(r).reader, FloorBits).value = Curve(c)
              /\ readBits(readBit(r).reader, FloorBits).reader.asked
                   = r.asked + Len(EncodeFloor(x, c))
         /\ ~x.used[c] =>
              /\ readBit(r).value = 0
              /\ readBit(r).reader.asked = r.asked + Len(EncodeFloor(x, c))
<1> DEFINE used == readBit(r)
           curve == readBits(used.reader, FloorBits)
           field == Bits(Curve(c), FloorBits)
<1>1. /\ x.used[c] => EncodeFloor(x, c) = <<1>> \o field /\ Len(EncodeFloor(x, c)) = 1 + FloorBits
      /\ ~x.used[c] => EncodeFloor(x, c) = <<0>> /\ Len(EncodeFloor(x, c)) = 1
      /\ Curve(c) \in 0 .. Doubled(FloorBits) - 1
      /\ field \in Seq(Bit)
  BY FloorIsBits
<1>2. r.asked \in Nat /\ FloorBits \in Nat \ {0}
  BY AudioAssumption DEF Readers
<1> HIDE DEF field
<1>3. ASSUME NEW b \in Bit, Holds(r.asked, <<b>>)
      PROVE  used.value = b /\ used.reader \in Readers(total) /\ used.reader.asked = r.asked + 1
  <2>1. r.asked + 1 - 1 = r.asked /\ 1 \in 1 .. Len(<<b>>) /\ <<b>>[1] = b
    BY <1>2
  <2>2. r.asked \in DOMAIN packet /\ packet[r.asked] = b
    BY <1>3, <2>1 DEF Holds
  <2> QED
    BY <2>2, BitIsRead
<1> HIDE DEF used
<1>4. CASE x.used[c]
  <2>1. <<1>> \in Seq(Bit) /\ Len(<<1>>) = 1 /\ 1 \in Bit
    BY DEF Bit
  <2>2. Holds(r.asked, <<1>> \o field)
    BY <1>1, <1>4
  <2>3. Holds(r.asked, <<1>>) /\ Holds(r.asked + Len(<<1>>), field)
    BY <1>1, <1>2, <2>1, <2>2, HoldsParts
  <2>4. used.value = 1 /\ used.reader \in Readers(total) /\ used.reader.asked = r.asked + 1
    BY <1>3, <2>1, <2>3
  <2>5. Holds(used.reader.asked, field)
    BY <2>1, <2>3, <2>4
  <2>6. curve.value = Curve(c) /\ curve.reader.asked = used.reader.asked + FloorBits
    BY <1>1, <1>2, <2>4, <2>5, FieldIsRead DEF field
  <2>7. curve.reader.asked = r.asked + Len(EncodeFloor(x, c))
    <3>1. Len(EncodeFloor(x, c)) = 1 + FloorBits
      BY <1>1, <1>4
    <3>2. curve.reader.asked = (r.asked + 1) + FloorBits
      BY <2>4, <2>6
    <3> HIDE DEF curve
    <3>3. (r.asked + 1) + FloorBits = r.asked + (1 + FloorBits)
      BY <1>2
    <3> QED
      BY <3>1, <3>2, <3>3
  <2> QED
    BY <1>4, <2>4, <2>6, <2>7 DEF used
<1>5. CASE ~x.used[c]
  <2>1. Holds(r.asked, <<0>>) /\ 0 \in Bit
    BY <1>1, <1>5 DEF Bit
  <2>2. used.value = 0 /\ used.reader.asked = r.asked + 1
    BY <1>3, <2>1
  <2> QED
    BY <1>1, <1>5, <2>2 DEF used
<1> QED
  BY <1>4, <1>5

LEMMA FloorTracks ==
  ASSUME OneVectorEach, NEW s, s = modes, NEW x, Sends(s, x), ReadInvariant,
         PropagationInv, ChannelOK, CountsOK, Tracks(s, x), DecodeFloor
  PROVE  Tracks(s, x)'
<1> DEFINE used == readBit(reader)
           curve == readBits(used.reader, FloorBits)
           c == channel
           m == mapping(mode_idx)
<1>1. PICK total \in Nat : DOMAIN packet = 0 .. total - 1 /\ reader \in Readers(total)
  <2>1. PICK k \in Nat : DOMAIN packet = 0 .. 8 * k - 1 /\ reader \in Readers(8 * k)
    BY DEF ReadInvariant, ReaderOK
  <2>2. 8 * k \in Nat
    OBVIOUS
  <2> QED
    BY <2>1, <2>2
<1>2. c \in Channels /\ stage = "floors" /\ step = 0
  <2>1. c \in Nat /\ c < AudioChannels /\ AudioChannels \in Nat
    BY AudioAssumption DEF ChannelOK, DecodeFloor
  <2> QED
    BY <2>1 DEF Channels, DecodeFloor, PropagationInv
<1>3. FloorsFit(s, x) /\ Makes(s, x) /\ Holds(0, Encode(s, x))
  BY <1>2 DEF Tracks, Sends
<1>4. Holds(FloorAt(s, x, c), EncodeFloor(x, c))
      /\ FloorAt(s, x, c + 1) = FloorAt(s, x, c) + Len(EncodeFloor(x, c))
  BY <1>2, <1>3, PartsAreHeld
<1>5. reader.asked = FloorAt(s, x, c) /\ mode_idx = x.mode
  BY <1>3 DEF FloorsFit
<1>6. \A d \in Channels : x.used[d] \in BOOLEAN
  BY <1>3 DEF Makes
<1>7. Holds(reader.asked, EncodeFloor(x, c))
  BY <1>4, <1>5
<1> HIDE DEF c
<1>8. /\ x.used[c] => /\ used.value = 1 /\ curve.value = Curve(c)
                      /\ curve.reader.asked = FloorAt(s, x, c + 1)
      /\ ~x.used[c] => used.value = 0 /\ used.reader.asked = FloorAt(s, x, c + 1)
  BY <1>1, <1>2, <1>4, <1>5, <1>6, <1>7, FloorIsRead
<1> HIDE DEF used, curve
<1>9. CASE m.submaps[m.muxs[c]].floor = 0
  <2>1. stage' = "failed"
    BY <1>9 DEF DecodeFloor, c
  <2> QED
    BY <2>1 DEF Tracks, DecodesWhatWasEncoded
<1>10. CASE stage' = "refused"
  BY <1>10 DEF Tracks, DecodesWhatWasEncoded
<1>11. CASE m.submaps[m.muxs[c]].floor # 0 /\ stage' # "refused"
  <2>1. /\ channel' = c + 1 /\ stage' = stage /\ mode_idx' = mode_idx /\ step' = step
        /\ floor_output_used' = [floor_output_used EXCEPT ![c] = (used.value = 1)]
        /\ used.value = 1 =>
             floor_outputs' = [floor_outputs EXCEPT ![c] = 1 + curve.value] /\ reader' = curve.reader
        /\ used.value # 1 =>
             floor_outputs' = floor_outputs /\ reader' = used.reader
    BY <1>11 DEF DecodeFloor, c, used, curve
  <2>2. reader'.asked = FloorAt(s, x, channel')
    BY <1>6, <1>2, <1>8, <2>1
  <2>3. floor_output_used \in [Channels -> BOOLEAN] /\ floor_outputs \in [Channels -> Nat]
    BY DEF PropagationInv, CountsOK
  <2>4. ASSUME NEW d \in Channels, d # c
        PROVE  floor_output_used'[d] = floor_output_used[d] /\ floor_outputs'[d] = floor_outputs[d]
    <3>1. floor_output_used'[d] = floor_output_used[d]
      BY <2>1, <2>3, <2>4, Zenon
    <3>2. floor_outputs'[d] = floor_outputs[d]
      BY <2>1, <2>3, <2>4
    <3> QED
      BY <3>1, <3>2
  <2>5. /\ floor_output_used'[c] => x.used[c]
        /\ x.used[c] => floor_output_used'[c] /\ floor_outputs'[c] = 1 + Curve(c)
    <3>1. floor_output_used'[c] = (used.value = 1)
      BY <1>2, <2>1, <2>3, Zenon
    <3>2. x.used[c] => floor_outputs'[c] = 1 + Curve(c)
      BY <1>2, <1>8, <2>1, <2>3
    <3>3. (used.value = 1) => x.used[c]
      BY <1>2, <1>6, <1>8
    <3>4. x.used[c] => (used.value = 1)
      BY <1>8
    <3> QED
      BY <3>1, <3>2, <3>3, <3>4, Zenon
  <2>6. ASSUME NEW d \in Channels
        PROVE  /\ floor_output_used'[d] => IsSentFor(s, x, d)
               /\ x.used[d] /\ d < channel' =>
                    floor_output_used'[d] /\ floor_outputs'[d] = 1 + Curve(d)
    <3>1. CASE d = c
      <4>1. x.used[d] => IsSentFor(s, x, d)
        BY DEF IsSentFor, IsDecoded
      <4>2. /\ floor_output_used'[d] => x.used[d]
            /\ x.used[d] => floor_output_used'[d] /\ floor_outputs'[d] = 1 + Curve(d)
        BY <2>5, <3>1, Zenon
      <4> QED
        BY <4>1, <4>2, Zenon
    <3>2. CASE d # c
      <4>1. d < channel' => d < c
        BY <1>2, <2>1, <3>2, AudioAssumption DEF Channels
      <4>2. /\ floor_output_used[d] => IsSentFor(s, x, d)
            /\ x.used[d] /\ d < c => floor_output_used[d] /\ floor_outputs[d] = 1 + Curve(d)
        BY <1>3 DEF FloorsFit, c
      <4>3. floor_output_used'[d] = floor_output_used[d] /\ floor_outputs'[d] = floor_outputs[d]
        BY <2>4, <3>2
      <4> QED
        BY <4>1, <4>2, <4>3, Zenon
    <3> QED
      BY <3>1, <3>2
  <2>7. FloorsFit(s, x)'
    <3>1. \A i \in 1 .. step' : FALSE
      <4>1. \A i \in 1 .. 0 : FALSE
        OBVIOUS
      <4> QED
        BY <1>2, <2>1, <4>1
    <3>2. mode_idx' = x.mode
      BY <1>5, <2>1
    <3> QED
      BY <2>2, <2>6, <3>1, <3>2 DEF FloorsFit
  <2> QED
    BY <1>2, <2>1, <2>7 DEF Tracks, DecodesWhatWasEncoded
<1> QED
  BY <1>9, <1>10, <1>11

\* What an encoder's mapping has for its couplings.
LEMMA CouplingsAre ==
  ASSUME NEW s, NEW x, Makes(s, x), NEW n, n = Len(s[x.mode].mapping.couplings)
  PROVE  /\ n \in Nat /\ DOMAIN s[x.mode].mapping.couplings = 1 .. n
         /\ \A i \in 1 .. n :
              /\ s[x.mode].mapping.couplings[i].magnitude \in Channels
              /\ s[x.mode].mapping.couplings[i].angle \in Channels
              /\ s[x.mode].mapping.couplings[i].magnitude # s[x.mode].mapping.couplings[i].angle
              /\ IsSentFor(s, x, s[x.mode].mapping.couplings[i].magnitude)
                   = IsSentFor(s, x, s[x.mode].mapping.couplings[i].angle)
<1> DEFINE couplings == s[x.mode].mapping.couplings
<1>1. ParsedMapping(s[x.mode].mapping)
  BY AudioAssumption DEF Makes
<1>2. /\ couplings \in Seq([magnitude : Channels, angle : Channels])
      /\ \A i \in DOMAIN couplings : couplings[i].magnitude # couplings[i].angle
  BY <1>1 DEF ParsedMapping
<1>3. Settled(s[x.mode].mapping, x.used)
  BY DEF Makes, CanSend
<1>4. \A i \in DOMAIN couplings :
        IsSentFor(s, x, couplings[i].magnitude) = IsSentFor(s, x, couplings[i].angle)
  BY <1>3 DEF Settled, IsSentFor
<1> HIDE DEF couplings
<1>5. n \in Nat /\ DOMAIN couplings = 1 .. n
  BY <1>2 DEF couplings
<1>6. ASSUME NEW i \in 1 .. n
      PROVE  couplings[i].magnitude \in Channels /\ couplings[i].angle \in Channels
  <2> DEFINE R == [magnitude : Channels, angle : Channels]
  <2>1. couplings[i] \in R
    <3>1. i \in 1 .. Len(couplings)
      BY DEF couplings
    <3>2. couplings \in Seq(R)
      BY <1>2
    <3> HIDE DEF R
    <3> QED
      BY <3>1, <3>2
  <2> QED
    BY <2>1
<1> QED
  BY <1>2, <1>4, <1>5, <1>6 DEF couplings

\* A flag is passed on to a channel that is decoded.
LEMMA PropagatedFits ==
  ASSUME NEW used \in [Channels -> BOOLEAN], NEW k, k.magnitude \in Channels,
         k.angle \in Channels, NEW new, new = Propagated(used, k)
  PROVE  /\ new \in [Channels -> BOOLEAN]
         /\ \A c \in Channels : used[c] => new[c]
         /\ \A c \in Channels : new[c] =>
              \/ used[c]
              \/ c \in Ends(k) /\ (used[k.magnitude] \/ used[k.angle])
         /\ used[k.magnitude] \/ used[k.angle] => new[k.magnitude] /\ new[k.angle]
<1>1. CASE used[k.angle] \/ used[k.magnitude]
  <2>1. new = [used EXCEPT ![k.angle] = TRUE, ![k.magnitude] = TRUE]
    BY <1>1, Zenon DEF Propagated
  <2>2. \A c \in Channels : new[c] = IF c \in Ends(k) THEN TRUE ELSE used[c]
    BY <2>1 DEF Ends
  <2>3. new \in [Channels -> BOOLEAN]
    BY <2>1
  <2>4. \A c \in Channels : c \in Ends(k) => new[c]
    BY <2>2, Zenon
  <2>5. \A c \in Channels : c \notin Ends(k) => new[c] = used[c]
    BY <2>2, Zenon
  <2>6. k.magnitude \in Ends(k) /\ k.angle \in Ends(k)
    BY DEF Ends
  <2>7. new[k.magnitude] /\ new[k.angle]
    BY <2>4, <2>6
  <2>8. \A c \in Channels : used[c] => new[c]
    BY <2>4, <2>5, Zenon
  <2>9. \A c \in Channels : new[c] => used[c] \/ c \in Ends(k)
    BY <2>5, Zenon
  <2> QED
    BY <1>1, <2>3, <2>7, <2>8, <2>9, Zenon
<1>2. CASE ~(used[k.angle] \/ used[k.magnitude])
  <2>1. new = used
    BY <1>2, Zenon DEF Propagated
  <2> QED
    BY <1>2, <2>1, Zenon
<1> QED
  BY <1>1, <1>2

LEMMA PropagateTracks ==
  ASSUME OneVectorEach, NEW s, s = modes, NEW x, Sends(s, x), ReadInvariant,
         PropagationInv, LoopsSilent, ResiduesSilent, Tracks(s, x), PropagateNonzero
  PROVE  Tracks(s, x)'
<1> DEFINE couplings == s[x.mode].mapping.couplings
           n == Len(couplings)
<1>1. stage = "floors" /\ channel = AudioChannels
  BY DEF PropagateNonzero
<1>2. FloorsFit(s, x) /\ Makes(s, x) /\ Holds(0, Encode(s, x)) /\ mode_idx = x.mode
  BY <1>1 DEF Tracks, Sends, FloorsFit
<1>3. /\ n \in Nat /\ DOMAIN couplings = 1 .. n
      /\ \A i \in 1 .. n :
           /\ couplings[i].magnitude \in Channels /\ couplings[i].angle \in Channels
           /\ IsSentFor(s, x, couplings[i].magnitude) = IsSentFor(s, x, couplings[i].angle)
  BY <1>2, CouplingsAre
<1>4. mapping(mode_idx).couplings = couplings
  BY <1>2 DEF mapping
<1>5. floor_output_used \in [Channels -> BOOLEAN] /\ step \in Nat
  BY <1>1 DEF PropagationInv
<1>6. /\ \A c \in Channels : floor_output_used[c] => IsSentFor(s, x, c)
      /\ \A c \in Channels : x.used[c] =>
           floor_output_used[c] /\ floor_outputs[c] = 1 + Curve(c)
      /\ \A i \in 1 .. step : x.used[couplings[i].magnitude] \/ x.used[couplings[i].angle] =>
           floor_output_used[couplings[i].magnitude] /\ floor_output_used[couplings[i].angle]
  <2>1. \A c \in Channels : c < channel
    BY <1>1, AudioAssumption DEF Channels
  <2> QED
    BY <1>2, <2>1, Zenon DEF FloorsFit
<1>7. CASE step < Len(mapping(mode_idx).couplings)
  <2> DEFINE k == couplings[step + 1]
  <2>1. /\ floor_output_used' = Propagated(floor_output_used, k)
        /\ step' = step + 1 /\ stage' = "floors" /\ mode_idx' = mode_idx /\ channel' = channel
        /\ floor_outputs' = floor_outputs /\ reader' = reader
    <3>1. step < n /\ step # n
      BY <1>3, <1>4, <1>5, <1>7
    <3> HIDE DEF n, couplings
    <3> QED
      BY <1>1, <1>4, <3>1 DEF PropagateNonzero, n
  <2>2. step + 1 \in 1 .. n
    BY <1>3, <1>4, <1>5, <1>7
  <2>3. /\ k.magnitude \in Channels /\ k.angle \in Channels
        /\ IsSentFor(s, x, k.magnitude) = IsSentFor(s, x, k.angle)
    BY <1>3, <2>2
  <2> HIDE DEF k
  <2> DEFINE new == Propagated(floor_output_used, k)
  <2>4. /\ new \in [Channels -> BOOLEAN]
        /\ \A c \in Channels : floor_output_used[c] => new[c]
        /\ \A c \in Channels : new[c] =>
              \/ floor_output_used[c]
              \/ c \in Ends(k) /\ (floor_output_used[k.magnitude] \/ floor_output_used[k.angle])
        /\ floor_output_used[k.magnitude] \/ floor_output_used[k.angle] =>
             new[k.magnitude] /\ new[k.angle]
    BY <1>5, <2>3, PropagatedFits
  <2>5. floor_output_used' = new
    BY <2>1
  <2> HIDE DEF new
  <2>6. ASSUME NEW c \in Channels, new[c] PROVE IsSentFor(s, x, c)
    <3>1. CASE floor_output_used[c]
      BY <1>6, <3>1
    <3>2. CASE c \in Ends(k) /\ (floor_output_used[k.magnitude] \/ floor_output_used[k.angle])
      <4>1. IsSentFor(s, x, k.magnitude) \/ IsSentFor(s, x, k.angle)
        BY <1>6, <2>3, <3>2
      <4>2. IsSentFor(s, x, k.magnitude) /\ IsSentFor(s, x, k.angle)
        BY <2>3, <4>1
      <4> QED
        BY <3>2, <4>2 DEF Ends
    <3> QED
      BY <2>4, <2>6, <3>1, <3>2
  <2>7. \A c \in Channels : x.used[c] => new[c] /\ floor_outputs[c] = 1 + Curve(c)
    BY <1>6, <2>4, Zenon
  <2>8. ASSUME NEW i \in 1 .. step + 1,
               x.used[couplings[i].magnitude] \/ x.used[couplings[i].angle]
        PROVE  new[couplings[i].magnitude] /\ new[couplings[i].angle]
    <3>1. couplings[i].magnitude \in Channels /\ couplings[i].angle \in Channels
      <4>1. i \in 1 .. n
        BY <1>3, <1>5, <2>2
      <4> QED
        BY <1>3, <4>1
    <3>2. CASE i \in 1 .. step
      BY <1>6, <2>4, <2>8, <3>1, <3>2, Zenon
    <3>3. CASE i = step + 1
      <4>1. x.used[k.magnitude] \/ x.used[k.angle]
        BY <2>8, <3>3, Zenon DEF k
      <4>2. floor_output_used[k.magnitude] \/ floor_output_used[k.angle]
        BY <1>6, <2>3, <4>1, Zenon
      <4>3. new[k.magnitude] /\ new[k.angle]
        BY <2>4, <4>2, Zenon
      <4> QED
        BY <3>3, <4>3, Zenon DEF k
    <3> QED
      BY <1>5, <3>2, <3>3
  <2>9. FloorsFit(s, x)'
    <3>1. reader'.asked = FloorAt(s, x, channel') /\ mode_idx' = x.mode
      BY <1>2, <2>1 DEF FloorsFit
    <3>2. \A c \in Channels :
            /\ floor_output_used'[c] => IsSentFor(s, x, c)
            /\ x.used[c] => floor_output_used'[c] /\ floor_outputs'[c] = 1 + Curve(c)
      BY <2>1, <2>5, <2>6, <2>7
    <3>3. \A i \in 1 .. step' : x.used[couplings[i].magnitude] \/ x.used[couplings[i].angle] =>
            floor_output_used'[couplings[i].magnitude] /\ floor_output_used'[couplings[i].angle]
      BY <2>1, <2>5, <2>8
    <3> QED
      BY <3>1, <3>2, <3>3 DEF FloorsFit
  <2> QED
    BY <2>1, <2>9 DEF Tracks, DecodesWhatWasEncoded
<1>8. CASE ~(step < Len(mapping(mode_idx).couplings))
  <2>1. /\ step = n /\ stage' = "residues" /\ mode_idx' = mode_idx /\ reader' = reader
        /\ floor_output_used' = floor_output_used /\ floor_outputs' = floor_outputs
        /\ rstage' = rstage /\ submap' = submap
    BY <1>4, <1>8 DEF PropagateNonzero, loops
  <2>2. submap = 0 /\ rstage \notin {"pass", "classify", "partition", "decoded"}
    BY <1>1 DEF ResiduesSilent, LoopsSilent
  <2>3. FloorsKnown(s, x)'
    <3>1. ASSUME NEW c \in Channels, IsSentFor(s, x, c) PROVE floor_output_used[c]
      <4>1. CASE x.used[c]
        BY <1>6, <4>1
      <4>2. CASE ~x.used[c]
        <5>1. PICK i \in DOMAIN couplings :
                /\ c \in {couplings[i].magnitude, couplings[i].angle}
                /\ x.used[couplings[i].magnitude] \/ x.used[couplings[i].angle]
          BY <3>1, <4>2, Zenon DEF IsSentFor, IsDecoded
        <5>2. i \in 1 .. step
          BY <1>3, <2>1
        <5>3. floor_output_used[couplings[i].magnitude] /\ floor_output_used[couplings[i].angle]
          BY <1>6, <5>1, <5>2, Zenon
        <5> QED
          BY <5>1, <5>3
      <4> QED
        BY <4>1, <4>2
    <3>2. ASSUME NEW c \in Channels
          PROVE  /\ floor_output_used[c] = IsSentFor(s, x, c)
                 /\ x.used[c] => floor_outputs[c] = 1 + Curve(c)
      <4>1. floor_output_used[c] \in BOOLEAN
        BY <1>5
      <4>2. IsSentFor(s, x, c) \in BOOLEAN
        BY <1>2, Zenon DEF IsSentFor, IsDecoded, Makes
      <4> QED
        BY <1>6, <3>1, <4>1, <4>2, Zenon
    <3> QED
      BY <1>2, <2>1, <3>2, Zenon DEF FloorsKnown
  <2>4. ResiduesFit(s, x)'
    <3>1. reader'.asked = SubmapAt(s, x, submap')
      <4>1. reader.asked = FloorAt(s, x, AudioChannels)
        BY <1>1, <1>2 DEF FloorsFit
      <4>2. SubmapAt(s, x, 0) = FloorAt(s, x, AudioChannels)
        BY <1>2, PartsAreHeld
      <4> QED
        BY <2>1, <2>2, <4>1, <4>2
    <3>2. \A c \in Channels : ~(s[x.mode].mapping.muxs[c] < submap')
      <4>1. PICK k \in Nat : DOMAIN s[x.mode].mapping.submaps = 0 .. k - 1
        BY <1>2, SetupIs
      <4>2. s[x.mode].mapping.muxs \in [Channels -> 0 .. k - 1]
        BY <1>2, <4>1, SetupIs
      <4> QED
        BY <2>1, <2>2, <4>2
    <3> QED
      BY <2>1, <2>2, <3>1, <3>2 DEF ResiduesFit
  <2> QED
    BY <2>1, <2>3, <2>4 DEF Tracks, DecodesWhatWasEncoded
<1> QED
  BY <1>7, <1>8

-----------------------------------------------------------------------------
(* The submaps                                                             *)

\* Coupling keeps the silence of channels that are not decoded.
LEMMA SilentCoupled ==
  ASSUME NEW s, NEW x, Makes(s, x), NEW c \in Channels, ~IsSentFor(s, x, c)
  PROVE  SentCoupled(s, x)[c] = Zeros(decode_len(s, x.mode))
<1> DEFINE couplings == s[x.mode].mapping.couplings
           n == Len(couplings)
           len == decode_len(s, x.mode)
           Silent(i) == \A d \in Channels : ~IsSentFor(s, x, d) => x.coupled[i][d] = Zeros(len)
           G == {i \in 0 .. n : Silent(i)}
<1>1. /\ n \in Nat
      /\ \A i \in 1 .. n :
           /\ couplings[i].magnitude \in Channels /\ couplings[i].angle \in Channels
           /\ couplings[i].magnitude # couplings[i].angle
           /\ IsSentFor(s, x, couplings[i].magnitude) = IsSentFor(s, x, couplings[i].angle)
  BY CouplingsAre
<1>2. /\ x.coupled \in [0 .. n -> [Channels -> Vector(len)]]
      /\ \A i \in 1 .. n : x.coupled[i] = CoupleVectors(x.coupled[i - 1], couplings[i])
      /\ x.sent = x.coupled[0] /\ CanSend(s, x)
  BY DEF Makes
<1>3. Silent(0)
  <2>1. ASSUME NEW d \in Channels, ~IsSentFor(s, x, d) PROVE x.coupled[0][d] = Zeros(len)
    <3>1. ~x.used[d]
      BY <2>1 DEF IsSentFor, IsDecoded
    <3> QED
      BY <1>2, <3>1 DEF CanSend
  <2> QED
    BY <2>1
<1>4. ASSUME NEW i \in 1 .. n, Silent(i - 1) PROVE Silent(i)
  <2> DEFINE v == x.coupled[i - 1]
             k == couplings[i]
  <2>1. /\ k.magnitude \in Channels /\ k.angle \in Channels /\ k.magnitude # k.angle
        /\ IsSentFor(s, x, k.magnitude) = IsSentFor(s, x, k.angle)
    BY <1>1
  <2>2. x.coupled[i] = CoupleVectors(v, k)
    BY <1>2
  <2>3. v \in [Channels -> Vector(len)]
    <3>1. i - 1 \in 0 .. n
      BY <1>1
    <3> QED
      BY <1>2, <3>1
  <2>4. \A d \in Channels : ~IsSentFor(s, x, d) => v[d] = Zeros(len)
    BY <1>4
  <2> HIDE DEF v, k, len
  <2>5. ASSUME NEW d \in Channels, ~IsSentFor(s, x, d)
        PROVE  CoupleVectors(v, k)[d] = Zeros(len)
    <3>1. CASE d \notin {k.magnitude, k.angle}
      <4>1. CoupleVectors(v, k)[d] = v[d]
        BY <2>3, <3>1 DEF CoupleVectors
      <4> QED
        BY <2>4, <2>5, <4>1
    <3>2. CASE d \in {k.magnitude, k.angle}
      <4>1. v[k.magnitude] = Zeros(len) /\ v[k.angle] = Zeros(len)
        <5>1. ~IsSentFor(s, x, k.magnitude) /\ ~IsSentFor(s, x, k.angle)
          BY <2>1, <2>5, <3>2
        <5> QED
          BY <2>1, <2>4, <5>1
      <4>2. Couple(0, 0) = <<0, 0>>
        BY DEF Couple, Magnitude
      <4> DEFINE X == 0 .. len - 1
                 both == [p \in X |-> Couple(v[k.magnitude][p], v[k.angle][p])]
      <4>3. \A p \in X : v[k.magnitude][p] = 0 /\ v[k.angle][p] = 0
        BY <4>1 DEF Zeros
      <4>4. DOMAIN v[k.magnitude] = X
        BY <4>1 DEF Zeros
      <4>5. both = [p \in X |-> <<0, 0>>]
        BY <4>2, <4>3
      <4>6. CoupleVectors(v, k) =
              [v EXCEPT ![k.magnitude] = [p \in DOMAIN both |-> both[p][1]],
                        ![k.angle]     = [p \in DOMAIN both |-> both[p][2]]]
        BY <4>4, TableIsItself DEF CoupleVectors
      <4> HIDE DEF both
      <4>7. /\ DOMAIN both = X
            /\ [p \in DOMAIN both |-> both[p][1]] = [p \in X |-> 0]
            /\ [p \in DOMAIN both |-> both[p][2]] = [p \in X |-> 0]
        BY <4>5
      <4>8. CoupleVectors(v, k)[d] = [p \in X |-> 0]
        BY <2>1, <2>3, <3>2, <4>6, <4>7
      <4> QED
        BY <4>8 DEF Zeros
    <3> QED
      BY <3>1, <3>2
  <2> QED
    BY <2>2, <2>5
<1>5. 0 \in G
  BY <1>1, <1>3
<1>6. ASSUME NEW i \in 0 + 1 .. n, i - 1 \in G PROVE i \in G
  <2>1. Silent(i - 1) /\ i \in 1 .. n /\ i \in 0 .. n
    BY <1>1, <1>6
  <2> HIDE DEF Silent
  <2>2. Silent(i)
    BY <1>4, <2>1
  <2> QED
    BY <2>1, <2>2
<1> HIDE DEF G
<1>7. \A i \in 0 .. n : i \in G
  <2>1. 0 \in Int /\ n \in Int
    BY <1>1
  <2> HIDE DEF n
  <2> QED
    BY <1>5, <1>6, <2>1, UpTo
<1>8. n \in G
  <2>1. n \in 0 .. n
    BY <1>1
  <2> QED
    BY <1>7, <2>1
<1> QED
  BY <1>8 DEF SentCoupled, G

LEMMA SubmapIsSent ==
  ASSUME OneVectorEach, NEW s, NEW x, Sends(s, x), NEW i \in DOMAIN s[x.mode].mapping.submaps,
         IsSentIn(s, x, i),
         NEW r, r = ResidueOf(s, x, i), NEW v, v = VectorIn(s, x, i),
         NEW len, len = LengthIn(s, x, i)
  PROVE  Sent(r, v, CodingsOf(r, v), PartitionsIn(r, len), SubmapAt(s, x, i), len)
<1> DEFINE count == PartitionsIn(r, len)
           bits == EncodeSubmap(s[x.mode].mapping, x, i)
<1>1. Makes(s, x) /\ Holds(0, Encode(s, x))
  BY DEF Sends
<1>2. SubmapAt(s, x, i) \in Nat /\ Holds(SubmapAt(s, x, i), bits)
  BY <1>1, PartsAreHeld
<1>3. len \in Nat /\ v \in Vector(len)
  BY <1>1, SubmapIs
<1>4. /\ bits = EncodeWith(r, CodingsOf(r, v), 1, count)
      /\ Coded(r, v, CodingsOf(r, v), count)
      /\ \A p \in 0 .. len - 1 :
           v[p] # 0 => p \in r.begin .. r.begin + count * r.partition_size - 1
  BY <1>1, EncodeSubmapIs
<1> QED
  BY <1>2, <1>3, <1>4 DEF Sent

\* decode is started for the vector of the submap.
LEMMA StartsTheVector ==
  ASSUME OneVectorEach, NEW s, s = modes, NEW x, Sends(s, x), FloorsKnown(s, x),
         StartResidue, NEW i, i = submap
  PROVE  /\ i \in DOMAIN s[x.mode].mapping.submaps
         /\ residue' = ResidueOf(s, x, i)
         /\ IsSentIn(s, x, i) =>
              /\ channel_used' = [j \in {0} |-> TRUE]
              /\ out' = [j \in {0} |-> Zeros(LengthIn(s, x, i))]
         /\ pass' = 0 /\ partition_count' = 0 /\ word' = 0 /\ ch' = 0
         /\ rstage' = "pass" /\ reader' = reader
<1> DEFINE r == ResidueOf(s, x, i)
           members == MembersOf(s, x, i)
           used == [j \in DOMAIN members |-> floor_output_used[members[j]]]
           dl == decode_len(s, x.mode)
           n == CountIn(s, x, i)
<1>1. Makes(s, x) /\ mode_idx = x.mode
  BY DEF Sends, FloorsKnown
<1>2. /\ i \in DOMAIN s[x.mode].mapping.submaps
      /\ BeginResidue(r, used, dl) /\ reader' = reader
  BY <1>1 DEF StartResidue, mapping, ResidueOf, MembersOf
<1>3. /\ n \in Nat \ {0} /\ DOMAIN members = 0 .. n - 1
      /\ r.type # 2 => n = 1
  BY <1>1, <1>2, SubmapIs
<1>4. DOMAIN used = 0 .. n - 1 /\ Cardinality(DOMAIN used) = n
  <2>1. DOMAIN used = 0 .. n - 1
    BY <1>3
  <2> HIDE DEF used, n
  <2>2. Cardinality(0 .. n - 1) = n
    BY <1>3, CountOf
  <2> QED
    BY <2>1, <2>2
<1>5. LengthIn(s, x, i) = IF r.type = 2 THEN n * dl ELSE dl
  BY DEF LengthIn
<1>6. IsSentIn(s, x, i) /\ r.type # 2 => used = [j \in {0} |-> TRUE]
  <2>1. SUFFICES ASSUME IsSentIn(s, x, i), r.type # 2 PROVE used = [j \in {0} |-> TRUE]
    OBVIOUS
  <2>2. n = 1
    BY <1>3, <2>1
  <2>3. DOMAIN members = {0}
    <3>1. \A j : j \in 0 .. 1 - 1 <=> j = 0
      OBVIOUS
    <3> HIDE DEF n, members
    <3> QED
      BY <1>3, <2>2, <3>1
  <2>4. members[0] \in Channels
    BY <2>3, MembersAre DEF MembersOf
  <2>5. IsSentFor(s, x, members[0])
    BY <2>1 DEF IsSentIn
  <2>6. floor_output_used[members[0]] = IsSentFor(s, x, members[0])
    BY <2>4 DEF FloorsKnown
  <2>7. floor_output_used[members[0]] = TRUE
    <3>1. IsSentFor(s, x, members[0]) \in BOOLEAN
      BY Zenon DEF IsSentFor, IsDecoded
    <3> QED
      BY <2>5, <2>6
  <2>8. used = [j \in {0} |-> floor_output_used[members[j]]]
    BY <2>3
  <2>9. \A j \in {0} : floor_output_used[members[j]] = TRUE
    BY <2>7
  <2> HIDE DEF used, members
  <2> QED
    BY <2>8, <2>9, Zenon
<1> HIDE DEF used, n, dl, r, members
<1>7. /\ residue' = r
      /\ channel_used' = IF r.type = 2 THEN [j \in {0} |-> TRUE] ELSE used
      /\ pass' = 0 /\ partition_count' = 0 /\ word' = 0 /\ ch' = 0
      /\ rstage' = IF n = 0 THEN "failed" ELSE "pass"
  BY <1>2, <1>4 DEF BeginResidue
<1>8. out' = [j \in DOMAIN channel_used' |->
                [p \in 0 .. (IF r.type = 2 THEN n * dl ELSE dl) - 1 |-> 0]]
  BY <1>2, <1>4 DEF BeginResidue
<1>9. out' = [j \in DOMAIN channel_used' |-> Zeros(LengthIn(s, x, i))]
  BY <1>5, <1>8 DEF Zeros
<1>10. IsSentIn(s, x, i) => channel_used' = [j \in {0} |-> TRUE]
  BY <1>6, <1>7, Zenon
<1>11. rstage' = "pass"
  BY <1>3, <1>7
<1>12. IsSentIn(s, x, i) => out' = [j \in {0} |-> Zeros(LengthIn(s, x, i))]
  <2>1. DOMAIN [j \in {0} |-> TRUE] = {0}
    OBVIOUS
  <2> QED
    BY <1>9, <1>10, <2>1
<1> QED
  BY <1>2, <1>7, <1>10, <1>11, <1>12 DEF r

\* What the submap that is decoded comes to.
LEMMA StartFollows ==
  ASSUME OneVectorEach, NEW s, s = modes, NEW x, Sends(s, x), FloorsKnown(s, x),
         StartResidue, NEW i, i = submap, IsSentIn(s, x, i), reader.asked = SubmapAt(s, x, i)
  PROVE  FollowsSubmap(s, x, i)'
<1> DEFINE r == ResidueOf(s, x, i)
           v == VectorIn(s, x, i)
           len == LengthIn(s, x, i)
           codings == CodingsOf(r, v)
           count == PartitionsIn(r, len)
           a == SubmapAt(s, x, i)
<1>1. /\ i \in DOMAIN s[x.mode].mapping.submaps
      /\ residue' = r /\ channel_used' = [j \in {0} |-> TRUE]
      /\ out' = [j \in {0} |-> Zeros(len)]
      /\ pass' = 0 /\ partition_count' = 0 /\ word' = 0 /\ ch' = 0
      /\ rstage' = "pass" /\ reader' = reader
  BY StartsTheVector
<1>2. Sent(r, v, codings, count, a, len)
  BY <1>1, SubmapIsSent
<1> HIDE DEF r, v, len, codings, count, a
<1>3. Follows(r, v, codings, count, a, len)'
  <2>1. reader.asked = a
    BY DEF a
  <2> QED
    BY <1>1, <1>2, <2>1, BeginFollows
<1> QED
  BY <1>3 DEF FollowsSubmap, r, v, len, codings, count, a

\* The floors stay what they are.
LEMMA FloorsStay ==
  ASSUME NEW s, NEW x, FloorsKnown(s, x), floors' = floors, mode_idx' = mode_idx
  PROVE  FloorsKnown(s, x)'
BY DEF FloorsKnown, floors

LEMMA StartTracks ==
  ASSUME OneVectorEach, NEW s, s = modes, NEW x, Sends(s, x), Tracks(s, x), StartResidue
  PROVE  Tracks(s, x)'
<1>1. /\ stage = "residues" /\ stage' = stage /\ rstage = "none" /\ submap' = submap
      /\ residue_outputs' = residue_outputs /\ mode_idx' = mode_idx /\ floors' = floors
  BY DEF StartResidue
<1>2. FloorsKnown(s, x) /\ ResiduesFit(s, x)
  BY <1>1 DEF Tracks
<1>3. FloorsKnown(s, x)'
  BY <1>1, <1>2, FloorsStay
<1>4. PICK i : i = submap
  OBVIOUS
<1>5. reader.asked = SubmapAt(s, x, i)
  BY <1>1, <1>2, <1>4 DEF ResiduesFit
<1>6. /\ i \in DOMAIN s[x.mode].mapping.submaps
      /\ rstage' = "pass" /\ reader' = reader
  BY <1>2, <1>4, StartsTheVector
<1>7. IsSentIn(s, x, i) => FollowsSubmap(s, x, i)'
  BY <1>2, <1>4, <1>5, StartFollows
<1>8. submap' = i
  BY <1>1, <1>4
<1>9. ResiduesFit(s, x)'
  <2>1. IsSentIn(s, x, submap') => FollowsSubmap(s, x, submap)'
    BY <1>7, <1>8 DEF FollowsSubmap
  <2>2. ~IsSentIn(s, x, submap') => reader'.asked = SubmapAt(s, x, submap')
    BY <1>5, <1>6, <1>8
  <2>3. submap' \in DOMAIN s[x.mode].mapping.submaps
    BY <1>6, <1>8
  <2>4. \A c \in Channels :
          s[x.mode].mapping.muxs[c] < submap' => residue_outputs'[c] = SentCoupled(s, x)[c]
    BY <1>1, <1>2 DEF ResiduesFit
  <2> QED
    BY <1>6, <2>1, <2>2, <2>3, <2>4 DEF ResiduesFit
<1> QED
  BY <1>1, <1>3, <1>9 DEF Tracks, DecodesWhatWasEncoded

\* A channel that is not used is not read for.
LEMMA UnusedIsNotRead ==
  ASSUME LoopsOK, SingleOK, ~channel_used[0], ResidueNext
  PROVE  reader' = reader
<1>1. Decoding
  BY DEF ResidueNext, NextClassword, Classify, DecodePartition, RefuseVector, Decoding
<1>2. /\ NumChannels = 1 /\ ch \in Nat
      /\ rstage = "classify" => ch <= 1
      /\ rstage = "partition" => ch < 1
  BY <1>1 DEF LoopsOK, SingleOK, CountersOK
<1>3. ch < 1 => ~channel_used[ch]
  <2>1. ch < 1 => ch = 0
    BY <1>2
  <2> QED
    BY <2>1
<1>4. CASE NextClassword
  BY <1>4 DEF NextClassword
<1>5. CASE Classify
  <2>1. ch # NumChannels => ch < 1
    BY <1>2, <1>5 DEF Classify
  <2> QED
    BY <1>3, <1>5, <2>1 DEF Classify
<1>6. CASE DecodePartition
  <2>1. ~channel_used[ch]
    BY <1>2, <1>3, <1>6 DEF DecodePartition
  <2> QED
    BY <1>6, <2>1 DEF DecodePartition
<1>7. CASE RefuseVector
  BY <1>2, <1>3, <1>7 DEF RefuseVector
<1> QED
  BY <1>4, <1>5, <1>6, <1>7 DEF ResidueNext

\* What decode has, in the encoder's terms.
LEMMA SubmapIsDecoded ==
  ASSUME OneVectorEach, NEW s, s = modes, NEW x, Makes(s, x), FloorsKnown(s, x),
         LoopsSilent, OutOK, rstage \in {"pass", "classify", "partition", "decoded"},
         NEW i \in DOMAIN s[x.mode].mapping.submaps, i = submap
  PROVE  /\ residue = ResidueOf(s, x, i)
         /\ out[0] \in Vector(LengthIn(s, x, i))
         /\ ~IsSentIn(s, x, i) => ~channel_used[0] /\ out[0] = Zeros(decode_len(s, x.mode))
<1> DEFINE r == ResidueOf(s, x, i)
           members == MembersOf(s, x, i)
           dl == decode_len(s, x.mode)
           n == CountIn(s, x, i)
<1>1. mode_idx = x.mode
  BY DEF FloorsKnown
<1>2. /\ n \in Nat \ {0} /\ DOMAIN members = 0 .. n - 1 /\ (r.type # 2 => n = 1)
  BY SubmapIs
<1>3. Length = dl /\ Members(mapping(mode_idx), submap) = members
      /\ mapping(mode_idx).submaps[submap].residue = r
  BY <1>1 DEF Length, mapping, MembersOf, ResidueOf
<1>4. /\ residue = r
      /\ residue.type # 2 => \A j \in DOMAIN members :
           /\ channel_used[j] = floor_output_used[members[j]]
           /\ ~channel_used[j] => out[j] = Zeros(dl)
  BY <1>1, <1>3 DEF LoopsSilent
<1>5. out \in IF residue.type = 2 THEN [{0} -> Vector(Cardinality(DOMAIN members) * Length)]
              ELSE [DOMAIN members -> Vector(Length)]
  BY <1>3 DEF OutOK
<1>6. LengthIn(s, x, i) = IF r.type = 2 THEN n * dl ELSE dl
  BY DEF LengthIn
<1>7. n = Cardinality(DOMAIN members)
  BY DEF CountIn
<1>8. 0 \in DOMAIN members
  BY <1>2
<1>9. members[0] \in Channels
  BY <1>8, MembersAre DEF MembersOf
<1> HIDE DEF r, n, dl, members
<1>10. out[0] \in Vector(LengthIn(s, x, i))
  <2>1. CASE r.type = 2
    <3>1. out \in [{0} -> Vector(n * dl)]
      BY <1>3, <1>4, <1>5, <1>7, <2>1
    <3> QED
      BY <1>6, <2>1, <3>1
  <2>2. CASE r.type # 2
    <3>1. out \in [DOMAIN members -> Vector(dl)]
      BY <1>3, <1>4, <1>5, <2>2
    <3> QED
      BY <1>6, <1>8, <2>2, <3>1
  <2> QED
    BY <2>1, <2>2
<1>11. ASSUME ~IsSentIn(s, x, i) PROVE ~channel_used[0] /\ out[0] = Zeros(dl)
  <2>1. r.type # 2 /\ ~IsSentFor(s, x, members[0])
    BY <1>11 DEF IsSentIn, r, members
  <2>2. channel_used[0] = floor_output_used[members[0]]
    BY <1>4, <1>8, <2>1
  <2>3. floor_output_used[members[0]] = IsSentFor(s, x, members[0])
    BY <1>9 DEF FloorsKnown
  <2>4. ~channel_used[0]
    BY <2>1, <2>2, <2>3
  <2> QED
    BY <1>4, <1>8, <2>1, <2>4
<1> QED
  BY <1>4, <1>10, <1>11 DEF r, dl

LEMMA DecodeFollows ==
  ASSUME OneVectorEach, NEW s, s = modes, NEW x, Sends(s, x), FloorsKnown(s, x),
         ReadInvariant, SingleOK, LoopsSilent, OutOK, ResidueNext,
         NEW i \in DOMAIN s[x.mode].mapping.submaps, i = submap,
         IsSentIn(s, x, i), FollowsSubmap(s, x, i)
  PROVE  FollowsSubmap(s, x, i)'
<1> DEFINE r == ResidueOf(s, x, i)
           v == VectorIn(s, x, i)
           len == LengthIn(s, x, i)
           codings == CodingsOf(r, v)
           count == PartitionsIn(r, len)
           a == SubmapAt(s, x, i)
<1>1. Decoding
  BY DEF ResidueNext, NextClassword, Classify, DecodePartition, RefuseVector, Decoding
<1>2. Sent(r, v, codings, count, a, len)
  BY SubmapIsSent
<1>3. Makes(s, x)
  BY DEF Sends
<1>4. out[0] \in Vector(len)
  BY <1>1, <1>3, SubmapIsDecoded DEF Decoding
<1>5. PICK total \in Nat : DOMAIN packet = 0 .. total - 1 /\ reader \in Readers(total)
  <2>1. PICK k \in Nat : DOMAIN packet = 0 .. 8 * k - 1 /\ reader \in Readers(8 * k)
    BY DEF ReadInvariant, ReaderOK
  <2>2. 8 * k \in Nat
    OBVIOUS
  <2> QED
    BY <2>1, <2>2
<1>6. Follows(r, v, codings, count, a, len)
  BY DEF FollowsSubmap
<1>7. LoopsOK
  BY DEF ReadInvariant
<1> HIDE DEF r, v, len, codings, count, a
<1>8. Follows(r, v, codings, count, a, len)'
  BY <1>2, <1>4, <1>5, <1>6, <1>7, ResidueFollows
<1> QED
  BY <1>8 DEF FollowsSubmap, r, v, len, codings, count, a

LEMMA ResidueTracks ==
  ASSUME OneVectorEach, NEW s, s = modes, NEW x, Sends(s, x), Tracks(s, x),
         ReadInvariant, SingleOK, LoopsSilent, OutOK, DecodeResidue
  PROVE  Tracks(s, x)'
<1>1. /\ stage = "residues" /\ stage' = stage /\ submap' = submap /\ ResidueNext
      /\ residue_outputs' = residue_outputs /\ mode_idx' = mode_idx /\ floors' = floors
  BY DEF DecodeResidue
<1>2. FloorsKnown(s, x) /\ ResiduesFit(s, x) /\ Makes(s, x)
  BY <1>1 DEF Tracks, Sends
<1>3. FloorsKnown(s, x)'
  BY <1>1, <1>2, FloorsStay
<1>4. PICK i : i = submap
  OBVIOUS
<1>5. rstage \in {"pass", "classify", "partition"} /\ rstage' # "none"
  BY <1>1 DEF ResidueNext, NextClassword, Classify, DecodePartition, RefuseVector
<1>6. /\ i \in DOMAIN s[x.mode].mapping.submaps
      /\ IsSentIn(s, x, i) => FollowsSubmap(s, x, i)
      /\ ~IsSentIn(s, x, i) => reader.asked = SubmapAt(s, x, i)
  BY <1>2, <1>4, <1>5 DEF ResiduesFit, FollowsSubmap
<1>7. IsSentIn(s, x, i) => FollowsSubmap(s, x, i)'
  BY <1>1, <1>2, <1>4, <1>6, DecodeFollows
<1>8. ~IsSentIn(s, x, i) => reader' = reader
  <2>1. SUFFICES ASSUME ~IsSentIn(s, x, i) PROVE reader' = reader
    OBVIOUS
  <2>2. ~channel_used[0]
    BY <1>2, <1>4, <1>5, <1>6, <2>1, SubmapIsDecoded
  <2> QED
    BY <1>1, <2>2, UnusedIsNotRead DEF ReadInvariant
<1>9. submap' = i
  BY <1>1, <1>4
<1>10. ResiduesFit(s, x)'
  <2>1. IsSentIn(s, x, submap') => FollowsSubmap(s, x, submap)'
    BY <1>7, <1>9 DEF FollowsSubmap
  <2>2. ~IsSentIn(s, x, submap') => reader'.asked = SubmapAt(s, x, submap')
    BY <1>6, <1>8, <1>9
  <2>3. submap' \in DOMAIN s[x.mode].mapping.submaps
    BY <1>6, <1>9
  <2>4. \A c \in Channels :
          s[x.mode].mapping.muxs[c] < submap' => residue_outputs'[c] = SentCoupled(s, x)[c]
    BY <1>1, <1>2 DEF ResiduesFit
  <2> QED
    BY <1>5, <2>1, <2>2, <2>3, <2>4 DEF ResiduesFit
<1> QED
  BY <1>1, <1>3, <1>10 DEF Tracks, DecodesWhatWasEncoded

\* What is decoded for a submap: the vector of each of its channels.
LEMMA ResultIs ==
  ASSUME OneVectorEach, NEW s, s = modes, NEW x, Sends(s, x), FloorsKnown(s, x),
         LoopsSilent, OutOK, rstage = "decoded",
         NEW i \in DOMAIN s[x.mode].mapping.submaps, i = submap,
         IsSentIn(s, x, i) => FollowsSubmap(s, x, i),
         NEW j \in DOMAIN MembersOf(s, x, i)
  PROVE  ResidueOutput(CountIn(s, x, i), decode_len(s, x.mode))[j]
           = SentCoupled(s, x)[MembersOf(s, x, i)[j]]
<1> DEFINE r == ResidueOf(s, x, i)
           members == MembersOf(s, x, i)
           dl == decode_len(s, x.mode)
           n == CountIn(s, x, i)
           coupled == SentCoupled(s, x)
           v == Of(members, coupled)
<1>1. Makes(s, x)
  BY DEF Sends
<1>2. /\ n \in Nat \ {0} /\ DOMAIN members = 0 .. n - 1 /\ (r.type # 2 => n = 1)
      /\ v \in [0 .. n - 1 -> Vector(dl)] /\ dl \in Nat
  BY <1>1, SubmapIs, SetupIs
<1>3. /\ residue = r
      /\ ~IsSentIn(s, x, i) => out[0] = Zeros(dl)
  BY <1>1, SubmapIsDecoded
<1>4. IsSentIn(s, x, i) => out[0] = VectorIn(s, x, i)
  BY DEF FollowsSubmap, Follows
<1>5. /\ r.type = 2 => IsSentIn(s, x, i) /\ VectorIn(s, x, i) = Interleaved(v)
      /\ r.type # 2 => VectorIn(s, x, i) = coupled[members[0]]
      /\ r.type # 2 /\ ~IsSentIn(s, x, i) => ~IsSentFor(s, x, members[0])
  BY DEF IsSentIn, VectorIn
<1>6. v = [k \in DOMAIN members |-> coupled[members[k]]]
  BY TableIsItself DEF Of
<1>7. members[0] \in Channels
  <2>1. 0 \in DOMAIN members
    BY <1>2
  <2> QED
    BY <2>1, MembersAre DEF MembersOf
<1>8. ~IsSentFor(s, x, members[0]) => coupled[members[0]] = Zeros(dl)
  BY <1>1, <1>7, SilentCoupled
<1>9. j \in DOMAIN members
  OBVIOUS
<1> HIDE DEF r, members, dl, n, coupled, v
<1>10. j \in 0 .. n - 1 /\ v[j] = coupled[members[j]]
  BY <1>2, <1>6, <1>9
<1>11. CASE r.type = 2
  <2>1. out[0] = Interleaved(v)
    BY <1>4, <1>5, <1>11
  <2>2. ResidueOutput(n, dl)[j] = [k \in 0 .. dl - 1 |-> out[0][j + n * k]]
    BY <1>3, <1>10, <1>11 DEF ResidueOutput
  <2>3. \A k \in 0 .. dl - 1 : Interleaved(v)[j + n * k] = v[j][k]
    <3>1. \A h \in 0 .. n - 1, k \in 0 .. dl - 1 :
            h + n * k \in 0 .. n * dl - 1 /\ Interleaved(v)[h + n * k] = v[h][k]
      BY <1>2, InterleavedIs
    <3> QED
      BY <1>10, <3>1, Zenon
  <2>4. v[j] = [k \in 0 .. dl - 1 |-> v[j][k]]
    BY <1>2, <1>10 DEF Vector
  <2>5. [k \in 0 .. dl - 1 |-> out[0][j + n * k]] = [k \in 0 .. dl - 1 |-> v[j][k]]
    BY <2>1, <2>3
  <2> QED
    BY <1>10, <2>2, <2>4, <2>5 DEF n, dl, coupled, members
<1>12. CASE r.type # 2
  <2>1. j = 0
    BY <1>2, <1>10, <1>12
  <2>2. ResidueOutput(n, dl)[j] = out[0]
    BY <1>3, <1>12, <2>1 DEF ResidueOutput
  <2>3. out[0] = coupled[members[0]]
    BY <1>3, <1>4, <1>5, <1>8, <1>12
  <2> QED
    BY <2>1, <2>2, <2>3 DEF n, dl, coupled, members
<1> QED
  BY <1>11, <1>12

LEMMA FinishTracks ==
  ASSUME OneVectorEach, NEW s, s = modes, NEW x, Sends(s, x), Tracks(s, x),
         ReadInvariant, LoopsSilent, OutOK, FinishResidue
  PROVE  Tracks(s, x)'
<1>1. /\ stage = "residues" /\ stage' = stage /\ submap' = submap + 1 /\ rstage' = "none"
      /\ rstage = "decoded" /\ reader' = reader /\ mode_idx' = mode_idx /\ floors' = floors
  BY DEF FinishResidue
<1>2. FloorsKnown(s, x) /\ ResiduesFit(s, x) /\ Makes(s, x) /\ Holds(0, Encode(s, x))
  BY <1>1 DEF Tracks, Sends
<1>3. FloorsKnown(s, x)'
  BY <1>1, <1>2, FloorsStay
<1>4. PICK i : i = submap
  OBVIOUS
<1>5. /\ i \in DOMAIN s[x.mode].mapping.submaps
      /\ IsSentIn(s, x, i) => FollowsSubmap(s, x, i)
      /\ ~IsSentIn(s, x, i) => reader.asked = SubmapAt(s, x, i)
  BY <1>1, <1>2, <1>4 DEF ResiduesFit, FollowsSubmap
<1> DEFINE m == s[x.mode].mapping
           members == MembersOf(s, x, i)
           n == CountIn(s, x, i)
           dl == decode_len(s, x.mode)
           coupled == SentCoupled(s, x)
           r == ResidueOf(s, x, i)
           v == VectorIn(s, x, i)
           count == PartitionsIn(r, LengthIn(s, x, i))
           bits == EncodeSubmap(m, x, i)
<1>6. SubmapAt(s, x, i + 1) = SubmapAt(s, x, i) + Len(bits) /\ SubmapAt(s, x, i) \in Nat
  BY <1>2, <1>5, PartsAreHeld
<1>7. /\ IsSentIn(s, x, i) => bits = EncodeWith(r, CodingsOf(r, v), 1, count)
      /\ ~IsSentIn(s, x, i) => bits = <<>>
  BY <1>2, <1>5, EncodeSubmapIs
<1>8. reader.asked = SubmapAt(s, x, i) + Len(bits)
  <2>1. CASE IsSentIn(s, x, i)
    <3>1. reader.asked = SubmapAt(s, x, i) + Len(EncodeWith(r, CodingsOf(r, v), 1, count))
      BY <1>1, <1>5, <2>1 DEF FollowsSubmap, Follows
    <3> QED
      BY <1>7, <2>1, <3>1
  <2>2. CASE ~IsSentIn(s, x, i)
    <3>1. Len(bits) = 0
      BY <1>7, <2>2
    <3> QED
      BY <1>5, <1>6, <2>2, <3>1
  <2> QED
    BY <2>1, <2>2
<1>9. \A j \in DOMAIN members : ResidueOutput(n, dl)[j] = coupled[members[j]]
  BY <1>1, <1>2, <1>4, <1>5, ResultIs
<1>10. residue_outputs' =
         [c \in Channels |->
            IF m.muxs[c] = i
            THEN ResidueOutput(n, dl)[CHOOSE j \in DOMAIN members : members[j] = c]
            ELSE residue_outputs[c]]
  <2>1. mode_idx = x.mode
    BY <1>2 DEF FloorsKnown
  <2> QED
    BY <1>4, <2>1 DEF FinishResidue, mapping, MembersOf, CountIn
<1>11. m.muxs \in [Channels -> DOMAIN m.submaps] /\ \E k \in Nat : DOMAIN m.submaps = 0 .. k - 1
  BY <1>2, SetupIs
<1>12. \A c \in Channels : m.muxs[c] < i => residue_outputs[c] = coupled[c]
  BY <1>2, <1>4 DEF ResiduesFit
<1>13. ASSUME NEW c \in Channels, m.muxs[c] = i
       PROVE  ResidueOutput(n, dl)[CHOOSE j \in DOMAIN members : members[j] = c] = coupled[c]
  <2>1. \E j \in DOMAIN members : members[j] = c
    BY <1>13, MemberExists DEF MembersOf
  <2> DEFINE j == CHOOSE k \in DOMAIN members : members[k] = c
  <2>2. j \in DOMAIN members /\ members[j] = c
    BY <2>1
  <2> HIDE DEF j, members, n, dl, coupled
  <2>3. ResidueOutput(n, dl)[j] = coupled[c]
    BY <1>9, <2>2
  <2> QED
    BY <2>3 DEF j
<1> HIDE DEF m, members, n, dl, coupled
<1>14. ASSUME NEW c \in Channels, m.muxs[c] < i + 1
       PROVE  residue_outputs'[c] = coupled[c]
  <2>1. m.muxs[c] \in Nat /\ i \in Nat
    BY <1>5, <1>11 DEF m
  <2>2. CASE m.muxs[c] = i
    BY <1>10, <1>13, <2>2
  <2>3. CASE m.muxs[c] < i
    <3>1. residue_outputs'[c] = residue_outputs[c]
      BY <1>10, <2>1, <2>3
    <3> QED
      BY <1>12, <2>3, <3>1
  <2> QED
    BY <1>14, <2>1, <2>2, <2>3
<1>15. ResiduesFit(s, x)'
  <2>1. reader'.asked = SubmapAt(s, x, submap')
    BY <1>1, <1>4, <1>6, <1>8
  <2>2. \A c \in Channels :
          s[x.mode].mapping.muxs[c] < submap' => residue_outputs'[c] = SentCoupled(s, x)[c]
    BY <1>1, <1>4, <1>14 DEF m, coupled
  <2> QED
    BY <1>1, <2>1, <2>2 DEF ResiduesFit
<1> QED
  BY <1>1, <1>3, <1>15 DEF Tracks, DecodesWhatWasEncoded

-----------------------------------------------------------------------------
(* The couplings and the product                                           *)

OutputsAreTable == residue_outputs = [c \in Channels |-> residue_outputs[c]]

LEMMA TableKeeps ==
  ASSUME OutputsAreTable, [ANext]_avars
  PROVE  OutputsAreTable'
<1>1. CASE residue_outputs' = residue_outputs
  BY <1>1 DEF OutputsAreTable
<1>2. CASE FinishResidue
  <2>1. residue_outputs' =
          [c \in Channels |->
             IF mapping(mode_idx).muxs[c] = submap
             THEN ResidueOutput(Cardinality(DOMAIN Members(mapping(mode_idx), submap)),
                                decode_len(modes, mode_idx))
                    [CHOOSE j \in DOMAIN Members(mapping(mode_idx), submap) :
                       Members(mapping(mode_idx), submap)[j] = c]
             ELSE residue_outputs[c]]
    BY <1>2 DEF FinishResidue
  <2> QED
    BY <2>1 DEF OutputsAreTable
<1>3. CASE InverseCoupling
  <2> DEFINE k == NextCoupling(mapping(mode_idx).couplings)
             v == residue_outputs
             f == [p \in DOMAIN v[k.magnitude] |-> Uncouple(v[k.magnitude][p], v[k.angle][p])[1]]
             g == [p \in DOMAIN v[k.angle] |-> Uncouple(v[k.magnitude][p], v[k.angle][p])[2]]
             w == UncoupleVectors(residue_outputs, k)
  <2>1. residue_outputs' = w
    BY <1>3 DEF InverseCoupling
  <2>2. DOMAIN residue_outputs = Channels
    BY DEF OutputsAreTable
  <2>3. w = [w EXCEPT ![k.magnitude] = w[k.magnitude]] /\ DOMAIN w = Channels
    BY <2>2 DEF UncoupleVectors
  <2> HIDE DEF w
  <2>4. w = [c \in Channels |-> w[c]]
    BY <2>3
  <2> QED
    BY <2>1, <2>4 DEF OutputsAreTable
<1>4. CASE DotProduct
  <2>1. residue_outputs' =
          [c \in Channels |->
             IF floor_output_used[c]
             THEN [p \in DOMAIN residue_outputs[c] |->
                     residue_outputs[c][p] * floor_outputs[c]]
             ELSE residue_outputs[c]]
    BY <1>4 DEF DotProduct
  <2> QED
    BY <2>1 DEF OutputsAreTable
<1>5. residue_outputs' = residue_outputs \/ FinishResidue \/ InverseCoupling \/ DotProduct
  BY DEF ANext, avars, ReadHead, DecodeFloor, PropagateNonzero, StartResidue, DecodeResidue,
         FailResidue, PushResidues
<1> QED
  BY <1>1, <1>2, <1>3, <1>4, <1>5

LEMMA PushTracks ==
  ASSUME OneVectorEach, NEW s, s = modes, NEW x, Sends(s, x), Tracks(s, x),
         ResiduesSilent, OutputsAreTable, PushResidues
  PROVE  Tracks(s, x)'
<1>1. /\ stage = "residues" /\ stage' = "coupling" /\ mode_idx' = mode_idx /\ floors' = floors
      /\ after_residue' = residue_outputs
      /\ submap \notin DOMAIN mapping(mode_idx).submaps
  BY DEF PushResidues
<1>2. FloorsKnown(s, x) /\ ResiduesFit(s, x) /\ Makes(s, x)
  BY <1>1 DEF Tracks, Sends
<1>3. FloorsKnown(s, x)'
  BY <1>1, <1>2, FloorsStay
<1> DEFINE m == s[x.mode].mapping
           coupled == SentCoupled(s, x)
<1>4. PICK n \in Nat : DOMAIN m.submaps = 0 .. n - 1
  BY <1>2, SetupIs
<1>5. m.muxs \in [Channels -> 0 .. n - 1] /\ coupled \in [Channels -> Vector(decode_len(s, x.mode))]
  BY <1>2, <1>4, SetupIs
<1>6. submap \in Nat /\ submap \notin 0 .. n - 1
  <2>1. mapping(mode_idx) = m
    BY <1>2 DEF FloorsKnown, mapping
  <2> HIDE DEF m
  <2> QED
    BY <1>1, <1>4, <2>1 DEF ResiduesSilent
<1>7. \A c \in Channels : residue_outputs[c] = coupled[c]
  <2>1. \A c \in Channels : m.muxs[c] < submap
    BY <1>5, <1>6
  <2> QED
    BY <1>2, <2>1 DEF ResiduesFit
<1> HIDE DEF coupled
<1>8. residue_outputs = coupled
  <2>1. coupled = [c \in Channels |-> coupled[c]]
    BY <1>5
  <2>2. [c \in Channels |-> coupled[c]] = [c \in Channels |-> residue_outputs[c]]
    BY <1>7
  <2> QED
    BY <2>1, <2>2, Zenon DEF OutputsAreTable
<1> QED
  BY <1>1, <1>3, <1>8 DEF Tracks, DecodesWhatWasEncoded, coupled

LEMMA UncoupleTracks ==
  ASSUME NEW s, NEW x, Tracks(s, x), InverseCoupling
  PROVE  Tracks(s, x)'
<1>1. /\ stage = "coupling" /\ stage' = stage /\ mode_idx' = mode_idx /\ floors' = floors
      /\ after_residue' = after_residue
  BY DEF InverseCoupling, pushed
<1>2. FloorsKnown(s, x) /\ after_residue = SentCoupled(s, x)
  BY <1>1 DEF Tracks
<1>3. FloorsKnown(s, x)'
  BY <1>1, <1>2, FloorsStay
<1> QED
  BY <1>1, <1>2, <1>3 DEF Tracks, DecodesWhatWasEncoded

\* A channel without a floor was sent as silence.
LEMMA ProductIs ==
  ASSUME NEW s, NEW x, Makes(s, x), FloorsKnown(s, x), CountsOK, NEW c \in Channels,
         NEW v, v = x.sent[c],
         NEW w, w = IF floor_output_used[c]
                    THEN [p \in DOMAIN v |-> v[p] * floor_outputs[c]] ELSE v
  PROVE  w = [p \in DOMAIN v |-> v[p] * (1 + Curve(c))]
<1> DEFINE X == 0 .. decode_len(s, x.mode) - 1
<1>1. Curve(c) \in Nat /\ floor_outputs[c] \in Nat
  <2>1. Doubled(FloorBits) \in Nat \ {0}
    BY AudioAssumption, DoubledStep
  <2>2. Curve(c) \in 0 .. Doubled(FloorBits) - 1
    BY FloorIsBits
  <2> QED
    BY <2>1, <2>2 DEF CountsOK
<1>2. x.used[c] \in BOOLEAN /\ CanSend(s, x)
  BY DEF Makes
<1>3. CASE x.used[c]
  <2>1. IsSentFor(s, x, c)
    BY <1>3 DEF IsSentFor, IsDecoded
  <2>2. floor_output_used[c] = IsSentFor(s, x, c) /\ floor_outputs[c] = 1 + Curve(c)
    BY <1>3 DEF FloorsKnown
  <2> QED
    BY <2>1, <2>2
<1>4. CASE ~x.used[c]
  <2>1. v = [p \in X |-> 0]
    BY <1>2, <1>4 DEF CanSend, Zeros
  <2> DEFINE y == floor_outputs[c]
             z == 1 + Curve(c)
  <2>2. 0 * y = 0 /\ 0 * z = 0
    BY <1>1
  <2> HIDE DEF y, z, X
  <2>3. /\ [p \in DOMAIN v |-> v[p] * y] = [p \in X |-> 0]
        /\ [p \in DOMAIN v |-> v[p] * z] = [p \in X |-> 0]
    BY <2>1, <2>2
  <2> QED
    BY <2>1, <2>3 DEF y, z
<1> QED
  BY <1>2, <1>3, <1>4

LEMMA DotTracks ==
  ASSUME NEW s, s = modes, NEW x, Sends(s, x), Tracks(s, x),
         CountsOK, CouplingInvariant, DotProduct
  PROVE  Tracks(s, x)'
<1>1. /\ stage = "coupling" /\ step = 0 /\ stage' = "done" /\ content' = content
      /\ mode_idx' = mode_idx /\ floors' = floors /\ after_envelope' = residue_outputs'
  BY DEF DotProduct, given
<1>2. FloorsKnown(s, x) /\ after_residue = SentCoupled(s, x) /\ Makes(s, x)
      /\ content = Content(x, 0)
  BY <1>1 DEF Tracks, Sends
<1>3. FloorsKnown(s, x)'
  BY <1>1, <1>2, FloorsStay
<1>4. /\ content.mode = x.mode /\ content.sent = x.sent /\ content.coupled = x.coupled
  BY <1>2 DEF Content
<1>5. ASSUME content # NoContent PROVE residue_outputs = x.sent
  <2>1. mapping(content.mode).couplings = s[x.mode].mapping.couplings /\ mode_idx = content.mode
    BY <1>2, <1>4 DEF mapping, FloorsKnown
  <2>2. residue_outputs = content.coupled[step]
    BY <1>1, <1>2, <1>4, <1>5, <2>1 DEF CouplingInvariant, CouplingIsUndone, SentCoupled
  <2> QED
    BY <1>1, <1>2, <1>4, <2>2 DEF Makes
<1>6. DecodesWhatWasEncoded'
  <2>1. SUFFICES ASSUME content # NoContent
        PROVE  after_envelope' =
                 [c \in Channels |-> [p \in DOMAIN x.sent[c] |-> x.sent[c][p] * (1 + Curve(c))]]
    BY <1>1, <1>4 DEF DecodesWhatWasEncoded, Whole
  <2> DEFINE w(c) == IF floor_output_used[c]
                     THEN [p \in DOMAIN x.sent[c] |-> x.sent[c][p] * floor_outputs[c]]
                     ELSE x.sent[c]
             y(c) == [p \in DOMAIN x.sent[c] |-> x.sent[c][p] * (1 + Curve(c))]
  <2>2. after_envelope' = [c \in Channels |-> w(c)]
    BY <1>1, <1>5, <2>1 DEF DotProduct
  <2>3. \A c \in Channels : w(c) = y(c)
    BY <1>2, ProductIs
  <2> HIDE DEF w, y
  <2>4. after_envelope' = [c \in Channels |-> y(c)]
    BY <2>2, <2>3
  <2> QED
    BY <2>4 DEF y
<1> QED
  BY <1>1, <1>3, <1>6 DEF Tracks

-----------------------------------------------------------------------------
(* What an encoder was given is what comes out                             *)

Encoded == Whole => \E s, x : s = modes /\ Sends(s, x) /\ Tracks(s, x)

DecodeInvariant ==
  /\ TypeInvariant
  /\ SingleOK /\ AtBegin /\ CouplingInvariant /\ OutputsAreTable
  /\ Encoded

\* What the assumption on the packets says of one of them.
LEMMA MadeIs ==
  ASSUME OneVectorEach, NEW s \in Setups, NEW made \in Packets[s]
  PROVE  /\ Makes(s, made.from)
         /\ made.bits = Encode(s, made.from)
         /\ made.bits \in Seq(Bit)
<1>1. IsMade(s, made)
  BY PacketsAssumption
<1>2. Makes(s, made.from) /\ made.bits = Encode(s, made.from)
  BY <1>1 DEF IsMade, Makes, Vector
<1>3. PICK n \in Nat : DOMAIN s[made.from.mode].mapping.submaps = 0 .. n - 1
  BY <1>2, SetupIs
<1> QED
  BY <1>2, <1>3, PartsOf

LEMMA EncodedInit ==
  ASSUME OneVectorEach, AInit
  PROVE  Encoded
<1>1. SUFFICES ASSUME Whole
      PROVE  \E s, x : s = modes /\ Sends(s, x) /\ Tracks(s, x)
  BY DEF Encoded
<1>2. MadePackets
  BY <1>1 DEF AInit, Whole
<1>3. PICK s : s = modes
  OBVIOUS
<1>4. PICK made \in Packets[s], cut \in Cuts :
        content = Content(made.from, cut) /\ packet = Packed(made.bits, cut)
  BY <1>2, <1>3 DEF MadePackets
<1>5. cut = 0
  BY <1>1, <1>4 DEF Whole, Content
<1>6. s \in Setups
  BY <1>3 DEF AInit
<1>7. /\ Makes(s, made.from) /\ made.bits = Encode(s, made.from)
      /\ made.bits \in Seq(Bit)
  BY <1>4, <1>6, MadeIs
<1>8. Holds(0, made.bits)
  BY <1>4, <1>5, <1>7, PackedHolds
<1>9. Sends(s, made.from)
  BY <1>4, <1>5, <1>7, <1>8 DEF Sends
<1>10. Tracks(s, made.from)
  BY DEF AInit, Tracks, DecodesWhatWasEncoded
<1> QED
  BY <1>3, <1>9, <1>10

LEMMA TracksNext ==
  ASSUME OneVectorEach, NEW s, s = modes, NEW x, Sends(s, x), Tracks(s, x),
         TypeInvariant, SingleOK, AtBegin, CouplingInvariant, OutputsAreTable,
         [ANext]_avars
  PROVE  Tracks(s, x)'
<1>1. /\ ReadInvariant /\ PropagationInv /\ LoopsSilent /\ ResiduesSilent
      /\ ChannelOK /\ CountsOK /\ OutOK
  BY DEF TypeInvariant
<1>2. CASE ReadHead
  BY <1>1, <1>2, HeadTracks
<1>3. CASE DecodeFloor
  BY <1>1, <1>3, FloorTracks
<1>4. CASE PropagateNonzero
  BY <1>1, <1>4, PropagateTracks
<1>5. CASE StartResidue
  BY <1>5, StartTracks
<1>6. CASE DecodeResidue
  BY <1>1, <1>6, ResidueTracks
<1>7. CASE FailResidue
  <2>1. stage' = "failed"
    BY <1>7 DEF FailResidue
  <2> QED
    BY <2>1 DEF Tracks, DecodesWhatWasEncoded
<1>8. CASE FinishResidue
  BY <1>1, <1>8, FinishTracks
<1>9. CASE PushResidues
  BY <1>1, <1>9, PushTracks
<1>10. CASE InverseCoupling
  BY <1>10, UncoupleTracks
<1>11. CASE DotProduct
  BY <1>1, <1>11, DotTracks
<1>12. CASE UNCHANGED avars
  <2>1. /\ stage' = stage /\ channel' = channel /\ mode_idx' = mode_idx /\ submap' = submap
        /\ floor_output_used' = floor_output_used /\ floor_outputs' = floor_outputs
        /\ reader' = reader /\ step' = step /\ rstage' = rstage
        /\ residue_outputs' = residue_outputs /\ after_residue' = after_residue
        /\ after_envelope' = after_envelope /\ content' = content
    BY <1>12 DEF avars, given, floors, pushed, loops
  <2>2. UNCHANGED <<residue, channel_used, out, classifications, pass, partition_count,
                    word, ch, rstage>>
    BY <1>12 DEF avars, loops
  <2>3. FloorsFit(s, x)' = FloorsFit(s, x) /\ FloorsKnown(s, x)' = FloorsKnown(s, x)
    BY <2>1 DEF FloorsFit, FloorsKnown
  <2>4. ASSUME NEW i PROVE FollowsSubmap(s, x, i)' = FollowsSubmap(s, x, i)
    <3> DEFINE r == ResidueOf(s, x, i)
               v == VectorIn(s, x, i)
               len == LengthIn(s, x, i)
               codings == CodingsOf(r, v)
               count == PartitionsIn(r, len)
               a == SubmapAt(s, x, i)
    <3>1. FollowsSubmap(s, x, i) = Follows(r, v, codings, count, a, len)
          /\ FollowsSubmap(s, x, i)' = Follows(r, v, codings, count, a, len)'
      BY DEF FollowsSubmap
    <3> HIDE DEF r, v, len, codings, count, a
    <3>2. Follows(r, v, codings, count, a, len)' = Follows(r, v, codings, count, a, len)
      BY <2>1, <2>2 DEF Follows, Goes, DecodeLen, CountsFit, ClassesKnown, ClassIsKnown,
         Headed, AskedFits, ValuesFit, SumsAt, ZeroOutside, Decoding
    <3> QED
      BY <3>1, <3>2
  <2>5. ResiduesFit(s, x)' = ResiduesFit(s, x)
    BY <2>1, <2>4 DEF ResiduesFit
  <2>6. DecodesWhatWasEncoded' = DecodesWhatWasEncoded
    BY <2>1 DEF DecodesWhatWasEncoded, Whole
  <2> QED
    BY <2>1, <2>3, <2>5, <2>6 DEF Tracks
<1> QED
  BY <1>2, <1>3, <1>4, <1>5, <1>6, <1>7, <1>8, <1>9, <1>10, <1>11, <1>12 DEF ANext

LEMMA EncodedNext ==
  ASSUME OneVectorEach, DecodeInvariant, [ANext]_avars
  PROVE  Encoded'
<1>1. SUFFICES ASSUME Whole'
      PROVE  (\E s, x : s = modes /\ Sends(s, x) /\ Tracks(s, x))'
  BY DEF Encoded
<1>2. modes' = modes /\ content' = content
  BY GivenStays
<1>3. PICK s, x : s = modes /\ Sends(s, x) /\ Tracks(s, x)
  BY <1>1, <1>2 DEF DecodeInvariant, Encoded, Whole
<1>4. Sends(s, x)'
  BY <1>3, SendsStays
<1>5. Tracks(s, x)'
  BY <1>3, TracksNext DEF DecodeInvariant
<1> QED
  BY <1>2, <1>3, <1>4, <1>5

(***************************************************************************)
(* parse_audio gives to push_data_float the vectors that an encoder put    *)
(* into a whole packet, each multiplied by its channel's floor: for every  *)
(* setup with one vector to each submap and partitions of whole vectors.   *)
(***************************************************************************)
THEOREM EncodedIsDecoded ==
  ASSUME OneVectorEach
  PROVE  ASpec => []DecodesWhatWasEncoded
<1>1. AInit => DecodeInvariant
  <2>1. SUFFICES ASSUME AInit PROVE DecodeInvariant
    OBVIOUS
  <2>2. TypeInvariant /\ AtBegin /\ CouplingInvariant /\ Encoded
    BY <2>1, TypesInit, BeginInit, CouplingInit, EncodedInit
  <2>3. SingleOK /\ OutputsAreTable
    BY <2>1 DEF AInit, SingleOK, Decoding, OutputsAreTable
  <2> QED
    BY <2>2, <2>3 DEF DecodeInvariant
<1>2. DecodeInvariant /\ [ANext]_avars => DecodeInvariant'
  <2>1. SUFFICES ASSUME DecodeInvariant, [ANext]_avars PROVE DecodeInvariant'
    OBVIOUS
  <2>2. /\ TypeInvariant /\ ReadInvariant /\ SingleOK /\ AtBegin /\ CouplingInvariant
        /\ OutputsAreTable
    BY <2>1 DEF DecodeInvariant, TypeInvariant
  <2>3. TypeInvariant' /\ SingleOK' /\ AtBegin'
    BY <2>1, <2>2, TypesNext, SingleNext, AtBeginKeeps
  <2>4. CouplingInvariant' /\ OutputsAreTable' /\ Encoded'
    BY <2>1, <2>2, CouplingNext, TableKeeps, EncodedNext
  <2> QED
    BY <2>3, <2>4 DEF DecodeInvariant
<1>3. DecodeInvariant => DecodesWhatWasEncoded
  BY DEF DecodeInvariant, Encoded, Tracks, DecodesWhatWasEncoded
<1> QED
  BY <1>1, <1>2, <1>3, PTL DEF ASpec

=============================================================================
