--------------------------- MODULE CodebookProofs ---------------------------
(***************************************************************************)
(* Codewords, for words of any number of bits, any number of entries and   *)
(* lengths in any order.                                                   *)
(***************************************************************************)
EXTENDS Codebook, LoopProofs

-----------------------------------------------------------------------------
(* Powers of 2, and shifts                                                 *)

LEMMA Powers ==
  /\ Power[0] = 1
  /\ \A n \in 0 .. WordLen : Power[n] \in Nat \ {0}
  /\ \A n \in 1 .. WordLen : Power[n] = 2 * Power[n - 1]
<1> DEFINE W == WordLen
           Is(p) == p = [n \in 0 .. W |-> IF n = 0 THEN 1 ELSE 2 * p[n - 1]]
           S == Nat \ {0}
           g == [x \in S |-> 2 * x]
<1>1. W \in Nat
  BY CodebookAssumption
<1>2. PICK f \in [0 .. W -> S] : f[0] = 1 /\ \A k \in 1 .. W : f[k] = g[f[k - 1]]
  <2>1. g \in [S -> S] /\ 1 \in S
    OBVIOUS
  <2> HIDE DEF g, S, W
  <2>2. HasLoop(S, g, 1, W)
    BY <1>1, <2>1, LoopExists
  <2> QED
    BY <2>2 DEF HasLoop
<1>3. Is(f)
  <2>1. ASSUME NEW k \in 0 .. W PROVE f[k] = IF k = 0 THEN 1 ELSE 2 * f[k - 1]
    <3>1. CASE k # 0
      <4>1. k \in 1 .. W /\ k - 1 \in 0 .. W
        BY <1>1, <3>1
      <4> QED
        BY <1>2, <3>1, <4>1
    <3> QED
      BY <1>2, <3>1
  <2>2. f = [k \in 0 .. W |-> f[k]]
    BY <1>2
  <2> QED
    BY <2>1, <2>2
<1>4. Is(Power)
  BY <1>3 DEF Power
<1>5. \A n \in 0 .. W : Power[n] = IF n = 0 THEN 1 ELSE 2 * Power[n - 1]
  BY <1>4
<1>6. Power[0] = 1 /\ \A n \in 1 .. W : Power[n] = 2 * Power[n - 1]
  BY <1>1, <1>5
<1>7. \A k \in 0 .. W : Power[k] \in S
  <2>1. Power[0] \in S /\ \A k \in 1 .. W : Power[k - 1] \in S => Power[k] \in S
    BY <1>6
  <2> HIDE DEF S, W
  <2> QED
    BY <1>1, <2>1, LoopStays
<1> QED
  BY <1>6, <1>7

\* What is left of x when n bits are shifted out.
Above(x, n) == x \div Power[n]

\* The last bit is shifted out first, or last.
LEMMA Shifts ==
  ASSUME NEW x \in Nat
  PROVE  /\ Above(x, 0) = x
         /\ \A n \in 0 .. WordLen : Above(x, n) \in Nat
         /\ \A n \in 1 .. WordLen :
              /\ Above(x, n) = Above(x, n - 1) \div 2
              /\ Above(x, n) = Above(x \div 2, n - 1)
<1>1. x \div 1 = x
  OBVIOUS
<1>2. ASSUME NEW n \in 1 .. WordLen
      PROVE  /\ Above(x, n) = Above(x, n - 1) \div 2
             /\ Above(x, n) = Above(x \div 2, n - 1)
  <2>1. n - 1 \in 0 .. WordLen /\ Power[n] = 2 * Power[n - 1] /\ Power[n - 1] \in Nat \ {0}
    BY Powers, CodebookAssumption
  <2> QED
    BY <2>1, Halves, ZenonT(30) DEF Above
<1>3. ASSUME NEW n \in 0 .. WordLen PROVE Above(x, n) \in Nat
  BY Powers, Halves DEF Above
<1> QED
  BY <1>1, <1>2, <1>3, Powers DEF Above

-----------------------------------------------------------------------------
(* The tree of codewords                                                   *)

Depths == 0 .. WordLen

(***************************************************************************)
(* n[j] is the leftmost node of depth j that is free, from 0 on; if none   *)
(* is, it is the one behind the last.  Either it is the left half of the   *)
(* free node one level up, or a right half, further to the left.           *)
(***************************************************************************)
MarksOK(n) ==
  /\ n \in [Depths -> Nat]
  /\ \A j \in Depths : n[j] <= Power[j]
  /\ \A j \in Lengths : n[j] = 2 * n[j - 1] \/ (n[j] % 2 = 1 /\ n[j] < 2 * n[j - 1])

\* What is not right of the free node is not right of those above it.
LEMMA LeftOf ==
  ASSUME NEW n, MarksOK(n), NEW a \in Depths, NEW x \in Nat
  PROVE  /\ x < n[a]  => \A i \in 0 .. a : Above(x, a - i) < n[i]
         /\ x <= n[a] => \A i \in 0 .. a : Above(x, a - i) <= n[i]
<1>1. WordLen \in Nat
  BY CodebookAssumption
<1>2. ASSUME NEW k \in 0 + 1 .. a
      PROVE  /\ Above(x, k - 1) < n[a - (k - 1)]  => Above(x, k) < n[a - k]
             /\ Above(x, k - 1) <= n[a - (k - 1)] => Above(x, k) <= n[a - k]
  <2>1. k \in 1 .. WordLen /\ a - (k - 1) \in Lengths /\ (a - (k - 1)) - 1 = a - k
        /\ k - 1 \in 0 .. WordLen /\ a - k \in Depths /\ a - (k - 1) \in Depths
    BY <1>1 DEF Depths, Lengths
  <2> DEFINE y == Above(x, k - 1)
             m == n[a - (k - 1)]
             u == n[a - k]
  <2>2. Above(x, k) = y \div 2 /\ y \in Nat
    BY <2>1, Shifts
  <2>3. m \in Nat /\ u \in Nat /\ (m = 2 * u \/ (m % 2 = 1 /\ m < 2 * u))
    <3>1. n[a - (k - 1)] = 2 * n[(a - (k - 1)) - 1]
            \/ (n[a - (k - 1)] % 2 = 1 /\ n[a - (k - 1)] < 2 * n[(a - (k - 1)) - 1])
      BY <2>1 DEF MarksOK
    <3> QED
      BY <2>1, <3>1 DEF MarksOK
  <2> HIDE DEF y, m, u
  <2>4. (y < m => y \div 2 < u) /\ (y <= m => y \div 2 <= u)
    BY <2>2, <2>3
  <2> QED
    BY <2>2, <2>4 DEF y, m, u
<1>3. Above(x, 0) = x /\ n[a - 0] = n[a]
  BY Shifts DEF Depths
<1>4. ASSUME x < n[a], NEW i \in 0 .. a PROVE Above(x, a - i) < n[i]
  <2> DEFINE G == {k \in 0 .. a : Above(x, k) < n[a - k]}
  <2>1. 0 \in G
    BY <1>1, <1>3, <1>4 DEF Depths
  <2>2. \A k \in 0 + 1 .. a : k - 1 \in G => k \in G
    BY <1>2
  <2> HIDE DEF G
  <2>3. \A k \in 0 .. a : k \in G
    BY <2>1, <2>2, UpTo DEF Depths
  <2>4. a - i \in G /\ a - (a - i) = i
    BY <2>3 DEF Depths
  <2> QED
    BY <2>4 DEF G
<1>5. ASSUME x <= n[a], NEW i \in 0 .. a PROVE Above(x, a - i) <= n[i]
  <2> DEFINE G == {k \in 0 .. a : Above(x, k) <= n[a - k]}
  <2>1. 0 \in G
    BY <1>1, <1>3, <1>5 DEF Depths
  <2>2. \A k \in 0 + 1 .. a : k - 1 \in G => k \in G
    BY <1>2
  <2> HIDE DEF G
  <2>3. \A k \in 0 .. a : k \in G
    BY <2>1, <2>2, UpTo DEF Depths
  <2>4. a - i \in G /\ a - (a - i) = i
    BY <2>3 DEF Depths
  <2> QED
    BY <2>4 DEF G
<1> QED
  BY <1>4, <1>5

(***************************************************************************)
(* A codeword of length len is taken, and n becomes m.  The node lies in   *)
(* the free block of depth top, or in the root if nothing is taken yet; it *)
(* is also the beginning of what is free down to depth bot.                *)
(***************************************************************************)
Takes(n, m, top, len, bot) ==
  /\ m \in [Depths -> Nat]
  /\ len \in Lengths /\ top \in 0 .. len /\ bot \in len .. WordLen
  /\ n[0] = IF top = 0 THEN 0 ELSE 1
  /\ m[0] = 1
  /\ \A j \in 1 .. top - 1 : m[j] = n[j]
  /\ top > 0 => n[top] % 2 = 1 /\ m[top] = 2 * n[top - 1]
  /\ \A j \in top + 1 .. len : n[j] = 2 * n[j - 1] /\ m[j] = n[j] + 1
  /\ \A j \in len + 1 .. bot : n[j] = 2 * n[j - 1] /\ m[j] = 2 * m[j - 1]
  /\ \A j \in bot + 1 .. WordLen : m[j] = n[j]
  /\ bot < WordLen => n[bot + 1] # 2 * n[bot]

\* Where a depth lies.
LEMMA TakesCases ==
  ASSUME NEW n, NEW m, NEW top, NEW len, NEW bot, Takes(n, m, top, len, bot)
  PROVE  /\ WordLen \in Nat /\ top \in Depths /\ len \in Depths /\ bot \in Depths
         /\ top <= len /\ len <= bot /\ bot <= WordLen /\ len >= 1
         /\ Depths = {0} \union (1 .. top - 1) \union ({top} \ {0})
                       \union (top + 1 .. len) \union (len + 1 .. bot)
                       \union (bot + 1 .. WordLen)
<1>1. WordLen \in Nat /\ len \in 1 .. WordLen /\ top \in 0 .. len /\ bot \in len .. WordLen
  BY CodebookAssumption DEF Takes, Lengths
<1>2. ASSUME NEW j \in 0 .. WordLen
      PROVE  \/ j = 0 \/ j \in 1 .. top - 1 \/ j = top
             \/ j \in top + 1 .. len \/ j \in len + 1 .. bot \/ j \in bot + 1 .. WordLen
  BY <1>1
<1>3. /\ 0 \in 0 .. WordLen /\ top \in 0 .. WordLen /\ len \in 0 .. WordLen
      /\ bot \in 0 .. WordLen
      /\ 1 .. top - 1 \subseteq 0 .. WordLen /\ top + 1 .. len \subseteq 0 .. WordLen
      /\ len + 1 .. bot \subseteq 0 .. WordLen /\ bot + 1 .. WordLen \subseteq 0 .. WordLen
      /\ top <= len /\ len <= bot /\ bot <= WordLen /\ len >= 1
  BY <1>1
<1>4. Depths = 0 .. WordLen
  BY DEF Depths
<1>5. ASSUME NEW j
      PROVE  j \in Depths <=> j \in {0} \union (1 .. top - 1) \union ({top} \ {0})
                                   \union (top + 1 .. len) \union (len + 1 .. bot)
                                   \union (bot + 1 .. WordLen)
  BY <1>2, <1>3, <1>4, Zenon
<1> QED
  BY <1>1, <1>3, <1>4, <1>5

\* The free nodes only move to the right.
LEMMA TakesGrows ==
  ASSUME NEW n, MarksOK(n), NEW m, NEW top, NEW len, NEW bot,
         Takes(n, m, top, len, bot)
  PROVE  /\ \A j \in Depths : n[j] \in Nat /\ m[j] \in Nat /\ n[j] <= m[j]
         /\ \A j \in top .. bot : n[j] < m[j]
         /\ \A j \in top .. len : n[j] + 1 <= Power[j]
<1>0. /\ WordLen \in Nat /\ top \in Depths /\ len \in Depths /\ bot \in Depths
      /\ top <= len /\ len <= bot /\ bot <= WordLen
  BY TakesCases
<1>1. \A j \in Depths : n[j] \in Nat /\ m[j] \in Nat
  BY DEF MarksOK, Takes
<1>2. n[top] < m[top] /\ n[top] + 1 <= Power[top]
  <2>1. CASE top = 0
    BY <2>1, Powers DEF Takes
  <2>2. CASE top # 0
    <3>1. top \in Lengths /\ top - 1 \in Depths /\ n[top] % 2 = 1 /\ m[top] = 2 * n[top - 1]
      BY <1>0, <2>2 DEF Takes, Lengths, Depths
    <3>2. n[top] < 2 * n[top - 1]
      <4>1. n[top] = 2 * n[top - 1] \/ (n[top] % 2 = 1 /\ n[top] < 2 * n[top - 1])
        BY <3>1 DEF MarksOK
      <4> QED
        BY <1>0, <1>1, <3>1, <4>1
    <3>3. n[top - 1] <= Power[top - 1] /\ Power[top] = 2 * Power[top - 1]
          /\ Power[top - 1] \in Nat
      BY <3>1, Powers DEF MarksOK, Lengths, Depths
    <3> QED
      BY <1>0, <1>1, <3>1, <3>2, <3>3
  <2> QED
    BY <2>1, <2>2
<1>3. ASSUME NEW j \in top .. len PROVE n[j] + 1 <= Power[j]
  <2> DEFINE G == {k \in top .. len : n[k] + 1 <= Power[k]}
  <2>1. top \in G
    BY <1>0, <1>2 DEF Depths
  <2>2. ASSUME NEW k \in top + 1 .. len, k - 1 \in G PROVE k \in G
    <3>1. n[k] = 2 * n[k - 1] /\ n[k - 1] + 1 <= Power[k - 1]
      BY <2>2 DEF Takes
    <3>2. k \in 1 .. WordLen /\ k - 1 \in Depths /\ k \in top .. len
      BY <1>0 DEF Depths
    <3>3. Power[k] = 2 * Power[k - 1] /\ Power[k - 1] \in Nat
      BY <3>2, Powers DEF Depths
    <3> QED
      BY <1>1, <3>1, <3>2, <3>3
  <2> HIDE DEF G
  <2>3. \A k \in top .. len : k \in G
    BY <1>0, <2>1, <2>2, UpTo DEF Depths
  <2> QED
    BY <2>3 DEF G
<1>4. ASSUME NEW j \in top .. bot PROVE n[j] < m[j]
  <2> DEFINE G == {k \in top .. bot : n[k] < m[k]}
  <2>1. top \in G
    BY <1>0, <1>2 DEF Depths
  <2>2. ASSUME NEW k \in top + 1 .. bot, k - 1 \in G PROVE k \in G
    <3>1. k \in Depths /\ k - 1 \in Depths /\ k \in top .. bot
          /\ (k \in top + 1 .. len \/ k \in len + 1 .. bot)
      BY <1>0 DEF Depths
    <3>2. n[k] = 2 * n[k - 1] /\ (m[k] = n[k] + 1 \/ m[k] = 2 * m[k - 1])
      BY <3>1 DEF Takes
    <3> QED
      BY <1>1, <2>2, <3>1, <3>2
  <2> HIDE DEF G
  <2>3. \A k \in top .. bot : k \in G
    BY <1>0, <2>1, <2>2, UpTo DEF Depths
  <2> QED
    BY <2>3 DEF G
<1>5. ASSUME NEW j \in Depths PROVE n[j] <= m[j]
  <2>1. CASE j = 0
    BY <2>1 DEF Takes
  <2>2. CASE j \in 1 .. top - 1 \/ j \in bot + 1 .. WordLen
    <3>1. m[j] = n[j]
      BY <2>2 DEF Takes
    <3> QED
      BY <1>1, <3>1
  <2>3. CASE j \in top .. bot
    BY <1>1, <1>4, <2>3
  <2> QED
    BY <1>0, <2>1, <2>2, <2>3 DEF Depths
<1> QED
  BY <1>1, <1>3, <1>4, <1>5

LEMMA TakesOK ==
  ASSUME NEW n, MarksOK(n), NEW m, NEW top, NEW len, NEW bot,
         Takes(n, m, top, len, bot)
  PROVE  MarksOK(m)
<1>0. /\ WordLen \in Nat /\ top \in Depths /\ len \in Depths /\ bot \in Depths
      /\ top <= len /\ len <= bot /\ bot <= WordLen
  BY TakesCases
<1>1. \A j \in Depths : n[j] \in Nat /\ m[j] \in Nat /\ n[j] <= m[j] /\ Power[j] \in Nat
  BY TakesGrows, Powers DEF Depths
<1>2. \A j \in Lengths : j \in Depths /\ j - 1 \in Depths /\ Power[j] = 2 * Power[j - 1]
  BY <1>0, Powers DEF Depths, Lengths
<1>3. ASSUME NEW j \in Lengths
      PROVE  m[j] = 2 * m[j - 1] \/ (m[j] % 2 = 1 /\ m[j] < 2 * m[j - 1])
  <2>0. /\ j \in Depths /\ j - 1 \in Depths
        /\ n[j] = 2 * n[j - 1] \/ (n[j] % 2 = 1 /\ n[j] < 2 * n[j - 1])
    BY <1>2 DEF MarksOK
  <2>1. CASE j \in 1 .. top - 1
    <3>1. m[j] = n[j] /\ top # 0
      BY <1>0, <2>1 DEF Takes, Depths
    <3>2. m[j - 1] = n[j - 1]
      <4>1. j - 1 = 0 \/ j - 1 \in 1 .. top - 1
        BY <1>0, <2>1 DEF Depths
      <4> QED
        BY <3>1, <4>1 DEF Takes
    <3> QED
      BY <2>0, <3>1, <3>2
  <2>2. CASE j = top
    <3>1. m[j] = 2 * n[j - 1] /\ m[j - 1] = n[j - 1]
      BY <1>0, <2>0, <2>2 DEF Takes, Depths, Lengths
    <3> QED
      BY <3>1
  <2>3. CASE j \in top + 1 .. len
    <3>1. n[j] = 2 * n[j - 1] /\ m[j] = n[j] + 1
      BY <2>3 DEF Takes
    <3>2. n[j - 1] < m[j - 1]
      <4>1. j - 1 \in top .. bot
        BY <1>0, <2>3 DEF Depths
      <4> QED
        BY <4>1, TakesGrows
    <3> QED
      BY <1>1, <2>0, <3>1, <3>2
  <2>4. CASE j \in len + 1 .. bot
    BY <2>4 DEF Takes
  <2>5. CASE j \in bot + 1 .. WordLen
    <3>1. m[j] = n[j]
      BY <2>5 DEF Takes
    <3>2. CASE j = bot + 1
      <4>1. n[j] # 2 * n[j - 1]
        <5>1. bot < WordLen /\ j - 1 = bot
          BY <1>0, <2>5, <3>2 DEF Depths
        <5> QED
          BY <3>2, <5>1 DEF Takes
      <4> QED
        BY <1>1, <2>0, <3>1, <4>1
    <3>3. CASE j # bot + 1
      <4>1. j - 1 \in bot + 1 .. WordLen
        BY <1>0, <2>5, <3>3 DEF Depths
      <4>2. m[j - 1] = n[j - 1]
        BY <4>1 DEF Takes
      <4> QED
        BY <2>0, <3>1, <4>2
    <3> QED
      BY <3>2, <3>3
  <2> QED
    BY <1>0, <2>1, <2>2, <2>3, <2>4, <2>5 DEF Depths, Lengths
<1>4. ASSUME NEW j \in Depths PROVE m[j] <= Power[j]
  <2> DEFINE G == {k \in Depths : m[k] <= Power[k]}
  <2>1. 0 \in G
    BY <1>0, Powers DEF Takes, Depths
  <2>2. ASSUME NEW k \in 0 + 1 .. WordLen, k - 1 \in G PROVE k \in G
    <3>1. k \in Lengths /\ m[k - 1] <= Power[k - 1] /\ m[k] <= 2 * m[k - 1]
      BY <1>1, <1>2, <1>3, <2>2 DEF Lengths
    <3> QED
      BY <1>1, <1>2, <3>1
  <2> HIDE DEF G
  <2>3. \A k \in 0 .. WordLen : k \in G
    BY <1>0, <2>1, <2>2, UpTo
  <2> QED
    BY <2>3 DEF G, Depths
<1> QED
  BY <1>3, <1>4 DEF MarksOK, Takes

\* Shifts add up.
LEMMA ShiftsAdd ==
  ASSUME NEW x \in Nat, NEW a \in 0 .. WordLen, NEW b \in 0 .. WordLen,
         a + b \in 0 .. WordLen
  PROVE  Above(Above(x, a), b) = Above(x, a + b)
<1>1. WordLen \in Nat
  BY CodebookAssumption
<1> DEFINE y == Above(x, a)
           G == {k \in 0 .. b : Above(y, k) = Above(x, a + k)}
<1>2. y \in Nat
  BY Shifts
<1>3. 0 \in G
  BY <1>2, Shifts
<1>4. ASSUME NEW k \in 0 + 1 .. b, k - 1 \in G PROVE k \in G
  <2>1. k \in 1 .. WordLen /\ a + k \in 1 .. WordLen /\ (a + k) - 1 = a + (k - 1)
    BY <1>1
  <2>2. Above(y, k) = Above(y, k - 1) \div 2 /\ Above(x, a + k) = Above(x, (a + k) - 1) \div 2
    <3> HIDE DEF y
    <3> QED
      BY <1>2, <2>1, Shifts
  <2>3. Above(y, k - 1) = Above(x, a + (k - 1))
    BY <1>4
  <2> QED
    BY <2>1, <2>2, <2>3
<1> HIDE DEF G
<1>5. \A k \in 0 .. b : k \in G
  BY <1>3, <1>4, UpTo
<1> QED
  BY <1>5 DEF G

(***************************************************************************)
(* The node of an entry is not free, nor is any below it.                  *)
(***************************************************************************)
IsTaken(e, n) ==
  /\ e.len \in Lengths /\ e.codeword \in Nat
  /\ e.codeword < n[e.len]
  /\ \A j \in e.len + 1 .. WordLen : Above(n[j], j - e.len) # e.codeword

\* If the free node of depth k is the left half of the one above, it is as free.
LEMMA LeftHalf ==
  ASSUME NEW e, e.len \in Lengths, e.codeword \in Nat,
         NEW k \in e.len + 1 .. WordLen, NEW x \in Nat,
         IF k - 1 = e.len THEN e.codeword < x ELSE Above(x, (k - 1) - e.len) # e.codeword
  PROVE  Above(2 * x, k - e.len) # e.codeword
<1>1. WordLen \in Nat /\ k - e.len \in 1 .. WordLen /\ 2 * x \in Nat /\ (2 * x) \div 2 = x
  BY CodebookAssumption DEF Lengths
<1>2. Above(2 * x, k - e.len) = Above(x, (k - e.len) - 1)
  BY <1>1, Shifts
<1>3. CASE k - 1 = e.len
  <2>1. (k - e.len) - 1 = 0
    BY <1>3 DEF Lengths
  <2> QED
    BY <1>2, <1>3, <2>1, Shifts
<1>4. CASE k - 1 # e.len
  <2>1. (k - e.len) - 1 = (k - 1) - e.len
    BY DEF Lengths
  <2> QED
    BY <1>2, <1>4, <2>1
<1> QED
  BY <1>3, <1>4

LEMMA TakenStays ==
  ASSUME NEW n, MarksOK(n), NEW m, NEW top, NEW len, NEW bot,
         Takes(n, m, top, len, bot), NEW e, IsTaken(e, n)
  PROVE  IsTaken(e, m)
<1>0. /\ WordLen \in Nat /\ top \in Depths /\ len \in Depths /\ bot \in Depths
      /\ top <= len /\ len <= bot /\ bot <= WordLen
  BY TakesCases
<1>1. \A j \in Depths : n[j] \in Nat /\ m[j] \in Nat /\ n[j] <= m[j]
  BY TakesGrows
<1>2. e.len \in Lengths /\ e.len \in Depths /\ e.codeword \in Nat /\ e.codeword < n[e.len]
  BY <1>0 DEF IsTaken, Lengths, Depths
<1>3. e.codeword < m[e.len]
  BY <1>1, <1>2
<1> DEFINE G == {k \in Depths : k = e.len \/ Above(m[k], k - e.len) # e.codeword}
<1>4. e.len \in G
  BY <1>2
<1>5. ASSUME NEW k \in e.len + 1 .. WordLen, k - 1 \in G PROVE k \in G
  <2>0. /\ k \in Depths /\ k \in Lengths /\ k - 1 \in Depths /\ k # 0 /\ k # e.len
        /\ k - e.len \in 1 .. WordLen
    BY <1>0, <1>2 DEF Lengths, Depths
  <2>1. Above(n[k], k - e.len) # e.codeword
    BY DEF IsTaken
  <2>2. k - 1 # e.len => Above(n[k - 1], (k - 1) - e.len) # e.codeword
    <3>1. k - 1 # e.len => k - 1 \in e.len + 1 .. WordLen
      BY <1>2, <2>0 DEF Depths
    <3> QED
      BY <3>1 DEF IsTaken
  <2>3. k - 1 = e.len => e.codeword < n[k - 1] /\ e.codeword < m[k - 1]
    BY <1>2, <1>3
  <2>4. k - 1 # e.len => Above(m[k - 1], (k - 1) - e.len) # e.codeword
    BY <1>5
  <2>5. CASE k \in 1 .. top - 1 \/ k \in bot + 1 .. WordLen
    <3>1. m[k] = n[k]
      BY <2>5 DEF Takes
    <3> QED
      BY <2>0, <2>1, <3>1
  <2>6. CASE k = top
    <3>1. m[k] = 2 * n[k - 1]
      BY <1>0, <2>0, <2>6 DEF Takes, Depths
    <3>2. Above(2 * n[k - 1], k - e.len) # e.codeword
      BY <1>1, <1>2, <2>0, <2>2, <2>3, LeftHalf
    <3> QED
      BY <2>0, <3>1, <3>2
  <2>7. CASE k \in top + 1 .. len
    <3>1. m[k] = n[k] + 1 /\ n[k] = 2 * n[k - 1]
      BY <2>7 DEF Takes
    <3>2. m[k] \div 2 = n[k] \div 2
      BY <1>1, <2>0, <3>1
    <3>3. Above(m[k], k - e.len) = Above(n[k], k - e.len)
      BY <1>1, <2>0, <3>2, Shifts
    <3> QED
      BY <2>0, <2>1, <3>3
  <2>8. CASE k \in len + 1 .. bot
    <3>1. m[k] = 2 * m[k - 1]
      BY <2>8 DEF Takes
    <3>2. Above(2 * m[k - 1], k - e.len) # e.codeword
      BY <1>1, <1>2, <2>0, <2>3, <2>4, LeftHalf
    <3> QED
      BY <2>0, <3>1, <3>2
  <2> QED
    BY <1>0, <2>0, <2>5, <2>6, <2>7, <2>8 DEF Depths
<1> HIDE DEF G
<1>6. \A k \in e.len .. WordLen : k \in G
  <2>1. e.len \in Int /\ WordLen \in Int
    BY <1>0, <1>2 DEF Lengths
  <2>2. \A k \in e.len + 1 .. WordLen : k - 1 \in G => k \in G
    BY <1>5
  <2> QED
    BY <1>4, <2>1, <2>2, UpTo
<1>7. ASSUME NEW j \in e.len + 1 .. WordLen
      PROVE  Above(m[j], j - e.len) # e.codeword
  <2>1. j \in e.len .. WordLen /\ j # e.len
    BY <1>2 DEF Lengths
  <2> QED
    BY <1>6, <2>1 DEF G
<1> QED
  BY <1>2, <1>3, <1>7 DEF IsTaken

\* The node that is taken is not free any more.
LEMMA NewIsTaken ==
  ASSUME NEW n, MarksOK(n), NEW m, NEW top, NEW len, NEW bot,
         Takes(n, m, top, len, bot), NEW e, e.len = len, e.codeword = n[len]
  PROVE  IsTaken(e, m)
<1>0. /\ WordLen \in Nat /\ top \in Depths /\ len \in Depths /\ bot \in Depths
      /\ top <= len /\ len <= bot /\ bot <= WordLen /\ len \in Lengths
  <2>1. len \in Lengths
    BY DEF Takes
  <2> QED
    BY <2>1, TakesCases
<1>1. \A j \in Depths : n[j] \in Nat /\ m[j] \in Nat
  BY TakesGrows
<1>2. n[len] < m[len]
  BY <1>0, TakesGrows DEF Depths
<1>3. ASSUME NEW j \in len + 1 .. bot PROVE Above(m[j], j - len) # n[len]
  <2> DEFINE G == {k \in Depths : k = len \/ Above(m[k], k - len) # n[len]}
  <2>1. len \in G
    BY <1>0
  <2>2. ASSUME NEW k \in len + 1 .. bot, k - 1 \in G PROVE k \in G
    <3>1. k \in Depths /\ k - 1 \in Depths /\ k \in len + 1 .. WordLen /\ k # len
      BY <1>0 DEF Depths
    <3>2. m[k] = 2 * m[k - 1]
      BY DEF Takes
    <3>3. k - 1 = len => e.codeword < m[k - 1]
      BY <1>2
    <3>4. k - 1 # len => Above(m[k - 1], (k - 1) - len) # e.codeword
      BY <2>2
    <3>5. Above(2 * m[k - 1], k - e.len) # e.codeword
      BY <1>0, <1>1, <3>1, <3>3, <3>4, LeftHalf
    <3> QED
      BY <3>1, <3>2, <3>5
  <2> HIDE DEF G
  <2>3. \A k \in len .. bot : k \in G
    BY <1>0, <2>1, <2>2, UpTo DEF Depths
  <2>4. j \in len .. bot /\ j # len
    BY <1>0 DEF Depths
  <2> QED
    BY <2>3, <2>4 DEF G
<1>4. ASSUME NEW j \in bot + 1 .. WordLen PROVE Above(m[j], j - len) # n[len]
  <2> DEFINE a == bot + 1
             x == Above(n[j], j - a)
             y == x \div 2
  <2>1. a \in Lengths /\ a \in Depths /\ a - 1 = bot /\ j \in Depths /\ a \in 0 .. j
        /\ j - a \in Depths /\ bot < WordLen
    BY <1>0 DEF Lengths, Depths
  <2>2. x <= n[a] /\ x \in Nat
    <3>1. n[j] \in Nat /\ n[j] <= n[j]
      BY <1>1, <2>1
    <3>2. \A i \in 0 .. j : Above(n[j], j - i) <= n[i]
      BY <2>1, <3>1, LeftOf
    <3>3. Above(n[j], j - a) \in Nat
      BY <2>1, <3>1, Shifts DEF Depths
    <3> QED
      BY <2>1, <3>2, <3>3
  <2>3. n[a] % 2 = 1 /\ n[a] < 2 * n[bot]
    <3>1. n[a] # 2 * n[bot]
      BY <2>1 DEF Takes
    <3>2. n[a] = 2 * n[a - 1] \/ (n[a] % 2 = 1 /\ n[a] < 2 * n[a - 1])
      BY <2>1 DEF MarksOK
    <3> QED
      BY <2>1, <3>1, <3>2
  <2>4. y < n[bot] /\ y \in Nat
    BY <1>0, <1>1, <2>1, <2>2, <2>3
  <2>5. y = Above(n[j], j - bot)
    <3>1. j - bot \in 1 .. WordLen /\ (j - bot) - 1 = j - a
      BY <1>0, <2>1 DEF Depths
    <3> QED
      BY <1>1, <2>1, <3>1, Shifts
  <2> HIDE DEF x, y
  <2>6. Above(y, bot - len) < n[len]
    BY <1>0, <2>4, LeftOf DEF Depths
  <2>7. Above(y, bot - len) = Above(n[j], j - len)
    <3>1. j - bot \in Depths /\ bot - len \in Depths /\ (j - bot) + (bot - len) = j - len
          /\ j - len \in Depths
      BY <1>0, <2>1 DEF Depths
    <3>2. n[j] \in Nat
      BY <1>1, <2>1
    <3>3. Above(Above(n[j], j - bot), bot - len) = Above(n[j], (j - bot) + (bot - len))
      BY <3>1, <3>2, ShiftsAdd DEF Depths
    <3> QED
      BY <2>5, <3>1, <3>3
  <2>8. m[j] = n[j]
    BY DEF Takes
  <2> QED
    BY <1>0, <1>1, <2>1, <2>4, <2>6, <2>7, <2>8, Shifts DEF Depths
<1> QED
  BY <1>0, <1>1, <1>2, <1>3, <1>4 DEF IsTaken, Depths

\* Neither of two codewords is the beginning of the other.
Apart(a, b) ==
  IF a.len <= b.len
  THEN a.codeword # Above(b.codeword, b.len - a.len)
  ELSE Above(a.codeword, a.len - b.len) # b.codeword

LEMMA NewIsApart ==
  ASSUME NEW n, MarksOK(n), NEW e, IsTaken(e, n),
         NEW f, f.len \in Lengths, f.codeword = n[f.len]
  PROVE  Apart(e, f)
<1>1. /\ e.len \in Lengths /\ f.len \in Lengths /\ WordLen \in Nat
      /\ e.len \in Depths /\ f.len \in Depths /\ e.codeword \in Nat
  BY CodebookAssumption DEF IsTaken, Lengths, Depths
<1>2. n[f.len] \in Nat /\ n[e.len] \in Nat /\ e.codeword < n[e.len]
  BY <1>1 DEF MarksOK, IsTaken
<1>3. CASE e.len = f.len
  <2>1. f.len - e.len = 0 /\ e.len <= f.len
    BY <1>1, <1>3 DEF Lengths
  <2>2. Above(f.codeword, 0) = n[e.len]
    BY <1>2, <1>3, Shifts
  <2> QED
    BY <1>2, <2>1, <2>2 DEF Apart
<1>4. CASE e.len < f.len
  <2>1. f.len \in e.len + 1 .. WordLen
    BY <1>1, <1>4 DEF Lengths
  <2> QED
    BY <1>1, <1>4, <2>1 DEF Apart, IsTaken, Lengths
<1>5. CASE e.len > f.len
  <2>1. Above(e.codeword, e.len - f.len) < n[f.len]
    BY <1>1, <1>2, <1>5, LeftOf DEF Lengths
  <2>2. Above(e.codeword, e.len - f.len) \in Nat
    <3>1. e.len - f.len \in 0 .. WordLen
      BY <1>1, <1>5 DEF Lengths
    <3> QED
      BY <1>1, <3>1, Shifts
  <2> QED
    BY <1>1, <1>2, <1>5, <2>1, <2>2 DEF Apart, Lengths
<1> QED
  BY <1>1, <1>3, <1>4, <1>5 DEF Lengths

-----------------------------------------------------------------------------
(* What is free                                                            *)

\* A free block of depth j: the root at first, and right halves later.
IsFree(n, j) == IF j = 0 THEN n[0] = 0 ELSE n[j] % 2 = 1

\* The word v lies in such a block.
InFree(v, n) == \E j \in Depths : IsFree(n, j) /\ Above(v, WordLen - j) = n[j]

\* A block that is not free any more was the one at depth top.
LEMMA FreeStays ==
  ASSUME NEW n, MarksOK(n), NEW m, NEW top, NEW len, NEW bot,
         Takes(n, m, top, len, bot), NEW j \in Depths
  PROVE  /\ IsFree(n, top) /\ ~IsFree(m, top)
         /\ j \in top + 1 .. len => ~IsFree(n, j) /\ IsFree(m, j)
         /\ j \in len + 1 .. bot => ~IsFree(n, j) /\ ~IsFree(m, j)
         /\ j \in 0 .. top - 1 \/ j \in bot + 1 .. WordLen =>
              m[j] = n[j] /\ (IsFree(m, j) <=> IsFree(n, j))
<1>0. /\ WordLen \in Nat /\ top \in Depths /\ len \in Depths /\ bot \in Depths
      /\ top <= len /\ len <= bot /\ bot <= WordLen
  BY TakesCases
<1>1. \A k \in Depths : n[k] \in Nat /\ m[k] \in Nat
  BY TakesGrows
<1>2. IsFree(n, top) /\ ~IsFree(m, top)
  <2>1. CASE top = 0
    BY <2>1 DEF Takes, IsFree
  <2>2. CASE top # 0
    <3>1. n[top] % 2 = 1 /\ m[top] = 2 * n[top - 1] /\ top - 1 \in Depths
      BY <1>0, <2>2 DEF Takes, Depths
    <3> QED
      BY <1>1, <2>2, <3>1 DEF IsFree
  <2> QED
    BY <2>1, <2>2
<1>3. ASSUME j \in top + 1 .. len PROVE ~IsFree(n, j) /\ IsFree(m, j)
  <2>1. n[j] = 2 * n[j - 1] /\ m[j] = n[j] + 1 /\ j # 0 /\ j - 1 \in Depths
    BY <1>0, <1>3, SMTT(30) DEF Takes, Depths
  <2> QED
    BY <1>1, <2>1 DEF IsFree
<1>4. ASSUME j \in len + 1 .. bot PROVE ~IsFree(n, j) /\ ~IsFree(m, j)
  <2>1. n[j] = 2 * n[j - 1] /\ m[j] = 2 * m[j - 1] /\ j # 0 /\ j - 1 \in Depths
    BY <1>0, <1>4 DEF Takes, Depths
  <2> QED
    BY <1>1, <2>1 DEF IsFree
<1>5. ASSUME j \in 0 .. top - 1 \/ j \in bot + 1 .. WordLen
      PROVE  m[j] = n[j] /\ (IsFree(m, j) <=> IsFree(n, j))
  <2>1. m[j] = n[j]
    <3>1. j = 0 => top # 0
      BY <1>0, <1>5 DEF Depths
    <3>2. j # 0 => j \in 1 .. top - 1 \/ j \in bot + 1 .. WordLen
      BY <1>0, <1>5 DEF Depths
    <3> QED
      BY <3>1, <3>2 DEF Takes
  <2>2. j = 0 => m[0] = n[0]
    BY <2>1
  <2> QED
    BY <2>1, <2>2 DEF IsFree
<1> QED
  BY <1>2, <1>3, <1>4, <1>5

\* A word that was free still is, or lies below the node that is taken.
LEMMA FreeOrTaken ==
  ASSUME NEW n, MarksOK(n), NEW m, NEW top, NEW len, NEW bot,
         Takes(n, m, top, len, bot), NEW v \in Nat, InFree(v, n)
  PROVE  InFree(v, m) \/ Above(v, WordLen - len) = n[len]
<1>0. /\ WordLen \in Nat /\ top \in Depths /\ len \in Depths /\ bot \in Depths
      /\ top <= len /\ len <= bot /\ bot <= WordLen
  BY TakesCases
<1>1. \A k \in Depths : n[k] \in Nat /\ m[k] \in Nat
  BY TakesGrows
<1>2. PICK j \in Depths : IsFree(n, j) /\ Above(v, WordLen - j) = n[j]
  BY DEF InFree
<1>3. CASE j # top
  <2>1. j \in 0 .. top - 1 \/ j \in bot + 1 .. WordLen
    <3>1. j \notin top + 1 .. len /\ j \notin len + 1 .. bot
      BY <1>2, FreeStays
    <3> QED
      BY <1>0, <1>3, <3>1 DEF Depths
  <2>2. m[j] = n[j] /\ IsFree(m, j)
    BY <1>2, <2>1, FreeStays
  <2> QED
    BY <1>2, <2>2 DEF InFree
<1>4. CASE j = top
  <2> DEFINE G == {k \in Depths : InFree(v, m) \/ Above(v, WordLen - k) = n[k]}
  <2>1. top \in G
    BY <1>2, <1>4
  <2>2. ASSUME NEW k \in top + 1 .. len, k - 1 \in G PROVE k \in G
    <3>1. k \in Depths /\ k - 1 \in Depths /\ WordLen - (k - 1) \in 1 .. WordLen
          /\ (WordLen - (k - 1)) - 1 = WordLen - k /\ WordLen - k \in 0 .. WordLen
      BY <1>0 DEF Depths
    <3>2. SUFFICES ASSUME ~InFree(v, m) PROVE Above(v, WordLen - k) = n[k]
      BY <3>1
    <3>3. Above(v, WordLen - (k - 1)) = n[k - 1]
      BY <2>2, <3>2
    <3> DEFINE x == Above(v, WordLen - k)
    <3>4. x \in Nat /\ x \div 2 = n[k - 1]
      BY <3>1, <3>3, Shifts
    <3>5. n[k] = 2 * n[k - 1] /\ m[k] = n[k] + 1
      BY DEF Takes
    <3>6. x # m[k]
      <4>1. IsFree(m, k)
        BY <3>1, FreeStays
      <4> QED
        BY <3>1, <3>2, <4>1 DEF InFree
    <3> HIDE DEF x
    <3>7. x = n[k]
      BY <1>1, <3>1, <3>4, <3>5, <3>6
    <3> QED
      BY <3>7 DEF x
  <2> HIDE DEF G
  <2>3. \A k \in top .. len : k \in G
    <3>1. top \in Int /\ len \in Int
      BY <1>0 DEF Depths
    <3> QED
      BY <2>1, <2>2, <3>1, UpTo
  <2>4. len \in G
    BY <1>0, <2>3 DEF Depths
  <2> QED
    BY <2>4 DEF G
<1> QED
  BY <1>3, <1>4

(***************************************************************************)
(* f[k] is how much of the tree is free in blocks of a depth up to k.      *)
(***************************************************************************)
Size(n, j) == IF IsFree(n, j) THEN Power[WordLen - j] ELSE 0

IsSum(f, n) ==
  /\ f \in [Depths -> Nat]
  /\ f[0] = Size(n, 0)
  /\ \A k \in Lengths : f[k] = f[k - 1] + Size(n, k)

LEMMA SizeType ==
  ASSUME NEW n, NEW j \in Depths
  PROVE  Size(n, j) \in Nat /\ WordLen - j \in Depths
BY CodebookAssumption, Powers DEF Size, Depths

LEMMA SumExists ==
  ASSUME NEW n
  PROVE  \E f : IsSum(f, n)
<1> DEFINE g == [kx \in (1 .. WordLen) \X Nat |-> kx[2] + Size(n, kx[1])]
           base == Size(n, 0)
<1>1. WordLen \in Nat /\ base \in Nat /\ g \in [(1 .. WordLen) \X Nat -> Nat]
  <2>1. WordLen \in Nat
    BY CodebookAssumption
  <2>2. \A k \in 0 .. WordLen : Size(n, k) \in Nat
    BY SizeType DEF Depths
  <2> QED
    BY <2>1, <2>2
<1> HIDE DEF base
<1>2. PICK f \in [0 .. WordLen -> Nat] :
         f[0] = base /\ \A k \in 1 .. WordLen : f[k] = g[<<k, f[k - 1]>>]
  <2> HIDE DEF g
  <2>1. HasSeries(Nat, g, base, WordLen)
    BY <1>1, SeriesExists
  <2> QED
    BY <2>1 DEF HasSeries
<1>3. ASSUME NEW k \in Lengths PROVE f[k] = f[k - 1] + Size(n, k)
  <2>1. k \in 1 .. WordLen /\ k - 1 \in 0 .. WordLen
    BY <1>1 DEF Lengths
  <2>2. f[k - 1] \in Nat
    BY <1>2, <2>1
  <2> QED
    BY <1>2, <2>1, <2>2
<1> QED
  BY <1>2, <1>3 DEF IsSum, Depths, base

\* The share of the new codeword is what is free no longer.
LEMMA SumStays ==
  ASSUME NEW n, MarksOK(n), NEW m, NEW top, NEW len, NEW bot,
         Takes(n, m, top, len, bot), NEW f, IsSum(f, n), NEW g, IsSum(g, m)
  PROVE  f[WordLen] = g[WordLen] + Power[WordLen - len]
<1>0. /\ WordLen \in Nat /\ top \in Depths /\ len \in Depths /\ bot \in Depths
      /\ top <= len /\ len <= bot /\ bot <= WordLen
  BY TakesCases
<1>1. /\ \A k \in Depths : f[k] \in Nat /\ g[k] \in Nat
                           /\ WordLen - k \in Depths /\ Power[WordLen - k] \in Nat
      /\ \A k \in Depths : k # 0 => k \in Lengths /\ k - 1 \in Depths
                             /\ Power[WordLen - (k - 1)] = 2 * Power[WordLen - k]
  <2>1. \A k \in Depths : f[k] \in Nat /\ g[k] \in Nat
    BY DEF IsSum
  <2>2. ASSUME NEW k \in Depths
        PROVE  WordLen - k \in Depths /\ Power[WordLen - k] \in Nat
    <3>1. WordLen - k \in 0 .. WordLen
      BY <1>0 DEF Depths
    <3> QED
      BY <3>1, Powers DEF Depths
  <2>3. ASSUME NEW k \in Depths, k # 0
        PROVE  k \in Lengths /\ k - 1 \in Depths
                 /\ Power[WordLen - (k - 1)] = 2 * Power[WordLen - k]
    <3>1. WordLen - (k - 1) \in 1 .. WordLen /\ (WordLen - (k - 1)) - 1 = WordLen - k
      BY <1>0, <2>3 DEF Depths
    <3>2. Power[WordLen - (k - 1)] = 2 * Power[WordLen - k]
      BY <3>1, Powers
    <3> QED
      BY <1>0, <2>3, <3>2 DEF Depths, Lengths
  <2> QED
    BY <2>1, <2>2, <2>3
<1>2. \A k \in Depths : k # 0 => f[k] = f[k - 1] + Size(n, k) /\ g[k] = g[k - 1] + Size(m, k)
  BY <1>1 DEF IsSum
<1>3. f[0] = Size(n, 0) /\ g[0] = Size(m, 0)
  BY DEF IsSum
<1> DEFINE Lost(k) == IF k < top THEN 0
                      ELSE IF k <= len THEN Power[WordLen - k] ELSE Power[WordLen - len]
           G == {k \in Depths : f[k] = g[k] + Lost(k)}
<1>4. 0 \in G
  <2>1. 0 \in Depths
    BY <1>0 DEF Depths
  <2>2. CASE top = 0
    <3>1. IsFree(n, 0) /\ ~IsFree(m, 0)
      BY <2>1, <2>2, FreeStays
    <3>2. f[0] = Power[WordLen - 0] /\ g[0] = 0
      BY <1>3, <3>1 DEF Size
    <3> QED
      BY <1>0, <1>1, <2>1, <2>2, <3>2 DEF Depths
  <2>3. CASE top # 0
    <3>1. 0 \in 0 .. top - 1 /\ 0 < top
      BY <1>0, <2>3 DEF Depths
    <3>2. IsFree(n, 0) <=> IsFree(m, 0)
      BY <2>1, <3>1, FreeStays
    <3> QED
      BY <1>1, <1>3, <2>1, <3>1, <3>2 DEF Size
  <2> QED
    BY <2>2, <2>3
<1>5. ASSUME NEW k \in 0 + 1 .. WordLen, k - 1 \in G PROVE k \in G
  <2>0. /\ k \in Depths /\ k # 0 /\ k - 1 \in Depths
        /\ f[k] = f[k - 1] + Size(n, k) /\ g[k] = g[k - 1] + Size(m, k)
        /\ f[k - 1] = g[k - 1] + Lost(k - 1)
    <3>1. k \in Depths /\ k # 0
      BY <1>0 DEF Depths
    <3> QED
      BY <1>1, <1>2, <1>5, <3>1
  <2>1. CASE k \in 0 .. top - 1 \/ k \in bot + 1 .. WordLen
    <3>1. Size(n, k) = Size(m, k)
      <4>1. IsFree(m, k) <=> IsFree(n, k)
        BY <2>0, <2>1, FreeStays
      <4> QED
        BY <4>1 DEF Size
    <3>2. Lost(k) = Lost(k - 1)
      <4>1. CASE k \in 0 .. top - 1
        <5>1. k < top /\ k - 1 < top
          BY <1>0, <4>1 DEF Depths
        <5> QED
          BY <5>1
      <4>2. CASE k \in bot + 1 .. WordLen
        <5>1. ~(k < top) /\ ~(k <= len) /\ ~(k - 1 < top) /\ (k - 1 <= len => k - 1 = len)
          BY <1>0, <4>2 DEF Depths
        <5> QED
          BY <5>1
      <4> QED
        BY <2>1, <4>1, <4>2
    <3>3. Lost(k - 1) \in Nat /\ Size(n, k) \in Nat
      BY <1>0, <1>1, <2>0, SizeType DEF Depths
    <3> HIDE DEF Lost
    <3>4. f[k] = g[k] + Lost(k)
      BY <1>1, <2>0, <3>1, <3>2, <3>3
    <3> QED
      BY <2>0, <3>4
  <2>2. CASE k = top
    <3>1. IsFree(n, k) /\ ~IsFree(m, k)
      BY <2>0, <2>2, FreeStays
    <3>2. Size(n, k) = Power[WordLen - k] /\ Size(m, k) = 0
      BY <3>1 DEF Size
    <3>3. Lost(k - 1) = 0 /\ Lost(k) = Power[WordLen - k]
      BY <1>0, <2>0, <2>2 DEF Depths
    <3> HIDE DEF Lost
    <3>4. f[k] = g[k] + Lost(k)
      BY <1>1, <2>0, <3>2, <3>3
    <3> QED
      BY <2>0, <3>4
  <2>3. CASE k \in top + 1 .. len
    <3>1. ~IsFree(n, k) /\ IsFree(m, k)
      BY <2>0, <2>3, FreeStays
    <3>2. Size(n, k) = 0 /\ Size(m, k) = Power[WordLen - k]
      BY <3>1 DEF Size
    <3>3. Lost(k - 1) = Power[WordLen - (k - 1)] /\ Lost(k) = Power[WordLen - k]
      <4>1. ~(k < top) /\ k <= len /\ ~(k - 1 < top) /\ k - 1 <= len
        BY <1>0, <2>0, <2>3 DEF Depths
      <4> QED
        BY <4>1
    <3>4. Power[WordLen - (k - 1)] = 2 * Power[WordLen - k]
      BY <1>1, <2>0
    <3> HIDE DEF Lost
    <3>5. f[k] = g[k] + Lost(k)
      BY <1>1, <2>0, <3>2, <3>3, <3>4
    <3> QED
      BY <2>0, <3>5
  <2>4. CASE k \in len + 1 .. bot
    <3>1. ~IsFree(n, k) /\ ~IsFree(m, k)
      BY <2>0, <2>4, FreeStays
    <3>2. Size(n, k) = 0 /\ Size(m, k) = 0
      BY <3>1 DEF Size
    <3>3. Lost(k) = Lost(k - 1) /\ Lost(k) = Power[WordLen - len]
      <4>1. ~(k < top) /\ ~(k <= len) /\ ~(k - 1 < top) /\ (k - 1 <= len => k - 1 = len)
        BY <1>0, <2>0, <2>4 DEF Depths
      <4> QED
        BY <4>1
    <3> HIDE DEF Lost
    <3>4. f[k] = g[k] + Lost(k)
      BY <1>0, <1>1, <2>0, <3>2, <3>3
    <3> QED
      BY <2>0, <3>4
  <2> QED
    BY <1>0, <2>0, <2>1, <2>2, <2>3, <2>4 DEF Depths
<1> HIDE DEF G
<1>6. \A k \in 0 .. WordLen : k \in G
  <2>1. 0 \in Int /\ WordLen \in Int
    BY <1>0
  <2> QED
    BY <1>4, <1>5, <2>1, UpTo
<1>7. WordLen \in G
  BY <1>0, <1>6
<1>8. Lost(WordLen) = Power[WordLen - len]
  <2>1. ~(WordLen < top) /\ (WordLen <= len => WordLen = len)
    BY <1>0 DEF Depths
  <2> QED
    BY <2>1
<1> QED
  BY <1>7, <1>8 DEF G

-----------------------------------------------------------------------------
(* A tree that is full, and one that is not                                *)

\* If no node of a depth is left, none above it is.
LEMMA FullAbove ==
  ASSUME NEW n, MarksOK(n), NEW len \in Depths, n[len] = Power[len]
  PROVE  \A j \in 0 .. len : n[j] = Power[j] /\ ~IsFree(n, j)
<1>1. WordLen \in Nat /\ len \in 0 .. WordLen
  BY CodebookAssumption DEF Depths
<1> DEFINE G == {k \in 0 .. len : n[len - k] = Power[len - k]}
<1>2. 0 \in G
  BY <1>1
<1>3. ASSUME NEW k \in 0 + 1 .. len, k - 1 \in G PROVE k \in G
  <2> DEFINE j == len - (k - 1)
  <2>1. j \in Lengths /\ j - 1 = len - k /\ j - 1 \in Depths /\ j \in Depths /\ k \in 0 .. len
    BY <1>1 DEF Lengths, Depths
  <2>2. n[j] = Power[j]
    BY <1>3
  <2> HIDE DEF j
  <2>3. n[j] = 2 * n[j - 1] \/ (n[j] % 2 = 1 /\ n[j] < 2 * n[j - 1])
    BY <2>1 DEF MarksOK
  <2>4. Power[j] = 2 * Power[j - 1] /\ Power[j - 1] \in Nat /\ n[j - 1] \in Nat
    BY <2>1, Powers DEF MarksOK, Lengths, Depths
  <2>5. n[j - 1] = Power[j - 1]
    BY <2>2, <2>3, <2>4
  <2> QED
    BY <2>1, <2>5
<1> HIDE DEF G
<1>4. \A k \in 0 .. len : k \in G
  <2>1. 0 \in Int /\ len \in Int
    BY <1>1
  <2> QED
    BY <1>2, <1>3, <2>1, UpTo
<1>5. ASSUME NEW j \in 0 .. len PROVE n[j] = Power[j]
  <2>1. len - j \in 0 .. len /\ len - (len - j) = j
    BY <1>1
  <2>2. len - j \in G
    BY <1>4, <2>1
  <2> QED
    BY <2>1, <2>2 DEF G
<1>6. ASSUME NEW j \in 0 .. len PROVE ~IsFree(n, j)
  <2>1. CASE j = 0
    BY <1>5, <2>1, Powers DEF IsFree
  <2>2. CASE j # 0
    <3>1. j \in 1 .. WordLen /\ j - 1 \in 0 .. WordLen
      BY <1>1, <2>2
    <3>2. Power[j] = 2 * Power[j - 1] /\ Power[j - 1] \in Nat
      BY <3>1, Powers
    <3>3. n[j] = 2 * Power[j - 1]
      BY <1>5, <3>2
    <3> QED
      BY <2>2, <3>2, <3>3 DEF IsFree
  <2> QED
    BY <2>1, <2>2
<1> QED
  BY <1>5, <1>6

\* If nothing is free down to a depth, no node of these depths is left.
LEMMA FullBelow ==
  ASSUME NEW n, MarksOK(n), NEW len \in Depths,
         n[0] = 1, \A j \in 1 .. len : n[j] % 2 = 0
  PROVE  \A j \in 0 .. len : n[j] = Power[j]
<1>1. WordLen \in Nat /\ len \in 0 .. WordLen
  BY CodebookAssumption DEF Depths
<1> DEFINE G == {k \in Depths : n[k] = Power[k]}
<1>2. 0 \in G
  BY <1>1, Powers DEF Depths
<1>3. ASSUME NEW k \in 0 + 1 .. len, k - 1 \in G PROVE k \in G
  <2>1. k \in Lengths /\ k \in Depths /\ n[k - 1] = Power[k - 1] /\ Power[k] = 2 * Power[k - 1]
    BY <1>1, <1>3, Powers DEF Lengths, Depths
  <2>2. n[k] = 2 * n[k - 1] \/ (n[k] % 2 = 1 /\ n[k] < 2 * n[k - 1])
    BY <2>1 DEF MarksOK
  <2>3. n[k] % 2 = 0
    BY <2>1
  <2> QED
    BY <2>1, <2>2, <2>3
<1> HIDE DEF G
<1>4. \A k \in 0 .. len : k \in G
  BY <1>1, <1>2, <1>3, UpTo
<1> QED
  BY <1>4 DEF G

\* Before anything is taken, the leftmost node of each depth is free.
LEMMA NothingTaken ==
  ASSUME NEW n, MarksOK(n), n[0] = 0
  PROVE  \A j \in Depths : n[j] = 0
<1>1. WordLen \in Nat
  BY CodebookAssumption
<1> DEFINE G == {k \in Depths : n[k] = 0}
<1>2. 0 \in G
  BY <1>1 DEF Depths
<1>3. ASSUME NEW k \in 0 + 1 .. WordLen, k - 1 \in G PROVE k \in G
  <2>1. k \in Lengths /\ k \in Depths /\ n[k - 1] = 0 /\ n[k] \in Nat
    BY <1>1, <1>3 DEF Lengths, Depths, MarksOK
  <2>2. n[k] = 2 * n[k - 1] \/ (n[k] % 2 = 1 /\ n[k] < 2 * n[k - 1])
    BY <2>1 DEF MarksOK
  <2> QED
    BY <2>1, <2>2
<1> HIDE DEF G
<1>4. \A k \in 0 .. WordLen : k \in G
  BY <1>1, <1>2, <1>3, UpTo
<1> QED
  BY <1>4 DEF G, Depths

\* What is still free is less than a node of a depth at which none is left.
LEMMA SumOfFull ==
  ASSUME NEW n, MarksOK(n), NEW f, IsSum(f, n), NEW len \in Depths, n[len] = Power[len]
  PROVE  f[WordLen] < Power[WordLen - len]
<1>1. WordLen \in Nat /\ len \in 0 .. WordLen
  BY CodebookAssumption DEF Depths
<1>2. \A k \in Depths : f[k] \in Nat
  BY DEF IsSum
<1>3. f[len] = 0
  <2> DEFINE G == {k \in Depths : f[k] = 0}
  <2>1. 0 \in G
    <3>1. ~IsFree(n, 0)
      BY <1>1, FullAbove
    <3> QED
      BY <1>1, <3>1 DEF IsSum, Size, Depths
  <2>2. ASSUME NEW k \in 0 + 1 .. len, k - 1 \in G PROVE k \in G
    <3>1. k \in Lengths /\ k \in Depths /\ k \in 0 .. len
      BY <1>1 DEF Lengths, Depths
    <3>2. ~IsFree(n, k)
      BY <3>1, FullAbove
    <3>3. f[k] = f[k - 1] + 0 /\ f[k - 1] = 0
      BY <2>2, <3>1, <3>2 DEF IsSum, Size
    <3> QED
      BY <3>1, <3>3
  <2> HIDE DEF G
  <2>3. \A k \in 0 .. len : k \in G
    <3>1. 0 \in Int /\ len \in Int
      BY <1>1
    <3> QED
      BY <2>1, <2>2, <3>1, UpTo
  <2>4. len \in G
    BY <1>1, <2>3
  <2> QED
    BY <2>4 DEF G
<1> DEFINE G == {k \in Depths : f[k] + Power[WordLen - k] <= Power[WordLen - len]}
<1>4. len \in G
  <2>1. Power[WordLen - len] \in Nat
    BY <1>1, Powers
  <2> QED
    BY <1>3, <2>1
<1>5. ASSUME NEW k \in len + 1 .. WordLen, k - 1 \in G PROVE k \in G
  <2>1. /\ k \in Lengths /\ k \in Depths /\ k - 1 \in Depths
        /\ WordLen - (k - 1) \in 1 .. WordLen /\ (WordLen - (k - 1)) - 1 = WordLen - k
        /\ WordLen - k \in 0 .. WordLen /\ WordLen - len \in 0 .. WordLen
    BY <1>1 DEF Lengths, Depths
  <2>2. /\ Power[WordLen - (k - 1)] = 2 * Power[WordLen - k]
        /\ Power[WordLen - k] \in Nat /\ Power[WordLen - len] \in Nat
    <3>1. Power[WordLen - (k - 1)] = 2 * Power[(WordLen - (k - 1)) - 1]
      BY <2>1, Powers
    <3> QED
      BY <2>1, <3>1, Powers
  <2>3. f[k] = f[k - 1] + Size(n, k) /\ (Size(n, k) = Power[WordLen - k] \/ Size(n, k) = 0)
    BY <2>1 DEF IsSum, Size
  <2>4. f[k - 1] + Power[WordLen - (k - 1)] <= Power[WordLen - len]
    BY <1>5
  <2>5. f[k] \in Nat /\ f[k - 1] \in Nat
    BY <1>2, <2>1
  <2>6. f[k] + Power[WordLen - k] <= Power[WordLen - len]
    BY <2>2, <2>3, <2>4, <2>5
  <2> QED
    BY <2>1, <2>6
<1> HIDE DEF G
<1>6. \A k \in len .. WordLen : k \in G
  <2>1. len \in Int /\ WordLen \in Int
    BY <1>1
  <2> QED
    BY <1>4, <1>5, <2>1, UpTo
<1>7. f[WordLen] + Power[WordLen - WordLen] <= Power[WordLen - len]
  <2>1. WordLen \in G
    BY <1>1, <1>6
  <2> QED
    BY <2>1 DEF G
<1>8. Power[WordLen - WordLen] = 1 /\ Power[WordLen - len] \in Nat /\ f[WordLen] \in Nat
  <2>1. WordLen - WordLen = 0 /\ WordLen - len \in 0 .. WordLen /\ WordLen \in Depths
    BY <1>1 DEF Depths
  <2> QED
    BY <1>2, <2>1, Powers
<1> QED
  BY <1>7, <1>8

\* A free block is some of the sum.
LEMMA SumOfFree ==
  ASSUME NEW n, NEW f, IsSum(f, n), NEW j \in Depths, IsFree(n, j)
  PROVE  f[WordLen] > 0
<1>1. WordLen \in Nat /\ j \in 0 .. WordLen /\ WordLen - j \in 0 .. WordLen
  BY CodebookAssumption DEF Depths
<1>2. \A k \in Depths : f[k] \in Nat /\ Size(n, k) \in Nat
  BY SizeType DEF IsSum
<1> DEFINE G == {k \in Depths : f[k] > 0}
<1>3. j \in G
  <2>1. Size(n, j) > 0
    BY <1>1, Powers DEF Size
  <2>2. CASE j = 0
    BY <2>1, <2>2 DEF IsSum
  <2>3. CASE j # 0
    <3>1. j \in Lengths /\ j - 1 \in Depths
      BY <1>1, <2>3 DEF Lengths, Depths
    <3>2. f[j] = f[j - 1] + Size(n, j)
      BY <3>1 DEF IsSum
    <3> QED
      BY <1>2, <2>1, <3>1, <3>2
  <2> QED
    BY <2>2, <2>3
<1>4. ASSUME NEW k \in j + 1 .. WordLen, k - 1 \in G PROVE k \in G
  <2>1. k \in Lengths /\ k \in Depths /\ k - 1 \in Depths
    BY <1>1 DEF Lengths, Depths
  <2>2. f[k] = f[k - 1] + Size(n, k) /\ f[k - 1] > 0
    BY <1>4, <2>1 DEF IsSum
  <2> QED
    BY <1>2, <2>1, <2>2
<1> HIDE DEF G
<1>5. \A k \in j .. WordLen : k \in G
  <2>1. j \in Int /\ WordLen \in Int
    BY <1>1
  <2> QED
    BY <1>3, <1>4, <2>1, UpTo
<1>6. WordLen \in G
  BY <1>1, <1>5
<1> QED
  BY <1>6 DEF G

-----------------------------------------------------------------------------
(* The markers                                                             *)

LEMMA PowersGrow ==
  ASSUME NEW j \in Depths, NEW k \in Depths, j < k
  PROVE  Power[j] < Power[k] /\ Power[j] \in Nat \ {0} /\ Power[k] \in Nat \ {0}
<1>1. WordLen \in Nat /\ j \in 0 .. WordLen /\ k \in 0 .. WordLen
  BY CodebookAssumption DEF Depths
<1> DEFINE G == {i \in Depths : Power[j] < Power[i]}
<1>2. j + 1 \in G
  <2>1. j + 1 \in 1 .. WordLen /\ (j + 1) - 1 = j
    BY <1>1
  <2>2. Power[j + 1] = 2 * Power[j] /\ Power[j] \in Nat \ {0}
    BY <1>1, <2>1, Powers
  <2> QED
    BY <2>1, <2>2 DEF Depths
<1>3. ASSUME NEW i \in (j + 1) + 1 .. k, i - 1 \in G PROVE i \in G
  <2>1. i \in 1 .. WordLen /\ i - 1 \in 0 .. WordLen
    BY <1>1
  <2>2. Power[i] = 2 * Power[i - 1] /\ Power[i - 1] \in Nat \ {0} /\ Power[j] \in Nat
    BY <1>1, <2>1, Powers
  <2> QED
    BY <1>3, <2>1, <2>2 DEF Depths
<1> HIDE DEF G
<1>4. \A i \in j + 1 .. k : i \in G
  <2>1. j + 1 \in Int /\ k \in Int
    BY <1>1
  <2> QED
    BY <1>2, <1>3, <2>1, UpTo
<1>5. k \in G
  BY <1>1, <1>4
<1> QED
  BY <1>1, <1>5, Powers DEF G

LEMMA WordIs ==
  ASSUME NEW x \in Nat
  PROVE  /\ Word(x) \in Words /\ Word(x) \in Nat
         /\ x < Power[WordLen] => Word(x) = x
         /\ Word(Power[WordLen]) = 0
         /\ x <= Power[WordLen] => Word(x) % 2 = x % 2
<1>1. WordLen \in 1 .. WordLen /\ WordLen - 1 \in 0 .. WordLen
  BY CodebookAssumption
<1>2. Power[WordLen] = 2 * Power[WordLen - 1] /\ Power[WordLen - 1] \in Nat \ {0}
  BY <1>1, Powers
<1> DEFINE p == Power[WordLen - 1]
           q == Power[WordLen]
<1>3. q = 2 * p /\ p \in Nat \ {0}
  BY <1>2
<1> HIDE DEF p, q
<1>4. x % q \in 0 .. q - 1 /\ x % q \in Nat /\ (x < q => x % q = x) /\ q % q = 0
  BY <1>3
<1>5. x <= q => (x % q) % 2 = x % 2
  BY <1>3, <1>4
<1> QED
  BY <1>4, <1>5 DEF Word, Words, q

(***************************************************************************)
(* n are the free nodes that the markers stand for: of the full length the *)
(* marker wraps behind the last one.                                       *)
(***************************************************************************)
Marks(n) ==
  /\ MarksOK(n)
  /\ n[0] = IF entries_ = <<>> THEN 0 ELSE 1
  /\ marker = [j \in Lengths |-> Word(n[j])]

LEMMA MarkerIs ==
  ASSUME NEW n, Marks(n), NEW j \in Lengths
  PROVE  /\ n[j] \in Nat /\ n[j] <= Power[j] /\ marker[j] = Word(n[j])
         /\ marker[j] \in Words
         /\ marker[j] % 2 = n[j] % 2
         /\ j < WordLen \/ n[j] < Power[j] => marker[j] = n[j]
<1>1. WordLen \in Nat /\ j \in Depths /\ WordLen \in Depths /\ j \in 1 .. WordLen
  BY CodebookAssumption DEF Lengths, Depths
<1>2. n[j] \in Nat /\ n[j] <= Power[j] /\ marker[j] = Word(n[j])
  BY <1>1 DEF Marks, MarksOK
<1>3. Power[j] <= Power[WordLen] /\ (j < WordLen => Power[j] < Power[WordLen])
      /\ Power[j] \in Nat /\ Power[WordLen] \in Nat
  <2>1. Power[j] \in Nat /\ Power[WordLen] \in Nat
    BY <1>1, Powers
  <2>2. j < WordLen => Power[j] < Power[WordLen]
    BY <1>1, PowersGrow
  <2>3. j = WordLen \/ j < WordLen
    BY <1>1
  <2> QED
    BY <2>1, <2>2, <2>3
<1>4. n[j] <= Power[WordLen] /\ (j < WordLen \/ n[j] < Power[j] => n[j] < Power[WordLen])
  BY <1>2, <1>3
<1> QED
  BY <1>2, <1>4, WordIs

\* Turn is where the first loop ends.
LEMMA TurnIs ==
  ASSUME NEW len \in Lengths, \A j \in 1 .. len : marker[j] \in Nat
  PROVE  /\ Turn(len) \in 0 .. len
         /\ Turn(len) > 0 => marker[Turn(len)] % 2 = 1
         /\ \A j \in Turn(len) + 1 .. len : marker[j] % 2 = 0
<1>1. WordLen \in Nat /\ len \in 1 .. WordLen
  BY CodebookAssumption DEF Lengths
<1> DEFINE S == {0} \union {j \in 1 .. len : marker[j] % 2 = 1}
           Back == {i \in 0 .. len : len - i \in S}
<1>2. PICK i \in Back : \A k \in Back : i <= k
  <2>1. len \in Back
    BY <1>1
  <2>2. Back \in SUBSET Nat
    BY <1>1
  <2> HIDE DEF Back
  <2> QED
    BY <2>1, <2>2, LeastExists
<1>3. len - i \in S /\ i \in 0 .. len
  OBVIOUS
<1>4. ASSUME NEW k \in S PROVE len - i >= k
  <2>1. k \in 0 .. len
    BY <1>1
  <2>2. len - k \in 0 .. len /\ len - (len - k) = k
    BY <1>1, <2>1
  <2>3. len - k \in Back
    BY <2>2
  <2>4. i <= len - k
    BY <1>2, <2>3
  <2> QED
    BY <1>1, <1>3, <2>1, <2>4
<1>5. \E t \in S : \A k \in S : t >= k
  BY <1>3, <1>4
<1>6. Turn(len) \in S /\ \A k \in S : Turn(len) >= k
  BY <1>5 DEF Turn, Max
<1>7. Turn(len) \in 0 .. len
  BY <1>1, <1>6
<1>8. Turn(len) > 0 => marker[Turn(len)] % 2 = 1
  BY <1>6
<1>9. ASSUME NEW j \in Turn(len) + 1 .. len PROVE marker[j] % 2 = 0
  <2>1. j \in 1 .. len /\ ~(Turn(len) >= j)
    BY <1>1, <1>7
  <2>2. j \notin S
    BY <1>6, <2>1
  <2>3. marker[j] % 2 # 1 /\ marker[j] \in Nat
    BY <2>1, <2>2
  <2> QED
    BY <2>3
<1> QED
  BY <1>7, <1>8, <1>9

\* Below are the depths down to one.
LEMMA BelowIs ==
  ASSUME NEW len \in Lengths
  PROVE  \E bot \in len .. WordLen :
           /\ Below(len) = len + 1 .. bot
           /\ \A i \in len + 1 .. bot : marker[i] \div 2 = marker[i - 1]
           /\ bot < WordLen => marker[bot + 1] \div 2 # marker[bot]
<1>1. WordLen \in Nat /\ len \in 1 .. WordLen
  BY CodebookAssumption DEF Lengths
<1> DEFINE Ends == {j \in len + 1 .. WordLen : marker[j] \div 2 # marker[j - 1]}
<1>2. CASE Ends = {}
  <2>1. \A i \in len + 1 .. WordLen : marker[i] \div 2 = marker[i - 1]
    BY <1>2
  <2>2. Below(len) = len + 1 .. WordLen
    <3>1. \A j \in len + 1 .. WordLen : \A i \in len + 1 .. j : i \in len + 1 .. WordLen
      BY <1>1
    <3> QED
      BY <2>1, <3>1 DEF Below
  <2>3. WordLen \in len .. WordLen /\ ~(WordLen < WordLen)
    BY <1>1
  <2> QED
    BY <2>1, <2>2, <2>3
<1>3. CASE Ends # {}
  <2>1. PICK e \in Ends : \A k \in Ends : e <= k
    <3>1. Ends \in SUBSET Nat
      BY <1>1
    <3> HIDE DEF Ends
    <3> QED
      BY <1>3, <3>1, LeastExists
  <2>2. e \in len + 1 .. WordLen /\ marker[e] \div 2 # marker[e - 1]
    OBVIOUS
  <2> DEFINE bot == e - 1
  <2>3. bot \in len .. WordLen /\ bot < WordLen /\ bot + 1 = e
    BY <1>1, <2>2
  <2>4. ASSUME NEW i \in len + 1 .. bot PROVE marker[i] \div 2 = marker[i - 1]
    <3>1. i \in len + 1 .. WordLen /\ ~(e <= i)
      BY <1>1, <2>2
    <3>2. i \notin Ends
      BY <2>1, <3>1
    <3> QED
      BY <3>1, <3>2
  <2>5. ASSUME NEW j \in Below(len) PROVE j \in len + 1 .. bot
    <3>1. j \in len + 1 .. WordLen /\ \A i \in len + 1 .. j : marker[i] \div 2 = marker[i - 1]
      BY DEF Below
    <3>2. ~(e <= j)
      <4>1. SUFFICES ASSUME e <= j PROVE FALSE
        OBVIOUS
      <4>2. e \in len + 1 .. j
        BY <1>1, <2>2, <3>1, <4>1
      <4> QED
        BY <2>2, <3>1, <4>2
    <3> QED
      BY <1>1, <2>2, <3>1, <3>2
  <2>6. ASSUME NEW j \in len + 1 .. bot PROVE j \in Below(len)
    <3>1. j \in len + 1 .. WordLen /\ \A i \in len + 1 .. j : i \in len + 1 .. bot
      BY <1>1, <2>3
    <3> HIDE DEF bot
    <3> QED
      BY <2>4, <3>1 DEF Below
  <2>7. Below(len) = len + 1 .. bot
    BY <2>5, <2>6
  <2>8. marker[bot + 1] \div 2 # marker[bot]
    BY <2>2, <2>3
  <2> HIDE DEF bot
  <2> QED
    BY <2>3, <2>4, <2>7, <2>8
<1> QED
  BY <1>2, <1>3

(***************************************************************************)
(* If a node of depth len is left, the two loops take it.                  *)
(***************************************************************************)
LEMMA TurnsAt ==
  ASSUME NEW n, Marks(n), NEW len \in Lengths, n[len] < Power[len]
  PROVE  /\ Turn(len) \in 0 .. len
         /\ n[0] = IF Turn(len) = 0 THEN 0 ELSE 1
         /\ Turn(len) > 0 => n[Turn(len)] % 2 = 1
         /\ \A j \in Turn(len) + 1 .. len : n[j] = 2 * n[j - 1]
<1>0. MarksOK(n) /\ n[0] \in {0, 1}
  BY DEF Marks
<1>1. WordLen \in Nat /\ len \in 1 .. WordLen /\ len \in Depths
  BY CodebookAssumption DEF Lengths, Depths
<1>2. \A j \in 1 .. len : j \in Lengths /\ j \in Depths /\ j - 1 \in Depths
                          /\ n[j] \in Nat /\ marker[j] \in Nat /\ marker[j] % 2 = n[j] % 2
  <2>1. \A j \in 1 .. len : j \in Lengths /\ j \in Depths /\ j - 1 \in Depths
    BY <1>1 DEF Lengths, Depths
  <2>2. \A j \in 1 .. len : marker[j] \in Nat
    BY <2>1, MarkerIs, WordIs
  <2> QED
    BY <2>1, <2>2, MarkerIs
<1> DEFINE top == Turn(len)
<1>3. /\ top \in 0 .. len
      /\ top > 0 => marker[top] % 2 = 1
      /\ \A j \in top + 1 .. len : marker[j] % 2 = 0
  BY <1>2, TurnIs
<1> HIDE DEF top
<1>4. top > 0 => n[top] % 2 = 1
  <2>1. top > 0 => top \in 1 .. len
    BY <1>1, <1>3
  <2> QED
    BY <1>2, <1>3, <2>1
<1>5. ASSUME NEW j \in top + 1 .. len PROVE n[j] % 2 = 0 /\ n[j] = 2 * n[j - 1]
  <2>1. j \in 1 .. len
    BY <1>1, <1>3
  <2>2. n[j] % 2 = 0
    BY <1>2, <1>3, <2>1
  <2>3. n[j] = 2 * n[j - 1] \/ (n[j] % 2 = 1 /\ n[j] < 2 * n[j - 1])
    BY <1>0, <1>2, <2>1 DEF MarksOK
  <2> QED
    BY <2>2, <2>3
<1>6. n[0] = IF top = 0 THEN 0 ELSE 1
  <2>1. CASE top = 0
    <3>1. SUFFICES ASSUME n[0] = 1 PROVE FALSE
      BY <1>0, <2>1
    <3>2. \A j \in 1 .. len : n[j] % 2 = 0
      BY <1>5, <2>1
    <3>3. n[len] = Power[len]
      <4>1. len \in 0 .. len
        BY <1>1
      <4> QED
        BY <1>0, <1>1, <3>1, <3>2, <4>1, FullBelow
    <3> QED
      BY <1>1, <3>3, MarkerIs
  <2>2. CASE top # 0
    <3>1. top \in 1 .. len /\ n[top] % 2 = 1
      BY <1>1, <1>3, <1>4, <2>2
    <3>2. n[top] # 0
      BY <3>1
    <3> QED
      BY <1>0, <1>2, <2>2, <3>1, <3>2, NothingTaken
  <2> QED
    BY <2>1, <2>2
<1> QED
  BY <1>3, <1>4, <1>5, <1>6 DEF top

LEMMA BelowAt ==
  ASSUME NEW n, Marks(n), NEW len \in Lengths, n[len] < Power[len]
  PROVE  \E bot \in len .. WordLen :
           /\ Below(len) = len + 1 .. bot
           /\ \A j \in len + 1 .. bot : n[j] = 2 * n[j - 1]
           /\ bot < WordLen => n[bot + 1] # 2 * n[bot]
<1>0. MarksOK(n)
  BY DEF Marks
<1>1. WordLen \in Nat /\ len \in 1 .. WordLen /\ len \in Depths /\ WordLen \in Depths
  BY CodebookAssumption DEF Lengths, Depths
<1>2. PICK bot \in len .. WordLen :
           /\ Below(len) = len + 1 .. bot
           /\ \A i \in len + 1 .. bot : marker[i] \div 2 = marker[i - 1]
           /\ bot < WordLen => marker[bot + 1] \div 2 # marker[bot]
  BY BelowIs
<1>3. \A j \in len + 1 .. WordLen :
        /\ j \in Lengths /\ j \in Depths /\ j - 1 \in Lengths /\ j - 1 \in Depths /\ j - 1 < WordLen
        /\ marker[j - 1] = n[j - 1] /\ n[j - 1] \in Nat /\ n[j] \in Nat /\ n[j] <= Power[j]
        /\ j < WordLen \/ n[j] < Power[j] => marker[j] = n[j]
        /\ n[j] = 2 * n[j - 1] \/ (n[j] % 2 = 1 /\ n[j] < 2 * n[j - 1])
  <2>1. \A j \in len + 1 .. WordLen :
          j \in Lengths /\ j \in Depths /\ j - 1 \in Lengths /\ j - 1 \in Depths /\ j - 1 < WordLen
    BY <1>1 DEF Lengths, Depths
  <2> QED
    BY <1>0, <2>1, MarkerIs DEF MarksOK
<1>4. n[WordLen] # Power[WordLen]
  <2>1. SUFFICES ASSUME n[WordLen] = Power[WordLen] PROVE FALSE
    OBVIOUS
  <2>2. n[len] = Power[len] /\ n[len] \in Nat
    BY <1>0, <1>1, <2>1, FullAbove, MarkerIs
  <2> QED
    BY <2>2
<1>5. ASSUME NEW j \in len + 1 .. WordLen PROVE marker[j] = n[j]
  <2>1. j < WordLen \/ j = WordLen
    BY <1>1
  <2>2. Power[j] \in Nat
    BY <1>3, Powers DEF Depths
  <2>3. j = WordLen => n[j] < Power[j]
    BY <1>3, <1>4, <2>2
  <2> QED
    BY <1>3, <2>1, <2>3
<1>6. ASSUME NEW j \in len + 1 .. bot PROVE n[j] = 2 * n[j - 1]
  <2>1. j \in len + 1 .. WordLen
    BY <1>1
  <2>2. n[j] \div 2 = n[j - 1]
    BY <1>2, <1>3, <1>5, <2>1
  <2>3. n[j] \in Nat /\ n[j - 1] \in Nat
        /\ (n[j] = 2 * n[j - 1] \/ (n[j] % 2 = 1 /\ n[j] < 2 * n[j - 1]))
    BY <1>3, <2>1
  <2> QED
    BY <2>2, <2>3
<1>7. ASSUME bot < WordLen PROVE n[bot + 1] # 2 * n[bot]
  <2>1. bot + 1 \in len + 1 .. WordLen /\ (bot + 1) - 1 = bot
    BY <1>1, <1>7
  <2>2. n[bot + 1] \div 2 # n[bot] /\ n[bot] \in Nat
    <3>1. marker[(bot + 1) - 1] = n[(bot + 1) - 1] /\ n[(bot + 1) - 1] \in Nat
      BY <1>3, <2>1
    <3>2. marker[bot + 1] = n[bot + 1]
      BY <1>5, <2>1
    <3> QED
      BY <1>2, <1>7, <2>1, <3>1, <3>2
  <2> QED
    BY <2>2
<1> QED
  BY <1>2, <1>6, <1>7

LEMMA TakeStep ==
  ASSUME NEW n, Marks(n), NEW len \in Lengths, n[len] < Power[len]
  PROVE  \E m, bot : /\ Takes(n, m, Turn(len), len, bot)
                     /\ Taken(len) = [j \in Lengths |-> Word(m[j])]
<1>0. MarksOK(n)
  BY DEF Marks
<1>1. WordLen \in Nat /\ len \in 1 .. WordLen /\ len \in Depths /\ WordLen \in Depths
  BY CodebookAssumption DEF Lengths, Depths
<1> DEFINE top == Turn(len)
<1>2. /\ top \in 0 .. len
      /\ n[0] = IF top = 0 THEN 0 ELSE 1
      /\ top > 0 => n[top] % 2 = 1
      /\ \A j \in top + 1 .. len : n[j] = 2 * n[j - 1]
  BY TurnsAt
<1>3. PICK bot \in len .. WordLen :
           /\ Below(len) = len + 1 .. bot
           /\ \A j \in len + 1 .. bot : n[j] = 2 * n[j - 1]
           /\ bot < WordLen => n[bot + 1] # 2 * n[bot]
  BY BelowAt
<1>4. \A j \in Depths : n[j] \in Nat
  BY <1>0 DEF MarksOK
<1> DEFINE last == IF top = len THEN 2 * n[len - 1] ELSE n[len] + 1
           m == [j \in Depths |->
                   IF j = 0 THEN 1
                   ELSE IF j < top THEN n[j]
                   ELSE IF j = top THEN 2 * n[j - 1]
                   ELSE IF j <= len THEN n[j] + 1
                   ELSE IF j <= bot THEN last * Power[j - len]
                   ELSE n[j]]
<1>5. last \in Nat
  <2>1. len - 1 \in Depths
    BY <1>1 DEF Depths
  <2> QED
    BY <1>1, <1>4, <2>1
<1> HIDE DEF top, last
<1>6. m \in [Depths -> Nat] /\ m[0] = 1
  <2>1. ASSUME NEW j \in Depths PROVE m[j] \in Nat
    <3>1. j # 0 => j - 1 \in Depths /\ 2 * n[j - 1] \in Nat
      <4>1. j # 0 => j - 1 \in Depths
        BY <1>1 DEF Depths
      <4> QED
        BY <1>4, <4>1
    <3>2. ~(j <= len) => last * Power[j - len] \in Nat
      <4>1. ~(j <= len) => j - len \in 0 .. WordLen
        BY <1>1 DEF Depths
      <4>2. ~(j <= len) => Power[j - len] \in Nat
        BY <4>1, Powers
      <4> QED
        BY <1>5, <4>2
    <3> QED
      BY <1>4, <3>1, <3>2
  <2>2. 0 \in Depths
    BY <1>1 DEF Depths
  <2> QED
    BY <2>1, <2>2
<1>7. \A j \in 1 .. top - 1 : m[j] = n[j]
  BY <1>1, <1>2 DEF Depths
<1>8. top > 0 => n[top] % 2 = 1 /\ m[top] = 2 * n[top - 1]
  BY <1>1, <1>2 DEF Depths
<1>9. \A j \in top + 1 .. len : n[j] = 2 * n[j - 1] /\ m[j] = n[j] + 1
  <2>1. \A j \in top + 1 .. len : m[j] = n[j] + 1
    BY <1>1, <1>2 DEF Depths
  <2> QED
    BY <1>2, <2>1
<1>10. m[len] = last
  <2>1. CASE top = len
    BY <1>1, <2>1 DEF last
  <2>2. CASE top # len
    <3>1. len \in top + 1 .. len
      BY <1>1, <1>2, <2>2
    <3>2. m[len] = n[len] + 1
      BY <1>9, <3>1
    <3> QED
      BY <2>2, <3>2 DEF last
  <2> QED
    BY <2>1, <2>2
<1>11. \A j \in len + 1 .. bot : m[j] = last * Power[j - len]
  BY <1>1, <1>2 DEF Depths
<1>12. ASSUME NEW j \in bot + 1 .. WordLen PROVE m[j] = n[j]
  <2>1. j \in Depths /\ j # 0 /\ ~(j < top) /\ j # top /\ ~(j <= len) /\ ~(j <= bot)
    BY <1>1, <1>2 DEF Depths
  <2> QED
    BY <2>1
<1>13. ASSUME NEW j \in len + 1 .. bot PROVE m[j] = 2 * m[j - 1]
  <2>1. /\ j - len \in 1 .. WordLen /\ (j - len) - 1 = (j - 1) - len
        /\ (j - 1) - len \in 0 .. WordLen
    BY <1>1
  <2>2. Power[j - len] = 2 * Power[(j - 1) - len] /\ Power[(j - 1) - len] \in Nat
    BY <2>1, Powers
  <2>3. m[j - 1] = last * Power[(j - 1) - len]
    <3>1. CASE j - 1 = len
      <4>1. (j - 1) - len = 0 /\ m[j - 1] = last
        BY <1>1, <1>10, <3>1
      <4> QED
        BY <1>5, <4>1, Powers
    <3>2. CASE j - 1 # len
      <4>1. j - 1 \in len + 1 .. bot
        BY <1>1, <3>2
      <4> QED
        BY <1>11, <4>1
    <3> QED
      BY <3>1, <3>2
  <2>4. m[j] = last * (2 * Power[(j - 1) - len])
    BY <1>11, <2>2
  <2> HIDE DEF m
  <2> QED
    BY <1>5, <2>2, <2>3, <2>4
<1> HIDE DEF m
<1>14. Takes(n, m, top, len, bot)
  BY <1>2, <1>3, <1>6, <1>7, <1>8, <1>9, <1>12, <1>13 DEF Takes
<1>15. \A j \in 1 .. len : (j < WordLen \/ j = len) => marker[j] = n[j]
  <2>1. \A j \in 1 .. len : j \in Lengths
    BY <1>1 DEF Lengths
  <2> QED
    BY <2>1, MarkerIs
<1>16. ASSUME NEW j \in 1 .. len PROVE Advanced(len)[j] = Word(m[j])
  <2>1. j \in Lengths /\ (j < WordLen \/ j = len)
    BY <1>1 DEF Lengths
  <2>2. CASE j < top
    <3>1. j \in 1 .. top - 1
      BY <1>1, <1>2, <2>2
    <3>2. m[j] = n[j] /\ marker[j] = Word(n[j])
      BY <1>7, <2>1, <3>1, MarkerIs
    <3> QED
      BY <2>2, <3>2 DEF Advanced, top
  <2>3. CASE j = top /\ j > 1
    <3>1. j - 1 \in 1 .. len /\ j - 1 < WordLen
      BY <1>1, <2>3
    <3>2. marker[j - 1] = n[j - 1]
      BY <1>15, <3>1
    <3>3. m[j] = 2 * n[j - 1]
      BY <1>8, <2>3
    <3>4. Advanced(len)[j] = Word(2 * marker[j - 1])
      BY <2>3 DEF Advanced, top
    <3> QED
      BY <3>2, <3>3, <3>4
  <2>4. CASE j = top /\ ~(j > 1)
    <3>1. j = 1 /\ top = 1
      BY <2>4
    <3>2. m[1] = 2 * n[0] /\ n[0] = 1 /\ n[1] % 2 = 1
      BY <1>2, <1>8, <3>1
    <3>3. n[1] = 2 * n[0] \/ n[1] < 2 * n[0]
      BY <1>0, <2>1, <3>1 DEF MarksOK
    <3>4. n[1] = 1
      <4>1. n[1] \in Nat
        BY <1>1, <1>4 DEF Depths
      <4> QED
        BY <3>2, <3>3, <4>1
    <3>5. Advanced(len)[j] = Word(marker[1] + 1)
      BY <2>4, <3>1 DEF Advanced, top
    <3>6. marker[1] = n[1]
      BY <1>15, <2>1, <3>1
    <3> QED
      BY <3>1, <3>2, <3>4, <3>5, <3>6
  <2>5. CASE j > top
    <3>1. j \in top + 1 .. len
      BY <1>1, <1>2, <2>5
    <3>2. m[j] = n[j] + 1 /\ marker[j] = n[j]
      BY <1>9, <1>15, <2>1, <3>1
    <3>3. Advanced(len)[j] = Word(marker[j] + 1)
      <4>1. ~(j < top) /\ j # top
        BY <1>1, <1>2, <2>5
      <4> QED
        BY <4>1 DEF Advanced, top
    <3> QED
      BY <3>2, <3>3
  <2> QED
    BY <1>1, <1>2, <2>2, <2>3, <2>4, <2>5
<1>17. ASSUME NEW j \in Lengths PROVE Taken(len)[j] = Word(m[j])
  <2>1. j \in 1 .. WordLen
    BY DEF Lengths
  <2>2. CASE j <= len
    <3>1. j \in 1 .. len
      BY <1>1, <2>1, <2>2
    <3> QED
      BY <1>16, <2>2, <3>1 DEF Taken
  <2>3. CASE j \in len + 1 .. bot
    <3>1. Word(m[len]) = m[len]
      <4>1. m[len] \in Nat /\ m[len] <= Power[len]
        BY <1>0, <1>1, <1>14, TakesOK DEF MarksOK
      <4>2. Power[len] < Power[WordLen] /\ Power[len] \in Nat /\ Power[WordLen] \in Nat
        <5>1. len < WordLen
          BY <1>1, <2>1, <2>3
        <5> QED
          BY <1>1, <5>1, PowersGrow
      <4> QED
        BY <4>1, <4>2, WordIs
    <3>2. Advanced(len)[len] = last
      BY <1>1, <1>10, <1>16, <3>1
    <3>3. ~(j <= len) /\ j \in Below(len)
      BY <1>1, <1>3, <2>3
    <3> QED
      BY <1>11, <2>3, <3>2, <3>3 DEF Taken
  <2>4. CASE j \in bot + 1 .. WordLen
    <3>1. ~(j <= len) /\ j \notin Below(len)
      BY <1>1, <1>3, <2>4
    <3> QED
      BY <1>12, <2>4, <3>1, MarkerIs DEF Taken
  <2> QED
    BY <1>1, <2>1, <2>2, <2>3, <2>4
<1>18. Taken(len) = [j \in Lengths |-> Word(m[j])]
  BY <1>17 DEF Taken
<1> QED
  BY <1>14, <1>18 DEF top

\* For a length short of a word, the checks fail if no node is left.
LEMMA ChecksAreRight ==
  ASSUME NEW n, Marks(n), NEW len \in Lengths, len < WordLen,
         NEW rest \in ShiftRight(marker[len], len), NEW limit \in OneShifted(Turn(len))
  PROVE  (rest # 0 \/ (Turn(len) > 0 /\ Advanced(len)[Turn(len)] > limit)) <=> n[len] = Power[len]
<1>1. WordLen \in Nat /\ len \in 1 .. WordLen /\ len \in Depths
  BY CodebookAssumption DEF Lengths, Depths
<1>2. /\ n[len] \in Nat /\ n[len] <= Power[len] /\ marker[len] = n[len]
      /\ Power[len] \in Nat \ {0}
  BY <1>1, MarkerIs, Powers
<1>3. rest = n[len] \div Power[len]
  BY <1>2 DEF ShiftRight
<1>4. CASE n[len] = Power[len]
  BY <1>2, <1>3, <1>4
<1>5. CASE n[len] < Power[len]
  <2>1. rest = 0
    BY <1>2, <1>3, <1>5
  <2> DEFINE top == Turn(len)
  <2>2. ASSUME top > 0 PROVE ~(Advanced(len)[top] > limit)
    <3>1. PICK m, bot : /\ Takes(n, m, top, len, bot)
                        /\ Taken(len) = [j \in Lengths |-> Word(m[j])]
      BY <1>5, TakeStep
    <3>2. top \in 1 .. len /\ top \in Lengths /\ top \in Depths /\ top < WordLen
      <4>1. top \in 0 .. len
        BY <3>1 DEF Takes
      <4> QED
        BY <1>1, <2>2, <4>1 DEF Lengths, Depths
    <3>3. m[top] \in Nat /\ m[top] <= Power[top]
      BY <3>1, <3>2, TakesOK DEF Marks, MarksOK
    <3>4. limit = Power[top] /\ Power[top] \in Nat
      BY <3>2, Powers DEF OneShifted, Depths
    <3>5. Advanced(len)[top] = Word(m[top])
      <4>1. top <= len
        BY <1>1, <3>2
      <4>2. Taken(len)[top] = Word(m[top])
        BY <3>1, <3>2
      <4>3. Taken(len)[top] = Advanced(len)[top]
        BY <3>2, <4>1 DEF Taken
      <4> QED
        BY <4>2, <4>3
    <3>6. Power[WordLen] \in Nat \ {0}
      BY <1>1, Powers
    <3>7. Word(m[top]) <= m[top] /\ Word(m[top]) \in Nat
      BY <3>3, <3>6 DEF Word
    <3> QED
      BY <3>3, <3>4, <3>5, <3>7
  <2> QED
    BY <1>2, <1>5, <2>1, <2>2
<1> QED
  BY <1>2, <1>4, <1>5

(***************************************************************************)
(* The marker of the full length has wrapped behind the last word, and was *)
(* taken for a free node once more: no check of the code fails then, but   *)
(* each one after it does.                                                 *)
(***************************************************************************)
Wrapped(mark) == mark = [j \in Lengths |-> IF j < WordLen THEN Power[j] + 1 ELSE 1]

LEMMA WordWraps ==
  ASSUME NEW n, Marks(n), n[WordLen] = Power[WordLen]
  PROVE  Wrapped(Taken(WordLen))
<1>0. MarksOK(n)
  BY DEF Marks
<1>1. /\ WordLen \in Nat /\ WordLen \in Lengths /\ WordLen \in Depths
      /\ WordLen - 1 \in 0 .. WordLen /\ WordLen - 1 \in Depths /\ WordLen > 1
  BY CodebookAssumption DEF Lengths, Depths
<1>2. \A j \in 1 .. WordLen :
        /\ j \in Depths /\ Power[j] = 2 * Power[j - 1] /\ Power[j - 1] \in Nat \ {0}
        /\ marker[j] = IF j < WordLen THEN Power[j] ELSE 0
  <2>1. \A j \in 1 .. WordLen : j \in Lengths /\ j \in Depths /\ j - 1 \in Depths
    BY <1>1 DEF Lengths, Depths
  <2>2. \A j \in 1 .. WordLen : n[j] = Power[j]
    BY <1>0, <1>1, FullAbove
  <2>3. \A j \in 1 .. WordLen : Power[j] = 2 * Power[j - 1] /\ Power[j - 1] \in Nat \ {0}
    BY <2>1, Powers DEF Depths
  <2>4. \A j \in 1 .. WordLen : j < WordLen => marker[j] = Power[j]
    BY <2>1, <2>2, MarkerIs
  <2>5. marker[WordLen] = 0
    <3>1. marker[WordLen] = Word(Power[WordLen])
      BY <1>1, MarkerIs
    <3> QED
      BY <1>1, <3>1, WordIs
  <2>6. \A j \in 1 .. WordLen : j < WordLen \/ j = WordLen
    BY <1>1
  <2> QED
    BY <2>1, <2>3, <2>4, <2>5, <2>6
<1>3. \A j \in 1 .. WordLen : marker[j] \in Nat /\ marker[j] % 2 = 0
  BY <1>2
<1>4. Turn(WordLen) = 0
  <2>1. Turn(WordLen) \in 0 .. WordLen /\ (Turn(WordLen) > 0 => marker[Turn(WordLen)] % 2 = 1)
    BY <1>1, <1>3, TurnIs
  <2> QED
    BY <1>1, <1>3, <2>1
<1>5. ASSUME NEW j \in Lengths PROVE Taken(WordLen)[j] = Word(marker[j] + 1)
  <2>1. j \in 1 .. WordLen /\ j <= WordLen /\ ~(j < 0) /\ j # 0
    BY <1>1 DEF Lengths
  <2> QED
    BY <1>4, <2>1 DEF Taken, Advanced
<1>6. ASSUME NEW j \in Lengths
      PROVE  Word(marker[j] + 1) = IF j < WordLen THEN Power[j] + 1 ELSE 1
  <2>1. Power[WordLen] = 2 * Power[WordLen - 1] /\ Power[WordLen - 1] > 1
        /\ Power[WordLen - 1] \in Nat
    <3>1. WordLen - 1 \in 1 .. WordLen
      BY <1>1
    <3> QED
      BY <1>1, <1>2, <3>1
  <2>2. CASE j < WordLen
    <3>1. Power[j] <= Power[WordLen - 1] /\ Power[j] \in Nat
      <4>1. j \in Depths /\ (j = WordLen - 1 \/ j < WordLen - 1)
        BY <1>1, <2>2 DEF Lengths, Depths
      <4> QED
        BY <1>1, <4>1, PowersGrow, Powers DEF Depths
    <3>2. Power[j] + 1 < Power[WordLen] /\ Power[j] + 1 \in Nat
      BY <2>1, <3>1
    <3>3. marker[j] = Power[j]
      BY <1>2, <2>2 DEF Lengths
    <3> QED
      BY <2>2, <3>2, <3>3, WordIs
  <2>3. CASE j = WordLen
    <3>1. marker[j] + 1 = 1 /\ 1 < Power[WordLen]
      BY <1>1, <1>2, <2>1, <2>3 DEF Lengths
    <3> QED
      BY <1>1, <2>3, <3>1, WordIs
  <2> QED
    BY <1>1, <2>2, <2>3 DEF Lengths
<1> QED
  BY <1>5, <1>6 DEF Wrapped, Taken

LEMMA WrappedIsNotFull ==
  ASSUME Wrapped(marker)
  PROVE  ~Full /\ \A j \in Lengths : marker[j] \in Words /\ marker[j] \in Nat
<1>1. /\ WordLen \in Nat /\ WordLen \in Lengths
      /\ WordLen - 1 \in Lengths /\ WordLen > 1 /\ 1 \in Lengths
  BY CodebookAssumption DEF Lengths
<1>2. \A j \in 1 .. WordLen : Power[j] = 2 * Power[j - 1] /\ Power[j] \in Nat /\ Power[j] > 1
                              /\ Power[j - 1] \in Nat
  BY <1>1, Powers
<1>3. \A j \in Lengths : j < WordLen => Power[j] + 1 < Power[WordLen]
  <2>1. ASSUME NEW j \in Lengths, j < WordLen PROVE Power[j] + 1 < Power[WordLen]
    <3>1. j \in Depths /\ WordLen - 1 \in Depths /\ (j = WordLen - 1 \/ j < WordLen - 1)
      BY <1>1, <2>1 DEF Lengths, Depths
    <3>2. Power[j] <= Power[WordLen - 1]
      <4>1. Power[WordLen - 1] \in Nat
        BY <1>1, <1>2 DEF Lengths
      <4> QED
        BY <3>1, <4>1, PowersGrow
    <3>3. Power[WordLen] = 2 * Power[WordLen - 1]
      BY <1>1, <1>2
    <3> QED
      BY <1>1, <1>2, <2>1, <3>2, <3>3 DEF Lengths
  <2> QED
    BY <2>1
<1>4. \A j \in Lengths : marker[j] \in Words /\ marker[j] \in Nat
  <2>1. Power[WordLen] \in Nat /\ Power[WordLen] > 1
    BY <1>1, <1>2
  <2> QED
    BY <1>1, <1>2, <1>3, <2>1 DEF Wrapped, Words, Lengths
<1>5. ~Full
  <2>1. Word(Power[1]) = Power[1]
    <3>1. Power[1] < Power[WordLen] /\ Power[1] \in Nat
      BY <1>1, <1>2, <1>3
    <3> QED
      BY <3>1, WordIs
  <2>2. marker[1] = Power[1] + 1 /\ Power[1] \in Nat
    BY <1>1, <1>2 DEF Wrapped
  <2> QED
    BY <1>1, <2>1, <2>2 DEF Full
<1> QED
  BY <1>4, <1>5

LEMMA WrappedFails ==
  ASSUME Wrapped(marker), NEW len \in Lengths,
         NEW rest \in ShiftRight(marker[len], len), NEW limit \in OneShifted(Turn(len))
  PROVE  rest # 0 \/ (Turn(len) > 0 /\ Advanced(len)[Turn(len)] > limit)
<1>1. /\ WordLen \in Nat /\ len \in 1 .. WordLen /\ WordLen \in Lengths
      /\ WordLen - 1 \in Lengths /\ WordLen > 1
  BY CodebookAssumption DEF Lengths
<1>2. \A j \in 1 .. WordLen : Power[j] = 2 * Power[j - 1] /\ Power[j] \in Nat /\ Power[j] > 1
                              /\ Power[j - 1] \in Nat
  BY <1>1, Powers
<1>4. \A j \in Lengths : marker[j] \in Nat
  BY WrappedIsNotFull
<1>6. CASE len < WordLen
  <2>1. rest = (Power[len] + 1) \div Power[len]
    BY <1>1, <1>6 DEF ShiftRight, Wrapped
  <2>2. Power[len] \in Nat /\ Power[len] > 1
    BY <1>1, <1>2
  <2> QED
    BY <2>1, <2>2
<1>7. CASE len = WordLen
  <2>1. marker[len] % 2 = 1
    BY <1>1, <1>7 DEF Wrapped
  <2>2. Turn(len) = len
    <3>1. \A j \in 1 .. len : marker[j] \in Nat
      BY <1>4, <1>7 DEF Lengths
    <3>2. /\ Turn(len) \in 0 .. len
          /\ \A j \in Turn(len) + 1 .. len : marker[j] % 2 = 0
      BY <3>1, TurnIs
    <3> QED
      BY <1>1, <2>1, <3>2
  <2>3. Advanced(len)[len] = Word(2 * marker[len - 1])
    BY <1>1, <1>7, <2>2 DEF Advanced
  <2>4. marker[len - 1] = Power[len - 1] + 1 /\ Power[len] = 2 * Power[len - 1]
        /\ Power[len - 1] \in Nat /\ Power[len - 1] > 1
    <3>1. len - 1 \in 1 .. WordLen /\ len - 1 < WordLen
      BY <1>1, <1>7
    <3> QED
      BY <1>1, <1>2, <1>7, <3>1 DEF Wrapped
  <2>5. Word(2 * marker[len - 1]) = 2
    <3> DEFINE q == Power[WordLen]
    <3>1. 2 * marker[len - 1] = q + 2 /\ q \in Nat /\ q > 2
      BY <1>7, <2>4
    <3> HIDE DEF q
    <3>2. (q + 2) % q = 2
      BY <3>1
    <3> QED
      BY <3>1, <3>2 DEF Word, q
  <2>6. limit \in {0, 1}
    BY <1>1, <1>7, <2>2 DEF OneShifted
  <2> QED
    BY <1>1, <2>2, <2>3, <2>5, <2>6
<1> QED
  BY <1>1, <1>6, <1>7

-----------------------------------------------------------------------------
(* Kraft's sum                                                             *)

EntryType == [num : Nat, len : Lengths, codeword : Nat]

IsShare(f, s) ==
  f = [i \in 0 .. Len(s) |-> IF i = 0 THEN 0 ELSE f[i - 1] + Power[WordLen - s[i].len]]

LEMMA ShareExists ==
  ASSUME NEW s \in Seq(EntryType)
  PROVE  \E f \in [0 .. Len(s) -> Nat] : IsShare(f, s) /\ Share(s) = f[Len(s)]
<1> DEFINE n == Len(s)
           g == [kx \in (1 .. n) \X Nat |-> kx[2] + Power[WordLen - s[kx[1]].len]]
<1>1. n \in Nat /\ \A k \in 1 .. n : Power[WordLen - s[k].len] \in Nat
  <2>1. n \in Nat /\ \A k \in 1 .. n : s[k] \in EntryType
    OBVIOUS
  <2>2. ASSUME NEW k \in 1 .. n PROVE Power[WordLen - s[k].len] \in Nat
    <3>1. s[k].len \in Lengths
      BY <2>1 DEF EntryType
    <3>2. WordLen - s[k].len \in 0 .. WordLen
      BY <3>1, CodebookAssumption DEF Lengths
    <3> QED
      BY <3>2, Powers
  <2> QED
    BY <2>1, <2>2
<1>2. g \in [(1 .. n) \X Nat -> Nat]
  BY <1>1
<1>3. PICK f \in [0 .. n -> Nat] :
         f[0] = 0 /\ \A k \in 1 .. n : f[k] = g[<<k, f[k - 1]>>]
  <2> HIDE DEF g, n
  <2>1. HasSeries(Nat, g, 0, n)
    BY <1>1, <1>2, SeriesExists
  <2> QED
    BY <2>1 DEF HasSeries
<1>4. IsShare(f, s)
  <2>1. ASSUME NEW i \in 0 .. n, i # 0 PROVE f[i] = f[i - 1] + Power[WordLen - s[i].len]
    <3>1. i \in 1 .. n /\ i - 1 \in 0 .. n
      BY <1>1, <2>1
    <3>2. f[i - 1] \in Nat
      BY <1>3, <3>1
    <3> QED
      BY <1>3, <3>1, <3>2
  <2>2. f = [i \in 0 .. n |-> f[i]]
    BY <1>3
  <2> HIDE DEF g
  <2> QED
    BY <1>3, <2>1, <2>2 DEF IsShare
<1>5. ASSUME NEW h, IsShare(h, s) PROVE h = f
  <2> DEFINE G == {i \in 0 .. n : h[i] = f[i]}
  <2>0. \A i \in 0 .. n : /\ h[i] = IF i = 0 THEN 0 ELSE h[i - 1] + Power[WordLen - s[i].len]
                          /\ f[i] = IF i = 0 THEN 0 ELSE f[i - 1] + Power[WordLen - s[i].len]
    BY <1>4, <1>5 DEF IsShare
  <2> HIDE DEF n, g
  <2>1. 0 \in G
    BY <1>1, <2>0
  <2>2. ASSUME NEW i \in 0 + 1 .. n, i - 1 \in G PROVE i \in G
    <3>1. i \in 0 .. n /\ i # 0 /\ h[i - 1] = f[i - 1]
      BY <1>1, <2>2
    <3> QED
      BY <2>0, <3>1
  <2> HIDE DEF G
  <2>3. \A i \in 0 .. n : i \in G
    <3>1. 0 \in Int /\ n \in Int
      BY <1>1
    <3> QED
      BY <2>1, <2>2, <3>1, UpTo
  <2>4. h = [i \in 0 .. n |-> h[i]]
    BY <1>5 DEF IsShare, n
  <2> QED
    BY <1>3, <2>3, <2>4 DEF G
<1> DEFINE sum == CHOOSE h : IsShare(h, s)
<1>6. sum = f
  BY <1>4, <1>5
<1>7. Share(s) = sum[n]
  BY DEF Share, IsShare
<1> QED
  BY <1>3, <1>4, <1>6, <1>7

LEMMA ShareOfNone ==
  Share(<<>>) = 0
<1>1. <<>> \in Seq(EntryType) /\ Len(<<>>) = 0
  OBVIOUS
<1>2. PICK f \in [0 .. 0 -> Nat] : IsShare(f, <<>>) /\ Share(<<>>) = f[0]
  BY <1>1, ShareExists
<1>3. f[0] = 0
  BY <1>1, <1>2 DEF IsShare
<1> QED
  BY <1>2, <1>3

LEMMA ShareOfNext ==
  ASSUME NEW s \in Seq(EntryType), NEW e \in EntryType
  PROVE  /\ Share(s) \in Nat
         /\ Share(Append(s, e)) = Share(s) + Power[WordLen - e.len]
<1> DEFINE n == Len(s)
           t == Append(s, e)
<1>1. n \in Nat /\ t \in Seq(EntryType) /\ Len(t) = n + 1
      /\ t[n + 1] = e /\ \A i \in 1 .. n : t[i] = s[i]
  OBVIOUS
<1>2. PICK f \in [0 .. n -> Nat] : IsShare(f, s) /\ Share(s) = f[n]
  BY ShareExists
<1>3. PICK h \in [0 .. n + 1 -> Nat] : IsShare(h, t) /\ Share(t) = h[n + 1]
  <2> HIDE DEF t
  <2>1. PICK h \in [0 .. Len(t) -> Nat] : IsShare(h, t) /\ Share(t) = h[Len(t)]
    BY <1>1, ShareExists
  <2> QED
    BY <1>1, <2>1
<1> HIDE DEF n, t
<1>4. \A i \in 0 .. n : f[i] = IF i = 0 THEN 0 ELSE f[i - 1] + Power[WordLen - s[i].len]
  BY <1>2 DEF IsShare, n
<1>5. \A i \in 0 .. n + 1 : h[i] = IF i = 0 THEN 0 ELSE h[i - 1] + Power[WordLen - t[i].len]
  BY <1>1, <1>3 DEF IsShare
<1> DEFINE G == {i \in 0 .. n : h[i] = f[i]}
<1>6. 0 \in G
  <2>1. 0 \in 0 .. n /\ 0 \in 0 .. n + 1
    BY <1>1
  <2>2. f[0] = 0 /\ h[0] = 0
    BY <1>4, <1>5, <2>1
  <2> QED
    BY <2>1, <2>2
<1>7. ASSUME NEW i \in 0 + 1 .. n, i - 1 \in G PROVE i \in G
  <2>1. i \in 0 .. n /\ i \in 0 .. n + 1 /\ i # 0 /\ i \in 1 .. n
    BY <1>1
  <2>2. h[i - 1] = f[i - 1] /\ t[i] = s[i]
    BY <1>1, <1>7, <2>1
  <2>3. f[i] = f[i - 1] + Power[WordLen - s[i].len] /\ h[i] = h[i - 1] + Power[WordLen - t[i].len]
    BY <1>4, <1>5, <2>1
  <2> QED
    BY <2>1, <2>2, <2>3
<1> HIDE DEF G
<1>8. \A i \in 0 .. n : i \in G
  <2>1. 0 \in Int /\ n \in Int
    BY <1>1
  <2> QED
    BY <1>6, <1>7, <2>1, UpTo
<1>9. h[n] = f[n] /\ f[n] \in Nat
  <2>1. n \in 0 .. n
    BY <1>1
  <2>2. n \in G
    BY <1>8, <2>1
  <2> QED
    BY <1>2, <2>1, <2>2 DEF G
<1>10. h[n + 1] = h[n] + Power[WordLen - e.len]
  <2>1. n + 1 \in 0 .. n + 1 /\ n + 1 # 0 /\ (n + 1) - 1 = n
    BY <1>1
  <2> QED
    BY <1>1, <1>5, <2>1
<1> QED
  BY <1>2, <1>3, <1>9, <1>10 DEF t

-----------------------------------------------------------------------------
(* The lookup table                                                        *)

Node == [next_idx : Nat, num : Nat]

(***************************************************************************)
(* What a subtree is made of, given those one level down: the leaf, or a   *)
(* branch and the two below it.                                            *)
(***************************************************************************)
Unfolded(len, below, word, idx) ==
  IF len > 0 /\ At(word, len) # {}
  THEN <<[next_idx |-> 0, num |-> (CHOOSE e \in At(word, len) : TRUE).num]>>
  ELSE LET zero == below[2 * word][idx + 1]
           one  == below[2 * word + 1][idx + 1 + Len(zero)]
       IN IF zero = <<>> \/ one = <<>> THEN <<>>
          ELSE <<Branch(idx, zero)>> \o zero \o one

LEMMA SubtreeExists ==
  ASSUME entries_ \in Seq(EntryType)
  PROVE  \A word \in Nat, idx \in Nat :
           /\ Subtree[WordLen][word][idx] = <<>>
           /\ \A len \in 0 .. WordLen - 1 :
                 /\ Subtree[len][word][idx] = Unfolded(len, Subtree[len + 1], word, idx)
                 /\ Subtree[len] \in [Nat -> [Nat -> Seq(Node)]]
                 /\ Subtree[len + 1] \in [Nat -> [Nat -> Seq(Node)]]
<1> DEFINE W == WordLen
           Level == [Nat -> [Nat -> Seq(Node)]]
           Last == [word \in Nat |-> [idx \in Nat |-> <<>>]]
           Up(len, F) == [word \in Nat |-> [idx \in Nat |-> Unfolded(len, F, word, idx)]]
           g == [kx \in (1 .. W) \X Level |-> Up(W - kx[1], kx[2])]
<1>1. W \in Nat
  BY CodebookAssumption
<1>2. ASSUME NEW len \in Nat, NEW F \in Level, NEW word \in Nat, NEW idx \in Nat
      PROVE  Unfolded(len, F, word, idx) \in Seq(Node)
  <2>1. CASE len > 0 /\ At(word, len) # {}
    <3>1. PICK e \in At(word, len) : e = CHOOSE d \in At(word, len) : TRUE
      BY <2>1
    <3>2. e.num \in Nat
      <4>1. PICK i \in DOMAIN entries_ : e = entries_[i]
        BY DEF At, Entries
      <4>2. entries_[i] \in EntryType
        BY <4>1
      <4> QED
        BY <4>1, <4>2 DEF EntryType
    <3> DEFINE leaf == [next_idx |-> 0, num |-> e.num]
    <3>3. leaf \in Node
      BY <3>2 DEF Node
    <3>4. Unfolded(len, F, word, idx) = <<leaf>>
      BY <2>1, <3>1 DEF Unfolded
    <3> HIDE DEF leaf
    <3> QED
      BY <3>3, <3>4
  <2>2. CASE ~(len > 0 /\ At(word, len) # {})
    <3> DEFINE zero == F[2 * word][idx + 1]
               one == F[2 * word + 1][idx + 1 + Len(zero)]
               branch == Branch(idx, zero)
    <3>1. zero \in Seq(Node)
      <4>1. 2 * word \in Nat /\ idx + 1 \in Nat
        OBVIOUS
      <4> QED
        BY <4>1
    <3>2. one \in Seq(Node)
      <4> HIDE DEF zero
      <4>1. 2 * word + 1 \in Nat /\ idx + 1 + Len(zero) \in Nat
        BY <3>1
      <4> QED
        BY <4>1
    <3>3. branch \in Node
      <4> HIDE DEF zero
      <4>1. idx + 1 + Len(zero) \in Nat
        BY <3>1
      <4> QED
        BY <4>1 DEF Branch, Node
    <3>4. Unfolded(len, F, word, idx) = IF zero = <<>> \/ one = <<>> THEN <<>>
                                  ELSE <<branch>> \o zero \o one
      BY <2>2, Zenon DEF Unfolded
    <3> HIDE DEF zero, one, branch
    <3>5. <<branch>> \o zero \o one \in Seq(Node)
      BY <3>1, <3>2, <3>3
    <3> QED
      BY <3>4, <3>5
  <2> QED
    BY <2>1, <2>2
<1>3. g \in [(1 .. W) \X Level -> Level] /\ Last \in Level
  <2>1. ASSUME NEW k \in 1 .. W, NEW F \in Level
        PROVE  Up(W - k, F) \in Level
    <3>1. W - k \in Nat
      BY <1>1
    <3>2. \A word \in Nat, idx \in Nat : Unfolded(W - k, F, word, idx) \in Seq(Node)
      BY <1>2, <3>1
    <3> QED
      BY <3>2
  <2>2. Last \in Level
    OBVIOUS
  <2> HIDE DEF Level, Last, W, Up
  <2> QED
    BY <2>1, <2>2
<1>4. PICK f \in [0 .. W -> Level] :
         f[0] = Last /\ \A k \in 1 .. W : f[k] = g[<<k, f[k - 1]>>]
  <2> HIDE DEF g, Level, Last, W
  <2>1. HasSeries(Level, g, Last, W)
    BY <1>1, <1>3, SeriesExists
  <2> QED
    BY <2>1 DEF HasSeries
<1> DEFINE Body(table, len) ==
             [word \in Nat |-> [idx \in Nat |->
                IF len = W THEN <<>> ELSE Unfolded(len, table[len + 1], word, idx)]]
           IsSubtree(table) == table = [len \in 0 .. W |-> Body(table, len)]
           T == [len \in 0 .. W |-> f[W - len]]
<1>5. ASSUME NEW len \in 0 .. W PROVE T[len] = Body(T, len) /\ T[len] \in Level
  <2>1. W - len \in 0 .. W /\ T[len] = f[W - len]
    BY <1>1
  <2>2. T[len] \in Level
    BY <1>4, <2>1
  <2>3. CASE len = W
    <3>1. W - len = 0
      BY <1>1, <2>3
    <3>2. T[len] = Last
      BY <1>4, <2>1, <3>1
    <3>3. Body(T, len) = Last
      BY <2>3
    <3> QED
      BY <2>2, <3>2, <3>3
  <2>4. CASE len # W
    <3>1. W - len \in 1 .. W /\ len + 1 \in 0 .. W /\ W - (len + 1) = (W - len) - 1
          /\ (W - len) - 1 \in 0 .. W /\ W - (W - len) = len
      BY <1>1, <2>4
    <3>2. f[W - len] = g[<<W - len, f[(W - len) - 1]>>] /\ f[(W - len) - 1] \in Level
      BY <1>4, <3>1
    <3>3. g[<<W - len, f[(W - len) - 1]>>] = Up(len, f[(W - len) - 1])
      <4> HIDE DEF Up, W, Level
      <4> QED
        BY <3>1, <3>2
    <3>4. T[len + 1] = f[(W - len) - 1]
      BY <3>1
    <3>5. Body(T, len) = Up(len, T[len + 1])
      <4> HIDE DEF T, W
      <4> QED
        BY <2>4
    <3> HIDE DEF T, Body, Up, g
    <3> QED
      BY <2>1, <2>2, <3>2, <3>3, <3>4, <3>5
  <2> QED
    BY <2>3, <2>4
<1>6. IsSubtree(T)
  <2>1. T = [len \in 0 .. W |-> T[len]]
    OBVIOUS
  <2> HIDE DEF T, Body
  <2> QED
    BY <1>5, <2>1
<1>7. Subtree = CHOOSE table : IsSubtree(table)
  BY DEF Subtree, Unfolded
<1>8. IsSubtree(Subtree)
  <2> HIDE DEF IsSubtree
  <2> QED
    BY <1>6, <1>7
<1>9. \A len \in 0 .. W : Subtree[len] = Body(Subtree, len)
  <2> HIDE DEF Body, W
  <2> QED
    BY <1>8
<1> DEFINE G == {k \in 0 .. W : Subtree[W - k] \in Level}
<1>10. 0 \in G
  <2>1. W \in 0 .. W /\ W - 0 = W /\ 0 \in 0 .. W
    BY <1>1
  <2>2. Subtree[W] = Last
    <3>1. Body(Subtree, W) = Last
      OBVIOUS
    <3> HIDE DEF Body, W, Last
    <3> QED
      BY <1>9, <2>1, <3>1
  <2> QED
    BY <1>3, <2>1, <2>2
<1>11. ASSUME NEW k \in 0 + 1 .. W, k - 1 \in G PROVE k \in G
  <2> DEFINE len == W - k
  <2>1. len \in 0 .. W /\ len + 1 = W - (k - 1) /\ k \in 0 .. W /\ len # W /\ len \in Nat
    BY <1>1
  <2>2. Subtree[len + 1] \in Level
    BY <1>11, <2>1
  <2>3. Subtree[len] = Up(len, Subtree[len + 1])
    <3>1. Body(Subtree, len) = Up(len, Subtree[len + 1])
      <4> HIDE DEF W, len
      <4> QED
        BY <2>1
    <3> HIDE DEF Body, W, Up, len
    <3> QED
      BY <1>9, <2>1, <3>1
  <2>4. Up(len, Subtree[len + 1]) \in Level
    <3> HIDE DEF len
    <3>1. \A word \in Nat, idx \in Nat : Unfolded(len, Subtree[len + 1], word, idx) \in Seq(Node)
      BY <1>2, <2>1, <2>2
    <3> QED
      BY <3>1
  <2> QED
    BY <2>1, <2>3, <2>4
<1>12. \A k \in 0 .. W : k \in G
  <2>1. 0 \in Int /\ W \in Int
    BY <1>1
  <2> HIDE DEF G, W
  <2> QED
    BY <1>10, <1>11, <2>1, UpTo
<1>13. ASSUME NEW len \in 0 .. W PROVE Subtree[len] \in Level
  <2>1. W - len \in 0 .. W /\ W - (W - len) = len
    BY <1>1
  <2>2. W - len \in G
    BY <1>12, <2>1
  <2> QED
    BY <2>1, <2>2
<1>14. ASSUME NEW word \in Nat, NEW idx \in Nat
       PROVE  /\ Subtree[W][word][idx] = <<>>
              /\ \A len \in 0 .. W - 1 :
                   /\ Subtree[len][word][idx] = Unfolded(len, Subtree[len + 1], word, idx)
                   /\ Subtree[len] \in Level
                   /\ Subtree[len + 1] \in Level
  <2>1. W \in 0 .. W /\ \A len \in 0 .. W - 1 : len \in 0 .. W /\ len + 1 \in 0 .. W /\ len # W
    BY <1>1
  <2>2. \A len \in 0 .. W : Subtree[len][word][idx] = Body(Subtree, len)[word][idx]
    <3> HIDE DEF Body
    <3> QED
      BY <1>9
  <2> HIDE DEF Level, G
  <2> QED
    BY <1>13, <2>1, <2>2
<1> QED
  BY <1>14

(***************************************************************************)
(* The recursion gets to a word of the full length if and only if there is *)
(* a word that begins with no shorter codeword.                            *)
(***************************************************************************)
Missed(v) == \A e \in Entries : e.len < WordLen => Above(v, WordLen - e.len) # e.codeword

LEMMA MissedAborts ==
  ASSUME entries_ \in Seq(EntryType), NEW v \in Words, Missed(v)
  PROVE  entries_lookup_ = <<>>
<1>1. WordLen \in Nat /\ v \in Nat /\ Power[WordLen] \in Nat \ {0} /\ v < Power[WordLen]
  <2>1. WordLen \in Nat
    BY CodebookAssumption
  <2> QED
    BY <2>1, Powers DEF Words
<1> DEFINE G == {k \in 0 .. WordLen : \A idx \in Nat : Subtree[WordLen - k][Above(v, k)][idx] = <<>>}
<1>2. 0 \in G
  <2>1. 0 \in 0 .. WordLen /\ WordLen - 0 = WordLen /\ Above(v, 0) = v
    BY <1>1, Shifts
  <2>2. \A idx \in Nat : Subtree[WordLen][v][idx] = <<>>
    BY <1>1, SubtreeExists
  <2> QED
    BY <2>1, <2>2
<1>3. ASSUME NEW k \in 0 + 1 .. WordLen, k - 1 \in G PROVE k \in G
  <2> DEFINE len == WordLen - k
             word == Above(v, k)
  <2>1. /\ len \in 0 .. WordLen - 1 /\ len + 1 = WordLen - (k - 1) /\ k \in 1 .. WordLen
        /\ k \in 0 .. WordLen /\ k - 1 \in 0 .. WordLen /\ WordLen - len = k /\ len < WordLen
    BY <1>1
  <2>2. word \in Nat /\ Above(v, k - 1) \in Nat /\ word = Above(v, k - 1) \div 2
    BY <1>1, <2>1, Shifts
  <2>3. \A idx \in Nat : Subtree[len + 1][Above(v, k - 1)][idx] = <<>>
    BY <1>3, <2>1
  <2>4. At(word, len) = {}
    BY <2>1 DEF At, Missed
  <2> HIDE DEF len, word
  <2>5. ASSUME NEW idx \in Nat PROVE Subtree[len][word][idx] = <<>>
    <3> DEFINE below == Subtree[len + 1]
               zero == below[2 * word][idx + 1]
               one == below[2 * word + 1][idx + 1 + Len(zero)]
    <3>1. Subtree[len][word][idx] = Unfolded(len, below, word, idx)
      BY <2>1, <2>2, SubtreeExists
    <3>2. below \in [Nat -> [Nat -> Seq(Node)]]
      BY <2>1, <2>2, SubtreeExists
    <3>3. Above(v, k - 1) = 2 * word \/ Above(v, k - 1) = 2 * word + 1
      BY <2>2
    <3>4. zero = <<>> \/ one = <<>>
      <4>1. CASE Above(v, k - 1) = 2 * word
        <5>1. idx + 1 \in Nat
          OBVIOUS
        <5> QED
          BY <2>3, <4>1, <5>1
      <4>2. CASE Above(v, k - 1) = 2 * word + 1
        <5>1. zero \in Seq(Node)
          <6>1. 2 * word \in Nat /\ idx + 1 \in Nat
            BY <2>2
          <6> HIDE DEF below
          <6> QED
            BY <3>2, <6>1
        <5> HIDE DEF zero
        <5>2. idx + 1 + Len(zero) \in Nat
          BY <5>1
        <5> QED
          BY <2>3, <4>2, <5>2
      <4> QED
        BY <3>3, <4>1, <4>2
    <3>5. Unfolded(len, below, word, idx) = IF zero = <<>> \/ one = <<>> THEN <<>>
                                            ELSE <<Branch(idx, zero)>> \o zero \o one
      <4> HIDE DEF below
      <4> QED
        BY <2>4, Zenon DEF Unfolded
    <3> HIDE DEF zero, one, below
    <3> QED
      BY <3>1, <3>4, <3>5
  <2> QED
    BY <2>1, <2>5 DEF len, word
<1> HIDE DEF G
<1>4. \A k \in 0 .. WordLen : k \in G
  <2>1. 0 \in Int /\ WordLen \in Int
    BY <1>1
  <2> QED
    BY <1>2, <1>3, <2>1, UpTo
<1>5. Subtree[WordLen - WordLen][Above(v, WordLen)][0] = <<>>
  <2>1. WordLen \in G /\ 0 \in Nat
    BY <1>1, <1>4
  <2> QED
    BY <2>1 DEF G
<1>6. Above(v, WordLen) = 0 /\ WordLen - WordLen = 0
  BY <1>1 DEF Above
<1> QED
  BY <1>5, <1>6 DEF entries_lookup_

LEMMA AbortsMissed ==
  ASSUME entries_ \in Seq(EntryType), entries_lookup_ = <<>>
  PROVE  \E v \in Words : Missed(v)
<1>1. WordLen \in Nat
  BY CodebookAssumption
<1>2. \A e \in Entries : e.len \in Lengths
  <2>1. \A i \in DOMAIN entries_ : entries_[i] \in EntryType
    OBVIOUS
  <2> QED
    BY <2>1 DEF Entries, EntryType
<1> DEFINE MissedFrom(v, len) ==
             \A e \in Entries : e.len \in len .. WordLen - 1 => Above(v, WordLen - e.len) # e.codeword
           G == {k \in 0 .. WordLen :
                   \A word \in Nat, idx \in Nat :
                     word < Power[WordLen - k] /\ Subtree[WordLen - k][word][idx] = <<>> =>
                       \E v \in Words : Above(v, k) = word /\ MissedFrom(v, WordLen - k)}
<1>3. 0 \in G
  <2>1. ASSUME NEW word \in Nat, word < Power[WordLen - 0]
        PROVE  \E v \in Words : Above(v, 0) = word /\ MissedFrom(v, WordLen - 0)
    <3>1. word \in Words /\ Above(word, 0) = word
      <4>1. WordLen - 0 = WordLen /\ Power[WordLen] \in Nat
        BY <1>1, Powers
      <4> QED
        BY <2>1, <4>1, Shifts DEF Words
    <3>2. MissedFrom(word, WordLen - 0)
      BY <1>1
    <3> QED
      BY <3>1, <3>2
  <2> QED
    BY <1>1, <2>1
<1>4. ASSUME NEW k \in 0 + 1 .. WordLen, k - 1 \in G PROVE k \in G
  <2> DEFINE len == WordLen - k
  <2>1. /\ len \in 0 .. WordLen - 1 /\ len + 1 = WordLen - (k - 1) /\ k \in 1 .. WordLen
        /\ k \in 0 .. WordLen /\ k - 1 \in 0 .. WordLen /\ WordLen - len = k
        /\ len + 1 \in 1 .. WordLen /\ (len + 1) - 1 = len /\ len \in 0 .. WordLen
    BY <1>1
  <2>2. \A word \in Nat, idx \in Nat :
          word < Power[len + 1] /\ Subtree[len + 1][word][idx] = <<>> =>
            \E v \in Words : Above(v, k - 1) = word /\ MissedFrom(v, len + 1)
    BY <1>4, <2>1
  <2> HIDE DEF len, MissedFrom
  <2>3. ASSUME NEW word \in Nat, NEW idx \in Nat,
               word < Power[len], Subtree[len][word][idx] = <<>>
        PROVE  \E v \in Words : Above(v, k) = word /\ MissedFrom(v, len)
    <3> DEFINE below == Subtree[len + 1]
               zero == below[2 * word][idx + 1]
               one == below[2 * word + 1][idx + 1 + Len(zero)]
    <3>1. Unfolded(len, below, word, idx) = <<>> /\ below \in [Nat -> [Nat -> Seq(Node)]]
      BY <2>1, <2>3, SubtreeExists
    <3> HIDE DEF below
    <3>2. ~(len > 0 /\ At(word, len) # {})
      <4>1. SUFFICES ASSUME len > 0 /\ At(word, len) # {} PROVE FALSE
        OBVIOUS
      <4>2. Unfolded(len, below, word, idx) =
              <<[next_idx |-> 0, num |-> (CHOOSE e \in At(word, len) : TRUE).num]>>
        BY <4>1 DEF Unfolded
      <4> QED
        BY <3>1, <4>2
    <3>3. zero \in Seq(Node)
      <4>1. 2 * word \in Nat /\ idx + 1 \in Nat
        OBVIOUS
      <4> QED
        BY <3>1, <4>1
    <3>4. idx + 1 + Len(zero) \in Nat
      <4> HIDE DEF zero
      <4> QED
        BY <3>3
    <3>5. one \in Seq(Node)
      <4> HIDE DEF zero
      <4>1. 2 * word + 1 \in Nat
        OBVIOUS
      <4> QED
        BY <3>1, <3>4, <4>1
    <3>6. zero = <<>> \/ one = <<>>
      <4> DEFINE branch == Branch(idx, zero)
      <4>1. Unfolded(len, below, word, idx) = IF zero = <<>> \/ one = <<>> THEN <<>>
                                              ELSE <<branch>> \o zero \o one
        BY <3>2, Zenon DEF Unfolded
      <4>2. branch \in Node
        <5> HIDE DEF zero
        <5> QED
          BY <3>4 DEF Branch, Node
      <4> HIDE DEF zero, one, branch
      <4>3. Len(<<branch>> \o zero \o one) = 1 + Len(zero) + Len(one)
            /\ Len(zero) \in Nat /\ Len(one) \in Nat
        BY <3>3, <3>5, <4>2
      <4>4. <<branch>> \o zero \o one # <<>>
        <5>1. 1 + Len(zero) + Len(one) # 0
          BY <4>3
        <5> QED
          BY <4>3, <5>1
      <4> QED
        BY <3>1, <4>1, <4>4
    <3>7. PICK half \in {2 * word, 2 * word + 1} : \E i \in Nat : below[half][i] = <<>>
      <4>1. idx + 1 \in Nat
        OBVIOUS
      <4> HIDE DEF below
      <4> QED
        BY <3>4, <3>6, <4>1
    <3>8. half \in Nat /\ half < Power[len + 1]
      <4>1. Power[len + 1] = 2 * Power[len] /\ Power[len] \in Nat
        BY <2>1, Powers
      <4> QED
        BY <2>3, <4>1
    <3>9. PICK v \in Words : Above(v, k - 1) = half /\ MissedFrom(v, len + 1)
      BY <2>2, <3>7, <3>8 DEF below
    <3>10. v \in Nat
      BY DEF Words
    <3>11. Above(v, k) = word
      <4>1. Above(v, k) = half \div 2
        BY <2>1, <3>9, <3>10, Shifts
      <4> QED
        BY <4>1
    <3>12. MissedFrom(v, len)
      <4>1. ASSUME NEW e \in Entries, e.len \in len .. WordLen - 1
            PROVE  Above(v, WordLen - e.len) # e.codeword
        <5>1. CASE e.len = len
          <6>1. len > 0
            BY <1>2, <5>1 DEF Lengths
          <6>2. e \notin At(word, len)
            BY <3>2, <6>1
          <6>3. e.codeword # word
            BY <5>1, <6>2 DEF At
          <6> QED
            BY <2>1, <3>11, <5>1, <6>3
        <5>2. CASE e.len # len
          <6>1. e.len \in len + 1 .. WordLen - 1
            BY <1>1, <2>1, <4>1, <5>2
          <6> QED
            BY <3>9, <6>1 DEF MissedFrom
        <5> QED
          BY <5>1, <5>2
      <4> QED
        BY <4>1 DEF MissedFrom
    <3> QED
      BY <3>11, <3>12
  <2> QED
    BY <2>1, <2>3 DEF len
<1>5. \A k \in 0 .. WordLen : k \in G
  <2>1. 0 \in Int /\ WordLen \in Int
    BY <1>1
  <2> HIDE DEF G
  <2> QED
    BY <1>3, <1>4, <2>1, UpTo
<1>6. WordLen \in G /\ WordLen - WordLen = 0
  <2> HIDE DEF G
  <2> QED
    BY <1>1, <1>5
<1>7. 0 < Power[0] /\ Subtree[0][0][0] = <<>> /\ 0 \in Nat
  BY Powers DEF entries_lookup_
<1>8. PICK v \in Words : MissedFrom(v, 0)
  <2> HIDE DEF MissedFrom
  <2> QED
    BY <1>6, <1>7
<1>9. Missed(v)
  <2>1. \A e \in Entries : e.len < WordLen => e.len \in 0 .. WordLen - 1
    BY <1>1, <1>2 DEF Lengths
  <2> QED
    BY <1>8, <2>1 DEF Missed
<1> QED
  BY <1>9

-----------------------------------------------------------------------------
(* The invariant                                                           *)

(***************************************************************************)
(* While no marker has wrapped and been taken again, the markers are the   *)
(* leftmost free nodes; what is free and the codewords share the tree.     *)
(***************************************************************************)
IsAssigned(n) ==
  /\ Marks(n)
  /\ \A i \in DOMAIN entries_ : IsTaken(entries_[i], n)
  /\ \A i, j \in DOMAIN entries_ : i < j => Apart(entries_[i], entries_[j])
  /\ \A v \in Words :
       \/ InFree(v, n)
       \/ \E i \in DOMAIN entries_ : Above(v, WordLen - entries_[i].len) = entries_[i].codeword
  /\ \E f : IsSum(f, n) /\ Share(entries_) + f[WordLen] = Power[WordLen]

CInv ==
  /\ CTypeOK
  /\ entries_ \in Seq(EntryType)
  /\ status \in {"assigning", "assigned"} =>
       (\E n : IsAssigned(n)) \/ (FullLength /\ Wrapped(marker))
  /\ VerdictIsRight

\* The tree is found full if no node is left, and is not if some are.
LEMMA FullIsRight ==
  ASSUME NEW n, Marks(n)
  PROVE  /\ Full => n[WordLen] = Power[WordLen] /\ \A j \in Depths : ~IsFree(n, j)
         /\ ~Full => \E j \in Depths : IsFree(n, j)
<1>0. MarksOK(n) /\ n[0] \in {0, 1}
  BY DEF Marks
<1>1. /\ WordLen \in Nat /\ WordLen \in Lengths /\ WordLen - 1 \in Lengths /\ WordLen - 1 < WordLen
      /\ WordLen \in Depths /\ WordLen - 1 \in Depths /\ 0 \in Depths
      /\ Depths = 0 .. WordLen /\ Lengths = 1 .. WordLen
  BY CodebookAssumption DEF Lengths, Depths
<1>2. ASSUME Full PROVE n[WordLen] = Power[WordLen]
  <2>1. Word(n[WordLen]) = 0
    <3>1. marker[WordLen] = Word(Power[WordLen])
      BY <1>1, <1>2 DEF Full
    <3>2. Word(Power[WordLen]) = 0
      BY <1>1, WordIs
    <3> QED
      BY <1>1, <3>1, <3>2, MarkerIs
  <2>2. n[WordLen] \in Nat /\ n[WordLen] <= Power[WordLen] /\ Power[WordLen] \in Nat
    BY <1>1, MarkerIs, Powers
  <2>3. n[WordLen] < Power[WordLen] => n[WordLen] = 0
    BY <2>1, <2>2, WordIs
  <2>4. n[WordLen - 1] # 0
    <3>1. marker[WordLen - 1] = Word(Power[WordLen - 1])
      BY <1>1, <1>2 DEF Full
    <3>2. Power[WordLen - 1] \in Nat \ {0} /\ Power[WordLen - 1] < Power[WordLen]
      BY <1>1, PowersGrow
    <3>3. marker[WordLen - 1] = Power[WordLen - 1]
      BY <3>1, <3>2, WordIs
    <3>4. marker[WordLen - 1] = n[WordLen - 1]
      BY <1>1, MarkerIs
    <3> QED
      BY <3>2, <3>3, <3>4
  <2>5. n[WordLen] = 2 * n[WordLen - 1] \/ (n[WordLen] % 2 = 1 /\ n[WordLen] < 2 * n[WordLen - 1])
    BY <1>0, <1>1 DEF MarksOK
  <2>6. n[WordLen - 1] \in Nat
    BY <1>1, MarkerIs
  <2> QED
    BY <2>2, <2>3, <2>4, <2>5, <2>6
<1>3. ASSUME Full PROVE \A j \in Depths : ~IsFree(n, j)
  BY <1>0, <1>1, <1>2, <1>3, FullAbove
<1>4. ASSUME \A j \in Depths : ~IsFree(n, j) PROVE Full
  <2>1. n[0] = 1
    BY <1>0, <1>1, <1>4 DEF IsFree
  <2>2. ASSUME NEW j \in 1 .. WordLen PROVE n[j] % 2 = 0
    <3>1. j \in Depths /\ j # 0 /\ j \in Lengths
      BY <1>1
    <3>2. n[j] % 2 # 1 /\ n[j] \in Nat
      BY <1>4, <3>1, MarkerIs DEF IsFree
    <3> QED
      BY <3>2
  <2>3. \A j \in 0 .. WordLen : n[j] = Power[j]
    BY <1>0, <1>1, <2>1, <2>2, FullBelow
  <2>4. \A j \in Lengths : marker[j] = Word(Power[j])
    <3>1. \A j \in Lengths : marker[j] = Word(n[j]) /\ j \in 0 .. WordLen
      BY <1>1, MarkerIs
    <3> QED
      BY <2>3, <3>1
  <2> QED
    BY <2>4 DEF Full
<1> QED
  BY <1>2, <1>3, <1>4

\* What is free is at first the whole tree.
LEMMA FirstAssigned ==
  ASSUME CInit
  PROVE  IsAssigned([j \in Depths |-> 0])
<1> DEFINE n == [j \in Depths |-> 0]
<1>1. WordLen \in Nat /\ 0 \in Depths /\ entries_ = <<>> /\ DOMAIN entries_ = {}
      /\ Depths = 0 .. WordLen /\ Lengths = 1 .. WordLen
  BY CodebookAssumption DEF Depths, Lengths, CInit
<1>2. MarksOK(n)
  <2>1. \A j \in Depths : 0 <= Power[j]
    BY <1>1, Powers
  <2>2. \A j \in Lengths : j \in Depths /\ j - 1 \in Depths
    BY <1>1
  <2> QED
    BY <2>1, <2>2 DEF MarksOK
<1>3. Marks(n)
  <2>1. Word(0) = 0
    <3>1. 0 < Power[WordLen]
      BY <1>1, Powers
    <3> QED
      BY <3>1, WordIs
  <2>2. \A j \in Lengths : j \in Depths
    BY <1>1
  <2>3. marker = [j \in Lengths |-> Word(n[j])]
    BY <2>1, <2>2 DEF CInit
  <2> QED
    BY <1>1, <1>2, <2>3 DEF Marks
<1>4. ASSUME NEW v \in Words PROVE InFree(v, n)
  <2>1. v \in Nat /\ v < Power[WordLen] /\ Power[WordLen] \in Nat \ {0} /\ WordLen - 0 = WordLen
    BY <1>1, Powers DEF Words
  <2>2. Above(v, WordLen - 0) = 0
    BY <2>1 DEF Above
  <2>3. IsFree(n, 0) /\ n[0] = 0
    BY <1>1 DEF IsFree
  <2> QED
    BY <1>1, <2>2, <2>3 DEF InFree
<1>5. PICK f : IsSum(f, n)
  BY SumExists
<1>6. f[WordLen] = Power[WordLen]
  <2> DEFINE G == {k \in Depths : f[k] = Power[WordLen]}
  <2>1. 0 \in G
    <3>1. f[0] = Power[WordLen - 0]
      BY <1>1, <1>5 DEF IsSum, Size, IsFree
    <3> QED
      BY <1>1, <3>1
  <2>2. ASSUME NEW k \in 0 + 1 .. WordLen, k - 1 \in G PROVE k \in G
    <3>1. k \in Lengths /\ k \in Depths /\ k # 0
      BY <1>1
    <3>2. ~IsFree(n, k)
      BY <3>1 DEF IsFree
    <3>3. f[k] = f[k - 1] + 0 /\ Power[WordLen] \in Nat
      BY <1>1, <1>5, <3>1, <3>2, Powers DEF IsSum, Size
    <3> QED
      BY <2>2, <3>1, <3>3
  <2> HIDE DEF G
  <2>3. \A k \in 0 .. WordLen : k \in G
    <3>1. 0 \in Int /\ WordLen \in Int
      BY <1>1
    <3> QED
      BY <2>1, <2>2, <3>1, UpTo
  <2>4. WordLen \in G
    BY <1>1, <2>3
  <2> QED
    BY <2>4 DEF G
<1>7. Share(entries_) + f[WordLen] = Power[WordLen]
  <2>1. Share(entries_) = 0 /\ Power[WordLen] \in Nat
    BY <1>1, ShareOfNone, Powers
  <2> QED
    BY <1>6, <2>1
<1> HIDE DEF n
<1>8. IsAssigned(n)
  BY <1>1, <1>3, <1>4, <1>5, <1>7 DEF IsAssigned
<1> QED
  BY <1>8 DEF n

\* Taking a node for the next entry keeps all of it.
LEMMA NextAssigned ==
  ASSUME NEW n, IsAssigned(n), entries_ \in Seq(EntryType),
         NEW len \in Lengths, n[len] < Power[len],
         entries_' = Append(entries_, NewEntry(len)), NewEntry(len) \in EntryType,
         marker' = Taken(len)
  PROVE  \E m : IsAssigned(m)'
<1> DEFINE e == NewEntry(len)
           last == Len(entries_) + 1
<1>1. /\ Marks(n) /\ MarksOK(n) /\ WordLen \in Nat /\ len \in Depths
      /\ Lengths = 1 .. WordLen
  BY CodebookAssumption DEF IsAssigned, Marks, Lengths, Depths
<1>2. PICK m, bot : /\ Takes(n, m, Turn(len), len, bot)
                    /\ Taken(len) = [j \in Lengths |-> Word(m[j])]
  BY <1>1, TakeStep
<1>3. e.len = len /\ e.codeword = n[len]
  <2>1. marker[len] = n[len]
    BY <1>1, MarkerIs
  <2> QED
    BY <2>1 DEF NewEntry
<1>4. e \in EntryType
  OBVIOUS
<1> HIDE DEF e
<1>5. /\ DOMAIN entries_' = DOMAIN entries_ \union {last}
      /\ entries_'[last] = e /\ \A i \in DOMAIN entries_ : entries_'[i] = entries_[i] /\ i < last
      /\ last \notin DOMAIN entries_ /\ entries_' # <<>>
  BY <1>4 DEF e
<1> HIDE DEF last
<1>6. Marks(m)'
  <2>1. MarksOK(m) /\ m[0] = 1
    BY <1>1, <1>2, TakesOK DEF Takes
  <2> QED
    BY <1>2, <1>5, <2>1 DEF Marks
<1>7. \A i \in DOMAIN entries_' : IsTaken(entries_'[i], m)
  <2>1. \A i \in DOMAIN entries_ : IsTaken(entries_[i], m)
    BY <1>1, <1>2, TakenStays DEF IsAssigned
  <2>2. IsTaken(e, m)
    BY <1>1, <1>2, <1>3, NewIsTaken
  <2> QED
    BY <1>5, <2>1, <2>2
<1>8. ASSUME NEW i \in DOMAIN entries_', NEW j \in DOMAIN entries_', i < j
      PROVE  Apart(entries_'[i], entries_'[j])
  <2>0. \A k \in DOMAIN entries_' : k \in Int
    BY <1>4 DEF e
  <2>1. i \in DOMAIN entries_
    <3>1. i # last
      <4>1. SUFFICES ASSUME i = last PROVE FALSE
        OBVIOUS
      <4>2. j = last \/ j < last
        BY <1>5
      <4> QED
        BY <1>8, <2>0, <4>1, <4>2
    <3> QED
      BY <1>5, <3>1
  <2>2. CASE j \in DOMAIN entries_
    BY <1>5, <1>8, <2>1, <2>2 DEF IsAssigned
  <2>3. CASE j = last
    <3>1. IsTaken(entries_[i], n)
      BY <2>1 DEF IsAssigned
    <3>2. Apart(entries_[i], e)
      BY <1>1, <1>3, <3>1, NewIsApart
    <3> QED
      BY <1>5, <2>1, <2>3, <3>2
  <2> QED
    BY <1>5, <2>2, <2>3
<1>9. ASSUME NEW v \in Words
      PROVE  \/ InFree(v, m)
             \/ \E i \in DOMAIN entries_' :
                  Above(v, WordLen - entries_'[i].len) = entries_'[i].codeword
  <2>1. CASE InFree(v, n)
    <3>1. v \in Nat
      BY DEF Words
    <3>2. InFree(v, m) \/ Above(v, WordLen - len) = n[len]
      BY <1>1, <1>2, <2>1, <3>1, FreeOrTaken
    <3> QED
      BY <1>3, <1>5, <3>2
  <2>2. CASE \E i \in DOMAIN entries_ :
               Above(v, WordLen - entries_[i].len) = entries_[i].codeword
    BY <1>5, <2>2
  <2> QED
    BY <2>1, <2>2 DEF IsAssigned
<1>10. \E h : IsSum(h, m) /\ Share(entries_') + h[WordLen] = Power[WordLen]
  <2>1. PICK f : IsSum(f, n) /\ Share(entries_) + f[WordLen] = Power[WordLen]
    BY DEF IsAssigned
  <2>2. PICK h : IsSum(h, m)
    BY SumExists
  <2>3. f[WordLen] = h[WordLen] + Power[WordLen - len]
    BY <1>1, <1>2, <2>1, <2>2, SumStays
  <2>4. Share(entries_') = Share(entries_) + Power[WordLen - len] /\ Share(entries_) \in Nat
    <3>1. /\ Share(entries_) \in Nat
          /\ Share(Append(entries_, e)) = Share(entries_) + Power[WordLen - e.len]
      BY <1>4, ShareOfNext
    <3> QED
      BY <1>3, <3>1 DEF e
  <2>5. h[WordLen] \in Nat /\ Power[WordLen - len] \in Nat /\ Power[WordLen] \in Nat
    <3>1. WordLen \in Depths /\ WordLen - len \in 0 .. WordLen
      BY <1>1 DEF Depths
    <3>2. h[WordLen] \in Nat
      BY <2>2, <3>1 DEF IsSum
    <3> QED
      BY <3>1, <3>2, Powers DEF Depths
  <2> QED
    BY <2>1, <2>2, <2>3, <2>4, <2>5
<1>11. IsAssigned(m)'
  BY <1>6, <1>7, <1>8, <1>9, <1>10 DEF IsAssigned
<1> QED
  BY <1>11

\* The table is built if and only if no codeword has the full length.
LEMMA TableIsRight ==
  ASSUME NEW n, IsAssigned(n), CTypeOK, entries_ \in Seq(EntryType), Full
  PROVE  entries_lookup_ = <<>> <=> FullLength
<1>1. /\ Marks(n) /\ WordLen \in Nat
      /\ \A i \in DOMAIN entries_ :
           /\ entries_[i] \in EntryType /\ entries_[i] \in Entries
           /\ entries_[i].codeword \in Words /\ entries_[i].len \in Lengths
           /\ entries_[i].len <= WordLen /\ entries_[i].len \in Int
  <2>1. \A i \in DOMAIN entries_ : entries_[i] \in EntryType /\ entries_[i] \in Entries
    BY DEF Entries
  <2>2. \A x \in Lengths : x <= WordLen /\ x \in Int
    BY CodebookAssumption DEF Lengths
  <2> QED
    BY <2>1, <2>2, CodebookAssumption DEF IsAssigned, CTypeOK
<1>2. ASSUME entries_lookup_ = <<>> PROVE FullLength
  <2>1. PICK v \in Words : Missed(v)
    BY <1>2, AbortsMissed
  <2>2. ~InFree(v, n)
    BY <1>1, FullIsRight DEF InFree
  <2>3. PICK i \in DOMAIN entries_ :
           Above(v, WordLen - entries_[i].len) = entries_[i].codeword
    BY <2>2 DEF IsAssigned
  <2>4. ~(entries_[i].len < WordLen)
    BY <1>1, <2>1, <2>3 DEF Missed
  <2>5. entries_[i].len = WordLen
    BY <1>1, <2>4
  <2> QED
    BY <1>1, <2>5 DEF FullLength
<1>3. ASSUME FullLength PROVE entries_lookup_ = <<>>
  <2>1. PICK i \in DOMAIN entries_ : entries_[i].len = WordLen
    BY <1>3 DEF FullLength, Entries
  <2> DEFINE v == entries_[i].codeword
  <2>2. v \in Words
    BY <1>1
  <2>3. ASSUME NEW j \in DOMAIN entries_, entries_[j].len < WordLen
        PROVE  Above(v, WordLen - entries_[j].len) # entries_[j].codeword
    <3>1. i \in Int /\ j \in Int /\ i # j
      BY <1>1, <2>1, <2>3
    <3>2. CASE i < j
      <4>1. Apart(entries_[i], entries_[j])
        BY <3>2 DEF IsAssigned
      <4>2. ~(entries_[i].len <= entries_[j].len)
        BY <1>1, <2>1, <2>3
      <4> QED
        BY <2>1, <4>1, <4>2 DEF Apart
    <3>3. CASE j < i
      <4>1. Apart(entries_[j], entries_[i])
        BY <3>3 DEF IsAssigned
      <4>2. entries_[j].len <= entries_[i].len
        BY <1>1, <2>1, <2>3
      <4> QED
        BY <2>1, <4>1, <4>2 DEF Apart
    <3> QED
      BY <3>1, <3>2, <3>3
  <2>4. Missed(v)
    BY <2>3 DEF Missed, Entries
  <2> HIDE DEF v
  <2> QED
    BY <2>2, <2>4, MissedAborts
<1> QED
  BY <1>2, <1>3

LEMMA InitCInv ==
  CInit => CInv
<1>1. SUFFICES ASSUME CInit PROVE CInv
  OBVIOUS
<1>2. Entries = {}
  BY <1>1 DEF CInit, Entries
<1>3. CTypeOK
  <2>1. \A j \in Lengths : marker[j] \in Words
    <3>1. 0 \in Words
      BY CodebookAssumption, Powers DEF Words
    <3> QED
      BY <1>1, <3>1 DEF CInit
  <2>2. marker = [j \in Lengths |-> marker[j]]
    BY <1>1 DEF CInit
  <2>3. marker \in [Lengths -> Words]
    BY <2>1, <2>2
  <2> QED
    BY <1>1, <1>2, <2>3, CodebookAssumption DEF CInit, CTypeOK
<1>4. VerdictIsRight
  BY <1>1 DEF CInit, VerdictIsRight
<1>5. \E n : IsAssigned(n)
  BY <1>1, FirstAssigned
<1>6. entries_ \in Seq(EntryType)
  BY <1>1 DEF CInit
<1> QED
  BY <1>3, <1>4, <1>5, <1>6 DEF CInv

\* The entries do not change.
LEMMA SameEntries ==
  ASSUME CInv, UNCHANGED <<entries_, marker>>
  PROVE  /\ entries_' \in Seq(EntryType)
         /\ \A n : IsAssigned(n) => IsAssigned(n)'
         /\ FullLength' <=> FullLength
<1>1. \A n : Marks(n) => Marks(n)'
  BY DEF Marks
<1>2. FullLength' <=> FullLength
  BY DEF FullLength, Entries
<1>3. \A n : IsAssigned(n) => IsAssigned(n)'
  BY <1>1 DEF IsAssigned
<1> QED
  BY <1>2, <1>3 DEF CInv

LEMMA SkipEntryCInv ==
  ASSUME CInv, SkipEntry
  PROVE  CInv'
<1>1. CTypeOK'
  <2>1. num_entries_ \in Nat /\ num_entries_' = num_entries_ + 1 /\ num_entries_' <= MaxEntries
    BY CodebookAssumption DEF CInv, CTypeOK, SkipEntry
  <2>2. \A e \in Entries : e.num \in 0 .. num_entries_' - 1
    BY <2>1 DEF CInv, CTypeOK
  <2>3. Entries' = Entries
    BY DEF SkipEntry, Entries
  <2> QED
    BY <2>1, <2>2, <2>3, CodebookAssumption DEF CInv, CTypeOK, SkipEntry
<1>2. VerdictIsRight'
  BY DEF SkipEntry, VerdictIsRight
<1> QED
  BY <1>1, <1>2, SameEntries DEF CInv, SkipEntry

LEMMA AssignCodewordCInv ==
  ASSUME CInv, NEW len \in Lengths, AssignCodeword(len)
  PROVE  CInv'
<1> DEFINE e == NewEntry(len)
<1>1. WordLen \in Nat /\ Lengths = 1 .. WordLen /\ len \in Depths
  BY CodebookAssumption DEF Lengths, Depths
<1>2. /\ num_entries_ \in Nat /\ num_entries_' = num_entries_ + 1 /\ num_entries_' <= MaxEntries
      /\ entries_' = Append(entries_, e) /\ entries_ \in Seq(EntryType)
  BY CodebookAssumption DEF CInv, CTypeOK, AssignCodeword
<1>3. e.num \in 0 .. num_entries_' - 1 /\ e.len = len /\ e.codeword \in Words /\ e \in EntryType
  <2>1. marker[len] \in Words
    BY DEF CInv, CTypeOK
  <2> QED
    BY <1>2, <2>1 DEF NewEntry, EntryType, Words
<1>4. entries_' \in Seq(EntryType) /\ Entries' = Entries \union {e}
  <2> HIDE DEF e
  <2> QED
    BY <1>2, <1>3 DEF Entries
<1>5. \A d \in Entries' : d.num \in 0 .. num_entries_' - 1 /\ d.len \in Lengths /\ d.codeword \in Words
  <2>1. \A d \in Entries : d.num \in 0 .. num_entries_' - 1 /\ d.len \in Lengths /\ d.codeword \in Words
    BY <1>2 DEF CInv, CTypeOK
  <2> HIDE DEF e
  <2> QED
    BY <1>3, <1>4, <2>1
<1>6. len = WordLen => FullLength'
  <2> HIDE DEF e
  <2> QED
    BY <1>3, <1>4 DEF FullLength
<1>7. PICK rest \in ShiftRight(marker[len], len), limit \in OneShifted(Turn(len)) :
        IF \/ rest # 0
           \/ Turn(len) > 0 /\ Advanced(len)[Turn(len)] > limit
        THEN status' = "overspecified" /\ UNCHANGED marker
        ELSE marker' = Taken(len) /\ UNCHANGED status
  BY DEF AssignCodeword
<1>8. status = "assigning" /\ dimensions_' = dimensions_ /\ num_lookup_values_' = num_lookup_values_
  BY DEF AssignCodeword
<1> DEFINE Fails == \/ rest # 0
                    \/ Turn(len) > 0 /\ Advanced(len)[Turn(len)] > limit
<1> HIDE DEF e
<1>9. CASE Fails
  <2>1. status' = "overspecified" /\ marker' = marker
    BY <1>7, <1>9
  <2>2. CTypeOK'
    <3>1. marker' \in [Lengths -> Words]
      BY <2>1 DEF CInv, CTypeOK
    <3> HIDE DEF Fails
    <3> QED
      BY <1>2, <1>5, <1>8, <2>1, <3>1, CodebookAssumption DEF CInv, CTypeOK
  <2>3. Share(entries_') > Power[WordLen] \/ FullLength'
    <3>1. CASE len = WordLen
      BY <1>6, <3>1
    <3>2. CASE FullLength
      BY <1>4, <3>2 DEF FullLength
    <3>3. CASE len # WordLen /\ ~FullLength
      <4>1. PICK n : IsAssigned(n)
        BY <1>8, <3>3 DEF CInv
      <4>2. Marks(n) /\ MarksOK(n)
        BY <4>1 DEF IsAssigned, Marks
      <4>3. n[len] = Power[len]
        <5>1. len < WordLen
          BY <1>1, <3>3
        <5> QED
          BY <1>9, <4>2, <5>1, ChecksAreRight
      <4>4. PICK f : IsSum(f, n) /\ Share(entries_) + f[WordLen] = Power[WordLen]
        BY <4>1 DEF IsAssigned
      <4>5. f[WordLen] < Power[WordLen - len]
        BY <1>1, <4>2, <4>3, <4>4, SumOfFull
      <4>6. Share(entries_) \in Nat
            /\ Share(entries_') = Share(entries_) + Power[WordLen - len]
        BY <1>2, <1>3, ShareOfNext
      <4>7. f[WordLen] \in Nat /\ Power[WordLen - len] \in Nat
        <5>1. WordLen \in Depths /\ WordLen - len \in 0 .. WordLen
          BY <1>1 DEF Depths
        <5>2. f[WordLen] \in Nat
          BY <4>4, <5>1 DEF IsSum
        <5> QED
          BY <5>1, <5>2, Powers
      <4> QED
        BY <4>4, <4>5, <4>6, <4>7
    <3> QED
      BY <3>1, <3>2, <3>3
  <2>4. VerdictIsRight'
    BY <2>1, <2>3 DEF VerdictIsRight
  <2> QED
    BY <1>4, <2>1, <2>2, <2>4 DEF CInv
<1>10. CASE ~Fails
  <2>1. status' = "assigning" /\ marker' = Taken(len)
    BY <1>7, <1>8, <1>10
  <2>2. ~(FullLength /\ Wrapped(marker))
    BY <1>10, WrappedFails
  <2>3. PICK n : IsAssigned(n)
    BY <1>8, <2>2 DEF CInv
  <2>4. Marks(n) /\ n[len] \in Nat /\ n[len] <= Power[len] /\ Power[len] \in Nat
    BY <1>1, <2>3, MarkerIs, Powers DEF IsAssigned, Depths
  <2>5. /\ marker' \in [Lengths -> Words]
        /\ (\E m : IsAssigned(m)') \/ (FullLength' /\ Wrapped(marker'))
    <3>1. CASE n[len] < Power[len]
      <4>1. PICK m, bot : /\ Takes(n, m, Turn(len), len, bot)
                          /\ Taken(len) = [j \in Lengths |-> Word(m[j])]
        BY <2>4, <3>1, TakeStep
      <4>2. \A j \in Lengths : Word(m[j]) \in Words
        <5>1. \A j \in Lengths : m[j] \in Nat
          BY <4>1, <1>1 DEF Takes, Depths
        <5> QED
          BY <5>1, WordIs
      <4>3. \E k : IsAssigned(k)'
        BY <1>2, <1>3, <2>1, <2>3, <3>1, NextAssigned DEF e
      <4> QED
        BY <2>1, <4>1, <4>2, <4>3
    <3>2. CASE n[len] = Power[len]
      <4>1. len = WordLen
        <5>1. ~(len < WordLen)
          BY <1>10, <2>4, <3>2, ChecksAreRight
        <5> QED
          BY <1>1, <5>1
      <4>2. Wrapped(marker')
        BY <2>1, <2>4, <3>2, <4>1, WordWraps
      <4>3. marker' \in [Lengths -> Words]
        <5>1. \A j \in 1 .. WordLen : (IF j < WordLen THEN Power[j] + 1 ELSE 1) \in Words
          <6>1. 0 < WordLen - 1 /\ WordLen - 1 \in Depths /\ WordLen \in 1 .. WordLen
            BY CodebookAssumption DEF Depths
          <6>2. Power[WordLen] = 2 * Power[WordLen - 1] /\ Power[WordLen - 1] \in Nat /\ Power[WordLen - 1] > 1
            <7>1. Power[0] < Power[WordLen - 1] /\ Power[0] = 1
              <8>1. 0 \in Depths
                BY <1>1 DEF Depths
              <8> QED
                BY <6>1, <8>1, PowersGrow, Powers
            <7> QED
              BY <6>1, <7>1, Powers DEF Depths
          <6>3. \A j \in 1 .. WordLen : j < WordLen => Power[j] <= Power[WordLen - 1] /\ Power[j] \in Nat
            <7>1. \A j \in 1 .. WordLen : j \in Depths /\ (j < WordLen => j = WordLen - 1 \/ j < WordLen - 1)
              BY <1>1 DEF Depths
            <7> QED
              BY <6>1, <6>2, <7>1, PowersGrow
          <6> QED
            BY <6>2, <6>3 DEF Words
        <5> QED
          BY <1>1, <4>2, <5>1 DEF Wrapped
      <4> QED
        BY <1>6, <4>1, <4>2, <4>3
    <3> QED
      BY <2>4, <3>1, <3>2
  <2>6. CTypeOK'
    <3> HIDE DEF Fails
    <3> QED
      BY <1>2, <1>5, <1>8, <2>1, <2>5, CodebookAssumption DEF CInv, CTypeOK
  <2>7. VerdictIsRight'
    BY <2>1 DEF VerdictIsRight
  <2>8. (\E m : IsAssigned(m))' \/ (FullLength /\ Wrapped(marker))'
    BY <2>5 DEF Wrapped
  <2> QED
    BY <1>4, <2>6, <2>7, <2>8 DEF CInv
<1> QED
  BY <1>9, <1>10

LEMMA FinishCodewordsCInv ==
  ASSUME CInv, FinishCodewords
  PROVE  CInv'
<1>1. /\ UNCHANGED <<entries_, num_entries_, marker, dimensions_, num_lookup_values_>>
      /\ status = "assigning"
      /\ status' = CASE ~Full                            -> "underspecified"
                     [] Full /\ entries_lookup_ = <<>>   -> "aborted"
                     [] Full /\ entries_lookup_ # <<>>   -> "assigned"
  BY DEF FinishCodewords
<1>2. \/ ~Full /\ status' = "underspecified"
      \/ Full /\ entries_lookup_ = <<>> /\ status' = "aborted"
      \/ Full /\ entries_lookup_ # <<>> /\ status' = "assigned"
  BY <1>1
<1>3. Entries' = Entries
  BY <1>1 DEF Entries
<1>4. CTypeOK'
  BY <1>1, <1>2, <1>3 DEF CInv, CTypeOK
<1>5. CASE FullLength /\ Wrapped(marker)
  <2>1. status' = "underspecified"
    BY <1>2, <1>5, WrappedIsNotFull
  <2>2. VerdictIsRight'
    BY <1>1, <1>5, <2>1, SameEntries DEF VerdictIsRight
  <2> QED
    BY <1>1, <1>4, <2>1, <2>2, SameEntries DEF CInv
<1>6. CASE \E n : IsAssigned(n)
  <2>1. PICK n : IsAssigned(n)
    BY <1>6
  <2>2. Marks(n) /\ MarksOK(n) /\ WordLen \in Depths /\ WordLen \in Nat
    BY <2>1, CodebookAssumption DEF IsAssigned, Marks, Depths
  <2>3. PICK f : IsSum(f, n) /\ Share(entries_) + f[WordLen] = Power[WordLen]
    BY <2>1 DEF IsAssigned
  <2>4. f[WordLen] \in Nat /\ Power[WordLen] \in Nat /\ Share(entries_) \in Nat
    <3>1. f[WordLen] \in Nat
      BY <2>2, <2>3 DEF IsSum
    <3>2. Power[WordLen] \in Nat
      BY <2>2, Powers DEF Depths
    <3>3. Share(entries_) \in Nat
      <4>1. PICK h \in [0 .. Len(entries_) -> Nat] : Share(entries_) = h[Len(entries_)]
        BY ShareExists DEF CInv
      <4>2. Len(entries_) \in 0 .. Len(entries_)
        BY DEF CInv
      <4> QED
        BY <4>1, <4>2
    <3> QED
      BY <3>1, <3>2, <3>3
  <2>5. ASSUME ~Full PROVE Share(entries_) < Power[WordLen]
    <3>1. f[WordLen] > 0
      BY <2>2, <2>3, <2>5, FullIsRight, SumOfFree
    <3> QED
      BY <2>3, <2>4, <3>1
  <2>6. ASSUME Full PROVE Share(entries_) = Power[WordLen]
    <3>1. n[WordLen] = Power[WordLen]
      BY <2>2, <2>6, FullIsRight
    <3>2. f[WordLen] < Power[WordLen - WordLen]
      BY <2>2, <2>3, <3>1, SumOfFull
    <3>3. Power[WordLen - WordLen] = 1
      <4>1. WordLen - WordLen = 0
        BY <2>2
      <4> QED
        BY <4>1, Powers
    <3> QED
      BY <2>3, <2>4, <3>2, <3>3
  <2>7. Full => (entries_lookup_ = <<>> <=> FullLength)
    BY <2>1, TableIsRight DEF CInv
  <2>8. VerdictIsRight'
    <3>1. entries_' = entries_ /\ (FullLength' <=> FullLength)
      BY <1>1, SameEntries
    <3>2. CASE status' = "underspecified"
      BY <1>2, <2>5, <3>1, <3>2 DEF VerdictIsRight
    <3>3. CASE status' = "aborted"
      BY <1>2, <2>7, <3>1, <3>3 DEF VerdictIsRight
    <3>4. CASE status' = "assigned"
      BY <1>2, <2>6, <2>7, <3>1, <3>4 DEF VerdictIsRight
    <3> QED
      BY <1>2, <3>2, <3>3, <3>4
  <2>9. \E k : IsAssigned(k)'
    BY <1>1, <2>1, SameEntries
  <2> QED
    BY <1>1, <1>4, <2>8, <2>9, SameEntries DEF CInv
<1> QED
  BY <1>1, <1>5, <1>6 DEF CInv

\* The counting of lookup values.
LEMMA LookupValuesCInv ==
  ASSUME CInv, CountLookupValue \/ FinishLookupValues
  PROVE  CInv'
<1>1. /\ UNCHANGED <<entries_, num_entries_, marker, dimensions_>>
      /\ num_lookup_values_' \in Nat /\ status = "assigned" /\ status' \in {"assigned", "parsed"}
  BY DEF CInv, CTypeOK, CountLookupValue, FinishLookupValues
<1>2. CTypeOK'
  <2>1. Entries' = Entries
    BY <1>1 DEF Entries
  <2> QED
    BY <1>1, <2>1 DEF CInv, CTypeOK
<1>3. VerdictIsRight'
  BY <1>1, SameEntries DEF CInv, VerdictIsRight
<1>4. \/ \E k : IsAssigned(k)'
      \/ FullLength' /\ Wrapped(marker)'
  BY <1>1, SameEntries DEF CInv, Wrapped
<1> QED
  BY <1>1, <1>2, <1>3, <1>4, SameEntries DEF CInv

LEMMA NextCInv ==
  CInv /\ [CNext]_cvars => CInv'
<1>1. SUFFICES ASSUME CInv, [CNext]_cvars PROVE CInv'
  OBVIOUS
<1>2. CASE SkipEntry
  BY <1>1, <1>2, SkipEntryCInv
<1>3. CASE \E len \in Lengths : AssignCodeword(len)
  BY <1>1, <1>3, AssignCodewordCInv
<1>4. CASE FinishCodewords
  BY <1>1, <1>4, FinishCodewordsCInv
<1>5. CASE CountLookupValue \/ FinishLookupValues
  BY <1>1, <1>5, LookupValuesCInv
<1>6. CASE UNCHANGED cvars
  <2>1. UNCHANGED <<entries_, num_entries_, marker, status, dimensions_, num_lookup_values_>>
    BY <1>6 DEF cvars
  <2>2. CTypeOK'
    <3>1. Entries' = Entries
      BY <2>1 DEF Entries
    <3> QED
      BY <1>1, <2>1, <3>1 DEF CInv, CTypeOK
  <2>3. VerdictIsRight'
    BY <1>1, <2>1, SameEntries DEF CInv, VerdictIsRight
  <2>4. status' \in {"assigning", "assigned"} =>
          (\E k : IsAssigned(k)') \/ (FullLength' /\ Wrapped(marker)')
    BY <1>1, <2>1, SameEntries DEF CInv, Wrapped
  <2> QED
    BY <1>1, <2>1, <2>2, <2>3, <2>4, SameEntries DEF CInv
<1> QED
  BY <1>1, <1>2, <1>3, <1>4, <1>5, <1>6 DEF CNext

LEMMA CInvHolds ==
  CSpec => []CInv
BY InitCInv, NextCInv, PTL DEF CSpec

LEMMA CInvPrefixFree ==
  CInv => PrefixFree
<1>1. SUFFICES ASSUME CInv, status \in {"assigning", "assigned"}, ~FullLength,
                      NEW i \in DOMAIN entries_, NEW j \in DOMAIN entries_, i < j
               PROVE  LET len == Min({entries_[i].len, entries_[j].len})
                      IN entries_[i].codeword \div Power[entries_[i].len - len]
                           # entries_[j].codeword \div Power[entries_[j].len - len]
  BY DEF PrefixFree
<1>2. PICK n : IsAssigned(n)
  BY <1>1 DEF CInv
<1> DEFINE a == entries_[i]
           b == entries_[j]
           len == Min({a.len, b.len})
<1>3. a \in EntryType /\ b \in EntryType
  BY <1>1 DEF CInv
<1>4. a.len \in Int /\ b.len \in Int /\ a.codeword \in Nat /\ b.codeword \in Nat
  BY <1>3, CodebookAssumption DEF EntryType, Lengths
<1>5. Apart(a, b)
  BY <1>1, <1>2 DEF IsAssigned
<1> HIDE DEF a, b
<1>6. len = IF a.len <= b.len THEN a.len ELSE b.len
  BY <1>4 DEF Min
<1> HIDE DEF len
<1>7. CASE a.len <= b.len
  <2>1. a.len - len = 0 /\ len = a.len
    BY <1>4, <1>6, <1>7
  <2>2. a.codeword \div Power[0] = a.codeword
    BY <1>4, Shifts DEF Above
  <2>3. a.codeword # b.codeword \div Power[b.len - a.len]
    BY <1>5, <1>7 DEF Apart, Above
  <2> QED
    BY <2>1, <2>2, <2>3 DEF a, b, len
<1>8. CASE ~(a.len <= b.len)
  <2>1. b.len - len = 0 /\ len = b.len
    BY <1>4, <1>6, <1>8
  <2>2. b.codeword \div Power[0] = b.codeword
    BY <1>4, Shifts DEF Above
  <2>3. a.codeword \div Power[a.len - b.len] # b.codeword
    BY <1>5, <1>8 DEF Apart, Above
  <2> QED
    BY <2>1, <2>2, <2>3 DEF a, b, len
<1> QED
  BY <1>7, <1>8

\* The entries' numbers, lengths and codewords, and the markers, are as they should be.
THEOREM CodebookTypes ==
  CSpec => []CTypeOK
<1>1. CInv => CTypeOK
  BY DEF CInv
<1> QED
  BY <1>1, CInvHolds, PTL

(***************************************************************************)
(* For words of any number of bits and lengths in any order, no codeword   *)
(* that _assignCodewords gives is the beginning of another.                *)
(***************************************************************************)
THEOREM CodewordsPrefixFree ==
  CSpec => []PrefixFree
BY CInvPrefixFree, CInvHolds, PTL

(***************************************************************************)
(* The checks of _assignCodewords fail exactly when the lengths need more  *)
(* or less than the whole tree (Kraft's equation), or one is a word's.     *)
(***************************************************************************)
THEOREM VerdictsAreRight ==
  CSpec => []VerdictIsRight
<1>1. CInv => VerdictIsRight
  BY DEF CInv
<1> QED
  BY <1>1, CInvHolds, PTL

-----------------------------------------------------------------------------
(* Decoding                                                                *)

\* The words that the bits begin with, one for each number of bits.
IsPath(w, bits) ==
  /\ w \in [0 .. WordLen - 1 -> Nat]
  /\ w[0] = 0
  /\ \A k \in 1 .. WordLen - 1 : w[k] = 2 * w[k - 1] + bits[k]

LEMMA PathExists ==
  ASSUME NEW bits \in BitStrings
  PROVE  \E w : IsPath(w, bits) /\ \A n \in 0 .. WordLen - 1 : Prefix(bits, n) = w[n]
<1>1. WordLen - 1 \in Nat /\ \A k \in 1 .. WordLen - 1 : bits[k] \in {0, 1}
  BY CodebookAssumption DEF BitStrings
<1> DEFINE W == WordLen - 1
           g == [kx \in (1 .. W) \X Nat |-> 2 * kx[2] + bits[kx[1]]]
<1>2. g \in [(1 .. W) \X Nat -> Nat]
  BY <1>1
<1>3. PICK w \in [0 .. W -> Nat] : w[0] = 0 /\ \A k \in 1 .. W : w[k] = g[<<k, w[k - 1]>>]
  <2> HIDE DEF g, W
  <2>1. HasSeries(Nat, g, 0, W)
    BY <1>1, <1>2, SeriesExists DEF W
  <2> QED
    BY <2>1 DEF HasSeries
<1>4. ASSUME NEW k \in 1 .. W PROVE w[k] = 2 * w[k - 1] + bits[k]
  <2>1. w[k - 1] \in Nat
    BY <1>1, <1>3
  <2> QED
    BY <1>3, <2>1
<1>5. IsPath(w, bits)
  BY <1>3, <1>4 DEF IsPath
<1> HIDE DEF g
<1>6. ASSUME NEW n \in 0 .. W PROVE Prefix(bits, n) = w[n]
  <2> DEFINE Is(f) == f = [k \in 0 .. n |-> IF k = 0 THEN 0 ELSE 2 * f[k - 1] + bits[k]]
             part == [k \in 0 .. n |-> w[k]]
             word == CHOOSE f : Is(f)
  <2>1. Is(part)
    <3>1. ASSUME NEW k \in 0 .. n
          PROVE  part[k] = IF k = 0 THEN 0 ELSE 2 * part[k - 1] + bits[k]
      <4>1. CASE k = 0
        BY <1>3, <4>1
      <4>2. CASE k # 0
        <5>1. k \in 1 .. W /\ k - 1 \in 0 .. n
          BY <1>1, <4>2
        <5> QED
          BY <1>4, <4>2, <5>1
      <4> QED
        BY <4>1, <4>2
    <3>2. part = [k \in 0 .. n |-> part[k]]
      OBVIOUS
    <3> HIDE DEF part
    <3> QED
      BY <3>1, <3>2
  <2>2. ASSUME NEW f, Is(f) PROVE f[n] = w[n]
    <3>0. \A k \in 0 .. n : f[k] = IF k = 0 THEN 0 ELSE 2 * f[k - 1] + bits[k]
      BY <2>2
    <3> DEFINE G == {k \in 0 .. n : f[k] = w[k]}
    <3>1. 0 \in G
      BY <1>1, <1>3, <3>0
    <3>2. ASSUME NEW k \in 0 + 1 .. n, k - 1 \in G PROVE k \in G
      <4>1. k \in 1 .. W /\ k \in 0 .. n /\ k # 0 /\ f[k - 1] = w[k - 1]
        BY <1>1, <3>2
      <4> QED
        BY <1>4, <3>0, <4>1
    <3> HIDE DEF G, Is
    <3>3. \A k \in 0 .. n : k \in G
      <4>1. 0 \in Int /\ n \in Int
        BY <1>1
      <4> QED
        BY <3>1, <3>2, <4>1, UpTo
    <3>4. n \in G
      BY <1>1, <3>3
    <3> QED
      BY <3>4 DEF G
  <2>3. Is(word)
    <3> HIDE DEF Is
    <3> QED
      BY <2>1
  <2>4. Prefix(bits, n) = word[n]
    BY DEF Prefix
  <2> HIDE DEF Is, word
  <2> QED
    BY <2>2, <2>3, <2>4
<1> QED
  BY <1>5, <1>6

\* There is a word that begins with the bits.
LEMMA PathWord ==
  ASSUME NEW bits \in BitStrings, NEW w, IsPath(w, bits)
  PROVE  \E v \in Words : \A k \in 0 .. WordLen - 1 : Above(v, WordLen - k) = w[k]
<1>1. WordLen \in Nat /\ WordLen - 1 \in 0 .. WordLen - 1 /\ WordLen - 1 \in 0 .. WordLen
      /\ 1 \in 1 .. WordLen /\ WordLen \in 1 .. WordLen
      /\ \A k \in 1 .. WordLen - 1 : bits[k] \in {0, 1}
  BY CodebookAssumption DEF BitStrings
<1>2. \A k \in 0 .. WordLen - 1 : w[k] \in Nat
  BY DEF IsPath
<1> DEFINE v == 2 * w[WordLen - 1]
<1>3. v \in Words /\ v \in Nat
  <2> DEFINE G == {k \in 0 .. WordLen - 1 : w[k] < Power[k]}
  <2>1. 0 \in G
    BY <1>1, Powers DEF IsPath
  <2>2. ASSUME NEW k \in 0 + 1 .. WordLen - 1, k - 1 \in G PROVE k \in G
    <3>1. k \in 1 .. WordLen - 1 /\ k \in 1 .. WordLen /\ k - 1 \in 0 .. WordLen
          /\ k \in 0 .. WordLen - 1 /\ k - 1 \in 0 .. WordLen - 1
      BY <1>1
    <3>2. Power[k] = 2 * Power[k - 1] /\ Power[k - 1] \in Nat /\ w[k - 1] < Power[k - 1]
      BY <2>2, <3>1, Powers
    <3>3. w[k] = 2 * w[k - 1] + bits[k] /\ w[k - 1] \in Nat /\ bits[k] \in {0, 1}
      BY <1>1, <1>2, <3>1 DEF IsPath
    <3>4. w[k] < Power[k]
      BY <3>2, <3>3
    <3> QED
      BY <3>1, <3>4
  <2> HIDE DEF G
  <2>3. \A k \in 0 .. WordLen - 1 : k \in G
    <3>1. 0 \in Int /\ WordLen - 1 \in Int
      BY <1>1
    <3> QED
      BY <2>1, <2>2, <3>1, UpTo
  <2>4. w[WordLen - 1] < Power[WordLen - 1] /\ w[WordLen - 1] \in Nat
    <3>1. WordLen - 1 \in G
      BY <1>1, <2>3
    <3> QED
      BY <1>1, <1>2, <3>1 DEF G
  <2>5. Power[WordLen] = 2 * Power[WordLen - 1] /\ Power[WordLen - 1] \in Nat
    BY <1>1, Powers
  <2> QED
    BY <2>4, <2>5 DEF Words
<1> HIDE DEF v
<1> DEFINE G == {d \in 1 .. WordLen : Above(v, d) = w[WordLen - d]}
<1>4. 1 \in G
  <2>1. Above(v, 1) = Above(v, 1 - 1) \div 2 /\ Above(v, 0) = v
    BY <1>1, <1>3, Shifts
  <2>2. v \div 2 = w[WordLen - 1]
    BY <1>1, <1>2 DEF v
  <2> QED
    BY <1>1, <2>1, <2>2
<1>5. ASSUME NEW d \in 1 + 1 .. WordLen, d - 1 \in G PROVE d \in G
  <2> DEFINE k == WordLen - (d - 1)
  <2>1. k \in 1 .. WordLen - 1 /\ k - 1 = WordLen - d /\ d \in 1 .. WordLen
        /\ k - 1 \in 0 .. WordLen - 1
    BY <1>1
  <2>2. Above(v, d - 1) = w[k]
    BY <1>5
  <2> HIDE DEF k
  <2>3. w[k] = 2 * w[k - 1] + bits[k] /\ bits[k] \in {0, 1} /\ w[k - 1] \in Nat
    BY <1>1, <1>2, <2>1 DEF IsPath
  <2>4. Above(v, d) = Above(v, d - 1) \div 2
    BY <1>3, <2>1, Shifts
  <2>5. Above(v, d) = w[k - 1]
    BY <2>2, <2>3, <2>4
  <2> QED
    BY <2>1, <2>5
<1> HIDE DEF G
<1>6. \A d \in 1 .. WordLen : d \in G
  <2>1. 1 \in Int /\ WordLen \in Int
    BY <1>1
  <2> QED
    BY <1>4, <1>5, <2>1, UpTo
<1>7. ASSUME NEW k \in 0 .. WordLen - 1 PROVE Above(v, WordLen - k) = w[k]
  <2>1. WordLen - k \in 1 .. WordLen /\ WordLen - (WordLen - k) = k
    BY <1>1
  <2>2. WordLen - k \in G
    BY <1>6, <2>1
  <2> QED
    BY <2>1, <2>2 DEF G
<1> QED
  BY <1>3, <1>7

\* If nothing is free, a word begins with one codeword.
LEMMA OneCodeword ==
  ASSUME NEW n, IsAssigned(n), CInv, ~FullLength, NEW v \in Words, ~InFree(v, n)
  PROVE  \E e \in Entries :
           /\ e.len \in 1 .. WordLen - 1 /\ e.num \in Nat /\ Above(v, WordLen - e.len) = e.codeword
           /\ \A d \in Entries : Above(v, WordLen - d.len) = d.codeword => d = e
<1>1. WordLen \in Nat /\ v \in Nat
  BY CodebookAssumption DEF Words
<1>2. \A i \in DOMAIN entries_ :
        /\ entries_[i] \in Entries /\ entries_[i].num \in Nat
        /\ entries_[i].len \in 1 .. WordLen - 1 /\ i \in Int
  <2>1. ASSUME NEW i \in DOMAIN entries_
        PROVE  /\ entries_[i] \in Entries /\ entries_[i].num \in Nat
               /\ entries_[i].len \in 1 .. WordLen - 1 /\ i \in Int
    <3>1. entries_[i] \in EntryType /\ entries_[i] \in Entries /\ i \in Int
      BY DEF CInv, Entries
    <3>2. entries_[i].len # WordLen
      BY <3>1 DEF FullLength
    <3> QED
      BY <1>1, <3>1, <3>2 DEF EntryType, Lengths
  <2> QED
    BY <2>1
<1>3. PICK i \in DOMAIN entries_ : Above(v, WordLen - entries_[i].len) = entries_[i].codeword
  BY DEF IsAssigned
<1>4. ASSUME NEW a \in DOMAIN entries_, NEW b \in DOMAIN entries_, a < b,
             Above(v, WordLen - entries_[a].len) = entries_[a].codeword,
             Above(v, WordLen - entries_[b].len) = entries_[b].codeword
      PROVE  FALSE
  <2> DEFINE x == entries_[a]
             y == entries_[b]
  <2>1. Apart(x, y)
    BY <1>4 DEF IsAssigned
  <2>2. x.len \in 1 .. WordLen - 1 /\ y.len \in 1 .. WordLen - 1
    BY <1>2
  <2>3. x.codeword = Above(v, WordLen - x.len) /\ y.codeword = Above(v, WordLen - y.len)
    BY <1>4
  <2> HIDE DEF x, y
  <2>4. CASE x.len <= y.len
    <3>1. /\ WordLen - y.len \in 0 .. WordLen /\ y.len - x.len \in 0 .. WordLen
          /\ (WordLen - y.len) + (y.len - x.len) = WordLen - x.len
          /\ WordLen - x.len \in 0 .. WordLen
      BY <1>1, <2>2, <2>4
    <3>2. Above(Above(v, WordLen - y.len), y.len - x.len) = Above(v, WordLen - x.len)
      BY <1>1, <3>1, ShiftsAdd
    <3> QED
      BY <2>1, <2>3, <2>4, <3>2 DEF Apart
  <2>5. CASE ~(x.len <= y.len)
    <3>1. /\ WordLen - x.len \in 0 .. WordLen /\ x.len - y.len \in 0 .. WordLen
          /\ (WordLen - x.len) + (x.len - y.len) = WordLen - y.len
          /\ WordLen - y.len \in 0 .. WordLen
      BY <1>1, <2>2, <2>5
    <3>2. Above(Above(v, WordLen - x.len), x.len - y.len) = Above(v, WordLen - y.len)
      BY <1>1, <3>1, ShiftsAdd
    <3> QED
      BY <2>1, <2>3, <2>5, <3>2 DEF Apart
  <2> QED
    BY <2>4, <2>5
<1>5. ASSUME NEW d \in Entries, Above(v, WordLen - d.len) = d.codeword
      PROVE  d = entries_[i]
  <2>1. PICK j \in DOMAIN entries_ : d = entries_[j]
    BY DEF Entries
  <2>2. ~(i < j) /\ ~(j < i)
    BY <1>3, <1>4, <1>5, <2>1
  <2>3. i = j
    BY <1>2, <2>2
  <2> QED
    BY <2>1, <2>3
<1> QED
  BY <1>2, <1>3, <1>5

\* The table has a subtree from an index on.
Inside(table, idx, sub) == \A k \in 1 .. Len(sub) : table[idx + k] = sub[k]

\* One bit more: the walk gets from a branch to the subtree on that side.
DescendsTo(table, len, word, idx, bit) ==
  LET next == IF bit = 0 THEN idx + 1 ELSE table[idx + 1].next_idx
      sub  == Subtree[len + 1][2 * word + bit][next]
  IN /\ table[idx + 1].next_idx # 0
     /\ next \in Nat /\ sub # <<>> /\ Inside(table, next, sub)

LEMMA Descends ==
  ASSUME entries_ \in Seq(EntryType), NEW table,
         NEW len \in 0 .. WordLen - 1, NEW word \in Nat, NEW idx \in Nat, NEW bit \in {0, 1},
         Subtree[len][word][idx] # <<>>, Inside(table, idx, Subtree[len][word][idx]),
         len = 0 \/ At(word, len) = {}
  PROVE  DescendsTo(table, len, word, idx, bit)
<1> DEFINE below == Subtree[len + 1]
           sub == Subtree[len][word][idx]
           zero == below[2 * word][idx + 1]
           one == below[2 * word + 1][idx + 1 + Len(zero)]
           branch == Branch(idx, zero)
<1>1. sub = Unfolded(len, below, word, idx) /\ below \in [Nat -> [Nat -> Seq(Node)]]
  BY SubtreeExists
<1> HIDE DEF below
<1>2. zero \in Seq(Node)
  <2>1. 2 * word \in Nat /\ idx + 1 \in Nat
    OBVIOUS
  <2> QED
    BY <1>1, <2>1
<1>3. idx + 1 + Len(zero) \in Nat /\ Len(zero) \in Nat
  <2> HIDE DEF zero
  <2> QED
    BY <1>2
<1>4. one \in Seq(Node)
  <2> HIDE DEF zero
  <2>1. 2 * word + 1 \in Nat
    OBVIOUS
  <2> QED
    BY <1>1, <1>3, <2>1
<1>5. Unfolded(len, below, word, idx) = IF zero = <<>> \/ one = <<>> THEN <<>>
                                        ELSE <<branch>> \o zero \o one
  <2>1. ~(len > 0 /\ At(word, len) # {})
    OBVIOUS
  <2> QED
    BY <2>1, Zenon DEF Unfolded
<1>6. branch \in Node /\ branch.next_idx = idx + 1 + Len(zero) /\ branch.next_idx # 0
  <2> HIDE DEF zero
  <2> QED
    BY <1>3 DEF Branch, Node
<1>7. zero # <<>> /\ one # <<>> /\ sub = <<branch>> \o zero \o one
  <2> HIDE DEF zero, one, branch, sub
  <2> QED
    BY <1>1, <1>5 DEF sub
<1>8. Inside(table, idx, sub)
  OBVIOUS
<1> HIDE DEF zero, one, branch, sub
<1>9. /\ Len(sub) = 1 + Len(zero) + Len(one) /\ Len(one) \in Nat
      /\ sub[1] = branch
      /\ \A k \in 1 .. Len(zero) : sub[1 + k] = zero[k]
      /\ \A k \in 1 .. Len(one) : sub[1 + Len(zero) + k] = one[k]
  BY <1>2, <1>4, <1>6, <1>7
<1>10. table[idx + 1] = branch
  <2>1. 1 \in 1 .. Len(sub)
    BY <1>3, <1>9
  <2> QED
    BY <1>8, <1>9, <2>1 DEF Inside
<1>11. Inside(table, idx + 1, zero)
  <2>1. ASSUME NEW k \in 1 .. Len(zero) PROVE table[(idx + 1) + k] = zero[k]
    <3>1. 1 + k \in 1 .. Len(sub) /\ idx + (1 + k) = (idx + 1) + k
      BY <1>3, <1>9
    <3> QED
      BY <1>8, <1>9, <3>1 DEF Inside
  <2> QED
    BY <2>1 DEF Inside
<1>12. Inside(table, idx + 1 + Len(zero), one)
  <2>1. ASSUME NEW k \in 1 .. Len(one) PROVE table[(idx + 1 + Len(zero)) + k] = one[k]
    <3>1. /\ 1 + Len(zero) + k \in 1 .. Len(sub)
          /\ idx + (1 + Len(zero) + k) = (idx + 1 + Len(zero)) + k
      BY <1>3, <1>9
    <3> QED
      BY <1>8, <1>9, <3>1 DEF Inside
  <2> QED
    BY <2>1 DEF Inside
<1>13. CASE bit = 0
  <2>1. 2 * word + bit = 2 * word /\ idx + 1 \in Nat
    BY <1>13
  <2> QED
    BY <1>6, <1>7, <1>10, <1>11, <1>13, <2>1 DEF zero, below, DescendsTo
<1>14. CASE bit = 1
  <2>1. 2 * word + bit = 2 * word + 1 /\ bit # 0
    BY <1>14
  <2>2. table[idx + 1].next_idx = idx + 1 + Len(zero)
    BY <1>6, <1>10
  <2>3. Subtree[len + 1][2 * word + bit][table[idx + 1].next_idx] = one
    BY <2>1, <2>2 DEF one, below
  <2> QED
    BY <1>3, <1>6, <1>7, <1>10, <1>12, <1>14, <2>1, <2>2, <2>3 DEF DescendsTo
<1> QED
  BY <1>13, <1>14

(***************************************************************************)
(* The walk gets to a leaf when the bits are a codeword, not before, and   *)
(* stays there.                                                            *)
(***************************************************************************)
LEMMA WalkEnds ==
  ASSUME entries_ \in Seq(EntryType), entries_lookup_ # <<>>,
         NEW bits \in BitStrings, NEW w, IsPath(w, bits),
         NEW e \in Entries, e.len \in 1 .. WordLen - 1, e.codeword = w[e.len],
         \A d \in Entries : d.len \in 1 .. WordLen - 1 /\ d.codeword = w[d.len] => d = e
  PROVE  LET table == entries_lookup_
             at    == Walk(table, bits)
         IN /\ DOMAIN at = 0 .. WordLen - 1
            /\ \A k \in 0 .. e.len - 1 : table[at[k] + 1].next_idx # 0
            /\ \A k \in e.len .. WordLen - 1 :
                 table[at[k] + 1].next_idx = 0 /\ table[at[k] + 1].num = e.num
<1> DEFINE table == entries_lookup_
           W == WordLen - 1
           next(x) == table[x + 1].next_idx
           Step(k, x) == IF next(x) = 0 THEN x ELSE IF bits[k] = 0 THEN x + 1 ELSE next(x)
           g == [kx \in (1 .. W) \X Nat |->
                   IF Step(kx[1], kx[2]) \in Nat THEN Step(kx[1], kx[2]) ELSE 0]
<1>1. /\ W \in Nat /\ WordLen \in Nat /\ W < WordLen /\ e.len \in 1 .. W
      /\ \A k \in 1 .. W : bits[k] \in {0, 1}
  BY CodebookAssumption DEF BitStrings
<1>2. \A k \in 0 .. W : w[k] \in Nat
  BY DEF IsPath
<1>3. PICK h \in [0 .. W -> Nat] : h[0] = 0 /\ \A k \in 1 .. W : h[k] = g[<<k, h[k - 1]>>]
  <2>1. g \in [(1 .. W) \X Nat -> Nat]
    <3> HIDE DEF Step
    <3> QED
      OBVIOUS
  <2> HIDE DEF g, W
  <2>2. HasSeries(Nat, g, 0, W)
    BY <1>1, <2>1, SeriesExists
  <2> QED
    BY <2>2 DEF HasSeries
<1>4. ASSUME NEW k \in 1 .. W PROVE h[k] = IF Step(k, h[k - 1]) \in Nat THEN Step(k, h[k - 1]) ELSE 0
  <2>1. h[k - 1] \in Nat
    BY <1>1, <1>3
  <2> HIDE DEF Step, W
  <2> QED
    BY <1>3, <2>1
<1> HIDE DEF g, table
<1> DEFINE On(k) == /\ Subtree[k][w[k]][h[k]] # <<>>
                    /\ Inside(table, h[k], Subtree[k][w[k]][h[k]])
           G == {k \in 0 .. e.len : On(k) /\ (k > 0 => h[k] = Step(k, h[k - 1]) /\ next(h[k - 1]) # 0)}
<1>5. 0 \in G
  <2>1. Subtree[0][w[0]][h[0]] = table
    BY <1>3 DEF IsPath, entries_lookup_, table
  <2>2. Inside(table, h[0], table)
    <3>1. table \in Seq(Node)
      <4>1. 0 \in 0 .. WordLen - 1 /\ 0 \in Nat
        BY <1>1
      <4>2. Subtree[0] \in [Nat -> [Nat -> Seq(Node)]]
        BY <4>1, SubtreeExists
      <4>3. Subtree[0][0][0] \in Seq(Node)
        BY <4>1, <4>2
      <4> QED
        BY <4>3 DEF table, entries_lookup_
    <3>2. \A k \in 1 .. Len(table) : 0 + k = k
      BY <3>1
    <3> QED
      BY <1>3, <3>2 DEF Inside
  <2>3. On(0)
    BY <2>1, <2>2 DEF table
  <2> HIDE DEF On
  <2> QED
    BY <1>1, <2>3
<1>6. ASSUME NEW k \in 0 + 1 .. e.len, k - 1 \in G PROVE k \in G
  <2> DEFINE j == k - 1
  <2>1. j \in 0 .. WordLen - 1 /\ j + 1 = k /\ k \in 1 .. W /\ k \in 0 .. e.len /\ j < e.len
        /\ j \in 0 .. W /\ h[j] \in Nat /\ w[j] \in Nat
    BY <1>1, <1>2, <1>3
  <2>2. On(j)
    BY <1>6
  <2>3. j = 0 \/ At(w[j], j) = {}
    <3>1. SUFFICES ASSUME j # 0, NEW d \in At(w[j], j) PROVE FALSE
      OBVIOUS
    <3>2. d \in Entries /\ d.len = j /\ d.codeword = w[j]
      BY DEF At
    <3>3. d.len \in 1 .. WordLen - 1 /\ d.len # e.len
      BY <2>1, <3>1, <3>2
    <3> QED
      BY <3>2, <3>3
  <2>4. w[k] = 2 * w[j] + bits[k] /\ bits[k] \in {0, 1}
    BY <1>1, <2>1 DEF IsPath
  <2> DEFINE nx == IF bits[k] = 0 THEN h[j] + 1 ELSE table[h[j] + 1].next_idx
             down == Subtree[j + 1][2 * w[j] + bits[k]][nx]
  <2>5. /\ table[h[j] + 1].next_idx # 0
        /\ nx \in Nat /\ down # <<>> /\ Inside(table, nx, down)
    <3>1. /\ Subtree[j][w[j]][h[j]] # <<>>
          /\ Inside(table, h[j], Subtree[j][w[j]][h[j]])
      BY <2>2
    <3>2. j \in 0 .. WordLen - 1 /\ w[j] \in Nat /\ h[j] \in Nat /\ bits[k] \in {0, 1}
      BY <2>1, <2>4
    <3> DEFINE word == w[j]
               idx == h[j]
               bit == bits[k]
               node == table[idx + 1].next_idx
               there == IF bit = 0 THEN idx + 1 ELSE node
               tree == Subtree[j + 1][2 * word + bit][there]
    <3>3. node # 0 /\ there \in Nat /\ tree # <<>> /\ Inside(table, there, tree)
      <4>1. /\ j \in 0 .. WordLen - 1 /\ word \in Nat /\ idx \in Nat /\ bit \in {0, 1}
            /\ Subtree[j][word][idx] # <<>> /\ Inside(table, idx, Subtree[j][word][idx])
            /\ j = 0 \/ At(word, j) = {}
        BY <2>3, <3>1, <3>2
      <4> HIDE DEF j, word, idx, bit
      <4>2. DescendsTo(table, j, word, idx, bit)
        BY <4>1, Descends
      <4> QED
        BY <4>2 DEF DescendsTo
    <3> QED
      BY <3>3
  <2>6. Step(k, h[j]) = nx
    BY <2>5
  <2>7. h[k] = nx
    <3> HIDE DEF nx, Step
    <3> QED
      BY <1>4, <2>1, <2>5, <2>6
  <2>8. On(k)
    <3>1. down = Subtree[k][w[k]][h[k]]
      BY <2>1, <2>4, <2>7
    <3> HIDE DEF nx, down
    <3> QED
      BY <2>5, <2>7, <3>1
  <2> HIDE DEF On, Step, nx
  <2> QED
    BY <2>1, <2>5, <2>6, <2>7, <2>8
<1> HIDE DEF G
<1>7. \A k \in 0 .. e.len : k \in G
  <2>1. 0 \in Int /\ e.len \in Int
    BY <1>1
  <2> QED
    BY <1>5, <1>6, <2>1, UpTo
<1>8. ASSUME NEW k \in 0 .. e.len - 1 PROVE next(h[k]) # 0
  <2>1. k + 1 \in 0 .. e.len /\ k + 1 > 0 /\ (k + 1) - 1 = k
    BY <1>1
  <2>2. k + 1 \in G
    BY <1>7, <2>1
  <2> HIDE DEF On, Step, next
  <2> QED
    BY <2>1, <2>2 DEF G
<1>9. next(h[e.len]) = 0 /\ table[h[e.len] + 1].num = e.num
  <2> DEFINE len == e.len
             word == w[e.len]
             sub == Subtree[len][word][h[len]]
             leaf == [next_idx |-> 0, num |-> e.num]
  <2>1. len \in 0 .. WordLen - 1 /\ len > 0 /\ word \in Nat /\ h[len] \in Nat /\ len \in 0 .. e.len
    BY <1>1, <1>2, <1>3
  <2>2. At(word, len) = {e}
    <3>1. e \in At(word, len)
      BY DEF At
    <3>2. ASSUME NEW d \in At(word, len) PROVE d = e
      BY DEF At
    <3> QED
      BY <3>1, <3>2
  <2>3. (CHOOSE d \in At(word, len) : TRUE) = e
    BY <2>2
  <2>4. Unfolded(len, Subtree[len + 1], word, h[len]) = <<leaf>>
    <3> HIDE DEF word, len
    <3> QED
      BY <2>1, <2>2, <2>3, Zenon DEF Unfolded
  <2>5. sub = <<leaf>>
    BY <2>1, <2>4, SubtreeExists
  <2>6. Inside(table, h[len], sub)
    <3>1. len \in G
      BY <1>7, <2>1
    <3> QED
      BY <3>1 DEF G
  <2>7. table[h[len] + 1] = leaf
    <3> HIDE DEF leaf, len, sub
    <3>1. 1 \in 1 .. Len(sub) /\ sub[1] = leaf
      BY <2>5
    <3> QED
      BY <2>6, <3>1 DEF Inside
  <2> QED
    BY <2>7
<1>10. \A k \in e.len .. W : h[k] = h[e.len]
  <2> DEFINE H == {k \in e.len .. W : h[k] = h[e.len]}
  <2>1. e.len \in H
    BY <1>1
  <2>2. ASSUME NEW k \in e.len + 1 .. W, k - 1 \in H PROVE k \in H
    <3>1. k \in 1 .. W /\ h[k - 1] = h[e.len] /\ h[e.len] \in Nat /\ k \in e.len .. W
      BY <1>1, <1>3, <2>2
    <3>2. Step(k, h[k - 1]) = h[e.len]
      BY <1>9, <3>1
    <3> HIDE DEF Step
    <3> QED
      BY <1>4, <3>1, <3>2
  <2> HIDE DEF H, W
  <2>3. \A k \in e.len .. W : k \in H
    <3>1. e.len \in Int /\ W \in Int
      BY <1>1
    <3> QED
      BY <2>1, <2>2, <3>1, UpTo
  <2> QED
    BY <2>3 DEF H
<1>11. ASSUME NEW k \in 1 .. W PROVE h[k] = Step(k, h[k - 1])
  <2>1. CASE k \in 1 .. e.len
    <3>1. k \in 0 .. e.len /\ k > 0
      BY <2>1
    <3>2. k \in G
      BY <1>7, <3>1
    <3> HIDE DEF On, Step
    <3> QED
      BY <3>1, <3>2 DEF G
  <2>2. CASE k \in e.len + 1 .. W
    <3>1. k - 1 \in e.len .. W /\ k \in e.len .. W
      BY <1>1, <2>2
    <3>2. h[k] = h[e.len] /\ h[k - 1] = h[e.len]
      BY <1>10, <3>1
    <3> QED
      BY <1>9, <3>2
  <2> QED
    BY <1>1, <2>1, <2>2
<1> DEFINE Is(f) == f = [k \in 0 .. W |-> IF k = 0 THEN 0 ELSE Step(k, f[k - 1])]
<1>12. Is(h)
  <2>1. \A k \in 0 .. W : k # 0 => k \in 1 .. W
    BY <1>1
  <2>2. h = [k \in 0 .. W |-> h[k]]
    BY <1>3
  <2> HIDE DEF Step, W
  <2> QED
    BY <1>3, <1>11, <2>1, <2>2
<1>13. ASSUME NEW f, Is(f) PROVE f = h
  <2>0. /\ f[0] = 0 /\ \A k \in 1 .. W : f[k] = Step(k, f[k - 1])
        /\ f = [k \in 0 .. W |-> f[k]]
    <3> HIDE DEF Step
    <3>1. 0 \in 0 .. W /\ \A k \in 1 .. W : k \in 0 .. W /\ k # 0
      BY <1>1
    <3> HIDE DEF W
    <3> QED
      BY <1>13, <3>1
  <2> DEFINE H == {k \in 0 .. W : f[k] = h[k]}
  <2>1. 0 \in H
    BY <1>1, <1>3, <2>0
  <2>2. ASSUME NEW k \in 0 + 1 .. W, k - 1 \in H PROVE k \in H
    <3>1. k \in 1 .. W /\ k \in 0 .. W /\ f[k - 1] = h[k - 1]
      BY <1>1, <2>2
    <3> HIDE DEF Step, W
    <3> QED
      BY <1>11, <2>0, <3>1
  <2> HIDE DEF H, W, Step, Is
  <2>3. \A k \in 0 .. W : k \in H
    <3>1. 0 \in Int /\ W \in Int
      BY <1>1
    <3> QED
      BY <2>1, <2>2, <3>1, UpTo
  <2>4. \A k \in 0 .. W : f[k] = h[k]
    BY <2>3 DEF H
  <2>5. h = [k \in 0 .. W |-> h[k]]
    BY <1>3
  <2> QED
    BY <2>0, <2>4, <2>5
<1>14. Walk(table, bits) = CHOOSE f : Is(f)
  BY DEF Walk
<1>15. Walk(table, bits) = h
  <2> HIDE DEF Is
  <2> QED
    BY <1>12, <1>13, <1>14
<1>16. \A k \in e.len .. W : next(h[k]) = 0 /\ table[h[k] + 1].num = e.num
  BY <1>9, <1>10
<1>17. DOMAIN h = 0 .. W
  BY <1>3
<1> HIDE DEF next, Step
<1> QED
  BY <1>8, <1>15, <1>16, <1>17 DEF table, next

\* Of an accepted codebook, every word begins with one codeword.
LEMMA AssignedIsWhole ==
  ASSUME CInv, status = "assigned"
  PROVE  /\ entries_lookup_ # <<>> /\ entries_ \in Seq(EntryType)
         /\ \A v \in Words :
              \E e \in Entries :
                /\ e.len \in 1 .. WordLen - 1 /\ e.num \in Nat
                /\ Above(v, WordLen - e.len) = e.codeword
                /\ \A d \in Entries : Above(v, WordLen - d.len) = d.codeword => d = e
<1>1. Share(entries_) = Power[WordLen] /\ ~FullLength /\ entries_ \in Seq(EntryType)
  BY DEF CInv, VerdictIsRight
<1>2. PICK n : IsAssigned(n)
  BY <1>1 DEF CInv
<1>3. PICK f : IsSum(f, n) /\ Share(entries_) + f[WordLen] = Power[WordLen]
  BY <1>2 DEF IsAssigned
<1>4. WordLen \in Depths /\ f[WordLen] \in Nat /\ Power[WordLen] \in Nat
  <2>1. WordLen \in Depths /\ WordLen \in 0 .. WordLen
    BY CodebookAssumption DEF Depths
  <2> QED
    BY <1>3, <2>1, Powers DEF IsSum
<1>5. ~(f[WordLen] > 0)
  BY <1>1, <1>3, <1>4
<1>6. ASSUME NEW v \in Words PROVE ~InFree(v, n)
  BY <1>3, <1>5, SumOfFree DEF InFree
<1>7. ASSUME NEW v \in Words
      PROVE  \E e \in Entries :
               /\ e.len \in 1 .. WordLen - 1 /\ e.num \in Nat
               /\ Above(v, WordLen - e.len) = e.codeword
               /\ \A d \in Entries : Above(v, WordLen - d.len) = d.codeword => d = e
  BY <1>1, <1>2, <1>6, OneCodeword
<1>8. entries_lookup_ # <<>>
  <2>1. SUFFICES ASSUME entries_lookup_ = <<>> PROVE FALSE
    OBVIOUS
  <2>2. PICK v \in Words : Missed(v)
    BY <1>1, <2>1, AbortsMissed
  <2>3. PICK e \in Entries : e.len \in 1 .. WordLen - 1 /\ Above(v, WordLen - e.len) = e.codeword
    BY <1>7
  <2>4. e.len < WordLen
    BY <2>3, CodebookAssumption
  <2> QED
    BY <2>2, <2>3, <2>4 DEF Missed
<1> QED
  BY <1>1, <1>7, <1>8

(***************************************************************************)
(* What a string of bits decodes to, with the table and without: the entry *)
(* whose codeword it begins with.                                          *)
(***************************************************************************)
LEMMA DecodesTo ==
  ASSUME CInv, status = "assigned", NEW bits \in BitStrings
  PROVE  \E e \in Entries :
           /\ decodeScalar_slow(bits) = {Scalar(e.num, e.len)}
           /\ decodeScalar_fast(entries_lookup_, bits) = {Scalar(e.num, e.len)}
<1>1. WordLen \in Nat /\ \A x \in Lengths : x \in 1 .. WordLen
  BY CodebookAssumption DEF Lengths
<1>2. PICK w : IsPath(w, bits) /\ \A n \in 0 .. WordLen - 1 : Prefix(bits, n) = w[n]
  BY PathExists
<1>3. PICK v \in Words : \A k \in 0 .. WordLen - 1 : Above(v, WordLen - k) = w[k]
  BY <1>2, PathWord
<1>4. PICK e \in Entries :
         /\ e.len \in 1 .. WordLen - 1 /\ e.num \in Nat
         /\ Above(v, WordLen - e.len) = e.codeword
         /\ \A d \in Entries : Above(v, WordLen - d.len) = d.codeword => d = e
  BY AssignedIsWhole
<1>5. e.codeword = w[e.len] /\ Prefix(bits, e.len) = w[e.len] /\ e.len < WordLen /\ e.len \in Nat
  <2>1. e.len \in 0 .. WordLen - 1 /\ e.len < WordLen /\ e.len \in Nat
    BY <1>1, <1>4
  <2> QED
    BY <1>2, <1>3, <1>4, <2>1
<1>6. ASSUME NEW d \in Entries, d.len \in 1 .. WordLen - 1, d.codeword = w[d.len]
      PROVE  d = e
  <2>1. d.len \in 0 .. WordLen - 1
    BY <1>1, <1>6
  <2> QED
    BY <1>3, <1>4, <1>6, <2>1
<1>7. decodeScalar_slow(bits) = {Scalar(e.num, e.len)}
  <2> DEFINE found == {d \in Entries : d.len < WordLen /\ d.codeword = Prefix(bits, d.len)}
  <2>1. e \in found
    BY <1>4, <1>5
  <2>2. ASSUME NEW d \in found PROVE d = e
    <3>1. d \in Entries /\ d.len < WordLen /\ d.codeword = Prefix(bits, d.len)
      OBVIOUS
    <3>2. d.len \in Lengths
      <4>1. PICK i \in DOMAIN entries_ : d = entries_[i]
        BY <3>1 DEF Entries
      <4>2. entries_[i] \in EntryType
        BY AssignedIsWhole
      <4> QED
        BY <4>1, <4>2 DEF EntryType
    <3>3. d.len \in 1 .. WordLen - 1 /\ d.len \in 0 .. WordLen - 1
      BY <1>1, <3>1, <3>2
    <3> QED
      BY <1>2, <1>6, <3>1, <3>3
  <2>3. found = {e}
    <3> HIDE DEF found
    <3> QED
      BY <2>1, <2>2
  <2>4. {d \in found : \A c \in found : d.len <= c.len} = {e}
    <3>1. e.len <= e.len
      BY <1>5
    <3> HIDE DEF found
    <3> QED
      BY <2>3, <3>1
  <2>5. decodeScalar_slow(bits)
          = {Scalar(d.num, d.len) : d \in {d \in found : \A c \in found : d.len <= c.len}}
    BY DEF decodeScalar_slow
  <2> HIDE DEF found
  <2> QED
    BY <2>4, <2>5
<1>8. decodeScalar_fast(entries_lookup_, bits) = {Scalar(e.num, e.len)}
  <2> DEFINE table == entries_lookup_
             at == Walk(table, bits)
             leaf == {n \in DOMAIN at : table[at[n] + 1].next_idx = 0}
             first == {m \in leaf : \A k \in leaf : m <= k}
  <2>1. /\ DOMAIN at = 0 .. WordLen - 1
        /\ \A k \in 0 .. e.len - 1 : table[at[k] + 1].next_idx # 0
        /\ \A k \in e.len .. WordLen - 1 :
             table[at[k] + 1].next_idx = 0 /\ table[at[k] + 1].num = e.num
    <3>1. entries_ \in Seq(EntryType) /\ entries_lookup_ # <<>>
      BY AssignedIsWhole
    <3> QED
      BY <1>2, <1>4, <1>5, <1>6, <3>1, WalkEnds
  <2> HIDE DEF table, at
  <2>2. leaf = e.len .. WordLen - 1
    <3>1. ASSUME NEW k \in 0 .. WordLen - 1
          PROVE  table[at[k] + 1].next_idx = 0 <=> k \in e.len .. WordLen - 1
      <4>1. k \in 0 .. e.len - 1 \/ k \in e.len .. WordLen - 1
        BY <1>1, <1>5
      <4>2. ~(k \in 0 .. e.len - 1 /\ k \in e.len .. WordLen - 1)
        BY <1>1, <1>5
      <4> QED
        BY <2>1, <4>1, <4>2
    <3>2. e.len .. WordLen - 1 \subseteq 0 .. WordLen - 1
      BY <1>1, <1>5
    <3> QED
      BY <2>1, <3>1, <3>2
  <2> HIDE DEF leaf
  <2>3. first = {e.len}
    <3>1. e.len \in e.len .. WordLen - 1 /\ \A k \in e.len .. WordLen - 1 : e.len <= k
      BY <1>1, <1>5
    <3>2. \A m \in e.len .. WordLen - 1 : m <= e.len => m = e.len
      BY <1>1, <1>5
    <3> QED
      BY <2>2, <3>1, <3>2
  <2>4. table[at[e.len] + 1].num = e.num
    <3>1. e.len \in e.len .. WordLen - 1
      BY <1>1, <1>5
    <3> QED
      BY <2>1, <3>1
  <2>5. decodeScalar_fast(table, bits) = {Scalar(table[at[n] + 1].num, n) : n \in first}
    BY DEF decodeScalar_fast, at, leaf
  <2> HIDE DEF first
  <2> QED
    BY <2>3, <2>4, <2>5 DEF table
<1> QED
  BY <1>7, <1>8

\* With the table and without, decodeScalar finds the same entry, after the
\* same number of bits, for every string of bits.
THEOREM DecodesAsCodewords ==
  CSpec => []FastIsSlow
<1>1. CInv => FastIsSlow
  <2>1. SUFFICES ASSUME CInv, status = "assigned", NEW bits \in BitStrings
                 PROVE  /\ decodeScalar_fast(entries_lookup_, bits) = decodeScalar_slow(bits)
                        /\ decodeScalar_fast(entries_lookup_, bits) # {}
    BY DEF FastIsSlow
  <2> QED
    BY <2>1, DecodesTo
<1> QED
  BY <1>1, CInvHolds, PTL

-----------------------------------------------------------------------------
(* lookup1_values                                                          *)

\* The powers of b, up to the n-th.
ArePowers(f, b, n) ==
  /\ f \in [0 .. n -> Nat]
  /\ f[0] = 1
  /\ \A k \in 1 .. n : f[k] = b * f[k - 1]

LEMMA PowersExist ==
  ASSUME NEW b \in Nat, NEW n \in Nat
  PROVE  \E f : ArePowers(f, b, n) /\ \A m \in 0 .. n : ToThe(b, m) = f[m]
<1> DEFINE g == [kx \in (1 .. n) \X Nat |-> b * kx[2]]
<1>1. g \in [(1 .. n) \X Nat -> Nat]
  OBVIOUS
<1>2. PICK f \in [0 .. n -> Nat] : f[0] = 1 /\ \A k \in 1 .. n : f[k] = g[<<k, f[k - 1]>>]
  <2> HIDE DEF g
  <2>1. HasSeries(Nat, g, 1, n)
    BY <1>1, SeriesExists
  <2> QED
    BY <2>1 DEF HasSeries
<1>3. ASSUME NEW k \in 1 .. n PROVE f[k] = b * f[k - 1]
  <2>1. f[k - 1] \in Nat
    BY <1>2
  <2> QED
    BY <1>2, <2>1
<1> HIDE DEF g
<1>4. ArePowers(f, b, n)
  BY <1>2, <1>3 DEF ArePowers
<1>5. ASSUME NEW m \in 0 .. n PROVE ToThe(b, m) = f[m]
  <2> DEFINE Is(h) == h = [k \in 0 .. m |-> IF k = 0 THEN 1 ELSE b * h[k - 1]]
             part == [k \in 0 .. m |-> f[k]]
             to == CHOOSE h : Is(h)
  <2>1. Is(part)
    <3>1. ASSUME NEW k \in 0 .. m
          PROVE  part[k] = IF k = 0 THEN 1 ELSE b * part[k - 1]
      <4>1. CASE k = 0
        BY <1>2, <4>1
      <4>2. CASE k # 0
        <5>1. k \in 1 .. n /\ k - 1 \in 0 .. m
          BY <4>2
        <5> QED
          BY <1>3, <4>2, <5>1
      <4> QED
        BY <4>1, <4>2
    <3>2. part = [k \in 0 .. m |-> part[k]]
      OBVIOUS
    <3> HIDE DEF part
    <3> QED
      BY <3>1, <3>2
  <2>2. ASSUME NEW h, Is(h) PROVE h[m] = f[m]
    <3>0. \A k \in 0 .. m : h[k] = IF k = 0 THEN 1 ELSE b * h[k - 1]
      BY <2>2
    <3> DEFINE G == {k \in 0 .. m : h[k] = f[k]}
    <3>1. 0 \in G
      BY <1>2, <3>0
    <3>2. ASSUME NEW k \in 0 + 1 .. m, k - 1 \in G PROVE k \in G
      <4>1. k \in 1 .. n /\ k \in 0 .. m /\ k # 0 /\ h[k - 1] = f[k - 1]
        BY <3>2
      <4> QED
        BY <1>3, <3>0, <4>1
    <3> HIDE DEF G, Is
    <3>3. \A k \in 0 .. m : k \in G
      <4>1. 0 \in Int /\ m \in Int
        OBVIOUS
      <4> QED
        BY <3>1, <3>2, <4>1, UpTo
    <3>4. m \in G
      BY <3>3
    <3> QED
      BY <3>4 DEF G
  <2>3. Is(to)
    <3> HIDE DEF Is
    <3> QED
      BY <2>1
  <2>4. ToThe(b, m) = to[m]
    BY DEF ToThe
  <2> HIDE DEF Is, to
  <2> QED
    BY <2>2, <2>3, <2>4
<1> QED
  BY <1>4, <1>5

LEMMA PowersAdd ==
  ASSUME NEW b \in Nat, NEW n \in Nat, NEW f, ArePowers(f, b, n),
         NEW i \in 0 .. n, NEW j \in 0 .. n, i + j <= n
  PROVE  f[i + j] = f[i] * f[j]
<1>1. \A k \in 0 .. n : f[k] \in Nat
  BY DEF ArePowers
<1> DEFINE G == {k \in 0 .. j : f[i + k] = f[i] * f[k]}
<1>2. 0 \in G
  <2>1. i + 0 = i /\ f[0] = 1 /\ 0 \in 0 .. j /\ f[i] \in Nat
    BY <1>1 DEF ArePowers
  <2> QED
    BY <2>1
<1>3. ASSUME NEW k \in 0 + 1 .. j, k - 1 \in G PROVE k \in G
  <2>1. /\ i + k \in 1 .. n /\ (i + k) - 1 = i + (k - 1) /\ k \in 1 .. n
        /\ k - 1 \in 0 .. n /\ k \in 0 .. j
    OBVIOUS
  <2>2. f[i + k] = b * f[i + (k - 1)] /\ f[k] = b * f[k - 1]
    BY <2>1 DEF ArePowers
  <2>3. f[i + (k - 1)] = f[i] * f[k - 1]
    BY <1>3
  <2>4. f[i] \in Nat /\ f[k - 1] \in Nat
    BY <1>1, <2>1
  <2> HIDE DEF G
  <2>5. \A x \in Nat, y \in Nat : b * (x * y) = x * (b * y)
    OBVIOUS
  <2>6. f[i + k] = f[i] * f[k]
    BY <2>2, <2>3, <2>4, <2>5
  <2> QED
    BY <2>1, <2>6 DEF G
<1> HIDE DEF G
<1>4. \A k \in 0 .. j : k \in G
  <2>1. 0 \in Int /\ j \in Int
    OBVIOUS
  <2> QED
    BY <1>2, <1>3, <2>1, UpTo
<1>5. j \in G
  BY <1>4
<1> QED
  BY <1>5 DEF G

LEMMA TimesModulo ==
  ASSUME NEW p \in Nat \ {0}, NEW x \in Nat, NEW y \in Nat
  PROVE  ((x % p) * y) % p = (x * y) % p
<1> DEFINE q == x \div p
           r == x % p
<1>1. q \in Nat /\ r \in 0 .. p - 1 /\ x = p * q + r
  BY Division
<1> HIDE DEF q, r
<1>2. x * y = p * (q * y) + r * y
  <2>1. (p * q + r) * y = p * (q * y) + r * y
    BY <1>1
  <2> QED
    BY <1>1, <2>1
<1>3. q * y \in Nat /\ r * y \in Nat
  BY <1>1
<1> DEFINE c == q * y
           t == r * y
<1>4. c \in Nat /\ t \in Nat /\ x * y = p * c + t
  BY <1>2, <1>3
<1> HIDE DEF c, t
<1>5. (x * y) % p = t % p
  <2>1. (p * c + t) % p = t % p
    BY <1>4, Remainder
  <2> QED
    BY <1>4, <2>1, Zenon
<1> QED
  BY <1>5 DEF t, r

LEMMA WordTimes ==
  ASSUME NEW x \in Nat, NEW y \in Nat
  PROVE  Word(Word(x) * y) = Word(x * y) /\ Word(x * Word(y)) = Word(x * y)
<1>1. Power[WordLen] \in Nat \ {0}
  <2>1. WordLen \in 0 .. WordLen
    BY CodebookAssumption
  <2> QED
    BY <2>1, Powers
<1>2. Word(Word(x) * y) = Word(x * y)
  BY <1>1, TimesModulo DEF Word
<1>3. Word(Word(y) * x) = Word(y * x)
  BY <1>1, TimesModulo DEF Word
<1>4. Word(y) \in Nat
  BY <1>1 DEF Word
<1>5. Word(y) * x = x * Word(y) /\ y * x = x * y
  BY <1>4
<1> QED
  BY <1>2, <1>3, <1>5

\* What powIntExp computes by squares and products: the power, in a word.
LEMMA powIntExpIs ==
  ASSUME NEW b \in Nat, NEW d \in Nat
  PROVE  powIntExp(b, d) = Word(ToThe(b, d)) /\ ToThe(b, d) \in Nat
<1>1. PICK f : ArePowers(f, b, d) /\ \A m \in 0 .. d : ToThe(b, m) = f[m]
  BY PowersExist
<1>2. \A k \in 0 .. d : f[k] \in Nat
  BY <1>1 DEF ArePowers
<1> DEFINE Body(h, n) == IF n = 0 THEN 1
                         ELSE IF n % 2 = 0 THEN Word(h[n \div 2] * h[n \div 2])
                         ELSE Word(h[n - 1] * b)
           Is(h) == h = [n \in 0 .. d |-> Body(h, n)]
           words == [n \in 0 .. d |-> Word(f[n])]
           pow == CHOOSE h : Is(h)
<1>3. ASSUME NEW h, NEW n \in 0 .. d, \A k \in 0 .. n - 1 : h[k] = Word(f[k])
      PROVE  Body(h, n) = Word(f[n])
  <2>1. CASE n = 0
    <3>1. 1 < Power[WordLen]
      <4>1. 0 \in Depths /\ WordLen \in Depths /\ 0 < WordLen
        BY CodebookAssumption DEF Depths
      <4> QED
        BY <4>1, PowersGrow, Powers
    <3>2. Word(1) = 1
      BY <3>1, WordIs
    <3> QED
      BY <1>1, <2>1, <3>2 DEF ArePowers
  <2>2. CASE n # 0 /\ n % 2 = 0
    <3> DEFINE i == n \div 2
    <3>1. i \in 0 .. n - 1 /\ i \in 0 .. d /\ i + i = n /\ i + i <= d
      BY <2>2
    <3> HIDE DEF i
    <3>2. f[n] = f[i] * f[i] /\ f[i] \in Nat
      <4>1. f[i + i] = f[i] * f[i]
        BY <1>1, <3>1, PowersAdd
      <4> QED
        BY <1>2, <3>1, <4>1
    <3>3. h[i] = Word(f[i])
      BY <1>3, <3>1
    <3>4. Word(f[i]) \in Nat
      BY <3>2, WordIs
    <3>5. Word(h[i] * h[i]) = Word(f[i] * f[i])
      <4>1. Word(Word(f[i]) * Word(f[i])) = Word(f[i] * Word(f[i]))
        BY <3>2, <3>4, WordTimes
      <4>2. Word(f[i] * Word(f[i])) = Word(f[i] * f[i])
        BY <3>2, WordTimes
      <4> QED
        BY <3>3, <4>1, <4>2
    <3> QED
      BY <2>2, <3>2, <3>5 DEF i
  <2>3. CASE n # 0 /\ n % 2 # 0
    <3>1. n - 1 \in 0 .. n - 1 /\ n - 1 \in 0 .. d /\ n \in 1 .. d
      BY <2>3
    <3>2. f[n] = b * f[n - 1] /\ f[n - 1] \in Nat /\ b * f[n - 1] = f[n - 1] * b
      BY <1>1, <1>2, <3>1 DEF ArePowers
    <3>3. h[n - 1] = Word(f[n - 1])
      BY <1>3, <3>1
    <3>4. Word(Word(f[n - 1]) * b) = Word(f[n - 1] * b)
      BY <3>2, WordTimes
    <3> QED
      BY <2>3, <3>2, <3>3, <3>4
  <2> QED
    BY <2>1, <2>2, <2>3
<1>4. Is(words)
  <2>1. ASSUME NEW n \in 0 .. d PROVE words[n] = Body(words, n)
    <3>1. \A k \in 0 .. n - 1 : words[k] = Word(f[k])
      OBVIOUS
    <3> HIDE DEF Body
    <3>2. Body(words, n) = Word(f[n])
      BY <1>3, <3>1
    <3> QED
      BY <3>2
  <2>2. words = [n \in 0 .. d |-> words[n]]
    OBVIOUS
  <2> HIDE DEF words, Body
  <2> QED
    BY <2>1, <2>2
<1>5. Is(pow)
  <2> HIDE DEF Is
  <2> QED
    BY <1>4
<1>6. \A n \in 0 .. d : pow[n] = Body(pow, n)
  <2> HIDE DEF pow, Body
  <2> QED
    BY <1>5
<1> DEFINE G == {m \in 0 .. d : \A n \in 0 .. m : pow[n] = Word(f[n])}
<1> HIDE DEF pow, Body, Is, words
<1>7. 0 \in G
  <2>1. \A k \in 0 .. 0 - 1 : pow[k] = Word(f[k])
    OBVIOUS
  <2>2. 0 \in 0 .. d
    OBVIOUS
  <2>3. Body(pow, 0) = Word(f[0])
    BY <1>3, <2>1, <2>2
  <2> QED
    BY <1>6, <2>2, <2>3
<1>8. ASSUME NEW m \in 0 + 1 .. d, m - 1 \in G PROVE m \in G
  <2>1. m \in 0 .. d /\ \A k \in 0 .. m - 1 : pow[k] = Word(f[k])
    BY <1>8
  <2>2. pow[m] = Word(f[m])
    BY <1>3, <1>6, <2>1
  <2>3. \A n \in 0 .. m : n = m \/ n \in 0 .. m - 1
    OBVIOUS
  <2> QED
    BY <2>1, <2>2, <2>3
<1> HIDE DEF G
<1>9. \A m \in 0 .. d : m \in G
  <2>1. 0 \in Int /\ d \in Int
    OBVIOUS
  <2> QED
    BY <1>7, <1>8, <2>1, UpTo
<1>10. pow[d] = Word(f[d])
  <2>1. d \in G /\ d \in 0 .. d
    BY <1>9
  <2> QED
    BY <2>1 DEF G
<1>11. powIntExp(b, d) = pow[d]
  BY DEF powIntExp, pow, Is, Body
<1>12. d \in 0 .. d
  OBVIOUS
<1> QED
  BY <1>1, <1>2, <1>10, <1>11, <1>12

\* No power that lookup1_values compares goes beyond a word.
NoWrap ==
  \A d \in Dimensions, base \in Nat :
    ToThe(base, d) <= MaxEntries => ToThe(base + 1, d) < Power[WordLen]

RootInv ==
  /\ num_entries_ \in 0 .. MaxEntries
  /\ dimensions_ \in Dimensions
  /\ num_lookup_values_ \in Nat
  /\ ToThe(num_lookup_values_, dimensions_) <= num_entries_
  /\ GreatestRoot

LEMMA InitRootInv ==
  CInit => RootInv
<1>1. SUFFICES ASSUME CInit PROVE RootInv
  OBVIOUS
<1>2. /\ num_entries_ = 0 /\ num_lookup_values_ = 0 /\ dimensions_ \in Dimensions
      /\ status = "assigning" /\ MaxEntries \in Nat /\ dimensions_ \in Nat \ {0}
  BY <1>1, CodebookAssumption DEF CInit
<1>3. ToThe(0, dimensions_) = 0
  <2>1. PICK f : ArePowers(f, 0, dimensions_) /\ \A m \in 0 .. dimensions_ : ToThe(0, m) = f[m]
    BY <1>2, PowersExist
  <2>2. dimensions_ \in 1 .. dimensions_ /\ dimensions_ \in 0 .. dimensions_
        /\ dimensions_ - 1 \in 0 .. dimensions_
    BY <1>2
  <2>3. f[dimensions_] = 0 * f[dimensions_ - 1] /\ f[dimensions_ - 1] \in Nat
    BY <2>1, <2>2 DEF ArePowers
  <2>4. 0 * f[dimensions_ - 1] = 0
    BY <2>3
  <2> QED
    BY <2>1, <2>2, <2>3, <2>4
<1> QED
  BY <1>2, <1>3 DEF RootInv, GreatestRoot

LEMMA NextRootInv ==
  ASSUME NoWrap, RootInv, [CNext]_cvars
  PROVE  RootInv'
<1>0. /\ MaxEntries \in Nat /\ dimensions_ \in Nat /\ num_entries_ \in Nat
      /\ num_lookup_values_ + 1 \in Nat /\ num_lookup_values_ \in Nat
  BY CodebookAssumption DEF RootInv
<1>1. CASE SkipEntry \/ \E len \in Lengths : AssignCodeword(len)
  <2>1. /\ num_entries_' = num_entries_ + 1 /\ num_entries_ < MaxEntries
        /\ UNCHANGED <<dimensions_, num_lookup_values_>> /\ status' # "parsed"
    <3>1. CASE SkipEntry
      BY <3>1 DEF SkipEntry
    <3>2. CASE \E len \in Lengths : AssignCodeword(len)
      <4>1. PICK len \in Lengths : AssignCodeword(len)
        BY <3>2
      <4>2. /\ num_entries_' = num_entries_ + 1 /\ num_entries_ < MaxEntries
            /\ UNCHANGED <<dimensions_, num_lookup_values_>>
        BY <4>1 DEF AssignCodeword
      <4>3. status = "assigning" /\ (status' = "overspecified" \/ status' = status)
        BY <4>1 DEF AssignCodeword
      <4> QED
        BY <4>2, <4>3
    <3> QED
      BY <1>1, <3>1, <3>2
  <2>2. ToThe(num_lookup_values_, dimensions_) \in Nat
    BY <1>0, powIntExpIs
  <2>3. ToThe(num_lookup_values_, dimensions_)' = ToThe(num_lookup_values_, dimensions_)
    BY <2>1
  <2>4. ToThe(num_lookup_values_, dimensions_) <= num_entries_ + 1
    BY <1>0, <2>2 DEF RootInv
  <2>5. num_entries_ + 1 \in 0 .. MaxEntries
    BY <1>0, <2>1
  <2> QED
    BY <2>1, <2>3, <2>4, <2>5 DEF RootInv, GreatestRoot
<1>2. CASE FinishCodewords
  <2>1. UNCHANGED <<num_entries_, dimensions_, num_lookup_values_>> /\ status' # "parsed"
    BY <1>2 DEF FinishCodewords
  <2> QED
    BY <2>1 DEF RootInv, GreatestRoot
<1>3. ASSUME status = "assigned"
      PROVE  /\ MoreValues => ToThe(num_lookup_values_ + 1, dimensions_) <= num_entries_
             /\ ~MoreValues => ToThe(num_lookup_values_ + 1, dimensions_) > num_entries_
  <2> DEFINE root == ToThe(num_lookup_values_, dimensions_)
             next == ToThe(num_lookup_values_ + 1, dimensions_)
  <2>1. root \in Nat /\ next \in Nat /\ powIntExp(num_lookup_values_ + 1, dimensions_) = Word(next)
    BY <1>0, powIntExpIs
  <2>2. root <= MaxEntries
    BY <1>0, <2>1, CodebookAssumption DEF RootInv
  <2>3. next < Power[WordLen]
    BY <1>0, <2>2 DEF NoWrap, RootInv
  <2>4. Word(next) = next
    BY <2>1, <2>3, WordIs
  <2>5. MoreValues <=> next <= num_entries_
    BY <2>1, <2>4 DEF MoreValues
  <2> HIDE DEF root, next
  <2>6. next <= num_entries_ \/ next > num_entries_
    BY <1>0, <2>1
  <2> QED
    BY <2>5, <2>6 DEF next
<1>4. CASE CountLookupValue
  <2>1. /\ status = "assigned" /\ MoreValues /\ status' = status
        /\ num_lookup_values_' = num_lookup_values_ + 1
        /\ UNCHANGED <<num_entries_, dimensions_>>
    BY <1>4 DEF CountLookupValue
  <2>2. ToThe(num_lookup_values_, dimensions_)' <= num_entries_'
    BY <1>3, <2>1
  <2> QED
    BY <1>0, <2>1, <2>2 DEF RootInv, GreatestRoot
<1>5. CASE FinishLookupValues
  <2>1. /\ status = "assigned" /\ ~MoreValues
        /\ UNCHANGED <<num_entries_, dimensions_, num_lookup_values_>>
    BY <1>5 DEF FinishLookupValues
  <2> QED
    BY <1>3, <2>1 DEF RootInv, GreatestRoot
<1>6. CASE UNCHANGED cvars
  BY <1>6 DEF cvars, RootInv, GreatestRoot
<1> QED
  BY <1>1, <1>2, <1>4, <1>5, <1>6 DEF CNext

(***************************************************************************)
(* lookup1_values is the greatest number whose power is not above the      *)
(* number of entries, if no power that it compares goes beyond a word.     *)
(***************************************************************************)
THEOREM RootIsGreatest ==
  ASSUME NoWrap
  PROVE  CSpec => []GreatestRoot
<1>1. CInit => RootInv
  BY InitRootInv
<1>2. RootInv /\ [CNext]_cvars => RootInv'
  BY NextRootInv
<1>3. RootInv => GreatestRoot
  BY DEF RootInv
<1> QED
  BY <1>1, <1>2, <1>3, PTL DEF CSpec

=============================================================================
