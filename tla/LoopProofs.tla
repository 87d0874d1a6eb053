----------------------------- MODULE LoopProofs -----------------------------
(***************************************************************************)
(* Loops as functions of their turns: f[0] is given, and f[k] is made from *)
(* f[k - 1].  Such functions exist, and keep what each turn keeps.         *)
(***************************************************************************)
EXTENDS Integers, TLAPS, WellFoundedInduction

\* A set of numbers has a least one.
LEMMA LeastExists ==
  ASSUME NEW S \in SUBSET Nat, S # {}
  PROVE  \E j \in S : \A k \in S : j <= k
<1>1. PICK m \in S : \A k \in S : <<k, m>> \notin OpToRel(<, Nat)
  BY WFMin, NatLessThanWellFounded, Zenon
<1>2. \A k \in S : ~(k < m)
  BY <1>1, Zenon DEF OpToRel
<1> QED
  BY <1>2

\* A function has what a loop with the step g makes, turn after turn.
HasLoop(S, g, base, n) ==
  \E f \in [0 .. n -> S] : f[0] = base /\ \A k \in 1 .. n : f[k] = g[f[k - 1]]

\* The same for a step that also depends on which turn it is.
HasSeries(S, g, base, n) ==
  \E f \in [0 .. n -> S] : f[0] = base /\ \A k \in 1 .. n : f[k] = g[<<k, f[k - 1]>>]

LEMMA SeriesExists ==
  ASSUME NEW S, NEW n \in Nat, NEW g \in [(1 .. n) \X S -> S], NEW base \in S
  PROVE  HasSeries(S, g, base, n)
<1> USE DEF HasSeries
<1> DEFINE Turns(f, m) == /\ f \in [0 .. m -> S] /\ f[0] = base
                          /\ \A k \in 1 .. m : f[k] = g[<<k, f[k - 1]>>]
           Missing == {m \in 0 .. n : ~ \E f : Turns(f, m)}
<1>1. SUFFICES ASSUME Missing # {} PROVE FALSE
  <2>1. n \in 0 .. n
    OBVIOUS
  <2>2. \E f : Turns(f, n)
    BY <1>1, <2>1
  <2> QED
    BY <2>2
<1>2. PICK m \in Missing : \A k \in Missing : m <= k
  <2>1. Missing \in SUBSET Nat
    OBVIOUS
  <2> HIDE DEF Missing
  <2> QED
    BY <1>1, <2>1, LeastExists
<1>3. m # 0
  <2>1. SUFFICES ASSUME m = 0 PROVE FALSE
    OBVIOUS
  <2>2. Turns([k \in 0 .. 0 |-> base], 0)
    OBVIOUS
  <2> QED
    BY <2>1, <2>2
<1>4. m - 1 \in 0 .. n /\ m - 1 \notin Missing
  <2>1. m \in 0 .. n
    OBVIOUS
  <2> HIDE DEF Missing
  <2> QED
    BY <1>2, <1>3, <2>1
<1>5. PICK f : Turns(f, m - 1)
  BY <1>4
<1>6. m \in 1 .. n
  BY <1>3
<1> DEFINE last == g[<<m, f[m - 1]>>]
           h == [k \in 0 .. m |-> IF k < m THEN f[k] ELSE last]
<1>7. \A k \in 0 .. m - 1 : h[k] = f[k] /\ f[k] \in S
  BY <1>5, <1>6
<1>8. h[m] = last /\ last \in S
  <2>1. m - 1 \in 0 .. m - 1
    BY <1>6
  <2>2. f[m - 1] \in S
    BY <1>7, <2>1
  <2> QED
    BY <1>6, <2>2
<1>9. h \in [0 .. m -> S]
  <2>1. ASSUME NEW k \in 0 .. m PROVE h[k] \in S
    <3>1. k = m \/ k \in 0 .. m - 1
      BY <1>6
    <3> HIDE DEF h
    <3> QED
      BY <1>7, <1>8, <3>1
  <2> QED
    BY <2>1
<1> HIDE DEF h
<1>10. ASSUME NEW k \in 1 .. m PROVE h[k] = g[<<k, h[k - 1]>>]
  <2>1. CASE k = m
    <3>1. h[m - 1] = f[m - 1]
      BY <1>6, <1>7
    <3> QED
      BY <1>8, <2>1, <3>1
  <2>2. CASE k # m
    <3>1. k \in 1 .. m - 1 /\ k \in 0 .. m - 1 /\ k - 1 \in 0 .. m - 1
      BY <1>6, <2>2
    <3>2. f[k] = g[<<k, f[k - 1]>>]
      BY <1>5, <3>1
    <3> QED
      BY <1>7, <3>1, <3>2
  <2> QED
    BY <2>1, <2>2
<1>11. h[0] = base
  BY <1>5, <1>6, <1>7
<1>12. Turns(h, m)
  BY <1>9, <1>10, <1>11
<1> QED
  BY <1>12

LEMMA LoopExists ==
  ASSUME NEW S, NEW g \in [S -> S], NEW base \in S, NEW n \in Nat
  PROVE  HasLoop(S, g, base, n)
<1> DEFINE indexed == [kx \in (1 .. n) \X S |-> g[kx[2]]]
<1>1. indexed \in [(1 .. n) \X S -> S]
  OBVIOUS
<1> HIDE DEF indexed
<1>2. PICK f \in [0 .. n -> S] :
         f[0] = base /\ \A k \in 1 .. n : f[k] = indexed[<<k, f[k - 1]>>]
  <2>1. HasSeries(S, indexed, base, n)
    BY <1>1, SeriesExists
  <2> QED
    BY <2>1 DEF HasSeries
<1>3. ASSUME NEW k \in 1 .. n PROVE f[k] = g[f[k - 1]]
  <2>1. f[k - 1] \in S
    BY <1>2
  <2> QED
    BY <1>2, <2>1 DEF indexed
<1> QED
  BY <1>2, <1>3 DEF HasLoop

\* What is so at first, and after each turn if it was before, is always so.
LEMMA LoopStays ==
  ASSUME NEW S, NEW n \in Nat, NEW f, f[0] \in S,
         \A k \in 1 .. n : f[k - 1] \in S => f[k] \in S
  PROVE  \A k \in 0 .. n : f[k] \in S
<1> DEFINE Bad == {k \in 0 .. n : f[k] \notin S}
<1>1. SUFFICES ASSUME Bad # {} PROVE FALSE
  OBVIOUS
<1>2. PICK m \in Bad : \A k \in Bad : m <= k
  <2>1. Bad \in SUBSET Nat
    OBVIOUS
  <2> HIDE DEF Bad
  <2> QED
    BY <1>1, <2>1, LeastExists
<1>3. m \in 0 .. n /\ f[m] \notin S
  OBVIOUS
<1>4. m \in 1 .. n /\ m - 1 \in 0 .. n
  <2>1. m # 0
    BY <1>3
  <2> QED
    BY <1>3, <2>1
<1>5. m - 1 \notin Bad
  <2> HIDE DEF Bad
  <2> QED
    BY <1>2, <1>4
<1>6. f[m - 1] \in S
  BY <1>4, <1>5
<1> QED
  BY <1>3, <1>4, <1>6

\* From one number to the next, up to the last one.
LEMMA UpTo ==
  ASSUME NEW first \in Int, NEW last \in Int, NEW G, first \in G,
         \A k \in first + 1 .. last : k - 1 \in G => k \in G
  PROVE  \A k \in first .. last : k \in G
<1> DEFINE Bad == {d \in Nat : first + d <= last /\ first + d \notin G}
<1>1. ASSUME NEW k \in first .. last, k \notin G PROVE FALSE
  <2>1. k - first \in Bad
    <3>1. k - first \in Nat /\ first + (k - first) = k
      OBVIOUS
    <3> QED
      BY <1>1, <3>1
  <2>2. PICK d \in Bad : \A c \in Bad : d <= c
    <3>1. Bad \in SUBSET Nat
      OBVIOUS
    <3> HIDE DEF Bad
    <3> QED
      BY <2>1, <3>1, LeastExists
  <2>3. d \in Nat /\ first + d <= last /\ first + d \notin G
    OBVIOUS
  <2>4. d # 0
    BY <2>3
  <2>5. d - 1 \in Nat /\ d - 1 \notin Bad
    <3> HIDE DEF Bad
    <3> QED
      BY <2>2, <2>3, <2>4
  <2>6. first + (d - 1) \in G
    BY <2>3, <2>5
  <2>7. first + d \in first + 1 .. last /\ (first + d) - 1 = first + (d - 1)
    BY <2>3, <2>4
  <2>8. (first + d) - 1 \in G => first + d \in G
    BY <2>7
  <2> QED
    BY <2>3, <2>6, <2>7, <2>8
<1> QED
  BY <1>1

\* Two loops that begin alike and make the same of the same are the same.
LEMMA SameLoop ==
  ASSUME NEW n \in Nat, NEW f, NEW h, f[0] = h[0],
         \A k \in 1 .. n : f[k - 1] = h[k - 1] => f[k] = h[k]
  PROVE  \A k \in 0 .. n : f[k] = h[k]
<1> DEFINE G == {k \in 0 .. n : f[k] = h[k]}
<1>1. 0 \in Int /\ n \in Int /\ 0 \in G
  OBVIOUS
<1>2. ASSUME NEW k \in 0 + 1 .. n, k - 1 \in G PROVE k \in G
  BY <1>2
<1> HIDE DEF G
<1>3. \A k \in 0 .. n : k \in G
  BY <1>1, <1>2, UpTo
<1> QED
  BY <1>3 DEF G

-----------------------------------------------------------------------------
(* Division                                                                *)

LEMMA Division ==
  ASSUME NEW x \in Nat, NEW b \in Nat \ {0}
  PROVE  /\ x \div b \in Nat /\ x % b \in 0 .. b - 1
         /\ x = b * (x \div b) + (x % b)
OBVIOUS

\* There is no other quotient and remainder.
LEMMA Divided ==
  ASSUME NEW p \in Nat \ {0}, NEW c \in Nat, NEW t \in 0 .. p - 1
  PROVE  (p * c + t) \div p = c /\ (p * c + t) % p = t
<1> DEFINE x == p * c + t
           q == x \div p
           r == x % p
<1>1. p * c \in Nat /\ x \in Nat
  OBVIOUS
<1>2. q \in Nat /\ r \in 0 .. p - 1 /\ x = p * q + r
  BY <1>1, Division
<1>3. x = p * c + t
  OBVIOUS
<1> HIDE DEF x, q, r
<1>4. q = c
  <2>1. p * q \in Int /\ p * c \in Int
    BY <1>2
  <2>2. CASE q < c
    <3>1. p * (q + 1) <= p * c
      BY <1>2, <2>2
    <3>2. p * (q + 1) = p * q + p
      BY <1>2
    <3> QED
      BY <1>2, <1>3, <2>1, <3>1, <3>2
  <2>3. CASE c < q
    <3>1. p * (c + 1) <= p * q
      BY <1>2, <2>3
    <3>2. p * (c + 1) = p * c + p
      OBVIOUS
    <3> QED
      BY <1>2, <1>3, <2>1, <3>1, <3>2
  <2> QED
    BY <1>2, <2>2, <2>3
<1>5. r = t
  <2>1. p * q \in Int
    BY <1>2
  <2> QED
    BY <1>2, <1>3, <1>4, <2>1
<1> QED
  BY <1>4, <1>5 DEF q, r, x

LEMMA Halves ==
  ASSUME NEW x \in Nat, NEW p \in Nat \ {0}
  PROVE  /\ x \div p \in Nat /\ x \div 2 \in Nat
         /\ x \div (2 * p) = (x \div p) \div 2
         /\ x \div (2 * p) = (x \div 2) \div p
<1> DEFINE q == x \div p
           r == x % p
           h == q \div 2
           y == x \div 2
           z == y \div p
<1>1. q \in Nat /\ r \in 0 .. p - 1 /\ x = p * q + r
  OBVIOUS
<1>2. h \in Nat /\ (q = 2 * h \/ q = 2 * h + 1)
  BY <1>1
<1>3. y \in Nat /\ (x = 2 * y \/ x = 2 * y + 1)
  OBVIOUS
<1>4. z \in Nat /\ \E s \in 0 .. p - 1 : y = p * z + s
  BY <1>3
<1> HIDE DEF q, r, h, y, z
<1>5. ASSUME NEW c \in Nat, NEW t \in Nat, t < 2 * p, x = (2 * p) * c + t
      PROVE  x \div (2 * p) = c
  <2>1. 2 * p \in Nat \ {0} /\ t \in 0 .. 2 * p - 1
    BY <1>5
  <2> QED
    BY <1>5, <2>1, Divided
<1>6. x \div (2 * p) = h
  <2>1. CASE q = 2 * h
    <3>1. x = (2 * p) * h + r
      BY <1>1, <1>2, <2>1
    <3> QED
      BY <1>1, <1>2, <1>5, <3>1
  <2>2. CASE q = 2 * h + 1
    <3>1. x = (2 * p) * h + (p + r)
      BY <1>1, <1>2, <2>2
    <3>2. p + r \in Nat /\ p + r < 2 * p
      BY <1>1
    <3> QED
      BY <1>2, <1>5, <3>1, <3>2
  <2> QED
    BY <1>2, <2>1, <2>2
<1>7. x \div (2 * p) = z
  <2>1. PICK s \in 0 .. p - 1 : y = p * z + s
    BY <1>4
  <2>2. CASE x = 2 * y
    <3>1. x = (2 * p) * z + 2 * s
      BY <1>3, <1>4, <2>1, <2>2
    <3>2. 2 * s \in Nat /\ 2 * s < 2 * p
      OBVIOUS
    <3> QED
      BY <1>4, <1>5, <3>1, <3>2
  <2>3. CASE x = 2 * y + 1
    <3>1. x = (2 * p) * z + (2 * s + 1)
      BY <1>3, <1>4, <2>1, <2>3
    <3>2. 2 * s + 1 \in Nat /\ 2 * s + 1 < 2 * p
      OBVIOUS
    <3> QED
      BY <1>4, <1>5, <3>1, <3>2
  <2> QED
    BY <1>3, <2>2, <2>3
<1> QED
  BY <1>1, <1>3, <1>6, <1>7 DEF q, h, y, z

\* A multiple of p more does not change the remainder.
LEMMA Remainder ==
  ASSUME NEW p \in Nat \ {0}, NEW c \in Nat, NEW t \in Nat
  PROVE  (p * c + t) % p = t % p
<1> DEFINE d == t \div p
           m == t % p
<1>1. d \in Nat /\ m \in 0 .. p - 1 /\ t = p * d + m
  BY Division
<1> HIDE DEF d, m
<1>2. p * c + t = p * (c + d) + m /\ c + d \in Nat
  <2>1. p * (c + d) = p * c + p * d /\ p * c \in Nat /\ p * d \in Nat
    BY <1>1
  <2> QED
    BY <1>1, <2>1
<1>3. (p * (c + d) + m) % p = m
  BY <1>1, <1>2, Divided
<1> QED
  BY <1>2, <1>3 DEF m

=============================================================================
