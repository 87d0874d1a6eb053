---------------------------- MODULE Floor1Proofs ----------------------------
(***************************************************************************)
(* Floor 1, for every table, every setup and every packet: amplitudes stay *)
(* in their range and the values of a packet code each exactly once; what  *)
(* an encoder makes is decoded; and the curve that is drawn, pixel by      *)
(* pixel, is the interpolation between its points.                         *)
(***************************************************************************)
EXTENDS Floor1, TLAPS, WellFoundedInduction, FiniteSetTheorems

(***************************************************************************)
(* What the actions keep, whatever a packet gives: points and amplitudes   *)
(* are natural numbers.                                                    *)
(***************************************************************************)
FInv ==
  /\ multiplier \in 1 .. 4
  /\ N \in Nat /\ N >= 2 /\ DOMAIN xs = 0 .. N - 1
  /\ xs \in [0 .. N - 1 -> Nat]
  /\ pos \in Nat
  /\ ys \in [0 .. N - 1 -> Nat]
  /\ final_ys \in [0 .. N - 1 -> Nat]
  /\ InRange => \A i \in 0 .. N - 1 : final_ys[i] < range

\* The range of amplitudes is not empty (the switch on multiplier in decode).
LEMMA RangeType == FInv => range \in Nat \ {0}
  BY FloorAssumption DEF FInv, range

\* A set of indices has a first one: what the neighbour searches return.
LEMMA FirstExists ==
  ASSUME NEW S \in SUBSET Nat, S # {}
  PROVE  \E j \in S : \A k \in S : j <= k
<1>1. PICK m \in S : \A k \in S : <<k, m>> \notin OpToRel(<, Nat)
  BY WFMin, NatLessThanWellFounded, Zenon
<1>2. \A k \in S : ~(k < m)
  BY <1>1, Zenon DEF OpToRel
<1> QED
  BY <1>2

\* The quotient in render_point is at most the difference of the heights.
LEMMA QuotientBound ==
  ASSUME NEW dy \in Nat, NEW p \in Nat, NEW dx \in Nat, p < dx
  PROVE  /\ Word(dy * p) \div dx \in Nat
         /\ Word(dy * p) \div dx <= dy
<1> DEFINE w == Word(dy * p)
<1>1. dy * p \in Nat
  OBVIOUS
<1>2. w \in Nat /\ w <= dy * p
  BY <1>1, FloorAssumption DEF Word
<1>3. dy * p <= dy * dx
  OBVIOUS
<1>4. w <= dy * dx
  BY <1>1, <1>2, <1>3
<1> HIDE DEF w
<1>5. w \div dx \in Nat /\ w \div dx <= dy
  BY <1>2, <1>4
<1> QED
  BY <1>5 DEF w

\* A point rendered between two points is between their heights.
LEMMA RenderedBetween ==
  ASSUME NEW x0 \in Nat, NEW y0 \in Nat, NEW x1 \in Nat, NEW y1 \in Nat, NEW X \in Nat,
         x0 < X, X < x1
  PROVE  LET y == render_point(x0, y0, x1, y1, X)
         IN /\ y \in Nat
            /\ y <= y0 \/ y <= y1
<1> DEFINE up   == Word((y1 - y0) * (X - x0)) \div (x1 - x0)
           down == Word((y0 - y1) * (X - x0)) \div (x1 - x0)
<1>1. X - x0 \in Nat /\ x1 - x0 \in Nat /\ X - x0 < x1 - x0
  OBVIOUS
<1>2. CASE y1 >= y0
  <2>1. y1 - y0 \in Nat
    BY <1>2
  <2>2. up \in Nat /\ up <= y1 - y0
    BY <1>1, <2>1, QuotientBound
  <2> HIDE DEF up
  <2>3. Word(y0 + up) \in Nat /\ Word(y0 + up) <= y1
    BY <2>2, FloorAssumption DEF Word
  <2> QED
    BY <1>2, <2>3 DEF render_point, up
<1>3. CASE ~(y1 >= y0)
  <2>1. y0 - y1 \in Nat
    BY <1>3
  <2>2. down \in Nat /\ down <= y0 - y1
    BY <1>1, <2>1, QuotientBound
  <2> HIDE DEF down
  <2>3. Word(y0 - down) \in Nat /\ Word(y0 - down) <= y0
    BY <2>2, FloorAssumption DEF Word
  <2> QED
    BY <1>3, <2>3 DEF render_point, down
<1> QED
  BY <1>2, <1>3

(***************************************************************************)
(* A prediction is a natural number, and in the range when the points      *)
(* before are.                                                             *)
(***************************************************************************)
LEMMA PredictionBetween ==
  ASSUME FInv, CanPredict
  PROVE  /\ pos \in 0 .. N - 1
         /\ Predicted(pos) \in Nat
         /\ InRange => Predicted(pos) < range
         /\ low_neighbor(pos) \in 0 .. N - 1
         /\ high_neighbor(pos) \in 0 .. N - 1
<1> DEFINE lo == low_neighbor(pos)
           hi == high_neighbor(pos)
<1>1. pos \in 0 .. N - 1
  BY DEF FInv, CanPredict
<1>2. lo \in LowNeighbors(pos)
  <2>1. 0 .. pos - 1 \subseteq Nat
    BY <1>1
  <2>2. LowNeighbors(pos) \in SUBSET Nat
    BY <2>1, Zenon DEF LowNeighbors
  <2>3. LowNeighbors(pos) # {}
    BY DEF CanPredict
  <2> QED
    BY <2>2, <2>3, FirstExists DEF low_neighbor
<1>3. hi \in HighNeighbors(pos)
  <2>1. 0 .. pos - 1 \subseteq Nat
    BY <1>1
  <2>2. HighNeighbors(pos) \in SUBSET Nat
    BY <2>1, Zenon DEF HighNeighbors
  <2>3. HighNeighbors(pos) # {}
    BY DEF CanPredict
  <2> QED
    BY <2>2, <2>3, FirstExists DEF high_neighbor
<1> HIDE DEF lo, hi
<1>4. lo \in 0 .. N - 1 /\ xs[lo] < xs[pos]
  BY <1>1, <1>2 DEF LowNeighbors, FInv
<1>5. hi \in 0 .. N - 1 /\ xs[pos] < xs[hi]
  BY <1>1, <1>3 DEF HighNeighbors, FInv
<1>6. /\ xs[lo] \in Nat /\ xs[hi] \in Nat /\ xs[pos] \in Nat
      /\ final_ys[lo] \in Nat /\ final_ys[hi] \in Nat
  BY <1>1, <1>4, <1>5 DEF FInv
<1> DEFINE y == render_point(xs[lo], final_ys[lo], xs[hi], final_ys[hi], xs[pos])
<1>7. y \in Nat /\ (y <= final_ys[lo] \/ y <= final_ys[hi])
  BY <1>4, <1>5, <1>6, RenderedBetween
<1>8. Predicted(pos) = y
  BY DEF Predicted, lo, hi
<1>9. InRange => final_ys[lo] < range /\ final_ys[hi] < range
  BY <1>4, <1>5 DEF FInv
<1> HIDE DEF y
<1>10. InRange => y < range
  BY <1>6, <1>7, <1>9, RangeType
<1> QED
  BY <1>1, <1>4, <1>5, <1>7, <1>8, <1>10 DEF lo, hi

(***************************************************************************)
(* Whatever is predicted within the range, a value gives a word, and one   *)
(* in the range gives an amplitude in the range.                           *)
(***************************************************************************)
LEMMA AmplitudeBounds ==
  ASSUME FInv, NEW val \in Nat, NEW p \in Nat, p <= range
  PROVE  /\ Amplitude(val, p) \in 0 .. WordSize - 1
         /\ val < range /\ p < range => Amplitude(val, p) < range
<1>1. range \in Nat \ {0} /\ range < WordSize /\ WordSize \in Nat
  BY FloorAssumption, RangeType DEF FInv, range
<1> DEFINE room == 2 * (IF range - p < p THEN range - p ELSE p)
<1>2. CASE val = 0
  BY <1>1, <1>2 DEF Amplitude
<1>3. CASE val # 0 /\ val < room
  <2>1. Amplitude(val, p) = IF val % 2 = 1 THEN p - (val + 1) \div 2 ELSE p + val \div 2
    BY <1>1, <1>3 DEF Amplitude
  <2> QED
    BY <1>1, <1>3, <2>1
<1>4. CASE val # 0 /\ val >= room /\ range - p > p
  <2>1. Amplitude(val, p) = Word(val)
    BY <1>1, <1>4 DEF Amplitude, OnlyAbove
  <2>2. val < range => Word(val) = val
    BY <1>1 DEF Word
  <2> QED
    BY <1>1, <2>1, <2>2 DEF Word
<1>5. CASE val # 0 /\ val >= room /\ ~(range - p > p)
  <2>1. Amplitude(val, p) = Word(range - 1 - val)
    BY <1>1, <1>5 DEF Amplitude, OnlyBelow
  <2>2. val < range => Word(range - 1 - val) = range - 1 - val
    BY <1>1 DEF Word
  <2> QED
    BY <1>1, <2>1, <2>2 DEF Word
<1> QED
  BY <1>1, <1>2, <1>3, <1>4, <1>5

(***************************************************************************)
(* Each amplitude in the range is what some value in the range stands for: *)
(* near the prediction by twice its distance, odd below it and even above; *)
(* beyond that by its distance from the far end of the range.              *)
(***************************************************************************)
LEMMA AmplitudeHasValue ==
  ASSUME FInv, NEW p \in Nat, p < range, NEW a \in 0 .. range - 1
  PROVE  \E val \in 0 .. range - 1 : Amplitude(val, p) = a
<1>1. range \in Nat \ {0} /\ range < WordSize /\ WordSize \in Nat
  BY FloorAssumption, RangeType DEF FInv, range
<1> DEFINE m == IF range - p < p THEN range - p ELSE p
<1>2. m \in Nat /\ m <= p /\ m <= range - p /\ (m = p \/ m = range - p)
  BY <1>1
<1>3. CASE a = p
  BY <1>1, <1>3 DEF Amplitude
<1>4. CASE a > p /\ a - p < m
  <2> DEFINE val == 2 * (a - p)
  <2>1. val \in 0 .. range - 1 /\ val # 0 /\ val < 2 * m /\ val % 2 # 1 /\ val \div 2 = a - p
    BY <1>1, <1>2, <1>4
  <2> HIDE DEF val
  <2>2. Amplitude(val, p) = p + val \div 2
    BY <1>1, <2>1 DEF Amplitude
  <2> QED
    BY <1>1, <2>1, <2>2
<1>5. CASE a < p /\ p - a <= m
  <2> DEFINE val == 2 * (p - a) - 1
  <2>1. val \in 0 .. range - 1 /\ val # 0 /\ val < 2 * m /\ val % 2 = 1 /\ (val + 1) \div 2 = p - a
    BY <1>1, <1>2, <1>5
  <2> HIDE DEF val
  <2>2. Amplitude(val, p) = p - (val + 1) \div 2
    BY <1>1, <2>1 DEF Amplitude
  <2> QED
    BY <1>1, <2>1, <2>2
<1>6. CASE a > p /\ a - p >= m
  <2>1. m = p /\ range - p > p /\ a >= 2 * m /\ a # 0
    BY <1>1, <1>2, <1>6
  <2>2. Amplitude(a, p) = Word(a - p + p)
    BY <1>1, <2>1 DEF Amplitude, OnlyAbove
  <2>3. Word(a - p + p) = a
    BY <1>1 DEF Word
  <2> QED
    BY <2>2, <2>3
<1>7. CASE a < p /\ p - a > m
  <2> DEFINE val == range - 1 - a
  <2>1. m = range - p /\ ~(range - p > p) /\ val >= 2 * m /\ val # 0 /\ val \in 0 .. range - 1
    BY <1>1, <1>2, <1>7
  <2>2. p - val + (range - p) - 1 = a
    BY <1>1
  <2> HIDE DEF val
  <2>3. Amplitude(val, p) = Word(p - val + (range - p) - 1)
    BY <1>1, <2>1 DEF Amplitude, OnlyBelow
  <2>4. Word(a) = a
    BY <1>1 DEF Word
  <2> QED
    BY <2>1, <2>2, <2>3, <2>4
<1> QED
  BY <1>1, <1>2, <1>3, <1>4, <1>5, <1>6, <1>7

(***************************************************************************)
(* A setup and a decode that has not begun: the ends of the curve are at 0 *)
(* and 2^rangebits (VorbisFloor1::parse).                                  *)
(***************************************************************************)
LEMMA FInitInv == FInit => FInv
<1> SUFFICES ASSUME FInit PROVE FInv
  OBVIOUS
<1>1. PICK n \in 2 .. MaxPoints, rangebits \in RangeBits : parse(n, rangebits)
  BY DEF FInit
<1>2. n \in Nat /\ n >= 2 /\ rangebits \in Nat
  BY FloorAssumption
<1>3. 2 ^ rangebits \in Nat
  BY FloorAssumption
<1>4. PICK x \in [2 .. n - 1 -> Bits(rangebits)] :
        xs = [i \in 0 .. n - 1 |-> IF i = 0 THEN 0 ELSE IF i = 1 THEN 2 ^ rangebits ELSE x[i]]
  BY <1>1 DEF parse
<1>5. xs \in [0 .. n - 1 -> Nat]
  <2>1. \A i \in 0 .. n - 1 : i # 0 /\ i # 1 => x[i] \in Nat
    BY <1>2, <1>4, FloorAssumption DEF Bits
  <2> QED
    BY <1>3, <1>4, <2>1
<1>6. N = n /\ DOMAIN xs = 0 .. n - 1
  BY <1>2, <1>5, FS_Interval DEF N
<1>7. multiplier \in 1 .. 4 /\ pos = 0
  BY DEF FInit
<1>8. range \in Nat \ {0}
  BY <1>7, FloorAssumption DEF range
<1>9. ys \in [0 .. N - 1 -> Nat] /\ final_ys = [i \in 0 .. N - 1 |-> 0]
  BY <1>6 DEF FInit
<1> QED
  BY <1>2, <1>5, <1>6, <1>7, <1>8, <1>9 DEF FInv

\* Every step keeps FInv: only reading and synthesising touch the amplitudes.
LEMMA FNextInv == FInv /\ [FNext]_fvars => FInv'
<1> SUFFICES ASSUME FInv, [FNext]_fvars PROVE FInv'
  OBVIOUS
<1>1. CASE DecodeAmplitudes
  <2>1. PICK first \in [0 .. 1 -> Bits(highest_bit(range - 1))],
             rest \in [DOMAIN xs \ {0, 1} -> Scalars] :
          /\ ys' = [i \in DOMAIN xs |-> IF i < 2 THEN first[i] ELSE rest[i]]
          /\ final_ys' = [i \in DOMAIN xs |-> IF i < 2 THEN first[i] ELSE 0]
    BY <1>1 DEF DecodeAmplitudes
  <2>2. /\ \A i \in 0 .. 1 : first[i] \in Nat
        /\ \A i \in 0 .. N - 1 : ~(i < 2) => rest[i] \in Nat
    <3>1. \A n : Bits(n) \subseteq Nat
      BY FloorAssumption DEF Bits
    <3>2. \A i \in 0 .. 1 : first[i] \in Nat
      BY <3>1
    <3>3. Scalars \subseteq Nat
      BY FloorAssumption
    <3>4. \A i \in 0 .. N - 1 : ~(i < 2) => i \in DOMAIN xs \ {0, 1}
      BY DEF FInv
    <3> QED
      BY <3>2, <3>3, <3>4
  <2>3. /\ ys' \in [0 .. N - 1 -> Nat]
        /\ final_ys' \in [0 .. N - 1 -> Nat]
        /\ \A i \in 0 .. N - 1 : final_ys'[i] = ys'[i] \/ final_ys'[i] = 0
    BY <2>1, <2>2, SMTT(30) DEF FInv
  <2>4. UNCHANGED <<multiplier, xs>> /\ pos' = 2
    BY <1>1 DEF DecodeAmplitudes, setup
  <2>5. N' = N /\ range' = range
    BY <2>4 DEF N, range
  <2>6. InRange' => \A i \in 0 .. N - 1 : final_ys'[i] < range
    <3>1. ASSUME InRange', NEW i \in 0 .. N - 1
          PROVE  final_ys'[i] < range
      <4>1. i \in DOMAIN xs' /\ ys'[i] < range
        BY <2>4, <2>5, <3>1 DEF InRange, FInv
      <4> QED
        BY <2>3, <4>1, RangeType
    <3> QED
      BY <3>1
  <2> QED
    BY <2>3, <2>4, <2>5, <2>6 DEF FInv
<1>2. CASE SynthesizeAmplitude
  <2> DEFINE p == Predicted(pos)
             a == Amplitude(ys[pos], p)
  <2>1. CanPredict /\ p <= range /\ final_ys' = [final_ys EXCEPT ![pos] = a] /\ pos' = pos + 1
    BY <1>2 DEF SynthesizeAmplitude
  <2>2. UNCHANGED <<multiplier, xs, ys>>
    BY <1>2 DEF SynthesizeAmplitude, setup
  <2>3. N' = N /\ range' = range
    BY <2>2 DEF N, range
  <2>4. InRange' = InRange
    BY <2>2, <2>3 DEF InRange
  <2>5. pos \in 0 .. N - 1 /\ p \in Nat /\ (InRange => p < range)
    BY <2>1, PredictionBetween
  <2>6. ys[pos] \in Nat /\ (InRange => ys[pos] < range)
    BY <2>5 DEF FInv, InRange
  <2> HIDE DEF p
  <2>7. a \in Nat /\ (InRange => a < range)
    BY <2>1, <2>5, <2>6, AmplitudeBounds
  <2> HIDE DEF a
  <2>8. /\ final_ys' \in [0 .. N - 1 -> Nat]
        /\ InRange => \A i \in 0 .. N - 1 : final_ys'[i] < range
    BY <2>1, <2>5, <2>7 DEF FInv
  <2> QED
    BY <2>1, <2>2, <2>3, <2>4, <2>8 DEF FInv
<1>3. CASE /\ UNCHANGED <<multiplier, xs, ys, final_ys>>
           /\ pos' \in Nat
  <2>1. N' = N /\ range' = range /\ InRange' = InRange
    BY <1>3 DEF N, range, InRange
  <2> QED
    BY <1>3, <2>1 DEF FInv
<1>4. ASSUME \/ DecodeUnused \/ RefusePrediction \/ MissNeighbor \/ StartCurve
             \/ DrawLine \/ SkipPoint \/ FailAssertion \/ FinishCurve
             \/ UNCHANGED fvars
      PROVE  UNCHANGED <<multiplier, xs, ys, final_ys>> /\ pos' \in Nat
  BY <1>4 DEF FInv, DecodeUnused, RefusePrediction, MissNeighbor, StartCurve, DrawLine,
     SkipPoint, FailAssertion, FinishCurve, fvars, setup, points
<1> QED
  BY <1>1, <1>2, <1>3, <1>4 DEF FNext

\* FInv holds in every state of a decode.
THEOREM FInvariant == FSpec => []FInv
BY FInitInv, FNextInv, PTL DEF FSpec

(***************************************************************************)
(* For every table, setup and packet: amplitudes given in the range stay   *)
(* in it, and no prediction of theirs is refused.                          *)
(***************************************************************************)
THEOREM AmplitudesStay == FSpec => []AmplitudesInRange
<1>1. FInv => AmplitudesInRange
  BY PredictionBetween DEF FInv, AmplitudesInRange
<1> QED
  BY <1>1, FInvariant, PTL

(***************************************************************************)
(* For every table, setup and packet: whatever is predicted, the values in *)
(* the range stand for all amplitudes in the range.                        *)
(***************************************************************************)
THEOREM AmplitudesReached == FSpec => []EveryAmplitudeIsReached
<1>1. ASSUME FInv, CanPredict, Predicted(pos) < range
      PROVE  {Amplitude(val, Predicted(pos)) : val \in 0 .. range - 1} = 0 .. range - 1
  <2> DEFINE p == Predicted(pos)
  <2>1. p \in Nat /\ p < range /\ range \in Nat
    BY <1>1, PredictionBetween, RangeType
  <2> HIDE DEF p
  <2>2. \A val \in 0 .. range - 1 : Amplitude(val, p) \in 0 .. range - 1
    BY <1>1, <2>1, AmplitudeBounds
  <2>3. \A a \in 0 .. range - 1 : \E val \in 0 .. range - 1 : Amplitude(val, p) = a
    BY <1>1, <2>1, AmplitudeHasValue
  <2>4. {Amplitude(val, p) : val \in 0 .. range - 1} = 0 .. range - 1
    BY <2>2, <2>3, Zenon
  <2> QED
    BY <2>4 DEF p
<1>2. FInv => EveryAmplitudeIsReached
  BY <1>1 DEF EveryAmplitudeIsReached
<1> QED
  BY <1>2, FInvariant, PTL

-----------------------------------------------------------------------------
(* The line of render_line                                                 *)

\* Division with remainder.
LEMMA Division ==
  ASSUME NEW q \in Nat, NEW d \in Nat, NEW r \in Nat, r < d
  PROVE  (q * d + r) \div d = q /\ (q * d + r) % d = r
OBVIOUS

LEMMA Divided ==
  ASSUME NEW a \in Nat, NEW d \in Nat, d > 0
  PROVE  /\ a \div d \in Nat /\ a % d \in Nat /\ a % d < d
         /\ a = ((a \div d) * d) + (a % d)
OBVIOUS

(***************************************************************************)
(* One pixel of render_line: adding the remainder to the error, and one    *)
(* more to y when it reaches the width, is the division of the next        *)
(* multiple of the height.                                                 *)
(***************************************************************************)
LEMMA ErrorCarried ==
  ASSUME NEW dy \in Nat, NEW k \in Nat, NEW d \in Nat, d > 0
  PROVE  LET err == ((dy * k) % d) + (dy % d)
         IN IF err >= d
            THEN /\ (dy * (k + 1)) \div d = ((dy * k) \div d) + (dy \div d) + 1
                 /\ (dy * (k + 1)) % d = err - d
            ELSE /\ (dy * (k + 1)) \div d = ((dy * k) \div d) + (dy \div d)
                 /\ (dy * (k + 1)) % d = err
<1> DEFINE Q == (dy * k) \div d
           E == (dy * k) % d
           base == dy \div d
           rest == dy % d
<1>1. dy * k \in Nat
  OBVIOUS
<1>2. Q \in Nat /\ E \in Nat /\ E < d /\ dy * k = (Q * d) + E
  BY <1>1, Divided
<1>3. base \in Nat /\ rest \in Nat /\ rest < d /\ dy = (base * d) + rest
  BY Divided
<1> HIDE DEF Q, E, base, rest
<1>4. dy * (k + 1) = ((Q + base) * d) + (E + rest)
  <2>1. dy * (k + 1) = (dy * k) + dy
    OBVIOUS
  <2>2. (Q + base) * d = (Q * d) + (base * d)
    BY <1>2, <1>3
  <2> QED
    BY <1>2, <1>3, <2>1, <2>2
<1> DEFINE z == dy * (k + 1)
<1>5. \A q \in Nat, r \in Nat : z = (q * d) + r /\ r < d => z \div d = q /\ z % d = r
  BY Division
<1> HIDE DEF z
<1>6. z = ((Q + base) * d) + (E + rest)
  BY <1>4 DEF z
<1>7. CASE E + rest >= d
  <2> DEFINE q == (Q + base) + 1
             r == (E + rest) - d
  <2>1. q \in Nat /\ r \in Nat /\ r < d
    BY <1>2, <1>3, <1>7
  <2>2. ((Q + base) + 1) * d = ((Q + base) * d) + d
    BY <1>2, <1>3
  <2>3. z = (q * d) + r
    BY <1>2, <1>3, <1>6, <2>2
  <2> HIDE DEF q, r
  <2>4. z \div d = q /\ z % d = r
    BY <1>5, <2>1, <2>3
  <2> QED
    BY <1>7, <2>4 DEF z, q, r, Q, E, base, rest
<1>8. CASE ~(E + rest >= d)
  <2> DEFINE q == Q + base
             r == E + rest
  <2>1. q \in Nat /\ r \in Nat /\ r < d
    BY <1>2, <1>3, <1>8
  <2>2. z = (q * d) + r
    BY <1>6
  <2> HIDE DEF q, r
  <2>3. z \div d = q /\ z % d = r
    BY <1>5, <2>1, <2>2
  <2> QED
    BY <1>8, <2>3 DEF z, q, r, Q, E, base, rest
<1> QED
  BY <1>7, <1>8

\* A part of the width has a part of the height.
LEMMA PartOfHeight ==
  ASSUME NEW dy \in Nat, NEW k \in Nat, NEW d \in Nat, k <= d, d > 0
  PROVE  (dy * k) \div d \in 0 .. dy
<1>1. dy * k \in Nat /\ dy * k <= dy * d
  OBVIOUS
<1> DEFINE p == dy * k
<1> HIDE DEF p
<1>2. p \in Nat /\ p <= dy * d
  BY <1>1 DEF p
<1>3. p \div d \in Nat /\ p \div d <= dy
  BY <1>2
<1> QED
  BY <1>3 DEF p

(***************************************************************************)
(* What render_line computes from pixel to pixel is the straight line,     *)
(* rounded towards its beginning, and it stays between its ends.           *)
(***************************************************************************)
LEMMA LineIsStraight ==
  ASSUME NEW x0 \in Nat, NEW y0 \in Nat, NEW x1 \in Nat, NEW y1 \in Nat, x0 < x1,
         NEW x \in x0 .. x1 - 1
  PROVE  /\ LineAt(x0, y0, x1, y1)[x].y = LineHeight(x0, y0, x1, y1, x)
         /\ IF y1 >= y0 THEN LineHeight(x0, y0, x1, y1, x) \in y0 .. y1
                        ELSE LineHeight(x0, y0, x1, y1, x) \in y1 .. y0
<1> DEFINE dx   == x1 - x0
           dy   == IF y1 >= y0 THEN y1 - y0 ELSE y0 - y1
           sign == IF y1 >= y0 THEN 1 ELSE -1
           Q(k) == (dy * k) \div dx
           E(k) == (dy * k) % dx
           start == [y |-> y0, err |-> 0]
           Step(v) ==
             LET err == v.err + (dy % dx)
             IN IF err >= dx THEN [y |-> v.y + sign * ((dy \div dx) + 1), err |-> err - dx]
                             ELSE [y |-> v.y + sign * (dy \div dx), err |-> err]
           Body(at) == [n \in x0 .. x1 - 1 |-> IF n = x0 THEN start ELSE Step(at[n - 1])]
           g == [n \in x0 .. x1 - 1 |-> [y |-> y0 + sign * Q(n - x0), err |-> E(n - x0)]]
           at0 == LineAt(x0, y0, x1, y1)
<1>1. dx \in Nat /\ dx > 0 /\ dy \in Nat
  OBVIOUS
<1>2. at0 = CHOOSE at : at = Body(at)
  BY DEF LineAt
<1>3. \A n \in x0 .. x1 - 1 : n # x0 =>
        IF E(n - 1 - x0) + (dy % dx) >= dx
        THEN /\ Q(n - x0) = Q(n - 1 - x0) + (dy \div dx) + 1
             /\ E(n - x0) = E(n - 1 - x0) + (dy % dx) - dx
        ELSE /\ Q(n - x0) = Q(n - 1 - x0) + (dy \div dx)
             /\ E(n - x0) = E(n - 1 - x0) + (dy % dx)
  <2> SUFFICES ASSUME NEW n \in x0 .. x1 - 1, n # x0
               PROVE  IF E(n - 1 - x0) + (dy % dx) >= dx
                      THEN /\ Q(n - x0) = Q(n - 1 - x0) + (dy \div dx) + 1
                           /\ E(n - x0) = E(n - 1 - x0) + (dy % dx) - dx
                      ELSE /\ Q(n - x0) = Q(n - 1 - x0) + (dy \div dx)
                           /\ E(n - x0) = E(n - 1 - x0) + (dy % dx)
    BY Zenon
  <2> DEFINE k == n - 1 - x0
  <2>1. k \in Nat /\ k + 1 = n - x0
    OBVIOUS
  <2> HIDE DEF k, dx, dy
  <2> QED
    BY <1>1, <2>1, ErrorCarried DEF k
<1>4. Q(0) = 0 /\ E(0) = 0
  <2> HIDE DEF dx, dy
  <2>1. dy * 0 = 0 /\ 0 \div dx = 0 /\ 0 % dx = 0
    BY <1>1
  <2> QED
    BY <2>1
<1>5. \A k \in 0 .. dx - 1 : Q(k) \in 0 .. dy /\ E(k) \in Nat
  <2> SUFFICES ASSUME NEW k \in 0 .. dx - 1 PROVE Q(k) \in 0 .. dy /\ E(k) \in Nat
    OBVIOUS
  <2> HIDE DEF dx, dy
  <2>1. k \in Nat /\ k <= dx /\ dy * k \in Nat
    BY <1>1
  <2>2. Q(k) \in 0 .. dy
    BY <1>1, <2>1, PartOfHeight
  <2>3. E(k) \in Nat
    BY <1>1, <2>1, Divided
  <2> QED
    BY <2>2, <2>3
<1>6. dy \div dx \in Nat /\ dy % dx \in Nat
  <2> HIDE DEF dx, dy
  <2> QED
    BY <1>1, Divided
<1> HIDE DEF dx, dy, Q, E
<1>7. \A n \in x0 .. x1 - 1 : n - x0 \in 0 .. dx - 1 /\ (n # x0 => n - 1 \in x0 .. x1 - 1)
  BY DEF dx
<1>8. \A at : \A n \in x0 .. x1 - 1 : (n # x0 => at[n - 1] = g[n - 1]) => Body(at)[n] = g[n]
  <2> SUFFICES ASSUME NEW at, NEW n \in x0 .. x1 - 1,
                      n # x0 => at[n - 1] = g[n - 1]
               PROVE  Body(at)[n] = g[n]
    BY Zenon
  <2>1. CASE n = x0
    <3>1. n - x0 = 0
      BY <2>1
    <3> QED
      BY <1>4, <2>1, <3>1
  <2>2. CASE n # x0
    <3> DEFINE q == Q(n - 1 - x0)
               e == E(n - 1 - x0)
               b == dy \div dx
               r == dy % dx
    <3>1. n - 1 \in x0 .. x1 - 1 /\ n - 1 - x0 \in 0 .. dx - 1
      BY <1>7, <2>2
    <3>2. at[n - 1] = [y |-> y0 + sign * q, err |-> e]
      BY <2>2, <3>1
    <3> HIDE DEF q, e, b, r
    <3>3. q \in Nat /\ e \in Nat /\ b \in Nat /\ r \in Nat
      BY <1>1, <1>5, <1>6, <3>1 DEF q, e, b, r
    <3>4. IF e + r >= dx THEN Q(n - x0) = q + b + 1 /\ E(n - x0) = e + r - dx
                         ELSE Q(n - x0) = q + b /\ E(n - x0) = e + r
      BY <1>3, <2>2 DEF q, e, b, r
    <3>5. at[n - 1].err = e /\ at[n - 1].y = y0 + sign * q
      BY <3>2
    <3>6. Body(at)[n] = IF at[n - 1].err + r >= dx
                        THEN [y |-> at[n - 1].y + sign * (b + 1), err |-> (at[n - 1].err + r) - dx]
                        ELSE [y |-> at[n - 1].y + sign * b, err |-> at[n - 1].err + r]
      <4>1. Body(at)[n] = Step(at[n - 1])
        <5> HIDE DEF Step, start
        <5> QED
          BY <2>2
      <4> HIDE DEF Body, sign
      <4> QED
        BY <4>1 DEF b, r
    <3>7. g[n] = [y |-> y0 + sign * Q(n - x0), err |-> E(n - x0)]
      OBVIOUS
    <3>8. /\ (y0 + sign * q) + sign * (b + 1) = y0 + sign * (q + b + 1)
          /\ (y0 + sign * q) + sign * b = y0 + sign * (q + b)
          /\ (e + r) - dx = e + r - dx
      BY <1>1, <3>3
    <3> HIDE DEF g, Body, sign
    <3>9. CASE e + r >= dx
      BY <3>4, <3>5, <3>6, <3>7, <3>8, <3>9
    <3>10. CASE ~(e + r >= dx)
      BY <3>4, <3>5, <3>6, <3>7, <3>8, <3>10
    <3> QED
      BY <3>9, <3>10
  <2> QED
    BY <2>1, <2>2
<1>9. g = Body(g)
  <2>1. \A n \in x0 .. x1 - 1 : Body(g)[n] = g[n]
    BY <1>8, Zenon
  <2> QED
    BY <2>1
<1>10. at0 = Body(at0)
  <2> HIDE DEF g, Body, at0
  <2> QED
    BY <1>2, <1>9, Zenon
<1>11. \A n \in x0 .. x1 - 1 : at0[n] = g[n]
  <2> DEFINE S == {n \in x0 .. x1 - 1 : at0[n] # g[n]}
  <2>1. S \in SUBSET Nat
    OBVIOUS
  <2>2. ASSUME S # {} PROVE FALSE
    <3> HIDE DEF at0, g, Body
    <3>1. PICK m \in S : \A k \in S : m <= k
      BY <2>1, <2>2, FirstExists
    <3>2. m \in x0 .. x1 - 1 /\ at0[m] # g[m]
      OBVIOUS
    <3>3. m # x0 => at0[m - 1] = g[m - 1]
      BY <1>7, <3>1, <3>2
    <3>4. at0[m] = Body(at0)[m]
      BY <1>10
    <3>5. Body(at0)[m] = g[m]
      BY <1>8, <3>2, <3>3, Zenon
    <3> QED
      BY <3>2, <3>4, <3>5
  <2> QED
    BY <2>2
<1>12. LineAt(x0, y0, x1, y1)[x].y = y0 + sign * Q(x - x0)
  <2>1. g[x].y = y0 + sign * Q(x - x0)
    OBVIOUS
  <2> HIDE DEF at0, g
  <2>2. at0[x] = g[x]
    BY <1>11
  <2> QED
    BY <2>1, <2>2 DEF at0
<1>13. LineHeight(x0, y0, x1, y1, x) = y0 + sign * Q(x - x0)
  BY <1>1, <1>5, <1>7 DEF LineHeight, Q, dy, dx
<1>14. Q(x - x0) \in 0 .. dy
  BY <1>5, <1>7
<1>15. IF y1 >= y0 THEN y0 + sign * Q(x - x0) \in y0 .. y1
                   ELSE y0 + sign * Q(x - x0) \in y1 .. y0
  BY <1>14 DEF dy
<1> QED
  BY <1>12, <1>13, <1>15

-----------------------------------------------------------------------------
(* What decode keeps                                                       *)

\* The places of the points, and their order (VorbisFloor1::parse).
SetupInv ==
  /\ size \in Sizes
  /\ xs[0] = 0 /\ 0 < xs[1]
  /\ \A i \in 2 .. N - 1 : xs[i] < xs[1]
  /\ xs_sorted_idx \in SortedIdx(xs)

\* The words of the packet and of the curve.
WordInv ==
  /\ ys \in [0 .. N - 1 -> 0 .. WordSize - 1]
  /\ final_ys \in [0 .. N - 1 -> 0 .. WordSize - 1]
  /\ step2_flag \in [0 .. N - 1 -> BOOLEAN]
  /\ floor \in [0 .. size - 1 -> 0 .. WordSize - 1]
  /\ pos \in 0 .. N
  /\ lx \in Nat /\ ly \in 0 .. WordSize - 1
  /\ status \in {"parsed", "unused", "amplitudes", "curve", "done", "refused", "aborted"}

\* What step 1 has flagged so far, and what step 2 finds flagged.
FlagInv ==
  /\ status = "parsed" => \A i \in 0 .. N - 1 : step2_flag[i] <=> i < 2
  /\ status = "amplitudes" =>
       /\ pos >= 2
       /\ \A i \in 0 .. N - 1 :
            step2_flag[i] <=> i < 2 \/ \E j \in 2 .. pos - 1 : ys[j] # 0 /\ i \in Flagged(j)
  /\ status \in {"curve", "done"} =>
       \A i \in 0 .. N - 1 : step2_flag[i] <=> i \in Fixed

\* Valid amplitudes give heights that inverse_db_table has.
DrawnInv ==
  /\ status = "parsed" => ly = 0 /\ \A x \in 0 .. size - 1 : floor[x] = 0
  /\ InRange => ly < TableSize /\ \A x \in 0 .. size - 1 : floor[x] < TableSize

\* The m-th point from the left is the last one that a line was drawn to.
DrawnTo(m) ==
  /\ step2_flag[xs_sorted_idx[m]]
  /\ lx = sortedX(m) /\ ly = sortedY(m)
  /\ \A k \in m + 1 .. pos - 1 : ~step2_flag[xs_sorted_idx[k]]

\* The curve is finished up to that point.
CurveInv ==
  status = "curve" /\ Distinct =>
    /\ \E m \in 0 .. pos - 1 : DrawnTo(m)
    /\ \A x \in 0 .. size - 1 : x < lx => OnLine(x)

(***************************************************************************)
(* The invariant of a decode: the curve is right as far as it is drawn,    *)
(* because the points are taken in strictly ascending order and none that  *)
(* is flagged is left out.                                                 *)
(***************************************************************************)
CInv ==
  /\ FInv /\ SetupInv /\ WordInv /\ FlagInv /\ DrawnInv /\ CurveInv
  /\ ValidIsDecoded /\ CurveIsInterpolated

(***************************************************************************)
(* What does not change as long as the setup and the packet's values stay. *)
(***************************************************************************)
LEMMA SetupStays ==
  ASSUME UNCHANGED <<setup, size, ys>>
  PROVE  /\ N' = N /\ range' = range /\ InRange' = InRange /\ Distinct' = Distinct
         /\ \A i : Flagged(i)' = Flagged(i)
         /\ Fixed' = Fixed
         /\ \A i : sortedX(i)' = sortedX(i)
         /\ SetupInv' = SetupInv
<1>1. UNCHANGED <<xs, xs_sorted_idx, multiplier, size, ys>>
  BY DEF setup
<1>2. N' = N /\ range' = range
  BY <1>1 DEF N, range
<1>3. InRange' = InRange /\ Distinct' = Distinct
  BY <1>1, <1>2 DEF InRange, Distinct
<1>4. \A i : LowNeighbors(i)' = LowNeighbors(i) /\ HighNeighbors(i)' = HighNeighbors(i)
  BY <1>1 DEF LowNeighbors, HighNeighbors
<1>5. \A i : low_neighbor(i)' = low_neighbor(i) /\ high_neighbor(i)' = high_neighbor(i)
  BY <1>4 DEF low_neighbor, high_neighbor
<1>6. \A i : Flagged(i)' = Flagged(i)
  BY <1>5 DEF Flagged
<1>7. Given' = Given
  BY <1>1 DEF Given
<1>8. Fixed' = Fixed
  BY <1>5, <1>7 DEF Fixed
<1>9. \A i : sortedX(i)' = sortedX(i)
  BY <1>1 DEF sortedX
<1>10. SetupInv' = SetupInv
  BY <1>1, <1>2 DEF SetupInv
<1> QED
  BY <1>2, <1>3, <1>6, <1>8, <1>9, <1>10

\* And what does not change as long as the amplitudes stay, too.
LEMMA PointsStay ==
  ASSUME UNCHANGED <<setup, size, ys, final_ys>>
  PROVE  /\ \A i : Height(i)' = Height(i)
         /\ \A i : sortedY(i)' = sortedY(i)
         /\ \A x : floor'[x] = floor[x] => OnLine(x)' = OnLine(x)
<1>1. UNCHANGED <<xs, xs_sorted_idx, multiplier, final_ys>>
  BY DEF setup
<1>2. Fixed' = Fixed
  BY SetupStays
<1>3. \A i : Height(i)' = Height(i)
  BY <1>1 DEF Height, Word
<1>4. \A i : sortedY(i)' = sortedY(i)
  BY <1>1 DEF sortedY, Word
<1>5. ASSUME NEW x, floor'[x] = floor[x]
      PROVE  OnLine(x)' = OnLine(x)
  BY <1>1, <1>2, <1>3, <1>5 DEF OnLine, LineHeight
<1> QED
  BY <1>3, <1>4, <1>5

(***************************************************************************)
(* A height is a word, and one that inverse_db_table has if the amplitude  *)
(* is in its range.                                                        *)
(***************************************************************************)
LEMMA HeightBounds ==
  ASSUME FInv, NEW a \in Nat
  PROVE  /\ Word(a * multiplier) \in 0 .. WordSize - 1
         /\ a < range => Word(a * multiplier) < TableSize
<1>1. multiplier \in 1 .. 4 /\ TableSize \in Nat \ {0} /\ WordSize \in Nat /\ TableSize < WordSize
  BY FloorAssumption DEF FInv
<1>2. a * multiplier \in Nat
  BY <1>1
<1>3. Word(a * multiplier) \in 0 .. WordSize - 1
  BY <1>1, <1>2 DEF Word
<1>4. ASSUME a < range
      PROVE  Word(a * multiplier) < TableSize
  <2>1. a * multiplier < TableSize
    <3>1. CASE multiplier = 1
      BY <1>1, <1>4, <3>1 DEF range
    <3>2. CASE multiplier = 2
      BY <1>1, <1>4, <3>2 DEF range
    <3>3. CASE multiplier = 3
      BY <1>1, <1>4, <3>3 DEF range
    <3>4. CASE multiplier = 4
      BY <1>1, <1>4, <3>4 DEF range
    <3> QED
      BY <1>1, <3>1, <3>2, <3>3, <3>4
  <2>2. Word(a * multiplier) <= a * multiplier
    BY <1>1, <1>2 DEF Word
  <2> QED
    BY <1>1, <1>2, <1>3, <2>1, <2>2
<1> QED
  BY <1>3, <1>4

\* A line that does not climb is flat.
LEMMA FlatLine ==
  ASSUME NEW x0 \in Nat, NEW x1 \in Nat, x0 < x1, NEW y \in Nat, NEW x \in x0 .. x1 - 1
  PROVE  LineHeight(x0, y, x1, y, x) = y
<1>1. y - y = 0 /\ (y - y) * (x - x0) = 0
  OBVIOUS
<1>2. x1 - x0 \in Nat /\ x1 - x0 > 0
  OBVIOUS
<1>3. 0 \div (x1 - x0) = 0
  BY <1>2
<1> QED
  BY <1>1, <1>3 DEF LineHeight

(***************************************************************************)
(* A line over the vector: the vector keeps its size and its words, each   *)
(* pixel of the line gets its height, and the others stay.                 *)
(***************************************************************************)
LEMMA LineDrawn ==
  ASSUME size \in Nat, floor \in [0 .. size - 1 -> 0 .. WordSize - 1],
         NEW x0 \in Nat, NEW x1 \in Nat, x0 < x1,
         NEW y0 \in 0 .. WordSize - 1, NEW y1 \in 0 .. WordSize - 1
  PROVE  /\ render_line(x0, y0, x1, y1) \in [0 .. size - 1 -> 0 .. WordSize - 1]
         /\ \A x \in 0 .. size - 1 : x0 <= x /\ x < x1 =>
              /\ render_line(x0, y0, x1, y1)[x] = LineHeight(x0, y0, x1, y1, x)
              /\ \/ render_line(x0, y0, x1, y1)[x] <= y0
                 \/ render_line(x0, y0, x1, y1)[x] <= y1
         /\ \A x \in 0 .. size - 1 : ~(x0 <= x /\ x < x1) =>
              render_line(x0, y0, x1, y1)[x] = floor[x]
<1> DEFINE f == render_line(x0, y0, x1, y1)
           h(x) == LineAt(x0, y0, x1, y1)[x].y
<1>1. WordSize \in Nat /\ y0 \in Nat /\ y1 \in Nat
  BY FloorAssumption
<1>2. \A x \in x0 .. x1 - 1 : /\ h(x) = LineHeight(x0, y0, x1, y1, x)
                              /\ h(x) \in 0 .. WordSize - 1
                              /\ h(x) <= y0 \/ h(x) <= y1
  <2> SUFFICES ASSUME NEW x \in x0 .. x1 - 1
               PROVE  /\ h(x) = LineHeight(x0, y0, x1, y1, x)
                      /\ h(x) \in 0 .. WordSize - 1
                      /\ h(x) <= y0 \/ h(x) <= y1
    BY Zenon
  <2>1. h(x) = LineHeight(x0, y0, x1, y1, x)
    BY <1>1, LineIsStraight
  <2>2. IF y1 >= y0 THEN LineHeight(x0, y0, x1, y1, x) \in y0 .. y1
                    ELSE LineHeight(x0, y0, x1, y1, x) \in y1 .. y0
    BY <1>1, LineIsStraight
  <2> HIDE DEF h
  <2> QED
    BY <1>1, <2>1, <2>2
<1> HIDE DEF h
<1>3. f = [x \in 0 .. size - 1 |-> IF x0 <= x /\ x < x1 THEN h(x) ELSE floor[x]]
  <2>1. DOMAIN floor \union Pixels(x0, x1) = 0 .. size - 1
    BY DEF Pixels
  <2>2. \A x \in 0 .. size - 1 : x \in Pixels(x0, x1) <=> x0 <= x /\ x < x1
    BY DEF Pixels
  <2> QED
    BY <2>1, <2>2 DEF render_line, h
<1> HIDE DEF f
<1>4. \A x \in 0 .. size - 1 : x0 <= x /\ x < x1 => x \in x0 .. x1 - 1
  OBVIOUS
<1>5. f \in [0 .. size - 1 -> 0 .. WordSize - 1]
  BY <1>2, <1>3, <1>4
<1>6. \A x \in 0 .. size - 1 : x0 <= x /\ x < x1 =>
        f[x] = LineHeight(x0, y0, x1, y1, x) /\ (f[x] <= y0 \/ f[x] <= y1)
  BY <1>2, <1>3, <1>4
<1>7. \A x \in 0 .. size - 1 : ~(x0 <= x /\ x < x1) => f[x] = floor[x]
  BY <1>3
<1> QED
  BY <1>5, <1>6, <1>7 DEF f

(***************************************************************************)
(* With distinct places every point but the two at the ends has neighbours *)
(* among the points before it, for the ends are before it, and the         *)
(* searches find one of the nearest.                                       *)
(***************************************************************************)
LEMMA NeighborsExist ==
  ASSUME FInv, SetupInv, Distinct, NEW i \in 2 .. N - 1
  PROVE  /\ low_neighbor(i) \in LowNeighbors(i) /\ high_neighbor(i) \in HighNeighbors(i)
         /\ LowNeighbors(i) # {} /\ HighNeighbors(i) # {}
         /\ Flagged(i) \subseteq 0 .. N - 1
<1>1. /\ N \in Nat /\ N >= 2 /\ xs \in [0 .. N - 1 -> Nat] /\ i \in Nat
      /\ \A j \in 0 .. i - 1 : j \in 0 .. N - 1 /\ xs[j] \in Nat
      /\ xs[i] \in Nat
  BY DEF FInv
<1>2. 0 \in 0 .. i - 1 /\ 1 \in 0 .. i - 1 /\ xs[0] < xs[i] /\ xs[i] < xs[1]
  BY <1>1 DEF SetupInv, Distinct, FInv
<1>3. LowNeighbors(i) # {}
  <2> DEFINE S == {xs[i] - xs[j] : j \in {k \in 0 .. i - 1 : xs[k] < xs[i]}}
  <2>1. S \in SUBSET Nat
    BY <1>1
  <2>2. S # {}
    BY <1>2
  <2> HIDE DEF S
  <2>3. PICK d \in S : \A e \in S : d <= e
    BY <2>1, <2>2, FirstExists
  <2>4. PICK j \in 0 .. i - 1 : xs[j] < xs[i] /\ d = xs[i] - xs[j]
    BY <2>3 DEF S
  <2>5. \A k \in 0 .. i - 1 : xs[k] < xs[i] => xs[i] - xs[k] \in S
    BY DEF S
  <2>6. \A k \in 0 .. i - 1 : xs[k] < xs[i] => xs[k] <= xs[j]
    BY <1>1, <2>3, <2>4, <2>5
  <2> QED
    BY <2>4, <2>6 DEF LowNeighbors
<1>4. HighNeighbors(i) # {}
  <2> DEFINE S == {xs[j] : j \in {k \in 0 .. i - 1 : xs[k] > xs[i]}}
  <2>1. S \in SUBSET Nat
    BY <1>1
  <2>2. S # {}
    BY <1>1, <1>2
  <2> HIDE DEF S
  <2>3. PICK d \in S : \A e \in S : d <= e
    BY <2>1, <2>2, FirstExists
  <2>4. PICK j \in 0 .. i - 1 : xs[j] > xs[i] /\ d = xs[j]
    BY <2>3 DEF S
  <2>5. \A k \in 0 .. i - 1 : xs[k] > xs[i] => xs[k] \in S
    BY DEF S
  <2>6. \A k \in 0 .. i - 1 : xs[k] > xs[i] => xs[k] >= xs[j]
    BY <1>1, <2>3, <2>4, <2>5
  <2> QED
    BY <2>4, <2>6 DEF HighNeighbors
<1>5. LowNeighbors(i) \in SUBSET Nat /\ HighNeighbors(i) \in SUBSET Nat
  <2>1. 0 .. i - 1 \subseteq Nat
    BY <1>1
  <2> QED
    BY <2>1, Zenon DEF LowNeighbors, HighNeighbors
<1>6. low_neighbor(i) \in LowNeighbors(i)
  BY <1>3, <1>5, FirstExists DEF low_neighbor
<1>7. high_neighbor(i) \in HighNeighbors(i)
  BY <1>4, <1>5, FirstExists DEF high_neighbor
<1>8. low_neighbor(i) \in 0 .. N - 1 /\ high_neighbor(i) \in 0 .. N - 1
  BY <1>1, <1>6, <1>7 DEF LowNeighbors, HighNeighbors
<1> QED
  BY <1>1, <1>3, <1>4, <1>6, <1>7, <1>8 DEF Flagged

\* So the points that the curve must go through are points of the setup.
LEMMA FixedArePoints ==
  ASSUME FInv, SetupInv, Distinct
  PROVE  Fixed \subseteq 0 .. N - 1
<1>1. 0 \in 0 .. N - 1 /\ 1 \in 0 .. N - 1
  BY DEF FInv
<1>2. \A i \in Given : i \in 2 .. N - 1
  BY DEF Given, FInv
<1>3. \A i \in Given : {i, low_neighbor(i), high_neighbor(i)} \subseteq 0 .. N - 1
  BY <1>2, NeighborsExist DEF Flagged
<1> QED
  BY <1>1, <1>3 DEF Fixed

(***************************************************************************)
(* Sorting distinct places: each point has one rank, ranks follow the      *)
(* places, and the ends are first and last.                                *)
(***************************************************************************)
LEMMA SortedOrder ==
  ASSUME FInv, SetupInv, Distinct
  PROVE  /\ xs_sorted_idx \in [0 .. N - 1 -> 0 .. N - 1]
         /\ \A m \in 0 .. N - 1 : sortedX(m) \in Nat
         /\ \A m, k \in 0 .. N - 1 : m < k <=> sortedX(m) < sortedX(k)
         /\ \A i \in 0 .. N - 1 : \E m \in 0 .. N - 1 : xs_sorted_idx[m] = i
         /\ xs_sorted_idx[0] = 0 /\ xs_sorted_idx[N - 1] = 1
<1> DEFINE I   == 0 .. N - 1
           idx == xs_sorted_idx
<1>1. /\ N \in Nat /\ N >= 2 /\ xs \in [I -> Nat] /\ DOMAIN xs = I
      /\ 0 \in I /\ 1 \in I /\ N - 1 \in I
  BY DEF FInv
<1>2. /\ idx \in [I -> I]
      /\ \A m, k \in I : m < k => idx[m] # idx[k] /\ xs[idx[m]] <= xs[idx[k]]
  BY <1>1 DEF SetupInv, SortedIdx
<1>3. \A m, k \in I : m < k => xs[idx[m]] < xs[idx[k]]
  <2>1. \A i, j \in I : i # j => xs[i] # xs[j]
    BY <1>1 DEF Distinct
  <2> SUFFICES ASSUME NEW m \in I, NEW k \in I, m < k PROVE xs[idx[m]] < xs[idx[k]]
    BY Zenon
  <2>2. idx[m] \in I /\ idx[k] \in I /\ idx[m] # idx[k] /\ xs[idx[m]] <= xs[idx[k]]
    BY <1>2
  <2>3. xs[idx[m]] # xs[idx[k]] /\ xs[idx[m]] \in Nat /\ xs[idx[k]] \in Nat
    BY <1>1, <2>1, <2>2
  <2> QED
    BY <2>2, <2>3
<1>4. \A m, k \in I : m < k <=> xs[idx[m]] < xs[idx[k]]
  <2> SUFFICES ASSUME NEW m \in I, NEW k \in I, xs[idx[m]] < xs[idx[k]] PROVE m < k
    BY <1>3
  <2>1. xs[idx[m]] \in Nat /\ xs[idx[k]] \in Nat
    BY <1>1, <1>2
  <2>2. m # k
    BY <2>1
  <2>3. ~(k < m)
    BY <1>3, <2>1
  <2> QED
    BY <2>2, <2>3
<1>5. idx \in Surjection(I, I)
  <2>1. idx \in Injection(I, I)
    <3>1. \A m, k \in I : idx[m] = idx[k] => m = k
      <4> SUFFICES ASSUME NEW m \in I, NEW k \in I, idx[m] = idx[k], m # k PROVE FALSE
        OBVIOUS
      <4>1. m < k \/ k < m
        OBVIOUS
      <4> QED
        BY <1>2, <4>1
    <3> QED
      BY <1>2, <3>1 DEF Injection, IsInjective
  <2>2. IsFiniteSet(I)
    BY <1>1, FS_Interval
  <2> HIDE DEF I, idx
  <2> QED
    BY <2>1, <2>2, FS_Injection
<1>6. \A i \in I : \E m \in I : idx[m] = i
  BY <1>5 DEF Surjection
<1>7. idx[0] = 0
  <2>1. PICK m \in I : idx[m] = 0
    BY <1>1, <1>6
  <2>2. xs[0] = 0 /\ xs[idx[0]] \in Nat
    BY <1>1, <1>2 DEF SetupInv
  <2>3. ~(0 < m)
    BY <1>1, <1>3, <2>1, <2>2
  <2> QED
    BY <2>1, <2>3
<1>8. idx[N - 1] = 1
  <2>1. PICK m \in I : idx[m] = 1
    BY <1>1, <1>6
  <2>2. idx[N - 1] \in I /\ \A i \in I : i # 1 => xs[i] < xs[1]
    BY <1>1, <1>2 DEF SetupInv
  <2>3. ASSUME m # N - 1
        PROVE  FALSE
    <3>1. m < N - 1
      BY <1>1, <2>3
    <3>2. xs[1] < xs[idx[N - 1]]
      BY <1>1, <1>3, <2>1, <3>1
    <3>3. xs[1] \in Nat /\ xs[idx[N - 1]] \in Nat
      BY <1>1, <2>2
    <3> QED
      BY <2>2, <3>2, <3>3
  <2> QED
    BY <2>1, <2>3
<1>9. \A m \in I : xs[idx[m]] \in Nat
  BY <1>1, <1>2
<1> QED
  BY <1>2, <1>4, <1>6, <1>7, <1>8, <1>9 DEF sortedX

-----------------------------------------------------------------------------
(* The steps                                                               *)

\* The parts of CInv that FNextInv does not show.
DInv == /\ SetupInv /\ WordInv /\ FlagInv /\ DrawnInv /\ CurveInv
        /\ ValidIsDecoded /\ CurveIsInterpolated

\* A setup and a decode that has not begun (VorbisFloor1::parse).
LEMMA CInitInv == FInit => CInv
<1> SUFFICES ASSUME FInit PROVE CInv
  OBVIOUS
<1>1. FInv
  BY FInitInv
<1>2. SetupInv
  <2>1. PICK n \in 2 .. MaxPoints, rangebits \in RangeBits : parse(n, rangebits)
    BY DEF FInit
  <2>2. n \in Nat /\ n >= 2 /\ 2 ^ rangebits \in 1 .. WordSize - 1 /\ WordSize \in Nat
    BY FloorAssumption
  <2>3. PICK x \in [2 .. n - 1 -> Bits(rangebits)] :
          xs = [i \in 0 .. n - 1 |-> IF i = 0 THEN 0 ELSE IF i = 1 THEN 2 ^ rangebits ELSE x[i]]
    BY <2>1 DEF parse
  <2>4. DOMAIN xs = 0 .. n - 1 /\ N = n
    <3>1. DOMAIN xs = 0 .. n - 1
      BY <2>3
    <3> QED
      BY <2>2, <3>1, FS_Interval DEF N
  <2>5. \A v \in Bits(rangebits) : v < 2 ^ rangebits
    BY DEF Bits
  <2>6. xs[0] = 0 /\ xs[1] = 2 ^ rangebits /\ \A i \in 2 .. n - 1 : xs[i] = x[i]
    BY <2>2, <2>3
  <2>7. \A i \in 2 .. n - 1 : xs[i] < xs[1]
    BY <2>3, <2>5, <2>6
  <2>8. 0 < xs[1]
    BY <2>2, <2>6
  <2> QED
    BY <2>4, <2>6, <2>7, <2>8 DEF SetupInv, FInit
<1>3. DOMAIN xs = 0 .. N - 1 /\ 0 \in 0 .. WordSize - 1 /\ 0 < TableSize
  BY <1>1, FloorAssumption DEF FInv
<1>4. WordInv
  <2>1. ys \in [0 .. N - 1 -> 0 .. WordSize - 1] /\ final_ys \in [0 .. N - 1 -> 0 .. WordSize - 1]
    BY <1>3 DEF FInit
  <2>2. step2_flag \in [0 .. N - 1 -> BOOLEAN]
    BY <1>3 DEF FInit
  <2>3. floor \in [0 .. size - 1 -> 0 .. WordSize - 1]
    BY <1>3 DEF FInit
  <2>4. pos \in 0 .. N
    BY <1>1 DEF FInit, FInv
  <2> QED
    BY <1>3, <2>1, <2>2, <2>3, <2>4 DEF FInit, WordInv
<1>5. FlagInv
  BY <1>3 DEF FInit, FlagInv
<1>6. DrawnInv
  BY <1>3 DEF FInit, DrawnInv
<1> QED
  BY <1>1, <1>2, <1>4, <1>5, <1>6
  DEF FInit, CInv, CurveInv, ValidIsDecoded, CurveIsInterpolated

\* Reading the amplitudes of a packet.
LEMMA DecodeAmplitudesKeeps == CInv /\ DecodeAmplitudes => DInv'
<1> SUFFICES ASSUME CInv, DecodeAmplitudes PROVE DInv'
  OBVIOUS
<1>1. /\ UNCHANGED <<xs, xs_sorted_idx, multiplier, size, step2_flag, floor, lx, ly>>
      /\ status = "parsed" /\ status' = "amplitudes" /\ pos' = 2
  BY DEF DecodeAmplitudes, setup, drawn
<1>2. N' = N /\ DOMAIN xs = 0 .. N - 1 /\ N \in Nat /\ N >= 2
  BY <1>1 DEF N, CInv, FInv
<1>3. PICK first \in [0 .. 1 -> Bits(highest_bit(range - 1))],
           rest \in [DOMAIN xs \ {0, 1} -> Scalars] :
        /\ ys' = [i \in DOMAIN xs |-> IF i < 2 THEN first[i] ELSE rest[i]]
        /\ final_ys' = [i \in DOMAIN xs |-> IF i < 2 THEN first[i] ELSE 0]
  BY DEF DecodeAmplitudes
<1>4. /\ \A i \in 0 .. 1 : first[i] \in 0 .. WordSize - 1
      /\ \A i \in 0 .. N - 1 : ~(i < 2) => rest[i] \in 0 .. WordSize - 1
      /\ 0 \in 0 .. WordSize - 1
  <2>1. \A n : Bits(n) \subseteq 0 .. WordSize - 1
    BY DEF Bits
  <2>2. \A i \in 0 .. 1 : first[i] \in 0 .. WordSize - 1
    BY <2>1
  <2>3. Scalars \subseteq 0 .. WordSize - 1 /\ 0 \in Scalars
    BY FloorAssumption
  <2>4. \A i \in 0 .. N - 1 : ~(i < 2) => i \in DOMAIN xs \ {0, 1}
    BY <1>2
  <2> QED
    BY <2>2, <2>3, <2>4
<1>5. SetupInv'
  BY <1>1, <1>2 DEF CInv, SetupInv
<1>6. WordInv'
  <2>1. ys' \in [0 .. N - 1 -> 0 .. WordSize - 1] /\ final_ys' \in [0 .. N - 1 -> 0 .. WordSize - 1]
    BY <1>2, <1>3, <1>4
  <2>2. /\ step2_flag' \in [0 .. N - 1 -> BOOLEAN]
        /\ floor' \in [0 .. size - 1 -> 0 .. WordSize - 1]
        /\ lx' \in Nat /\ ly' \in 0 .. WordSize - 1
    BY <1>1 DEF CInv, WordInv
  <2>3. pos' \in 0 .. N
    BY <1>1, <1>2
  <2> QED
    BY <1>1, <1>2, <2>1, <2>2, <2>3 DEF WordInv
<1>7. FlagInv'
  <2>1. \A i \in 0 .. N - 1 : step2_flag'[i] <=> i < 2
    BY <1>1 DEF CInv, FlagInv
  <2> QED
    BY <1>1, <1>2, <2>1 DEF FlagInv
<1>8. DrawnInv'
  <2>1. 0 < TableSize
    BY FloorAssumption
  <2>2. ly' = 0 /\ \A x \in 0 .. size' - 1 : floor'[x] = 0
    BY <1>1 DEF CInv, DrawnInv
  <2> QED
    BY <1>1, <2>1, <2>2 DEF DrawnInv
<1> QED
  BY <1>1, <1>5, <1>6, <1>7, <1>8
  DEF DInv, CurveInv, ValidIsDecoded, CurveIsInterpolated

\* Step 1 for the point at pos.
LEMMA SynthesizeKeeps == CInv /\ SynthesizeAmplitude => DInv'
<1> SUFFICES ASSUME CInv, SynthesizeAmplitude PROVE DInv'
  OBVIOUS
<1> USE DEF CInv
<1> DEFINE p == Predicted(pos)
           a == Amplitude(ys[pos], p)
<1>1. /\ CanPredict /\ p <= range
      /\ final_ys' = [final_ys EXCEPT ![pos] = a]
      /\ step2_flag' = IF ys[pos] = 0 THEN step2_flag
                       ELSE [i \in DOMAIN xs |-> step2_flag[i] \/ i \in Flagged(pos)]
      /\ pos' = pos + 1
      /\ UNCHANGED <<setup, size, ys, drawn, status>>
  BY DEF SynthesizeAmplitude
<1>2. /\ status = "amplitudes" /\ status' = "amplitudes"
      /\ UNCHANGED <<ys, floor, lx, ly, size>>
  BY <1>1 DEF CanPredict, drawn
<1>3. N' = N /\ SetupInv' /\ InRange' = InRange /\ \A i : Flagged(i)' = Flagged(i)
  BY <1>1, SetupStays
<1>4. pos \in 0 .. N - 1 /\ p \in Nat /\ ys[pos] \in Nat /\ DOMAIN xs = 0 .. N - 1
  <2>1. pos \in 0 .. N - 1 /\ p \in Nat
    BY <1>1, PredictionBetween
  <2> QED
    BY <2>1 DEF FInv
<1> HIDE DEF p
<1>5. a \in 0 .. WordSize - 1
  BY <1>1, <1>4, AmplitudeBounds
<1> HIDE DEF a
<1>6. WordInv'
  <2>1. final_ys' \in [0 .. N - 1 -> 0 .. WordSize - 1]
    BY <1>1, <1>4, <1>5 DEF WordInv
  <2>2. step2_flag' \in [0 .. N - 1 -> BOOLEAN]
    BY <1>1, <1>4 DEF WordInv
  <2>3. pos' \in 0 .. N
    BY <1>1, <1>4 DEF FInv
  <2> QED
    BY <1>2, <1>3, <2>1, <2>2, <2>3 DEF WordInv
<1>7. FlagInv'
  <2>1. pos >= 2 /\ \A i \in 0 .. N - 1 :
          step2_flag[i] <=> i < 2 \/ \E j \in 2 .. pos - 1 : ys[j] # 0 /\ i \in Flagged(j)
    BY <1>2 DEF FlagInv
  <2>2. ASSUME NEW i \in 0 .. N - 1
        PROVE  step2_flag'[i] <=> i < 2 \/ \E j \in 2 .. pos : ys[j] # 0 /\ i \in Flagged(j)
    <3>1. step2_flag'[i] <=> step2_flag[i] \/ (ys[pos] # 0 /\ i \in Flagged(pos))
      BY <1>1, <1>4 DEF WordInv
    <3>2. \A j : j \in 2 .. pos <=> j \in 2 .. pos - 1 \/ j = pos
      BY <1>4, <2>1
    <3> QED
      BY <2>1, <3>1, <3>2
  <2>3. pos' - 1 = pos /\ pos' >= 2
    BY <1>1, <1>4, <2>1
  <2> QED
    BY <1>2, <1>3, <2>2, <2>3 DEF FlagInv
<1>8. DrawnInv'
  BY <1>2, <1>3 DEF DrawnInv
<1> QED
  BY <1>2, <1>3, <1>6, <1>7, <1>8
  DEF DInv, CurveInv, ValidIsDecoded, CurveIsInterpolated

\* Without audio, and where a prediction or a neighbour is missing.
LEMMA EndEarlyKeeps ==
  CInv /\ (DecodeUnused \/ RefusePrediction \/ MissNeighbor \/ UNCHANGED fvars) => DInv'
<1> SUFFICES ASSUME CInv,
                    DecodeUnused \/ RefusePrediction \/ MissNeighbor \/ UNCHANGED fvars
             PROVE  DInv'
  OBVIOUS
<1> USE DEF CInv
<1>1. UNCHANGED <<setup, size, points, drawn, pos>>
  BY DEF DecodeUnused, RefusePrediction, MissNeighbor, fvars
<1>2. UNCHANGED <<setup, size, ys, final_ys, step2_flag, floor, lx, ly, pos>>
  BY <1>1 DEF points, drawn
<1>3. /\ N' = N /\ SetupInv' /\ InRange' = InRange /\ Distinct' = Distinct /\ Fixed' = Fixed
      /\ \A i : Flagged(i)' = Flagged(i)
  BY <1>2, SetupStays
<1>4. /\ \A i : sortedX(i)' = sortedX(i)
      /\ \A i : sortedY(i)' = sortedY(i)
      /\ \A i : Height(i)' = Height(i)
      /\ \A x : OnLine(x)' = OnLine(x)
  BY <1>2, SetupStays, PointsStay
<1>5. CASE status' = status
  <2>1. WordInv' /\ DrawnInv'
    BY <1>2, <1>3, <1>5 DEF WordInv, DrawnInv
  <2>2. FlagInv'
    BY <1>2, <1>3, <1>5 DEF FlagInv
  <2>3. UNCHANGED <<xs_sorted_idx, xs>>
    BY <1>2 DEF setup
  <2>4. CurveInv'
    BY <1>2, <1>3, <1>4, <1>5, <2>3 DEF CurveInv, DrawnTo
  <2>5. ValidIsDecoded' /\ CurveIsInterpolated'
    BY <1>2, <1>3, <1>4, <1>5, <2>3 DEF ValidIsDecoded, CurveIsInterpolated
  <2> QED
    BY <1>3, <2>1, <2>2, <2>4, <2>5 DEF DInv
<1>6. CASE status' \in {"unused", "refused", "aborted"} /\ status' # status
  <2>1. WordInv' /\ DrawnInv' /\ FlagInv' /\ CurveInv' /\ CurveIsInterpolated'
    BY <1>2, <1>3, <1>6 DEF WordInv, DrawnInv, FlagInv, CurveInv, CurveIsInterpolated
  <2>2. ValidIsDecoded'
    <3>1. CASE DecodeUnused
      BY <3>1 DEF DecodeUnused, ValidIsDecoded
    <3>2. CASE RefusePrediction
      <4>1. CanPredict /\ Predicted(pos) > range /\ status' = "refused"
        BY <3>2 DEF RefusePrediction
      <4>2. Predicted(pos) \in Nat /\ (InRange => Predicted(pos) < range)
        BY <4>1, PredictionBetween
      <4>3. ~InRange
        BY <4>1, <4>2, RangeType
      <4> QED
        BY <1>3, <4>1, <4>3 DEF ValidIsDecoded
    <3>3. CASE MissNeighbor
      <4>1. status = "amplitudes" /\ pos < N /\ ~CanPredict
        BY <3>3 DEF MissNeighbor
      <4>2. pos \in 2 .. N - 1
        BY <4>1 DEF FlagInv, FInv
      <4>3. ~Distinct
        BY <4>1, <4>2, NeighborsExist DEF CanPredict
      <4> QED
        BY <1>3, <4>3 DEF ValidIsDecoded
    <3> QED
      BY <1>6, <3>1, <3>2, <3>3 DEF fvars
  <2> QED
    BY <1>3, <2>1, <2>2 DEF DInv
<1> QED
  BY <1>5, <1>6 DEF DecodeUnused, RefusePrediction, MissNeighbor, fvars

\* From step 1 to step 2: all flags are set, and the first point is at 0.
LEMMA StartKeeps == CInv /\ StartCurve => DInv'
<1> SUFFICES ASSUME CInv, StartCurve PROVE DInv'
  OBVIOUS
<1> USE DEF CInv
<1>1. /\ UNCHANGED <<setup, size, points, floor>>
      /\ status = "amplitudes" /\ status' = "curve" /\ pos = N /\ pos' = 1
      /\ lx' = 0 /\ ly' = sortedY(0)
  BY DEF StartCurve
<1>2. UNCHANGED <<xs_sorted_idx, ys, final_ys, step2_flag>>
  BY <1>1 DEF points, setup
<1>3. /\ N' = N /\ SetupInv' /\ InRange' = InRange /\ Distinct' = Distinct /\ Fixed' = Fixed
      /\ \A i : sortedX(i)' = sortedX(i)
  BY <1>1, <1>2, SetupStays
<1>4. \A i : sortedY(i)' = sortedY(i)
  BY <1>1, <1>2, PointsStay
<1>5. N \in Nat /\ N >= 2 /\ DOMAIN xs = 0 .. N - 1 /\ xs_sorted_idx \in [0 .. N - 1 -> 0 .. N - 1]
  <2>1. N \in Nat /\ N >= 2 /\ DOMAIN xs = 0 .. N - 1
    BY DEF FInv
  <2> QED
    BY <2>1 DEF SetupInv, SortedIdx
<1>6. sortedY(0) \in 0 .. WordSize - 1 /\ (InRange => sortedY(0) < TableSize)
  <2> DEFINE a == final_ys[xs_sorted_idx[0]]
  <2>1. a \in Nat /\ (InRange => a < range)
    BY <1>5, SMTT(30) DEF FInv
  <2> HIDE DEF a
  <2>2. Word(a * multiplier) \in 0 .. WordSize - 1 /\ (a < range => Word(a * multiplier) < TableSize)
    BY <2>1, HeightBounds
  <2> QED
    BY <2>1, <2>2 DEF sortedY, a
<1>7. WordInv'
  <2>1. pos' \in 0 .. N
    BY <1>1, <1>5
  <2> QED
    BY <1>1, <1>2, <1>3, <1>6, <2>1 DEF WordInv
<1>8. FlagInv'
  <2>1. ASSUME NEW i \in 0 .. N - 1
        PROVE  step2_flag[i] <=> i \in Fixed
    <3>1. step2_flag[i] <=> i < 2 \/ \E j \in 2 .. N - 1 : ys[j] # 0 /\ i \in Flagged(j)
      BY <1>1 DEF FlagInv
    <3>2. i < 2 <=> i \in {0, 1}
      OBVIOUS
    <3>3. \A j : j \in Given <=> j \in 2 .. N - 1 /\ ys[j] # 0
      BY <1>5 DEF Given
    <3>4. i \in Fixed <=> i \in {0, 1} \/ \E j \in Given : i \in Flagged(j)
      BY DEF Fixed, Flagged
    <3> QED
      BY <3>1, <3>2, <3>3, <3>4
  <2> QED
    BY <1>1, <1>2, <1>3, <2>1 DEF FlagInv
<1>9. DrawnInv'
  BY <1>1, <1>3, <1>6 DEF DrawnInv
<1>10. CurveInv'
  <2> SUFFICES ASSUME Distinct PROVE CurveInv'
    BY <1>3 DEF CurveInv
  <2>1. xs_sorted_idx[0] = 0 /\ sortedX(0) = 0
    BY SortedOrder DEF sortedX, SetupInv
  <2>2. step2_flag[0]
    BY <1>1, <1>5 DEF FlagInv
  <2>3. DrawnTo(0)'
    BY <1>1, <1>2, <1>3, <1>4, <2>1, <2>2 DEF DrawnTo
  <2>4. \A x \in 0 .. size' - 1 : ~(x < lx')
    BY <1>1
  <2>5. 0 \in 0 .. pos' - 1
    BY <1>1
  <2> QED
    BY <2>3, <2>4, <2>5 DEF CurveInv
<1> QED
  BY <1>1, <1>3, <1>7, <1>8, <1>9, <1>10
  DEF DInv, ValidIsDecoded, CurveIsInterpolated

\* A point that is not flagged.
LEMMA SkipKeeps == CInv /\ SkipPoint => DInv'
<1> SUFFICES ASSUME CInv, SkipPoint PROVE DInv'
  OBVIOUS
<1> USE DEF CInv
<1>1. /\ UNCHANGED <<setup, size, points, drawn, status>>
      /\ status = "curve" /\ pos < N /\ ~step2_flag[xs_sorted_idx[pos]] /\ pos' = pos + 1
  BY DEF SkipPoint
<1>2. UNCHANGED <<xs_sorted_idx, xs, size, ys, final_ys, step2_flag, floor, lx, ly>>
  BY <1>1 DEF points, setup, drawn
<1>3. /\ N' = N /\ SetupInv' /\ InRange' = InRange /\ Distinct' = Distinct /\ Fixed' = Fixed
      /\ \A i : sortedX(i)' = sortedX(i)
  BY <1>1, <1>2, SetupStays
<1>4. /\ \A i : sortedY(i)' = sortedY(i)
      /\ \A x : OnLine(x)' = OnLine(x)
  BY <1>1, <1>2, PointsStay
<1>5. pos \in Nat /\ N \in Nat /\ pos' \in 0 .. N
  BY <1>1 DEF FInv
<1>6. WordInv' /\ DrawnInv' /\ FlagInv'
  BY <1>1, <1>2, <1>3, <1>5 DEF WordInv, DrawnInv, FlagInv
<1>7. CurveInv'
  <2> SUFFICES ASSUME Distinct PROVE CurveInv'
    BY <1>3 DEF CurveInv
  <2>1. PICK m \in 0 .. pos - 1 : DrawnTo(m)
    BY <1>1 DEF CurveInv
  <2>2. \A k \in m + 1 .. pos : k \in m + 1 .. pos - 1 \/ k = pos
    BY <1>5
  <2>3. \A k \in m + 1 .. pos' - 1 : ~step2_flag'[xs_sorted_idx'[k]]
    BY <1>1, <1>2, <1>5, <2>1, <2>2 DEF DrawnTo
  <2>4. DrawnTo(m)'
    BY <1>2, <1>3, <1>4, <2>1, <2>3 DEF DrawnTo
  <2>5. m \in 0 .. pos' - 1
    BY <1>1, <1>5
  <2>6. \A x \in 0 .. size' - 1 : x < lx' => OnLine(x)'
    BY <1>1, <1>2, <1>4 DEF CurveInv
  <2> QED
    BY <2>4, <2>5, <2>6 DEF CurveInv
<1> QED
  BY <1>1, <1>3, <1>6, <1>7 DEF DInv, ValidIsDecoded, CurveIsInterpolated

\* The next flagged point is further right, and its line passes the assertions.
LEMMA LinesAreSound ==
  ASSUME CInv, status = "curve", pos < N, Distinct
  PROVE  LineIsSound(lx, ly, sortedX(pos), sortedY(pos))
<1> USE DEF CInv
<1>1. /\ pos \in 0 .. N - 1 /\ N \in Nat /\ size \in Nat /\ lx \in Nat
      /\ ly \in Nat /\ DOMAIN xs = 0 .. N - 1
  BY FloorAssumption DEF FInv, WordInv, SetupInv
<1>2. PICK m \in 0 .. pos - 1 : DrawnTo(m)
  BY DEF CurveInv
<1>3. lx < sortedX(pos) /\ sortedX(pos) \in Nat
  <2>1. m \in 0 .. N - 1 /\ m < pos
    BY <1>1
  <2>2. sortedX(m) < sortedX(pos) /\ sortedX(pos) \in Nat
    BY <1>1, <2>1, SortedOrder
  <2> QED
    BY <1>2, <2>2 DEF DrawnTo
<1>4. sortedY(pos) \in Nat
  <2> DEFINE a == final_ys[xs_sorted_idx[pos]]
  <2>1. a \in Nat
    BY <1>1, SortedOrder DEF FInv
  <2> HIDE DEF a
  <2>2. Word(a * multiplier) \in 0 .. WordSize - 1 /\ WordSize \in Nat
    BY <2>1, HeightBounds, FloorAssumption
  <2> QED
    BY <2>2 DEF sortedY, a
<1> DEFINE x1 == sortedX(pos)
           y1 == sortedY(pos)
           P  == Pixels(lx, x1)
<1>5. ASSUME P # {}
      PROVE  Max(P) \in lx .. x1 - 1
  <2> DEFINE last == IF x1 < size THEN x1 - 1 ELSE size - 1
  <2> HIDE DEF x1
  <2>1. last \in P /\ \A x \in P : last >= x
    BY <1>1, <1>3, <1>5 DEF Pixels, x1
  <2> HIDE DEF last
  <2>2. Max(P) \in P
    BY <2>1 DEF Max
  <2> QED
    BY <2>2 DEF Pixels
<1> HIDE DEF P, x1, y1
<1>6. ASSUME P # {}
      PROVE  LET y == LineAt(lx, ly, x1, y1)[Max(P)].y
             IN IF y1 >= ly THEN ly <= y /\ y <= y1 ELSE ly >= y /\ y >= y1
  <2> DEFINE y == LineAt(lx, ly, x1, y1)[Max(P)].y
  <2>1. IF y1 >= ly THEN y \in ly .. y1 ELSE y \in y1 .. ly
    <3>1. PICK x \in lx .. x1 - 1 : x = Max(P)
      BY <1>5, <1>6
    <3>2. x1 \in Nat /\ y1 \in Nat /\ lx < x1
      BY <1>3, <1>4 DEF x1, y1
    <3>3. /\ LineAt(lx, ly, x1, y1)[x].y = LineHeight(lx, ly, x1, y1, x)
          /\ IF y1 >= ly THEN LineHeight(lx, ly, x1, y1, x) \in ly .. y1
                         ELSE LineHeight(lx, ly, x1, y1, x) \in y1 .. ly
      BY <1>1, <3>2, LineIsStraight
    <3> QED
      BY <3>1, <3>3
  <2> HIDE DEF y
  <2>2. IF y1 >= ly THEN ly <= y /\ y <= y1 ELSE ly >= y /\ y >= y1
    BY <1>1, <1>4, <2>1 DEF y1
  <2> QED
    BY <2>2 DEF y
<1> QED
  BY <1>3, <1>6 DEF LineIsSound, P, x1, y1

\* With distinct places no assertion of render_line fails.
LEMMA FailKeeps == CInv /\ FailAssertion => DInv'
<1> SUFFICES ASSUME CInv, FailAssertion PROVE DInv'
  OBVIOUS
<1> USE DEF CInv
<1>1. /\ UNCHANGED <<setup, size, points, drawn, pos>>
      /\ status = "curve" /\ pos < N /\ status' = "aborted"
      /\ ~LineIsSound(lx, ly, sortedX(pos), sortedY(pos))
  BY DEF FailAssertion
<1>2. UNCHANGED <<ys, final_ys, step2_flag, floor, lx, ly>>
  BY <1>1 DEF points, drawn
<1>3. N' = N /\ SetupInv' /\ InRange' = InRange /\ Distinct' = Distinct
  BY <1>1, <1>2, SetupStays
<1>4. ~Distinct
  BY <1>1, LinesAreSound
<1>5. WordInv' /\ DrawnInv'
  BY <1>1, <1>2, <1>3 DEF WordInv, DrawnInv
<1> QED
  BY <1>1, <1>3, <1>4, <1>5
  DEF DInv, FlagInv, CurveInv, ValidIsDecoded, CurveIsInterpolated

\* The line to a flagged point.
LEMMA DrawLineKeeps == CInv /\ DrawLine => DInv'
<1> SUFFICES ASSUME CInv, DrawLine PROVE DInv'
  OBVIOUS
<1> USE DEF CInv
<1> DEFINE x1 == sortedX(pos)
           y1 == sortedY(pos)
<1>1. /\ UNCHANGED <<setup, size, points, status>>
      /\ status = "curve" /\ pos < N /\ step2_flag[xs_sorted_idx[pos]] /\ pos' = pos + 1
      /\ lx < x1 /\ lx' = x1 /\ ly' = y1
      /\ floor' = render_line(lx, ly, x1, y1)
  BY DEF DrawLine, LineIsSound
<1>2. UNCHANGED <<xs_sorted_idx, xs, size, ys, final_ys, step2_flag>>
  BY <1>1 DEF points, setup
<1>3. /\ N' = N /\ SetupInv' /\ InRange' = InRange /\ Distinct' = Distinct /\ Fixed' = Fixed
      /\ \A i : sortedX(i)' = sortedX(i)
  BY <1>1, <1>2, SetupStays
<1>4. /\ \A i : sortedY(i)' = sortedY(i) /\ Height(i)' = Height(i)
      /\ \A x : floor'[x] = floor[x] => OnLine(x)' = OnLine(x)
  BY <1>1, <1>2, PointsStay
<1>5. /\ pos \in 0 .. N - 1 /\ N \in Nat /\ pos' \in 0 .. N /\ size \in Nat
      /\ DOMAIN xs = 0 .. N - 1 /\ xs \in [0 .. N - 1 -> Nat]
      /\ xs_sorted_idx \in [0 .. N - 1 -> 0 .. N - 1]
      /\ lx \in Nat /\ ly \in 0 .. WordSize - 1
  <2>1. DOMAIN xs = 0 .. N - 1 /\ xs \in [0 .. N - 1 -> Nat] /\ N \in Nat /\ pos \in Nat
    BY DEF FInv
  <2>2. size \in Nat
    BY FloorAssumption DEF SetupInv
  <2>3. xs_sorted_idx \in [0 .. N - 1 -> 0 .. N - 1]
    BY <2>1 DEF SetupInv, SortedIdx
  <2>4. pos \in 0 .. N - 1 /\ pos' \in 0 .. N
    BY <1>1, <2>1
  <2>5. lx \in Nat /\ ly \in 0 .. WordSize - 1
    BY DEF WordInv
  <2> QED
    BY <2>1, <2>2, <2>3, <2>4, <2>5
<1>6. x1 \in Nat /\ y1 \in 0 .. WordSize - 1 /\ (InRange => y1 < TableSize)
  <2> DEFINE a == final_ys[xs_sorted_idx[pos]]
  <2>1. a \in Nat /\ (InRange => a < range)
    BY <1>5 DEF FInv
  <2> HIDE DEF a
  <2>2. Word(a * multiplier) \in 0 .. WordSize - 1 /\ (a < range => Word(a * multiplier) < TableSize)
    BY <2>1, HeightBounds
  <2>3. sortedX(pos) \in Nat
    BY <1>5 DEF sortedX
  <2> QED
    BY <2>1, <2>2, <2>3 DEF sortedY, a
<1> HIDE DEF x1, y1
<1>7. /\ floor' \in [0 .. size - 1 -> 0 .. WordSize - 1]
      /\ \A x \in 0 .. size - 1 : lx <= x /\ x < x1 =>
           floor'[x] = LineHeight(lx, ly, x1, y1, x) /\ (floor'[x] <= ly \/ floor'[x] <= y1)
      /\ \A x \in 0 .. size - 1 : ~(lx <= x /\ x < x1) => floor'[x] = floor[x]
  <2>1. floor \in [0 .. size - 1 -> 0 .. WordSize - 1]
    BY DEF WordInv
  <2>2. size \in Nat /\ lx \in Nat /\ x1 \in Nat /\ lx < x1
    BY <1>1, <1>5, <1>6
  <2>3. ly \in 0 .. WordSize - 1 /\ y1 \in 0 .. WordSize - 1
    BY <1>5, <1>6
  <2>4. render_line(lx, ly, x1, y1) \in [0 .. size - 1 -> 0 .. WordSize - 1]
    BY <2>1, <2>2, <2>3, LineDrawn
  <2>5. \A x \in 0 .. size - 1 : lx <= x /\ x < x1 =>
          /\ render_line(lx, ly, x1, y1)[x] = LineHeight(lx, ly, x1, y1, x)
          /\ \/ render_line(lx, ly, x1, y1)[x] <= ly
             \/ render_line(lx, ly, x1, y1)[x] <= y1
    BY <2>1, <2>2, <2>3, LineDrawn
  <2>6. \A x \in 0 .. size - 1 : ~(lx <= x /\ x < x1) =>
          render_line(lx, ly, x1, y1)[x] = floor[x]
    BY <2>1, <2>2, <2>3, LineDrawn
  <2> QED
    BY <1>1, <2>4, <2>5, <2>6
<1>8. WordInv'
  BY <1>1, <1>2, <1>3, <1>5, <1>6, <1>7 DEF WordInv
<1>9. FlagInv'
  BY <1>1, <1>2, <1>3 DEF FlagInv
<1>10. DrawnInv'
  <2> SUFFICES ASSUME InRange
               PROVE  ly' < TableSize /\ \A x \in 0 .. size - 1 : floor'[x] < TableSize
    BY <1>1, <1>3 DEF DrawnInv
  <2>1. ly < TableSize /\ y1 < TableSize /\ TableSize \in Nat /\ WordSize \in Nat
    BY <1>6, FloorAssumption DEF DrawnInv
  <2>2. ASSUME NEW x \in 0 .. size - 1
        PROVE  floor'[x] < TableSize
    <3>1. floor'[x] \in Nat /\ ly \in Nat /\ y1 \in Nat
      BY <1>5, <1>6, <1>7, <2>1
    <3>2. CASE lx <= x /\ x < x1
      BY <1>7, <2>1, <3>1, <3>2
    <3>3. CASE ~(lx <= x /\ x < x1)
      BY <1>7, <3>3 DEF DrawnInv
    <3> QED
      BY <3>2, <3>3
  <2> QED
    BY <1>1, <2>1, <2>2
<1>11. CurveInv'
  <2> SUFFICES ASSUME Distinct PROVE CurveInv'
    BY <1>3 DEF CurveInv
  <2>1. PICK m \in 0 .. pos - 1 : DrawnTo(m)
    BY <1>1 DEF CurveInv
  <2>2. PICK n \in 0 .. N - 1 : n = pos
    BY <1>5
  <2>3. DrawnTo(n)' /\ n \in 0 .. pos' - 1
    <3>1. \A k \in n + 1 .. pos' - 1 : FALSE
      BY <1>1, <1>5, <2>2
    <3>2. n \in 0 .. pos' - 1
      BY <1>1, <1>5, <2>2
    <3> QED
      BY <1>1, <1>2, <1>3, <1>4, <2>2, <3>1, <3>2 DEF DrawnTo, x1, y1
  <2> DEFINE i == xs_sorted_idx[m]
             j == xs_sorted_idx[pos]
  <2>4. m \in 0 .. N - 1 /\ m < pos /\ i \in 0 .. N - 1 /\ j \in 0 .. N - 1
    BY <1>5
  <2>5. i \in Fixed /\ j \in Fixed
    BY <1>1, <2>1, <2>4 DEF FlagInv, DrawnTo
  <2>6. xs[i] = lx /\ Height(i) = ly /\ xs[j] = x1 /\ Height(j) = y1
    BY <2>1 DEF DrawnTo, sortedX, sortedY, Height, x1, y1
  <2>7. ~ \E k \in Fixed : xs[i] < xs[k] /\ xs[k] < xs[j]
    <3> SUFFICES ASSUME NEW k \in Fixed, xs[i] < xs[k], xs[k] < xs[j] PROVE FALSE
      OBVIOUS
    <3>1. k \in 0 .. N - 1
      BY FixedArePoints
    <3>2. PICK q \in 0 .. N - 1 : xs_sorted_idx[q] = k
      BY <3>1, SortedOrder
    <3>3. sortedX(m) < sortedX(q) /\ sortedX(q) < sortedX(pos)
      BY <3>2 DEF sortedX
    <3>4. m < q /\ q < pos
      BY <1>5, <2>4, <3>2, <3>3, SortedOrder
    <3>5. q \in m + 1 .. pos - 1
      BY <1>5, <2>4, <3>4
    <3>6. ~step2_flag[k]
      BY <2>1, <3>2, <3>5 DEF DrawnTo
    <3> QED
      BY <1>1, <3>1, <3>6 DEF FlagInv
  <2> HIDE DEF i, j
  <2>8. ASSUME NEW x \in 0 .. size - 1, lx <= x, x < x1
        PROVE  OnLine(x)'
    <3>1. floor'[x] = LineHeight(xs[i], Height(i), xs[j], Height(j), x)
      BY <1>7, <2>6, <2>8
    <3>2. xs[i] <= x /\ x < xs[j]
      BY <2>6, <2>8
    <3> QED
      BY <1>2, <1>3, <1>4, <2>5, <2>7, <3>1, <3>2 DEF OnLine, LineHeight
  <2>9. ASSUME NEW x \in 0 .. size - 1, ~(lx <= x), x < x1
        PROVE  OnLine(x)'
    <3>1. OnLine(x)
      BY <1>1, <1>5, <2>9 DEF CurveInv
    <3>2. floor'[x] = floor[x]
      BY <1>7, <2>9
    <3> QED
      BY <1>4, <3>1, <3>2
  <2>10. \A x \in 0 .. size' - 1 : x < lx' => OnLine(x)'
    BY <1>1, <1>2, <2>8, <2>9
  <2> QED
    BY <2>3, <2>10 DEF CurveInv
<1> QED
  BY <1>1, <1>3, <1>8, <1>9, <1>10, <1>11 DEF DInv, ValidIsDecoded, CurveIsInterpolated

\* The flat rest, and the lookup in inverse_db_table.
LEMMA FinishKeeps == CInv /\ FinishCurve => DInv'
<1> SUFFICES ASSUME CInv, FinishCurve PROVE DInv'
  OBVIOUS
<1> USE DEF CInv
<1>1. /\ UNCHANGED <<setup, size, points, lx, ly, pos>>
      /\ status = "curve" /\ pos = N
      /\ floor' = IF lx < size THEN render_line(lx, ly, size, ly) ELSE floor
      /\ status' = IF \A x \in DOMAIN floor' : floor'[x] < TableSize THEN "done" ELSE "refused"
  BY DEF FinishCurve
<1>2. UNCHANGED <<xs_sorted_idx, xs, size, ys, final_ys, step2_flag>>
  BY <1>1 DEF points, setup
<1>3. N' = N /\ SetupInv' /\ InRange' = InRange /\ Distinct' = Distinct /\ Fixed' = Fixed
  BY <1>1, <1>2, SetupStays
<1>4. /\ \A i : Height(i)' = Height(i)
      /\ \A x : floor'[x] = floor[x] => OnLine(x)' = OnLine(x)
  BY <1>1, <1>2, PointsStay
<1>5. /\ size \in Nat /\ lx \in Nat /\ ly \in 0 .. WordSize - 1 /\ WordSize \in Nat
      /\ floor \in [0 .. size - 1 -> 0 .. WordSize - 1]
  BY FloorAssumption DEF WordInv, SetupInv
<1>6. /\ floor' \in [0 .. size - 1 -> 0 .. WordSize - 1]
      /\ \A x \in 0 .. size - 1 : lx <= x => floor'[x] = ly
      /\ \A x \in 0 .. size - 1 : ~(lx <= x) => floor'[x] = floor[x]
  <2>1. CASE ~(lx < size)
    BY <1>1, <1>5, <2>1
  <2>2. CASE lx < size
    <3>1. floor' = render_line(lx, ly, size, ly)
      BY <1>1, <2>2
    <3>2. floor' \in [0 .. size - 1 -> 0 .. WordSize - 1]
      BY <1>5, <2>2, <3>1, LineDrawn
    <3>3. \A x \in 0 .. size - 1 : lx <= x /\ x < size =>
            floor'[x] = LineHeight(lx, ly, size, ly, x)
      BY <1>5, <2>2, <3>1, LineDrawn
    <3>4. \A x \in 0 .. size - 1 : ~(lx <= x /\ x < size) => floor'[x] = floor[x]
      BY <1>5, <2>2, <3>1, LineDrawn
    <3>5. \A x \in lx .. size - 1 : LineHeight(lx, ly, size, ly, x) = ly
      BY <1>5, <2>2, FlatLine
    <3>6. \A x \in 0 .. size - 1 : x < size /\ (lx <= x => x \in lx .. size - 1)
      BY <1>5
    <3> QED
      BY <3>2, <3>3, <3>4, <3>5, <3>6
  <2> QED
    BY <2>1, <2>2
<1>7. status' \in {"done", "refused"}
  BY <1>1
<1>8. WordInv'
  BY <1>1, <1>2, <1>3, <1>6, <1>7 DEF WordInv
<1>9. FlagInv'
  BY <1>1, <1>2, <1>3, <1>7 DEF FlagInv
<1>10. InRange => \A x \in 0 .. size - 1 : floor'[x] < TableSize
  BY <1>6 DEF DrawnInv
<1>11. DrawnInv'
  BY <1>1, <1>3, <1>7, <1>10 DEF DrawnInv
<1>12. ValidIsDecoded'
  <2>1. DOMAIN floor' = 0 .. size - 1
    BY <1>6
  <2>2. InRange => status' = "done"
    BY <1>1, <1>10, <2>1
  <2> QED
    BY <1>3, <1>7, <2>2 DEF ValidIsDecoded
<1>13. CurveIsInterpolated'
  <2> SUFFICES ASSUME Distinct PROVE CurveIsInterpolated'
    BY <1>3 DEF CurveIsInterpolated
  <2>1. PICK m \in 0 .. pos - 1 : DrawnTo(m)
    BY <1>1 DEF CurveInv
  <2>2. /\ N \in Nat /\ N >= 2 /\ 1 \in 0 .. N - 1 /\ N - 1 \in 0 .. N - 1
        /\ xs_sorted_idx[N - 1] = 1
    <3>1. N \in Nat /\ N >= 2
      BY DEF FInv
    <3> QED
      BY <3>1, SortedOrder
  <2>3. step2_flag[1]
    BY <1>1, <2>2 DEF FlagInv, Fixed
  <2>4. m = N - 1
    <3>1. ASSUME m # N - 1
          PROVE  FALSE
      <4>1. N - 1 \in m + 1 .. pos - 1
        BY <1>1, <2>1, <2>2, <3>1
      <4> QED
        BY <2>1, <2>2, <2>3, <4>1 DEF DrawnTo
    <3> QED
      BY <3>1
  <2>5. lx = xs[1] /\ ly = Height(1)
    BY <2>1, <2>2, <2>4 DEF DrawnTo, sortedX, sortedY, Height
  <2>6. xs[1] \in Nat
    BY <2>2 DEF FInv
  <2>7. ASSUME NEW x \in 0 .. size - 1
        PROVE  IF x >= xs[1] THEN floor'[x] = Height(1) ELSE OnLine(x)'
    <3>1. CASE x >= xs[1]
      BY <1>6, <2>5, <3>1
    <3>2. CASE ~(x >= xs[1])
      <4>1. x < lx /\ ~(lx <= x)
        BY <2>5, <2>6, <3>2
      <4>2. OnLine(x)
        BY <1>1, <4>1 DEF CurveInv
      <4>3. OnLine(x)'
        BY <1>4, <1>6, <4>1, <4>2
      <4> QED
        BY <3>2, <4>3
    <3> QED
      BY <3>1, <3>2
  <2> QED
    BY <1>2, <1>4, <2>7 DEF CurveIsInterpolated
<1> QED
  BY <1>3, <1>7, <1>8, <1>9, <1>11, <1>12, <1>13 DEF DInv, CurveInv

\* Every step keeps the invariant.
LEMMA CNextInv == CInv /\ [FNext]_fvars => CInv'
<1> SUFFICES ASSUME CInv, [FNext]_fvars PROVE CInv'
  OBVIOUS
<1>1. FInv'
  BY FNextInv DEF CInv
<1>2. DInv'
  BY DecodeAmplitudesKeeps, SynthesizeKeeps, EndEarlyKeeps, StartKeeps, SkipKeeps,
     FailKeeps, DrawLineKeeps, FinishKeeps DEF FNext
<1> QED
  BY <1>1, <1>2 DEF CInv, DInv

\* CInv holds in every state of a decode.
THEOREM CInvariant == FSpec => []CInv
BY CInitInv, CNextInv, PTL DEF FSpec

(***************************************************************************)
(* For every setup and packet: points, amplitudes and curve are words, and *)
(* the curve keeps the size of the block.                                  *)
(***************************************************************************)
THEOREM DecodeTypes == FSpec => []FTypeOK
<1>1. CInv => FTypeOK
  BY DEF CInv, FInv, SetupInv, WordInv, FTypeOK
<1> QED
  BY <1>1, CInvariant, PTL

(***************************************************************************)
(* For every setup with distinct places and every packet: no assertion     *)
(* fails, and amplitudes in the range are not refused.                     *)
(***************************************************************************)
THEOREM ValidDecodes == FSpec => []ValidIsDecoded
<1>1. CInv => ValidIsDecoded
  BY DEF CInv
<1> QED
  BY <1>1, CInvariant, PTL

(***************************************************************************)
(* For every setup with distinct places and every packet: the curve that   *)
(* step 2 draws is the interpolation between the points that were given    *)
(* and their neighbours, at every x.                                       *)
(***************************************************************************)
THEOREM CurvesInterpolate == FSpec => []CurveIsInterpolated
<1>1. CInv => CurveIsInterpolated
  BY DEF CInv
<1> QED
  BY <1>1, CInvariant, PTL
=============================================================================
