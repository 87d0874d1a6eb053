------------------------------- MODULE Floor1 -------------------------------
(***************************************************************************)
(* VorbisFloor1: the setup gives the places xs of a curve's points, each   *)
(* packet their amplitudes, as differences to what the points before       *)
(* predict.  The curve is drawn through the points that were really given, *)
(* from left to right, over a vector of the block's half size.             *)
(*                                                                         *)
(* Indices are the code's, from 0.  Which amplitudes a packet has is left  *)
(* open: partitions, classes and codebooks only select the scalar.         *)
(***************************************************************************)
EXTENDS Integers, FiniteSetsExt

CONSTANTS
  TableSize,     \* the length of inverse_db_table, 256
  WordSize,      \* the number of values of uint32_t
  RangeBits,     \* bound: rangebits
  MaxPoints,     \* bound: the number of points, with the two at the ends
  Sizes,         \* bound: out.size()
  Scalars        \* bound: what decodeScalar may return; 0 also without a book

ASSUME FloorAssumption ==
  /\ TableSize \in Nat \ {0}
  /\ WordSize \in Nat /\ TableSize < WordSize
  /\ RangeBits \subseteq Nat
  /\ \A n \in RangeBits : 2 ^ n \in 1 .. WordSize - 1
  /\ MaxPoints \in Nat
  /\ Sizes \subseteq Nat \ {0}
  /\ 0 \in Scalars /\ Scalars \subseteq 0 .. WordSize - 1

VARIABLES
  xs, xs_sorted_idx, multiplier,   \* the setup
  size,                            \* out.size()
  ys, final_ys, step2_flag,        \* of each point
  floor,                           \* the curve
  lx, ly,                          \* where it has been drawn to
  pos,                             \* the loop variable i
  status                           \* where decode is, or how it ended

setup == <<xs, xs_sorted_idx, multiplier>>
points == <<ys, final_ys, step2_flag>>
drawn == <<floor, lx, ly>>
fvars == <<setup, size, points, drawn, pos, status>>

Word(n) == n % WordSize

\* What readBits may return for n bits.
Bits(n) == {v \in 0 .. WordSize - 1 : v < 2 ^ n}

\* How many points there are, and their indices.
N == Cardinality(DOMAIN xs)

-----------------------------------------------------------------------------
(* parse                                                                   *)

\* A mutant of SortedIdx: the points are taken as they come.
Unsorted(x) == {[i \in DOMAIN x |-> i]}

\* What sorting by x may give; equal elements may come in any order.
SortedIdx(x) ==
  {idx \in [DOMAIN x -> DOMAIN x] :
     \A i, j \in DOMAIN x : i < j => idx[i] # idx[j] /\ x[idx[i]] <= x[idx[j]]}

\* No CHECK wants the places to be distinct.
parse(n, rangebits) ==
  \E x \in [2 .. n - 1 -> Bits(rangebits)] :
    xs = [i \in 0 .. n - 1 |-> IF i = 0 THEN 0
                               ELSE IF i = 1 THEN 2 ^ rangebits
                               ELSE x[i]]

FInit ==
  /\ \E n \in 2 .. MaxPoints, rangebits \in RangeBits : parse(n, rangebits)
  /\ xs_sorted_idx \in SortedIdx(xs)
  /\ multiplier \in 1 .. 4
  /\ size \in Sizes
  /\ ys = [i \in DOMAIN xs |-> 0]
  /\ final_ys = [i \in DOMAIN xs |-> 0]
  /\ step2_flag = [i \in DOMAIN xs |-> i < 2]
  /\ floor = [x \in 0 .. size - 1 |-> 0]
  /\ lx = 0 /\ ly = 0
  /\ pos = 0
  /\ status = "parsed"

-----------------------------------------------------------------------------
(* decode: the amplitudes                                                  *)

\* 256, 128, 86 and 64 for a table of 256.
range == (TableSize + multiplier - 1) \div multiplier

highest_bit(v) == Min({n \in 0 .. v : v < 2 ^ n})

\* The first bit of the floor is 0: there is no audio.
DecodeUnused ==
  /\ status = "parsed"
  /\ status' = "unused"
  /\ UNCHANGED <<setup, size, points, drawn, pos>>

DecodeAmplitudes ==
  /\ status = "parsed"
  /\ status' = "amplitudes"
  /\ \E first \in [0 .. 1 -> Bits(highest_bit(range - 1))] :
     \E rest \in [DOMAIN xs \ {0, 1} -> Scalars] :
       /\ ys' = [i \in DOMAIN xs |-> IF i < 2 THEN first[i] ELSE rest[i]]
       /\ final_ys' = [i \in DOMAIN xs |-> IF i < 2 THEN first[i] ELSE 0]
  /\ pos' = 2
  /\ UNCHANGED <<setup, size, step2_flag, drawn>>

-----------------------------------------------------------------------------
(* decode, step 1: amplitude value synthesis                               *)

LowNeighbors(i) ==
  {j \in 0 .. i - 1 : xs[j] < xs[i] /\ \A k \in 0 .. i - 1 : xs[k] < xs[i] => xs[k] <= xs[j]}

HighNeighbors(i) ==
  {j \in 0 .. i - 1 : xs[j] > xs[i] /\ \A k \in 0 .. i - 1 : xs[k] > xs[i] => xs[k] >= xs[j]}

\* Of equal places the first.
low_neighbor(i)  == CHOOSE j \in LowNeighbors(i) : \A k \in LowNeighbors(i) : j <= k
high_neighbor(i) == CHOOSE j \in HighNeighbors(i) : \A k \in HighNeighbors(i) : j <= k

render_point(x0, y0, x1, y1, X) ==
  IF y1 >= y0
  THEN Word(y0 + Word((y1 - y0) * (X - x0)) \div (x1 - x0))
  ELSE Word(y0 - Word((y0 - y1) * (X - x0)) \div (x1 - x0))

Predicted(i) ==
  render_point(xs[low_neighbor(i)], final_ys[low_neighbor(i)],
               xs[high_neighbor(i)], final_ys[high_neighbor(i)], xs[i])

\* A mutant of OnlyAbove: low_room is not taken off.
OnlyAboveUnshifted(val, low_room, predicted) == val + predicted

\* A mutant of OnlyBelow: the end of the range is counted as part of it.
OnlyBelowInclusive(val, high_room, predicted) == predicted - val + high_room

\* Values for which there is room on one side of the predicted only.
OnlyAbove(val, low_room, predicted)  == val - low_room + predicted
OnlyBelow(val, high_room, predicted) == predicted - val + high_room - 1

\* The amplitude that val stands for where the points before predict one.
Amplitude(val, predicted) ==
  LET high_room == range - predicted
      low_room  == predicted
      room      == 2 * (IF high_room < low_room THEN high_room ELSE low_room)
  IN IF val = 0 THEN predicted
     ELSE IF val >= room
     THEN IF high_room > low_room THEN Word(OnlyAbove(val, low_room, predicted))
                                  ELSE Word(OnlyBelow(val, high_room, predicted))
     ELSE IF val % 2 = 1 THEN predicted - (val + 1) \div 2
                         ELSE predicted + val \div 2

\* A mutant of Flagged: the neighbours are not drawn unless they were given.
FlaggedAlone(i) == {i}

\* What is drawn because the amplitude of i was given.
Flagged(i) == {i, low_neighbor(i), high_neighbor(i)}

\* The point at pos is between two that are done.
CanPredict ==
  /\ status = "amplitudes"
  /\ pos < N
  /\ LowNeighbors(pos) # {} /\ HighNeighbors(pos) # {}

SynthesizeAmplitude ==
  /\ CanPredict
  /\ Predicted(pos) <= range
  /\ final_ys' = [final_ys EXCEPT ![pos] = Amplitude(ys[pos], Predicted(pos))]
  /\ step2_flag' = IF ys[pos] = 0 THEN step2_flag
                   ELSE [i \in DOMAIN xs |-> step2_flag[i] \/ i \in Flagged(pos)]
  /\ pos' = pos + 1
  /\ UNCHANGED <<setup, size, ys, drawn, status>>

\* CHECK(predicted <= range)
RefusePrediction ==
  /\ CanPredict
  /\ Predicted(pos) > range
  /\ status' = "refused"
  /\ UNCHANGED <<setup, size, points, drawn, pos>>

\* low_neighbor returns -1 for a second point at 0, which is no index.
MissNeighbor ==
  /\ status = "amplitudes"
  /\ pos < N
  /\ ~CanPredict
  /\ status' = "aborted"
  /\ UNCHANGED <<setup, size, points, drawn, pos>>

-----------------------------------------------------------------------------
(* decode, step 2: curve synthesis                                         *)

sortedX(i) == xs[xs_sorted_idx[i]]
sortedY(i) == Word(final_ys[xs_sorted_idx[i]] * multiplier)

StartCurve ==
  /\ status = "amplitudes"
  /\ pos = N
  /\ status' = "curve"
  /\ lx' = 0 /\ ly' = sortedY(0)
  /\ pos' = 1
  /\ UNCHANGED <<setup, size, points, floor>>

\* The y of render_line at each x, and the error it carries to the next.
LineAt(x0, y0, x1, y1) ==
  LET dx   == x1 - x0
      dy   == IF y1 >= y0 THEN y1 - y0 ELSE y0 - y1
      sign == IF y1 >= y0 THEN 1 ELSE -1
      base == dy \div dx
      rest == dy % dx
      at[x \in x0 .. x1 - 1] ==
        IF x = x0 THEN [y |-> y0, err |-> 0]
        ELSE LET err == at[x - 1].err + rest
             IN IF err >= dx THEN [y |-> at[x - 1].y + sign * (base + 1), err |-> err - dx]
                             ELSE [y |-> at[x - 1].y + sign * base, err |-> err]
  IN at

\* A mutant of Pixels: the line is not cut at the end of the vector.
PixelsUncut(x0, x1) == x0 .. x1 - 1

\* Where render_line writes: x1 is not part of the line.
Pixels(x0, x1) == (x0 .. x1 - 1) \intersect (0 .. size - 1)

render_line(x0, y0, x1, y1) ==
  [x \in DOMAIN floor \union Pixels(x0, x1) |->
     IF x \in Pixels(x0, x1) THEN LineAt(x0, y0, x1, y1)[x].y ELSE floor[x]]

\* The assertions of render_line, on the ends and on the last y.
LineIsSound(x0, y0, x1, y1) ==
  /\ x0 < x1
  /\ Pixels(x0, x1) # {} =>
       LET y == LineAt(x0, y0, x1, y1)[Max(Pixels(x0, x1))].y
       IN IF y1 >= y0 THEN y0 <= y /\ y <= y1 ELSE y0 >= y /\ y >= y1

DrawLine ==
  /\ status = "curve"
  /\ pos < N
  /\ step2_flag[xs_sorted_idx[pos]]
  /\ LineIsSound(lx, ly, sortedX(pos), sortedY(pos))
  /\ floor' = render_line(lx, ly, sortedX(pos), sortedY(pos))
  /\ lx' = sortedX(pos) /\ ly' = sortedY(pos)
  /\ pos' = pos + 1
  /\ UNCHANGED <<setup, size, points, status>>

SkipPoint ==
  /\ status = "curve"
  /\ pos < N
  /\ ~step2_flag[xs_sorted_idx[pos]]
  /\ pos' = pos + 1
  /\ UNCHANGED <<setup, size, points, drawn, status>>

FailAssertion ==
  /\ status = "curve"
  /\ pos < N
  /\ step2_flag[xs_sorted_idx[pos]]
  /\ ~LineIsSound(lx, ly, sortedX(pos), sortedY(pos))
  /\ status' = "aborted"
  /\ UNCHANGED <<setup, size, points, drawn, pos>>

\* The rest is flat; then each y is looked up in inverse_db_table.
FinishCurve ==
  /\ status = "curve"
  /\ pos = N
  /\ floor' = IF lx < size THEN render_line(lx, ly, size, ly) ELSE floor
  /\ status' = IF \A x \in DOMAIN floor' : floor'[x] < TableSize THEN "done" ELSE "refused"
  /\ UNCHANGED <<setup, size, points, lx, ly, pos>>

FNext ==
  \/ DecodeUnused \/ DecodeAmplitudes
  \/ SynthesizeAmplitude \/ RefusePrediction \/ MissNeighbor
  \/ StartCurve \/ DrawLine \/ SkipPoint \/ FailAssertion \/ FinishCurve

FSpec == FInit /\ [][FNext]_fvars

-----------------------------------------------------------------------------
(* Properties                                                              *)

\* Type correctness; the curve keeps the size of the block, see render_line.
FTypeOK ==
  /\ multiplier \in 1 .. 4
  /\ size \in Sizes
  /\ ys \in [DOMAIN xs -> 0 .. WordSize - 1]
  /\ final_ys \in [DOMAIN xs -> 0 .. WordSize - 1]
  /\ step2_flag \in [DOMAIN xs -> BOOLEAN]
  /\ floor \in [0 .. size - 1 -> 0 .. WordSize - 1]
  /\ pos \in 0 .. N
  /\ status \in {"parsed", "unused", "amplitudes", "curve", "done", "refused", "aborted"}

\* The setup an encoder makes: the places of the points are distinct.
Distinct == \A i, j \in DOMAIN xs : i # j => xs[i] # xs[j]

\* The packet an encoder makes: amplitudes are below the range.
InRange == \A i \in DOMAIN xs : ys[i] < range

(***************************************************************************)
(* Amplitudes that a packet gives below the range stay below it, whatever  *)
(* is predicted and whichever side they are folded to, and so do the       *)
(* predictions: CHECK(predicted <= range) does not fail for them.          *)
(***************************************************************************)
AmplitudesInRange ==
  InRange =>
    /\ \A i \in DOMAIN xs : final_ys[i] < range
    /\ CanPredict => Predicted(pos) < range

(***************************************************************************)
(* Whatever is predicted, the values below the range stand for each        *)
(* amplitude below it: none is out of an encoder's reach or coded twice.   *)
(***************************************************************************)
EveryAmplitudeIsReached ==
  CanPredict /\ Predicted(pos) < range =>
    {Amplitude(val, Predicted(pos)) : val \in 0 .. range - 1} = 0 .. range - 1

(***************************************************************************)
(* What an encoder makes is always decoded: with distinct places no        *)
(* assertion fails, whatever the amplitudes, and amplitudes in the range   *)
(* are not refused.                                                        *)
(***************************************************************************)
ValidIsDecoded ==
  Distinct => /\ status # "aborted"
              /\ InRange => status # "refused"

\* The points the curve must go through: those given, and their neighbours.
Given == {i \in DOMAIN xs : i > 1 /\ ys[i] # 0}
Fixed == {0, 1} \union UNION {{i, low_neighbor(i), high_neighbor(i)} : i \in Given}

Height(i) == Word(final_ys[i] * multiplier)

\* The height at x of the straight line between two points, rounded towards the
\* first: what render_point gives as long as its product fits a word.
LineHeight(x0, y0, x1, y1, x) ==
  IF y1 >= y0
  THEN y0 + ((y1 - y0) * (x - x0)) \div (x1 - x0)
  ELSE y0 - ((y0 - y1) * (x - x0)) \div (x1 - x0)

\* x is on the line between two fixed points that have none between them.
OnLine(x) ==
  \E i, j \in Fixed :
    /\ xs[i] <= x /\ x < xs[j]
    /\ ~ \E k \in Fixed : xs[i] < xs[k] /\ xs[k] < xs[j]
    /\ floor[x] = LineHeight(xs[i], Height(i), xs[j], Height(j), x)

(***************************************************************************)
(* The finished curve is, at every x, on the straight line between the     *)
(* nearest fixed points to its left and right, and flat to the right of    *)
(* the last one: the error that render_line adds up, the sorting and the   *)
(* order of the lines amount to that, also for amplitudes whose heights    *)
(* do not fit a word.                                                      *)
(***************************************************************************)
CurveIsInterpolated ==
  status = "done" /\ Distinct =>
    \A x \in 0 .. size - 1 : IF x >= xs[1] THEN floor[x] = Height(1) ELSE OnLine(x)
=============================================================================
