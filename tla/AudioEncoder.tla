---------------------------- MODULE AudioEncoder ----------------------------
(***************************************************************************)
(* What an encoder of the format makes of its vectors: the packets the     *)
(* decoder meets, and what it should get back from them.  The encoder is   *)
(* not part of the program; this is the reference the decoder is held to,  *)
(* written from the format's side (Vorbis I, sections 4.3 and 8.6, which   *)
(* the comments of parse_audio and VorbisResidue::decode cite).            *)
(***************************************************************************)
EXTENDS Residue, Sequences

\* A field of n bits, the lowest first; a codeword has the highest first.
Bits(v, n) == [i \in 1 .. n |-> (v \div Doubled(i - 1)) % 2]

Codeword(book, entry) ==
  [i \in 1 .. book.codeword_len |-> (entry \div Doubled(book.codeword_len - i)) % 2]

\* The sequences f[0], ..., f[n - 1], one behind the other.
Joined(f, n) ==
  LET joined[i \in 0 .. n] == IF i = 0 THEN <<>> ELSE joined[i - 1] \o f[i - 1]
  IN joined[n]

Magnitude(x) == IF x < 0 THEN -x ELSE x

-----------------------------------------------------------------------------
(* Coupling: the larger of two values, and what is missing to the other    *)

Couple(x, y) ==
  IF Magnitude(x) > Magnitude(y)
  THEN <<x, IF x > 0 THEN x - y ELSE y - x>>
  ELSE <<y, IF y > 0 THEN x - y ELSE y - x>>

CoupleVectors(v, c) ==
  LET both == [p \in DOMAIN v[c.magnitude] |->
                 Couple(v[c.magnitude][p], v[c.angle][p])]
  IN [v EXCEPT ![c.magnitude] = Table([p \in DOMAIN both |-> both[p][1]]),
               ![c.angle]     = Table([p \in DOMAIN both |-> both[p][2]])]

\* The vectors after the first i couplings.
Coupled(v, couplings) ==
  LET after[i \in 0 .. Len(couplings)] ==
        IF i = 0 THEN v ELSE CoupleVectors(after[i - 1], couplings[i])
  IN Table(after)

-----------------------------------------------------------------------------
(* A partition t of class c: entries of the codebook of each pass          *)

BookOf(r, c, p) == Codebooks[r.books[c][p]]

\* What the passes from p on can add up to in each place.
Reach(r, c) ==
  LET reach[p \in 0 .. Passes] ==
        IF p = Passes THEN {0}
        ELSE IF r.books[c][p] = NoBook \/ BookOf(r, c, p).lookup_type = 0
        THEN reach[p + 1]
        ELSE {Vectors[r.books[c][p]][e][0] + n :
                e \in DOMAIN Vectors[r.books[c][p]], n \in reach[p + 1]}
  IN reach

\* Whose component place x of a partition is, <<vector, component>>: the
\* vectors are spread out in type 0, together otherwise.
Home(r, book, x) ==
  LET vectors == r.partition_size \div book.dimensions
  IN IF r.type = 0 THEN <<x % vectors, x \div vectors>>
     ELSE <<x \div book.dimensions, x % book.dimensions>>

\* The entries that will do as each of the vectors.
Fitting(r, b, t, reach) ==
  Table([k \in 0 .. r.partition_size \div Codebooks[b].dimensions - 1 |->
    {e \in DOMAIN Vectors[b] :
       \A x \in DOMAIN t :
         LET home == Home(r, Codebooks[b], x)
         IN home[1] = k => t[x] - Vectors[b][e][home[2]] \in reach}])

\* What is left of the partition after the entries chosen, by vector.
Rest(r, b, t, picked) ==
  Table([x \in DOMAIN t |->
           LET home == Home(r, Codebooks[b], x)
           IN t[x] - Vectors[b][picked[home[1]]][home[2]]])

Picked(r, b, layers, picked) ==
  [layers EXCEPT !.rest = Rest(r, b, @, picked), !.picked = Append(@, picked)]

\* One pass more; not ok if there is no entry for one of the vectors.
AddLayer(r, b, layers, reach) ==
  IF b = NoBook
  THEN [layers EXCEPT !.picked = Append(@, <<>>)]
  ELSE IF ~layers.ok \/ Codebooks[b].lookup_type = 0
  THEN [layers EXCEPT !.ok = FALSE]
  ELSE LET fit == Fitting(r, b, layers.rest, reach)
       IN IF \E k \in DOMAIN fit : fit[k] = {}
          THEN [layers EXCEPT !.ok = FALSE]
          ELSE Picked(r, b, layers, Table([k \in DOMAIN fit |-> CHOOSE e \in fit[k] : TRUE]))

\* The entries of each pass, as long as some fit, and what is left in the end.
Layers(r, c, t, reach) ==
  LET layers[p \in 0 .. Passes] ==
        IF p = 0 THEN [ok |-> TRUE, rest |-> t, picked |-> <<>>]
        ELSE AddLayer(r, r.books[c][p - 1], layers[p - 1], reach[p])
  IN layers[Passes]

\* The lowest class that will do, with its entries; class -1 if there is none.
EncodePartition(r, t) ==
  LET layers == Table([c \in 0 .. r.num_classifications - 1 |->
                         Layers(r, c, t, Reach(r, c))])
      fitting == {c \in DOMAIN layers :
                    layers[c].ok /\ \A x \in DOMAIN t : layers[c].rest[x] = 0}
  IN IF fitting = {} THEN [class |-> -1]
     ELSE [class |-> Min(fitting), picked |-> layers[Min(fitting)].picked]

-----------------------------------------------------------------------------
(* The vectors v of a submap's channels, of which some are decoded         *)

PartitionCount(r, len) ==
  (Smaller(r.end, len) - Smaller(r.begin, len)) \div r.partition_size

Partition(r, v, q) ==
  Table([x \in 0 .. r.partition_size - 1 |-> v[r.begin + q * r.partition_size + x]])

\* How each partition of the decoded channels is encoded.
Codings(r, v, used) ==
  LET count == PartitionCount(r, Cardinality(DOMAIN v[0]))
  IN Table([j \in {i \in DOMAIN v : used[i]} |->
       Table([q \in 0 .. count - 1 |-> EncodePartition(r, Partition(r, v[j], q))])])

\* A partition's class; 0 if it is not encoded.
ClassOf(codings, j, q) == IF q \in DOMAIN codings[j] THEN codings[j][q].class ELSE 0

\* The classes of n partitions from q on, partition q's as the highest digit.
Digits(r, codings, j, q, n) ==
  LET digits[i \in 0 .. n] ==
        IF i = 0 THEN 0
        ELSE digits[i - 1] * r.num_classifications + ClassOf(codings, j, q + i - 1)
  IN digits[n]

ClasswordEntry(r, codings, j, q) ==
  Digits(r, codings, j, q, Codebooks[r.classbook].dimensions)

\* Can be encoded: nothing is outside of the partitions, each of them has a class,
\* and the classbook has their classwords.
Encodable(r, w) ==
  LET n       == PartitionCount(r, Cardinality(DOMAIN w))
      codings == Codings(r, [j \in {0} |-> w], [j \in {0} |-> TRUE])
  IN /\ \A p \in DOMAIN w : w[p] # 0 =>
          p \in r.begin .. r.begin + n * r.partition_size - 1
     /\ \A q \in 0 .. n - 1 :
          /\ codings[0][q].class >= 0
          /\ q % Codebooks[r.classbook].dimensions = 0 =>
               ClasswordEntry(r, codings, 0, q) < num_entries_(Codebooks[r.classbook])

Classword(r, codings, j, q) ==
  Codeword(Codebooks[r.classbook], ClasswordEntry(r, codings, j, q))

EntriesOf(book, picked) ==
  Joined([k \in DOMAIN picked |-> Codeword(book, picked[k])], Cardinality(DOMAIN picked))

\* Of the n channels, codings has those that are encoded.
ClasswordsAt(r, codings, n, q) ==
  Joined([j \in 0 .. n - 1 |->
            IF j \in DOMAIN codings THEN Classword(r, codings, j, q) ELSE <<>>], n)

EntriesAt(r, codings, n, q, p) ==
  Joined([j \in 0 .. n - 1 |->
            IF j \in DOMAIN codings
            THEN EntriesOf(BookOf(r, codings[j][q].class, p), codings[j][q].picked[p + 1])
            ELSE <<>>], n)

\* In the first pass, classwords come before the partitions they are for.
EncodeAt(r, codings, n, q, p) ==
  (IF p = 0 /\ q % Codebooks[r.classbook].dimensions = 0
   THEN ClasswordsAt(r, codings, n, q) ELSE <<>>)
    \o EntriesAt(r, codings, n, q, p)

EncodePass(r, codings, n, count, p) ==
  Joined([q \in 0 .. count - 1 |-> EncodeAt(r, codings, n, q, p)], count)

EncodeWith(r, codings, n, count) ==
  Joined([p \in 0 .. Passes - 1 |-> EncodePass(r, codings, n, count, p)], Passes)

EncodeVectors(r, v, used) ==
  EncodeWith(r, Codings(r, v, used), Cardinality(DOMAIN v),
             PartitionCount(r, Cardinality(DOMAIN v[0])))

\* Type 2: one vector for all.
Interleaved(v) ==
  LET n == Cardinality(DOMAIN v)
  IN Table([x \in 0 .. n * Cardinality(DOMAIN v[0]) - 1 |-> v[x % n][x \div n]])

AsOne(r, v) == IF r.type = 2 THEN [j \in {0} |-> Interleaved(v)] ELSE v

\* Nothing at all if no channel is used.
EncodeResidue(r, v, used) ==
  IF \A j \in DOMAIN used : ~used[j] THEN <<>>
  ELSE EncodeVectors(r, AsOne(r, v), IF r.type = 2 THEN [j \in {0} |-> TRUE] ELSE used)

ResidueEncodable(r, v, used) ==
  \A w \in (IF r.type = 2 THEN {Interleaved(v)} ELSE {v[j] : j \in {i \in DOMAIN v : used[i]}}) :
    Encodable(r, w)

=============================================================================
