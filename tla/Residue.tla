------------------------------ MODULE Residue -------------------------------
(***************************************************************************)
(* VorbisResidue::decode: the vectors of the channels of one submap, cut   *)
(* into partitions.  Each partition has a class, and a class a codebook    *)
(* for each pass, whose vectors are added up.  A classword of the packet   *)
(* gives the classes of several partitions.                                *)
(*                                                                         *)
(* A codebook's codewords all have the same length here; Codebook shows    *)
(* that others are decoded as well.  Floats are integers.                  *)
(***************************************************************************)
EXTENDS BitReader, TLC

CONSTANTS
  Passes,     \* 8 in the code
  Codebooks   \* the codebooks of the setup, from 0

NoBook == -1

\* A codebook's dimensions are not 0 (CHECKed by parse).
ASSUME ResidueAssumption ==
  /\ Passes \in Nat \ {0}
  /\ \A b \in DOMAIN Codebooks :
       /\ Codebooks[b].dimensions \in Nat \ {0}
       /\ Codebooks[b].codeword_len \in Nat
       /\ Codebooks[b].lookup_type \in 0 .. 2

VARIABLES
  packet,            \* the packet's bits, by place
  reader,
  residue,           \* the VorbisResidue
  channel_used,      \* of the submap's channels
  out,               \* their vectors
  classifications,   \* of each channel's partitions
  pass, partition_count,
  word,              \* the loop variable i: partitions since the last classword
  ch,                \* the loop variable j
  rstage             \* where decode is

\* f itself: TLC evaluates it for the comparison, once and not at each use.
Table(f) == IF f = f THEN f ELSE <<>>

settings == <<packet, residue, channel_used>>
rvars == <<settings, reader, out, classifications, pass, partition_count,
           word, ch, rstage>>

-----------------------------------------------------------------------------
(* Reading values                                                          *)

\* A mutant of BitAt: a missing bit is 1.
BitAtOrSet(place) == IF place = NoPlace THEN 1 ELSE packet[place]

\* A missing bit is 0.
BitAt(place) == IF place # NoPlace /\ packet[place] = 1 THEN 1 ELSE 0

\* The value of the bits at n places, the first being the lowest.
Value(places, n) ==
  LET highest[i \in 0 .. n] ==
        IF i = 0 THEN 0 ELSE 2 * highest[i - 1] + BitAt(places[n - i])
  IN highest[n]

readBits(r, num) ==
  [value |-> Value(Places(r, num), num), reader |-> AfterBits(r, num)]

\* readBitsT<1>

readBit(r) == [value |-> BitAt(Places(r, 1)[0]), reader |-> AfterBits(r, 1)]

NextBit(before, bit) ==
  [value |-> 2 * before.value + bit.value, reader |-> bit.reader]

\* One bit after the other, the highest of the codeword first.
decodeScalar(r, book) ==
  LET read[k \in 0 .. book.codeword_len] ==
        IF k = 0 THEN [value |-> 0, reader |-> r]
        ELSE NextBit(read[k - 1], readBit(read[k - 1].reader))
  IN read[book.codeword_len]

\* 1, doubled n times.
Doubled(n) ==
  LET doubled[i \in 0 .. n] == IF i = 0 THEN 1 ELSE 2 * doubled[i - 1]
  IN doubled[n]

\* All codewords of a codebook's length are used.
num_entries_(book) == Doubled(book.codeword_len)

\* What parse reads for _buildVQ: floats, which are integers here.
ASSUME VectorsAssumption ==
  \A b \in {c \in DOMAIN Codebooks : Codebooks[c].lookup_type # 0} :
    LET book == Codebooks[b]
        size == Cardinality(DOMAIN book.multiplicands)
    IN /\ size \in Nat \ {0}
       /\ book.multiplicands \in [0 .. size - 1 -> Int]
       /\ book.lookup_type = 2 => size = num_entries_(book) * book.dimensions
       /\ book.delta \in Int /\ book.minimum \in Int
       /\ book.sequence_p \in BOOLEAN

\* _buildVQ, for lookup types 1 and 2: the vector of each entry.
lookup_table_(book) ==
  LET size == Cardinality(DOMAIN book.multiplicands)
      index_divisor[dim \in 0 .. book.dimensions] ==
        IF dim = 0 THEN 1 ELSE index_divisor[dim - 1] * size
      offset(entry, dim) == IF book.lookup_type = 1
                            THEN (entry \div index_divisor[dim]) % size
                            ELSE entry * book.dimensions + dim
      value(entry, dim) ==
        book.multiplicands[offset(entry, dim)] * book.delta + book.minimum
  IN Table([entry \in 0 .. num_entries_(book) - 1 |->
        LET vector[dim \in 0 .. book.dimensions - 1] ==
              value(entry, dim)
                + (IF book.sequence_p /\ dim > 0 THEN vector[dim - 1] ELSE 0)
        IN Table([dim \in 0 .. book.dimensions - 1 |-> vector[dim]])])

\* Built once for each codebook with vectors; the others have none.
Vectors ==
  Table([b \in {c \in DOMAIN Codebooks : Codebooks[c].lookup_type # 0} |->
           lookup_table_(Codebooks[b])])

-----------------------------------------------------------------------------
(* The loops of decode                                                     *)

\* Type 2 is type 1 for one long vector that all channels share.
type == IF residue.type = 2 THEN 1 ELSE residue.type
NumChannels == Cardinality(DOMAIN out)
DecodeLen == Cardinality(DOMAIN out[0])

limit_begin == Smaller(residue.begin, DecodeLen)
limit_end   == Smaller(residue.end, DecodeLen)

\* How many partitions fit between the limits, in vectors of this length.
PartitionsIn(r, len) ==
  (Smaller(r.end, len) - Smaller(r.begin, len)) \div r.partition_size

partitions_to_read == PartitionsIn(residue, DecodeLen)

class_codebook == Codebooks[residue.classbook]
classwords_per_codeword == class_codebook.dimensions

(***************************************************************************)
(* The start of decode, for channels with these flags.  Nothing is to be   *)
(* read either if no partition fits (the code then does nothing 8 times).  *)
(***************************************************************************)
BeginResidue(r, used, decode_len) ==
  LET n    == Cardinality(DOMAIN used)
      flat == r.type = 2
      len  == IF flat THEN n * decode_len ELSE decode_len
      slots == PartitionsIn(r, len) + Codebooks[r.classbook].dimensions
  IN /\ residue' = r
     /\ channel_used' = IF flat THEN [j \in {0} |-> TRUE] ELSE used
     /\ out' = [j \in DOMAIN channel_used' |-> [p \in 0 .. len - 1 |-> 0]]
     /\ classifications' = [j \in DOMAIN channel_used' |->
                              [q \in 0 .. slots - 1 |-> 0]]
     /\ pass' = 0 /\ partition_count' = 0 /\ word' = 0 /\ ch' = 0
     /\ rstage' = IF n = 0 THEN "failed"       \* CHECK(num_channel > 0)
                  ELSE "pass"

\* The head of the while loop, and of the loop over the passes.
NextClassword ==
  /\ rstage = "pass"
  /\ IF partition_count < partitions_to_read
     THEN /\ rstage' = "classify"
          /\ UNCHANGED <<pass, partition_count>>
     ELSE /\ pass' = pass + 1
          /\ partition_count' = 0
          /\ rstage' = IF pass' = Passes THEN "decoded" ELSE "pass"
  /\ word' = 0 /\ ch' = 0
  /\ UNCHANGED <<settings, reader, out, classifications>>

\* What is left of the classword temp after k divisions.
Quotient(temp, k) ==
  LET left[i \in 0 .. k] ==
        IF i = 0 THEN temp ELSE left[i - 1] \div residue.num_classifications
  IN left[k]

\* A mutant of Class: the first partition has the lowest digit.
ClassReversed(temp, i) == Quotient(temp, i) % residue.num_classifications

\* The class of the i-th partition of a classword: the last has the lowest digit.
Class(temp, i) ==
  Quotient(temp, classwords_per_codeword - 1 - i) % residue.num_classifications

\* In the first pass, a classword for each channel.
Classify ==
  /\ rstage = "classify"
  /\ IF ch = NumChannels \/ pass > 0
     THEN /\ rstage' = "partition"
          /\ ch' = 0
          /\ UNCHANGED <<reader, classifications>>
     ELSE /\ ch' = ch + 1
          /\ UNCHANGED rstage
          /\ IF channel_used[ch]
             THEN LET temp == decodeScalar(reader, class_codebook)
                  IN /\ reader' = temp.reader
                     /\ classifications' = [classifications EXCEPT ![ch] =
                          [q \in DOMAIN @ |->
                             IF q - partition_count \in 0 .. classwords_per_codeword - 1
                             THEN Class(temp.value, q - partition_count)
                             ELSE @[q]]]
             ELSE UNCHANGED <<reader, classifications>>
  /\ UNCHANGED <<settings, out, pass, partition_count, word>>

vq_book == residue.books[classifications[ch][partition_count]][pass]

\* Where component l of a partition's k-th vector belongs.
Place(book, k, l) ==
  IF type = 0
  THEN k + l * (residue.partition_size \div book.dimensions)
  ELSE k * book.dimensions + l

\* How many vectors a partition has.
NumVectors(book) ==
  IF type = 0
  THEN residue.partition_size \div book.dimensions
  ELSE (residue.partition_size + book.dimensions - 1) \div book.dimensions

\* The entries of a partition's vectors, and the reader behind each.
Entries(book) ==
  LET read[k \in 0 .. NumVectors(book)] ==
        IF k = 0 THEN [value |-> 0, reader |-> reader]
        ELSE decodeScalar(read[k - 1].reader, book)
  IN read

\* decodeVector is called and returns an empty vector: the codebook has scalars only.
NoVectors(book) == book.lookup_type = 0 /\ NumVectors(book) # 0

Components(book) == (0 .. NumVectors(book) - 1) \X (0 .. book.dimensions - 1)

\* The components that belong there: no more than one.
At(book, x) == {kl \in Components(book) : Place(book, kl[1], kl[2]) = x}

\* Where the current partition begins.
offset == limit_begin + partition_count * residue.partition_size

\* The vector v with those of the current partition added.
Added(v, b) ==
  LET book    == Codebooks[b]
      entries == Entries(book)
      value(kl) == Vectors[b][entries[kl[1] + 1].value][kl[2]]
  IN [p \in DOMAIN v |->
        IF At(book, p - offset) = {} THEN v[p]
        ELSE v[p] + value(CHOOSE kl \in At(book, p - offset) : TRUE)]

\* The places that are written to for the current partition.
Written ==
  IF rstage = "partition" /\ channel_used[ch] /\ vq_book # NoBook
  THEN {offset + Place(Codebooks[vq_book], kl[1], kl[2]) :
          kl \in Components(Codebooks[vq_book])}
  ELSE {}

\* A mutant of InWord: a classword is used up to the end, even past the last partition.
InWordOnly(i, count) == i < classwords_per_codeword

InWord(i, count) == i < classwords_per_codeword /\ count < partitions_to_read

\* partition_count is counted up in the inner loop, for each channel.
DecodePartition ==
  /\ rstage = "partition"
  /\ IF channel_used[ch] /\ vq_book # NoBook
     THEN LET book == Codebooks[vq_book]
          IN /\ ~NoVectors(book)
             /\ out' = [out EXCEPT ![ch] = Added(@, vq_book)]
             /\ reader' = Entries(book)[NumVectors(book)].reader
     ELSE UNCHANGED <<out, reader>>
  /\ partition_count' = partition_count + 1
  /\ IF ch + 1 < NumChannels
     THEN ch' = ch + 1 /\ UNCHANGED <<word, rstage>>
     ELSE /\ ch' = 0
          /\ word' = word + 1
          /\ rstage' = IF InWord(word', partition_count') THEN "partition"
                       ELSE "pass"
  /\ UNCHANGED <<settings, classifications, pass>>

\* CHECK(temp.size() > 0) fails, for the partition's first vector.
RefuseVector ==
  /\ rstage = "partition"
  /\ channel_used[ch] /\ vq_book # NoBook
  /\ NoVectors(Codebooks[vq_book])
  /\ rstage' = "failed"
  /\ reader' = decodeScalar(reader, Codebooks[vq_book]).reader
  /\ UNCHANGED <<settings, out, classifications, pass, partition_count, word, ch>>

\* A mutant of ResidueOutput: each channel gets the vector of all.
ResidueOutputOfAll(n, decode_len) ==
  [j \in 0 .. n - 1 |-> IF residue.type = 2 THEN out[0] ELSE out[j]]

\* What the channels get in the end: type 2 is interleaved.
ResidueOutput(n, decode_len) ==
  IF residue.type = 2
  THEN [j \in 0 .. n - 1 |->
          [i \in 0 .. decode_len - 1 |-> out[0][j + n * i]]]
  ELSE out

ResidueNext == NextClassword \/ Classify \/ DecodePartition \/ RefuseVector

=============================================================================
