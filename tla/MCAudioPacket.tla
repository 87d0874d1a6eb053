--------------------------- MODULE MCAudioPacket ----------------------------
(***************************************************************************)
(* AudioPacket for TLC: three channels, blocks of 4 and 8 samples, two     *)
(* passes, and setups with the three residue types, couplings that share a *)
(* channel, and submaps in another order than their channels.              *)
(***************************************************************************)
EXTENDS AudioPacket

FunFrom0(s) == [i \in 0 .. Len(s) - 1 |-> s[i + 1]]

Book(dimensions, codeword_len, lookup_type, multiplicands, delta, minimum, sequence_p) ==
  [dimensions |-> dimensions, codeword_len |-> codeword_len,
   lookup_type |-> lookup_type, multiplicands |-> FunFrom0(multiplicands),
   delta |-> delta, minimum |-> minimum, sequence_p |-> sequence_p]

MCCodebooks == FunFrom0(<<
  Book(1, 2, 0, <<>>, 0, 0, FALSE),              \* classes, one at a time
  Book(2, 4, 0, <<>>, 0, 0, FALSE),              \* classes, two at a time
  Book(1, 2, 1, <<0, 1, 2, 3>>, 1, -1, FALSE),   \* -1 .. 2
  Book(2, 4, 1, <<0, 1, 2, 3>>, 3, -3, FALSE),   \* pairs of -3, 0, 3, 6
  Book(2, 2, 2, <<1, 1, 0, 2, 2, 0, 1, 2>>, 1, -1, TRUE)>>)
                                                 \* <<0, 0>>, <<-1, 0>>, <<1, 0>>, <<0, 1>>

Classes(first, second) ==
  FunFrom0(<<FunFrom0(<<NoBook, NoBook>>), FunFrom0(first), FunFrom0(second)>>)

Residues(type_, begin, end, partition_size, classbook, first, second) ==
  [type |-> type_, begin |-> begin, end |-> end,
   partition_size |-> partition_size, num_classifications |-> 3,
   classbook |-> classbook, books |-> Classes(first, second)]

Spread   == Residues(0, 0, 9, 4, 0, <<4, NoBook>>, <<3, 2>>)
SpreadBy == Residues(0, 0, 4, 2, 1, <<2, NoBook>>, <<3, 2>>)
Together == Residues(1, 0, 4, 2, 1, <<NoBook, 2>>, <<3, 2>>)
Middle   == Residues(1, 1, 4, 1, 1, <<2, NoBook>>, <<2, 2>>)
Shared   == Residues(2, 0, 12, 2, 1, <<2, NoBook>>, <<3, 2>>)
SharedBy == Residues(2, 0, 99, 4, 0, <<4, NoBook>>, <<3, 2>>)
Scalars  == Residues(1, 0, 4, 2, 1, <<0, NoBook>>, <<2, NoBook>>)
Tiny     == Residues(0, 0, 4, 1, 1, <<1, NoBook>>, <<2, 2>>)

Submap(residue_) == [floor |-> 1, residue |-> residue_]
Pair(m, a) == [magnitude |-> m, angle |-> a]
Mapping(couplings, muxs, submaps) ==
  [couplings |-> couplings, muxs |-> FunFrom0(muxs), submaps |-> FunFrom0(submaps)]
Modes(long, short) ==
  FunFrom0(<<[block_flag |-> TRUE, mapping |-> long],
             [block_flag |-> FALSE, mapping |-> short]>>)

AllShared == Mapping(<<Pair(0, 1), Pair(0, 2)>>, <<0, 0, 0>>, <<Submap(Shared)>>)
Coupled2  == Mapping(<<Pair(2, 0)>>, <<0, 0, 0>>, <<Submap(SharedBy)>>)
Apart     == Mapping(<<>>, <<0, 1, 2>>,
               <<Submap(Spread), Submap(Together), Submap(Middle)>>)
Crossed   == Mapping(<<Pair(1, 0), Pair(2, 1)>>, <<1, 0, 2>>,
               <<Submap(Together), Submap(SpreadBy), Submap(Together)>>)
Mixed     == Mapping(<<Pair(0, 2)>>, <<1, 0, 1>>, <<Submap(Together), Submap(Shared)>>)

\* Setups that parse accepts and parse_audio cannot use.
Refused == Mapping(<<>>, <<0, 0, 0>>, <<[floor |-> 0, residue |-> Shared]>>)
Unused  == Mapping(<<>>, <<0, 1, 0>>, <<Submap(Shared), Submap(Together), Submap(Shared)>>)
NoTable == Mapping(<<>>, <<0, 1, 2>>, <<Submap(Tiny), Submap(Scalars), Submap(Together)>>)

\* No residue of type 0 or 1 has more than one channel: see MCSeveral.
MCSetups ==
  {Modes(AllShared, Mixed), Modes(Crossed, Apart), Modes(Coupled2, Crossed),
   Modes(Apart, Mixed), Modes(Mixed, Apart), Modes(Refused, Unused),
   Modes(NoTable, Unused), Modes(Coupled2, Crossed) @@ [i \in {2} |-> Modes(Apart, Mixed)[0]],
   [i \in {0} |-> [block_flag |-> FALSE, mapping |-> Coupled2]]}

\* A type 1 residue with two partitions, for each of the three channels.
Plain == [Together EXCEPT !.books = FunFrom0(<<@[2], @[1], @[0]>>)]
Several == Mapping(<<>>, <<0, 0, 0>>, <<Submap(Plain)>>)
MCSeveral == {Modes(Several, Apart)}

MCBlocksize == [b \in BOOLEAN |-> IF b THEN 8 ELSE 4]
Sample(a, b, c) == FunFrom0(<<a, b, c>>)
None == <<0, 0, 0, 0>>
MCSamples ==
  {Sample(None, None, None),
   Sample(<<0, 1, -1, 0>>, <<0, -1, 1, 1>>, None),
   Sample(None, <<0, 1, 1, 0>>, <<0, -1, 0, 1>>),
   Sample(<<0, 0, 1, -1>>, None, None),
   Sample(<<0, -1, 0, 0>>, None, <<0, 1, -1, -1>>),
   Sample(<<0, 1, 0, 1>>, <<0, 1, -1, -1>>, <<0, -1, 0, 1>>)}
MCPackets == Table([s \in Setups |-> MadeFrom(s, MCSamples)])

\* Short ones, and ones that go on into the residues.
Bytes == {<<>>} \union {<<2 * b>> : b \in 0 .. 127}
           \union {<<1>>, <<16, 4>>, <<54, 201, 85>>, <<174, 54, 219>>, <<64, 3, 77>>}
MCNoise ==
  {Table([i \in 0 .. 8 * Len(b) - 1 |-> (b[1 + i \div 8] \div 2 ^ (i % 8)) % 2]) : b \in Bytes}
=============================================================================
