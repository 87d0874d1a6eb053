---------------------------- MODULE AudioPacket -----------------------------
(***************************************************************************)
(* VorbisStream::parse_audio: the packet's head selects a mode, each       *)
(* channel has a floor, submap after submap has its residue decoded,       *)
(* couplings are undone, and each residue is multiplied by its floor.      *)
(* The MDCT and PcmBuffer come after it.  The curve of a floor is a number *)
(* here, read as one field, and some numbers stand for amplitudes that     *)
(* floor 1 refuses; Floor1 has the rest.                                   *)
(***************************************************************************)
EXTENDS AudioEncoder

CONSTANTS
  AudioChannels,  \* header.audio_channels
  Blocksize,      \* of short (FALSE) and of long blocks (TRUE)
  FloorBits,      \* the length of the field that stands for a curve
  BadCurves,      \* its values that stand for what floor 1 refuses
  Setups,         \* bound: the stream setups
  Packets,        \* bound: for each setup, packets that an encoder makes
  Cuts,           \* bound: how many bytes a packet may lack at its end
  Noise,          \* bound: packets that no encoder made
  Widths          \* bound: how many bits are asked for at once

Channels == 0 .. AudioChannels - 1

VARIABLES
  modes,             \* of the setup
  mode_idx,
  channel,           \* the next channel to get its floor
  floor_output_used, \* of each channel
  floor_outputs,     \* the curves
  submap,            \* the submap whose residue is decoded
  residue_outputs,
  step,              \* how many couplings are propagated, then still to be undone
  after_residue, after_envelope,   \* what push_data_float is given
  stage,
  content            \* history: what the packet was made from

floors == <<channel, floor_output_used, floor_outputs>>
pushed == <<after_residue, after_envelope>>
given  == <<modes, packet, content>>
loops  == <<residue, channel_used, out, classifications, pass,
            partition_count, word, ch, rstage>>
avars  == <<given, mode_idx, floors, submap, residue_outputs, step, pushed,
            stage, reader, loops>>

mapping(m)       == modes[m].mapping
decode_len(s, m) == Blocksize[s[m].block_flag] \div 2

\* 9.2.1 ilog: how often v can be shifted.
highest_bit(v) ==
  LET shifts[x \in 0 .. v] == IF x = 0 THEN 0 ELSE 1 + shifts[x \div 2]
  IN shifts[v]

Zeros(len) == [p \in 0 .. len - 1 |-> 0]

-----------------------------------------------------------------------------
(* Setups and packets                                                      *)

\* What parse lets pass.  It does not look whether the books exist, nor whether
\* partitions are made of whole vectors; the first is assumed here.
ParsedResidue(r) ==
  /\ r.num_classifications \in Nat \ {0}
  /\ r.type \in 0 .. 2
  /\ r.begin \in Nat /\ r.end \in Nat /\ r.begin <= r.end
  /\ r.partition_size \in Nat \ {0}
  /\ r.classbook \in DOMAIN Codebooks
  /\ r.books \in [0 .. r.num_classifications - 1 ->
                    [0 .. Passes - 1 -> {NoBook} \union DOMAIN Codebooks]]

ParsedMapping(m) ==
  /\ m.couplings \in Seq([magnitude : Channels, angle : Channels])
  /\ \A i \in DOMAIN m.couplings : m.couplings[i].magnitude # m.couplings[i].angle
  /\ \E n \in 1 .. 16 : DOMAIN m.submaps = 0 .. n - 1
  /\ m.muxs \in [Channels -> DOMAIN m.submaps]
  /\ \A s \in DOMAIN m.submaps :
       m.submaps[s].floor \in {0, 1} /\ ParsedResidue(m.submaps[s].residue)

\* The partition counter may run ahead by as many partitions as a residue has
\* further channels; with more, classifications is read outside.
FewChannels(m) ==
  \A s \in DOMAIN m.submaps :
    LET r == m.submaps[s].residue
    IN r.type = 2 \/ Cardinality({c \in Channels : m.muxs[c] = s})
                       <= Codebooks[r.classbook].dimensions + 1

ASSUME AudioAssumption ==
  /\ AudioChannels \in Nat \ {0}
  /\ Blocksize \in [BOOLEAN -> Nat]
  /\ FloorBits \in Nat \ {0}
  /\ BadCurves \subseteq Nat
  /\ \A s \in Setups : DOMAIN s \in {0 .. n : n \in 0 .. 63}
  /\ \A s \in Setups : \A m \in DOMAIN s :
       /\ s[m].block_flag \in BOOLEAN
       /\ ParsedMapping(s[m].mapping) /\ FewChannels(s[m].mapping)

\* A set of channels, numbered.
InOrder(mine) ==
  Table([j \in 0 .. Cardinality(mine) - 1 |->
           CHOOSE c \in mine : Cardinality({d \in mine : d < c}) = j])

\* The channels of submap s.
Members(m, s) == InOrder({c \in Channels : m.muxs[c] = s})

\* What f has for each of the members.
Of(members, f) == Table([j \in DOMAIN members |-> f[members[j]]])

\* In the encoder's view: a channel is decoded if it or its partner has a floor.
IsDecoded(m, used, c) ==
  \/ used[c]
  \/ \E i \in DOMAIN m.couplings :
       LET k == m.couplings[i]
       IN c \in {k.magnitude, k.angle} /\ (used[k.magnitude] \/ used[k.angle])

\* The partners of decoded channels are decoded.
Settled(m, used) ==
  \A i \in DOMAIN m.couplings :
    IsDecoded(m, used, m.couplings[i].magnitude)
      = IsDecoded(m, used, m.couplings[i].angle)

Curve(c) == c % Doubled(FloorBits)

(***************************************************************************)
(* What can be encoded: silence where there is no floor, curves that are   *)
(* not refused, and residues that the codebooks have.  A type 2 submap has *)
(* some channel with a floor: of one without, an encoder writes nothing,   *)
(* but the decoder reads on.                                               *)
(***************************************************************************)
CanSend(s, x) ==
  LET m == s[x.mode].mapping
      coupled == x.coupled[Len(m.couplings)]
      decoded == Table([c \in Channels |-> IsDecoded(m, x.used, c)])
  IN /\ \A c \in Channels : IF x.used[c] THEN Curve(c) \notin BadCurves
                             ELSE x.sent[c] = Zeros(decode_len(s, x.mode))
     /\ Settled(m, x.used)
     /\ \A i \in DOMAIN m.submaps :
          /\ DOMAIN Members(m, i) # {}
          /\ m.submaps[i].residue.type = 2 =>
               \E c \in Channels : m.muxs[c] = i /\ decoded[c]
          /\ ResidueEncodable(m.submaps[i].residue,
               Of(Members(m, i), coupled), Of(Members(m, i), decoded))

EncodeHead(s, x) ==
  <<0>> \o Bits(x.mode, highest_bit(Cardinality(DOMAIN s) - 1))
    \o (IF s[x.mode].block_flag THEN <<0, 1>> ELSE <<>>)

EncodeFloor(x, c) ==
  IF x.used[c] THEN <<1>> \o Bits(Curve(c), FloorBits) ELSE <<0>>

EncodeSubmap(m, x, i) ==
  LET coupled == x.coupled[Len(m.couplings)]
      decoded == Table([c \in Channels |-> IsDecoded(m, x.used, c)])
  IN EncodeResidue(m.submaps[i].residue,
       Of(Members(m, i), coupled), Of(Members(m, i), decoded))

Encode(s, x) ==
  LET m == s[x.mode].mapping
  IN EncodeHead(s, x)
       \o Joined([c \in Channels |-> EncodeFloor(x, c)], AudioChannels)
       \o Joined([i \in DOMAIN m.submaps |-> EncodeSubmap(m, x, i)],
                 Cardinality(DOMAIN m.submaps))

\* A packet of whole bytes, from bits; missing bits of the last byte are 0.
Packed(bits, cut) ==
  LET bytes == (Len(bits) + 7) \div 8
      kept  == IF cut < bytes THEN bytes - cut ELSE 0
  IN [i \in 0 .. 8 * kept - 1 |->
        IF i < Len(bits) THEN bits[i + 1] ELSE 0]

\* What an encoder with setup s may be given, for one packet.
Contents(s, samples) ==
  LET contents ==
        {LET sent == Table([c \in Channels |->
                       Table([p \in 0 .. decode_len(s, m) - 1 |-> sample[c][p + 1]])])
         IN [mode |-> m, used |-> used, sent |-> sent,
             coupled |-> Coupled(sent, s[m].mapping.couplings)] :
           m \in DOMAIN s, used \in [Channels -> BOOLEAN], sample \in samples}
  IN {x \in contents : CanSend(s, x)}

MadeFrom(s, samples) ==
  {[from |-> x, bits |-> Encode(s, x)] : x \in Contents(s, samples)}

\* An encoder's packet: it can be encoded, and the vectors between the couplings
\* are as they should be.
IsMade(s, made) ==
  LET x == made.from
      couplings == s[x.mode].mapping.couplings
  IN /\ made.bits \in Seq({0, 1}) /\ made.bits = Encode(s, x)
     /\ x.mode \in DOMAIN s
     /\ x.used \in [Channels -> BOOLEAN]
     /\ x.coupled \in [0 .. Len(couplings) ->
                         [Channels -> [0 .. decode_len(s, x.mode) - 1 -> Int]]]
     /\ \A i \in 1 .. Len(couplings) :
          x.coupled[i] = CoupleVectors(x.coupled[i - 1], couplings[i])
     /\ x.sent = x.coupled[0]
     /\ CanSend(s, x)

ASSUME PacketsAssumption ==
  /\ \A s \in Setups : \A made \in Packets[s] : IsMade(s, made)
  /\ \A bits \in Noise :
       LET n == Cardinality(DOMAIN bits)
       IN n \in Nat /\ n % 8 = 0 /\ bits \in [0 .. n - 1 -> {0, 1}]
  /\ Cuts \subseteq Nat
  /\ Widths \subseteq Nat \ {0}

\* What is to be remembered of a packet.
Content(x, cut) ==
  [mode |-> x.mode, sent |-> x.sent, coupled |-> x.coupled, cut |-> cut]

MadePackets ==
  \E made \in Packets[modes], cut \in Cuts :
    /\ content = Content(made.from, cut)
    /\ packet = Packed(made.bits, cut)

\* The content of a packet that no encoder made.
NoContent == [mode |-> -1]

AInit ==
  /\ modes \in Setups
  /\ \/ MadePackets
     \/ /\ content = NoContent
        /\ packet \in Noise
  /\ mode_idx = -1
  /\ channel = 0
  /\ floor_output_used = [c \in Channels |-> FALSE]
  /\ floor_outputs = [c \in Channels |-> 0]
  /\ submap = 0
  /\ residue_outputs = [c \in Channels |-> <<>>]
  /\ step = 0
  /\ after_residue = <<>> /\ after_envelope = <<>>
  /\ stage = "head"
  /\ reader = NewReader(Cardinality(DOMAIN packet) \div 8)
  /\ residue = <<>> /\ channel_used = <<>> /\ out = <<>> /\ classifications = <<>>
  /\ pass = 0 /\ partition_count = 0 /\ word = 0 /\ ch = 0
  /\ rstage = "none"

-----------------------------------------------------------------------------
(* parse_audio                                                             *)

(***************************************************************************)
(* The packet type, the mode, and for a long block the two window flags,   *)
(* which only PcmBuffer looks at.  With a single mode, readBits is asked   *)
(* for 0 bits and its assertion fails.  A number behind the last mode is   *)
(* not looked for: what is read there is undefined.  After the head,       *)
(* advancePcmOffsetBeginAudioPacket may fail; PcmBuffer says when.         *)
(***************************************************************************)
ReadHead ==
  LET type_ == readBit(reader)
      bits  == highest_bit(Cardinality(DOMAIN modes) - 1)
      idx   == readBits(type_.reader, bits)
  IN /\ stage = "head"
     /\ CASE type_.value # 0 ->
               stage' = "failed" /\ reader' = type_.reader /\ UNCHANGED mode_idx
          [] type_.value = 0 /\ bits = 0 ->
               stage' = "aborted" /\ reader' = type_.reader /\ UNCHANGED mode_idx
          [] type_.value = 0 /\ bits # 0 /\ idx.value \notin DOMAIN modes ->
               stage' = "undefined" /\ reader' = idx.reader /\ UNCHANGED mode_idx
          [] OTHER ->
               /\ mode_idx' = idx.value
               /\ stage' \in {"floors", "misplaced"}
               /\ reader' = IF modes[idx.value].block_flag
                            THEN readBit(readBit(idx.reader).reader).reader
                            ELSE idx.reader
     /\ UNCHANGED <<given, floors, submap, residue_outputs, step, pushed, loops>>

(***************************************************************************)
(* VorbisFloor::decode for the next channel.  Floor 0 is not implemented.  *)
(* Without its flag a floor 1 is not used; with it, its curve is decoded,  *)
(* unless the amplitudes go beyond their range or the table of levels.     *)
(***************************************************************************)
DecodeFloor ==
  LET m     == mapping(mode_idx)
      floor == m.submaps[m.muxs[channel]].floor
      used  == readBit(reader)
      curve == readBits(used.reader, FloorBits)
      is_bad == used.value = 1 /\ curve.value \in BadCurves
  IN /\ stage = "floors"
     /\ channel < AudioChannels
     /\ \/ /\ floor = 0
           /\ stage' = "failed"
           /\ UNCHANGED <<floors, reader>>
        \/ /\ floor # 0 /\ is_bad
           /\ stage' = "refused"
           /\ reader' = curve.reader
           /\ UNCHANGED floors
        \/ /\ floor # 0 /\ ~is_bad
           /\ channel' = channel + 1
           /\ floor_output_used' = [floor_output_used EXCEPT ![channel] = used.value = 1]
           /\ IF used.value = 1
              THEN /\ floor_outputs' = [floor_outputs EXCEPT ![channel] = 1 + curve.value]
                   /\ reader' = curve.reader
              ELSE /\ reader' = used.reader
                   /\ UNCHANGED floor_outputs
           /\ UNCHANGED stage
     /\ UNCHANGED <<given, mode_idx, submap, residue_outputs, step, pushed, loops>>

\* A mutant of Propagated: a floor at the angle is not passed on.
PropagatedFromMagnitude(used, k) ==
  IF used[k.magnitude] THEN [used EXCEPT ![k.angle] = TRUE] ELSE used

Propagated(used, k) ==
  IF used[k.angle] \/ used[k.magnitude]
  THEN [used EXCEPT ![k.angle] = TRUE, ![k.magnitude] = TRUE]
  ELSE used

\* One coupling after the other, each looked at once.
PropagateNonzero ==
  LET couplings == mapping(mode_idx).couplings
  IN /\ stage = "floors"
     /\ channel = AudioChannels
     /\ \/ /\ step < Len(couplings)
           /\ floor_output_used' = Propagated(floor_output_used, couplings[step + 1])
           /\ step' = step + 1
           /\ UNCHANGED stage
        \/ /\ step = Len(couplings)
           /\ stage' = "residues"
           /\ UNCHANGED <<floor_output_used, step>>
     /\ UNCHANGED <<given, mode_idx, channel, floor_outputs, submap,
                    residue_outputs, pushed, reader, loops>>

\* The channels of the next submap go to its residue.
StartResidue ==
  LET m == mapping(mode_idx)
      members == Members(m, submap)
  IN /\ stage = "residues"
     /\ rstage = "none"
     /\ submap \in DOMAIN m.submaps
     /\ BeginResidue(m.submaps[submap].residue,
          [j \in DOMAIN members |-> floor_output_used[members[j]]],
          decode_len(modes, mode_idx))
     /\ UNCHANGED <<given, mode_idx, floors, submap, residue_outputs, step,
                    pushed, stage, reader>>

DecodeResidue ==
  /\ stage = "residues"
  /\ ResidueNext
  /\ UNCHANGED <<modes, content, mode_idx, floors, submap, residue_outputs,
                 step, pushed, stage>>

FailResidue ==
  /\ stage = "residues"
  /\ rstage = "failed"
  /\ stage' = "failed"
  /\ UNCHANGED <<given, mode_idx, floors, submap, residue_outputs, step,
                 pushed, reader, loops>>

\* The vectors go to where the channels are.
FinishResidue ==
  LET members == Members(mapping(mode_idx), submap)
      result  == ResidueOutput(Cardinality(DOMAIN members), decode_len(modes, mode_idx))
  IN /\ stage = "residues"
     /\ rstage = "decoded"
     /\ residue_outputs' =
          [c \in Channels |->
             IF mapping(mode_idx).muxs[c] = submap
             THEN result[CHOOSE j \in DOMAIN members : members[j] = c]
             ELSE residue_outputs[c]]
     /\ submap' = submap + 1
     /\ rstage' = "none"
     /\ UNCHANGED <<given, mode_idx, floors, step, pushed, stage, reader,
                    residue, channel_used, out, classifications, pass,
                    partition_count, word, ch>>

PushResidues ==
  /\ stage = "residues"
  /\ rstage = "none"
  /\ submap \notin DOMAIN mapping(mode_idx).submaps
  /\ after_residue' = residue_outputs
  /\ step' = Len(mapping(mode_idx).couplings)
  /\ stage' = "coupling"
  /\ UNCHANGED <<given, mode_idx, floors, submap, residue_outputs,
                 after_envelope, reader, loops>>

\* Magnitude and angle, separated.
Uncouple(mag_val, ang_val) ==
  IF mag_val > 0
  THEN IF ang_val > 0 THEN <<mag_val, mag_val - ang_val>>
                      ELSE <<mag_val + ang_val, mag_val>>
  ELSE IF ang_val > 0 THEN <<mag_val, mag_val + ang_val>>
                      ELSE <<mag_val - ang_val, mag_val>>

\* A mutant of NextCoupling: they are undone in the order they were made in.
NextCouplingInOrder(couplings) == couplings[Len(couplings) - step + 1]

NextCoupling(couplings) == couplings[step]

\* The vectors of v before the coupling k.
UncoupleVectors(v, k) ==
  LET undone(p) == Uncouple(v[k.magnitude][p], v[k.angle][p])
  IN [v EXCEPT ![k.magnitude] = [p \in DOMAIN @ |-> undone(p)[1]],
               ![k.angle]     = [p \in DOMAIN @ |-> undone(p)[2]]]

InverseCoupling ==
  /\ stage = "coupling"
  /\ step > 0
  /\ residue_outputs' =
       UncoupleVectors(residue_outputs, NextCoupling(mapping(mode_idx).couplings))
  /\ step' = step - 1
  /\ UNCHANGED <<given, mode_idx, floors, submap, pushed, stage, reader, loops>>

\* Without a floor, the vector is left as it is.
DotProduct ==
  /\ stage = "coupling"
  /\ step = 0
  /\ residue_outputs' =
       [c \in Channels |->
          IF floor_output_used[c]
          THEN [p \in DOMAIN residue_outputs[c] |->
                  residue_outputs[c][p] * floor_outputs[c]]
          ELSE residue_outputs[c]]
  /\ after_envelope' = residue_outputs'
  /\ stage' = "done"
  /\ UNCHANGED <<given, mode_idx, floors, submap, step, after_residue, reader, loops>>

ANext ==
  \/ ReadHead
  \/ DecodeFloor
  \/ PropagateNonzero
  \/ StartResidue
  \/ DecodeResidue
  \/ FailResidue
  \/ FinishResidue
  \/ PushResidues
  \/ InverseCoupling
  \/ DotProduct

ASpec == AInit /\ [][ANext]_avars

-----------------------------------------------------------------------------
(* Properties                                                              *)

Lengths == {decode_len(modes, m) : m \in DOMAIN modes}
VectorOf(v) == DOMAIN v \in {0 .. len - 1 : len \in Lengths} /\ \A p \in DOMAIN v : v[p] \in Int

ATypeOK ==
  /\ packet \in [DOMAIN packet -> {0, 1}]
  /\ mode_idx \in {-1} \union DOMAIN modes
  /\ channel \in 0 .. AudioChannels
  /\ floor_output_used \in [Channels -> BOOLEAN]
  /\ floor_outputs \in [Channels -> Nat]
  /\ submap \in Nat
  /\ step \in Nat
  /\ stage \in {"head", "floors", "residues", "coupling", "done",
                "failed", "aborted", "undefined", "misplaced", "refused"}
  /\ rstage \in {"none", "pass", "classify", "partition", "decoded", "failed"}
  /\ stage \in {"coupling", "done"} => \A c \in Channels : VectorOf(residue_outputs[c])

Whole == content # NoContent /\ content.cut = 0

(***************************************************************************)
(* What an encoder was given is what comes out: through the choice of the  *)
(* mode, the order of classwords, partitions, passes and submaps in the    *)
(* packet, the three layouts, the coupled channels and the floors.         *)
(***************************************************************************)
DecodesWhatWasEncoded ==
  stage = "done" /\ Whole =>
    after_envelope =
      [c \in Channels |-> [p \in DOMAIN content.sent[c] |->
                             content.sent[c][p] * (1 + Curve(c))]]

(***************************************************************************)
(* Couplings may share channels, so they are undone in reverse: when the   *)
(* decoded residues are the encoder's vectors after all couplings, they    *)
(* become those after one coupling less, until the first is undone.        *)
(***************************************************************************)
CouplingIsUndone ==
  stage = "coupling" /\ content # NoContent
    /\ after_residue = content.coupled[Len(mapping(content.mode).couplings)]
    /\ mode_idx = content.mode
  => residue_outputs = content.coupled[step]

\* A residue whose partitions are made of whole vectors.
WholeVectors(r) ==
  \A c \in 0 .. r.num_classifications - 1 : \A p \in 0 .. Passes - 1 :
    LET b == r.books[c][p]
    IN b # NoBook => r.partition_size % Codebooks[b].dimensions = 0

\* A setup whose every mode can be decoded with: books of vectors that fill the
\* partitions, and for each submap one vector to decode.
Sound ==
  /\ \E n \in 1 .. 6 : Cardinality(DOMAIN modes) = 2 ^ n
  /\ \A i \in DOMAIN modes : \A s \in DOMAIN mapping(i).submaps :
       LET sub  == mapping(i).submaps[s]
           mine == {c \in Channels : mapping(i).muxs[c] = s}
       IN /\ sub.floor = 1
          /\ IF sub.residue.type = 2 THEN mine # {} ELSE Cardinality(mine) = 1
          /\ WholeVectors(sub.residue)
          /\ \A c \in DOMAIN sub.residue.books : \A p \in DOMAIN sub.residue.books[c] :
               LET b == sub.residue.books[c][p]
               IN b # NoBook => Codebooks[b].lookup_type # 0

(***************************************************************************)
(* Utils.hpp:338, "We allow to reach the end, i.e. this is not an error":  *)
(* with a sound setup parse_audio gives up, before its synthesis, only on  *)
(* what is not an audio packet, when PcmBuffer refuses its place, and when *)
(* floor 1 refuses its amplitudes.  An amplitude that is missing is 0 and  *)
(* its flag too: a floor is refused only in a packet that has its flag.    *)
(***************************************************************************)
RefusedForAReason ==
  /\ Sound /\ stage \in {"failed", "aborted", "undefined"} =>
       0 \in DOMAIN packet /\ packet[0] = 1
  /\ stage = "refused" =>
       LET flag == reader.asked - FloorBits - 1
       IN flag \in DOMAIN packet /\ packet[flag] = 1

IsMixed(m, c) == m.submaps[m.muxs[c]].residue.type = 2

Ends(k) == {k.magnitude, k.angle}

\* Channel c is neither mixed with others in a type 2 residue, nor coupled with
\* such a channel, nor is its coupling one that later ones share a channel with.
StandsAlone(m, c) ==
  /\ ~IsMixed(m, c)
  /\ \A i \in 1 .. Len(m.couplings) : c \in Ends(m.couplings[i]) =>
       /\ \A d \in Ends(m.couplings[i]) : ~IsMixed(m, d)
       /\ \A j \in i + 1 .. Len(m.couplings) :
            Ends(m.couplings[i]) \intersect Ends(m.couplings[j]) = {}

(***************************************************************************)
(* Where there is no floor there is no sound (ParseOggVorbis.hpp:479,      *)
(* "nothing, no audio. this is valid"), whatever else is in the packet and *)
(* whatever the other channels get.  It does not hold for a channel that   *)
(* shares its coupling with a later one: the floors are propagated in one  *)
(* pass and do not reach it, the residue of its partner does.              *)
(***************************************************************************)
SilenceIsKept ==
  stage = "done" =>
    \A c \in Channels :
      ~floor_output_used[c] /\ StandsAlone(mapping(mode_idx), c)
        => after_envelope[c] = Zeros(decode_len(modes, mode_idx))

(***************************************************************************)
(* ParseOggVorbis.hpp:696, "we want to limit by decode_len": no partition  *)
(* is written to at or behind limit_end, nor before limit_begin.           *)
(***************************************************************************)
WithinLimit == \A p \in Written : p \in limit_begin .. limit_end - 1

\* The reader is at the bit it was asked for, wherever it is asked to go on.
ReadsAreInOrder ==
  LET total == Cardinality(DOMAIN packet)
  IN \A num \in Widths : ReadsInOrder(reader, total, num)

=============================================================================
