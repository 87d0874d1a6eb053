# ParseOggVorbis in TLA+

ParseOggVorbis (`src/src/*.hpp, *.cpp`) parses Ogg pages and decodes the Vorbis
streams in them. Around the decoder it has a callback interface that can dump or
collect every intermediate value, a small C interface, and Python code that runs
the decoder in-process and collects its output through a pipe. This directory
specifies the parts of it in which order, state or concurrency matter, checks
them with TLC and proves the main properties with TLAPS.

## 1. Inventory

### Components, their state and operations

| component | where | state | operations |
|---|---|---|---|
| Ogg reader | `ParseOggVorbis.hpp` 1385-1485 (`OggReader`) | `streams_` by serial number, `buffer_page_`, `packet_counts_`, the reader | `open_file`/`set_reader`, `read_next_page`, `_read_page`, `read_until_end`, `full_read` |
| Pages | 51-102 (`PageHeader`, `Page`) | header fields, segment table, data | `read_header`, `read`, checksum |
| Packets | 1278-1382 (`VorbisPacket`) | none of its own | `parse_id`, `parse_comment`, `parse_setup`, `parse_audio` |
| Stream | 1117-1275 (`VorbisStream`) | header, setup, decode state, packet counts | `parse_audio`, constructor and destructor |
| Decode state | 975-1115 (`VorbisStreamDecodeState`) | `pcm_buffer`, `pcm_offset`, `prev_second_half_window_offset`, two window sizes, `abs_total_pos`, `expected_ending_total_pos` | `init`, `advancePcmOffsetBeginAudioPacket`, `_advancePcmOffset`, `addPcmFrame`, `forwardReadyPcm`, `setExpectedEndingPos` |
| Windows | 816-887 (`VorbisModeNumber`) | a table of windows per mode | `precalc`, `getWindow` |
| Codebooks | 120-375 (`VorbisCodebook`) | entries with their codewords, the lookup table, the vector table | `parse`, `_assignCodewords`, `_buildEntriesLookup`, `_buildVQ`, `decodeScalar`, `decodeVector` |
| Floors | 377-620 (`VorbisFloor0`, `VorbisFloor1`) | points and their order, classes, multiplier | `parse`, `decode` |
| Residues, mappings | 622-814 | tables made at setup | `parse`, `VorbisResidue::decode` |
| Audio packet pipeline | 1128-1255 (`VorbisStream::parse_audio`) | per packet: floors, used channels, residue vectors | head, floors, propagation, residues, couplings, dot product |
| Bit reader, data readers | `Utils.hpp` 228-430 | position in a packet, a file or a memory block; bits left of the last byte; `reached_end_` | `readBits`, `read` |
| Decoder registry | `Callbacks.cpp` | `decoders`, `decoder_alias_map`, `decoder_unique_idx` under one mutex; thread-local output settings and filters | `register_decoder_ref`, `register_decoder_alias`, `unregister_decoder_ref`, `push_data_*`, `set_data_output_*` |
| C interface | `ParseOggVorbis.cpp` | a static error buffer | `ogg_vorbis_full_read_from_memory`, setters |
| Live extraction | `demo_live_extract.py`, `returnn_import.py` | per call: a pipe, a background thread, a condition, `finished` | `decode_ogg_vorbis`, `_BackgroundReader.run`, `wait` |
| Checksum, MDCT, program, scripts, libvorbis | `crctable.h`, `mdct.cpp`, `main.cpp`, `tests/` | | |

### How they interact

`OggReader` calls the packet functions in page order; these fill in the
`VorbisStream` of the page's serial number and call the user's
`ParseCallbacks` (`gotHeader`, `gotComments`, `gotSetup`, `gotPcmData`, `gotEof`).
Each returns a boolean, and `false`, like any failed `CHECK`, ends the whole
reading. A parsed setup registers the stream in the decoder registry under its
own address, with the addresses of its decode state and floors as aliases; from
there on every stage pushes what it computed (`push_data_*`) under such an
address. `~VorbisStream` unregisters. Several threads may each run a decoder:
they share the registry and its mutex, and, when they come from Python, the
static error buffer. In live extraction the pushed data goes through a `FILE`
that was opened on `/dev/fd/<write_fd>` into a pipe that a Python thread drains
while the caller is inside the C call.

### What is hard here

* **The overlap-add buffer.** Blocks of two sizes are added up in a buffer whose
  offsets mix signed and unsigned arithmetic. It moves its contents to the left
  when the next block does not fit and to the right when a long block would
  begin before position 0. Which case occurs depends on long sequences of block
  sizes; a value that should have been cleared shows only as a wrong sample.
* **Positions.** A page's granule position is about its last packet, cuts the
  last block short, and is the only thing in the input that is compared with
  what was decoded.
* **Interleaved streams and failures.** Pages of several streams come in any
  order, serial numbers are reused, any callback may refuse, any check may fail,
  and the decoders must be unregistered on every such path.
* **The registry.** Keys are addresses that the allocator reuses at once, and a
  pointer into the map is used after its mutex was released.
* **Live extraction.** Closing a decoder's file can block on a full pipe with the
  global mutex held; the end of the pipe races with `wait()`; a failed call
  puts its error into shared memory, then closes its file, then returns.
* **Audio packets.** A packet has no lengths or markers: every field begins where the
  one before it ended, and which fields there are depends on what was decoded
  before. One bit too many or too few, and everything after it is something else
  that is just as valid. Reading behind the end is not an error but gives zeros.
* **Residues.** Passes, classwords, partitions and channels are nested loops over one
  partition counter, written through three layouts into vectors of two lengths.
* **Coupling.** Couplings may share channels, are undone in reverse, and make
  channels without a floor decode a residue.
* **Codebooks.** Codewords are given out in the order of the entries, with one
  marker per length, in 32 bits that the longest codewords fill completely. What
  is decided there is whether the codebook is accepted at all.
* **Floors.** Unsigned differences to predictions, folded at the ends of a range;
  neighbours by setup order, lines by sorted order, cut at the end of a block.

`PROJECT.json` lists these as hazards at the lines where they bite, each with the
properties that would catch it.

## 2. Modules

| module | models |
|---|---|
| `VorbisWindow` | `VorbisModeNumber::precalc` and `getWindow`: which part of a block each window covers, and every table entry. A weight is the argument of the sine, as a fraction, since only equality and complements of weights matter |
| `Lapping` | which positions of two successive blocks meet in an output sample, from the sizes alone; the reference for everything below |
| `LappedOutput` | abstract: what one packet must hand over (how many samples, which sums, up to which position) |
| `PcmBuffer` | `VorbisStreamDecodeState` in full; implements `LappedOutput` |
| `StreamListener` | abstract: in which order a listener hears the callbacks of each stream, and that nothing follows a refusal |
| `OggReader` | `OggReader`, `Page`, `VorbisPacket` at the level of pages, packets and callbacks; implements `StreamListener` |
| `DecoderRegistry` | `Callbacks.cpp`'s maps with several threads |
| `LiveExtract` | the Python call, its background reader, the pipe, and what the C++ side shares between calls |
| `Codebook` | `VorbisCodebook`: codeword assignment, lookup table, `decodeScalar`, `lookup1_values` |
| `Floor1` | `VorbisFloor1`, with the neighbours, `render_point` and `render_line` of `Utils.hpp` |
| `BitReader` | `BitReader::readBits` over a `ConstDataReader`: which bits of a packet a read takes |
| `Residue` | `VorbisResidue::decode`, with `_buildVQ` and `decodeVector` of `VorbisCodebook`; extends `BitReader` |
| `AudioEncoder` | reference: what an encoder of the format makes of given vectors (not part of the program) |
| `AudioPacket` | `VorbisStream::parse_audio` from the packet's head to the dot product; composes `Residue` with modes, floors, submaps and couplings, and reads what `AudioEncoder` wrote |
| `PcmBufferProofs`, `OggReaderProofs`, `DecoderRegistryProofs`, `LiveExtractProofs`, `CodebookProofs`, `Floor1Proofs`, `AudioPacketProofs` | theorems; each extends the module it is about |
| `LoopProofs` | lemmas: loops as functions of their turns exist, and keep what each turn keeps |
| `MC*` | the instances for TLC |

### Correspondence

**PcmBuffer.** The variables have the names of the members. One packet takes four
steps, in the order in which `_read_page` and `parse_audio` make the calls:
`setExpectedEndingPos`, `advancePcmOffsetBeginAudioPacket` (with its three cases
`MoveLeft`, `MoveRight`, `StayInPlace`), `addPcmFrame`, `forwardReadyPcm`;
`PacketFails` is any other `CHECK` of `parse_audio`. Every `CHECK` on the
buffer's own offsets leads to `error = "internal"`, so that "this check cannot
fail" is a property and not a guard. A sample is the set of `<<age, index>>`
pairs that were added up there: age 0 is the current block, 1 the one before,
and everything older is `Stale`. `memmove` and `memset` act on these sets
exactly as on the floats. One channel stands for all (the loops over channels
do the same to each).

**OggReader.** `ReadPage` is the start of `_read_page`; each packet of the page
is then one action (`parse_id`, `parse_comment`, `parse_setup`, `AudioPacket`, or
a failing `BadHeaderPacket`/`BadAudioPacket`) and `EndPage`/`EndStream` its end,
with `streams_.erase` and the unregistration that `~VorbisStream` makes in it.
How many packets a page has is decided packet by packet (`final`), because
nothing that happens before depends on it. `Destroy` is the reader's destructor.
The code looks neither at `page_sequence_num` nor at the continued flag, so a lost, repeated
or reordered page is to it, and in the model, one more page; `PagesEndAtTheirPosition`
says what is still noticed.

**DecoderRegistry.** One action per critical section, and one per use of an
`Info` outside of it. Addresses are drawn from a finite set of free ones when a
stream or a part of it is created and are free again when it is destroyed, so
the model reuses them as aggressively as any allocator can. The thread's output and
filter are the number of the call that set them, 0 if there is none;
`register_decoder_ref` gives both to the decoder and resets them.

**LiveExtract.** The pipe and the `FILE`'s buffer are counters of units, with
capacities. A call that blocks in a `write` holds whatever mutex the code holds
there: none in `push_data_T`, the registry's in `unregister_decoder_ref`, whose
`erase` runs `fclose`. `wait()` and `run()` are split where their lock is taken
or given back. A stream is destroyed in either of two places: by `streams_.erase`
after its last page, from `decoding`, after which the call goes on (`parsed`); or by
`~OggReader`, from `leaving`. The order of a call's end is that of
`ogg_vorbis_full_read_from_memory`: `StoreError` or `EndOfInput` fixes the result
while the local `OggReader` still has the stream and its open file; `Unregister` and
`Closed` follow, or `LeaveUnregistered` when nothing is registered; only then Python
goes on, with `wait()` or with `Raise`, which reads `error_buf`. Closing may block in
between, on the mutex or on the pipe, so another call's error may come in between too.

**Codebook.** `AssignCodeword` is one turn of the loop in `_assignCodewords`; the
length is chosen there, since what is assigned does not depend on the lengths
read after it. `Turn`, `Advanced` and `Below` are its two inner loops in closed
form. `entries_lookup_` is the table that `_buildEntriesLookup` makes, as a
recursive function over the tree; a word of full length is where its `assert` would
fail. Words are `WordLen` bits wide. Shifts by the width of a word are undefined
in C++ and may have either result.

**Floor1.** Each turn of the two loops in `decode` is a step: `SynthesizeAmplitude`
(or `RefusePrediction`, its `CHECK`), then `DrawLine` or `SkipPoint`. Assertions
lead to `aborted` and `CHECK`s to `refused`, so that neither is assumed to hold.
Setups may have several points at one place, which `parse` accepts. Amplitudes
are words and wrap.

**BitReader.** A bit is named by its place in the packet. A read is split as the code
splits it: what is left of the last byte, words of 8, 4, 2 and 1 bytes in turn, and
some bits of a new byte (`Parts`). `PlacesOf` says where each bit of the result comes
from and `ReaderAfter` what the reader's fields become; `asked` is history.

**Residue.** `Classify`, `DecodePartition` and `RefuseVector` are the bodies of the
inner loops, with the partition counter going up where the code has it, per channel.
`RefuseVector` is the failing `CHECK` on a book of scalars, which needs a vector to be
asked for: in a partition shorter than one vector, layout 0 asks for none (`NoVectors`).
`Place` has the three layouts. The values are integers in place of floats, and
all codewords of a book have one length (`Codebook` has the others), so that what is
compared is the order of the reads and where their values go. Writes behind a vector
are kept, at their place, so that `WithinLimit` is a property and not a guard.

**AudioPacket.** `ReadHead` is the packet type, the mode and the window flags;
`DecodeFloor` one channel; `PropagateNonzero` one coupling after the other, each looked
at once, so that a floor does not reach a channel through a later coupling;
`StartResidue`, `DecodeResidue`, `FinishResidue` one submap; `InverseCoupling` one
coupling; `DotProduct` the last loop. A floor's curve is one number of `FloorBits`
bits, and `BadCurves` are those that stand for amplitudes which
`VorbisFloor1::decode` refuses, by its `CHECK` on a prediction or on a level (`Floor1`
says which and has the rest); the packet is then given up in `refused`. After the head
`advancePcmOffsetBeginAudioPacket` may fail, and leads to `misplaced` (`PcmBuffer` says
when). `readBits(0)`, which a stream with a single mode asks
for, leads to `aborted`, and a mode number behind the last mode, which is not
checked, to `undefined`. What `parse` lets pass is the assumption on setups
(`ParsedResidue`, `ParsedMapping`). It does not check whether the books it names
exist; here they do. What is pushed to the callbacks between the stages is
`after_residue` and `after_envelope`; the MDCT and `PcmBuffer` come next.

### External code

The allocator (free addresses), stdio and the pipe (counters), the `CPython`
condition (lock, sleep, wake-up), and the user's callbacks (any boolean) are
modelled by how the code uses them. The encoder in `AudioEncoder` and in the first part
of `AudioPacket` is the counterpart of the decoder, written from the format's side.
It need not be a good one: it picks the lowest class and entries that will do.

## 3. Runs

| run | question | bounds, and why they are enough |
|---|---|---|
| `pcm_buffer_long` | Over long streams, is every sample the right sum, does no internal check fail, and does the buffer implement `LappedOutput`? | blocks 4 and 16 (a ratio over 3 is what makes the buffer move right); a buffer of 100 and 96 samples of output: it fills up and moves left at every possible phase of both block sizes |
| `pcm_buffer_near` | The same at the buffer's end, with all accesses in bounds | blocks 4 and 8, buffer 60, 64 samples: the branch `needed_offset < 0` is reached, which 4 and 16 never do |
| `pcm_buffer_positions` | What do granule positions and contradictory window flags do? | every position from one before the reachable ones to one after, at every packet, until 6 samples are out |
| `ogg_reader` | Order of callbacks, registration and positions with two interleaved streams | 5 pages, 8 packets: one stream gets through its three headers and two audio packets while the other interleaves, ends and begins again |
| `decoder_registry` | Pointers, aliases and outputs with two threads | 5 addresses for two threads that need 3 each, so the second stream of a thread lies on addresses of the first of the other; 4 decodes, 3 settings of outputs or filters, which is a pair for one decode and one more; symmetric in threads and addresses |
| `live_extract` | Is the result complete, is everything released, does every call end? | two calls, pipe of 1 and buffer of 2 units with 4 pushed: both fill up, and the close must flush twice; each may end before, in and after its stream, with an error or without |
| `live_extract_errors` | `returnn_import.py` calls one global library object safe: does a failing call raise its own error? | the same instance; **violated** |
| `codebook` | Are codewords prefix free, is a codebook accepted exactly when its lengths fill the tree, does the table decode as the codewords do, is `lookup1_values` the root? | words of 5 bits; every sequence of up to 8 lengths from 1 to 5, one entry unused: includes full trees of all shapes, trees filled in any order, and codewords of the full length, which wrap |
| `codebook_wide` | The comment on `lookup1_values` for as many dimensions as a word has bits | the same word, 5 dimensions, 4 entries; **violated** |
| `floor1` | Do valid amplitudes stay in range, are all amplitudes reachable, is what an encoder makes always decoded, is the curve the interpolation of its points? | a table of 8 gives ranges 8, 4, 3 and 2 (the third rounded up as 86 is); words of 64 values, in which amplitudes of up to 33 make heights and products wrap; all places of up to 2 points between the ends, equal ones included; blocks that end before and after the last point; amplitudes beyond the range |
| `audio_packet` | Is what was encoded decoded, is a packet given up only for the reasons there are, do channels without a floor stay silent, is nothing written outside, are bits read in order? | 3 channels, blocks of 4 and 8, 2 passes, nine setups: each residue type, alone, shared and behind another, classes in one and two digits, couplings that share a channel in both ways, submaps in another order than their channels, three modes, one mode, partitions shorter than a vector, and setups the decoder refuses. A floor is a field of 2 bits, of whose four values one is refused. Packets of six sets of vectors with every set of used channels, whole and without their last 1 or 3 bytes, and over a hundred that no encoder made: short ones, and ones that go on into the residues, one of them with a floor that does not reach a channel through two couplings. Reads of 1, 8, 33 and 70 bits: in a byte, a byte, and through each word size |
| `residue_channels` | The comment that `limit_end` limits what is written, with several channels | 3 channels in one residue of type 1 with 2 partitions; **violated** |

All runs with `CHECK_DEADLOCK FALSE` model programs that really stop: a decode
ends, a reader reaches the end of its input, a bounded history is used up.

`live_extract_errors` shows: call A fails and its message is in the static `error_buf`
of `ogg_vorbis_full_read_from_memory`; before Python has copied the string, call B
fails in another thread and overwrites it; A raises B's message.

In `codebook_wide`, 2 to the power of 5 is 0 in a word of 5 bits, and 0 is not above the
number of entries: `lookup1_values` counts 2, though 2^5 is more than 4 entries. In the
code that takes 32 or more dimensions.

In `residue_channels`, `++partition_count` is inside of the loop over the channels. The
channels of one partition round are then not at the same partition: each gets the one
after the channel before it. With three channels and a classword of two, the third
channel begins at partition 2 of 2 and is written to behind its end. For two or more
channels in one residue of type 0 or 1, what is decoded is not what was encoded; type
2 has one vector and is not concerned, and that is what encoders use for coupled
channels. `DecodesWhatWasEncoded` therefore holds for setups with one channel for each
submap of type 0 or 1 (`OneVectorEach`, which the proof has as its hypothesis), and the
setups of `audio_packet` have no other.

**Fairness.** Only `LiveExtract` has a liveness property. Its weak fairness is per
caller and per background thread: the operating system runs both, and `cffi`
releases the interpreter lock during the call. Nothing forces a caller to start a
call. A lock that is free and wanted by one thread only is eventually taken; the
model needs no strong fairness because each caller's use of the registry mutex is
bounded.

**Mutants.** Next to the definition it changes, each module has the mutants used to
test its properties (`NeedsLeftTooLate`, `MovedNotCleared`, `ClassReversed`, ...):
a mistake that could be made in that line of code, and that the property it is
paired with in `PROJECT.json` catches.

## 4. Proofs

All proofs hold for every value of the constants under the assumptions named in
the modules:

* block sizes are multiples of four from 4 to 8192, the short one not above the long one
  (`BlocksizeAssumption`), and the buffer has at least five times both blocks
  (`BufferAssumption`);
* `NoAddress`, `NoSerial`, `Nobody` and `NoWindow` are no addresses, serials, callers or
  windows; the pipe and the `FILE`'s buffer have a size that is not 0 (`ExtractAssumption`);
* the dB table is shorter than a word has values, and so are the places of a floor's
  points (`FloorAssumption`);
* a word has at least two bits, and a codebook fewer entries than there are words
  (`CodebookAssumption`);
* the refused values of a floor's field are numbers (`BadCurves`, any set of them);
* setups are as `parse` leaves them (`AudioAssumption`, `ResidueAssumption`,
  `VectorsAssumption`), and the vectors a packet was made from are related by
  `CoupleVectors` (`PacketsAssumption`); packets that no encoder made are any whole bytes.

### The overlap-add buffer

* **`PcmBufferProofs`**, offsets: type correctness, `NoInternalCheckFails`, `InBounds`,
  `TotalFollowsPositions`. The properties are not inductive: whether a block fits
  depends on where the block before was put. The invariant `IInv` adds, per
  phase, where the current block lies relative to the buffer's ends and to the
  start of the output, and that the first block was never moved.
* **`PcmBufferProofs`**, contents: `LapCancels` is about the windows alone. For two successive
  windows with matching flags, the two table positions that meet in any sample of the
  lap are complementary (the squares of the two sines add up to one), which is what
  makes the aliasing of the MDCT cancel. `Reconstructs` (`Reconstruction`) and
  `BufferImplementsLapping` (`ImplementsLapping`) follow the contents through the
  moves. `RInv` is `IInv` with, per phase, what every position from where output begins
  to the end of the buffer holds: nothing but the second half of the last block between
  packets, the same one packet older after the moves, and with the new block added to
  it. What lies before is never read again, which is why nothing can be said of it and
  why a clear that is missing there does no harm. Both theorems have the hypothesis
  `FlagsAgree`: the window flags of a block say truly which sizes its neighbours have.
  Without it two slopes of different lengths meet and there is no lap to speak of.
  The code does not compare the flags; `pcm_buffer_positions` runs without the
  hypothesis, and so do the theorems about offsets.

### Streams, registry and live extraction

* **`OggReaderProofs`**: type correctness, `PushesAreRegistered`,
  `DecodersHaveStreams`, `PagesEndAtTheirPosition`, and the refinement
  `ImplementsListener`. `RInv` adds that the page in progress has an open stream
  with at least one packet once it is done, and that no stream has output before
  its second audio packet. The refinement maps a stream's counters to the callback
  it heard last; a failing step is `Finish` or `Refuse`, an audio packet without
  samples a stutter.
* **`DecoderRegistryProofs`**: `PointersStayValid`, `AliasesAreLive`,
  `DecodersAreDistinct`, `NothingIsLeft`. `DInv` adds who owns which address:
  memory of different threads does not overlap, and every key and alias of the
  maps is memory of the thread that entered it, at a stage of its decode where it
  may be there. That no thread ever erases what another points to follows from
  the ownership of addresses, not from the mutex.
* **`LiveExtractProofs`**: `LTypeOK`, `EverythingIsCollected`, `CallsReleaseTheirs`, for any
  number of callers. `LInv` derives everything from where a caller is: which ends of
  its pipe are open, which locks it holds, whether anything can be in the `FILE`'s
  buffer (`LocksInv`); which result the call has (`ResultInv`); that what was pushed is in the buffer, in the pipe or collected
  (`DataInv`); and that a reader which has seen the end saw it with no write end open
  and nothing in the pipe, after which nothing can be written (`ReaderInv`). In `leaving`,
  where the error is stored, the file may be open or not: `NothingIsKept` rests on there
  being no way from there to Python but through `Closed`, or with no file at all.

### Audio packets

* **`Floor1Proofs`**: `AmplitudesInRange` and `EveryAmplitudeIsReached` from `FInv`, that
  places and amplitudes are natural numbers. The argument is that a rendered
  point lies between its two ends even when the product in it wraps, so that a
  prediction is in the range if the points before are, and then a case for each
  side and fold of a value. `FTypeOK`, `ValidIsDecoded` and `CurveIsInterpolated` follow
  from `CInv`, which adds that the order of the points sorts their places, that step 1
  has flagged the points it was given and their neighbours and no others, and that the
  curve is right up to the last point a line was drawn to (`CurveInv`). For a line, the
  error that `render_line` carries from pixel to pixel is the remainder of the division
  that the interpolation makes at once, also where the heights wrap. The last two
  properties have `Distinct` as their own hypothesis: with two points at one place,
  which `parse` accepts, a line of no length is drawn.
* **`AudioPacketProofs`** begins with the bit reader and has seven invariants, each for its
  theorem.
  * `ReadsAreOrdered`: from any well-formed reader, a read of any number of bits takes
    exactly the bits that follow those asked for so far, in order; bits behind the end
    are missing and `reached_end_` says so. `WellFormed` ties the bytes taken, the bytes
    left and the bits left of the last byte to the number of bits asked for. One lemma
    for each word size shows what its loop leaves.
  * `ReadsStayInOrder`, `ClassesAreAlwaysThere`, `StaysWithinLimit`: `ReadInvariant` has
    four parts: the setup is one of `Setups`, the reader is well-formed, the mode is known
    where it is used, and `LoopsOK`: in each place of the residue's loops, pass, word,
    channel and counter are in their ranges, the counter at most the number of partitions
    plus the number of channels. So the counter may be ahead, and the argument is that
    `classifications` has room for as many channels as a classword has classes, and one
    (`FewChannels`). That nothing is written outside needs more: `OneVectorEach`, which
    the setups in `audio_packet` satisfy, but for the one whose partitions are shorter than
    a vector, and the one in `residue_channels` does not.
  * `UncoupleCouple`, that the four cases of the decoder are the inverse of coupling for all
    integers, and `CouplingsAreUndone`. `CouplingInvariant` adds that the step is one of
    the mapping's couplings and that what an encoder was given has a vector for each
    channel.
  * `SilentChannelsStaySilent` (`SilenceIsKept`): `SilenceInvariant` follows a channel
    without a floor through every stage. After the propagation, a coupling that shares no
    channel with a later one has the same flag at both ends (`PropagationInv`); a vector
    that is not used is not written (`LoopsSilent`); it reaches its channel
    (`ResiduesSilent`); and each coupling that is undone has two silent ends or none
    (`CouplingsSilent`). For a coupling that does share a channel with a later one the
    second part is false, and so is the property: TLC finds a packet whose floor is at
    the far end of two couplings. `StandsAlone` leaves these channels out.
  * `NothingElseIsRefused` (`RefusedForAReason`): with a sound setup nothing up to the
    synthesis gives a packet up but that it is not audio, that `PcmBuffer` refuses its place,
    and that floor 1 refuses its amplitudes; that a packet is short is no reason. Sound is
    what the other refusals need: a number of modes that is a power of two (a field of n bits
    is below 2 to the power of n, `ValueBound`), floors of type 1, a channel for each submap,
    books with vectors. To these `Sound` adds what keeps the writes inside their vectors:
    whole vectors in a partition, and one vector for each submap. The second part needs no
    sound setup: a floor is refused only in a packet that has its flag (`FlagIsThere`), so
    never behind the packet's end. `AnyInvariant` has these parts, and that the submap is one
    of the mapping's wherever its residue is decoded.
  * `AudioTypes` (`ATypeOK`): `TypeInvariant` adds that the vectors in each layout have the
    lengths of their channels and hold numbers (`OutOK`, `OutputsOK`).
  * `EncodedIsDecoded` (`DecodesWhatWasEncoded`): for every setup, every content that can be
    encoded with it, and any number of modes, submaps, channels, couplings and passes, the
    vectors that come out are those that the encoder was given, each multiplied by its
    channel's floor. The hypothesis is `OneVectorEach`: type 2, or one channel for each
    submap, and partitions of whole vectors. `residue_channels` is why the first is needed.
    The argument has four layers.
    * Bits: `Holds(a, s)` says that the packet has the bits s at place a. What is made of
      parts has each part behind those before it (`HoldsJoined`), and a reader that was asked
      for a bits gets the field or the entry that is there (`FieldIsRead`, `CodewordIsRead`).
    * One partition: the divisions of `decode` take the digits of a classword apart
      (`ClassesBack`); the entries of a partition, pass after pass, leave nothing of it
      (`PartitionIsCoded`); and in both layouts the component that is added to a place is
      the one the encoder took from there (`PartitionIsAdded`).
    * One vector: `Goes` says, for each place of the loops of `decode`, which classes are
      known, how many bits were asked for, and that a partition's places hold what was
      sent less what the passes to come will add (`RestAt`). `ResidueFollows` shows that every
      step keeps it; at the end nothing is left, and the vector is the one that was sent.
    * The packet: `Tracks` says for each stage of `parse_audio` where in the packet it is,
      which floors it knows, that the used channels are those the encoder counted as
      decoded, and which vectors it has. There is one lemma for each action (`HeadTracks` to
      `DotTracks`). `DecodeInvariant` joins it with `TypeInvariant`, `CouplingInvariant` and
      the parts of the others that it needs.

    Loops of the model are functions f with f[k] made from f[k - 1]. That such functions exist,
    and keep what each turn keeps, is in `LoopProofs`: a set of numbers that has 0, and with each
    number below n the next, has all up to n.

### Codebooks

* **`CodebookProofs`**: `CTypeOK`, `PrefixFree`, `VerdictIsRight`, `FastIsSlow`, `GreatestRoot`, for
  words of any number of bits (two or more), any number of entries and lengths in any order. None
  of the first four is inductive: the markers say nothing by themselves, and an entry is compared with markers
  of other lengths. `IsAssigned` says what the markers are: for each depth of the tree the
  leftmost node that is free (`MarksOK`: the left half of the free node above it, or a
  right half further to the left). It adds that nothing below an entry's node is free
  (`IsTaken`), that every word is free or below an entry, and that the codewords' shares
  and the free blocks, one for each odd marker, make up the whole tree. `Takes` is what the
  two inner loops do to these nodes, and `TakeStep` shows that they do it; the rest is
  about `Takes` alone (`TakenStays`, `NewIsApart`, `FreeOrTaken`, `SumStays`).
  * The marker of the full length wraps behind the last word. Taken once more it leaves
    every marker one too far (`Wrapped`), a state in which no check has failed yet; it is the
    second half of the invariant. Each further entry fails then (`WrappedFails`), and so does
    the last check (`WrappedIsNotFull`). This is why the properties except a codeword of full
    length, and why the code accepts no book with one.
  * `MissedAborts` and `AbortsMissed`: the recursion of `_buildEntriesLookup` gets to its
    assertion exactly if some word begins with no codeword shorter than a word. In a full
    tree that is the case if and only if a codeword has the full length.
  * `DecodesAsCodewords` (`FastIsSlow`): in an accepted codebook nothing is free, so every
    string of bits begins with exactly one codeword (`AssignedIsWhole`), which is what
    `decodeScalar_slow` finds. The walk of `decodeScalar_fast` (`WalkEnds`) is after each bit
    where the table has the subtree of the bits so far (`Inside`): that of a word which is no
    codeword is a branch, and one more bit leads to the subtree on that side (`Descends`);
    that of a codeword is its leaf, where the walk stays.
  * `RootIsGreatest` (`GreatestRoot`): `powIntExpIs` shows that squaring and multiplying words gives
    the power modulo the word, for all bases and exponents. The theorem has the hypothesis
    `NoWrap`: no power that `lookup1_values` compares goes beyond a word. The constants of
    `codebook` satisfy it; so does the code, with its words of 32 bits and fewer than 2^24
    entries, for any book of at most 20 dimensions. It is false in `codebook_wide`, and so is the
    property.

### Only model-checked

* `CallsEnd`: liveness.
* The three violated properties.

## 5. Not modelled

* MDCT, floor 0 (which the code refuses to decode), dequantisation, the dB table and
  window values as numbers: floating point.
* The checksum and the bytes of a page: a mismatch is one of the reasons of `ReadBadPage`.
  `FileReader` and `CallbackDataReader`, whose reads can fail at any place.
* The fields of the header packets. What they must satisfy for the later stages is an
  assumption of `AudioPacket`, `Floor1` and `PcmBuffer`, so the models say nothing of
  headers that name books, floors or residues that are not there, and of residues
  whose partitions are not made of whole vectors only what happens to those shorter than
  a vector.
* Residues with more channels than a classword has classes and one, where the
  classifications are read outside of their vector. Packets whose mode number is
  behind the last mode end in `undefined`.
* A submap of type 2 none of whose channels is used: an encoder writes nothing for it, but
  `VorbisResidue::decode` always decodes the one vector. Such packets are not among
  those an encoder makes, and are among those of any bits.
* Of codebooks: the run lengths of ordered ones. The model has entries of any lengths in
  any order, and so the ordered ones too, but not the loop that reads them. Of
  floor 1: which book an amplitude is read with. In `AudioPacket`, which amplitudes are
  refused is an arbitrary set, and in `Floor1` it is what the code computes; the two are not
  composed.
* What a data filter does to a push, output to stdout, the record format of the output
  file, and `CallbacksOutputReader` on the other side of it.
* The reader thread and the descriptors of a failed live extraction, which stay.
* `main.cpp`, build and comparison scripts, the vendored libvorbis.

## 6. What could be added

1. `Setup`: the fields of the header packets, with the index checks the later stages rely on,
   as an abstract promise that the assumption of `AudioPacket` instantiates.
2. `Page` over a byte source that fails or ends anywhere.
3. One model of `AudioPacket`, the MDCT as a linear map and `PcmBuffer` for each channel.
4. Proofs: `DecodesWhatWasEncoded` without `OneVectorEach` is false for this code. With the
   counter moved out of the loop over the channels it should hold for any number of them;
   `Goes` would speak of each channel's vector.
