----------------------------- MODULE PcmBuffer ------------------------------
(***************************************************************************)
(* VorbisStreamDecodeState and the order in which OggReader::_read_page    *)
(* and VorbisStream::parse_audio drive it: announce the position the       *)
(* packet should end at, slide the buffer for the packet's window, decode, *)
(* add the windowed block, hand over the samples that are complete.        *)
(*                                                                         *)
(* All channels go through the same steps with the same offsets, so one    *)
(* channel is kept.  A float in the buffer is the sum of block values; the *)
(* model keeps the set of the values it is a sum of, as <<age, index>>:    *)
(* age 0 is the block of the packet in progress, 1 the one before, and     *)
(* everything older is one value, Stale.  A value whose window weight is 0 *)
(* adds nothing and is not recorded.                                       *)
(***************************************************************************)
EXTENDS Lapping

CONSTANTS
  BufLen,       \* pcm_buffer[channel].size(), at least 5 * both block sizes
  MaxPos,       \* bound: no packet starts once this many samples are out
  MaxAnnounced, \* bound: no position above it is announced for a packet
  FlagsAgree    \* whether the window flags match the neighbouring blocks

ASSUME BufferAssumption ==
  /\ BufLen \in Nat /\ BufLen >= 5 * (Blocksize0 + Blocksize1)
  /\ MaxPos \in Nat /\ MaxAnnounced \in Nat
  /\ FlagsAgree \in BOOLEAN

VARIABLES
  pcm_buffer,                      \* per position, what was added up there
  pcm_offset,                      \* where the current block begins
  prev_second_half_window_offset,  \* where output begins, from pcm_offset
  prev_win_size, cur_win_size,
  abs_total_pos,                   \* samples handed over so far
  expected_ending_total_pos,       \* granule position of the packet or -1
  phase,      \* how far the packet in progress has come
  error,      \* which kind of CHECK ended the decoding
  window,     \* parse_audio's window, of the packet in progress
  last_win,   \* history: the window of the last packet handed over
  handed      \* history: what this packet gave to gotPcmData

offsets == <<pcm_offset, prev_second_half_window_offset>>
sizes   == <<prev_win_size, cur_win_size>>
history == <<last_win, handed>>
bvars   == <<pcm_buffer, offsets, sizes, abs_total_pos,
             expected_ending_total_pos, phase, error, window, history>>

-----------------------------------------------------------------------------
(* The contents of the buffer                                              *)

Positions == 0 .. BufLen - 1

Stale == <<2, 0>>

Values == ({0, 1} \X (0 .. Blocksize1 - 1)) \union {Stale}

\* A new packet begins: every value in the buffer is one packet older.
Older(v) == IF v[1] = 0 THEN <<1, v[2]>> ELSE Stale

Aged(buffer) == [i \in Positions |-> {Older(v) : v \in buffer[i]}]

\* A mutant of Moved: the memset is forgotten.
MovedNotCleared(dst, src, len, cleared) ==
  [i \in Positions |->
     IF i \in dst .. dst + len - 1 THEN pcm_buffer[src + (i - dst)] ELSE pcm_buffer[i]]

\* memmove of len values from src to dst, then memset 0 of the positions cleared.
Moved(dst, src, len, cleared) ==
  [i \in Positions |->
     IF i \in cleared THEN {}
     ELSE IF i \in dst .. dst + len - 1 THEN pcm_buffer[src + (i - dst)]
     ELSE pcm_buffer[i]]

-----------------------------------------------------------------------------
(* _advancePcmOffset: the arithmetic                                       *)

\* Where the next block would begin if nothing had to be moved.
NextPcmOffset(next) ==
  pcm_offset + 3 * (cur_win_size \div 4) - next \div 4

SecondHalf == pcm_offset + cur_win_size \div 2

\* A mutant of NeedsLeft: the next window is not counted.
NeedsLeftTooLate(next) == NextPcmOffset(next) >= BufLen

NeedsLeft(next)  == NextPcmOffset(next) + next >= BufLen
NeedsRight(next) == ~NeedsLeft(next) /\ NextPcmOffset(next) < 0

NeededOffset(next) == SecondHalf - NextPcmOffset(next)
\* A mutant of LeftTarget: a negative offset is not cut off.
LeftTargetNotCut(next) == NeededOffset(next)

LeftTarget(next)   == IF NeededOffset(next) < 0 THEN 0 ELSE NeededOffset(next)
ExtraRoom(next)    == -NextPcmOffset(next)

\* CHECK(next_pcm_offset > 0) for a shrinking window, then the two stores.
StoreOffsets(next, second_half, next_offset) ==
  IF next < cur_win_size /\ next_offset <= 0
  THEN /\ phase' = "stopped"
       /\ error' = "internal"
       /\ UNCHANGED <<offsets, sizes>>
  ELSE /\ prev_second_half_window_offset' = second_half - next_offset
       /\ pcm_offset' = next_offset
       /\ prev_win_size' = cur_win_size
       /\ cur_win_size' = next
       /\ phase' = "begun"
       /\ UNCHANGED error

MoveLeft(next) ==
  LET target == LeftTarget(next)
      half   == cur_win_size \div 2
  IN /\ NeedsLeft(next)
     /\ pcm_buffer' =
          Aged(Moved(target, SecondHalf, half, target + half .. BufLen - 1))
     /\ StoreOffsets(next, target,
          IF NeededOffset(next) < 0 THEN -NeededOffset(next) ELSE 0)

MoveRight(next) ==
  LET begin == pcm_offset + ExtraRoom(next)
  IN /\ NeedsRight(next)
     /\ pcm_buffer' =
          Aged(Moved(begin, pcm_offset, cur_win_size, 0 .. begin - 1))
     /\ StoreOffsets(next, SecondHalf + ExtraRoom(next), 0)

StayInPlace(next) ==
  /\ ~NeedsLeft(next)
  /\ ~NeedsRight(next)
  /\ pcm_buffer' = Aged(pcm_buffer)
  /\ StoreOffsets(next, SecondHalf, NextPcmOffset(next))

FirstBlock(next) ==
  /\ cur_win_size = 0
  /\ cur_win_size' = next
  /\ prev_win_size' = 0
  /\ phase' = "begun"
  /\ UNCHANGED <<pcm_buffer, offsets, error>>

-----------------------------------------------------------------------------
(* The operations                                                          *)

BInit ==
  /\ pcm_buffer = [i \in Positions |-> {}]
  /\ pcm_offset = 0 /\ prev_second_half_window_offset = 0
  /\ prev_win_size = 0 /\ cur_win_size = 0
  /\ abs_total_pos = 0 /\ expected_ending_total_pos = 0
  /\ phase = "idle" /\ error = "none"
  /\ window = NoWindow /\ last_win = NoWindow /\ handed = NoPcm

(***************************************************************************)
(* The position of the page for its last packet, -1 for the others.  Only  *)
(* its order relative to the positions before and after the packet         *)
(* matters, so the positions around those two are enough.                  *)
(***************************************************************************)
LongestLap == Blocksize1 \div 2
GranulePositions ==
  {-1} \union {p \in abs_total_pos - 1 .. abs_total_pos + LongestLap + 1 :
                 p >= 0 /\ p <= MaxAnnounced}

setExpectedEndingPos(pos) ==
  /\ phase = "idle"
  /\ abs_total_pos < MaxPos
  /\ expected_ending_total_pos' = pos
  /\ phase' = "set"
  /\ handed' = NoPcm
  /\ UNCHANGED <<pcm_buffer, offsets, sizes, abs_total_pos, error, window,
                 last_win>>

\* Some CHECK of the packet's type bit, floors or residues fails.
PacketFails ==
  /\ phase \in {"set", "begun"}
  /\ phase' = "stopped"
  /\ error' = "stream"
  /\ UNCHANGED <<pcm_buffer, offsets, sizes, abs_total_pos,
                 expected_ending_total_pos, window, history>>

advancePcmOffsetBeginAudioPacket(w) ==
  /\ phase = "set"
  /\ FlagsAgree /\ last_win # NoWindow => Follows(last_win, w)
  /\ window' = w
  /\ IF cur_win_size = 0
     THEN FirstBlock(WinSize(w))
     ELSE MoveLeft(WinSize(w)) \/ MoveRight(WinSize(w)) \/ StayInPlace(WinSize(w))
  /\ UNCHANGED <<abs_total_pos, expected_ending_total_pos, history>>

addPcmFrame ==
  /\ phase = "begun"
  /\ IF pcm_offset + WinSize(window) <= BufLen
     THEN /\ pcm_buffer' =
               [i \in Positions |->
                  pcm_buffer[i] \union Term(0, window, i - pcm_offset)]
          /\ phase' = "added"
          /\ UNCHANGED error
     ELSE /\ phase' = "stopped"
          /\ error' = "internal"
          /\ UNCHANGED pcm_buffer
  /\ UNCHANGED <<offsets, sizes, abs_total_pos, expected_ending_total_pos,
                 window, history>>

-----------------------------------------------------------------------------
(* forwardReadyPcm                                                         *)

OutputBegin == pcm_offset + prev_second_half_window_offset

ReadyFrames ==
  IF prev_win_size > 0
  THEN (pcm_offset + cur_win_size \div 2) - OutputBegin
  ELSE 0

\* The two CHECKs on the number of frames.
FramesConsistent ==
  prev_win_size > 0 =>
    /\ ReadyFrames > 0
    /\ ReadyFrames = prev_win_size \div 4 + cur_win_size \div 4

\* CHECK(abs_total_pos <= expected) and the CHECK(false) of the else branch.
PositionReachable ==
  expected_ending_total_pos >= 0 =>
    /\ abs_total_pos <= expected_ending_total_pos
    /\ abs_total_pos + ReadyFrames >= expected_ending_total_pos

\* A mutant of NumFrames: output ends one sample before the centre.
NumFramesOneShort ==
  IF expected_ending_total_pos >= 0
  THEN expected_ending_total_pos - abs_total_pos
  ELSE IF ReadyFrames > 1 THEN ReadyFrames - 1 ELSE ReadyFrames

NumFrames ==
  IF expected_ending_total_pos >= 0
  THEN expected_ending_total_pos - abs_total_pos
  ELSE ReadyFrames

\* A mutant of Frames: prev_second_half_window_offset is forgotten.
FramesOfBlock(n) == [k \in 1 .. n |-> pcm_buffer[pcm_offset + k - 1]]

Frames(n) == [k \in 1 .. n |-> pcm_buffer[OutputBegin + k - 1]]

Stop(reason) ==
  /\ phase' = "stopped"
  /\ error' = reason
  /\ UNCHANGED <<abs_total_pos, last_win>>

\* A mutant of Finish: the total is set to the announced position, also to -1.
FinishAnnounced(n) ==
  /\ abs_total_pos' = expected_ending_total_pos
  /\ phase' = "idle"
  /\ last_win' = window
  /\ UNCHANGED error

\* The end of the function: the total moves on, and a last CHECK compares it.
Finish(n) ==
  /\ abs_total_pos' = abs_total_pos + n
  /\ IF expected_ending_total_pos >= 0 /\ abs_total_pos' # expected_ending_total_pos
     THEN phase' = "stopped" /\ error' = "internal" /\ UNCHANGED last_win
     ELSE phase' = "idle" /\ last_win' = window /\ UNCHANGED error

\* callback_ok is what gotPcmData returns.
forwardReadyPcm(callback_ok) ==
  /\ phase = "added"
  /\ CASE ~FramesConsistent  -> Stop("internal") /\ UNCHANGED handed
       [] FramesConsistent /\ ~PositionReachable
                             -> Stop("stream") /\ UNCHANGED handed
       [] OTHER ->
          IF NumFrames = 0 THEN Finish(0) /\ UNCHANGED handed
          ELSE /\ handed' = [prev |-> last_win, cur |-> window,
                             frames |-> Frames(NumFrames)]
               /\ IF callback_ok THEN Finish(NumFrames) ELSE Stop("callback")
  /\ UNCHANGED <<pcm_buffer, offsets, sizes, expected_ending_total_pos, window>>

-----------------------------------------------------------------------------
BNext ==
  \/ \E pos \in GranulePositions : setExpectedEndingPos(pos)
  \/ PacketFails
  \/ \E w \in Shapes : advancePcmOffsetBeginAudioPacket(w)
  \/ addPcmFrame
  \/ \E callback_ok \in BOOLEAN : forwardReadyPcm(callback_ok)

BSpec == BInit /\ [][BNext]_bvars

-----------------------------------------------------------------------------
(* Properties                                                              *)

TypeOK ==
  /\ pcm_buffer \in [Positions -> SUBSET Values]
  /\ pcm_offset \in Positions
  /\ prev_second_half_window_offset \in Int
  /\ prev_second_half_window_offset >= -2048
  /\ prev_second_half_window_offset <= 2048
  /\ prev_win_size \in {0, Blocksize0, Blocksize1}
  /\ cur_win_size \in {0, Blocksize0, Blocksize1}
  /\ abs_total_pos \in Nat
  /\ expected_ending_total_pos \in Int
  /\ phase \in {"idle", "set", "begun", "added", "stopped"}
  /\ error \in {"none", "stream", "callback", "internal"}
  /\ window \in Shapes \union {NoWindow}
  /\ last_win \in Shapes \union {NoWindow}

(***************************************************************************)
(* The CHECKs that compare the buffer's own offsets (addPcmFrame's room,   *)
(* the two on num_frames, next_pcm_offset > 0 for a shrinking window, the  *)
(* last one on abs_total_pos) can fail for no sequence of blocks, flags    *)
(* and positions: only a bad stream or the listener ends the decoding.     *)
(***************************************************************************)
NoInternalCheckFails == error # "internal"

(***************************************************************************)
(* No unsigned sum in _advancePcmOffset and forwardReadyPcm is negative,   *)
(* and memmove, memset and the ranges handed to gotPcmData stay inside the *)
(* buffer, for whichever window comes next.                                *)
(***************************************************************************)
InBounds ==
  /\ phase = "set" /\ cur_win_size > 0 =>
       \A w \in Shapes :
         LET next == WinSize(w)
             half == cur_win_size \div 2
         IN /\ NextPcmOffset(next) + next >= 0
            /\ SecondHalf + half <= BufLen
            /\ NeedsLeft(next) => LeftTarget(next) \in 0 .. BufLen - half
            /\ NeedsRight(next) =>
                 pcm_offset + ExtraRoom(next) + cur_win_size <= BufLen
  /\ phase = "added" /\ prev_win_size > 0 =>
       /\ OutputBegin >= 0
       /\ OutputBegin + ReadyFrames <= BufLen

(***************************************************************************)
(* Whatever the flags say: a packet that is handed over completely moves   *)
(* the total by the distance between the two block centres, a packet with  *)
(* a granule position moves it exactly there, and that is never back and   *)
(* never further than the samples that are complete.                       *)
(***************************************************************************)
TotalFollowsPositions ==
  [][phase = "added" /\ phase' = "idle" =>
       LET moved == abs_total_pos' - abs_total_pos
           lap   == LapLength(last_win, window)
       IN IF expected_ending_total_pos < 0
          THEN moved = lap
          ELSE /\ moved \in 0 .. lap
               /\ abs_total_pos' = expected_ending_total_pos]_bvars

(***************************************************************************)
(* Perfect reconstruction: with flags that match the neighbouring blocks,  *)
(* every sample handed over is the sum of the two blocks that meet there,  *)
(* at positions whose windows cancel the aliasing, and of nothing else: no *)
(* value of an older block is left in the buffer to be added to it.        *)
(***************************************************************************)
Reconstruction ==
  \A k \in DOMAIN handed.frames :
    LET p      == k - 1
        values == handed.frames[k]
        w(age) == IF age = 1
                  THEN WeightAt(handed.prev, PrevIndex(handed.prev, p))
                  ELSE WeightAt(handed.cur, CurIndex(handed.prev, handed.cur, p))
    IN /\ values \subseteq {<<1, PrevIndex(handed.prev, p)>>,
                            <<0, CurIndex(handed.prev, handed.cur, p)>>}
       /\ values # {}
       /\ \A age \in {0, 1} :
            w(age) # Zero => \E v \in values : v[1] = age
       /\ Complementary(w(0), w(1))

Lapped == INSTANCE LappedOutput WITH
  last   <- last_win,
  total  <- abs_total_pos,
  ending <- expected_ending_total_pos,
  pcm    <- handed,
  closed <- phase = "stopped"

(***************************************************************************)
(* The buffer with its moves hands over what LappedOutput promises: the    *)
(* right number of samples, with the right contents, up to the announced   *)
(* position.                                                               *)
(***************************************************************************)
ImplementsLapping == Lapped!Spec

=============================================================================
