-------------------------- MODULE PcmBufferProofs ---------------------------
(***************************************************************************)
(* Proofs about PcmBuffer for all block sizes, buffer lengths, windows,    *)
(* flags and positions: type correctness, the CHECKs that cannot fail, the *)
(* accesses that stay in the buffer, the number of samples, and in the     *)
(* last part that the samples are the right ones.                          *)
(*                                                                         *)
(* The first part is about the offsets only.  With everything measured in  *)
(* quarters of blocks, each of the three ways to advance leaves the output *)
(* (next - cur) / 4 after the new offset, wherever the data was moved to,  *)
(* and the next window fits behind the new offset.                         *)
(***************************************************************************)
EXTENDS PcmBuffer, TLAPS

SizeOf(w) == IF w = NoWindow THEN 0 ELSE WinSize(w)

Sizes == {0, Blocksize0, Blocksize1}

ControlInv ==
  /\ phase \in {"idle", "set", "begun", "added", "stopped"}
  /\ error \in {"none", "stream", "callback"}
  /\ window \in Shapes \union {NoWindow}
  /\ last_win \in Shapes \union {NoWindow}
  /\ abs_total_pos \in Nat
  /\ expected_ending_total_pos \in Int
  /\ phase \in {"idle", "set"} => cur_win_size = SizeOf(last_win)
  /\ phase \in {"begun", "added"} =>
       /\ window \in Shapes
       /\ cur_win_size = WinSize(window)
       /\ prev_win_size = SizeOf(last_win)

OffsetInv ==
  /\ prev_win_size \in Sizes
  /\ cur_win_size \in Sizes
  /\ pcm_offset \in Nat
  /\ prev_second_half_window_offset \in Int
  /\ pcm_offset + cur_win_size <= BufLen
  /\ cur_win_size = 0 => pcm_offset = 0 /\ prev_win_size = 0
  /\ prev_win_size = 0 => prev_second_half_window_offset = 0
  /\ prev_win_size > 0 =>
       /\ prev_second_half_window_offset =
            cur_win_size \div 4 - prev_win_size \div 4
       /\ pcm_offset + prev_second_half_window_offset >= 0

IInv == ControlInv /\ OffsetInv

-----------------------------------------------------------------------------
(* Block sizes in quarters                                                 *)

\* A block size is a multiple of four, at most 8192; two of them fit the buffer.
LEMMA SizeFacts ==
  ASSUME NEW x \in Sizes
  PROVE  /\ x \in Nat /\ x <= 8192
         /\ x \div 4 \in Nat /\ x \div 2 \in Nat
         /\ x = 4 * (x \div 4) /\ x \div 2 = 2 * (x \div 4)
         /\ x \div 4 <= 2048
         /\ 5 * x <= BufLen
         /\ BufLen \in Nat /\ BufLen >= 40
<1>a. /\ Blocksize0 \in Nat /\ Blocksize0 <= 8192 /\ Blocksize0 % 4 = 0
      /\ Blocksize1 \in Nat /\ Blocksize1 <= 8192 /\ Blocksize1 % 4 = 0
  BY BlocksizeAssumption
<1>b. x = 0 \/ x = Blocksize0 \/ x = Blocksize1
  BY DEF Sizes
<1>1. /\ x \in Nat /\ x <= 8192 /\ x % 4 = 0
  BY <1>a, <1>b
<1>2. /\ BufLen \in Nat /\ BufLen >= 40
      /\ 5 * x <= BufLen
  <2>1. BufLen \in Nat /\ BufLen >= 5 * (Blocksize0 + Blocksize1)
    BY BufferAssumption
  <2>2. Blocksize0 >= 4 /\ Blocksize1 >= 4
    BY BlocksizeAssumption
  <2> QED
    BY <1>a, <1>b, <2>1, <2>2
<1>3. /\ x \div 4 \in Nat /\ x = 4 * (x \div 4)
  BY <1>1
<1>4. /\ x \div 2 \in Nat /\ x \div 2 = 2 * (x \div 4)
  BY <1>1
<1> QED
  BY <1>1, <1>2, <1>3, <1>4

\* A window has one of the two block sizes, and neither is zero.
LEMMA WindowSize ==
  ASSUME NEW w \in Shapes
  PROVE  /\ WinSize(w) \in {Blocksize0, Blocksize1}
         /\ WinSize(w) \in Sizes
         /\ WinSize(w) > 0
         /\ WinSize(w) <= Blocksize1
         /\ SizeOf(w) = WinSize(w)
  BY BlocksizeAssumption, NoWindowAssumption, SMTT(30)
  DEF Shapes, Shape, WinSize, BlocksizeOf, Sizes, SizeOf

-----------------------------------------------------------------------------
(* _advancePcmOffset                                                       *)

\* What each of the three ways to advance leaves in the two offsets.
AdvancedTo(next) ==
  /\ prev_win_size' = cur_win_size
  /\ cur_win_size' = next
  /\ phase' = "begun"
  /\ error' = error
  /\ pcm_offset' \in Nat
  /\ pcm_offset' + next <= BufLen
  /\ prev_second_half_window_offset' = next \div 4 - cur_win_size \div 4
  /\ pcm_offset' + prev_second_half_window_offset' >= 0

\* The data moves to the left: the new window begins near the buffer's start.
LEMMA LeftAdvances ==
  ASSUME OffsetInv, cur_win_size > 0,
         NEW next \in Sizes, next > 0, MoveLeft(next)
  PROVE  AdvancedTo(next)
<1>1. /\ cur_win_size \in Sizes /\ pcm_offset \in Nat
  BY DEF OffsetInv
<1>2. NeededOffset(next) = next \div 4 - cur_win_size \div 4
  BY <1>1, SizeFacts DEF NeededOffset, NextPcmOffset, SecondHalf
<1>3. CASE NeededOffset(next) < 0
  <2>1. LeftTarget(next) = 0
    BY <1>3 DEF LeftTarget
  <2>2. StoreOffsets(next, 0, cur_win_size \div 4 - next \div 4)
    BY <1>1, <1>2, <1>3, <2>1, SizeFacts DEF MoveLeft
  <2>3. cur_win_size \div 4 - next \div 4 > 0
    BY <1>1, <1>2, <1>3, SizeFacts
  <2> QED
    BY <1>1, <2>2, <2>3, SizeFacts DEF StoreOffsets, AdvancedTo
<1>4. CASE ~(NeededOffset(next) < 0)
  <2>1. LeftTarget(next) = next \div 4 - cur_win_size \div 4
    BY <1>2, <1>4 DEF LeftTarget
  <2>2. StoreOffsets(next, next \div 4 - cur_win_size \div 4, 0)
    BY <1>4, <2>1 DEF MoveLeft
  <2>3. ~(next < cur_win_size)
    BY <1>1, <1>2, <1>4, SizeFacts
  <2> QED
    BY <1>1, <1>2, <1>4, <2>2, <2>3, SizeFacts DEF StoreOffsets, AdvancedTo
<1> QED
  BY <1>3, <1>4

\* The data moves to the right: the new window is the start of the buffer.
LEMMA RightAdvances ==
  ASSUME OffsetInv, cur_win_size > 0,
         NEW next \in Sizes, next > 0, MoveRight(next)
  PROVE  AdvancedTo(next)
<1>1. /\ cur_win_size \in Sizes /\ pcm_offset \in Nat
  BY DEF OffsetInv
<1>2. NextPcmOffset(next) < 0
  BY DEF MoveRight, NeedsRight
<1>3. SecondHalf + ExtraRoom(next) = next \div 4 - cur_win_size \div 4
  BY <1>1, SizeFacts DEF SecondHalf, ExtraRoom, NextPcmOffset
<1>4. cur_win_size < next
  BY <1>1, <1>2, SizeFacts DEF NextPcmOffset
<1>5. StoreOffsets(next, next \div 4 - cur_win_size \div 4, 0)
  BY <1>3 DEF MoveRight
<1> QED
  BY <1>1, <1>4, <1>5, SizeFacts DEF StoreOffsets, AdvancedTo

\* Nothing moves: there is room for the new window where it belongs.
LEMMA StayAdvances ==
  ASSUME OffsetInv, cur_win_size > 0,
         NEW next \in Sizes, next > 0, StayInPlace(next)
  PROVE  AdvancedTo(next)
<1>1. /\ cur_win_size \in Sizes /\ pcm_offset \in Nat
  BY DEF OffsetInv
<1>2. /\ NextPcmOffset(next) + next < BufLen
      /\ NextPcmOffset(next) >= 0
      /\ NextPcmOffset(next) \in Int
  BY <1>1, SizeFacts DEF StayInPlace, NeedsLeft, NeedsRight, NextPcmOffset
<1>3. next < cur_win_size => NextPcmOffset(next) > 0
  BY <1>1, SizeFacts DEF NextPcmOffset
<1>4. SecondHalf - NextPcmOffset(next) = next \div 4 - cur_win_size \div 4
  BY <1>1, SizeFacts DEF SecondHalf, NextPcmOffset
<1>5. SecondHalf >= 0
  BY <1>1, SizeFacts DEF SecondHalf
<1>6. /\ prev_second_half_window_offset' = SecondHalf - NextPcmOffset(next)
      /\ pcm_offset' = NextPcmOffset(next)
      /\ prev_win_size' = cur_win_size
      /\ cur_win_size' = next
      /\ phase' = "begun"
      /\ error' = error
  BY <1>2, <1>3 DEF StayInPlace, StoreOffsets
<1>7. pcm_offset' + prev_second_half_window_offset' = SecondHalf
  BY <1>1, <1>2, <1>6, SizeFacts DEF SecondHalf
<1>8. pcm_offset' + next <= BufLen
  BY <1>1, <1>2, <1>6, SizeFacts
<1> QED
  BY <1>2, <1>4, <1>5, <1>6, <1>7, <1>8 DEF AdvancedTo

-----------------------------------------------------------------------------
(* The invariant                                                           *)

\* A new decode state has an empty buffer and no window.
LEMMA InitInv == BInit => IInv
  BY BufferAssumption, BlocksizeAssumption
  DEF BInit, IInv, ControlInv, OffsetInv, Sizes, SizeOf

\* A packet's window is set up, the buffer having made room for it.
LEMMA BeginInv ==
  ASSUME IInv, NEW w \in Shapes, advancePcmOffsetBeginAudioPacket(w)
  PROVE  IInv'
<1> DEFINE next == WinSize(w)
<1>1. /\ next \in Sizes /\ next > 0 /\ SizeOf(w) = next
  BY WindowSize
<1>2. /\ phase = "set" /\ window' = w
      /\ UNCHANGED <<abs_total_pos, expected_ending_total_pos, last_win>>
      /\ cur_win_size = SizeOf(last_win)
      /\ cur_win_size \in Sizes
  BY DEF advancePcmOffsetBeginAudioPacket, history, IInv, ControlInv, OffsetInv
<1>3. CASE cur_win_size = 0
  <2>1. FirstBlock(next)
    BY <1>3 DEF advancePcmOffsetBeginAudioPacket
  <2>2. /\ cur_win_size' = next /\ prev_win_size' = 0 /\ phase' = "begun"
        /\ pcm_offset' = pcm_offset /\ error' = error
        /\ prev_second_half_window_offset' = prev_second_half_window_offset
    BY <2>1 DEF FirstBlock, offsets
  <2>3. OffsetInv'
    <3>1. pcm_offset = 0 /\ prev_second_half_window_offset = 0
      BY <1>3 DEF IInv, OffsetInv
    <3>2. 0 + next <= BufLen
      BY <1>1, SizeFacts
    <3> QED
      BY <1>1, <2>2, <3>1, <3>2 DEF OffsetInv, Sizes
  <2>4. ControlInv'
    BY <1>1, <1>2, <1>3, <2>2 DEF IInv, ControlInv, SizeOf
  <2> QED
    BY <2>3, <2>4 DEF IInv
<1>4. CASE cur_win_size # 0
  <2>1. cur_win_size > 0
    BY <1>2, <1>4, SizeFacts
  <2>2. AdvancedTo(next)
    <3>1. MoveLeft(next) \/ MoveRight(next) \/ StayInPlace(next)
      BY <1>4 DEF advancePcmOffsetBeginAudioPacket
    <3>2. OffsetInv
      BY DEF IInv
    <3> QED
      BY <1>1, <2>1, <3>1, <3>2, LeftAdvances, RightAdvances, StayAdvances
  <2>3. next \div 4 - cur_win_size \div 4 \in Int
    BY <1>1, <1>2, SizeFacts
  <2>4. OffsetInv'
    BY <1>1, <1>2, <2>1, <2>2, <2>3 DEF AdvancedTo, OffsetInv, Sizes
  <2>5. ControlInv'
    BY <1>1, <1>2, <2>2 DEF IInv, ControlInv, AdvancedTo
  <2> QED
    BY <2>4, <2>5 DEF IInv
<1> QED
  BY <1>3, <1>4

\* The number of frames forwardReadyPcm computes is the distance of two centres.
LEMMA ReadyIsLap ==
  ASSUME IInv, phase = "added"
  PROVE  /\ ReadyFrames = LapLength(last_win, window)
         /\ ReadyFrames = prev_win_size \div 4 + cur_win_size \div 4
              \/ prev_win_size = 0
         /\ ReadyFrames \in Nat
         /\ FramesConsistent
<1>1. /\ prev_win_size = SizeOf(last_win) /\ cur_win_size = WinSize(window)
      /\ window \in Shapes /\ last_win \in Shapes \union {NoWindow}
      /\ prev_win_size \in Sizes /\ cur_win_size \in Sizes
      /\ pcm_offset \in Nat /\ prev_second_half_window_offset \in Int
  BY DEF IInv, ControlInv, OffsetInv
<1>2. CASE prev_win_size = 0
  <2>1. last_win = NoWindow
    BY <1>1, <1>2, WindowSize DEF SizeOf
  <2> QED
    BY <1>2, <2>1 DEF ReadyFrames, LapLength, FramesConsistent
<1>3. CASE prev_win_size # 0
  <2>1. prev_win_size > 0
    BY <1>1, <1>3, SizeFacts
  <2>2. last_win \in Shapes /\ prev_win_size = WinSize(last_win)
    BY <1>1, <1>3 DEF SizeOf
  <2>3. prev_second_half_window_offset = cur_win_size \div 4 - prev_win_size \div 4
    BY <2>1 DEF IInv, OffsetInv
  <2>4. ReadyFrames = prev_win_size \div 4 + cur_win_size \div 4
    BY <1>1, <2>1, <2>3, SizeFacts DEF ReadyFrames, OutputBegin
  <2>5. prev_win_size \div 4 > 0 /\ ReadyFrames \in Nat /\ ReadyFrames > 0
    BY <1>1, <2>1, <2>4, SizeFacts
  <2>6. LapLength(last_win, window) = prev_win_size \div 4 + cur_win_size \div 4
    BY <1>1, <2>2, NoWindowAssumption DEF LapLength
  <2> QED
    BY <2>4, <2>5, <2>6 DEF FramesConsistent
<1> QED
  BY <1>2, <1>3

\* How many samples a packet hands over, when the stream's position allows it.
LEMMA FramesInLap ==
  ASSUME IInv, phase = "added", PositionReachable
  PROVE  /\ NumFrames \in 0 .. ReadyFrames
         /\ expected_ending_total_pos >= 0 =>
              abs_total_pos + NumFrames = expected_ending_total_pos
         /\ expected_ending_total_pos < 0 => NumFrames = ReadyFrames
<1>1. abs_total_pos \in Nat /\ expected_ending_total_pos \in Int /\ ReadyFrames \in Nat
  BY ReadyIsLap DEF IInv, ControlInv
<1> QED
  BY <1>1 DEF NumFrames, PositionReachable

\* The three ways forwardReadyPcm ends; none of them is a failed internal CHECK.
LEMMA ForwardEnds ==
  ASSUME IInv, NEW callback_ok \in BOOLEAN, forwardReadyPcm(callback_ok)
  PROVE  /\ UNCHANGED <<offsets, sizes, expected_ending_total_pos, window>>
         /\ \/ /\ PositionReachable
               /\ abs_total_pos' = abs_total_pos + NumFrames
               /\ phase' = "idle" /\ last_win' = window /\ error' = error
            \/ /\ phase' = "stopped" /\ error' \in {"stream", "callback"}
               /\ UNCHANGED <<abs_total_pos, last_win>>
<1>1. phase = "added"
  BY DEF forwardReadyPcm
<1>2. FramesConsistent
  BY <1>1, ReadyIsLap
<1>3. UNCHANGED <<offsets, sizes, expected_ending_total_pos, window>>
  BY DEF forwardReadyPcm
<1>4. CASE ~PositionReachable
  <2>1. Stop("stream")
    BY <1>2, <1>4 DEF forwardReadyPcm
  <2> QED
    BY <1>3, <2>1 DEF Stop
<1>5. CASE PositionReachable
  <2>1. \/ Finish(NumFrames)
        \/ Stop("callback")
    BY <1>2, <1>5 DEF forwardReadyPcm
  <2>2. CASE Finish(NumFrames)
    <3>1. abs_total_pos' = abs_total_pos + NumFrames
      BY <2>2 DEF Finish
    <3>2. expected_ending_total_pos >= 0 =>
            abs_total_pos' = expected_ending_total_pos
      BY <1>1, <1>5, <3>1, FramesInLap
    <3>3. phase' = "idle" /\ last_win' = window /\ error' = error
      BY <2>2, <3>2 DEF Finish
    <3> QED
      BY <1>3, <1>5, <3>1, <3>3
  <2>3. CASE Stop("callback")
    BY <1>3, <2>3 DEF Stop
  <2> QED
    BY <2>1, <2>2, <2>3
<1> QED
  BY <1>4, <1>5

\* Handing samples over leaves the offsets as they are.
LEMMA ForwardInv ==
  ASSUME IInv, NEW callback_ok \in BOOLEAN, forwardReadyPcm(callback_ok)
  PROVE  IInv'
<1>1. phase = "added"
  BY DEF forwardReadyPcm
<1>2. OffsetInv'
  <2>1. UNCHANGED <<offsets, sizes>>
    BY ForwardEnds
  <2> QED
    BY <2>1 DEF IInv, OffsetInv, offsets, sizes
<1>3. ControlInv'
  <2>1. /\ cur_win_size' = WinSize(window) /\ window \in Shapes
        /\ window' = window /\ expected_ending_total_pos' = expected_ending_total_pos
    BY <1>1, ForwardEnds DEF IInv, ControlInv, sizes
  <2>2. abs_total_pos' \in Nat
    BY <1>1, ForwardEnds, FramesInLap, ReadyIsLap DEF IInv, ControlInv
  <2>3. SizeOf(window) = WinSize(window)
    BY <2>1, WindowSize
  <2>4. \/ phase' = "idle" /\ last_win' = window /\ error' = error
        \/ /\ phase' = "stopped" /\ error' \in {"stream", "callback"}
           /\ last_win' = last_win
    BY ForwardEnds
  <2> QED
    BY <2>1, <2>2, <2>3, <2>4 DEF IInv, ControlInv
<1> QED
  BY <1>2, <1>3 DEF IInv

\* The room addPcmFrame checks for is there.
LEMMA AddFits ==
  ASSUME IInv, phase = "begun"
  PROVE  pcm_offset + WinSize(window) <= BufLen
  BY DEF IInv, ControlInv, OffsetInv

\* Every operation keeps the relation between the offsets and the windows.
THEOREM StepInv == IInv /\ [BNext]_bvars => IInv'
<1> SUFFICES ASSUME IInv, [BNext]_bvars PROVE IInv'
  OBVIOUS
<1>1. ASSUME NEW pos \in GranulePositions, setExpectedEndingPos(pos)
      PROVE  IInv'
  <2>1. pos \in Int
    BY <1>1 DEF GranulePositions, IInv, ControlInv
  <2> QED
    BY <1>1, <2>1
    DEF setExpectedEndingPos, IInv, ControlInv, OffsetInv, offsets, sizes
<1>2. CASE PacketFails
  BY <1>2 DEF PacketFails, IInv, ControlInv, OffsetInv, offsets, sizes, history
<1>3. ASSUME NEW w \in Shapes, advancePcmOffsetBeginAudioPacket(w)
      PROVE  IInv'
  BY <1>3, BeginInv
<1>4. CASE addPcmFrame
  <2>1. phase' = "added" /\ error' = error /\ phase = "begun"
    BY <1>4, AddFits DEF addPcmFrame
  <2> QED
    BY <1>4, <2>1 DEF addPcmFrame, IInv, ControlInv, OffsetInv, offsets, sizes, history
<1>5. ASSUME NEW callback_ok \in BOOLEAN, forwardReadyPcm(callback_ok)
      PROVE  IInv'
  BY <1>5, ForwardInv
<1>6. CASE UNCHANGED bvars
  BY <1>6 DEF bvars, IInv, ControlInv, OffsetInv, offsets, sizes, history
<1> QED
  BY <1>1, <1>2, <1>3, <1>4, <1>5, <1>6 DEF BNext

\* The offsets and the windows agree at every step of every decoding.
THEOREM Invariance == BSpec => []IInv
  BY InitInv, StepInv, PTL DEF BSpec

-----------------------------------------------------------------------------
(* What the invariant says of the CHECKs and of the accesses               *)

\* With such offsets nothing outside the buffer is read or written.
LEMMA InvAccesses ==
  ASSUME IInv PROVE InBounds
<1>1. /\ cur_win_size \in Sizes /\ prev_win_size \in Sizes
      /\ pcm_offset \in Nat /\ prev_second_half_window_offset \in Int
      /\ pcm_offset + cur_win_size <= BufLen
  BY DEF IInv, OffsetInv
<1>2. ASSUME NEW w \in Shapes
      PROVE  LET next == WinSize(w)
                 half == cur_win_size \div 2
             IN /\ NextPcmOffset(next) + next >= 0
                /\ SecondHalf + half <= BufLen
                /\ NeedsLeft(next) => LeftTarget(next) \in 0 .. BufLen - half
                /\ NeedsRight(next) =>
                     pcm_offset + ExtraRoom(next) + cur_win_size <= BufLen
  <2> DEFINE next == WinSize(w)
  <2>1. next \in Sizes
    BY WindowSize
  <2>2. NextPcmOffset(next) + next >= 0
    BY <1>1, <2>1, SizeFacts DEF NextPcmOffset
  <2>3. SecondHalf + cur_win_size \div 2 <= BufLen
    BY <1>1, SizeFacts DEF SecondHalf
  <2>4. LeftTarget(next) \in 0 .. BufLen - cur_win_size \div 2
    <3>1. LeftTarget(next) \in Nat
      BY <1>1, <2>1, SizeFacts DEF LeftTarget, NeededOffset, NextPcmOffset, SecondHalf
    <3>2. LeftTarget(next) + cur_win_size \div 2 <= BufLen
      BY <1>1, <2>1, SizeFacts DEF LeftTarget, NeededOffset, NextPcmOffset, SecondHalf
    <3> QED
      BY <1>1, <3>1, <3>2, SizeFacts, BufferAssumption
  <2>5. pcm_offset + ExtraRoom(next) + cur_win_size <= BufLen
    BY <1>1, <2>1, SizeFacts DEF ExtraRoom, NextPcmOffset
  <2> QED
    BY <2>2, <2>3, <2>4, <2>5
<1>3. ASSUME phase = "added", prev_win_size > 0
      PROVE  OutputBegin >= 0 /\ OutputBegin + ReadyFrames <= BufLen
  <2>1. OutputBegin >= 0
    BY <1>3 DEF OutputBegin, IInv, OffsetInv
  <2>2. OutputBegin + ReadyFrames = pcm_offset + cur_win_size \div 2
    BY <1>1, <1>3, SizeFacts DEF OutputBegin, ReadyFrames
  <2> QED
    BY <1>1, <2>1, <2>2, SizeFacts
<1> QED
  BY <1>2, <1>3 DEF InBounds

(***************************************************************************)
(* The CHECKs on the buffer's own offsets never fail, for any block sizes  *)
(* and any sequence of windows, flags and granule positions.               *)
(***************************************************************************)
THEOREM InternalChecksHold == BSpec => []NoInternalCheckFails
<1>1. IInv => NoInternalCheckFails
  BY DEF IInv, ControlInv, NoInternalCheckFails
<1> QED
  BY <1>1, Invariance, PTL

(***************************************************************************)
(* memmove, memset and the ranges given to gotPcmData stay in the buffer   *)
(* of five times both block sizes, and no unsigned offset goes below zero. *)
(***************************************************************************)
THEOREM AccessesInBounds == BSpec => []InBounds
  BY InvAccesses, Invariance, PTL

(***************************************************************************)
(* The total moves by the distance of the block centres, or to the granule *)
(* position of the page, which is never further.                           *)
(***************************************************************************)
THEOREM TotalsFollow == BSpec => TotalFollowsPositions
<1> DEFINE Moves ==
      phase = "added" /\ phase' = "idle" =>
        LET moved == abs_total_pos' - abs_total_pos
            lap   == LapLength(last_win, window)
        IN IF expected_ending_total_pos < 0
           THEN moved = lap
           ELSE /\ moved \in 0 .. lap
                /\ abs_total_pos' = expected_ending_total_pos
<1>1. IInv /\ [BNext]_bvars => [Moves]_bvars
  <2> SUFFICES ASSUME IInv, BNext, phase = "added", phase' = "idle"
               PROVE  Moves
    OBVIOUS
  <2>1. PICK callback_ok \in BOOLEAN : forwardReadyPcm(callback_ok)
    BY DEF BNext, setExpectedEndingPos, PacketFails,
           advancePcmOffsetBeginAudioPacket, addPcmFrame
  <2>2. /\ PositionReachable
        /\ abs_total_pos' = abs_total_pos + NumFrames
    BY <2>1, ForwardEnds
  <2>3. /\ ReadyFrames = LapLength(last_win, window) /\ ReadyFrames \in Nat
        /\ NumFrames \in 0 .. ReadyFrames
        /\ expected_ending_total_pos >= 0 =>
             abs_total_pos + NumFrames = expected_ending_total_pos
        /\ expected_ending_total_pos < 0 => NumFrames = ReadyFrames
    BY <2>2, ReadyIsLap, FramesInLap
  <2>4. abs_total_pos \in Nat /\ expected_ending_total_pos \in Int
    BY DEF IInv, ControlInv
  <2> QED
    BY <2>2, <2>3, <2>4
<1> QED
  BY <1>1, Invariance, PTL DEF BSpec, TotalFollowsPositions

-----------------------------------------------------------------------------
(* Type correctness: the contents                                          *)

\* A value of the model stays one when its packet is over.
LEMMA ValuesAge ==
  ASSUME NEW buffer \in [Positions -> SUBSET Values]
  PROVE  Aged(buffer) \in [Positions -> SUBSET Values]
<1>1. \A v \in Values : Older(v) \in Values
  BY DEF Values, Older, Stale
<1> QED
  BY <1>1 DEF Aged

\* A move whose source stays in the buffer leaves a buffer.
LEMMA MovedType ==
  ASSUME pcm_buffer \in [Positions -> SUBSET Values],
         NEW dst \in Nat, NEW src \in Nat, NEW len \in Nat, NEW cleared,
         src + len <= BufLen
  PROVE  Moved(dst, src, len, cleared) \in [Positions -> SUBSET Values]
<1>1. ASSUME NEW i \in Positions, i \in dst .. dst + len - 1
      PROVE  src + (i - dst) \in Positions
  BY <1>1, BufferAssumption DEF Positions
<1> QED
  BY <1>1 DEF Moved

\* The value a block adds at a position is one of the model's values.
LEMMA TermType ==
  ASSUME NEW w \in Shapes, NEW i \in Int
  PROVE  Term(0, w, i) \subseteq Values
<1>1. ASSUME Term(0, w, i) # {}
      PROVE  i \in 0 .. Blocksize1 - 1
  <2>1. i \in 0 .. WinSize(w) - 1
    BY <1>1 DEF Term, WeightAt
  <2> QED
    BY <2>1, WindowSize, BlocksizeAssumption
<1> QED
  BY <1>1 DEF Term, Values

BufferType == pcm_buffer \in [Positions -> SUBSET Values]

\* Each way to begin a packet stores offsets of the right type.
LEMMA AdvanceType ==
  ASSUME IInv, BufferType, NEW w \in Shapes, advancePcmOffsetBeginAudioPacket(w)
  PROVE  BufferType'
<1> DEFINE next == WinSize(w)
           half == cur_win_size \div 2
<1>a. /\ next \in Sizes /\ cur_win_size \in Sizes /\ pcm_offset \in Nat
      /\ pcm_offset + cur_win_size <= BufLen
  BY WindowSize DEF IInv, OffsetInv
<1>b. /\ next \in Nat /\ next \div 4 \in Nat
      /\ cur_win_size \in Nat /\ cur_win_size \div 4 \in Nat
      /\ cur_win_size = 4 * (cur_win_size \div 4)
      /\ half = 2 * (cur_win_size \div 4)
      /\ BufLen \in Nat
  BY <1>a, SizeFacts
<1>1. /\ half \in Nat /\ SecondHalf \in Nat
      /\ SecondHalf + half <= BufLen
  BY <1>a, <1>b DEF SecondHalf
<1>2. CASE FirstBlock(next)
  BY <1>2 DEF FirstBlock, BufferType
<1>3. CASE MoveLeft(next)
  <2>1. LeftTarget(next) \in Nat
    <3>1. NeededOffset(next) = next \div 4 - cur_win_size \div 4
      BY <1>a, <1>b DEF NeededOffset, NextPcmOffset, SecondHalf
    <3> QED
      BY <1>b, <3>1 DEF LeftTarget
  <2>2. Moved(LeftTarget(next), SecondHalf, half, LeftTarget(next) + half .. BufLen - 1)
          \in [Positions -> SUBSET Values]
    BY <1>1, <2>1, MovedType DEF BufferType
  <2> QED
    BY <1>3, <2>2, ValuesAge DEF MoveLeft, BufferType
<1>4. CASE MoveRight(next)
  <2>1. pcm_offset + ExtraRoom(next) \in Nat
    <3>1. pcm_offset + ExtraRoom(next) = next \div 4 - 3 * (cur_win_size \div 4)
      BY <1>a, <1>b DEF ExtraRoom, NextPcmOffset
    <3>2. NextPcmOffset(next) < 0 /\ NextPcmOffset(next) \in Int
      BY <1>4, <1>a, <1>b DEF MoveRight, NeedsRight, NextPcmOffset
    <3> QED
      BY <1>a, <1>b, <3>1, <3>2 DEF ExtraRoom
  <2>2. Moved(pcm_offset + ExtraRoom(next), pcm_offset, cur_win_size,
              0 .. (pcm_offset + ExtraRoom(next)) - 1)
          \in [Positions -> SUBSET Values]
    BY <1>a, <1>b, <2>1, MovedType DEF BufferType
  <2> QED
    BY <1>4, <2>2, ValuesAge DEF MoveRight, BufferType
<1>5. CASE StayInPlace(next)
  BY <1>5, ValuesAge DEF StayInPlace, BufferType
<1> QED
  BY <1>2, <1>3, <1>4, <1>5 DEF advancePcmOffsetBeginAudioPacket

\* Every operation keeps the types.
LEMMA StepType == IInv /\ BufferType /\ [BNext]_bvars => BufferType'
<1> SUFFICES ASSUME IInv, BufferType, [BNext]_bvars PROVE BufferType'
  OBVIOUS
<1>1. ASSUME NEW w \in Shapes, advancePcmOffsetBeginAudioPacket(w)
      PROVE  BufferType'
  BY <1>1, AdvanceType
<1>2. CASE addPcmFrame
  <2>1. window \in Shapes /\ pcm_offset \in Nat
    BY <1>2 DEF addPcmFrame, IInv, ControlInv, OffsetInv
  <2>2. \A i \in Positions : i - pcm_offset \in Int
    BY <2>1, BufferAssumption DEF Positions
  <2>3. \A i \in Positions : Term(0, window, i - pcm_offset) \subseteq Values
    BY <2>1, <2>2, TermType
  <2> QED
    BY <1>2, <2>3 DEF addPcmFrame, BufferType
<1>3. ASSUME \/ \E pos \in GranulePositions : setExpectedEndingPos(pos)
             \/ PacketFails
             \/ \E callback_ok \in BOOLEAN : forwardReadyPcm(callback_ok)
             \/ UNCHANGED bvars
      PROVE  BufferType'
  BY <1>3 DEF setExpectedEndingPos, PacketFails, forwardReadyPcm, bvars, BufferType
<1> QED
  BY <1>1, <1>2, <1>3 DEF BNext

(***************************************************************************)
(* Every variable of the buffer keeps its type; in particular the distance *)
(* stored as int16_t stays within 2048, and values never leave the buffer. *)
(***************************************************************************)
THEOREM TypeCorrect == BSpec => []TypeOK
<1>1. BInit => BufferType
  BY DEF BInit, BufferType
<1>2. IInv /\ BufferType => TypeOK
  <2> SUFFICES ASSUME IInv, BufferType PROVE TypeOK
    OBVIOUS
  <2>1. /\ cur_win_size \in Sizes /\ prev_win_size \in Sizes
        /\ pcm_offset \in Nat /\ prev_second_half_window_offset \in Int
        /\ pcm_offset + cur_win_size <= BufLen
    BY DEF IInv, OffsetInv
  <2>2. pcm_offset \in Positions
    <3>1. cur_win_size = 0 => pcm_offset = 0
      BY DEF IInv, OffsetInv
    <3>2. cur_win_size \in Nat /\ BufLen \in Nat /\ BufLen >= 40
      BY <2>1, SizeFacts
    <3> QED
      BY <2>1, <3>1, <3>2 DEF Positions
  <2>3. /\ prev_second_half_window_offset >= -2048
        /\ prev_second_half_window_offset <= 2048
    <3>1. CASE prev_win_size = 0
      BY <3>1 DEF IInv, OffsetInv
    <3>2. CASE prev_win_size # 0
      <4>1. /\ cur_win_size \div 4 \in Nat /\ cur_win_size \div 4 <= 2048
            /\ prev_win_size \div 4 \in Nat /\ prev_win_size \div 4 <= 2048
        BY <2>1, SizeFacts
      <4>2. prev_win_size > 0
        BY <2>1, <3>2, SizeFacts
      <4>3. prev_second_half_window_offset
              = cur_win_size \div 4 - prev_win_size \div 4
        BY <4>2 DEF IInv, OffsetInv
      <4> QED
        BY <4>1, <4>3
    <3> QED
      BY <3>1, <3>2
  <2> QED
    BY <2>1, <2>2, <2>3 DEF IInv, ControlInv, BufferType, TypeOK, Sizes
<1> QED
  BY <1>1, <1>2, StepType, Invariance, PTL DEF BSpec

-----------------------------------------------------------------------------
(***************************************************************************)
(* Perfect reconstruction, for all block sizes, buffer lengths and         *)
(* sequences of windows whose flags match: what the sliding buffer hands   *)
(* over is the lap of the last two blocks, and the windows that precalc    *)
(* fills cancel the aliasing in it.                                        *)
(*                                                                         *)
(* First the windows alone: in each sample of the lap either the two       *)
(* slopes meet at mirrored positions, or one block is passed unchanged and *)
(* the other one is silent.  Then the contents of the buffer, followed     *)
(* through the moves, from where output begins up to its end; and that     *)
(* PcmBuffer implements LappedOutput.                                      *)
(***************************************************************************)
\* A quarter of one of the two block sizes.
QuarterOf(long) == BlocksizeOf(long) \div 4

\* Each of the two is a positive number, and its multiples stay exact.
LEMMA Quarters ==
  ASSUME NEW long \in BOOLEAN
  PROVE  /\ QuarterOf(long) \in Nat /\ QuarterOf(long) > 0
         /\ BlocksizeOf(long) = 4 * QuarterOf(long)
         /\ BlocksizeOf(long) \in Nat
         /\ (BlocksizeOf(long) \div 2) \div 2 = QuarterOf(long)
         /\ BlocksizeOf(long) \div 2 = 2 * QuarterOf(long)
         /\ QuarterOf(FALSE) <= QuarterOf(long)
         /\ QuarterOf(long) <= QuarterOf(TRUE)
<1>1. /\ Blocksize0 \in Nat /\ Blocksize0 >= 4 /\ Blocksize0 % 4 = 0
      /\ Blocksize1 \in Nat /\ Blocksize1 >= 4 /\ Blocksize1 % 4 = 0
      /\ Blocksize0 <= Blocksize1
  BY BlocksizeAssumption
<1>2. BlocksizeOf(long) \in {Blocksize0, Blocksize1}
  BY DEF BlocksizeOf
<1>3. /\ BlocksizeOf(long) \in Nat /\ BlocksizeOf(long) >= 4
      /\ BlocksizeOf(long) % 4 = 0
  BY <1>1, <1>2
<1>4. /\ QuarterOf(long) \in Nat /\ QuarterOf(long) > 0
      /\ BlocksizeOf(long) = 4 * QuarterOf(long)
  BY <1>3 DEF QuarterOf
<1>5. BlocksizeOf(long) \div 2 = 2 * QuarterOf(long)
  BY <1>4
<1>6. (BlocksizeOf(long) \div 2) \div 2 = QuarterOf(long)
  BY <1>4, <1>5
<1>7. QuarterOf(FALSE) <= QuarterOf(long) /\ QuarterOf(long) <= QuarterOf(TRUE)
  BY <1>1 DEF QuarterOf, BlocksizeOf
<1> QED
  BY <1>3, <1>4, <1>5, <1>6, <1>7

\* getWindow's table number is read by precalc as the flags it was made from.
LEMMA TableFlags ==
  ASSUME NEW w \in Shapes
  PROVE  /\ w.long \in BOOLEAN /\ w.prev \in BOOLEAN /\ w.next \in BOOLEAN
         /\ WinIdx(w) \in 0 .. 3
         /\ IdxPrev(WinIdx(w)) = w.prev
         /\ IdxNext(WinIdx(w)) = w.next
         /\ ~w.long => ~w.prev /\ ~w.next
<1>1. /\ w.long \in BOOLEAN /\ w.prev \in BOOLEAN /\ w.next \in BOOLEAN
      /\ ~w.long => ~w.prev /\ ~w.next
  BY DEF Shapes, Shape
<1>2. /\ ~w.prev /\ ~w.next => WinIdx(w) = 0
      /\ w.prev /\ ~w.next => WinIdx(w) = 1
      /\ ~w.prev /\ w.next => WinIdx(w) = 2
      /\ w.prev /\ w.next => WinIdx(w) = 3
  BY <1>1 DEF WinIdx
<1>3. /\ IdxPrev(0) = FALSE /\ IdxNext(0) = FALSE
      /\ IdxPrev(1) = TRUE  /\ IdxNext(1) = FALSE
      /\ IdxPrev(2) = FALSE /\ IdxNext(2) = TRUE
      /\ IdxPrev(3) = TRUE  /\ IdxNext(3) = TRUE
  BY DEF IdxPrev, IdxNext
<1>4. CASE w.prev
  <2>1. WinIdx(w) = 1 \/ WinIdx(w) = 3
    BY <1>1, <1>2, <1>4
  <2>2. IdxPrev(WinIdx(w)) = w.prev
    BY <1>1, <1>3, <1>4, <2>1
  <2>3. IdxNext(WinIdx(w)) = w.next
    BY <1>1, <1>2, <1>3, <1>4
  <2> QED
    BY <1>1, <2>1, <2>2, <2>3
<1>5. CASE ~w.prev
  <2>1. WinIdx(w) = 0 \/ WinIdx(w) = 2
    BY <1>1, <1>2, <1>5
  <2>2. IdxPrev(WinIdx(w)) = w.prev
    BY <1>1, <1>3, <1>5, <2>1
  <2>3. IdxNext(WinIdx(w)) = w.next
    BY <1>1, <1>2, <1>3, <1>5
  <2> QED
    BY <1>1, <2>1, <2>2, <2>3
<1> QED
  BY <1>4, <1>5

\* The slopes of a window in quarters: no slope is longer than half the block.
LEMMA Slopes ==
  ASSUME NEW w \in Shapes
  PROVE  LET idx == WinIdx(w)
             q   == QuarterOf(w.long)
             l   == QuarterOf(w.prev)
             r   == QuarterOf(w.next)
         IN /\ q \in Nat /\ l \in Nat /\ r \in Nat
            /\ 0 < l /\ l <= q /\ 0 < r /\ r <= q
            /\ WinSize(w) = 4 * q
            /\ LeftLen(idx) = 2 * l /\ RightLen(idx) = 2 * r
            /\ LeftBegin(WinSize(w), idx) = q - l
            /\ RightBegin(WinSize(w), idx) = 3 * q - r
<1> DEFINE idx == WinIdx(w)
           q   == QuarterOf(w.long)
           l   == QuarterOf(w.prev)
           r   == QuarterOf(w.next)
<1>1. /\ w.long \in BOOLEAN /\ w.prev \in BOOLEAN /\ w.next \in BOOLEAN
      /\ ~w.long => ~w.prev /\ ~w.next
      /\ IdxPrev(idx) = w.prev /\ IdxNext(idx) = w.next
  BY TableFlags
<1>2. /\ q \in Nat /\ l \in Nat /\ r \in Nat
      /\ 0 < l /\ 0 < r
  BY <1>1, Quarters
<1>3. l <= q /\ r <= q
  <2>1. CASE w.long
    <3>1. \A long \in BOOLEAN : QuarterOf(long) <= QuarterOf(TRUE)
      BY Quarters
    <3> QED
      BY <1>1, <2>1, <3>1
  <2>2. CASE ~w.long
    <3>1. l = q /\ r = q
      BY <2>2, <1>1
    <3>2. q <= q
      BY <1>2
    <3> QED
      BY <3>1, <3>2, Zenon
  <2> QED
    BY <2>1, <2>2
<1>4. WinSize(w) = 4 * q /\ WinSize(w) \div 4 = q
  BY <1>1, Quarters DEF WinSize, QuarterOf
<1>5. /\ LeftLen(idx) = 2 * l /\ LeftLen(idx) \div 2 = l
      /\ RightLen(idx) = 2 * r /\ RightLen(idx) \div 2 = r
  BY <1>1, Quarters DEF LeftLen, RightLen
<1>6. LeftBegin(WinSize(w), idx) = q - l
  BY <1>4, <1>5 DEF LeftBegin
<1>7. RightBegin(WinSize(w), idx) = 3 * q - r
  BY <1>2, <1>4, <1>5 DEF RightBegin
<1> QED
  BY <1>2, <1>3, <1>4, <1>5, <1>6, <1>7

\* The second half of a block: flat, then falling, then silent.
LEMMA FallingHalf ==
  ASSUME NEW w \in Shapes, NEW p \in Nat
  PROVE  LET q == QuarterOf(w.long)
             r == QuarterOf(w.next)
         IN WeightAt(w, PrevIndex(w, p)) =
              IF p < q - r THEN One
              ELSE IF p < q + r THEN <<2 * (q + r - p) - 1, 4 * r>>
              ELSE Zero
<1> DEFINE q == QuarterOf(w.long)
           l == QuarterOf(w.prev)
           r == QuarterOf(w.next)
           i == PrevIndex(w, p)
<1>1. /\ q \in Nat /\ l \in Nat /\ r \in Nat
      /\ 0 < l /\ l <= q /\ 0 < r /\ r <= q
      /\ WinSize(w) = 4 * q
      /\ LeftLen(WinIdx(w)) = 2 * l /\ RightLen(WinIdx(w)) = 2 * r
      /\ LeftBegin(WinSize(w), WinIdx(w)) = q - l
      /\ RightBegin(WinSize(w), WinIdx(w)) = 3 * q - r
  BY Slopes
<1>2. i = 2 * q + p
  BY <1>1 DEF PrevIndex
<1>3. ~(i < (q - l) + 2 * l)
  BY <1>1, <1>2
<1> HIDE DEF i
<1>4. Weight(w, i) =
        IF i < 3 * q - r THEN One
        ELSE IF i < (3 * q - r) + 2 * r
             THEN <<2 * (2 * r - (i - (3 * q - r))) - 1, 2 * (2 * r)>>
        ELSE Zero
  BY <1>1, <1>2, <1>3 DEF Weight, Table
<1>5. CASE p < q - r
  BY <1>1, <1>2, <1>4, <1>5 DEF WeightAt, i
<1>6. CASE ~(p < q - r) /\ p < q + r
  <2>1. i \in 0 .. WinSize(w) - 1 /\ ~(i < 3 * q - r) /\ i < (3 * q - r) + 2 * r
    BY <1>1, <1>2, <1>6
  <2>2. 2 * (2 * r - (i - (3 * q - r))) - 1 = 2 * (q + r - p) - 1
    BY <1>1, <1>2
  <2> QED
    BY <1>1, <1>4, <1>6, <2>1, <2>2 DEF WeightAt, i
<1>7. CASE ~(p < q - r) /\ ~(p < q + r)
  BY <1>1, <1>2, <1>4, <1>7 DEF WeightAt, i
<1> QED
  BY <1>1, <1>5, <1>6, <1>7

\* The first half of a block, and what is before it: silent, rising, then flat.
LEMMA RisingHalf ==
  ASSUME NEW w \in Shapes, NEW i \in Int,
         i < 2 * QuarterOf(w.long)
  PROVE  LET q == QuarterOf(w.long)
             l == QuarterOf(w.prev)
         IN WeightAt(w, i) =
              IF i < q - l THEN Zero
              ELSE IF i < q + l THEN <<2 * (i - (q - l)) + 1, 4 * l>>
              ELSE One
<1> DEFINE q == QuarterOf(w.long)
           l == QuarterOf(w.prev)
           r == QuarterOf(w.next)
<1>1. /\ q \in Nat /\ l \in Nat /\ r \in Nat
      /\ 0 < l /\ l <= q /\ 0 < r /\ r <= q
      /\ WinSize(w) = 4 * q
      /\ LeftLen(WinIdx(w)) = 2 * l /\ RightLen(WinIdx(w)) = 2 * r
      /\ LeftBegin(WinSize(w), WinIdx(w)) = q - l
      /\ RightBegin(WinSize(w), WinIdx(w)) = 3 * q - r
  BY Slopes
<1>2. i < 3 * q - r
  BY <1>1
<1>3. Weight(w, i) =
        IF i < q - l THEN Zero
        ELSE IF i < (q - l) + 2 * l
             THEN <<2 * (i - (q - l)) + 1, 2 * (2 * l)>>
        ELSE One
  BY <1>1, <1>2 DEF Weight, Table
<1>4. CASE i < q - l
  BY <1>3, <1>4 DEF WeightAt
<1>5. CASE ~(i < q - l)
  <2>1. i \in 0 .. WinSize(w) - 1
    BY <1>1, <1>5
  <2> QED
    BY <1>1, <1>3, <1>5, <2>1 DEF WeightAt
<1> QED
  BY <1>4, <1>5

(***************************************************************************)
(* Perfect reconstruction, for all block sizes: when the flags match the   *)
(* neighbouring blocks, the two weights in every sample of the lap are     *)
(* complementary (the windows of precalc at the positions where            *)
(* addPcmFrame adds them and forwardReadyPcm hands them over).             *)
(***************************************************************************)
THEOREM LapCancels ==
  ASSUME NEW w1 \in Shapes, NEW w2 \in Shapes, Follows(w1, w2),
         NEW p \in 0 .. LapLength(w1, w2) - 1
  PROVE  Complementary(WeightAt(w1, PrevIndex(w1, p)),
                       WeightAt(w2, CurIndex(w1, w2, p)))
<1> DEFINE q1 == QuarterOf(w1.long)
           q2 == QuarterOf(w2.long)
           s  == QuarterOf(w1.next)
<1>1. /\ q1 \in Nat /\ q2 \in Nat /\ s \in Nat /\ 0 < s /\ s <= q1
      /\ WinSize(w1) = 4 * q1 /\ WinSize(w2) = 4 * q2
  BY Slopes
<1>2. QuarterOf(w2.prev) = s
  BY TableFlags DEF Follows
<1>3. LapLength(w1, w2) = q1 + q2
  BY <1>1, NoWindowAssumption DEF LapLength
<1>4. p \in Nat /\ p < q1 + q2
  BY <1>1, <1>3
<1>5. CurIndex(w1, w2, p) = (q2 - q1) + p
  BY <1>1, <1>4 DEF CurIndex
<1>6. WeightAt(w1, PrevIndex(w1, p)) =
        IF p < q1 - s THEN One
        ELSE IF p < q1 + s THEN <<2 * (q1 + s - p) - 1, 4 * s>>
        ELSE Zero
  BY <1>4, FallingHalf
<1>7. WeightAt(w2, (q2 - q1) + p) =
        IF (q2 - q1) + p < q2 - s THEN Zero
        ELSE IF (q2 - q1) + p < q2 + s
             THEN <<2 * (((q2 - q1) + p) - (q2 - s)) + 1, 4 * s>>
        ELSE One
  <2>1. (q2 - q1) + p \in Int /\ (q2 - q1) + p < 2 * q2
    BY <1>1, <1>4
  <2> QED
    BY <1>2, <2>1, RisingHalf
<1>8. CASE p < q1 - s
  <2>1. (q2 - q1) + p < q2 - s
    BY <1>1, <1>4, <1>8
  <2> QED
    BY <1>5, <1>6, <1>7, <1>8, <2>1 DEF Complementary, One, Zero
<1>9. CASE ~(p < q1 - s) /\ p < q1 + s
  <2>1. ~((q2 - q1) + p < q2 - s) /\ (q2 - q1) + p < q2 + s
    BY <1>1, <1>4, <1>9
  <2>2. (2 * (q1 + s - p) - 1) + (2 * (((q2 - q1) + p) - (q2 - s)) + 1) = 4 * s
    BY <1>1, <1>4
  <2> QED
    BY <1>5, <1>6, <1>7, <1>9, <2>1, <2>2 DEF Complementary
<1>10. CASE ~(p < q1 - s) /\ ~(p < q1 + s)
  <2>1. ~((q2 - q1) + p < q2 - s) /\ ~((q2 - q1) + p < q2 + s)
    BY <1>1, <1>4, <1>10
  <2> QED
    BY <1>5, <1>6, <1>7, <1>10, <2>1 DEF Complementary, One, Zero
<1> QED
  BY <1>8, <1>9, <1>10

-----------------------------------------------------------------------------
(* The contents of the buffer                                              *)

\* What the previous block has left at position i, from where output begins.
Before(i) ==
  IF last_win = NoWindow THEN {}
  ELSE Term(1, last_win, PrevIndex(last_win, i - OutputBegin))

\* What the block of the last packet has left at position i.
Latest(i) == Term(0, last_win, i - pcm_offset)

EmptyInv == cur_win_size = 0 => \A i \in Positions : pcm_buffer[i] = {}

\* Between two packets the second half of the last block is all there is.
IdleInv ==
  phase \in {"idle", "set"} /\ last_win # NoWindow =>
    \A i \in Positions : i >= SecondHalf => pcm_buffer[i] = Latest(i)

BegunInv ==
  phase = "begun" =>
    \A i \in Positions : i >= OutputBegin => pcm_buffer[i] = Before(i)

AddedInv ==
  phase = "added" =>
    \A i \in Positions :
      i >= OutputBegin =>
        pcm_buffer[i] = Before(i) \union Term(0, window, i - pcm_offset)

ContentInv == EmptyInv /\ IdleInv /\ BegunInv /\ AddedInv

\* The window of the packet in progress belongs to the one before.
FollowInv ==
  phase \in {"begun", "added"} /\ last_win # NoWindow => Follows(last_win, window)

\* What was handed over is a lap, or the beginning of one.
IsLap(pcm) ==
  /\ pcm.prev \in Shapes /\ pcm.cur \in Shapes /\ Follows(pcm.prev, pcm.cur)
  /\ \E n \in 0 .. LapLength(pcm.prev, pcm.cur) :
       pcm.frames = [k \in 1 .. n |-> Lap(pcm.prev, pcm.cur, k - 1)]

HandedInv == handed = NoPcm \/ IsLap(handed)

RInv == IInv /\ ContentInv /\ FollowInv /\ HandedInv

\* A value of the last block is one of the block before when the next begins.
LEMMA TermAges ==
  ASSUME NEW buffer, NEW i \in Positions, NEW w, NEW j,
         buffer[i] = Term(0, w, j)
  PROVE  Aged(buffer)[i] = Term(1, w, j)
<1>1. Aged(buffer)[i] = {Older(v) : v \in Term(0, w, j)}
  BY DEF Aged
<1>2. CASE WeightAt(w, j) = Zero
  BY <1>1, <1>2 DEF Term
<1>3. CASE WeightAt(w, j) # Zero
  <2>1. Term(0, w, j) = {<<0, j>>} /\ Term(1, w, j) = {<<1, j>>}
    BY <1>3 DEF Term
  <2>2. Older(<<0, j>>) = <<1, j>>
    BY DEF Older
  <2> QED
    BY <1>1, <2>1, <2>2
<1> QED
  BY <1>2, <1>3

\* A block adds nothing outside of its window.
LEMMA NothingOutside ==
  ASSUME NEW age, NEW w, NEW i \in Int, i \notin 0 .. WinSize(w) - 1
  PROVE  Term(age, w, i) = {}
  BY DEF Term, WeightAt

\* Behind the lap the previous block is silent, if the flags match.
LEMMA SilentBehindLap ==
  ASSUME NEW w1 \in Shapes, NEW w2 \in Shapes, Follows(w1, w2),
         NEW p \in Nat, p >= LapLength(w1, w2)
  PROVE  Term(1, w1, PrevIndex(w1, p)) = {}
<1> DEFINE q1 == QuarterOf(w1.long)
           q2 == QuarterOf(w2.long)
           r  == QuarterOf(w1.next)
<1>1. /\ q1 \in Nat /\ q2 \in Nat /\ r \in Nat /\ 0 < r
      /\ WinSize(w1) = 4 * q1 /\ WinSize(w2) = 4 * q2
  BY Slopes
<1>2. LapLength(w1, w2) = q1 + q2
  BY <1>1, NoWindowAssumption DEF LapLength
<1>3. r <= q2
  <2>1. /\ w1.long \in BOOLEAN /\ w2.long \in BOOLEAN /\ w1.next \in BOOLEAN
        /\ ~w1.long => ~w1.next
    BY TableFlags
  <2>2. \A long \in BOOLEAN : QuarterOf(FALSE) <= QuarterOf(long)
    BY Quarters
  <2>3. CASE w1.long
    <3>1. r = q2
      BY <2>3 DEF Follows
    <3> HIDE DEF r, q2
    <3> QED
      BY <1>1, <3>1
  <2>4. CASE ~w1.long
    <3>1. r = QuarterOf(FALSE)
      BY <2>1, <2>4
    <3> QED
      BY <2>1, <2>2, <3>1
  <2> QED
    BY <2>1, <2>3, <2>4
<1>4. WeightAt(w1, PrevIndex(w1, p)) =
        IF p < q1 - r THEN One
        ELSE IF p < q1 + r THEN <<2 * (q1 + r - p) - 1, 4 * r>>
        ELSE Zero
  BY FallingHalf
<1>5. ~(p < q1 - r) /\ ~(p < q1 + r)
  <2> HIDE DEF q1, q2, r
  <2> QED
    BY <1>1, <1>2, <1>3
<1> QED
  BY <1>4, <1>5 DEF Term

-----------------------------------------------------------------------------
(* The moves                                                               *)

\* Wherever the data goes, output begins where the second half went.
LEMMA StoredBegin ==
  ASSUME NEW next, NEW half \in Int, NEW offset \in Int,
         StoreOffsets(next, half, offset), phase' = "begun"
  PROVE  OutputBegin' = half
<1>1. pcm_offset' = offset /\ prev_second_half_window_offset' = half - offset
  BY DEF StoreOffsets
<1> QED
  BY <1>1 DEF OutputBegin

\* What holds when a packet's window is known and the buffer has to make room.
Moving(next) ==
  /\ IInv /\ IdleInv /\ phase = "set"
  /\ last_win \in Shapes
  /\ next \in Sizes /\ next > 0
  /\ phase' = "begun"

\* The numbers the moves are made of.
LEMMA MovingFacts ==
  ASSUME NEW next, Moving(next)
  PROVE  /\ cur_win_size = WinSize(last_win)
         /\ cur_win_size \in Sizes /\ cur_win_size > 0
         /\ cur_win_size \in Nat /\ cur_win_size \div 4 \in Nat
         /\ cur_win_size = 4 * (cur_win_size \div 4)
         /\ cur_win_size \div 2 = 2 * (cur_win_size \div 4)
         /\ next \in Nat /\ next \div 4 \in Nat /\ next = 4 * (next \div 4)
         /\ pcm_offset \in Nat /\ pcm_offset + cur_win_size <= BufLen
         /\ BufLen \in Nat
         /\ SecondHalf = pcm_offset + 2 * (cur_win_size \div 4)
         /\ NextPcmOffset(next) = pcm_offset + 3 * (cur_win_size \div 4) - next \div 4
<1>1. cur_win_size = WinSize(last_win) /\ cur_win_size > 0
  BY WindowSize DEF Moving, IInv, ControlInv
<1>2. /\ cur_win_size \in Sizes /\ next \in Sizes
      /\ pcm_offset \in Nat /\ pcm_offset + cur_win_size <= BufLen
  BY DEF Moving, IInv, OffsetInv
<1>3. /\ cur_win_size \in Nat /\ cur_win_size \div 4 \in Nat
      /\ cur_win_size = 4 * (cur_win_size \div 4)
      /\ cur_win_size \div 2 = 2 * (cur_win_size \div 4)
      /\ next \in Nat /\ next \div 4 \in Nat /\ next = 4 * (next \div 4)
      /\ BufLen \in Nat
  BY <1>2, SizeFacts
<1> QED
  BY <1>1, <1>2, <1>3 DEF SecondHalf, NextPcmOffset

\* The second half of the last block is where output begins.
HalfIsAtOutput ==
  \A i \in Positions :
    i >= OutputBegin' =>
      pcm_buffer'[i] = Term(1, last_win, PrevIndex(last_win, i - OutputBegin'))

\* Moved to the left, with the rest of the buffer cleared behind it.
LEMMA LeftKeepsHalf ==
  ASSUME NEW next, Moving(next), MoveLeft(next)
  PROVE  HalfIsAtOutput
<1> DEFINE q      == cur_win_size \div 4
           half   == cur_win_size \div 2
           target == LeftTarget(next)
           moved  == Moved(target, SecondHalf, half, target + half .. BufLen - 1)
<1>1. /\ cur_win_size = WinSize(last_win) /\ q \in Nat /\ cur_win_size = 4 * q
      /\ half = 2 * q /\ pcm_offset \in Nat /\ pcm_offset + 4 * q <= BufLen
      /\ BufLen \in Nat /\ SecondHalf = pcm_offset + 2 * q
      /\ next \div 4 \in Nat
      /\ NextPcmOffset(next) = pcm_offset + 3 * q - next \div 4
  BY MovingFacts
<1>2. NeededOffset(next) = next \div 4 - q /\ NeededOffset(next) \in Int
  BY <1>1 DEF NeededOffset
<1>3. target \in Nat
  BY <1>2 DEF LeftTarget
<1>4. OutputBegin' = target
  <2>1. StoreOffsets(next, target,
          IF NeededOffset(next) < 0 THEN -NeededOffset(next) ELSE 0)
    BY DEF MoveLeft
  <2> HIDE DEF target
  <2> QED
    BY <1>2, <1>3, <2>1, StoredBegin DEF Moving
<1>5. pcm_buffer' = Aged(moved)
  BY DEF MoveLeft
<1> SUFFICES ASSUME NEW i \in Positions, i >= target
             PROVE  pcm_buffer'[i] = Term(1, last_win, PrevIndex(last_win, i - target))
  BY <1>4 DEF HalfIsAtOutput
<1> HIDE DEF target
<1>6. i \in Nat /\ i < BufLen
  BY <1>1 DEF Positions
<1>7. PrevIndex(last_win, i - target) = 2 * q + (i - target)
  BY <1>1, <1>3, <1>6 DEF PrevIndex
<1>8. moved[i] = Term(0, last_win, 2 * q + (i - target))
  <2>1. CASE i < target + half
    <3> DEFINE j == SecondHalf + (i - target)
    <3>1. i \notin target + half .. BufLen - 1 /\ i \in target .. target + half - 1
      BY <1>1, <1>3, <1>6, <2>1
    <3>2. moved[i] = pcm_buffer[j]
      BY <3>1 DEF Moved
    <3>3. j \in Positions /\ j >= SecondHalf /\ j - pcm_offset = 2 * q + (i - target)
      BY <1>1, <1>3, <1>6, <2>1 DEF Positions
    <3>4. pcm_buffer[j] = Term(0, last_win, j - pcm_offset)
      <4> HIDE DEF j
      <4> QED
        BY <3>3, NoWindowAssumption DEF Moving, IdleInv, Latest
    <3> QED
      BY <3>2, <3>3, <3>4
  <2>2. CASE ~(i < target + half)
    <3>1. i \in target + half .. BufLen - 1
      BY <1>1, <1>3, <1>6, <2>2
    <3>2. moved[i] = {}
      BY <3>1 DEF Moved
    <3>3. /\ 2 * q + (i - target) \in Int
          /\ 2 * q + (i - target) \notin 0 .. WinSize(last_win) - 1
      BY <1>1, <1>3, <1>6, <2>2
    <3> QED
      BY <3>2, <3>3, NothingOutside
  <2> QED
    BY <2>1, <2>2
<1> HIDE DEF moved
<1> QED
  BY <1>5, <1>7, <1>8, TermAges

\* Moved to the right: behind the moved block only what was there, silence.
LEMMA RightKeepsHalf ==
  ASSUME NEW next, Moving(next), MoveRight(next)
  PROVE  HalfIsAtOutput
<1> DEFINE q      == cur_win_size \div 4
           extra  == ExtraRoom(next)
           begin  == pcm_offset + extra
           output == SecondHalf + extra
           moved  == Moved(begin, pcm_offset, cur_win_size, 0 .. begin - 1)
<1>1. /\ cur_win_size = WinSize(last_win) /\ q \in Nat /\ cur_win_size = 4 * q
      /\ pcm_offset \in Nat /\ pcm_offset + 4 * q <= BufLen
      /\ BufLen \in Nat /\ SecondHalf = pcm_offset + 2 * q
      /\ next \div 4 \in Nat
      /\ NextPcmOffset(next) = pcm_offset + 3 * q - next \div 4
  BY MovingFacts
<1>2. extra \in Nat
  <2>1. NextPcmOffset(next) < 0 /\ NextPcmOffset(next) \in Int
    BY <1>1 DEF MoveRight, NeedsRight
  <2> QED
    BY <2>1 DEF ExtraRoom
<1>3. OutputBegin' = output
  <2>1. StoreOffsets(next, output, 0)
    BY DEF MoveRight
  <2>2. output \in Int
    BY <1>1, <1>2
  <2> HIDE DEF output
  <2> QED
    BY <2>1, <2>2, StoredBegin DEF Moving
<1>4. pcm_buffer' = Aged(moved)
  BY DEF MoveRight
<1> SUFFICES ASSUME NEW i \in Positions, i >= output
             PROVE  pcm_buffer'[i] = Term(1, last_win, PrevIndex(last_win, i - output))
  BY <1>3 DEF HalfIsAtOutput
<1> HIDE DEF extra
<1>5. /\ i \in Nat /\ i < BufLen
      /\ begin \in Nat /\ output = begin + 2 * q
      /\ PrevIndex(last_win, i - output) = i - begin
  BY <1>1, <1>2 DEF Positions, PrevIndex
<1>6. moved[i] = Term(0, last_win, i - begin)
  <2>1. i \notin 0 .. begin - 1
    BY <1>1, <1>5
  <2>2. CASE i < begin + cur_win_size
    <3> DEFINE j == pcm_offset + (i - begin)
    <3>1. i \in begin .. begin + cur_win_size - 1
      BY <1>1, <1>5, <2>2
    <3>2. moved[i] = pcm_buffer[j]
      BY <2>1, <3>1 DEF Moved
    <3>3. j \in Positions /\ j >= SecondHalf /\ j - pcm_offset = i - begin
      BY <1>1, <1>5, <2>2 DEF Positions
    <3>4. pcm_buffer[j] = Term(0, last_win, j - pcm_offset)
      <4> HIDE DEF j
      <4> QED
        BY <3>3, NoWindowAssumption DEF Moving, IdleInv, Latest
    <3> QED
      BY <3>2, <3>3, <3>4
  <2>3. CASE ~(i < begin + cur_win_size)
    <3>1. i \notin begin .. begin + cur_win_size - 1
      BY <1>1, <1>5, <2>3
    <3>2. moved[i] = pcm_buffer[i]
      BY <2>1, <3>1 DEF Moved
    <3>3. i >= SecondHalf
      BY <1>1, <1>2, <1>5, <2>3
    <3>4. pcm_buffer[i] = Term(0, last_win, i - pcm_offset)
      BY <3>3, NoWindowAssumption DEF Moving, IdleInv, Latest
    <3>5. /\ i - pcm_offset \in Int /\ i - begin \in Int
          /\ i - pcm_offset \notin 0 .. WinSize(last_win) - 1
          /\ i - begin \notin 0 .. WinSize(last_win) - 1
      BY <1>1, <1>2, <1>5, <2>3
    <3>6. Term(0, last_win, i - pcm_offset) = {} /\ Term(0, last_win, i - begin) = {}
      BY <3>5, NothingOutside
    <3> QED
      BY <3>2, <3>4, <3>6
  <2> QED
    BY <2>2, <2>3
<1> HIDE DEF moved
<1> QED
  BY <1>4, <1>5, <1>6, TermAges

\* Not moved at all.
LEMMA StayKeepsHalf ==
  ASSUME NEW next, Moving(next), StayInPlace(next)
  PROVE  HalfIsAtOutput
<1> DEFINE q == cur_win_size \div 4
<1>1. /\ cur_win_size = WinSize(last_win) /\ q \in Nat /\ cur_win_size = 4 * q
      /\ pcm_offset \in Nat /\ SecondHalf = pcm_offset + 2 * q
      /\ BufLen \in Nat /\ next \div 4 \in Nat
      /\ NextPcmOffset(next) = pcm_offset + 3 * q - next \div 4
  BY MovingFacts
<1>2. OutputBegin' = SecondHalf
  <2>1. StoreOffsets(next, SecondHalf, NextPcmOffset(next))
    BY DEF StayInPlace
  <2>2. SecondHalf \in Int /\ NextPcmOffset(next) \in Int
    BY <1>1
  <2> QED
    BY <2>1, <2>2, StoredBegin DEF Moving
<1>3. pcm_buffer' = Aged(pcm_buffer)
  BY DEF StayInPlace
<1> SUFFICES ASSUME NEW i \in Positions, i >= SecondHalf
             PROVE  pcm_buffer'[i] =
                      Term(1, last_win, PrevIndex(last_win, i - SecondHalf))
  BY <1>2 DEF HalfIsAtOutput
<1>4. PrevIndex(last_win, i - SecondHalf) = i - pcm_offset
  BY <1>1 DEF Positions, PrevIndex
<1>5. pcm_buffer[i] = Term(0, last_win, i - pcm_offset)
  BY NoWindowAssumption DEF Moving, IdleInv, Latest
<1> QED
  BY <1>3, <1>4, <1>5, TermAges

-----------------------------------------------------------------------------
(* The invariant                                                           *)

\* A new decode state holds nothing and has handed over nothing.
LEMMA InitRInv == BInit => RInv
  BY InitInv
  DEF BInit, RInv, ContentInv, EmptyInv, IdleInv, BegunInv, AddedInv,
      FollowInv, HandedInv

\* Announcing a position forgets what was handed over and nothing else.
LEMMA AnnounceRInv ==
  ASSUME RInv, IInv', NEW pos, setExpectedEndingPos(pos)
  PROVE  RInv'
<1>1. /\ phase = "idle" /\ phase' = "set" /\ handed' = NoPcm
      /\ UNCHANGED <<pcm_buffer, pcm_offset, cur_win_size, last_win>>
  BY DEF setExpectedEndingPos, offsets, sizes
<1>2. ContentInv'
  BY <1>1 DEF RInv, ContentInv, EmptyInv, IdleInv, BegunInv, AddedInv,
              SecondHalf, Latest
<1> QED
  BY <1>1, <1>2 DEF RInv, FollowInv, HandedInv

\* A packet that fails leaves the buffer as it is.
LEMMA FailRInv ==
  ASSUME RInv, IInv', PacketFails
  PROVE  RInv'
  BY ZenonT(30) DEF PacketFails, offsets, sizes, history, RInv, ContentInv, EmptyInv,
         IdleInv, BegunInv, AddedInv, FollowInv, HandedInv, IsLap

\* A packet begins: its window follows, the previous block is where output begins.
LEMMA BeginRInv ==
  ASSUME FlagsAgree, RInv, IInv', NEW w \in Shapes, advancePcmOffsetBeginAudioPacket(w)
  PROVE  RInv' /\ phase' = "begun"
<1> DEFINE next == WinSize(w)
<1>1. /\ phase = "set" /\ window' = w /\ last_win' = last_win /\ handed' = handed
      /\ last_win # NoWindow => Follows(last_win, w)
  BY DEF advancePcmOffsetBeginAudioPacket, history
<1>2. /\ next \in Sizes /\ next > 0
      /\ last_win \in Shapes \union {NoWindow}
      /\ cur_win_size = SizeOf(last_win) /\ cur_win_size \in Sizes
  BY <1>1, WindowSize DEF RInv, IInv, ControlInv, OffsetInv
<1>3. cur_win_size' = next /\ phase' = "begun"
  <2>1. CASE cur_win_size = 0
    BY <2>1 DEF advancePcmOffsetBeginAudioPacket, FirstBlock
  <2>2. CASE cur_win_size # 0
    <3>1. MoveLeft(next) \/ MoveRight(next) \/ StayInPlace(next)
      BY <2>2 DEF advancePcmOffsetBeginAudioPacket
    <3>2. OffsetInv /\ cur_win_size > 0
      BY <1>2, <2>2, SizeFacts DEF RInv, IInv
    <3>3. AdvancedTo(next)
      BY <1>2, <3>1, <3>2, LeftAdvances, RightAdvances, StayAdvances
    <3> QED
      BY <3>3 DEF AdvancedTo
  <2> QED
    BY <2>1, <2>2
<1>4. BegunInv'
  <2>1. CASE cur_win_size = 0
    <3>1. last_win = NoWindow
      BY <1>2, <2>1, WindowSize DEF SizeOf
    <3>2. pcm_buffer' = pcm_buffer
      BY <2>1 DEF advancePcmOffsetBeginAudioPacket, FirstBlock
    <3> QED
      BY <1>1, <2>1, <3>1, <3>2 DEF RInv, ContentInv, EmptyInv, BegunInv, Before
  <2>2. CASE cur_win_size # 0
    <3>1. MoveLeft(next) \/ MoveRight(next) \/ StayInPlace(next)
      BY <2>2 DEF advancePcmOffsetBeginAudioPacket
    <3>2. last_win \in Shapes
      BY <1>2, <2>2 DEF SizeOf
    <3>3. Moving(next)
      BY <1>1, <1>2, <1>3, <3>2 DEF RInv, ContentInv, Moving
    <3>4. HalfIsAtOutput
      BY <3>1, <3>3, LeftKeepsHalf, RightKeepsHalf, StayKeepsHalf
    <3>5. last_win' # NoWindow
      BY <1>1, <3>2, NoWindowAssumption
    <3> QED
      BY <1>1, <3>4, <3>5 DEF HalfIsAtOutput, BegunInv, Before
  <2> QED
    BY <2>1, <2>2
<1>5. EmptyInv' /\ IdleInv' /\ AddedInv'
  <2>1. cur_win_size' # 0
    BY <1>2, <1>3, SizeFacts
  <2> QED
    BY <1>3, <2>1 DEF EmptyInv, IdleInv, AddedInv
<1>6. FollowInv' /\ HandedInv'
  BY <1>1 DEF RInv, FollowInv, HandedInv, IsLap
<1> QED
  BY <1>3, <1>4, <1>5, <1>6 DEF RInv, ContentInv

\* The new block is added to what the one before has left.
LEMMA AddRInv ==
  ASSUME RInv, IInv', addPcmFrame
  PROVE  RInv' /\ phase' = "added"
<1>1. /\ phase = "begun" /\ window \in Shapes /\ cur_win_size = WinSize(window)
      /\ UNCHANGED <<pcm_offset, prev_second_half_window_offset, cur_win_size,
                    window, last_win, handed>>
  BY DEF addPcmFrame, RInv, IInv, ControlInv, offsets, sizes, history
<1>2. /\ phase' = "added"
      /\ pcm_buffer' = [i \in Positions |->
                          pcm_buffer[i] \union Term(0, window, i - pcm_offset)]
  BY <1>1, AddFits DEF addPcmFrame, RInv
<1>3. AddedInv'
  <2> SUFFICES ASSUME NEW i \in Positions, i >= OutputBegin'
               PROVE  pcm_buffer'[i] =
                        Before(i)' \union Term(0, window', i - pcm_offset')
    BY DEF AddedInv
  <2>1. OutputBegin' = OutputBegin /\ Before(i)' = Before(i)
    BY <1>1 DEF OutputBegin, Before
  <2>2. pcm_buffer[i] = Before(i)
    BY <1>1, <2>1 DEF RInv, ContentInv, BegunInv
  <2> QED
    BY <1>1, <1>2, <2>1, <2>2
<1>4. EmptyInv' /\ IdleInv' /\ BegunInv'
  <2>1. cur_win_size' # 0
    BY <1>1, WindowSize
  <2> QED
    BY <1>2, <2>1 DEF EmptyInv, IdleInv, BegunInv
<1>5. FollowInv' /\ HandedInv'
  BY <1>1, <1>2 DEF RInv, FollowInv, HandedInv, IsLap
<1> QED
  BY <1>2, <1>3, <1>4, <1>5 DEF RInv, ContentInv

\* From where output begins, the buffer holds the lap of the two blocks.
LEMMA BufferIsLap ==
  ASSUME RInv, phase = "added", last_win # NoWindow,
         NEW i \in Positions, i >= OutputBegin
  PROVE  pcm_buffer[i] = Lap(last_win, window, i - OutputBegin)
<1>1. /\ window \in Shapes /\ cur_win_size = WinSize(window)
      /\ last_win \in Shapes /\ prev_win_size = WinSize(last_win)
      /\ cur_win_size \in Sizes /\ prev_win_size \in Sizes
      /\ pcm_offset \in Nat
  BY DEF RInv, IInv, ControlInv, OffsetInv, SizeOf
<1>2. prev_second_half_window_offset = cur_win_size \div 4 - prev_win_size \div 4
  BY <1>1, WindowSize DEF RInv, IInv, OffsetInv
<1>3. cur_win_size \div 4 \in Nat /\ prev_win_size \div 4 \in Nat
  BY <1>1, SizeFacts
<1>4. i \in Int
  BY BufferAssumption DEF Positions
<1>5. CurIndex(last_win, window, i - OutputBegin) = i - pcm_offset
  BY <1>1, <1>2, <1>3, <1>4 DEF CurIndex, OutputBegin
<1>6. pcm_buffer[i] = Before(i) \union Term(0, window, i - pcm_offset)
  BY DEF RInv, ContentInv, AddedInv
<1> QED
  BY <1>5, <1>6 DEF Before, Lap

\* What a packet hands over, for every number of frames it may hand over.
LEMMA FramesAreLap ==
  ASSUME RInv, phase = "added", last_win # NoWindow,
         NEW n \in 0 .. ReadyFrames
  PROVE  Frames(n) = [k \in 1 .. n |-> Lap(last_win, window, k - 1)]
<1>1. /\ last_win \in Shapes /\ prev_win_size = WinSize(last_win)
      /\ ReadyFrames \in Nat
  BY ReadyIsLap DEF RInv, IInv, ControlInv, SizeOf
<1>2. /\ OutputBegin >= 0 /\ OutputBegin + ReadyFrames <= BufLen
      /\ OutputBegin \in Int
  <2>1. prev_win_size > 0
    BY <1>1, WindowSize
  <2>2. InBounds
    BY InvAccesses DEF RInv
  <2>3. OutputBegin \in Int
    BY DEF OutputBegin, RInv, IInv, OffsetInv
  <2> QED
    BY <2>1, <2>2, <2>3 DEF InBounds
<1>3. ASSUME NEW k \in 1 .. n
      PROVE  pcm_buffer[OutputBegin + k - 1] = Lap(last_win, window, k - 1)
  <2> DEFINE i == OutputBegin + k - 1
  <2>1. i \in Positions /\ i >= OutputBegin /\ i - OutputBegin = k - 1
    BY <1>1, <1>2, BufferAssumption DEF Positions
  <2> HIDE DEF i
  <2>2. pcm_buffer[i] = Lap(last_win, window, i - OutputBegin)
    BY <2>1, BufferIsLap
  <2> QED
    BY <2>1, <2>2 DEF i
<1> QED
  BY <1>3 DEF Frames

\* The samples of a packet, as many as are due, are handed over or refused.
HandsOver(n) ==
  /\ n \in 0 .. LapLength(last_win, window)
  /\ IF expected_ending_total_pos < 0
     THEN n = LapLength(last_win, window)
     ELSE abs_total_pos + n = expected_ending_total_pos
  /\ handed' =
       IF n = 0 THEN handed
       ELSE [prev |-> last_win, cur |-> window,
             frames |-> [k \in 1 .. n |-> Lap(last_win, window, k - 1)]]
  /\ \/ /\ phase' = "idle" /\ last_win' = window
        /\ abs_total_pos' = abs_total_pos + n
     \/ /\ n > 0 /\ phase' = "stopped"
        /\ UNCHANGED <<last_win, abs_total_pos>>

\* forwardReadyPcm hands over a lap, or the stream ends without any samples.
LEMMA ForwardHands ==
  ASSUME RInv, NEW callback_ok \in BOOLEAN, forwardReadyPcm(callback_ok)
  PROVE  \/ /\ phase' = "stopped"
            /\ UNCHANGED <<handed, last_win, abs_total_pos>>
         \/ \E n \in Nat : HandsOver(n)
<1>1. phase = "added"
  BY DEF forwardReadyPcm
<1>2. FramesConsistent /\ ReadyFrames = LapLength(last_win, window)
      /\ ReadyFrames \in Nat
  BY <1>1, ReadyIsLap DEF RInv
<1>3. CASE ~PositionReachable
  <2>1. Stop("stream") /\ UNCHANGED handed
    BY <1>2, <1>3 DEF forwardReadyPcm
  <2> QED
    BY <2>1 DEF Stop
<1>4. CASE PositionReachable
  <2> DEFINE n == NumFrames
  <2>1. /\ n \in 0 .. ReadyFrames
        /\ expected_ending_total_pos >= 0 =>
             abs_total_pos + n = expected_ending_total_pos
        /\ expected_ending_total_pos < 0 => n = ReadyFrames
        /\ expected_ending_total_pos \in Int /\ abs_total_pos \in Nat
    BY <1>1, <1>4, FramesInLap DEF RInv, IInv, ControlInv
  <2>2. IF n = 0 THEN Finish(0) /\ UNCHANGED handed
        ELSE /\ handed' = [prev |-> last_win, cur |-> window, frames |-> Frames(n)]
             /\ Finish(n) \/ Stop("callback")
    BY <1>2, <1>4 DEF forwardReadyPcm
  <2>3. n # 0 => Frames(n) = [k \in 1 .. n |-> Lap(last_win, window, k - 1)]
    <3>1. ASSUME n # 0
          PROVE  last_win # NoWindow
      BY <1>2, <2>1, <3>1 DEF LapLength
    <3> HIDE DEF n
    <3> QED
      BY <1>1, <2>1, <3>1, FramesAreLap
  <2> HIDE DEF n
  <2>4. ASSUME Finish(n)
        PROVE  phase' = "idle" /\ last_win' = window
               /\ abs_total_pos' = abs_total_pos + n
    BY <2>1, <2>4 DEF Finish
  <2>5. Finish(n) \/ (n # 0 /\ Stop("callback"))
    BY <2>2
  <2>6. handed' = IF n = 0 THEN handed
                  ELSE [prev |-> last_win, cur |-> window,
                        frames |-> [k \in 1 .. n |-> Lap(last_win, window, k - 1)]]
    BY <2>2, <2>3
  <2>7. \/ /\ phase' = "idle" /\ last_win' = window
           /\ abs_total_pos' = abs_total_pos + n
        \/ /\ n > 0 /\ phase' = "stopped"
           /\ UNCHANGED <<last_win, abs_total_pos>>
    BY <1>2, <2>1, <2>4, <2>5 DEF Stop
  <2>8. /\ n \in Nat /\ n \in 0 .. LapLength(last_win, window)
        /\ IF expected_ending_total_pos < 0
           THEN n = LapLength(last_win, window)
           ELSE abs_total_pos + n = expected_ending_total_pos
    BY <1>2, <2>1
  <2>9. HandsOver(n)
    BY <2>6, <2>7, <2>8 DEF HandsOver
  <2> QED
    BY <2>8, <2>9
<1> QED
  BY <1>3, <1>4

\* Nothing of the previous block is left behind the lap.
LEMMA ForwardRInv ==
  ASSUME FlagsAgree, RInv, IInv',
         NEW callback_ok \in BOOLEAN, forwardReadyPcm(callback_ok)
  PROVE  RInv'
<1>1. /\ phase = "added"
      /\ UNCHANGED <<pcm_buffer, pcm_offset, prev_second_half_window_offset,
                    prev_win_size, cur_win_size, window>>
  BY DEF forwardReadyPcm, offsets, sizes
<1>2. /\ window \in Shapes /\ cur_win_size = WinSize(window)
      /\ last_win \in Shapes \union {NoWindow}
      /\ pcm_offset \in Nat
      /\ cur_win_size > 0 /\ cur_win_size \in Nat
      /\ cur_win_size \div 2 = 2 * (cur_win_size \div 4)
      /\ cur_win_size \div 4 \in Nat
  BY <1>1, WindowSize, SizeFacts DEF RInv, IInv, ControlInv, OffsetInv
<1>3. \/ phase' = "stopped"
      \/ phase' = "idle" /\ last_win' = window
  BY ForwardHands DEF HandsOver
<1>4. ASSUME NEW i \in Positions, i >= SecondHalf
      PROVE  pcm_buffer[i] = Term(0, window, i - pcm_offset)
  <2>1. i \in Int
    BY BufferAssumption DEF Positions
  <2>2. CASE last_win = NoWindow
    <3>1. OutputBegin = pcm_offset
      BY <1>1, <1>2, <2>2
      DEF RInv, IInv, ControlInv, OffsetInv, SizeOf, OutputBegin
    <3>2. i >= OutputBegin
      BY <1>2, <1>4, <2>1, <3>1 DEF SecondHalf
    <3> QED
      BY <1>1, <2>2, <3>2 DEF RInv, ContentInv, AddedInv, Before
  <2>3. CASE last_win # NoWindow
    <3> DEFINE p == i - OutputBegin
    <3>1. /\ last_win \in Shapes /\ prev_win_size = WinSize(last_win)
          /\ prev_win_size > 0 /\ prev_win_size \div 4 \in Nat
      <4>1. last_win \in Shapes /\ prev_win_size = WinSize(last_win)
        BY <1>1, <1>2, <2>3 DEF RInv, IInv, ControlInv, SizeOf
      <4> QED
        BY <4>1, WindowSize, SizeFacts
    <3>2. OutputBegin = pcm_offset + (cur_win_size \div 4 - prev_win_size \div 4)
      BY <3>1 DEF RInv, IInv, OffsetInv, OutputBegin
    <3>3. LapLength(last_win, window) = prev_win_size \div 4 + cur_win_size \div 4
      BY <1>2, <2>3, <3>1 DEF LapLength
    <3>4. p \in Nat /\ p >= LapLength(last_win, window) /\ i >= OutputBegin
      BY <1>2, <1>4, <2>1, <3>1, <3>2, <3>3 DEF SecondHalf
    <3>5. Follows(last_win, window)
      BY <1>1, <2>3 DEF RInv, FollowInv
    <3>6. Term(1, last_win, PrevIndex(last_win, p)) = {}
      <4> HIDE DEF p
      <4> QED
        BY <1>2, <3>1, <3>4, <3>5, SilentBehindLap
    <3>7. pcm_buffer[i] = Before(i) \union Term(0, window, i - pcm_offset)
      BY <1>1, <3>4 DEF RInv, ContentInv, AddedInv
    <3> QED
      BY <2>3, <3>6, <3>7 DEF Before
  <2> QED
    BY <2>2, <2>3
<1>5. ContentInv'
  <2>1. EmptyInv'
    BY <1>1, <1>2 DEF EmptyInv
  <2>2. IdleInv'
    <3> SUFFICES ASSUME phase' \in {"idle", "set"}, NEW i \in Positions,
                        i >= SecondHalf'
                 PROVE  pcm_buffer'[i] = Latest(i)'
      BY DEF IdleInv
    <3>1. SecondHalf' = SecondHalf
      BY <1>1 DEF SecondHalf
    <3>2. Latest(i)' = Term(0, window, i - pcm_offset)
      BY <1>1, <1>3 DEF Latest
    <3> QED
      BY <1>1, <1>4, <3>1, <3>2
  <2>3. BegunInv' /\ AddedInv'
    BY <1>3 DEF BegunInv, AddedInv
  <2> QED
    BY <2>1, <2>2, <2>3 DEF ContentInv
<1>6. FollowInv'
  BY <1>3 DEF FollowInv
<1>7. HandedInv'
  <2>1. CASE handed' = handed
    BY <2>1 DEF RInv, HandedInv, IsLap
  <2>2. CASE handed' # handed
    <3>1. PICK n \in Nat : HandsOver(n)
      BY <2>2, ForwardHands
    <3>2. /\ n # 0 /\ n \in 0 .. LapLength(last_win, window)
          /\ handed'.prev = last_win /\ handed'.cur = window
          /\ handed'.frames = [k \in 1 .. n |-> Lap(last_win, window, k - 1)]
      BY <2>2, <3>1 DEF HandsOver
    <3>3. last_win # NoWindow
      BY <3>2 DEF LapLength
    <3>4. last_win \in Shapes /\ Follows(last_win, window)
      BY <1>1, <1>2, <3>3 DEF RInv, FollowInv
    <3>5. IsLap(handed')
      BY <1>2, <3>2, <3>4 DEF IsLap
    <3> QED
      BY <3>5 DEF HandedInv, IsLap
  <2> QED
    BY <2>1, <2>2
<1> QED
  BY <1>5, <1>6, <1>7 DEF RInv

\* Every operation keeps the contents, as long as the flags match the blocks.
THEOREM StepRInv ==
  ASSUME FlagsAgree
  PROVE  RInv /\ [BNext]_bvars => RInv'
<1> SUFFICES ASSUME RInv, [BNext]_bvars PROVE RInv'
  OBVIOUS
<1>1. IInv'
  BY StepInv DEF RInv
<1>2. CASE UNCHANGED bvars
  <2>1. UNCHANGED <<pcm_buffer, pcm_offset, prev_second_half_window_offset,
                    cur_win_size, phase, window, last_win, handed>>
    BY <1>2 DEF bvars, offsets, sizes, history
  <2>2. ContentInv'
    BY <2>1 DEF RInv, ContentInv, EmptyInv, IdleInv, BegunInv, AddedInv,
                SecondHalf, OutputBegin, Latest, Before
  <2> QED
    BY <1>1, <2>1, <2>2 DEF RInv, FollowInv, HandedInv, IsLap
<1> QED
  BY <1>1, <1>2, AnnounceRInv, FailRInv, BeginRInv, AddRInv, ForwardRInv DEF BNext

\* With flags that match, the contents of the buffer are always known.
THEOREM RInvariance ==
  ASSUME FlagsAgree
  PROVE  BSpec => []RInv
  BY InitRInv, StepRInv, PTL DEF BSpec

-----------------------------------------------------------------------------
(* The properties                                                          *)

\* A weight is a fraction of integers.
LEMMA WeightType ==
  ASSUME NEW w \in Shapes, NEW i \in Int
  PROVE  WeightAt(w, i)[1] \in Int
<1>1. /\ LeftLen(WinIdx(w)) \in Int /\ RightLen(WinIdx(w)) \in Int
      /\ LeftBegin(WinSize(w), WinIdx(w)) \in Int
      /\ RightBegin(WinSize(w), WinIdx(w)) \in Int
  BY Slopes
<1>2. Weight(w, i)[1] \in Int
  BY <1>1 DEF Weight, Table, One, Zero
<1> QED
  BY <1>2 DEF WeightAt, Zero

\* Complementary weights cannot both be zero, in either order.
LEMMA ComplementaryFacts ==
  ASSUME NEW x, NEW y, Complementary(x, y), x[1] \in Int, y[1] \in Int
  PROVE  Complementary(y, x) /\ (x # Zero \/ y # Zero)
<1>1. Complementary(y, x)
  BY DEF Complementary
<1>2. Zero[1] = 0 /\ Zero[2] = 1
  BY DEF Zero
<1> QED
  BY <1>1, <1>2 DEF Complementary

(***************************************************************************)
(* Perfect reconstruction, for all block sizes and sequences of blocks     *)
(* whose flags match: every sample handed over is the sum of the two       *)
(* blocks that meet there, with weights that cancel the aliasing, and of   *)
(* nothing that an older block left in the buffer.                         *)
(***************************************************************************)
THEOREM Reconstructs ==
  ASSUME FlagsAgree
  PROVE  BSpec => []Reconstruction
<1>1. HandedInv => Reconstruction
  <2> SUFFICES ASSUME HandedInv, NEW k \in DOMAIN handed.frames
               PROVE
    LET p      == k - 1
        values == handed.frames[k]
        w(age) == IF age = 1
                  THEN WeightAt(handed.prev, PrevIndex(handed.prev, p))
                  ELSE WeightAt(handed.cur, CurIndex(handed.prev, handed.cur, p))
    IN /\ values \subseteq {<<1, PrevIndex(handed.prev, p)>>,
                            <<0, CurIndex(handed.prev, handed.cur, p)>>}
       /\ values # {}
       /\ \A age \in {0, 1} :
            w(age) # Zero => \E v \in values : v[1] = age
       /\ Complementary(w(0), w(1))
    BY DEF Reconstruction
  <2>1. IsLap(handed)
    BY DEF HandedInv, NoPcm
  <2> DEFINE w1 == handed.prev
             w2 == handed.cur
             p  == k - 1
             i1 == PrevIndex(w1, p)
             i2 == CurIndex(w1, w2, p)
             x1 == WeightAt(w1, i1)
             x2 == WeightAt(w2, i2)
  <2>2. w1 \in Shapes /\ w2 \in Shapes /\ Follows(w1, w2)
    BY <2>1 DEF IsLap
  <2>3. PICK n \in 0 .. LapLength(w1, w2) :
          handed.frames = [j \in 1 .. n |-> Lap(w1, w2, j - 1)]
    BY <2>1 DEF IsLap
  <2>4. LapLength(w1, w2) \in Nat
    BY <2>2, Slopes, NoWindowAssumption DEF LapLength
  <2>5. k \in 1 .. n /\ p \in 0 .. LapLength(w1, w2) - 1
    BY <2>3, <2>4
  <2>6. handed.frames[k] = Term(1, w1, i1) \union Term(0, w2, i2)
    BY <2>3, <2>5 DEF Lap
  <2>7. Complementary(x1, x2)
    BY <2>2, <2>5, LapCancels
  <2>8. Complementary(x2, x1) /\ (x1 # Zero \/ x2 # Zero)
    <3>1. i1 \in Int /\ i2 \in Int
      BY <2>2, <2>4, <2>5, Slopes DEF PrevIndex, CurIndex
    <3>2. x1[1] \in Int /\ x2[1] \in Int
      BY <2>2, <3>1, WeightType
    <3> HIDE DEF x1, x2
    <3> QED
      BY <2>7, <3>2, ComplementaryFacts
  <2>9. /\ x1 = Zero => Term(1, w1, i1) = {}
        /\ x1 # Zero => Term(1, w1, i1) = {<<1, i1>>}
        /\ x2 = Zero => Term(0, w2, i2) = {}
        /\ x2 # Zero => Term(0, w2, i2) = {<<0, i2>>}
    BY DEF Term
  <2> DEFINE values == handed.frames[k]
             w(age) == IF age = 1 THEN x1 ELSE x2
  <2>10. w(0) = x2 /\ w(1) = x1
    OBVIOUS
  <2>11. values \subseteq {<<1, i1>>, <<0, i2>>} /\ values # {}
    BY <2>6, <2>8, <2>9
  <2>12. /\ x1 # Zero => <<1, i1>> \in values
         /\ x2 # Zero => <<0, i2>> \in values
    BY <2>6, <2>9
  <2>13. ASSUME NEW age \in {0, 1}, w(age) # Zero
         PROVE  \E v \in values : v[1] = age
    <3>1. <<1, i1>>[1] = 1 /\ <<0, i2>>[1] = 0
      OBVIOUS
    <3> HIDE DEF values, x1, x2, i1, i2
    <3> QED
      BY <2>12, <2>13, <3>1
  <2>14. Complementary(w(0), w(1))
    BY <2>8, <2>10
  <2> QED
    BY <2>11, <2>13, <2>14
<1>2. RInv => HandedInv
  BY DEF RInv
<1> QED
  BY <1>1, <1>2, RInvariance, PTL

-----------------------------------------------------------------------------
(* The refinement                                                          *)

\* LappedOutput means the same windows and the same lap as PcmBuffer.
LEMMA SameLapping ==
  /\ Lapped!Shapes = Shapes
  /\ Lapped!NoPcm = NoPcm
  /\ \A w1, w2 : Lapped!LapLength(w1, w2) = LapLength(w1, w2)
  /\ \A w1, w2, p : Lapped!Lap(w1, w2, p) = Lap(w1, w2, p)
<1>1. Lapped!Shapes = Shapes
  BY DEF Lapped!Shapes, Lapped!Shape, Shapes, Shape
<1>2. Lapped!NoPcm = NoPcm
  BY DEF Lapped!NoPcm, NoPcm
<1>3. \A w : Lapped!WinSize(w) = WinSize(w)
  BY DEF Lapped!WinSize, Lapped!BlocksizeOf, WinSize, BlocksizeOf
<1>4. \A w1, w2 : Lapped!LapLength(w1, w2) = LapLength(w1, w2)
  BY <1>3 DEF Lapped!LapLength, LapLength
<1>5. \A w, i : Lapped!Weight(w, i) = Weight(w, i)
  BY DEF Lapped!Weight, Lapped!Table, Lapped!WinSize, Lapped!WinIdx,
         Lapped!LeftLen, Lapped!RightLen, Lapped!LeftBegin, Lapped!RightBegin,
         Lapped!IdxPrev, Lapped!IdxNext, Lapped!BlocksizeOf, Lapped!Zero, Lapped!One,
         Weight, Table, WinSize, WinIdx, LeftLen, RightLen, LeftBegin, RightBegin,
         IdxPrev, IdxNext, BlocksizeOf, Zero, One
<1>6. \A w, i : Lapped!WeightAt(w, i) = WeightAt(w, i)
  BY <1>3, <1>5 DEF Lapped!WeightAt, WeightAt, Lapped!Zero, Zero
<1>7. \A age, w, i : Lapped!Term(age, w, i) = Term(age, w, i)
  BY <1>6 DEF Lapped!Term, Term, Lapped!Zero, Zero
<1>8. \A w1, w2, p : /\ Lapped!PrevIndex(w1, p) = PrevIndex(w1, p)
                     /\ Lapped!CurIndex(w1, w2, p) = CurIndex(w1, w2, p)
  BY <1>3 DEF Lapped!PrevIndex, PrevIndex, Lapped!CurIndex, CurIndex
<1>9. \A w1, w2, p : Lapped!Lap(w1, w2, p) = Lap(w1, w2, p)
  BY <1>7, <1>8 DEF Lapped!Lap, Lap
<1> QED
  BY <1>1, <1>2, <1>4, <1>9

\* The samples of one packet, handed over or refused, are a step of LappedOutput.
LEMMA ForwardMaps ==
  ASSUME RInv, NEW callback_ok \in BOOLEAN, forwardReadyPcm(callback_ok)
  PROVE  Lapped!Next
<1>1. /\ phase = "added" /\ window \in Shapes
      /\ expected_ending_total_pos' = expected_ending_total_pos
  BY DEF forwardReadyPcm, RInv, IInv, ControlInv
<1>2. CASE /\ phase' = "stopped"
           /\ UNCHANGED <<handed, last_win, abs_total_pos>>
  <2>1. Lapped!Close
    BY <1>1, <1>2 DEF Lapped!Close
  <2> QED
    BY <2>1 DEF Lapped!Next
<1>3. ASSUME NEW n \in Nat, HandsOver(n)
      PROVE  Lapped!Next
  <2>1. Lapped!Output(window, n) =
          [prev |-> last_win, cur |-> window,
           frames |-> [k \in 1 .. n |-> Lap(last_win, window, k - 1)]]
    BY SameLapping DEF Lapped!Output
  <2>2. n \in 0 .. Lapped!LapLength(last_win, window)
    BY <1>3, SameLapping DEF HandsOver
  <2>3. Lapped!Due(window, n)
    BY <1>3, <2>2, SameLapping DEF HandsOver, Lapped!Due
  <2>4. CASE phase' = "idle"
    <3>1. Lapped!Packet(window, n)
      BY <1>1, <1>3, <2>1, <2>3, <2>4 DEF HandsOver, Lapped!Packet
    <3> QED
      BY <1>1, <2>2, <3>1, SameLapping DEF Lapped!Next
  <2>5. CASE phase' # "idle"
    <3>1. Lapped!Refused(window, n)
      BY <1>1, <1>3, <2>1, <2>3, <2>5 DEF HandsOver, Lapped!Refused
    <3> QED
      BY <1>1, <2>2, <3>1, SameLapping DEF Lapped!Next
  <2> QED
    BY <2>4, <2>5
<1> QED
  BY <1>2, <1>3, ForwardHands

\* Every step is one of LappedOutput, or changes nothing that it sees.
LEMMA StepMaps ==
  ASSUME FlagsAgree, RInv, IInv', [BNext]_bvars
  PROVE  [Lapped!Next]_(Lapped!vars)
<1>1. ASSUME NEW pos \in GranulePositions, setExpectedEndingPos(pos)
      PROVE  Lapped!Next
  <2>1. pos \in Int
    BY DEF GranulePositions, RInv, IInv, ControlInv
  <2>2. Lapped!Announce
    BY <1>1, <2>1, SameLapping DEF setExpectedEndingPos, Lapped!Announce
  <2> QED
    BY <2>2 DEF Lapped!Next
<1>2. CASE PacketFails
  <2>1. Lapped!Close
    BY <1>2 DEF PacketFails, history, Lapped!Close
  <2> QED
    BY <2>1 DEF Lapped!Next
<1>3. ASSUME NEW w \in Shapes, advancePcmOffsetBeginAudioPacket(w)
      PROVE  UNCHANGED Lapped!vars
  <2>1. phase = "set" /\ phase' = "begun"
    BY <1>3, BeginRInv DEF advancePcmOffsetBeginAudioPacket
  <2> QED
    BY <1>3, <2>1 DEF advancePcmOffsetBeginAudioPacket, history, Lapped!vars
<1>4. CASE addPcmFrame
  <2>1. phase = "begun" /\ phase' = "added"
    BY <1>4, AddRInv DEF addPcmFrame
  <2> QED
    BY <1>4, <2>1 DEF addPcmFrame, history, Lapped!vars
<1>5. CASE UNCHANGED bvars
  BY <1>5 DEF bvars, history, Lapped!vars
<1> QED
  BY <1>1, <1>2, <1>3, <1>4, <1>5, ForwardMaps DEF BNext

(***************************************************************************)
(* The buffer with its moves implements the output without a buffer: every *)
(* packet hands over the lap of its block and the one before, up to the    *)
(* announced position, for all block sizes and sequences of blocks whose   *)
(* flags match.                                                            *)
(***************************************************************************)
THEOREM BufferImplementsLapping ==
  ASSUME FlagsAgree
  PROVE  BSpec => ImplementsLapping
<1>1. BInit => Lapped!Init
  BY SameLapping DEF BInit, Lapped!Init
<1>2. RInv /\ RInv' /\ [BNext]_bvars => [Lapped!Next]_(Lapped!vars)
  BY StepMaps DEF RInv
<1> QED
  BY <1>1, <1>2, RInvariance, PTL DEF BSpec, ImplementsLapping, Lapped!Spec

=============================================================================
