-------------------------- MODULE OggReaderProofs ---------------------------
(***************************************************************************)
(* Proofs about OggReader for any set of serial numbers and any input: the *)
(* decoders that are registered, the pushes, the positions of pages, and   *)
(* that a listener hears what StreamListener promises.                     *)
(*                                                                         *)
(* The page that is being parsed belongs to an open stream for as long as  *)
(* the reader reads, so everything a packet does it does to a stream in    *)
(* the map; the rest is about the counters of that stream.                 *)
(***************************************************************************)
EXTENDS OggReader, TLAPS

\* The page in progress has its stream, which has a packet when it is done.
PageInv ==
  status = "reading" /\ page # NoPage =>
    /\ page.serial \in Open
    /\ page.done => streams_[page.serial].packets >= 1

\* No samples are out before the second audio packet.
TotalInv == \A s \in Open : streams_[s].audio <= 1 => streams_[s].total = 0

RInv ==
  /\ RTypeOK
  /\ PageInv
  /\ TotalInv
  /\ DecodersHaveStreams
  /\ PushesAreRegistered
  /\ PagesEndAtTheirPosition

-----------------------------------------------------------------------------
(* The parts of an operation                                               *)

\* A stream in the map has counters that fit each other.
LEMMA StreamFacts ==
  ASSUME RTypeOK, NEW s \in Open
  PROVE  /\ s \in Serials
         /\ streams_[s].packets \in Nat /\ streams_[s].audio \in Nat
         /\ streams_[s].total \in Nat
         /\ streams_[s].audio = IF streams_[s].packets > 3 THEN streams_[s].packets - 3 ELSE 0
  BY DEF RTypeOK, Streams

\* A packet is parsed for a page that is not done, of a stream in the map.
LEMMA PacketFacts ==
  ASSUME RInv, NEW final, ParsePacket(final)
  PROVE  /\ status = "reading" /\ page \in Pages /\ page # NoPage /\ ~page.done
         /\ page.serial \in Open /\ page.serial \in Serials
         /\ page.granule \in Int
  BY DEF RInv, RTypeOK, PageInv, ParsePacket, Pages, Granules

\* A packet that was parsed changes its stream's counters and no other stream.
LEMMA CountedFacts ==
  ASSUME RInv, NEW final \in BOOLEAN, ParsePacket(final), NEW st, Counted(final, st)
  PROVE  /\ DOMAIN streams_' = Open
         /\ streams_'[page.serial] = [st EXCEPT !.packets = @ + 1]
         /\ \A s \in Open \ {page.serial} : streams_'[s] = streams_[s]
         /\ status' = status /\ packet_counts_' = packet_counts_ + 1
         /\ page' \in Pages /\ page' # NoPage
         /\ page'.serial = page.serial /\ page'.done = final
         /\ page'.granule = page.granule
<1>1. page \in Pages /\ page.serial \in Open
  BY PacketFacts
<1>2. page' = [page EXCEPT !.done = final]
  BY DEF Counted
<1>3. /\ page' \in Pages
      /\ page'.serial = page.serial /\ page'.done = final /\ page'.granule = page.granule
  BY <1>1, <1>2 DEF Pages
<1>4. page' # NoPage
  BY <1>1, <1>3, ReaderAssumption DEF NoPage, Pages
<1> QED
  BY <1>1, <1>3, <1>4 DEF Counted, Open

(***************************************************************************)
(* A header packet that is accepted: the counters fit, if the decoder is   *)
(* registered exactly from the third on.                                   *)
(***************************************************************************)
LEMMA HeaderKeeps ==
  ASSUME RInv, NEW final \in BOOLEAN, ParsePacket(final),
         streams_[page.serial].packets < 3,
         Counted(final, streams_[page.serial]),
         registered' = IF streams_[page.serial].packets = 2
                       THEN registered \union {page.serial} ELSE registered,
         pushed' = IF streams_[page.serial].packets = 2 THEN page.serial ELSE NoSerial,
         pages_read' \in Nat, refused' \in BOOLEAN
  PROVE  RInv'
<1> DEFINE s == page.serial
           st == streams_[s]
<1>1. /\ status = "reading" /\ s \in Open /\ s \in Serials
  BY PacketFacts
<1>2. /\ DOMAIN streams_' = Open
      /\ streams_'[s] = [st EXCEPT !.packets = @ + 1]
      /\ \A u \in Open \ {s} : streams_'[u] = streams_[u]
      /\ status' = status /\ packet_counts_' = packet_counts_ + 1
      /\ page' \in Pages /\ page' # NoPage
      /\ page'.serial = s /\ page'.done = final
  BY CountedFacts
<1>3. /\ st \in Streams /\ st.packets \in 0 .. 2 /\ st.audio = 0 /\ st.total = 0
  BY <1>1, StreamFacts DEF RInv, RTypeOK, TotalInv
<1>4. /\ streams_'[s] \in Streams
      /\ streams_'[s].packets = st.packets + 1
      /\ streams_'[s].audio = 0 /\ streams_'[s].total = 0
  BY <1>2, <1>3 DEF Streams
<1>5. RTypeOK'
  <2>1. ASSUME NEW u \in Open
        PROVE  /\ streams_'[u] \in Streams
               /\ streams_'[u].audio =
                    IF streams_'[u].packets > 3 THEN streams_'[u].packets - 3 ELSE 0
    <3>1. CASE u = s
      <4>1. ~ (streams_'[s].packets > 3)
        BY <1>3, <1>4
      <4> QED
        BY <1>4, <3>1, <4>1
    <3>2. CASE u # s
      BY <1>2, <3>2 DEF RInv, RTypeOK
    <3> QED
      BY <3>1, <3>2
  <2>2. packet_counts_' \in Nat
    BY <1>2 DEF RInv, RTypeOK
  <2> QED
    BY <1>1, <1>2, <2>1, <2>2 DEF RInv, RTypeOK, Open
<1>6. PageInv'
  <2>1. streams_'[page'.serial].packets >= 1
    <3>1. st.packets + 1 >= 1
      BY <1>3
    <3>2. streams_'[page'.serial].packets = st.packets + 1
      BY <1>2, <1>4, Zenon
    <3> QED
      BY <3>1, <3>2
  <2>2. page'.serial \in Open'
    BY <1>1, <1>2 DEF Open
  <2> QED
    BY <2>1, <2>2 DEF PageInv
<1>7. TotalInv'
  BY <1>2, <1>4 DEF RInv, TotalInv, Open
<1>8. DecodersHaveStreams'
  <2>1. registered \subseteq registered' /\ registered' \subseteq registered \union {s}
    OBVIOUS
  <2>2. s \in registered' <=> st.packets = 2
    <3>1. s \notin registered
      BY <1>1, <1>3 DEF RInv, DecodersHaveStreams
    <3> QED
      BY <3>1
  <2>3. streams_'[s].packets >= 3 <=> st.packets = 2
    BY <1>3, <1>4
  <2>4. ASSUME NEW u \in Open, u # s
        PROVE  /\ streams_'[u].packets >= 3 => u \in registered'
               /\ u \in registered' => streams_'[u].packets >= 3
    BY <1>1, <1>2, <2>1, <2>4 DEF RInv, DecodersHaveStreams
  <2>5. registered' \subseteq Open
    BY <1>1, <2>1 DEF RInv, DecodersHaveStreams
  <2> QED
    BY <1>2, <2>2, <2>3, <2>4, <2>5 DEF DecodersHaveStreams, Open
<1>9. PushesAreRegistered'
  BY <1>3 DEF PushesAreRegistered
<1>10. PagesEndAtTheirPosition'
  <2>1. streams_'[page'.serial].audio = 0
    BY <1>2, <1>4
  <2>2. ~ (streams_'[page'.serial].audio > 0)
    BY <2>1
  <2> QED
    BY <2>2 DEF PagesEndAtTheirPosition
<1> QED
  BY <1>5, <1>6, <1>7, <1>8, <1>9, <1>10 DEF RInv

(***************************************************************************)
(* A failure: the streams and the page stay, and what was registered or    *)
(* pushed before it fits.                                                  *)
(***************************************************************************)
LEMMA FailKeeps ==
  ASSUME RInv, Fail, status = "reading",
         \/ registered' = registered /\ pushed' \in registered \union {NoSerial}
         \/ /\ refused' /\ pushed' \in Open
            /\ registered' = registered \union {pushed'},
         pages_read' \in Nat, refused' \in BOOLEAN
  PROVE  RInv'
<1>1. /\ streams_' = streams_ /\ page' = page /\ packet_counts_' = packet_counts_
      /\ status' = "error" /\ Open' = Open
  BY DEF Fail, Open
<1>2. RTypeOK'
  BY <1>1 DEF RInv, RTypeOK, DecodersHaveStreams
<1>3. PageInv' /\ TotalInv' /\ PagesEndAtTheirPosition'
  BY <1>1 DEF RInv, PageInv, TotalInv, PagesEndAtTheirPosition
<1>4. DecodersHaveStreams'
  BY <1>1 DEF RInv, DecodersHaveStreams
<1>5. PushesAreRegistered'
  BY DEF PushesAreRegistered
<1> QED
  BY <1>2, <1>3, <1>4, <1>5 DEF RInv

\* What an audio packet of so many frames makes of a stream's counters.
LEMMA AudioCounters ==
  ASSUME NEW st \in Streams, NEW frames \in Nat, NEW new,
         new = [[st EXCEPT !.audio = @ + 1, !.total = @ + frames]
                  EXCEPT !.packets = @ + 1]
  PROVE  /\ new \in Streams
         /\ new.packets = st.packets + 1
         /\ new.audio = st.audio + 1
         /\ new.total = st.total + frames
<1> DEFINE audio == [st EXCEPT !.audio = @ + 1, !.total = @ + frames]
<1>1. st.packets + 1 \in Nat /\ st.audio + 1 \in Nat /\ st.total + frames \in Nat
  BY DEF Streams
<1>2. /\ audio \in Streams
      /\ audio.packets = st.packets
      /\ audio.audio = st.audio + 1 /\ audio.total = st.total + frames
  BY <1>1 DEF Streams
<1>3. new = [audio EXCEPT !.packets = st.packets + 1]
  BY <1>2
<1> HIDE DEF audio
<1> QED
  BY <1>1, <1>2, <1>3 DEF Streams

(***************************************************************************)
(* An audio packet that is parsed: its samples come after those already    *)
(* out, up to the page's position if it is the page's last, and none with  *)
(* the stream's first audio packet.                                        *)
(***************************************************************************)
LEMMA AudioKeeps ==
  ASSUME RInv, NEW final \in BOOLEAN, ParsePacket(final), NEW frames \in Nat,
         streams_[page.serial].packets >= 3,
         streams_[page.serial].audio = 0 => frames = 0,
         Announced(final) >= 0 => frames = Announced(final) - streams_[page.serial].total,
         Counted(final, [streams_[page.serial] EXCEPT !.audio = @ + 1,
                                                      !.total = @ + frames]),
         registered' = registered, pushed' = page.serial,
         pages_read' \in Nat, refused' \in BOOLEAN
  PROVE  RInv'
<1> DEFINE s == page.serial
           st == streams_[s]
           audio == [st EXCEPT !.audio = @ + 1, !.total = @ + frames]
<1>1. /\ status = "reading" /\ s \in Open /\ s \in Serials /\ page.granule \in Int
  BY PacketFacts
<1>2. /\ DOMAIN streams_' = Open
      /\ streams_'[s] = [audio EXCEPT !.packets = @ + 1]
      /\ \A u \in Open \ {s} : streams_'[u] = streams_[u]
      /\ status' = status /\ packet_counts_' = packet_counts_ + 1
      /\ page' \in Pages /\ page' # NoPage
      /\ page'.serial = s /\ page'.done = final /\ page'.granule = page.granule
  BY CountedFacts
<1>3. /\ st \in Streams /\ st.packets \in Nat /\ st.packets >= 3
      /\ st.audio = IF st.packets > 3 THEN st.packets - 3 ELSE 0
      /\ st.audio <= 1 => st.total = 0
      /\ st.total \in Nat
  BY <1>1, StreamFacts DEF RInv, RTypeOK, TotalInv
<1>4. st.audio = st.packets - 3 /\ st.audio \in Nat
  BY <1>3
<1>5. /\ streams_'[s] \in Streams
      /\ streams_'[s].packets = st.packets + 1
      /\ streams_'[s].audio = st.audio + 1
      /\ streams_'[s].total = st.total + frames
  <2>1. streams_'[s] = [audio EXCEPT !.packets = @ + 1]
    BY <1>2
  <2> QED
    BY <2>1, <1>3, AudioCounters
<1>6. RTypeOK'
  <2>1. ASSUME NEW u \in Open
        PROVE  /\ streams_'[u] \in Streams
               /\ streams_'[u].audio =
                    IF streams_'[u].packets > 3 THEN streams_'[u].packets - 3 ELSE 0
    <3>1. CASE u = s
      <4>1. streams_'[s].packets > 3 /\ streams_'[s].audio = streams_'[s].packets - 3
        BY <1>3, <1>4, <1>5
      <4> QED
        BY <1>5, <3>1, <4>1
    <3>2. CASE u # s
      BY <1>2, <3>2 DEF RInv, RTypeOK
    <3> QED
      BY <3>1, <3>2
  <2>2. packet_counts_' \in Nat
    BY <1>2 DEF RInv, RTypeOK
  <2> QED
    BY <1>1, <1>2, <2>1, <2>2 DEF RInv, RTypeOK, Open
<1>7. PageInv'
  <2>1. streams_'[page'.serial].packets >= 1
    <3>1. st.packets + 1 >= 1
      BY <1>3
    <3>2. streams_'[page'.serial].packets = st.packets + 1
      BY <1>2, <1>5, Zenon
    <3> QED
      BY <3>1, <3>2
  <2>2. page'.serial \in Open'
    BY <1>1, <1>2 DEF Open
  <2> QED
    BY <2>1, <2>2 DEF PageInv
<1>8. TotalInv'
  <2>1. streams_'[s].audio <= 1 => streams_'[s].total = 0
    <3>1. st.audio + 1 <= 1 => st.audio = 0
      <4>1. \A n \in Nat : n + 1 <= 1 => n = 0
        OBVIOUS
      <4> QED
        BY <4>1, <1>4
    <3>2. ASSUME st.audio = 0  PROVE st.total + frames = 0
      BY <1>3, <3>2
    <3> QED
      BY <1>5, <3>1, <3>2
  <2>2. ASSUME NEW u \in Open, u # s
        PROVE  streams_'[u].audio <= 1 => streams_'[u].total = 0
    BY <1>2, <2>2 DEF RInv, TotalInv
  <2> QED
    BY <1>2, <2>1, <2>2 DEF TotalInv, Open
<1>9. DecodersHaveStreams'
  <2>1. registered' \subseteq Open'
    BY <1>2 DEF RInv, DecodersHaveStreams, Open
  <2>2. s \in registered
    BY <1>1, <1>3 DEF RInv, DecodersHaveStreams
  <2>3. streams_'[s].packets >= 3
    BY <1>3, <1>5
  <2>4. ASSUME NEW u \in Open, u # s
        PROVE  /\ streams_'[u].packets >= 3 => u \in registered
               /\ u \in registered => streams_'[u].packets >= 3
    BY <1>1, <1>2, <2>4 DEF RInv, DecodersHaveStreams
  <2> QED
    BY <1>2, <2>1, <2>2, <2>3, <2>4 DEF DecodersHaveStreams, Open
<1>10. PushesAreRegistered'
  BY <1>1, <1>3 DEF PushesAreRegistered, RInv, DecodersHaveStreams
<1>11. PagesEndAtTheirPosition'
  <2>1. ASSUME page'.done, page'.granule >= 0
        PROVE  streams_'[page'.serial].total = page'.granule
    <3>1. final /\ page.granule >= 0
      BY <1>2, <2>1
    <3>2. frames = page.granule - st.total
      BY <3>1 DEF Announced
    <3>3. st.total + frames = page.granule
      BY <1>1, <1>3, <3>2
    <3> QED
      BY <1>2, <1>5, <3>3
  <2> QED
    BY <2>1 DEF PagesEndAtTheirPosition
<1> QED
  BY <1>6, <1>7, <1>8, <1>9, <1>10, <1>11 DEF RInv

\* A page of a stream that is open, or of one that the page opens.
LEMMA ReadPageKeeps ==
  ASSUME RInv, NEW s \in Serials, NEW first \in BOOLEAN, NEW last \in BOOLEAN,
         NEW granule \in Granules, ReadPage(s, first, last, granule)
  PROVE  RInv'
<1>1. /\ status = "reading" /\ registered' = registered /\ pushed' = NoSerial
      /\ refused' = refused /\ pages_read' \in Nat /\ refused' \in BOOLEAN
  BY DEF ReadPage, RInv, RTypeOK
<1>2. CASE first = (s \in Open)
  <2>1. Fail
    BY <1>2 DEF ReadPage
  <2> QED
    BY <1>1, <2>1, FailKeeps
<1>3. CASE first # (s \in Open)
  <2>1. /\ page' = [serial |-> s, last |-> last, granule |-> granule, done |-> FALSE]
        /\ streams_' = [t \in Open \union {s} |->
                          IF t \in Open THEN streams_[t] ELSE NewStream]
        /\ packet_counts_' = packet_counts_ /\ status' = status
    BY <1>3 DEF ReadPage
  <2>2. /\ page' \in Pages /\ page'.serial = s /\ ~page'.done
    BY <2>1 DEF Pages
  <2>3. /\ Open' = Open \union {s}
        /\ \A u \in Open : streams_'[u] = streams_[u]
        /\ \A u \in Open' \ Open : streams_'[u] = NewStream
    BY <2>1 DEF Open
  <2>4. /\ NewStream \in Streams
        /\ NewStream.packets = 0 /\ NewStream.audio = 0 /\ NewStream.total = 0
    BY DEF NewStream, Streams
  <2>5. RTypeOK'
    <3>1. ASSUME NEW u \in Open'
          PROVE  /\ streams_'[u] \in Streams
                 /\ streams_'[u].audio =
                      IF streams_'[u].packets > 3 THEN streams_'[u].packets - 3 ELSE 0
      <4>1. CASE u \in Open
        BY <2>3, <4>1 DEF RInv, RTypeOK
      <4>2. CASE u \notin Open
        BY <2>3, <2>4, <4>2
      <4> QED
        BY <4>1, <4>2
    <3> QED
      BY <1>1, <2>1, <2>2, <2>3, <3>1 DEF RInv, RTypeOK
  <2>6. PageInv'
    BY <2>2, <2>3 DEF PageInv
  <2>7. TotalInv'
    BY <2>3, <2>4 DEF RInv, TotalInv
  <2>8. DecodersHaveStreams'
    <3>1. ASSUME NEW u \in Open'
          PROVE  /\ streams_'[u].packets >= 3 => u \in registered
                 /\ u \in registered => streams_'[u].packets >= 3
      <4>1. CASE u \in Open
        BY <1>1, <2>3, <4>1 DEF RInv, DecodersHaveStreams
      <4>2. CASE u \notin Open
        <5>1. u \notin registered
          BY <4>2 DEF RInv, DecodersHaveStreams
        <5>2. ~ (streams_'[u].packets >= 3)
          BY <2>3, <2>4, <4>2
        <5> QED
          BY <5>1, <5>2
      <4> QED
        BY <4>1, <4>2
    <3> QED
      BY <1>1, <2>3, <3>1 DEF RInv, DecodersHaveStreams
  <2>9. PushesAreRegistered' /\ PagesEndAtTheirPosition'
    BY <1>1, <2>2 DEF PushesAreRegistered, PagesEndAtTheirPosition
  <2> QED
    BY <2>5, <2>6, <2>7, <2>8, <2>9 DEF RInv
<1> QED
  BY <1>2, <1>3

(***************************************************************************)
(* Streams are taken out of the map, and with them their decoders: one at  *)
(* its end, or all of them when the reader goes.                           *)
(***************************************************************************)
LEMMA CloseKeeps ==
  ASSUME RInv, NEW closed \in SUBSET Open,
         streams_' = Without(streams_, closed), registered' = registered \ closed,
         page' = NoPage, pushed' = NoSerial,
         packet_counts_' = packet_counts_, pages_read' = pages_read,
         status' = status \/ (status' = "gone" /\ closed = Open),
         refused' \in BOOLEAN, refused => refused'
  PROVE  RInv'
<1>1. /\ Open' = Open \ closed
      /\ \A s \in Open' : s \in Open /\ streams_'[s] = streams_[s]
  BY DEF Without, Open
<1>2. RTypeOK'
  <2>1. \A s \in Open' :
          /\ streams_'[s] \in Streams
          /\ streams_'[s].audio =
               IF streams_'[s].packets > 3 THEN streams_'[s].packets - 3 ELSE 0
    BY <1>1 DEF RInv, RTypeOK
  <2>2. status' \in {"reading", "eof", "error", "gone"}
    BY DEF RInv, RTypeOK
  <2> QED
    BY <1>1, <2>1, <2>2 DEF RInv, RTypeOK
<1>3. PageInv' /\ PagesEndAtTheirPosition' /\ PushesAreRegistered'
  BY DEF PageInv, PagesEndAtTheirPosition, PushesAreRegistered
<1>4. TotalInv'
  BY <1>1 DEF RInv, TotalInv
<1>5. DecodersHaveStreams'
  BY <1>1 DEF RInv, DecodersHaveStreams
<1> QED
  BY <1>2, <1>3, <1>4, <1>5 DEF RInv

\* A header packet of any kind, accepted or refused.
LEMMA HeaderPacketKeeps ==
  ASSUME RInv, NEW final \in BOOLEAN, NEW ok \in BOOLEAN
  PROVE  parse_id(final, ok) \/ parse_comment(final, ok) \/ parse_setup(final, ok) => RInv'
<1> SUFFICES ASSUME parse_id(final, ok) \/ parse_comment(final, ok) \/ parse_setup(final, ok)
             PROVE  RInv'
  OBVIOUS
<1> DEFINE st == streams_[page.serial]
<1>1. ParsePacket(final)
  BY DEF parse_id, parse_comment, parse_setup
<1>2. /\ status = "reading" /\ page.serial \in Open /\ st.packets \in Nat
  BY <1>1, PacketFacts, StreamFacts DEF RInv
<1>3. pages_read' \in Nat /\ pages_read' = pages_read
  BY <1>1 DEF ParsePacket, RInv, RTypeOK
<1>4. /\ st.packets < 3
      /\ registered' = IF st.packets = 2 THEN registered \union {page.serial} ELSE registered
      /\ pushed' = IF st.packets = 2 THEN page.serial ELSE NoSerial
  BY <1>2 DEF parse_id, parse_comment, parse_setup
<1>5. \E name : HeaderPacket(final, name, ok)
  BY DEF parse_id, parse_comment, parse_setup
<1>6. /\ refused' = (refused \/ ~ok) /\ refused' \in BOOLEAN
      /\ ok => Counted(final, st)
      /\ ~ok => Fail
  BY <1>5 DEF HeaderPacket, Call, RInv, RTypeOK
<1>7. CASE ok
  BY <1>1, <1>3, <1>4, <1>6, <1>7, HeaderKeeps
<1>8. CASE ~ok
  BY <1>2, <1>3, <1>4, <1>6, <1>8, FailKeeps
<1> QED
  BY <1>7, <1>8

\* An audio packet: its position is out of reach, it is refused, or it is parsed.
LEMMA AudioPacketKeeps ==
  ASSUME RInv, NEW final \in BOOLEAN, NEW ok \in BOOLEAN, NEW lap \in Laps,
         AudioPacket(final, lap, ok)
  PROVE  RInv'
<1> DEFINE st == streams_[page.serial]
           ready == IF st.audio = 0 THEN 0 ELSE lap
           ending == Announced(final)
           frames == IF ending >= 0 THEN ending - st.total ELSE ready
<1>1. /\ ParsePacket(final) /\ st.packets >= 3
      /\ pushed' = page.serial /\ registered' = registered
  BY DEF AudioPacket
<1>2. /\ status = "reading" /\ page.serial \in Open
  BY <1>1, PacketFacts
<1>3. pages_read' \in Nat
  BY <1>1 DEF ParsePacket, RInv, RTypeOK
<1>4. page.serial \in registered
  BY <1>1, <1>2 DEF RInv, DecodersHaveStreams
<1>5. \/ Fail /\ refused' \in BOOLEAN
      \/ /\ frames \in 0 .. ready /\ refused' \in BOOLEAN
         /\ Counted(final, [st EXCEPT !.audio = @ + 1, !.total = @ + frames])
  <2>1. \/ Fail /\ UNCHANGED <<heard, refused>>
        \/ Fail /\ Call("pcm", FALSE)
        \/ /\ frames \in 0 .. ready
           /\ Counted(final, [st EXCEPT !.audio = @ + 1, !.total = @ + frames])
           /\ Call("pcm", TRUE) \/ UNCHANGED <<heard, refused>>
    BY Zenon DEF AudioPacket
  <2>2. refused' \in BOOLEAN
    BY <2>1 DEF Call, RInv, RTypeOK
  <2> QED
    BY <2>1, <2>2
<1>6. CASE Fail /\ refused' \in BOOLEAN
  BY <1>1, <1>2, <1>3, <1>4, <1>6, FailKeeps
<1>7. CASE /\ frames \in 0 .. ready /\ refused' \in BOOLEAN
           /\ Counted(final, [st EXCEPT !.audio = @ + 1, !.total = @ + frames])
  <2>1. lap \in Nat /\ ready \in Nat
    BY ReaderAssumption
  <2>2. frames \in Nat
    BY <1>7, <2>1
  <2>3. st.audio = 0 => frames = 0
    BY <1>7
  <2>4. Announced(final) >= 0 => frames = Announced(final) - st.total
    OBVIOUS
  <2> HIDE DEF frames
  <2> QED
    BY <1>1, <1>3, <1>7, <2>2, <2>3, <2>4, AudioKeeps
<1> QED
  BY <1>5, <1>6, <1>7

-----------------------------------------------------------------------------
(* The operations together                                                 *)

\* Every operation of the reader keeps RInv.
LEMMA StepInv ==
  ASSUME RInv, RNext
  PROVE  RInv'
<1>1. CASE ReachEof
  <2>1. RTypeOK'
    BY <1>1 DEF ReachEof, RInv, RTypeOK, Open
  <2>2. PageInv' /\ TotalInv' /\ PagesEndAtTheirPosition' /\ PushesAreRegistered'
    BY <1>1 DEF ReachEof, RInv, PageInv, TotalInv, PagesEndAtTheirPosition,
                PushesAreRegistered, Open
  <2>3. DecodersHaveStreams'
    BY <1>1 DEF ReachEof, RInv, DecodersHaveStreams, Open
  <2> QED
    BY <2>1, <2>2, <2>3 DEF RInv
<1>2. CASE ReadBadPage
  BY <1>2, FailKeeps DEF ReadBadPage, RInv, RTypeOK
<1>3. CASE \E s \in Serials, first, last \in BOOLEAN, granule \in Granules :
             ReadPage(s, first, last, granule)
  BY <1>3, ReadPageKeeps
<1>4. CASE \E final, ok \in BOOLEAN :
             parse_id(final, ok) \/ parse_comment(final, ok) \/ parse_setup(final, ok)
  BY <1>4, HeaderPacketKeeps
<1>5. CASE \E final, ok \in BOOLEAN : \E lap \in Laps : AudioPacket(final, lap, ok)
  BY <1>5, AudioPacketKeeps
<1>6. CASE \E final \in BOOLEAN : BadHeaderPacket(final)
  BY <1>6, FailKeeps DEF BadHeaderPacket, ParsePacket, RInv, RTypeOK
<1>7. CASE \E final \in BOOLEAN : BadAudioPacket(final)
  <2> PICK final \in BOOLEAN : BadAudioPacket(final)
    BY <1>7
  <2>1. /\ ParsePacket(final) /\ Fail /\ registered' = registered
        /\ pushed' = page.serial /\ refused' = refused
        /\ streams_[page.serial].packets >= 3
    BY DEF BadAudioPacket
  <2>2. pushed' \in registered
    BY <2>1, PacketFacts DEF RInv, DecodersHaveStreams
  <2>3. /\ status = "reading" /\ pages_read' \in Nat /\ refused' \in BOOLEAN
    BY <2>1 DEF ParsePacket, RInv, RTypeOK
  <2> QED
    BY <2>1, <2>2, <2>3, FailKeeps
<1>8. CASE EndPage
  <2>1. /\ page' = NoPage /\ pushed' = NoSerial
        /\ UNCHANGED <<streams_, packet_counts_, pages_read, status, registered, refused>>
    BY <1>8 DEF EndPage
  <2>2. RTypeOK'
    BY <2>1 DEF RInv, RTypeOK, Open
  <2>3. PageInv' /\ TotalInv' /\ PagesEndAtTheirPosition' /\ PushesAreRegistered'
    BY <2>1 DEF RInv, PageInv, TotalInv, PagesEndAtTheirPosition, PushesAreRegistered, Open
  <2>4. DecodersHaveStreams'
    BY <2>1 DEF RInv, DecodersHaveStreams, Open
  <2> QED
    BY <2>2, <2>3, <2>4 DEF RInv
<1>9. CASE \E ok \in BOOLEAN : EndStream(ok)
  <2> PICK ok \in BOOLEAN : EndStream(ok)
    BY <1>9
  <2>1. /\ status = "reading" /\ page # NoPage /\ pushed' = NoSerial
        /\ pages_read' = pages_read /\ pages_read' \in Nat
        /\ refused' = (refused \/ ~ok) /\ refused' \in BOOLEAN /\ (refused => refused')
    BY DEF EndStream, Call, RInv, RTypeOK
  <2>2. CASE ok
    <3>1. {page.serial} \in SUBSET Open
      BY <2>1 DEF RInv, PageInv
    <3>2. /\ streams_' = Without(streams_, {page.serial})
          /\ registered' = registered \ {page.serial}
          /\ page' = NoPage /\ packet_counts_' = packet_counts_ /\ status' = status
      BY <2>2 DEF EndStream
    <3> QED
      BY <2>1, <3>1, <3>2, CloseKeeps
  <2>3. CASE ~ok
    BY <2>1, <2>3, FailKeeps DEF EndStream
  <2> QED
    BY <2>2, <2>3
<1>10. CASE Destroy
  <2>1. registered' = registered \ Open /\ Open \in SUBSET Open
    BY <1>10 DEF Destroy
  <2> QED
    BY <1>10, <2>1, CloseKeeps DEF Destroy, RInv, RTypeOK
<1> QED
  BY <1>1, <1>2, <1>3, <1>4, <1>5, <1>6, <1>7, <1>8, <1>9, <1>10 DEF RNext

\* RInv holds in every reachable state.
THEOREM Invariance == RSpec => []RInv
<1>1. RInit => RInv
  <2> SUFFICES ASSUME RInit
               PROVE  RInv
    OBVIOUS
  <2>1. Open = {}
    BY DEF RInit, Open
  <2>2. RTypeOK
    BY <2>1 DEF RInit, RTypeOK
  <2>3. PageInv /\ TotalInv /\ DecodersHaveStreams
    BY <2>1 DEF RInit, PageInv, TotalInv, DecodersHaveStreams
  <2>4. PushesAreRegistered /\ PagesEndAtTheirPosition
    BY DEF RInit, PushesAreRegistered, PagesEndAtTheirPosition
  <2> QED
    BY <2>2, <2>3, <2>4 DEF RInv
<1>2. ASSUME RInv, [RNext]_rvars
      PROVE  RInv'
  <2>1. CASE RNext
    BY <1>2, <2>1, StepInv
  <2>2. CASE UNCHANGED rvars
    BY <1>2, <2>2 DEF rvars, RInv, RTypeOK, PageInv, TotalInv, DecodersHaveStreams,
                      PushesAreRegistered, PagesEndAtTheirPosition, Open
  <2> QED
    BY <1>2, <2>1, <2>2
<1> QED
  BY <1>1, <1>2, PTL DEF RSpec

(***************************************************************************)
(* The counters of every open stream fit its packets, and a page in        *)
(* progress is one the input can hold.                                     *)
(***************************************************************************)
THEOREM TypeCorrect == RSpec => []RTypeOK
<1>1. RInv => RTypeOK
  BY DEF RInv
<1> QED
  BY <1>1, Invariance, PTL

(***************************************************************************)
(* Callbacks.h's assertion: data is pushed only for a stream whose decoder *)
(* is registered at that moment.                                           *)
(***************************************************************************)
THEOREM PushesHaveDecoders == RSpec => []PushesAreRegistered
<1>1. RInv => PushesAreRegistered
  BY DEF RInv
<1> QED
  BY <1>1, Invariance, PTL

(***************************************************************************)
(* A decoder is registered exactly for the streams past their setup, so    *)
(* none is left when the reader has gone.                                  *)
(***************************************************************************)
THEOREM DecodersFollowStreams == RSpec => []DecodersHaveStreams
<1>1. RInv => DecodersHaveStreams
  BY DEF RInv
<1> QED
  BY <1>1, Invariance, PTL

\* A page whose last packet was audio leaves the total at the page's position.
THEOREM PositionsAreReached == RSpec => []PagesEndAtTheirPosition
<1>1. RInv => PagesEndAtTheirPosition
  BY DEF RInv
<1> QED
  BY <1>1, Invariance, PTL

-----------------------------------------------------------------------------
(* OggReader implements StreamListener                                     *)

\* What StageOf is, one count of packets at a time.
LEMMA StageFacts ==
  ASSUME NEW st, st.packets \in Nat
  PROVE  /\ st.packets = 0 => StageOf(st) = "begun"
         /\ st.packets = 1 => StageOf(st) = "header"
         /\ st.packets = 2 => StageOf(st) = "comments"
         /\ st.packets >= 3 => StageOf(st) = IF st.total = 0 THEN "setup" ELSE "pcm"
  BY DEF StageOf

\* A stream whose counters stay has its stage.
LEMMA StageKept ==
  ASSUME NEW s, s \in Open <=> s \in Open', s \in Open => streams_'[s] = streams_[s]
  PROVE  Stage(s)' = Stage(s)
  BY DEF Stage

\* Only the stage of s moves, and it moves to c.
LEMMA OneStageMoves ==
  ASSUME NEW s \in Serials, NEW c, Stage(s)' = c,
         \A u \in Serials \ {s} : Stage(u)' = Stage(u)
  PROVE  StageOfEach' = [StageOfEach EXCEPT ![s] = c]
  BY DEF StageOfEach

\* No stage moves in a step that leaves the streams alone.
LEMMA StagesKept ==
  ASSUME streams_' = streams_
  PROVE  StageOfEach' = StageOfEach
  BY StageKept DEF StageOfEach, Open

\* A step that fails without a callback ends what a listener hears.
LEMMA FailIsFinish ==
  ASSUME Fail, heard' = heard
  PROVE  Listener!Next
<1>1. StageOfEach' = StageOfEach /\ (status # "reading")'
  BY StagesKept DEF Fail
<1> QED
  BY <1>1 DEF Listener!Next, Listener!Finish

\* A step that fails because a callback returned false is a refusal.
LEMMA FailIsRefusal ==
  ASSUME status = "reading", Fail, NEW c \in Listener!Calls, Call(c, FALSE),
         NEW s \in Serials, s = page.serial, Stage(s) \in Listener!Before[c]
  PROVE  Listener!Next
<1>1. StageOfEach' = StageOfEach /\ (status # "reading")'
  BY StagesKept DEF Fail
<1>2. StageOfEach[s] = Stage(s)
  BY DEF StageOfEach
<1>3. Listener!Refuse(c, s)
  BY <1>1, <1>2 DEF Listener!Refuse, Call
<1> QED
  BY <1>3 DEF Listener!Next

\* A callback that is accepted, about a stream whose stage moves on with it.
LEMMA CallIsHeard ==
  ASSUME status = "reading", status' = "reading",
         NEW c \in Listener!Calls, Call(c, TRUE),
         NEW s \in Serials, s = page.serial, Stage(s) \in Listener!Before[c],
         Stage(s)' = IF c = "eof" THEN "closed" ELSE c,
         \A u \in Serials \ {s} : Stage(u)' = Stage(u)
  PROVE  Listener!Next
<1>1. StageOfEach[s] = Stage(s)
  BY DEF StageOfEach
<1>2. StageOfEach' = [StageOfEach EXCEPT ![s] = IF c = "eof" THEN "closed" ELSE c]
  BY OneStageMoves
<1>3. Listener!Hear(c, s)
  BY <1>1, <1>2 DEF Listener!Hear, Call
<1> QED
  BY <1>3 DEF Listener!Next

\* The callbacks there are, and the stages they may follow.
LEMMA CallFacts ==
  /\ Listener!Calls = {"header", "comments", "setup", "pcm", "eof"}
  /\ Listener!Before["header"] = {"begun"}
  /\ Listener!Before["comments"] = {"header"}
  /\ Listener!Before["setup"] = {"comments"}
  /\ Listener!Before["pcm"] = {"setup", "pcm"}
  /\ Listener!Before["eof"] = {"header", "comments", "setup", "pcm"}
  BY DEF Listener!Calls, Listener!Before

\* gotHeader, gotComments and gotSetup are heard in this order.
LEMMA HeaderIsHeard ==
  ASSUME RInv, NEW final \in BOOLEAN, NEW ok \in BOOLEAN, NEW name,
         ParsePacket(final), HeaderPacket(final, name, ok),
         \/ name = "header" /\ streams_[page.serial].packets = 0
         \/ name = "comments" /\ streams_[page.serial].packets = 1
         \/ name = "setup" /\ streams_[page.serial].packets = 2
  PROVE  Listener!Next
<1>1. status = "reading" /\ page.serial \in Open /\ page.serial \in Serials
  BY PacketFacts
<1> PICK s \in Serials : s = page.serial
  BY <1>1
<1> DEFINE st == streams_[s]
<1>2. /\ st \in Streams /\ st.packets \in 0 .. 2 /\ st.total = 0
  BY <1>1, StreamFacts DEF RInv, RTypeOK, TotalInv
<1>3. name \in Listener!Calls /\ name # "eof"
  BY CallFacts
<1>4. Stage(s) \in Listener!Before[name]
  <2>1. Stage(s) = StageOf(st)
    BY <1>1 DEF Stage
  <2> QED
    BY <1>2, <2>1, CallFacts, StageFacts
<1>5. CASE ok
  <2>1. Counted(final, st) /\ Call(name, TRUE)
    BY <1>5 DEF HeaderPacket, Call
  <2>2. /\ Open' = Open
        /\ streams_'[s] = [st EXCEPT !.packets = @ + 1]
        /\ \A u \in Open \ {s} : streams_'[u] = streams_[u]
        /\ status' = "reading"
    BY <1>1, <2>1, CountedFacts DEF Open
  <2>3. /\ streams_'[s].packets = st.packets + 1 /\ streams_'[s].packets \in Nat
        /\ streams_'[s].total = 0
    BY <1>2, <2>2 DEF Streams
  <2>4. Stage(s)' = name
    <3>1. Stage(s)' = StageOf(streams_'[s])
      BY <1>1, <2>2 DEF Stage
    <3>2. \/ name = "header" /\ streams_'[s].packets = 1
          \/ name = "comments" /\ streams_'[s].packets = 2
          \/ name = "setup" /\ streams_'[s].packets = 3
      BY <2>3
    <3> QED
      BY <2>3, <3>1, <3>2, StageFacts
  <2>5. \A u \in Serials \ {s} : Stage(u)' = Stage(u)
    BY <2>2, StageKept
  <2> QED
    BY <1>1, <1>3, <1>4, <2>1, <2>2, <2>4, <2>5, CallIsHeard
<1>6. CASE ~ok
  <2>1. Fail /\ Call(name, FALSE)
    BY <1>6 DEF HeaderPacket, Call
  <2> QED
    BY <1>1, <1>3, <1>4, <2>1, FailIsRefusal
<1> QED
  BY <1>5, <1>6

(***************************************************************************)
(* gotPcmData is heard when samples are handed over; an audio packet that  *)
(* has none is not heard of.                                               *)
(***************************************************************************)
LEMMA AudioIsHeard ==
  ASSUME RInv, NEW final \in BOOLEAN, NEW ok \in BOOLEAN, NEW lap \in Laps,
         AudioPacket(final, lap, ok)
  PROVE  Listener!Next \/ UNCHANGED <<StageOfEach, heard, status # "reading">>
<1> DEFINE ready == IF streams_[page.serial].audio = 0 THEN 0 ELSE lap
           ending == Announced(final)
           frames == IF ending >= 0 THEN ending - streams_[page.serial].total ELSE ready
<1>1. ParsePacket(final) /\ streams_[page.serial].packets >= 3
  BY DEF AudioPacket
<1>2. status = "reading" /\ page.serial \in Open /\ page.serial \in Serials
  BY <1>1, PacketFacts
<1> PICK s \in Serials : s = page.serial
  BY <1>2
<1> DEFINE st == streams_[s]
<1>3. st \in Streams /\ st.packets >= 3 /\ st.packets \in Nat /\ st.total \in Nat
  BY <1>1, <1>2, StreamFacts DEF RInv, RTypeOK
<1>4. "pcm" \in Listener!Calls /\ Stage(s) \in Listener!Before["pcm"]
  BY <1>2, <1>3, CallFacts, StageFacts DEF Stage
<1>5. \/ Fail /\ UNCHANGED heard
      \/ Fail /\ Call("pcm", FALSE)
      \/ /\ frames \in 0 .. ready
         /\ Counted(final, [st EXCEPT !.audio = @ + 1, !.total = @ + frames])
         /\ IF frames > 0 THEN Call("pcm", TRUE) ELSE UNCHANGED heard
  BY DEF AudioPacket
<1>6. CASE Fail /\ UNCHANGED heard
  BY <1>6, FailIsFinish
<1>7. CASE Fail /\ Call("pcm", FALSE)
  BY <1>2, <1>4, <1>7, FailIsRefusal
<1>8. CASE /\ frames \in 0 .. ready
           /\ Counted(final, [st EXCEPT !.audio = @ + 1, !.total = @ + frames])
           /\ IF frames > 0 THEN Call("pcm", TRUE) ELSE UNCHANGED heard
  <2>1. lap \in Nat /\ ready \in Nat
    BY ReaderAssumption
  <2>2. frames \in Nat
    BY <1>8, <2>1
  <2> PICK n \in Nat : n = frames
    BY <2>2
  <2> HIDE DEF frames
  <2>3. /\ Open' = Open
        /\ streams_'[s] = [[st EXCEPT !.audio = @ + 1, !.total = @ + n]
                             EXCEPT !.packets = @ + 1]
        /\ \A u \in Open \ {s} : streams_'[u] = streams_[u]
        /\ status' = "reading"
    BY <1>1, <1>2, <1>8, CountedFacts DEF Open
  <2>4. /\ streams_'[s].packets = st.packets + 1
        /\ streams_'[s].total = st.total + n
    <3>1. st \in Streams
      BY <1>3
    <3>2. streams_'[s] = [[st EXCEPT !.audio = @ + 1, !.total = @ + n]
                            EXCEPT !.packets = @ + 1]
      BY <2>3
    <3>3. PICK x \in Streams : x = st
      BY <3>1
    <3>4. PICK new : new = streams_'[s]
      OBVIOUS
    <3>5. new = [[x EXCEPT !.audio = @ + 1, !.total = @ + n] EXCEPT !.packets = @ + 1]
      BY <3>2, <3>3, <3>4
    <3>6. new.packets = x.packets + 1
      BY <3>5 DEF Streams
    <3>7. new.total = x.total + n
      BY <3>5 DEF Streams
    <3> QED
      BY <3>3, <3>4, <3>6, <3>7
  <2>5. streams_'[s].packets >= 3 /\ streams_'[s].packets \in Nat
    BY <1>3, <2>4
  <2>6. Stage(s)' = IF st.total + n = 0 THEN "setup" ELSE "pcm"
    BY <1>2, <2>3, <2>4, <2>5, StageFacts DEF Stage
  <2>7. \A u \in Serials \ {s} : Stage(u)' = Stage(u)
    BY <2>3, StageKept
  <2>8. CASE frames > 0
    <3>1. st.total + n # 0
      BY <1>3, <2>2, <2>8
    <3>2. Stage(s)' = "pcm" /\ Call("pcm", TRUE)
      BY <1>8, <2>6, <2>8, <3>1
    <3> QED
      BY <1>2, <1>4, <2>3, <2>7, <3>2, CallIsHeard
  <2>9. CASE ~ (frames > 0)
    <3>1. st.total + n = st.total /\ heard' = heard
      BY <1>3, <1>8, <2>2, <2>9
    <3>2. Stage(s) = IF st.total = 0 THEN "setup" ELSE "pcm"
      BY <1>2, <1>3, StageFacts DEF Stage
    <3>3. \A u \in Serials : Stage(u)' = Stage(u)
      BY <2>6, <2>7, <3>1, <3>2
    <3> QED
      BY <1>2, <2>3, <3>1, <3>3 DEF StageOfEach
  <2> QED
    BY <2>8, <2>9
<1> QED
  BY <1>5, <1>6, <1>7, <1>8

\* Every step of the reader is one a listener expects, or changes nothing for it.
LEMMA ListenerStep ==
  ASSUME RInv, RNext
  PROVE  [Listener!Next]_(Listener!vars)
<1> SUFFICES Listener!Next \/ UNCHANGED <<StageOfEach, heard, status # "reading">>
  BY DEF Listener!vars
<1>1. CASE ReachEof
  <2>1. StageOfEach' = StageOfEach /\ heard' = heard /\ (status # "reading")'
    BY <1>1, StagesKept DEF ReachEof
  <2> QED
    BY <2>1 DEF Listener!Next, Listener!Finish
<1>2. CASE ReadBadPage
  BY <1>2, FailIsFinish DEF ReadBadPage
<1>3. CASE \E s \in Serials, first, last \in BOOLEAN, granule \in Granules :
             ReadPage(s, first, last, granule)
  <2> PICK s \in Serials, first \in BOOLEAN, last \in BOOLEAN, granule \in Granules :
             ReadPage(s, first, last, granule)
    BY <1>3
  <2>1. CASE first = (s \in Open)
    BY <2>1, FailIsFinish DEF ReadPage
  <2>2. CASE first # (s \in Open)
    <3>1. /\ streams_' = [t \in Open \union {s} |->
                            IF t \in Open THEN streams_[t] ELSE NewStream]
          /\ status = "reading" /\ status' = "reading" /\ heard' = heard
      BY <2>2 DEF ReadPage
    <3>2. /\ Open' = Open \union {s}
          /\ \A u \in Open : streams_'[u] = streams_[u]
          /\ s \notin Open => streams_'[s] = NewStream
      BY <3>1 DEF Open
    <3>3. \A u \in Serials \ {s} : Stage(u)' = Stage(u)
      BY <3>2, StageKept
    <3>4. CASE s \in Open
      <4>1. Stage(s)' = Stage(s)
        BY <3>2, <3>4, StageKept
      <4>2. \A u \in Serials : Stage(u)' = Stage(u)
        BY <3>3, <4>1
      <4> QED
        BY <3>1, <4>2 DEF StageOfEach
    <3>5. CASE s \notin Open
      <4>1. NewStream.packets = 0 /\ NewStream.packets \in Nat
        BY DEF NewStream
      <4>2. Stage(s)' = "begun" /\ Stage(s) = "closed"
        BY <3>2, <3>5, <4>1, StageFacts DEF Stage
      <4>3. /\ StageOfEach' = [StageOfEach EXCEPT ![s] = "begun"]
            /\ StageOfEach[s] = "closed"
        BY <3>3, <4>2, OneStageMoves DEF StageOfEach
      <4>4. Listener!Begin(s)
        BY <3>1, <4>3 DEF Listener!Begin
      <4> QED
        BY <4>4 DEF Listener!Next
    <3> QED
      BY <3>4, <3>5
  <2> QED
    BY <2>1, <2>2
<1>4. CASE \E final, ok \in BOOLEAN :
             parse_id(final, ok) \/ parse_comment(final, ok) \/ parse_setup(final, ok)
  <2> PICK final \in BOOLEAN, ok \in BOOLEAN :
             parse_id(final, ok) \/ parse_comment(final, ok) \/ parse_setup(final, ok)
    BY <1>4
  <2> QED
    BY HeaderIsHeard DEF parse_id, parse_comment, parse_setup
<1>5. CASE \E final, ok \in BOOLEAN : \E lap \in Laps : AudioPacket(final, lap, ok)
  BY <1>5, AudioIsHeard
<1>6. CASE \E final \in BOOLEAN : BadHeaderPacket(final) \/ BadAudioPacket(final)
  BY <1>6, FailIsFinish DEF BadHeaderPacket, BadAudioPacket
<1>7. CASE EndPage
  BY <1>7, StagesKept DEF EndPage
<1>8. CASE \E ok \in BOOLEAN : EndStream(ok)
  <2> PICK ok \in BOOLEAN : EndStream(ok)
    BY <1>8
  <2>1. /\ status = "reading" /\ page.serial \in Open
        /\ streams_[page.serial].packets >= 1
    BY DEF EndStream, RInv, PageInv
  <2>2. page.serial \in Serials
    BY <2>1 DEF RInv, RTypeOK
  <2> PICK s \in Serials : s = page.serial
    BY <2>2
  <2>3. streams_[s].packets \in Nat
    BY <2>1, StreamFacts DEF RInv
  <2>4. "eof" \in Listener!Calls /\ Stage(s) \in Listener!Before["eof"]
    <3>1. Stage(s) = StageOf(streams_[s])
      BY <2>1 DEF Stage
    <3>2. \A n \in Nat : n >= 1 => n = 1 \/ n = 2 \/ n >= 3
      OBVIOUS
    <3> QED
      BY <2>1, <2>3, <3>1, <3>2, CallFacts, StageFacts
  <2>5. CASE ok
    <3>1. streams_' = Without(streams_, {s}) /\ status' = "reading" /\ Call("eof", TRUE)
      BY <2>1, <2>5 DEF EndStream, Call
    <3>2. Open' = Open \ {s} /\ \A u \in Open \ {s} : streams_'[u] = streams_[u]
      BY <3>1 DEF Without, Open
    <3>3. Stage(s)' = "closed"
      BY <3>2 DEF Stage
    <3>4. \A u \in Serials \ {s} : Stage(u)' = Stage(u)
      BY <3>2, StageKept
    <3> QED
      BY <2>1, <2>4, <3>1, <3>3, <3>4, CallIsHeard
  <2>6. CASE ~ok
    <3>1. Fail /\ Call("eof", FALSE)
      BY <2>6 DEF EndStream, Call
    <3> QED
      BY <2>1, <2>4, <3>1, FailIsRefusal
  <2> QED
    BY <2>5, <2>6
<1>9. CASE Destroy
  <2>1. Open' = {}
    BY <1>9 DEF Destroy, Without, Open
  <2>2. \A s \in Serials : Stage(s)' = "closed"
    BY <2>1 DEF Stage
  <2>3. /\ StageOfEach' = [s \in Serials |-> "closed"]
        /\ status # "reading" /\ status' # "reading" /\ heard' = heard
    BY <1>9, <2>2 DEF Destroy, StageOfEach
  <2> QED
    BY <2>3 DEF Listener!Next, Listener!Release
<1> QED
  BY <1>1, <1>2, <1>3, <1>4, <1>5, <1>6, <1>7, <1>8, <1>9 DEF RNext

(***************************************************************************)
(* The callbacks of ParseCallbacks come in the order StreamListener        *)
(* promises, for every stream of any input, and none follows a refusal or  *)
(* an error.                                                               *)
(***************************************************************************)
THEOREM ListenerRefinement == RSpec => ImplementsListener
<1>1. RInit => Listener!Init
  <2> SUFFICES ASSUME RInit
               PROVE  Listener!Init
    OBVIOUS
  <2>1. Open = {} /\ status = "reading" /\ heard = Nothing
    BY DEF RInit, Open
  <2>2. StageOfEach = [s \in Serials |-> "closed"]
    BY <2>1 DEF StageOfEach, Stage
  <2>3. heard = Listener!Nothing
    BY <2>1 DEF Nothing, NoSerial, Listener!Nothing
  <2> QED
    BY <2>1, <2>2, <2>3 DEF Listener!Init
<1>2. ASSUME RInv, [RNext]_rvars
      PROVE  [Listener!Next]_(Listener!vars)
  <2>1. CASE RNext
    BY <1>2, <2>1, ListenerStep
  <2>2. CASE UNCHANGED rvars
    BY <2>2, StagesKept DEF rvars, Listener!vars
  <2> QED
    BY <1>2, <2>1, <2>2
<1> QED
  BY <1>1, <1>2, Invariance, PTL DEF RSpec, ImplementsListener, Listener!Spec
=============================================================================
