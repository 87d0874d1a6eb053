----------------------------- MODULE OggReader ------------------------------
(***************************************************************************)
(* OggReader, Page and VorbisPacket: pages are read one after the other,   *)
(* each belongs to one logical stream, its packets are parsed as header,   *)
(* comments, setup or audio by how many packets the stream has had, and    *)
(* the first failed CHECK ends the reading.                                *)
(*                                                                         *)
(* A page's packets are chosen when they are parsed and not when the page  *)
(* is read: nothing before depends on them.  Of an audio packet the module *)
(* keeps how many samples its lap has (PcmBuffer models the rest).         *)
(***************************************************************************)
EXTENDS Integers, FiniteSets

CONSTANTS
  Serials,      \* stream_serial_num
  Laps,         \* how many samples an audio packet after the first completes
  MaxPages,     \* bound: length of the input in pages
  MaxPackets,   \* bound: packets parsed in all streams together
  MaxGranule    \* bound: greatest absolute_granule_pos of a page

NoSerial == {}

ASSUME ReaderAssumption ==
  /\ NoSerial \notin Serials
  /\ Laps \subseteq Nat
  /\ MaxPages \in Nat /\ MaxPackets \in Nat /\ MaxGranule \in Nat

VARIABLES
  streams_,        \* serial -> VorbisStream, for the streams that are open
  packet_counts_,  \* OggReader's own count, of all streams
  page,            \* the page in buffer_page_ that is being parsed, or NoPage
  pages_read,      \* history: bounds the length of the input
  status,          \* "reading", "eof", "error", and "gone" after the destructor
  registered,      \* the serials whose stream is a registered decoder
  pushed,          \* history: the serial this step called push_data_* for
  heard,           \* history: the last callback
  refused          \* history: some callback returned false

rvars == <<streams_, packet_counts_, page, pages_read, status, registered,
           pushed, heard, refused>>

NoPage == [serial |-> NoSerial, last |-> FALSE, granule |-> -1, done |-> TRUE]
Nothing == [call |-> "none", serial |-> NoSerial]

Granules == -1 .. MaxGranule

\* VorbisStream's counters, and of its decode_state abs_total_pos.
NewStream == [packets |-> 0, audio |-> 0, total |-> 0]

Open == DOMAIN streams_

-----------------------------------------------------------------------------
RInit ==
  /\ streams_ = [s \in {} |-> NewStream]
  /\ packet_counts_ = 0
  /\ page = NoPage
  /\ pages_read = 0
  /\ status = "reading"
  /\ registered = {}
  /\ pushed = NoSerial
  /\ heard = Nothing
  /\ refused = FALSE

Fail ==
  /\ status' = "error"
  /\ UNCHANGED <<streams_, packet_counts_, page>>

\* read_header finds the end of the input; a cut-off header counts as the end.
ReachEof ==
  /\ status = "reading" /\ page = NoPage
  /\ status' = "eof"
  /\ pushed' = NoSerial
  /\ UNCHANGED <<streams_, packet_counts_, page, pages_read, registered,
                 heard, refused>>

(***************************************************************************)
(* A page that Page::read rejects: capture pattern, version, a packet that *)
(* continues on the next page, missing data, no data at all, checksum.     *)
(***************************************************************************)
ReadBadPage ==
  /\ status = "reading" /\ page = NoPage
  /\ pages_read < MaxPages
  /\ pages_read' = pages_read + 1
  /\ Fail
  /\ pushed' = NoSerial
  /\ UNCHANGED <<registered, heard, refused>>

\* The start of _read_page: find the page's stream, or open it.
ReadPage(s, first, last, granule) ==
  /\ status = "reading" /\ page = NoPage
  /\ pages_read < MaxPages
  /\ pages_read' = pages_read + 1
  /\ IF first = (s \in Open)
     THEN Fail
     ELSE /\ page' = [serial |-> s, last |-> last, granule |-> granule, done |-> FALSE]
          /\ streams_' = [t \in Open \union {s} |->
                            IF t \in Open THEN streams_[t] ELSE NewStream]
          /\ UNCHANGED <<packet_counts_, status>>
  /\ pushed' = NoSerial
  /\ UNCHANGED <<registered, heard, refused>>

-----------------------------------------------------------------------------
(* Packets                                                                 *)

\* A mutant of Announced: no position is ever announced.
NeverAnnounced(final) == -1

\* What _read_page announces to the stream before a packet is parsed.
Announced(final) == IF final THEN page.granule ELSE -1

\* A mutant of Counted: the stream does not count the last packet of a page.
CountedWithin(final, stream) ==
  /\ streams_' = [streams_ EXCEPT ![page.serial] =
                    [stream EXCEPT !.packets = IF final THEN @ ELSE @ + 1]]
  /\ packet_counts_' = packet_counts_ + 1
  /\ page' = [page EXCEPT !.done = final]
  /\ UNCHANGED status

\* The packet is parsed: the counters move on and the page may be done.
Counted(final, stream) ==
  /\ streams_' = [streams_ EXCEPT ![page.serial] =
                    [stream EXCEPT !.packets = @ + 1]]
  /\ packet_counts_' = packet_counts_ + 1
  /\ page' = [page EXCEPT !.done = final]
  /\ UNCHANGED status

\* A callback about the page's stream; ok is what it returns.
Call(name, ok) ==
  /\ heard' = [call |-> name, serial |-> page.serial]
  /\ refused' = (refused \/ ~ok)

ParsePacket(final) ==
  /\ status = "reading" /\ page # NoPage /\ ~page.done
  /\ packet_counts_ < MaxPackets
  /\ UNCHANGED pages_read

HeaderPacket(final, name, ok) ==
  /\ Call(name, ok)
  /\ IF ok
     THEN Counted(final, streams_[page.serial])
     ELSE Fail

parse_id(final, ok) ==
  /\ ParsePacket(final)
  /\ streams_[page.serial].packets = 0
  /\ HeaderPacket(final, "header", ok)
  /\ pushed' = NoSerial
  /\ UNCHANGED registered

parse_comment(final, ok) ==
  /\ ParsePacket(final)
  /\ streams_[page.serial].packets = 1
  /\ HeaderPacket(final, "comments", ok)
  /\ pushed' = NoSerial
  /\ UNCHANGED registered

\* A mutant of parse_setup: data is pushed, but no decoder was registered.
SetupUnregistered(final, ok) ==
  /\ ParsePacket(final)
  /\ streams_[page.serial].packets = 2
  /\ pushed' = page.serial
  /\ HeaderPacket(final, "setup", ok)
  /\ UNCHANGED registered

\* The decoder is registered, and pushes data, before gotSetup is called.
parse_setup(final, ok) ==
  /\ ParsePacket(final)
  /\ streams_[page.serial].packets = 2
  /\ registered' = registered \union {page.serial}
  /\ pushed' = page.serial
  /\ HeaderPacket(final, "setup", ok)

\* A CHECK on the packet's contents fails before anything is registered or pushed.
BadHeaderPacket(final) ==
  /\ ParsePacket(final)
  /\ streams_[page.serial].packets < 3
  /\ Fail
  /\ pushed' = NoSerial
  /\ UNCHANGED <<registered, heard, refused>>

(***************************************************************************)
(* VorbisStream::parse_audio: data is pushed before the first CHECK.  The  *)
(* samples up to the announced position are handed over, if there are any; *)
(* a position out of reach is an error.                                    *)
(***************************************************************************)
AudioPacket(final, lap, ok) ==
  LET stream == streams_[page.serial]
      ready  == IF stream.audio = 0 THEN 0 ELSE lap
      ending == Announced(final)
      frames == IF ending >= 0 THEN ending - stream.total ELSE ready
  IN /\ ParsePacket(final)
     /\ stream.packets >= 3
     /\ pushed' = page.serial
     /\ \/ /\ frames \notin 0 .. ready
           /\ Fail
           /\ UNCHANGED <<heard, refused>>
        \/ /\ frames \in 1 .. ready /\ ~ok
           /\ Fail
           /\ Call("pcm", FALSE)
        \/ /\ frames \in 0 .. ready /\ (frames > 0 => ok)
           /\ Counted(final, [stream EXCEPT !.audio = @ + 1, !.total = @ + frames])
           /\ IF frames > 0 THEN Call("pcm", TRUE) ELSE UNCHANGED <<heard, refused>>
     /\ UNCHANGED registered

\* Type bit, floor or residue of an audio packet are bad.
BadAudioPacket(final) ==
  /\ ParsePacket(final)
  /\ streams_[page.serial].packets >= 3
  /\ pushed' = page.serial
  /\ Fail
  /\ UNCHANGED <<registered, heard, refused>>

-----------------------------------------------------------------------------
(* The end of a page, and of the reader                                    *)

Without(f, S) == [s \in DOMAIN f \ S |-> f[s]]

EndPage ==
  /\ status = "reading" /\ page # NoPage /\ page.done
  /\ ~page.last
  /\ page' = NoPage
  /\ pushed' = NoSerial
  /\ UNCHANGED <<streams_, packet_counts_, pages_read, status, registered,
                 heard, refused>>

\* A mutant of EndStream: the stream stays in the map.
EndWithoutErase(ok) ==
  /\ status = "reading" /\ page # NoPage /\ page.done
  /\ page.last
  /\ Call("eof", ok)
  /\ IF ok THEN page' = NoPage /\ UNCHANGED <<streams_, packet_counts_, status>>
     ELSE Fail
  /\ pushed' = NoSerial
  /\ UNCHANGED <<pages_read, registered>>

\* HeaderFlag_Last: gotEof, then erase, whose destructor unregisters.
EndStream(ok) ==
  /\ status = "reading" /\ page # NoPage /\ page.done
  /\ page.last
  /\ Call("eof", ok)
  /\ IF ok
     THEN /\ streams_' = Without(streams_, {page.serial})
          /\ registered' = registered \ {page.serial}
          /\ page' = NoPage
          /\ UNCHANGED <<packet_counts_, status>>
     ELSE Fail /\ UNCHANGED registered
  /\ pushed' = NoSerial
  /\ UNCHANGED pages_read

\* A mutant of Destroy: the destructors do not unregister.
DestroyRegistered ==
  /\ status \in {"eof", "error"}
  /\ status' = "gone"
  /\ streams_' = Without(streams_, Open)
  /\ page' = NoPage
  /\ pushed' = NoSerial
  /\ UNCHANGED <<packet_counts_, pages_read, registered, heard, refused>>

\* The reader is destroyed with its map; every ~VorbisStream unregisters.
Destroy ==
  /\ status \in {"eof", "error"}
  /\ status' = "gone"
  /\ streams_' = Without(streams_, Open)
  /\ registered' = registered \ Open
  /\ page' = NoPage
  /\ pushed' = NoSerial
  /\ UNCHANGED <<packet_counts_, pages_read, heard, refused>>

RNext ==
  \/ ReachEof
  \/ ReadBadPage
  \/ \E s \in Serials, first, last \in BOOLEAN, granule \in Granules :
       ReadPage(s, first, last, granule)
  \/ \E final, ok \in BOOLEAN :
       \/ parse_id(final, ok)
       \/ parse_comment(final, ok)
       \/ parse_setup(final, ok)
       \/ \E lap \in Laps : AudioPacket(final, lap, ok)
  \/ \E final \in BOOLEAN : BadHeaderPacket(final) \/ BadAudioPacket(final)
  \/ EndPage
  \/ \E ok \in BOOLEAN : EndStream(ok)
  \/ Destroy

RSpec == RInit /\ [][RNext]_rvars

-----------------------------------------------------------------------------
(* Properties                                                              *)

Pages == [serial : Serials, last : BOOLEAN, granule : Granules, done : BOOLEAN]

Streams == [packets : Nat, audio : Nat, total : Nat]

RTypeOK ==
  /\ Open \subseteq Serials
  /\ \A s \in Open :
       /\ streams_[s] \in Streams
       /\ streams_[s].audio = IF streams_[s].packets > 3 THEN streams_[s].packets - 3 ELSE 0
  /\ packet_counts_ \in Nat
  /\ page \in Pages \union {NoPage}
  /\ pages_read \in Nat
  /\ status \in {"reading", "eof", "error", "gone"}
  /\ registered \subseteq Serials
  /\ refused \in BOOLEAN

(***************************************************************************)
(* Callbacks.h: it is an error to call push_data_* for a decoder that is   *)
(* not registered (get_decoder asserts).  Every push is for a stream that  *)
(* is registered at that moment, whatever the order of pages and streams.  *)
(***************************************************************************)
PushesAreRegistered == pushed # NoSerial => pushed \in registered

(***************************************************************************)
(* A registered decoder belongs to a stream in the map that is past its    *)
(* setup, and to no other: when the reader is gone, on every path, no      *)
(* decoder (and no open output file of one) is left behind.                *)
(***************************************************************************)
DecodersHaveStreams ==
  /\ registered \subseteq Open
  /\ \A s \in Open : streams_[s].packets >= 3 => s \in registered
  /\ \A s \in registered :
       streams_[s].packets >= 3 \/ (status = "error" /\ refused)

(***************************************************************************)
(* The granule position is about the page's last packet: a page whose last *)
(* packet was audio leaves the total exactly at the page's position, for   *)
(* pages of several streams in any order.                                  *)
(***************************************************************************)
PagesEndAtTheirPosition ==
  page # NoPage /\ page.done /\ page.granule >= 0 =>
    LET stream == streams_[page.serial]
    IN stream.audio > 0 => stream.total = page.granule

\* Which callback of a stream came last, by its counters.
StageOf(stream) ==
  CASE stream.packets = 0  -> "begun"
    [] stream.packets = 1  -> "header"
    [] stream.packets = 2  -> "comments"
    [] stream.packets >= 3 -> IF stream.total = 0 THEN "setup" ELSE "pcm"

Stage(s) == IF s \in Open THEN StageOf(streams_[s]) ELSE "closed"

StageOfEach == [s \in Serials |-> Stage(s)]

Listener == INSTANCE StreamListener WITH
  stage  <- StageOfEach,
  heard  <- heard,
  silent <- status # "reading"

(***************************************************************************)
(* A listener hears what StreamListener promises: the order of callbacks   *)
(* of each stream, nothing after a refusal or an error, and a serial may   *)
(* be used again only after its stream ended.                              *)
(***************************************************************************)
ImplementsListener == Listener!Spec
=============================================================================
