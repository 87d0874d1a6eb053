---------------------------- MODULE LiveExtract -----------------------------
(***************************************************************************)
(* ParseOggVorbisLib.decode_ogg_vorbis of demo_live_extract.py, called by  *)
(* several Python threads at once: the decoder writes what it extracts     *)
(* through a stdio buffer into a pipe that it opened by the name           *)
(* /dev/fd/<write_fd>, a background thread of the call collects it, and    *)
(* wait() returns when all of it has been collected.                       *)
(*                                                                         *)
(* The C++ side shares two things between the callers: the mutex of the    *)
(* decoder registry, which is held while a decoder's file is closed, and   *)
(* the static buffer with the error message of a failed call.              *)
(***************************************************************************)
EXTENDS Integers, FiniteSets

CONSTANTS
  Callers,     \* Python threads, each with one call
  Nobody,
  PipeSize,    \* how much the pipe holds
  BufSize,     \* how much the FILE's buffer holds
  MaxPushes    \* bound: how often a call pushes data

ASSUME ExtractAssumption ==
  /\ Nobody \notin Callers
  /\ PipeSize \in Nat \ {0} /\ BufSize \in Nat \ {0} /\ MaxPushes \in Nat

VARIABLES
  pc,           \* where the caller is
  result,       \* what full_read_from_memory has returned
  mutex,        \* who holds global_decoder_mutex across a blocking call
  error_buf,    \* whose message is in the static error_buf
  message,      \* whose message the caller raised
  produced,     \* how much was pushed
  buffered,     \* how much of it is in the FILE's buffer
  pipe,         \* how much of it is in the pipe
  collected,    \* how much the background reader has in its buffer
  writers,      \* which descriptors of the pipe's write end are open
  reader,       \* where the background reader is
  finished,     \* _BackgroundReader.finished
  cond          \* who holds the lock of _BackgroundReader.cond

lvars == <<pc, result, mutex, error_buf, message, produced, buffered, pipe, collected,
           writers, reader, finished, cond>>

data    == <<produced, buffered, pipe, collected>>
errors  == <<result, error_buf, message>>
threads == <<reader, finished, cond>>

LInit ==
  /\ pc = [c \in Callers |-> "idle"]
  /\ result = [c \in Callers |-> "none"]
  /\ mutex = Nobody
  /\ error_buf = Nobody
  /\ message = [c \in Callers |-> Nobody]
  /\ produced = [c \in Callers |-> 0]
  /\ buffered = [c \in Callers |-> 0]
  /\ pipe = [c \in Callers |-> 0]
  /\ collected = [c \in Callers |-> 0]
  /\ writers = [c \in Callers |-> {}]
  /\ reader = [c \in Callers |-> "none"]
  /\ finished = [c \in Callers |-> FALSE]
  /\ cond = [c \in Callers |-> Nobody]

Goto(c, from, to) ==
  /\ pc[c] = from
  /\ pc' = [pc EXCEPT ![c] = to]

Add(f, c, n) == [f EXCEPT ![c] = @ + n]

-----------------------------------------------------------------------------
(* The call, up to the return of ogg_vorbis_full_read_from_memory          *)

\* _BackgroundReader() opens the pipe and start() begins to read it.
StartCall(c) ==
  /\ Goto(c, "idle", "parsing")
  /\ writers' = [writers EXCEPT ![c] = {"python"}]
  /\ reader' = [reader EXCEPT ![c] = "reading"]
  /\ UNCHANGED <<mutex, errors, data, finished, cond>>

\* register_decoder_ref opens the file; its header fits the FILE's buffer.
Register(c) ==
  /\ Goto(c, "parsing", "decoding")
  /\ mutex = Nobody
  /\ writers' = [writers EXCEPT ![c] = @ \union {"file"}]
  /\ produced' = Add(produced, c, 1)
  /\ buffered' = Add(buffered, c, 1)
  /\ UNCHANGED <<mutex, errors, pipe, collected, threads>>

\* push_data_T finds its decoder, for which the mutex must be free ...
PushLookup(c) ==
  /\ Goto(c, "decoding", "writing")
  /\ mutex = Nobody
  /\ produced[c] <= MaxPushes
  /\ UNCHANGED <<mutex, errors, data, writers, threads>>

\* A mutant of PushWrite: the write does not wait for room in the buffer.
PushWriteOver(c) ==
  /\ Goto(c, "writing", "decoding")
  /\ produced' = Add(produced, c, 1)
  /\ buffered' = Add(buffered, c, 1)
  /\ UNCHANGED <<mutex, errors, pipe, collected, writers, threads>>

\* ... and then writes without it.
PushWrite(c) ==
  /\ Goto(c, "writing", "decoding")
  /\ buffered[c] < BufSize
  /\ produced' = Add(produced, c, 1)
  /\ buffered' = Add(buffered, c, 1)
  /\ UNCHANGED <<mutex, errors, pipe, collected, writers, threads>>

\* A full buffer, or one that is closed, goes to the pipe, which may be full.
Flush(c) ==
  /\ \/ pc[c] = "writing" /\ buffered[c] = BufSize
     \/ pc[c] = "closing" /\ buffered[c] > 0
  /\ pipe[c] < PipeSize
  /\ pipe' = Add(pipe, c, 1)
  /\ buffered' = Add(buffered, c, -1)
  /\ UNCHANGED <<pc, mutex, errors, produced, collected, writers, threads>>

\* full_read_from_memory may return before the stream begins, in it and after it.
CanReturn(c) == pc[c] \in {"parsing", "decoding", "parsed"}

\* A failed call copies its message to the static error_buf; its OggReader, with
\* the stream and its open file, is still there.
StoreError(c) ==
  /\ CanReturn(c)
  /\ pc' = [pc EXCEPT ![c] = "leaving"]
  /\ result' = [result EXCEPT ![c] = "error"]
  /\ error_buf' = c
  /\ UNCHANGED <<mutex, message, data, writers, threads>>

\* The input ends, maybe without the last page of its stream.
EndOfInput(c) ==
  /\ CanReturn(c)
  /\ pc' = [pc EXCEPT ![c] = "leaving"]
  /\ result' = [result EXCEPT ![c] = "ok"]
  /\ UNCHANGED <<mutex, error_buf, message, data, writers, threads>>

Registered(c) == "file" \in writers[c]

\* Where Python goes on.
AfterCall(c) == IF result[c] = "ok" THEN "returned" ELSE "raising"

\* A mutant of Unregister: only the last page of a stream unregisters its decoder.
NotUnregistered(c) ==
  /\ Registered(c)
  /\ mutex = Nobody
  /\ \/ Goto(c, "decoding", "closing") /\ mutex' = c
     \/ Goto(c, "leaving", AfterCall(c)) /\ UNCHANGED mutex
  /\ UNCHANGED <<errors, data, writers, threads>>

(***************************************************************************)
(* ~VorbisStream unregisters the decoder and so erases its Info, whose     *)
(* destructor closes the file, under one lock: when the stream's last page *)
(* is done (streams_.erase), or with the OggReader when the call is left.  *)
(***************************************************************************)
Unregister(c) ==
  /\ Goto(c, "decoding", "closing") \/ Goto(c, "leaving", "closing")
  /\ Registered(c)
  /\ mutex = Nobody
  /\ mutex' = c
  /\ UNCHANGED <<errors, data, writers, threads>>

\* Nothing is registered, or not any more; ~VorbisStream looks all the same.
LeaveUnregistered(c) ==
  /\ Goto(c, "leaving", AfterCall(c))
  /\ ~Registered(c)
  /\ mutex = Nobody
  /\ UNCHANGED <<mutex, errors, data, writers, threads>>

\* A call that goes on parses what follows the stream.
AfterClose(c) == IF result[c] = "none" THEN "parsed" ELSE AfterCall(c)

\* A mutant of Closed: the file is closed without what its buffer holds.
ClosedUnflushed(c) ==
  /\ Goto(c, "closing", AfterClose(c))
  /\ buffered' = [buffered EXCEPT ![c] = 0]
  /\ writers' = [writers EXCEPT ![c] = @ \ {"file"}]
  /\ mutex' = Nobody
  /\ UNCHANGED <<errors, produced, pipe, collected, threads>>

\* The buffer is flushed and the file closed.
Closed(c) ==
  /\ Goto(c, "closing", AfterClose(c))
  /\ buffered[c] = 0
  /\ writers' = [writers EXCEPT ![c] = @ \ {"file"}]
  /\ mutex' = Nobody
  /\ UNCHANGED <<errors, data, threads>>

\* Python reads error_buf when the call has returned, and raises.
Raise(c) ==
  /\ Goto(c, "raising", "raised")
  /\ message' = [message EXCEPT ![c] = error_buf]
  /\ UNCHANGED <<mutex, result, error_buf, data, writers, threads>>

-----------------------------------------------------------------------------
(* _BackgroundReader.wait                                                  *)

\* Take the condition's lock and close Python's own write end.
WaitClose(c) ==
  /\ Goto(c, "returned", "checking")
  /\ cond[c] = Nobody
  /\ cond' = [cond EXCEPT ![c] = c]
  /\ writers' = [writers EXCEPT ![c] = @ \ {"python"}]
  /\ UNCHANGED <<mutex, errors, data, reader, finished>>

\* Return, or sleep; both give the lock back.
WaitCheck(c) ==
  /\ Goto(c, "checking", IF finished[c] THEN "done" ELSE "sleeping")
  /\ cond' = [cond EXCEPT ![c] = Nobody]
  /\ UNCHANGED <<mutex, errors, data, writers, reader, finished>>

\* notify_all has moved the caller on; it needs the lock again.
WaitWake(c) ==
  /\ Goto(c, "notified", "checking")
  /\ cond[c] = Nobody
  /\ cond' = [cond EXCEPT ![c] = c]
  /\ UNCHANGED <<mutex, errors, data, writers, reader, finished>>

-----------------------------------------------------------------------------
(* _BackgroundReader.run                                                   *)

\* os.read returns what there is.
Collect(c) ==
  /\ reader[c] = "reading"
  /\ pipe[c] > 0
  /\ collected' = Add(collected, c, pipe[c])
  /\ pipe' = [pipe EXCEPT ![c] = 0]
  /\ UNCHANGED <<pc, mutex, errors, produced, buffered, writers, threads>>

\* os.read returns nothing: the pipe is empty and every write end is closed.
CollectEof(c) ==
  /\ reader[c] = "reading"
  /\ pipe[c] = 0 /\ writers[c] = {}
  /\ reader' = [reader EXCEPT ![c] = "ending"]
  /\ UNCHANGED <<pc, mutex, errors, data, writers, finished, cond>>

\* A mutant of FinishReader: nobody is notified.
FinishSilently(c) ==
  /\ reader[c] = "ending"
  /\ cond[c] = Nobody
  /\ reader' = [reader EXCEPT ![c] = "ended"]
  /\ finished' = [finished EXCEPT ![c] = TRUE]
  /\ UNCHANGED <<pc, mutex, errors, data, writers, cond>>

\* The finally block: set finished and wake the caller, under the lock.
FinishReader(c) ==
  /\ reader[c] = "ending"
  /\ cond[c] = Nobody
  /\ reader' = [reader EXCEPT ![c] = "ended"]
  /\ finished' = [finished EXCEPT ![c] = TRUE]
  /\ pc' = IF pc[c] = "sleeping" THEN [pc EXCEPT ![c] = "notified"] ELSE pc
  /\ UNCHANGED <<mutex, errors, data, writers, cond>>

-----------------------------------------------------------------------------
CallerStep(c) ==
  \/ Register(c)
  \/ PushLookup(c)
  \/ PushWrite(c)
  \/ Flush(c)
  \/ StoreError(c)
  \/ EndOfInput(c)
  \/ Unregister(c)
  \/ LeaveUnregistered(c)
  \/ Closed(c)
  \/ Raise(c)
  \/ WaitClose(c)
  \/ WaitCheck(c)
  \/ WaitWake(c)

ReaderStep(c) ==
  \/ Collect(c)
  \/ CollectEof(c)
  \/ FinishReader(c)

LNext == \E c \in Callers : StartCall(c) \/ CallerStep(c) \/ ReaderStep(c)

\* Both threads of a call are run by the operating system; none is forced to call.
Fairness == \A c \in Callers : WF_lvars(CallerStep(c)) /\ WF_lvars(ReaderStep(c))

LSpec == LInit /\ [][LNext]_lvars /\ Fairness

-----------------------------------------------------------------------------
(* Properties                                                              *)

CallerStates ==
  {"idle", "parsing", "decoding", "writing", "closing", "parsed", "leaving",
   "returned", "raising", "raised", "checking", "sleeping", "notified", "done"}

LTypeOK ==
  /\ pc \in [Callers -> CallerStates]
  /\ result \in [Callers -> {"none", "ok", "error"}]
  /\ mutex \in Callers \union {Nobody}
  /\ error_buf \in Callers \union {Nobody}
  /\ message \in [Callers -> Callers \union {Nobody}]
  /\ produced \in [Callers -> Nat] /\ collected \in [Callers -> Nat]
  /\ buffered \in [Callers -> 0 .. BufSize]
  /\ pipe \in [Callers -> 0 .. PipeSize]
  /\ writers \in [Callers -> SUBSET {"python", "file"}]
  /\ reader \in [Callers -> {"none", "reading", "ending", "ended"}]
  /\ finished \in [Callers -> BOOLEAN]
  /\ cond \in [Callers -> Callers \union {Nobody}]

(***************************************************************************)
(* What decode_ogg_vorbis returns is complete: when wait() is over, all    *)
(* that the decoder pushed, also what was still in the FILE's buffer when  *)
(* the stream was destroyed, is in the reader's buffer.                    *)
(***************************************************************************)
EverythingIsCollected ==
  \A c \in Callers : pc[c] = "done" => collected[c] = produced[c]

(***************************************************************************)
(* When Python has a call's result, whichever it is and wherever in the    *)
(* stream the call ended, neither the mutex of all decoders is locked by   *)
(* it nor is its file open; nor are they when a stream has had its last    *)
(* page and the call goes on.  While a failed call stores its message, the *)
(* file may still be open: only ~OggReader closes it.                      *)
(***************************************************************************)
CallsReleaseTheirs ==
  \A c \in Callers :
    pc[c] \in {"idle", "parsed", "returned", "raising", "raised", "sleeping", "done"} =>
      mutex # c /\ "file" \notin writers[c]

(***************************************************************************)
(* Every call ends, although a decoder blocks on a full pipe, with the     *)
(* mutex of all decoders locked while it closes its file, and although the *)
(* reader may find the end of the pipe before, while or after wait() runs. *)
(***************************************************************************)
CallsEnd ==
  \A c \in Callers : pc[c] = "parsing" ~> pc[c] \in {"done", "raised"}

(***************************************************************************)
(* returnn_import.py: one instance of the library is safe for everybody;   *)
(* then a call that raises has to raise its own error.                     *)
(***************************************************************************)
ErrorIsOwn ==
  \A c \in Callers : pc[c] = "raised" => message[c] = c
=============================================================================
