------------------------- MODULE LiveExtractProofs --------------------------
(***************************************************************************)
(* Proofs about LiveExtract for any number of callers, sizes of the pipe   *)
(* and of the FILE's buffer and number of pushes: types, what wait() has   *)
(* collected, and what a call that is over has given back.                 *)
(*                                                                         *)
(* Everything follows from where a caller is: the position of its call     *)
(* says which write ends are open, whether it holds the registry's mutex   *)
(* and whether anything can be in the FILE's buffer; the reader has seen   *)
(* the end of the pipe only when no write end was open and nothing was     *)
(* left in it, and from then on nothing can be written.                    *)
(***************************************************************************)
EXTENDS LiveExtract, TLAPS

\* The file is open from its registration until it is closed.
WithFile == {"decoding", "writing", "closing"}

\* full_read_from_memory has not returned.
InCall == {"idle", "parsing", "decoding", "writing", "parsed"}

\* Python's write end is open from the start of the call until wait() closes it.
BeforeClose ==
  {"parsing", "parsed", "leaving", "returned", "raising", "raised"} \union WithFile

\* Positions only determine the descriptors and the locks of a call, except that
\* a call may be left with its file open or without.
LocksInv ==
  \A c \in Callers :
    /\ mutex = c <=> pc[c] = "closing"
    /\ cond[c] = c <=> pc[c] = "checking"
    /\ pc[c] \in WithFile => "file" \in writers[c]
    /\ "file" \in writers[c] => pc[c] \in WithFile \union {"leaving"}
    /\ "python" \in writers[c] <=> pc[c] \in BeforeClose

\* A call that is left has a result.
ResultInv ==
  \A c \in Callers :
    /\ pc[c] \in InCall => result[c] = "none"
    /\ pc[c] = "leaving" => result[c] # "none"

\* Nothing is lost on the way from the decoder to the reader's buffer.
DataInv ==
  \A c \in Callers :
    /\ produced[c] = buffered[c] + pipe[c] + collected[c]
    /\ "file" \notin writers[c] => buffered[c] = 0

\* The reader ends when nobody can write anything any more.
ReaderInv ==
  \A c \in Callers :
    /\ reader[c] = "none" <=> pc[c] = "idle"
    /\ reader[c] \in {"ending", "ended"} => pipe[c] = 0 /\ writers[c] = {}
    /\ finished[c] <=> reader[c] = "ended"
    /\ pc[c] = "done" => finished[c]

LInv == LTypeOK /\ LocksInv /\ ResultInv /\ DataInv /\ ReaderInv

-----------------------------------------------------------------------------
(* The initial states and the steps                                        *)

\* Before a call nothing is open, held or written.
LEMMA InitLInv == LInit => LInv
  BY ExtractAssumption
  DEF LInit, LInv, LTypeOK, LocksInv, ResultInv, DataInv, ReaderInv, CallerStates,
      WithFile, InCall, BeforeClose

\* _BackgroundReader() and start(): a call and its reader begin.
LEMMA StartCallKeeps ==
  ASSUME LInv, NEW c \in Callers, StartCall(c)
  PROVE  LInv'
<1> USE DEF LInv, Goto, Add, data, errors, threads, StartCall
<1>1. LTypeOK'
  BY ExtractAssumption DEF LTypeOK, CallerStates
<1>2. LocksInv' /\ ResultInv'
  BY ExtractAssumption
  DEF LTypeOK, LocksInv, ResultInv, CallerStates, WithFile, InCall, BeforeClose
<1>3. DataInv'
  BY DEF LTypeOK, LocksInv, DataInv, CallerStates, WithFile
<1>4. ReaderInv'
  BY DEF LTypeOK, LocksInv, ReaderInv, CallerStates, WithFile, BeforeClose
<1> QED
  BY <1>1, <1>2, <1>3, <1>4

\* The decoder's file is opened and its header is in the buffer.
LEMMA RegisterKeeps ==
  ASSUME LInv, NEW c \in Callers, Register(c)
  PROVE  LInv'
<1> USE DEF LInv, Goto, Add, data, errors, threads, Register
<1>1. LTypeOK'
  <2>1. buffered[c] = 0 /\ 1 \in 0 .. BufSize
    BY ExtractAssumption DEF LocksInv, DataInv, WithFile
  <2>2. buffered' \in [Callers -> 0 .. BufSize] /\ produced' \in [Callers -> Nat]
    BY <2>1 DEF LTypeOK
  <2> QED
    BY <2>2 DEF LTypeOK, CallerStates
<1>2. LocksInv' /\ ResultInv'
  BY ExtractAssumption
  DEF LTypeOK, LocksInv, ResultInv, CallerStates, WithFile, InCall, BeforeClose
<1>3. DataInv'
  BY DEF LTypeOK, LocksInv, DataInv, CallerStates, WithFile
<1>4. ReaderInv'
  BY DEF LTypeOK, LocksInv, ReaderInv, CallerStates, WithFile, BeforeClose
<1> QED
  BY <1>1, <1>2, <1>3, <1>4

\* A push waits for the mutex; nothing else happens.
LEMMA PushLookupKeeps ==
  ASSUME LInv, NEW c \in Callers, PushLookup(c)
  PROVE  LInv'
<1> USE DEF LInv, Goto, Add, data, errors, threads, PushLookup
<1>1. LTypeOK'
  BY ExtractAssumption DEF LTypeOK, CallerStates
<1>2. LocksInv' /\ ResultInv'
  BY ExtractAssumption
  DEF LTypeOK, LocksInv, ResultInv, CallerStates, WithFile, InCall, BeforeClose
<1>3. DataInv'
  BY DEF LTypeOK, LocksInv, DataInv, CallerStates, WithFile
<1>4. ReaderInv'
  BY DEF LTypeOK, LocksInv, ReaderInv, CallerStates, WithFile, BeforeClose
<1> QED
  BY <1>1, <1>2, <1>3, <1>4

\* A push that fits is in the buffer.
LEMMA PushWriteKeeps ==
  ASSUME LInv, NEW c \in Callers, PushWrite(c)
  PROVE  LInv'
<1> USE DEF LInv, Goto, Add, data, errors, threads, PushWrite
<1>1. LTypeOK'
  BY ExtractAssumption DEF LTypeOK, CallerStates
<1>2. LocksInv' /\ ResultInv'
  BY ExtractAssumption
  DEF LTypeOK, LocksInv, ResultInv, CallerStates, WithFile, InCall, BeforeClose
<1>3. DataInv'
  BY DEF LTypeOK, LocksInv, DataInv, CallerStates, WithFile
<1>4. ReaderInv'
  BY DEF LTypeOK, LocksInv, ReaderInv, CallerStates, WithFile, BeforeClose
<1> QED
  BY <1>1, <1>2, <1>3, <1>4

\* What leaves the buffer is in the pipe.
LEMMA FlushKeeps ==
  ASSUME LInv, NEW c \in Callers, Flush(c)
  PROVE  LInv'
<1> USE DEF LInv, Goto, Add, data, errors, threads, Flush
<1>1. LTypeOK'
  BY ExtractAssumption DEF LTypeOK, CallerStates
<1>2. LocksInv' /\ ResultInv'
  BY ExtractAssumption
  DEF LTypeOK, LocksInv, ResultInv, CallerStates, WithFile, InCall, BeforeClose
<1>3. DataInv'
  <2>1. /\ "file" \in writers[c]
        /\ buffered[c] \in Int /\ pipe[c] \in Int /\ collected[c] \in Int
        /\ produced[c] = buffered[c] + pipe[c] + collected[c]
    BY ExtractAssumption DEF LTypeOK, LocksInv, DataInv, WithFile
  <2>2. produced'[c] = buffered'[c] + pipe'[c] + collected'[c]
    BY <2>1 DEF LTypeOK
  <2> QED
    BY <2>1, <2>2 DEF LTypeOK, DataInv, WithFile
<1>4. ReaderInv'
  BY DEF LTypeOK, LocksInv, ReaderInv, CallerStates, WithFile, BeforeClose
<1> QED
  BY <1>1, <1>2, <1>3, <1>4

\* The mutex is held while the file is closed.
LEMMA UnregisterKeeps ==
  ASSUME LInv, NEW c \in Callers, Unregister(c)
  PROVE  LInv'
<1> USE DEF LInv, Goto, Add, data, errors, threads, Registered, Unregister
<1>1. LTypeOK'
  BY ExtractAssumption DEF LTypeOK, CallerStates
<1>2. LocksInv' /\ ResultInv'
  BY ExtractAssumption
  DEF LTypeOK, LocksInv, ResultInv, CallerStates, WithFile, InCall, BeforeClose
<1>3. DataInv'
  BY DEF LTypeOK, LocksInv, DataInv, CallerStates, WithFile
<1>4. ReaderInv'
  BY DEF LTypeOK, LocksInv, ReaderInv, CallerStates, WithFile, BeforeClose
<1> QED
  BY <1>1, <1>2, <1>3, <1>4

\* The file is closed with an empty buffer and the mutex is free.
LEMMA ClosedKeeps ==
  ASSUME LInv, NEW c \in Callers, Closed(c)
  PROVE  LInv'
<1> USE DEF LInv, Goto, Add, data, errors, threads, AfterCall, AfterClose, Closed
<1>1. LTypeOK'
  BY ExtractAssumption DEF LTypeOK, CallerStates
<1>2. LocksInv' /\ ResultInv'
  BY ExtractAssumption
  DEF LTypeOK, LocksInv, ResultInv, CallerStates, WithFile, InCall, BeforeClose
<1>3. DataInv'
  BY DEF LTypeOK, LocksInv, DataInv, CallerStates, WithFile
<1>4. ReaderInv'
  BY DEF LTypeOK, LocksInv, ReaderInv, CallerStates, WithFile, BeforeClose
<1> QED
  BY <1>1, <1>2, <1>3, <1>4

\* A message is stored.
LEMMA StoreErrorKeeps ==
  ASSUME LInv, NEW c \in Callers, StoreError(c)
  PROVE  LInv'
<1> USE DEF LInv, Goto, Add, data, errors, threads, CanReturn, StoreError
<1>1. LTypeOK'
  BY ExtractAssumption DEF LTypeOK, CallerStates
<1>2. LocksInv' /\ ResultInv'
  BY ExtractAssumption
  DEF LTypeOK, LocksInv, ResultInv, CallerStates, WithFile, InCall, BeforeClose
<1>3. DataInv'
  BY DEF LTypeOK, LocksInv, DataInv, CallerStates, WithFile
<1>4. ReaderInv'
  BY DEF LTypeOK, LocksInv, ReaderInv, CallerStates, WithFile, BeforeClose
<1> QED
  BY <1>1, <1>2, <1>3, <1>4

\* full_read_from_memory has read to the end.
LEMMA EndOfInputKeeps ==
  ASSUME LInv, NEW c \in Callers, EndOfInput(c)
  PROVE  LInv'
<1> USE DEF LInv, Goto, Add, data, errors, threads, CanReturn, EndOfInput
<1>1. LTypeOK'
  BY ExtractAssumption DEF LTypeOK, CallerStates
<1>2. LocksInv' /\ ResultInv'
  BY ExtractAssumption
  DEF LTypeOK, LocksInv, ResultInv, CallerStates, WithFile, InCall, BeforeClose
<1>3. DataInv'
  BY DEF LTypeOK, LocksInv, DataInv, CallerStates, WithFile
<1>4. ReaderInv'
  BY DEF LTypeOK, LocksInv, ReaderInv, CallerStates, WithFile, BeforeClose
<1> QED
  BY <1>1, <1>2, <1>3, <1>4

\* A call is left that has no decoder.
LEMMA LeaveUnregisteredKeeps ==
  ASSUME LInv, NEW c \in Callers, LeaveUnregistered(c)
  PROVE  LInv'
<1> USE DEF LInv, Goto, Add, data, errors, threads, Registered, AfterCall, LeaveUnregistered
<1>1. LTypeOK'
  BY ExtractAssumption DEF LTypeOK, CallerStates
<1>2. LocksInv' /\ ResultInv'
  BY ExtractAssumption
  DEF LTypeOK, LocksInv, ResultInv, CallerStates, WithFile, InCall, BeforeClose
<1>3. DataInv'
  BY DEF LTypeOK, LocksInv, DataInv, CallerStates, WithFile
<1>4. ReaderInv'
  BY DEF LTypeOK, LocksInv, ReaderInv, CallerStates, WithFile, BeforeClose
<1> QED
  BY <1>1, <1>2, <1>3, <1>4

\* A message is read.
LEMMA RaiseKeeps ==
  ASSUME LInv, NEW c \in Callers, Raise(c)
  PROVE  LInv'
<1> USE DEF LInv, Goto, Add, data, errors, threads, Raise
<1>1. LTypeOK'
  BY ExtractAssumption DEF LTypeOK, CallerStates
<1>2. LocksInv' /\ ResultInv'
  BY ExtractAssumption
  DEF LTypeOK, LocksInv, ResultInv, CallerStates, WithFile, InCall, BeforeClose
<1>3. DataInv'
  BY DEF LTypeOK, LocksInv, DataInv, CallerStates, WithFile
<1>4. ReaderInv'
  BY DEF LTypeOK, LocksInv, ReaderInv, CallerStates, WithFile, BeforeClose
<1> QED
  BY <1>1, <1>2, <1>3, <1>4

\* wait() closes Python's write end under the condition's lock.
LEMMA WaitCloseKeeps ==
  ASSUME LInv, NEW c \in Callers, WaitClose(c)
  PROVE  LInv'
<1> USE DEF LInv, Goto, Add, data, errors, threads, WaitClose
<1>1. LTypeOK'
  BY ExtractAssumption DEF LTypeOK, CallerStates
<1>2. LocksInv' /\ ResultInv'
  BY ExtractAssumption
  DEF LTypeOK, LocksInv, ResultInv, CallerStates, WithFile, InCall, BeforeClose
<1>3. DataInv'
  BY DEF LTypeOK, LocksInv, DataInv, CallerStates, WithFile
<1>4. ReaderInv'
  BY DEF LTypeOK, LocksInv, ReaderInv, CallerStates, WithFile, BeforeClose
<1> QED
  BY <1>1, <1>2, <1>3, <1>4

\* wait() returns only when the reader has finished.
LEMMA WaitCheckKeeps ==
  ASSUME LInv, NEW c \in Callers, WaitCheck(c)
  PROVE  LInv'
<1> USE DEF LInv, Goto, Add, data, errors, threads, WaitCheck
<1>1. LTypeOK'
  BY ExtractAssumption DEF LTypeOK, CallerStates
<1>2. LocksInv' /\ ResultInv'
  BY ExtractAssumption
  DEF LTypeOK, LocksInv, ResultInv, CallerStates, WithFile, InCall, BeforeClose
<1>3. DataInv'
  BY DEF LTypeOK, LocksInv, DataInv, CallerStates, WithFile
<1>4. ReaderInv'
  BY DEF LTypeOK, LocksInv, ReaderInv, CallerStates, WithFile, BeforeClose
<1> QED
  BY <1>1, <1>2, <1>3, <1>4

\* A caller that was notified takes the condition's lock again.
LEMMA WaitWakeKeeps ==
  ASSUME LInv, NEW c \in Callers, WaitWake(c)
  PROVE  LInv'
<1> USE DEF LInv, Goto, Add, data, errors, threads, WaitWake
<1>1. LTypeOK'
  BY ExtractAssumption DEF LTypeOK, CallerStates
<1>2. LocksInv' /\ ResultInv'
  BY ExtractAssumption
  DEF LTypeOK, LocksInv, ResultInv, CallerStates, WithFile, InCall, BeforeClose
<1>3. DataInv'
  BY DEF LTypeOK, LocksInv, DataInv, CallerStates, WithFile
<1>4. ReaderInv'
  BY DEF LTypeOK, LocksInv, ReaderInv, CallerStates, WithFile, BeforeClose
<1> QED
  BY <1>1, <1>2, <1>3, <1>4

\* What was in the pipe is in the reader's buffer.
LEMMA CollectKeeps ==
  ASSUME LInv, NEW c \in Callers, Collect(c)
  PROVE  LInv'
<1> USE DEF LInv, Goto, Add, data, errors, threads, Collect
<1>1. LTypeOK'
  BY ExtractAssumption DEF LTypeOK, CallerStates
<1>2. LocksInv' /\ ResultInv'
  BY ExtractAssumption
  DEF LTypeOK, LocksInv, ResultInv, CallerStates, WithFile, InCall, BeforeClose
<1>3. DataInv'
  BY DEF LTypeOK, LocksInv, DataInv, CallerStates, WithFile
<1>4. ReaderInv'
  BY DEF LTypeOK, LocksInv, ReaderInv, CallerStates, WithFile, BeforeClose
<1> QED
  BY <1>1, <1>2, <1>3, <1>4

\* The end of the pipe is seen only when no write end is open.
LEMMA CollectEofKeeps ==
  ASSUME LInv, NEW c \in Callers, CollectEof(c)
  PROVE  LInv'
<1> USE DEF LInv, Goto, Add, data, errors, threads, CollectEof
<1>1. LTypeOK'
  BY ExtractAssumption DEF LTypeOK, CallerStates
<1>2. LocksInv' /\ ResultInv'
  BY ExtractAssumption
  DEF LTypeOK, LocksInv, ResultInv, CallerStates, WithFile, InCall, BeforeClose
<1>3. DataInv'
  BY DEF LTypeOK, LocksInv, DataInv, CallerStates, WithFile
<1>4. ReaderInv'
  BY DEF LTypeOK, LocksInv, ReaderInv, CallerStates, WithFile, BeforeClose
<1> QED
  BY <1>1, <1>2, <1>3, <1>4

\* finished is set and a sleeping caller is woken.
LEMMA FinishReaderKeeps ==
  ASSUME LInv, NEW c \in Callers, FinishReader(c)
  PROVE  LInv'
<1> USE DEF LInv, Goto, Add, data, errors, threads, FinishReader
<1>1. LTypeOK'
  BY ExtractAssumption DEF LTypeOK, CallerStates
<1>2. LocksInv' /\ ResultInv'
  BY ExtractAssumption
  DEF LTypeOK, LocksInv, ResultInv, CallerStates, WithFile, InCall, BeforeClose
<1>3. DataInv'
  BY DEF LTypeOK, LocksInv, DataInv, CallerStates, WithFile
<1>4. ReaderInv'
  BY DEF LTypeOK, LocksInv, ReaderInv, CallerStates, WithFile, BeforeClose
<1> QED
  BY <1>1, <1>2, <1>3, <1>4

\* Whoever moves, the invariant stays.
THEOREM StepLInv == LInv /\ [LNext]_lvars => LInv'
<1> SUFFICES ASSUME LInv, [LNext]_lvars PROVE LInv'
  OBVIOUS
<1>1. ASSUME NEW c \in Callers, StartCall(c) \/ CallerStep(c) \/ ReaderStep(c)
      PROVE  LInv'
  BY <1>1, StartCallKeeps, EndOfInputKeeps, LeaveUnregisteredKeeps, RegisterKeeps, PushLookupKeeps,
     PushWriteKeeps, FlushKeeps, UnregisterKeeps, ClosedKeeps, StoreErrorKeeps,
     RaiseKeeps, WaitCloseKeeps, WaitCheckKeeps, WaitWakeKeeps, CollectKeeps,
     CollectEofKeeps, FinishReaderKeeps
  DEF CallerStep, ReaderStep
<1>2. CASE UNCHANGED lvars
  BY <1>2 DEF lvars, LInv, LTypeOK, LocksInv, ResultInv, DataInv, ReaderInv
<1> QED
  BY <1>1, <1>2 DEF LNext

\* What every state of every behaviour satisfies.
THEOREM LInvariance == LSpec => []LInv
  BY InitLInv, StepLInv, PTL DEF LSpec

-----------------------------------------------------------------------------
(* The properties                                                          *)

(***************************************************************************)
(* Every variable keeps its type; in particular neither the pipe nor the   *)
(* FILE's buffer ever holds more than it has room for.                     *)
(***************************************************************************)
THEOREM ExtractTypes == LSpec => []LTypeOK
<1>1. LInv => LTypeOK
  BY DEF LInv
<1> QED
  BY <1>1, LInvariance, PTL

(***************************************************************************)
(* What decode_ogg_vorbis returns is complete: when wait() returns, the    *)
(* reader has seen the end of the pipe, so the file and with it the FILE's *)
(* buffer were empty and closed, and so was the pipe.                      *)
(***************************************************************************)
THEOREM CompleteWhenDone == LSpec => []EverythingIsCollected
<1>1. LInv => EverythingIsCollected
  <2> SUFFICES ASSUME LInv, NEW c \in Callers, pc[c] = "done"
               PROVE  collected[c] = produced[c]
    BY DEF EverythingIsCollected
  <2>1. reader[c] = "ended"
    BY DEF LInv, ReaderInv
  <2>2. pipe[c] = 0
    BY <2>1 DEF LInv, ReaderInv
  <2>3. buffered[c] = 0
    BY DEF LInv, LocksInv, DataInv, WithFile
  <2> QED
    BY <2>2, <2>3 DEF LInv, LTypeOK, DataInv
<1> QED
  BY <1>1, LInvariance, PTL

(***************************************************************************)
(* When Python has a call's result, the call neither holds the mutex of    *)
(* all decoders nor has its file open: also one that failed in the middle  *)
(* of a stream, which stored its message with the file open.               *)
(***************************************************************************)
THEOREM NothingIsKept == LSpec => []CallsReleaseTheirs
<1>1. LInv => CallsReleaseTheirs
  BY DEF LInv, LTypeOK, LocksInv, CallsReleaseTheirs, WithFile
<1> QED
  BY <1>1, LInvariance, PTL
=============================================================================
