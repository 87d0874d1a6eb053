--------------------------- MODULE StreamListener ---------------------------
(***************************************************************************)
(* What an implementation of ParseCallbacks may rely on: in which order    *)
(* gotHeader, gotComments, gotSetup, gotPcmData and gotEof are called for  *)
(* one logical stream, that two streams are called independently, and that *)
(* nothing is called after a refusal (a callback that returned false).     *)
(***************************************************************************)
CONSTANT Serials    \* the serial numbers of logical streams

VARIABLES
  stage,    \* per serial, which callback of the current stream came last
  heard,    \* the last callback, with the serial it is about
  silent    \* no more callbacks

vars == <<stage, heard, silent>>

Nothing == [call |-> "none", serial |-> {}]

\* The stages after which a callback may come, and the stage it leads to.
Before == [header   |-> {"begun"},
           comments |-> {"header"},
           setup    |-> {"comments"},
           pcm      |-> {"setup", "pcm"},
           eof      |-> {"header", "comments", "setup", "pcm"}]

Calls == DOMAIN Before

Stages == {"closed", "begun"} \union (Calls \ {"eof"})

Init ==
  /\ stage = [s \in Serials |-> "closed"]
  /\ heard = Nothing
  /\ silent = FALSE

\* A stream begins; one that ended may begin again under the same serial.
Begin(s) ==
  /\ ~silent
  /\ stage[s] = "closed"
  /\ stage' = [stage EXCEPT ![s] = "begun"]
  /\ UNCHANGED <<heard, silent>>

Hear(c, s) ==
  /\ ~silent
  /\ stage[s] \in Before[c]
  /\ stage' = [stage EXCEPT ![s] = IF c = "eof" THEN "closed" ELSE c]
  /\ heard' = [call |-> c, serial |-> s]
  /\ UNCHANGED silent

\* The listener refuses the call it has just seen, and hears nothing more.
Refuse(c, s) ==
  /\ ~silent
  /\ stage[s] \in Before[c]
  /\ heard' = [call |-> c, serial |-> s]
  /\ silent' = TRUE
  /\ UNCHANGED stage

\* Reading ends, at the end of the input or on an error.
Finish ==
  /\ silent' = TRUE
  /\ UNCHANGED <<stage, heard>>

\* The reader goes away, and with it the streams that did not end.
Release ==
  /\ silent
  /\ stage' = [s \in Serials |-> "closed"]
  /\ UNCHANGED <<heard, silent>>

Next ==
  \/ \E s \in Serials :
       \/ Begin(s)
       \/ \E c \in Calls : Hear(c, s) \/ Refuse(c, s)
  \/ Finish
  \/ Release

Spec == Init /\ [][Next]_vars
=============================================================================
