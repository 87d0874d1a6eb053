-------------------------- MODULE DecoderRegistry ---------------------------
(***************************************************************************)
(* The registry of Callbacks.cpp: decoders and decoder_alias_map, keyed by *)
(* the addresses of objects, guarded by one mutex that is released between *)
(* looking a decoder up and using it.  Several threads decode; each has    *)
(* one VorbisStream at a time, whose setup registers it with its           *)
(* decode_state and floors as aliases and whose destructor unregisters it. *)
(*                                                                         *)
(* A critical section is one action, and so is what a thread does with an  *)
(* Info between two of them.  Addresses are reused as soon as the object   *)
(* is gone, by any thread and for any kind of object.                      *)
(***************************************************************************)
EXTENDS Integers, FiniteSets, Functions

CONSTANTS
  Threads,
  Addresses,    \* addresses of streams, decode states and floors
  NoAddress,
  MaxAliases,   \* bound: aliases of one stream
  MaxDecoders,  \* bound: how many decodes are started
  MaxOutputs    \* bound: how many outputs and filters are set

ASSUME RegistryAssumption ==
  /\ NoAddress \notin Addresses
  /\ MaxAliases \in Nat /\ MaxDecoders \in Nat /\ MaxOutputs \in Nat

VARIABLES
  decoders,            \* address -> Info
  decoder_alias_map,   \* address -> address of a registered decoder
  decoder_unique_idx,
  output_type,         \* thread_local: 0 is OT_null, else the number of the call
  data_filter,         \* thread_local: 0 is none, else the number of the call
  pc,
  stream,              \* the address of the thread's VorbisStream
  parts,               \* addresses inside what the stream owns
  info,                \* the Info a thread has a pointer to, as its key and idx
  alias_ref,           \* the alias register_decoder_alias is called with
  started, outputs     \* history: bound the decodes and the settings

dvars == <<decoders, decoder_alias_map, decoder_unique_idx, output_type,
           data_filter, pc, stream, parts, info, alias_ref, started, outputs>>

registry == <<decoders, decoder_alias_map, decoder_unique_idx>>
settings == <<output_type, data_filter>>
memory   == <<stream, parts>>
bounds   == <<started, outputs>>

Null == [ref |-> NoAddress, idx |-> 0]

InUse == {stream[t] : t \in Threads} \union UNION {parts[t] : t \in Threads}
Free  == Addresses \ InUse

DInit ==
  /\ decoders = [a \in {} |-> Null]
  /\ decoder_alias_map = [a \in {} |-> NoAddress]
  /\ decoder_unique_idx = 1
  /\ output_type = [t \in Threads |-> 0]
  /\ data_filter = [t \in Threads |-> 0]
  /\ pc = [t \in Threads |-> "idle"]
  /\ stream = [t \in Threads |-> NoAddress]
  /\ parts = [t \in Threads |-> {}]
  /\ info = [t \in Threads |-> Null]
  /\ alias_ref = [t \in Threads |-> NoAddress]
  /\ started = 0 /\ outputs = 0

Goto(t, from, to) ==
  /\ pc[t] = from
  /\ pc' = [pc EXCEPT ![t] = to]

-----------------------------------------------------------------------------
(* Lookups: get_decoder_ptr                                                *)

\* A mutant of Resolve: aliases are not looked up.
ResolveDirectly(ref) == ref

\* The key an address stands for, directly or as an alias.
Resolve(ref) ==
  IF ref \in DOMAIN decoder_alias_map THEN decoder_alias_map[ref] ELSE ref

Lookup(ref) ==
  IF Resolve(ref) \in DOMAIN decoders
  THEN [ref |-> Resolve(ref), idx |-> decoders[Resolve(ref)].idx]
  ELSE Null

Point(t, ref) == info' = [info EXCEPT ![t] = Lookup(ref)]

Release(t) == info' = [info EXCEPT ![t] = Null]

-----------------------------------------------------------------------------
(* A decode of one stream                                                  *)

set_data_output_file(t) ==
  /\ pc[t] = "idle" /\ outputs < MaxOutputs
  /\ outputs' = outputs + 1
  /\ output_type' = [output_type EXCEPT ![t] = outputs']
  /\ UNCHANGED <<registry, data_filter, pc, memory, info, alias_ref, started>>

set_data_output_null(t) ==
  /\ pc[t] = "idle"
  /\ output_type' = [output_type EXCEPT ![t] = 0]
  /\ UNCHANGED <<registry, data_filter, pc, memory, info, alias_ref, bounds>>

\* With a list of names, which may be empty.
set_data_filter(t) ==
  /\ pc[t] = "idle" /\ outputs < MaxOutputs
  /\ outputs' = outputs + 1
  /\ data_filter' = [data_filter EXCEPT ![t] = outputs']
  /\ UNCHANGED <<registry, output_type, pc, memory, info, alias_ref, started>>

\* set_data_filter without a list.
ClearFilter(t) ==
  /\ pc[t] = "idle"
  /\ data_filter' = [data_filter EXCEPT ![t] = 0]
  /\ UNCHANGED <<registry, output_type, pc, memory, info, alias_ref, bounds>>

StartDecode(t) ==
  /\ Goto(t, "idle", "parsing") /\ started < MaxDecoders
  /\ started' = started + 1
  /\ \E a \in Free : stream' = [stream EXCEPT ![t] = a]
  /\ UNCHANGED <<registry, settings, parts, info, alias_ref, outputs>>

\* The stream is destroyed before its setup was parsed.
FailBeforeSetup(t) ==
  /\ Goto(t, "parsing", "destroying")
  /\ UNCHANGED <<registry, settings, memory, info, alias_ref, bounds>>

Known(t) == stream[t] \in DOMAIN decoders

\* A mutant of Entry: an Info that is new gets no number.
EntryWithoutIdx(t) ==
  [idx     |-> IF Known(t) THEN decoders[stream[t]].idx ELSE 0,
   aliases |-> IF Known(t) THEN decoders[stream[t]].aliases ELSE {},
   output  |-> output_type[t],
   filter  |-> data_filter[t],
   owner   |-> t]

\* The thread's Info: an entry that is already there keeps its number.
Entry(t) ==
  [idx     |-> IF Known(t) THEN decoders[stream[t]].idx ELSE decoder_unique_idx,
   aliases |-> IF Known(t) THEN decoders[stream[t]].aliases ELSE {},
   output  |-> output_type[t],
   filter  |-> data_filter[t],
   owner   |-> t]

\* A mutant of register_decoder_ref: the thread keeps its filter.
RegisterKeepsFilter(t) ==
  /\ Goto(t, "parsing", "setup")
  /\ \E own \in SUBSET Free :
       /\ Cardinality(own) \in 1 .. MaxAliases
       /\ parts' = [parts EXCEPT ![t] = own]
  /\ decoders' = [a \in DOMAIN decoders \union {stream[t]} |->
                    IF a = stream[t] THEN Entry(t) ELSE decoders[a]]
  /\ decoder_unique_idx' =
       IF Known(t) THEN decoder_unique_idx ELSE decoder_unique_idx + 1
  /\ output_type' = [output_type EXCEPT ![t] = 0]
  /\ UNCHANGED <<decoder_alias_map, data_filter, stream, info, alias_ref, bounds>>

\* parse_setup allocates what the setup describes, then registers the stream.
register_decoder_ref(t) ==
  /\ Goto(t, "parsing", "setup")
  /\ \E own \in SUBSET Free :
       /\ Cardinality(own) \in 1 .. MaxAliases
       /\ parts' = [parts EXCEPT ![t] = own]
  /\ decoders' = [a \in DOMAIN decoders \union {stream[t]} |->
                    IF a = stream[t] THEN Entry(t) ELSE decoders[a]]
  /\ decoder_unique_idx' =
       IF Known(t) THEN decoder_unique_idx ELSE decoder_unique_idx + 1
  /\ output_type' = [output_type EXCEPT ![t] = 0]
  /\ data_filter' = [data_filter EXCEPT ![t] = 0]
  /\ UNCHANGED <<decoder_alias_map, stream, info, alias_ref, bounds>>

Aliased(t) == {p \in parts[t] : p \in DOMAIN decoder_alias_map}

\* register_decoder_alias: the lookup is one critical section ...
AliasLookup(t, p) ==
  /\ Goto(t, "setup", "aliasing")
  /\ p \in parts[t] \ Aliased(t)
  /\ Point(t, stream[t])
  /\ alias_ref' = [alias_ref EXCEPT ![t] = p]
  /\ UNCHANGED <<registry, settings, memory, bounds>>

\* ... and the two insertions are another.
AliasInsert(t) ==
  /\ Goto(t, "aliasing", "setup")
  /\ info[t].ref \in DOMAIN decoders
  /\ decoders' = [decoders EXCEPT ![info[t].ref].aliases = @ \union {alias_ref[t]}]
  /\ decoder_alias_map' =
       [a \in DOMAIN decoder_alias_map \union {alias_ref[t]} |->
          IF a = alias_ref[t] THEN info[t].ref ELSE decoder_alias_map[a]]
  /\ alias_ref' = [alias_ref EXCEPT ![t] = NoAddress]
  /\ Release(t)
  /\ UNCHANGED <<decoder_unique_idx, settings, memory, bounds>>

FinishSetup(t) ==
  /\ Goto(t, "setup", "decoding")
  /\ parts[t] = Aliased(t)
  /\ UNCHANGED <<registry, settings, memory, info, alias_ref, bounds>>

(***************************************************************************)
(* push_data_T looks its decoder up under the mutex ...  (The pushes of    *)
(* parse_setup itself, between two aliases, do the same.)                  *)
(***************************************************************************)
PushLookup(t, ref) ==
  /\ Goto(t, "decoding", "pushing")
  /\ ref \in {stream[t]} \union parts[t]
  /\ Point(t, ref)
  /\ UNCHANGED <<registry, settings, memory, alias_ref, bounds>>

\* ... and writes to its file without it.
PushWrite(t) ==
  /\ Goto(t, "pushing", "decoding")
  /\ Release(t)
  /\ UNCHANGED <<registry, settings, memory, alias_ref, bounds>>

EndDecode(t) ==
  /\ Goto(t, "decoding", "destroying")
  /\ UNCHANGED <<registry, settings, memory, info, alias_ref, bounds>>

-----------------------------------------------------------------------------
(* ~VorbisStream: unregister_decoder_ref, then the memory is given back    *)

\* A mutant of UnregisterLookup: a destructor that forgets to unregister.
SkipUnregister(t) ==
  /\ Goto(t, "destroying", "freeing")
  /\ UNCHANGED <<registry, settings, memory, info, alias_ref, bounds>>

UnregisterLookup(t) ==
  /\ Goto(t, "destroying", IF Lookup(stream[t]) = Null THEN "freeing" ELSE "erasing")
  /\ Point(t, stream[t])
  /\ UNCHANGED <<registry, settings, memory, alias_ref, bounds>>

\* A mutant of UnregisterErase: the aliases stay in the map.
EraseWithoutAliases(t) ==
  /\ Goto(t, "erasing", "freeing")
  /\ info[t].ref \in DOMAIN decoders
  /\ decoders' = Restrict(decoders, DOMAIN decoders \ {info[t].ref})
  /\ Release(t)
  /\ UNCHANGED <<decoder_alias_map, decoder_unique_idx, settings, memory,
                 alias_ref, bounds>>

UnregisterErase(t) ==
  /\ Goto(t, "erasing", "freeing")
  /\ info[t].ref \in DOMAIN decoders
  /\ decoder_alias_map' =
       Restrict(decoder_alias_map,
                DOMAIN decoder_alias_map \ decoders[info[t].ref].aliases)
  /\ decoders' = Restrict(decoders, DOMAIN decoders \ {info[t].ref})
  /\ Release(t)
  /\ UNCHANGED <<decoder_unique_idx, settings, memory, alias_ref, bounds>>

FreeStream(t) ==
  /\ Goto(t, "freeing", "idle")
  /\ stream' = [stream EXCEPT ![t] = NoAddress]
  /\ parts' = [parts EXCEPT ![t] = {}]
  /\ UNCHANGED <<registry, settings, info, alias_ref, bounds>>

DNext ==
  \E t \in Threads :
    \/ set_data_output_file(t)
    \/ set_data_output_null(t)
    \/ set_data_filter(t)
    \/ ClearFilter(t)
    \/ StartDecode(t)
    \/ FailBeforeSetup(t)
    \/ register_decoder_ref(t)
    \/ \E p \in parts[t] : AliasLookup(t, p)
    \/ AliasInsert(t)
    \/ FinishSetup(t)
    \/ \E ref \in Addresses : PushLookup(t, ref)
    \/ PushWrite(t)
    \/ EndDecode(t)
    \/ UnregisterLookup(t)
    \/ UnregisterErase(t)
    \/ FreeStream(t)

DSpec == DInit /\ [][DNext]_dvars

-----------------------------------------------------------------------------
(* Properties                                                              *)

Infos == [idx : Nat \ {0}, aliases : SUBSET Addresses, output : Nat, filter : Nat,
          owner : Threads]

ThreadStates ==
  {"idle", "parsing", "setup", "aliasing", "decoding", "pushing", "destroying",
   "erasing", "freeing"}

DTypeOK ==
  /\ DOMAIN decoders \subseteq Addresses
  /\ \A a \in DOMAIN decoders : decoders[a] \in Infos
  /\ DOMAIN decoder_alias_map \subseteq Addresses
  /\ \A a \in DOMAIN decoder_alias_map : decoder_alias_map[a] \in Addresses
  /\ decoder_unique_idx \in Nat \ {0}
  /\ output_type \in [Threads -> Nat] /\ data_filter \in [Threads -> Nat]
  /\ stream \in [Threads -> Addresses \union {NoAddress}]
  /\ parts \in [Threads -> SUBSET Addresses]
  /\ alias_ref \in [Threads -> Addresses \union {NoAddress}]
  /\ info \in [Threads -> [ref : Addresses \union {NoAddress}, idx : Nat]]
  /\ pc \in [Threads -> ThreadStates]
  /\ started \in Nat /\ outputs \in Nat

(***************************************************************************)
(* The mutex is not held while an Info is used.  The Info a thread points  *)
(* to is nevertheless still in the map, it is the same one, and it belongs *)
(* to that thread, although others register, unregister and reuse the same *)
(* addresses meanwhile.                                                    *)
(***************************************************************************)
PointersStayValid ==
  \A t \in Threads :
    pc[t] \in {"aliasing", "pushing", "erasing"} =>
      /\ info[t].ref \in DOMAIN decoders
      /\ decoders[info[t].ref].idx = info[t].idx
      /\ decoders[info[t].ref].owner = t

(***************************************************************************)
(* decoder_alias_map and the aliases of the Infos say the same, and name   *)
(* only memory of a stream that still exists: an address is never found as *)
(* an alias once the stream that owned it is gone.                         *)
(***************************************************************************)
AliasesAreLive ==
  /\ \A a \in DOMAIN decoder_alias_map :
       \E t \in Threads : a \in parts[t] /\ decoder_alias_map[a] = stream[t]
  /\ \A a \in DOMAIN decoder_alias_map :
       /\ decoder_alias_map[a] \in DOMAIN decoders
       /\ a \in decoders[decoder_alias_map[a]].aliases
  /\ \A r \in DOMAIN decoders : \A a \in decoders[r].aliases :
       a \in DOMAIN decoder_alias_map /\ decoder_alias_map[a] = r

(***************************************************************************)
(* Decoders are told apart by idx, and a setting is for one decoder: an    *)
(* output that was set, and a filter, apply to the decoder the thread      *)
(* registers next and to no later one (Callbacks.h:19), however many       *)
(* settings and failing decodes there are before it.                       *)
(***************************************************************************)
DecodersAreDistinct ==
  /\ \A a, b \in DOMAIN decoders :
       a # b => /\ decoders[a].idx # decoders[b].idx
                /\ decoders[a].output = decoders[b].output => decoders[a].output = 0
                /\ decoders[a].filter = decoders[b].filter => decoders[a].filter = 0
  /\ \A a \in DOMAIN decoders, t \in Threads :
       /\ decoders[a].output = output_type[t] => output_type[t] = 0
       /\ decoders[a].filter = data_filter[t] => data_filter[t] = 0

(***************************************************************************)
(* Nothing stays registered: a stream that is gone is in neither map.      *)
(***************************************************************************)
NothingIsLeft ==
  \A t \in Threads :
    pc[t] \in {"idle", "parsing", "freeing"} =>
      /\ \A a \in DOMAIN decoders : decoders[a].owner # t
      /\ stream[t] \notin DOMAIN decoder_alias_map
=============================================================================
