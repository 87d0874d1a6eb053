----------------------- MODULE DecoderRegistryProofs ------------------------
(***************************************************************************)
(* Proofs about DecoderRegistry for any number of threads and addresses.   *)
(*                                                                         *)
(* The registry is keyed by addresses that are reused, so the argument     *)
(* starts from the memory: every address belongs to one thread's stream at *)
(* most.  A registered decoder is the stream of its owner, its aliases lie *)
(* in what that stream owns, and both are gone before the memory is.  What *)
(* a thread looks up by an address of its own is then its own decoder, and *)
(* no other thread can erase it.                                           *)
(***************************************************************************)
EXTENDS DecoderRegistry, TLAPS

\* Every address belongs to one stream at most, as the stream or as a part.
MemoryInv ==
  /\ \A t, u \in Threads :
       t # u => /\ stream[t] # stream[u] \/ stream[t] = NoAddress
                /\ parts[t] \cap parts[u] = {}
  /\ \A t, u \in Threads : stream[t] \notin parts[u]
  /\ \A t \in Threads :
       /\ pc[t] = "idle" <=> stream[t] = NoAddress
       /\ pc[t] \in {"idle", "parsing"} => parts[t] = {}

Registered == {"setup", "aliasing", "decoding", "pushing", "erasing"}
Unregistered == {"idle", "parsing", "freeing"}

\* A decoder is its owner's stream, from its setup to its destructor.
OwnerInv ==
  /\ \A a \in DOMAIN decoders :
       /\ a = stream[decoders[a].owner]
       /\ decoders[a].aliases \subseteq parts[decoders[a].owner]
  /\ \A t \in Threads :
       /\ pc[t] \in Registered => stream[t] \in DOMAIN decoders
       /\ pc[t] \in Unregistered => stream[t] \notin DOMAIN decoders

\* The alias map and the aliases of the decoders are each other's inverse.
AliasInv ==
  /\ \A p \in DOMAIN decoder_alias_map :
       /\ decoder_alias_map[p] \in DOMAIN decoders
       /\ p \in decoders[decoder_alias_map[p]].aliases
  /\ \A a \in DOMAIN decoders : \A p \in decoders[a].aliases :
       p \in DOMAIN decoder_alias_map /\ decoder_alias_map[p] = a
  /\ \A t \in Threads :
       pc[t] \in {"decoding", "pushing"} => parts[t] \subseteq DOMAIN decoder_alias_map

\* The Info a thread points to is its own decoder's.
InfoInv ==
  \A t \in Threads :
    /\ pc[t] \in {"aliasing", "pushing", "erasing"} =>
         info[t] = [ref |-> stream[t], idx |-> decoders[stream[t]].idx]
    /\ pc[t] = "aliasing" => alias_ref[t] \in parts[t]

DInv == DTypeOK /\ MemoryInv /\ OwnerInv /\ AliasInv /\ InfoInv

-----------------------------------------------------------------------------
(* What a lookup finds                                                     *)

\* A stream that is registered is found under its own address.
LEMMA OwnLookup ==
  ASSUME DInv, NEW t \in Threads, stream[t] \in DOMAIN decoders
  PROVE  Lookup(stream[t]) = [ref |-> stream[t], idx |-> decoders[stream[t]].idx]
<1>1. stream[t] \notin DOMAIN decoder_alias_map
  BY DEF DInv, DTypeOK, Infos, MemoryInv, OwnerInv, AliasInv
<1> QED
  BY <1>1 DEF Lookup, Resolve

\* A part that is an alias is found as the stream it belongs to.
LEMMA AliasFound ==
  ASSUME DInv, NEW t \in Threads, NEW p \in parts[t],
         p \in DOMAIN decoder_alias_map
  PROVE  /\ decoder_alias_map[p] = stream[t]
         /\ stream[t] \in DOMAIN decoders
         /\ Lookup(p) = [ref |-> stream[t], idx |-> decoders[stream[t]].idx]
<1> DEFINE a == decoder_alias_map[p]
<1>1. a \in DOMAIN decoders /\ p \in decoders[a].aliases
  BY DEF DInv, AliasInv
<1>2. /\ decoders[a].owner \in Threads
      /\ a = stream[decoders[a].owner]
      /\ p \in parts[decoders[a].owner]
  BY <1>1 DEF DInv, DTypeOK, Infos, OwnerInv
<1>3. decoders[a].owner = t
  BY <1>2 DEF DInv, MemoryInv
<1> QED
  BY <1>1, <1>2, <1>3 DEF Lookup, Resolve

\* A stream that is not registered is not found.
LEMMA NotFound ==
  ASSUME DInv, NEW t \in Threads, stream[t] \notin DOMAIN decoders
  PROVE  Lookup(stream[t]) = Null
<1>1. stream[t] \notin DOMAIN decoder_alias_map
  BY DEF DInv, DTypeOK, Infos, MemoryInv, OwnerInv, AliasInv
<1> QED
  BY <1>1 DEF Lookup, Resolve
-----------------------------------------------------------------------------
(* The operations                                                          *)

\* No thread has a stream, nothing is registered.
LEMMA InitInv == DInit => DInv
<1> SUFFICES ASSUME DInit PROVE DInv
  OBVIOUS
<1>1. DTypeOK
  BY RegistryAssumption DEF DInit, DTypeOK, Null, ThreadStates
<1> QED
  BY <1>1 DEF DInit, DInv, MemoryInv, OwnerInv, AliasInv, InfoInv, Null, Registered, Unregistered

(***************************************************************************)
(* A step that changes neither the registry nor the memory only has to     *)
(* leave every thread in a state that fits what is registered.             *)
(***************************************************************************)
LEMMA QuietStep ==
  ASSUME DInv, DTypeOK', UNCHANGED <<registry, memory>>,
         NEW t \in Threads,
         \A u \in Threads \ {t} : pc'[u] = pc[u] /\ info'[u] = info[u] /\ alias_ref'[u] = alias_ref[u],
         pc'[t] = "idle" <=> pc[t] = "idle",
         pc'[t] = "parsing" => pc[t] = "parsing",
         pc'[t] \in Registered => stream[t] \in DOMAIN decoders,
         pc'[t] \in Unregistered => stream[t] \notin DOMAIN decoders,
         pc'[t] \in {"decoding", "pushing"} => parts[t] \subseteq DOMAIN decoder_alias_map,
         pc'[t] \in {"aliasing", "pushing", "erasing"} =>
           info'[t] = [ref |-> stream[t], idx |-> decoders[stream[t]].idx],
         pc'[t] = "aliasing" => alias_ref'[t] \in parts[t]
  PROVE  DInv'
<1>1. /\ decoders' = decoders /\ decoder_alias_map' = decoder_alias_map
      /\ stream' = stream /\ parts' = parts
  BY DEF registry, memory
<1>2. MemoryInv'
  BY <1>1 DEF DInv, MemoryInv
<1>3. OwnerInv'
  BY <1>1 DEF DInv, OwnerInv
<1>4. AliasInv'
  BY <1>1 DEF DInv, AliasInv
<1>5. InfoInv'
  BY <1>1 DEF DInv, InfoInv
<1> QED
  BY <1>2, <1>3, <1>4, <1>5 DEF DInv

Setting(t) ==
  set_data_output_file(t) \/ set_data_output_null(t) \/ set_data_filter(t) \/ ClearFilter(t)

\* A setting changes no decoder.
LEMMA SettingInv ==
  ASSUME DInv, NEW t \in Threads, Setting(t)
  PROVE  DInv'
<1>1. /\ UNCHANGED <<registry, pc, memory, info, alias_ref, started>>
      /\ pc[t] = "idle"
  BY DEF Setting, set_data_output_file, set_data_output_null, set_data_filter, ClearFilter, bounds
<1>2. /\ output_type' \in [Threads -> Nat]
      /\ data_filter' \in [Threads -> Nat]
      /\ outputs' \in Nat
  <2>1. CASE set_data_output_file(t)
    BY <2>1 DEF set_data_output_file, DInv, DTypeOK
  <2>2. CASE set_data_output_null(t)
    BY <2>2 DEF set_data_output_null, bounds, DInv, DTypeOK
  <2>3. CASE set_data_filter(t)
    BY <2>3 DEF set_data_filter, DInv, DTypeOK
  <2>4. CASE ClearFilter(t)
    BY <2>4 DEF ClearFilter, bounds, DInv, DTypeOK
  <2> QED
    BY <2>1, <2>2, <2>3, <2>4 DEF Setting
<1>3. DTypeOK'
  BY <1>1, <1>2 DEF registry, memory, DInv, DTypeOK
<1> QED
  BY <1>1, <1>3, QuietStep
  DEF registry, memory, DInv, DTypeOK, OwnerInv, AliasInv, InfoInv, Registered, Unregistered

\* A stream that fails before its setup is in no map.
LEMMA FailBeforeSetupInv ==
  ASSUME DInv, NEW t \in Threads, FailBeforeSetup(t)
  PROVE  DInv'
<1>1. DTypeOK'
  BY RegistryAssumption DEF FailBeforeSetup, Goto, DInv, DTypeOK, Infos, Null, Release, Point, ThreadStates, registry, settings, memory, bounds
<1> QED
  BY <1>1, QuietStep
  DEF FailBeforeSetup, Goto, Point, Release, Aliased, registry, settings, memory, bounds, DInv, DTypeOK,
      OwnerInv, AliasInv, InfoInv, Registered, Unregistered

\* The thread finds its own decoder, to which it will add an alias.
LEMMA AliasLookupInv ==
  ASSUME DInv, NEW t \in Threads, NEW p \in parts[t], AliasLookup(t, p)
  PROVE  DInv'
<1>1. Lookup(stream[t]) = [ref |-> stream[t], idx |-> decoders[stream[t]].idx]
  BY OwnLookup DEF DInv, OwnerInv, AliasLookup, Goto, Registered
<1>2. stream[t] \in DOMAIN decoders
  BY DEF DInv, OwnerInv, AliasLookup, Goto, Registered
<1>3. DTypeOK'
  BY <1>1, <1>2, RegistryAssumption
  DEF AliasLookup, Goto, DInv, DTypeOK, Infos, Null, Release, Point, ThreadStates, registry, settings, memory, bounds
<1> QED
  BY <1>1, <1>2, <1>3, QuietStep
  DEF AliasLookup, Goto, Point, Release, Aliased, registry, settings, memory, bounds, DInv, DTypeOK,
      OwnerInv, AliasInv, InfoInv, Registered, Unregistered

\* Every part of the stream is an alias.
LEMMA FinishSetupInv ==
  ASSUME DInv, NEW t \in Threads, FinishSetup(t)
  PROVE  DInv'
<1>1. DTypeOK'
  BY RegistryAssumption DEF FinishSetup, Goto, DInv, DTypeOK, Infos, Null, Release, Point, ThreadStates, registry, settings, memory, bounds
<1> QED
  BY <1>1, QuietStep
  DEF FinishSetup, Goto, Point, Release, Aliased, registry, settings, memory, bounds, DInv, DTypeOK,
      OwnerInv, AliasInv, InfoInv, Registered, Unregistered

\* The thread finds its own decoder, by the stream or by any part of it.
LEMMA PushLookupInv ==
  ASSUME DInv, NEW t \in Threads, NEW ref \in Addresses, PushLookup(t, ref)
  PROVE  DInv'
<1>1. Lookup(ref) = [ref |-> stream[t], idx |-> decoders[stream[t]].idx]
  BY OwnLookup, AliasFound DEF DInv, OwnerInv, AliasInv, PushLookup, Goto, Registered
<1>2. stream[t] \in DOMAIN decoders
  BY DEF DInv, OwnerInv, PushLookup, Goto, Registered
<1>3. DTypeOK'
  BY <1>1, <1>2, RegistryAssumption
  DEF PushLookup, Goto, DInv, DTypeOK, Infos, Null, Release, Point, ThreadStates, registry, settings, memory, bounds
<1> QED
  BY <1>1, <1>2, <1>3, QuietStep
  DEF PushLookup, Goto, Point, Release, Aliased, registry, settings, memory, bounds, DInv, DTypeOK,
      OwnerInv, AliasInv, InfoInv, Registered, Unregistered

\* Writing touches no map.
LEMMA PushWriteInv ==
  ASSUME DInv, NEW t \in Threads, PushWrite(t)
  PROVE  DInv'
<1>1. DTypeOK'
  BY RegistryAssumption DEF PushWrite, Goto, DInv, DTypeOK, Infos, Null, Release, Point, ThreadStates, registry, settings, memory, bounds
<1> QED
  BY <1>1, QuietStep
  DEF PushWrite, Goto, Point, Release, Aliased, registry, settings, memory, bounds, DInv, DTypeOK,
      OwnerInv, AliasInv, InfoInv, Registered, Unregistered

\* The stream is about to be destroyed, and still registered.
LEMMA EndDecodeInv ==
  ASSUME DInv, NEW t \in Threads, EndDecode(t)
  PROVE  DInv'
<1>1. DTypeOK'
  BY RegistryAssumption DEF EndDecode, Goto, DInv, DTypeOK, Infos, Null, Release, Point, ThreadStates, registry, settings, memory, bounds
<1> QED
  BY <1>1, QuietStep
  DEF EndDecode, Goto, Point, Release, Aliased, registry, settings, memory, bounds, DInv, DTypeOK,
      OwnerInv, AliasInv, InfoInv, Registered, Unregistered

\* The destructor finds its stream's decoder, if there is one.
LEMMA UnregisterLookupInv ==
  ASSUME DInv, NEW t \in Threads, UnregisterLookup(t)
  PROVE  DInv'
<1>1. CASE stream[t] \in DOMAIN decoders
  <2>1. Lookup(stream[t]) = [ref |-> stream[t], idx |-> decoders[stream[t]].idx]
    BY <1>1, OwnLookup
  <2>2. Lookup(stream[t]) # Null
    BY <1>1, <2>1, RegistryAssumption DEF Null, DInv, DTypeOK
  <2>3. pc' = [pc EXCEPT ![t] = "erasing"] /\ info' = [info EXCEPT ![t] = Lookup(stream[t])]
    BY <2>2 DEF UnregisterLookup, Goto, Point
  <2>4. DTypeOK'
    BY <1>1, <2>1, <2>3 DEF UnregisterLookup, DInv, DTypeOK, Infos, ThreadStates, registry, settings, memory, bounds
  <2> QED
    BY <1>1, <2>1, <2>3, <2>4, QuietStep
    DEF UnregisterLookup, Goto, registry, settings, memory, bounds, DInv, DTypeOK, Unregistered
<1>2. CASE stream[t] \notin DOMAIN decoders
  <2>1. Lookup(stream[t]) = Null
    BY <1>2, NotFound
  <2>2. pc' = [pc EXCEPT ![t] = "freeing"] /\ info' = [info EXCEPT ![t] = Null]
    BY <2>1 DEF UnregisterLookup, Goto, Point
  <2>3. DTypeOK'
    BY <2>2, RegistryAssumption DEF UnregisterLookup, DInv, DTypeOK, Null, ThreadStates, registry, settings, memory, bounds
  <2> QED
    BY <1>2, <2>2, <2>3, QuietStep, ZenonT(30)
    DEF UnregisterLookup, Goto, registry, settings, memory, bounds, DInv, DTypeOK, Registered
<1> QED
  BY <1>1, <1>2

\* A new stream has memory of its own and is in no map.
LEMMA StartDecodeInv ==
  ASSUME DInv, NEW t \in Threads, StartDecode(t)
  PROVE  DInv'
<1>1. PICK a \in Free : stream' = [stream EXCEPT ![t] = a]
  BY DEF StartDecode
<1>2. /\ pc[t] = "idle" /\ pc' = [pc EXCEPT ![t] = "parsing"]
      /\ decoders' = decoders /\ decoder_alias_map' = decoder_alias_map
      /\ parts' = parts /\ info' = info /\ alias_ref' = alias_ref
  BY DEF StartDecode, Goto, registry
<1>3. /\ a \in Addresses /\ a # NoAddress
      /\ \A u \in Threads : stream[u] # a /\ a \notin parts[u]
  BY RegistryAssumption DEF Free, InUse
<1>4. DTypeOK'
  BY <1>1, <1>3 DEF StartDecode, Goto, registry, settings, DInv, DTypeOK, ThreadStates
<1>5. MemoryInv'
  BY <1>1, <1>2, <1>3 DEF DInv, DTypeOK, MemoryInv
<1>6. OwnerInv'
  <2>1. ASSUME NEW b \in DOMAIN decoders
        PROVE  /\ b = stream'[decoders[b].owner]
               /\ decoders[b].aliases \subseteq parts[decoders[b].owner]
    BY <1>1, <1>2, RegistryAssumption DEF DInv, DTypeOK, Infos, MemoryInv, OwnerInv, Unregistered
  <2>2. a \notin DOMAIN decoders
    BY <1>3 DEF DInv, DTypeOK, Infos, OwnerInv
  <2> QED
    BY <1>1, <1>2, <2>1, <2>2 DEF DInv, DTypeOK, OwnerInv, Registered, Unregistered
<1>7. AliasInv'
  BY <1>2 DEF DInv, DTypeOK, AliasInv
<1>8. InfoInv'
  BY <1>1, <1>2 DEF DInv, DTypeOK, InfoInv
<1> QED
  BY <1>4, <1>5, <1>6, <1>7, <1>8 DEF DInv

\* The setup's memory is new too, and the stream is its thread's decoder.
LEMMA RegisterInv ==
  ASSUME DInv, NEW t \in Threads, register_decoder_ref(t)
  PROVE  DInv'
<1> DEFINE s == stream[t]
<1>1. PICK own \in SUBSET Free : parts' = [parts EXCEPT ![t] = own]
  BY DEF register_decoder_ref
<1>2. /\ pc[t] = "parsing" /\ pc' = [pc EXCEPT ![t] = "setup"]
      /\ decoders' = [a \in DOMAIN decoders \union {s} |->
                        IF a = s THEN Entry(t) ELSE decoders[a]]
      /\ decoder_alias_map' = decoder_alias_map
      /\ stream' = stream /\ info' = info /\ alias_ref' = alias_ref
  BY DEF register_decoder_ref, Goto
<1>3. own \subseteq Addresses /\ \A u \in Threads : stream[u] \notin own /\ own \cap parts[u] = {}
  BY DEF Free, InUse
<1>4. s \in Addresses /\ s \notin DOMAIN decoders
  BY <1>2, RegistryAssumption DEF DInv, DTypeOK, MemoryInv, OwnerInv, Unregistered
<1>5. /\ Entry(t) = [idx |-> decoder_unique_idx, aliases |-> {},
                     output |-> output_type[t],
                     filter |-> data_filter[t], owner |-> t]
      /\ Entry(t) \in Infos
  BY <1>4 DEF Entry, Known, Infos, DInv, DTypeOK
<1>6. DTypeOK'
  <2>1. /\ DOMAIN decoders' \subseteq Addresses
        /\ \A a \in DOMAIN decoders' : decoders'[a] \in Infos
    BY <1>2, <1>4, <1>5 DEF DInv, DTypeOK
  <2>2. decoder_unique_idx' \in Nat \ {0} /\ output_type' \in [Threads -> Nat]
         /\ data_filter' \in [Threads -> Nat]
    BY <1>4 DEF register_decoder_ref, Known, DInv, DTypeOK
  <2> QED
    BY <1>1, <1>2, <1>3, <2>1, <2>2
    DEF register_decoder_ref, bounds, DInv, DTypeOK, ThreadStates
<1>7. MemoryInv'
  BY <1>1, <1>2, <1>3 DEF DInv, DTypeOK, MemoryInv
<1>8. OwnerInv'
  <2>1. ASSUME NEW a \in DOMAIN decoders'
        PROVE  /\ a = stream[decoders'[a].owner]
               /\ decoders'[a].aliases \subseteq parts'[decoders'[a].owner]
    <3>1. CASE a = s
      BY <1>2, <1>5, <3>1
    <3>2. CASE a # s
      BY <1>1, <1>2, <3>2 DEF DInv, DTypeOK, Infos, OwnerInv
    <3> QED
      BY <3>1, <3>2
  <2>2. ASSUME NEW u \in Threads, u # t, stream[u] \notin DOMAIN decoders
        PROVE  stream[u] \notin DOMAIN decoders'
    BY <1>2, <1>4, <2>2, RegistryAssumption DEF DInv, MemoryInv
  <2> QED
    BY <1>2, <2>1, <2>2 DEF DInv, DTypeOK, OwnerInv, Registered, Unregistered
<1>9. AliasInv'
  <2>1. \A a \in DOMAIN decoders : decoders'[a] = decoders[a]
    BY <1>2, <1>4
  <2>2. decoders'[s].aliases = {}
    BY <1>2, <1>5
  <2>3. ASSUME NEW u \in Threads, pc'[u] \in {"decoding", "pushing"}
        PROVE  parts'[u] \subseteq DOMAIN decoder_alias_map
    BY <1>1, <1>2, <2>3 DEF DInv, DTypeOK, AliasInv
  <2> QED
    BY <1>2, <2>1, <2>2, <2>3 DEF DInv, AliasInv
<1>10. InfoInv'
  <2>1. \A a \in DOMAIN decoders : decoders'[a] = decoders[a]
    BY <1>2, <1>4
  <2>2. ASSUME NEW u \in Threads, u # t
        PROVE  /\ pc'[u] = pc[u] /\ info'[u] = info[u] /\ parts'[u] = parts[u]
               /\ alias_ref'[u] = alias_ref[u] /\ stream'[u] = stream[u]
    BY <1>1, <1>2, <2>2 DEF DInv, DTypeOK
  <2>3. pc'[t] = "setup"
    BY <1>2 DEF DInv, DTypeOK
  <2> QED
    BY <2>1, <2>2, <2>3 DEF DInv, OwnerInv, InfoInv, Registered
<1> QED
  BY <1>6, <1>7, <1>8, <1>9, <1>10 DEF DInv

\* The alias is entered on both sides, for the thread's own decoder.
LEMMA AliasInsertInv ==
  ASSUME DInv, NEW t \in Threads, AliasInsert(t)
  PROVE  DInv'
<1> DEFINE s == stream[t]
           p == alias_ref[t]
<1>1. /\ pc[t] = "aliasing" /\ pc' = [pc EXCEPT ![t] = "setup"]
      /\ stream' = stream /\ parts' = parts
      /\ info' = [info EXCEPT ![t] = Null]
      /\ alias_ref' = [alias_ref EXCEPT ![t] = NoAddress]
  BY DEF AliasInsert, Goto, Release, memory
<1>2. info[t].ref = s /\ p \in parts[t] /\ s \in DOMAIN decoders
  <2>1. info[t] = [ref |-> s, idx |-> decoders[s].idx] /\ p \in parts[t]
    BY <1>1 DEF DInv, InfoInv
  <2>2. s \in DOMAIN decoders
    BY <1>1 DEF DInv, OwnerInv, Registered
  <2> QED
    BY <2>1, <2>2
<1>3. /\ decoders' = [decoders EXCEPT ![s].aliases = @ \union {p}]
      /\ decoder_alias_map' = [a \in DOMAIN decoder_alias_map \union {p} |->
                                 IF a = p THEN s ELSE decoder_alias_map[a]]
  BY <1>2 DEF AliasInsert
<1>4. /\ DOMAIN decoders' = DOMAIN decoders
      /\ \A a \in DOMAIN decoders \ {s} : decoders'[a] = decoders[a]
      /\ decoders'[s] = [decoders[s] EXCEPT !.aliases = @ \union {p}]
  BY <1>2, <1>3
<1>5. /\ decoders[s] \in Infos /\ p \in Addresses
      /\ decoders'[s] \in Infos
      /\ decoders'[s].aliases = decoders[s].aliases \union {p}
      /\ decoders'[s].owner = decoders[s].owner
      /\ decoders'[s].idx = decoders[s].idx
  BY <1>2, <1>4 DEF DInv, DTypeOK, Infos
<1>6. decoders[s].owner = t
  <2>1. decoders[s].owner \in Threads /\ stream[decoders[s].owner] = s /\ s \in Addresses
    BY <1>2, <1>5 DEF Infos, DInv, DTypeOK, OwnerInv
  <2> QED
    BY <2>1, RegistryAssumption DEF DInv, MemoryInv
<1>7. DTypeOK'
  <2>1. \A a \in DOMAIN decoders' : decoders'[a] \in Infos
    BY <1>4, <1>5 DEF DInv, DTypeOK
  <2>2. s \in Addresses
    BY <1>2 DEF DInv, DTypeOK
  <2> QED
    BY <1>1, <1>3, <1>4, <1>5, <2>1, <2>2
    DEF AliasInsert, settings, bounds, Null, DInv, DTypeOK, ThreadStates
<1>8. MemoryInv'
  BY <1>1 DEF DInv, DTypeOK, MemoryInv
<1>9. OwnerInv'
  <2>1. ASSUME NEW a \in DOMAIN decoders
        PROVE  /\ a = stream[decoders'[a].owner]
               /\ decoders'[a].aliases \subseteq parts[decoders'[a].owner]
    <3>1. /\ a = stream[decoders[a].owner]
          /\ decoders[a].aliases \subseteq parts[decoders[a].owner]
      BY DEF DInv, OwnerInv
    <3>2. CASE a = s
      BY <1>2, <1>5, <1>6, <3>1, <3>2
    <3>3. CASE a # s
      BY <1>4, <3>1, <3>3
    <3> QED
      BY <3>2, <3>3
  <2>2. ASSUME NEW u \in Threads
        PROVE  /\ pc'[u] \in Registered => stream[u] \in DOMAIN decoders
               /\ pc'[u] \in Unregistered => stream[u] \notin DOMAIN decoders
    BY <1>1, <1>2 DEF DInv, DTypeOK, OwnerInv, Registered, Unregistered
  <2> QED
    BY <1>1, <1>4, <2>1, <2>2 DEF OwnerInv
<1>10. AliasInv'
  <2>1. ASSUME NEW q \in DOMAIN decoder_alias_map, q # p
        PROVE  /\ decoder_alias_map'[q] = decoder_alias_map[q]
               /\ decoder_alias_map[q] \in DOMAIN decoders
               /\ q \in decoders'[decoder_alias_map[q]].aliases
    BY <1>3, <1>4, <1>5, <2>1 DEF DInv, AliasInv
  <2>2. decoder_alias_map'[p] = s
    BY <1>3
  <2>3. ASSUME NEW a \in DOMAIN decoders, NEW q \in decoders'[a].aliases
        PROVE  q \in DOMAIN decoder_alias_map' /\ decoder_alias_map'[q] = a
    <3>1. CASE q = p
      <4>1. a = s
        <5> SUFFICES ASSUME a # s PROVE FALSE
          OBVIOUS
        <5>1. decoder_alias_map[p] = a /\ p \in parts[t] /\ p \in DOMAIN decoder_alias_map
          BY <1>2, <1>4, <3>1, <2>3 DEF DInv, AliasInv
        <5> QED
          BY <5>1, AliasFound
      <4> QED
        BY <1>3, <3>1, <4>1
    <3>2. CASE q # p
      <4>1. q \in decoders[a].aliases
        BY <1>4, <1>5, <2>3, <3>2
      <4> QED
        BY <1>3, <3>2, <4>1 DEF DInv, AliasInv
    <3> QED
      BY <3>1, <3>2
  <2>4. p \in decoders'[s].aliases
    BY <1>5
  <2>5. ASSUME NEW u \in Threads, pc'[u] \in {"decoding", "pushing"}
        PROVE  parts[u] \subseteq DOMAIN decoder_alias_map'
    BY <1>1, <1>3, <2>5 DEF DInv, DTypeOK, AliasInv
  <2>6. DOMAIN decoder_alias_map' = DOMAIN decoder_alias_map \union {p}
    BY <1>3
  <2>7. ASSUME NEW q \in DOMAIN decoder_alias_map'
        PROVE  /\ decoder_alias_map'[q] \in DOMAIN decoders
               /\ q \in decoders'[decoder_alias_map'[q]].aliases
    BY <1>2, <2>1, <2>2, <2>4, <2>6
  <2> QED
    BY <1>1, <1>4, <2>3, <2>5, <2>7 DEF AliasInv
<1>11. InfoInv'
  <2>1. \A a \in DOMAIN decoders : decoders'[a].idx = decoders[a].idx
    BY <1>4, <1>5
  <2>2. \A u \in Threads \ {t} : pc'[u] = pc[u] /\ info'[u] = info[u] /\ alias_ref'[u] = alias_ref[u]
    BY <1>1 DEF DInv, DTypeOK
  <2>3. pc'[t] = "setup"
    BY <1>1 DEF DInv, DTypeOK
  <2> QED
    BY <1>1, <2>1, <2>2, <2>3 DEF DInv, InfoInv, OwnerInv, Registered
<1> QED
  BY <1>7, <1>8, <1>9, <1>10, <1>11 DEF DInv

\* A decoder goes with all its aliases, and with nobody else's.
LEMMA UnregisterEraseInv ==
  ASSUME DInv, NEW t \in Threads, UnregisterErase(t)
  PROVE  DInv'
<1> DEFINE s == stream[t]
<1>1. /\ pc[t] = "erasing" /\ pc' = [pc EXCEPT ![t] = "freeing"]
      /\ stream' = stream /\ parts' = parts /\ alias_ref' = alias_ref
      /\ info' = [info EXCEPT ![t] = Null]
  BY DEF UnregisterErase, Goto, Release, memory
<1>2. info[t].ref = s /\ s \in DOMAIN decoders
  <2>1. info[t] = [ref |-> s, idx |-> decoders[s].idx]
    BY <1>1 DEF DInv, InfoInv
  <2>2. s \in DOMAIN decoders
    BY <1>1 DEF DInv, OwnerInv, Registered
  <2> QED
    BY <2>1, <2>2
<1>3. /\ DOMAIN decoders' = DOMAIN decoders \ {s}
      /\ \A a \in DOMAIN decoders' : decoders'[a] = decoders[a]
      /\ DOMAIN decoder_alias_map' = DOMAIN decoder_alias_map \ decoders[s].aliases
      /\ \A p \in DOMAIN decoder_alias_map' : decoder_alias_map'[p] = decoder_alias_map[p]
  BY <1>2 DEF UnregisterErase, Restrict
<1>4. s \in Addresses /\ s # NoAddress
  BY <1>2, RegistryAssumption DEF DInv, DTypeOK
<1>5. decoders[s].owner = t
  <2>1. decoders[s].owner \in Threads /\ stream[decoders[s].owner] = s
    BY <1>2 DEF Infos, DInv, DTypeOK, OwnerInv
  <2> QED
    BY <1>4, <2>1 DEF DInv, MemoryInv
<1>6. decoders[s].aliases \subseteq parts[t]
  BY <1>2, <1>5 DEF DInv, OwnerInv
<1>7. \A u \in Threads \ {t} : stream[u] # s
  BY <1>4 DEF DInv, MemoryInv
<1>8. /\ pc'[t] = "freeing"
      /\ \A u \in Threads \ {t} : pc'[u] = pc[u] /\ info'[u] = info[u]
  BY <1>1 DEF DInv, DTypeOK
<1>9. DTypeOK'
  <2>1. /\ DOMAIN decoders' \subseteq Addresses
        /\ \A a \in DOMAIN decoders' : decoders'[a] \in Infos
        /\ DOMAIN decoder_alias_map' \subseteq Addresses
        /\ \A p \in DOMAIN decoder_alias_map' : decoder_alias_map'[p] \in Addresses
    BY <1>3 DEF DInv, DTypeOK
  <2> QED
    BY <1>1, <2>1 DEF UnregisterErase, settings, bounds, Null, DInv, DTypeOK, ThreadStates
<1>10. MemoryInv'
  BY <1>1 DEF DInv, DTypeOK, MemoryInv
<1>11. OwnerInv'
  <2>1. ASSUME NEW u \in Threads
        PROVE  /\ pc'[u] \in Registered => stream[u] \in DOMAIN decoders'
               /\ pc'[u] \in Unregistered => stream[u] \notin DOMAIN decoders'
    BY <1>3, <1>7, <1>8 DEF DInv, OwnerInv, Registered, Unregistered
  <2> QED
    BY <1>1, <1>3, <2>1 DEF DInv, OwnerInv
<1>12. AliasInv'
  <2>1. ASSUME NEW p \in DOMAIN decoder_alias_map'
        PROVE  /\ decoder_alias_map[p] \in DOMAIN decoders'
               /\ p \in decoders[decoder_alias_map[p]].aliases
    BY <1>3 DEF DInv, AliasInv
  <2>2. ASSUME NEW a \in DOMAIN decoders', NEW p \in decoders[a].aliases
        PROVE  p \in DOMAIN decoder_alias_map' /\ decoder_alias_map[p] = a
    BY <1>2, <1>3 DEF DInv, AliasInv
  <2>3. ASSUME NEW u \in Threads, pc'[u] \in {"decoding", "pushing"}
        PROVE  parts[u] \subseteq DOMAIN decoder_alias_map'
    <3>1. u # t /\ parts[u] \subseteq DOMAIN decoder_alias_map
      BY <1>8, <2>3 DEF DInv, AliasInv
    <3>2. parts[u] \cap decoders[s].aliases = {}
      BY <1>6, <3>1 DEF DInv, MemoryInv
    <3> QED
      BY <1>3, <3>1, <3>2
  <2> QED
    BY <1>1, <1>3, <2>1, <2>2, <2>3 DEF AliasInv
<1>13. InfoInv'
  <2>1. ASSUME NEW u \in Threads, u # t, pc[u] \in {"aliasing", "pushing", "erasing"}
        PROVE  decoders'[stream[u]] = decoders[stream[u]]
    BY <1>3, <1>7, <2>1 DEF DInv, OwnerInv, Registered
  <2> QED
    BY <1>1, <1>8, <2>1 DEF DInv, InfoInv
<1> QED
  BY <1>9, <1>10, <1>11, <1>12, <1>13 DEF DInv

\* The memory goes back when no map names it any more.
LEMMA FreeStreamInv ==
  ASSUME DInv, NEW t \in Threads, FreeStream(t)
  PROVE  DInv'
<1>1. /\ pc[t] = "freeing" /\ pc' = [pc EXCEPT ![t] = "idle"]
      /\ stream' = [stream EXCEPT ![t] = NoAddress]
      /\ parts' = [parts EXCEPT ![t] = {}]
      /\ decoders' = decoders /\ decoder_alias_map' = decoder_alias_map
      /\ info' = info /\ alias_ref' = alias_ref
  BY DEF FreeStream, Goto, registry
<1>2. /\ stream[t] \notin DOMAIN decoders
      /\ \A a \in DOMAIN decoders : decoders[a].owner # t
  BY <1>1 DEF DInv, OwnerInv, Unregistered
<1>3. /\ pc'[t] = "idle" /\ stream'[t] = NoAddress /\ parts'[t] = {}
      /\ \A u \in Threads \ {t} :
           pc'[u] = pc[u] /\ stream'[u] = stream[u] /\ parts'[u] = parts[u]
  BY <1>1 DEF DInv, DTypeOK
<1>4. DTypeOK'
  BY <1>1 DEF FreeStream, registry, settings, bounds, DInv, DTypeOK, ThreadStates
<1>5. MemoryInv'
  <2>1. \A u \in Threads : parts[u] \subseteq Addresses
    BY DEF DInv, DTypeOK
  <2> QED
    BY <1>3, <2>1, RegistryAssumption DEF DInv, MemoryInv
<1>6. OwnerInv'
  <2>1. \A a \in DOMAIN decoders : decoders[a].owner \in Threads \ {t}
    BY <1>2 DEF DInv, DTypeOK, Infos
  <2>2. NoAddress \notin DOMAIN decoders
    BY RegistryAssumption DEF DInv, DTypeOK
  <2> QED
    BY <1>1, <1>3, <2>1, <2>2 DEF DInv, OwnerInv, Registered, Unregistered
<1>7. AliasInv'
  BY <1>1, <1>3 DEF DInv, AliasInv
<1>8. InfoInv'
  BY <1>1, <1>3 DEF DInv, InfoInv
<1> QED
  BY <1>4, <1>5, <1>6, <1>7, <1>8 DEF DInv

-----------------------------------------------------------------------------
(* The theorems                                                            *)

\* Memory, decoders, aliases and looked-up pointers agree after every step.
THEOREM StepInv == DInv /\ [DNext]_dvars => DInv'
<1> SUFFICES ASSUME DInv, [DNext]_dvars PROVE DInv'
  OBVIOUS
<1>1. ASSUME NEW t \in Threads, StartDecode(t) \/ register_decoder_ref(t) \/ AliasInsert(t)
      PROVE  DInv'
  BY <1>1, StartDecodeInv, RegisterInv, AliasInsertInv
<1>2. ASSUME NEW t \in Threads, UnregisterLookup(t) \/ UnregisterErase(t) \/ FreeStream(t)
      PROVE  DInv'
  BY <1>2, UnregisterLookupInv, UnregisterEraseInv, FreeStreamInv
<1>3. ASSUME NEW t \in Threads,
             Setting(t) \/ FailBeforeSetup(t) \/ FinishSetup(t)
               \/ PushWrite(t) \/ EndDecode(t)
      PROVE  DInv'
  BY <1>3, SettingInv, FailBeforeSetupInv, FinishSetupInv, PushWriteInv, EndDecodeInv
<1>4. ASSUME NEW t \in Threads, NEW p \in parts[t], AliasLookup(t, p)
      PROVE  DInv'
  BY <1>4, AliasLookupInv
<1>5. ASSUME NEW t \in Threads, NEW ref \in Addresses, PushLookup(t, ref)
      PROVE  DInv'
  BY <1>5, PushLookupInv
<1>6. CASE UNCHANGED dvars
  BY <1>6 DEF dvars, DInv, DTypeOK, MemoryInv, OwnerInv, AliasInv, InfoInv
<1> QED
  BY <1>1, <1>2, <1>3, <1>4, <1>5, <1>6 DEF DNext, Setting

\* They agree in every state of every run of any number of threads.
THEOREM Invariance == DSpec => []DInv
  BY InitInv, StepInv, PTL DEF DSpec

(***************************************************************************)
(* Type correctness of the registry.                                       *)
(***************************************************************************)
THEOREM TypeCorrect == DSpec => []DTypeOK
<1>1. DInv => DTypeOK
  BY DEF DInv
<1> QED
  BY <1>1, Invariance, PTL

(***************************************************************************)
(* The Info that a thread uses without the mutex is in the map and is its  *)
(* own, for any number of threads and any reuse of addresses.              *)
(***************************************************************************)
THEOREM PointersValid == DSpec => []PointersStayValid
<1>1. ASSUME DInv PROVE PointersStayValid
  <2> SUFFICES ASSUME NEW t \in Threads, pc[t] \in {"aliasing", "pushing", "erasing"}
               PROVE  /\ info[t].ref \in DOMAIN decoders
                      /\ decoders[info[t].ref].idx = info[t].idx
                      /\ decoders[info[t].ref].owner = t
    BY DEF PointersStayValid
  <2>1. info[t] = [ref |-> stream[t], idx |-> decoders[stream[t]].idx]
    BY <1>1 DEF DInv, InfoInv
  <2>2. stream[t] \in DOMAIN decoders
    BY <1>1 DEF DInv, OwnerInv, Registered
  <2>3. /\ decoders[stream[t]].owner \in Threads
        /\ stream[t] = stream[decoders[stream[t]].owner]
        /\ stream[t] # NoAddress
    BY <1>1, <2>2, RegistryAssumption DEF DInv, DTypeOK, Infos, OwnerInv
  <2>4. decoders[stream[t]].owner = t
    BY <1>1, <2>3 DEF DInv, MemoryInv
  <2> QED
    BY <2>1, <2>2, <2>4
<1> QED
  BY <1>1, Invariance, PTL

(***************************************************************************)
(* No alias outlives the stream that owns its memory, and the two maps     *)
(* never disagree.                                                         *)
(***************************************************************************)
THEOREM AliasesLive == DSpec => []AliasesAreLive
<1>1. ASSUME DInv PROVE AliasesAreLive
  <2>1. ASSUME NEW p \in DOMAIN decoder_alias_map
        PROVE  \E t \in Threads : p \in parts[t] /\ decoder_alias_map[p] = stream[t]
    <3> DEFINE a == decoder_alias_map[p]
    <3>1. a \in DOMAIN decoders /\ p \in decoders[a].aliases
      BY <1>1 DEF DInv, AliasInv
    <3>2. /\ decoders[a].owner \in Threads
          /\ p \in parts[decoders[a].owner] /\ a = stream[decoders[a].owner]
      BY <1>1, <3>1 DEF DInv, DTypeOK, Infos, OwnerInv
    <3> QED
      BY <3>2
  <2> QED
    BY <1>1, <2>1 DEF DInv, AliasInv, AliasesAreLive
<1> QED
  BY <1>1, Invariance, PTL

(***************************************************************************)
(* A stream that is not, or no longer, decoding has left nothing behind.   *)
(***************************************************************************)
THEOREM NothingLeft == DSpec => []NothingIsLeft
<1>1. ASSUME DInv PROVE NothingIsLeft
  <2> SUFFICES ASSUME NEW t \in Threads, pc[t] \in Unregistered
               PROVE  /\ \A a \in DOMAIN decoders : decoders[a].owner # t
                      /\ stream[t] \notin DOMAIN decoder_alias_map
    BY DEF NothingIsLeft, Unregistered
  <2>1. stream[t] \notin DOMAIN decoders
    BY <1>1 DEF DInv, OwnerInv
  <2>2. \A a \in DOMAIN decoders : decoders[a].owner # t
    BY <1>1, <2>1 DEF DInv, OwnerInv
  <2>3. stream[t] \notin DOMAIN decoder_alias_map
    BY <1>1 DEF DInv, DTypeOK, Infos, MemoryInv, OwnerInv, AliasInv
  <2> QED
    BY <2>2, <2>3
<1> QED
  BY <1>1, Invariance, PTL

-----------------------------------------------------------------------------
(* Numbers, outputs and filters                                            *)

(***************************************************************************)
(* The numbers of calls of a setting, up to n: set is what is set in each  *)
(* thread, given what each decoder has got.  None but 0 is there twice.    *)
(***************************************************************************)
Apart(given, set, n) ==
  /\ \A a \in DOMAIN given : given[a] <= n
  /\ \A t \in Threads : set[t] <= n
  /\ \A t, u \in Threads : t # u /\ set[t] = set[u] => set[t] = 0
  /\ \A a, b \in DOMAIN given : a # b /\ given[a] = given[b] => given[a] = 0
  /\ \A a \in DOMAIN given, t \in Threads : given[a] = set[t] => set[t] = 0

\* What a thread had set goes to its decoder.
LEMMA ApartGiven ==
  ASSUME NEW D, NEW given \in [D -> Nat], NEW set \in [Threads -> Nat], NEW n \in Nat,
         NEW t \in Threads, NEW s, s \notin D, Apart(given, set, n),
         NEW given2, DOMAIN given2 = D \union {s}, given2[s] = set[t],
         \A a \in D : given2[a] = given[a]
  PROVE  Apart(given2, [set EXCEPT ![t] = 0], n)
<1> DEFINE set2 == [set EXCEPT ![t] = 0]
<1>1. /\ DOMAIN given2 = D \union {s}
      /\ given2[s] = set[t]
      /\ \A a \in D : given2[a] = given[a]
  OBVIOUS
<1>2. set2[t] = 0 /\ \A u \in Threads \ {t} : set2[u] = set[u]
  OBVIOUS
<1> HIDE DEF set2
<1>3. /\ \A a \in DOMAIN given2 : given2[a] <= n
      /\ \A u \in Threads : set2[u] <= n
      /\ \A u, v \in Threads : u # v /\ set2[u] = set2[v] => set2[u] = 0
  BY <1>1, <1>2 DEF Apart
<1>4. ASSUME NEW a \in DOMAIN given2, NEW b \in DOMAIN given2, a # b, given2[a] = given2[b]
      PROVE  given2[a] = 0
  <2>1. CASE a \in D /\ b \in D
    BY <1>1, <1>4, <2>1 DEF Apart
  <2>2. CASE a = s \/ b = s
    BY <1>1, <1>4, <2>2 DEF Apart
  <2> QED
    BY <1>1, <2>1, <2>2
<1>5. ASSUME NEW a \in DOMAIN given2, NEW u \in Threads, given2[a] = set2[u]
      PROVE  set2[u] = 0
  <2>1. CASE u # t /\ a = s
    BY <1>1, <1>2, <1>5, <2>1 DEF Apart
  <2>2. CASE u # t /\ a \in D
    BY <1>1, <1>2, <1>5, <2>2 DEF Apart
  <2> QED
    BY <1>1, <1>2, <2>1, <2>2
<1>6. Apart(given2, set2, n)
  BY <1>3, <1>4, <1>5 DEF Apart
<1> QED
  BY <1>6 DEF set2

\* The next call of a setting is a new one.
LEMMA ApartSet ==
  ASSUME NEW D, NEW given \in [D -> Nat], NEW set \in [Threads -> Nat], NEW n \in Nat,
         NEW t \in Threads, Apart(given, set, n)
  PROVE  /\ Apart(given, [set EXCEPT ![t] = n + 1], n + 1)
         /\ Apart(given, set, n + 1)
<1> DEFINE set2 == [set EXCEPT ![t] = n + 1]
<1>1. set2[t] = n + 1 /\ \A u \in Threads \ {t} : set2[u] = set[u]
  OBVIOUS
<1> HIDE DEF set2
<1>2. Apart(given, set2, n + 1)
  BY <1>1 DEF Apart
<1>3. Apart(given, set, n + 1)
  BY DEF Apart
<1> QED
  BY <1>2, <1>3 DEF set2

\* Settings may be taken back, and decoders may go.
LEMMA ApartLess ==
  ASSUME NEW D, NEW given \in [D -> Nat], NEW set \in [Threads -> Nat], NEW n \in Nat,
         Apart(given, set, n)
  PROVE  /\ \A t \in Threads : Apart(given, [set EXCEPT ![t] = 0], n)
         /\ \A E \in SUBSET D : Apart([a \in E |-> given[a]], set, n)
  BY DEF Apart

Outputs == [a \in DOMAIN decoders |-> decoders[a].output]
Filters == [a \in DOMAIN decoders |-> decoders[a].filter]

\* Numbers that were given out are below the next ones.
NumbersInv ==
  /\ \A a \in DOMAIN decoders : decoders[a].idx < decoder_unique_idx
  /\ \A a, b \in DOMAIN decoders : a # b => decoders[a].idx # decoders[b].idx
  /\ Apart(Outputs, output_type, outputs)
  /\ Apart(Filters, data_filter, outputs)

\* What the types say of them.
LEMMA NumbersType ==
  ASSUME DTypeOK
  PROVE  /\ \A a \in DOMAIN decoders : decoders[a].idx \in Nat
         /\ decoder_unique_idx \in Nat /\ outputs \in Nat
         /\ Outputs \in [DOMAIN decoders -> Nat] /\ output_type \in [Threads -> Nat]
         /\ Filters \in [DOMAIN decoders -> Nat] /\ data_filter \in [Threads -> Nat]
  BY DEF DTypeOK, Infos, Outputs, Filters

\* A step that keeps the numbers and settings of the decoders it leaves.
LEMMA NumbersKept ==
  ASSUME DTypeOK, NumbersInv,
         DOMAIN decoders' \subseteq DOMAIN decoders,
         \A a \in DOMAIN decoders' :
           /\ decoders'[a].idx = decoders[a].idx
           /\ decoders'[a].output = decoders[a].output
           /\ decoders'[a].filter = decoders[a].filter,
         UNCHANGED <<decoder_unique_idx, output_type, data_filter, outputs>>
  PROVE  NumbersInv'
<1>1. /\ Outputs' = [a \in DOMAIN decoders' |-> Outputs[a]]
      /\ Filters' = [a \in DOMAIN decoders' |-> Filters[a]]
  BY DEF Outputs, Filters
<1>2. /\ Apart(Outputs, output_type, outputs)'
      /\ Apart(Filters, data_filter, outputs)'
  BY <1>1 DEF NumbersInv, Apart, Outputs, Filters
<1> QED
  BY <1>2 DEF NumbersInv

\* A new decoder has the next number and its thread's settings, now used up.
LEMMA RegisterNumbers ==
  ASSUME DInv, NumbersInv, NEW t \in Threads, register_decoder_ref(t)
  PROVE  NumbersInv'
<1> DEFINE s == stream[t]
<1>1. s \notin DOMAIN decoders
  BY DEF register_decoder_ref, Goto, DInv, OwnerInv, Unregistered
<1>2. /\ DOMAIN decoders' = DOMAIN decoders \union {s}
      /\ \A a \in DOMAIN decoders : decoders'[a] = decoders[a]
      /\ decoders'[s].idx = decoder_unique_idx
      /\ decoders'[s].output = output_type[t]
      /\ decoders'[s].filter = data_filter[t]
      /\ decoder_unique_idx' = decoder_unique_idx + 1
      /\ output_type' = [output_type EXCEPT ![t] = 0]
      /\ data_filter' = [data_filter EXCEPT ![t] = 0]
      /\ outputs' = outputs
  BY <1>1 DEF register_decoder_ref, Entry, Known, bounds
<1>3. /\ \A a \in DOMAIN decoders : decoders[a].idx \in Nat
      /\ decoder_unique_idx \in Nat /\ outputs \in Nat
      /\ Outputs \in [DOMAIN decoders -> Nat] /\ output_type \in [Threads -> Nat]
      /\ Filters \in [DOMAIN decoders -> Nat] /\ data_filter \in [Threads -> Nat]
  BY NumbersType DEF DInv
<1>4. /\ DOMAIN Outputs' = DOMAIN decoders \union {s}
      /\ Outputs'[s] = output_type[t]
      /\ \A a \in DOMAIN decoders : Outputs'[a] = Outputs[a]
      /\ DOMAIN Filters' = DOMAIN decoders \union {s}
      /\ Filters'[s] = data_filter[t]
      /\ \A a \in DOMAIN decoders : Filters'[a] = Filters[a]
  BY <1>1, <1>2 DEF Outputs, Filters
<1>5. /\ Apart(Outputs', output_type', outputs')
      /\ Apart(Filters', data_filter', outputs')
  <2>1. /\ s \notin DOMAIN decoders /\ outputs \in Nat
        /\ Apart(Outputs, output_type, outputs)
        /\ Apart(Filters, data_filter, outputs)
    BY <1>1, <1>3 DEF NumbersInv
  <2> HIDE DEF s
  <2> DEFINE G == Outputs'
             K == Filters'
  <2>2. /\ DOMAIN G = DOMAIN decoders \union {s}
        /\ G[s] = output_type[t]
        /\ \A a \in DOMAIN decoders : G[a] = Outputs[a]
    BY <1>4
  <2>3. /\ DOMAIN K = DOMAIN decoders \union {s}
        /\ K[s] = data_filter[t]
        /\ \A a \in DOMAIN decoders : K[a] = Filters[a]
    BY <1>4
  <2> HIDE DEF G, K
  <2>4. Apart(G, [output_type EXCEPT ![t] = 0], outputs)
    BY <1>3, <2>1, <2>2, ApartGiven, ZenonT(30)
  <2>5. Apart(K, [data_filter EXCEPT ![t] = 0], outputs)
    BY <1>3, <2>1, <2>3, ApartGiven, ZenonT(30)
  <2> QED
    BY <1>2, <2>4, <2>5 DEF G, K
<1>6. /\ \A a \in DOMAIN decoders' : decoders'[a].idx < decoder_unique_idx'
      /\ \A a, b \in DOMAIN decoders' : a # b => decoders'[a].idx # decoders'[b].idx
  BY <1>1, <1>2, <1>3 DEF NumbersInv
<1> QED
  BY <1>5, <1>6 DEF NumbersInv, Apart

\* A setting is a new one, or none.
LEMMA SettingNumbers ==
  ASSUME DInv, NumbersInv, NEW t \in Threads, Setting(t)
  PROVE  NumbersInv'
<1>1. /\ outputs \in Nat
      /\ Outputs \in [DOMAIN decoders -> Nat] /\ output_type \in [Threads -> Nat]
      /\ Filters \in [DOMAIN decoders -> Nat] /\ data_filter \in [Threads -> Nat]
  BY NumbersType DEF DInv
<1>2. decoders' = decoders /\ decoder_unique_idx' = decoder_unique_idx
  BY DEF Setting, set_data_output_file, set_data_output_null, set_data_filter, ClearFilter, registry
<1>3. Outputs' = Outputs /\ Filters' = Filters
  BY <1>2 DEF Outputs, Filters
<1>4. /\ Apart(Outputs, output_type', outputs')
      /\ Apart(Filters, data_filter', outputs')
  <2>1. CASE set_data_output_file(t)
    BY <1>1, <2>1, ApartSet DEF set_data_output_file, NumbersInv
  <2>2. CASE set_data_filter(t)
    BY <1>1, <2>2, ApartSet DEF set_data_filter, NumbersInv
  <2>3. CASE set_data_output_null(t)
    BY <1>1, <2>3, ApartLess DEF set_data_output_null, bounds, NumbersInv
  <2>4. CASE ClearFilter(t)
    BY <1>1, <2>4, ApartLess DEF ClearFilter, bounds, NumbersInv
  <2> QED
    BY <2>1, <2>2, <2>3, <2>4 DEF Setting
<1> QED
  BY <1>2, <1>3, <1>4 DEF NumbersInv, Apart

\* Every step keeps numbers and settings apart.
LEMMA StepNumbers == DInv /\ NumbersInv /\ [DNext]_dvars => NumbersInv'
<1> SUFFICES ASSUME DInv, NumbersInv, [DNext]_dvars PROVE NumbersInv'
  OBVIOUS
<1> USE DEF DInv
<1>1. ASSUME NEW t \in Threads, AliasInsert(t)
      PROVE  NumbersInv'
  <2>1. /\ DOMAIN decoders' = DOMAIN decoders
        /\ \A a \in DOMAIN decoders : decoders[a] \in Infos
        /\ \A a \in DOMAIN decoders \ {info[t].ref} : decoders'[a] = decoders[a]
        /\ decoders'[info[t].ref] =
             [decoders[info[t].ref] EXCEPT !.aliases = @ \union {alias_ref[t]}]
    BY <1>1 DEF AliasInsert, DTypeOK
  <2>2. \A a \in DOMAIN decoders' :
          /\ decoders'[a].idx = decoders[a].idx
          /\ decoders'[a].output = decoders[a].output
          /\ decoders'[a].filter = decoders[a].filter
    BY <2>1 DEF Infos
  <2> QED
    BY <1>1, <2>1, <2>2, NumbersKept DEF AliasInsert, settings, bounds
<1>2. ASSUME NEW t \in Threads, UnregisterErase(t)
      PROVE  NumbersInv'
  BY <1>2, NumbersKept DEF UnregisterErase, Restrict, settings, bounds
<1>3. ASSUME NEW t \in Threads, Setting(t) \/ register_decoder_ref(t)
      PROVE  NumbersInv'
  BY <1>3, SettingNumbers, RegisterNumbers
<1>4. CASE UNCHANGED <<registry, settings, outputs>>
  BY <1>4, NumbersKept DEF registry, settings
<1> QED
  BY <1>1, <1>2, <1>3, <1>4
  DEF DNext, dvars, Setting, StartDecode, FailBeforeSetup, AliasLookup, FinishSetup, PushLookup,
      PushWrite, EndDecode, UnregisterLookup, FreeStream, registry, settings, bounds

(***************************************************************************)
(* No two decoders have the same number, output or filter, and a setting   *)
(* is used once.                                                           *)
(***************************************************************************)
THEOREM Distinct == DSpec => []DecodersAreDistinct
<1>1. DInit => NumbersInv
  BY DEF DInit, NumbersInv, Apart, Outputs, Filters
<1>2. NumbersInv => DecodersAreDistinct
  BY DEF NumbersInv, DecodersAreDistinct, Apart, Outputs, Filters
<1> QED
  BY <1>1, <1>2, StepNumbers, Invariance, PTL DEF DSpec
=============================================================================
