------------------------------ MODULE Codebook ------------------------------
(***************************************************************************)
(* VorbisCodebook: the entries of a codebook get their codewords one after *)
(* the other, always the leftmost node of the binary tree that is free at  *)
(* their depth; a codebook is accepted if the tree is then full.  Decoding *)
(* walks a table that _buildEntriesLookup makes of the tree.               *)
(*                                                                         *)
(* The code's words have 32 bits; here they have WordLen.  An entry of the *)
(* full length shifts a word by its own width, which C++ leaves undefined: *)
(* the result may be the word (x86) or 0 (a folded constant).              *)
(***************************************************************************)
EXTENDS Integers, Sequences, FiniteSetsExt

CONSTANTS
  WordLen,      \* bits of uint32_t, and the greatest length of a codeword
  MaxEntries,   \* bound: num_entries_, with those that are not used
  MaxUnused,    \* bound: how many of them are not used
  Dimensions    \* the values of dimensions_

\* 1 << n, in as many bits as it takes.
Power[n \in 0 .. WordLen] == IF n = 0 THEN 1 ELSE 2 * Power[n - 1]

ASSUME CodebookAssumption ==
  /\ WordLen \in Nat \ {0, 1}
  /\ MaxEntries \in Nat /\ MaxEntries < Power[WordLen]
  /\ MaxUnused \in Nat
  /\ Dimensions \subseteq Nat \ {0}

VARIABLES
  entries_,            \* of each used entry num_, len_ and codeword_
  num_entries_,        \* with the unused ones
  marker,              \* per length, the next codeword of that length
  status,              \* how far parse has come
  dimensions_,
  num_lookup_values_

cvars == <<entries_, num_entries_, marker, status, dimensions_, num_lookup_values_>>

Lengths == 1 .. WordLen
Words   == 0 .. Power[WordLen] - 1
Word(n) == n % Power[WordLen]

\* What shifting a word right, or 1 left, by n bits may give.
ShiftRight(word, n) == IF n < WordLen THEN {word \div Power[n]} ELSE {0, word}
OneShifted(n)       == IF n < WordLen THEN {Power[n]} ELSE {0, 1}

-----------------------------------------------------------------------------
(* _assignCodewords                                                        *)

\* The first length, from len down, at which the marker is odd; 0 if none is.
Turn(len) == Max({0} \union {j \in 1 .. len : marker[j] % 2 = 1})

\* The first inner loop: the markers at and above the node that was taken.
Advanced(len) ==
  [j \in 1 .. len |->
     IF j < Turn(len) THEN marker[j]
     ELSE IF j = Turn(len) /\ j > 1 THEN Word(2 * marker[j - 1])
     ELSE Word(marker[j] + 1)]

\* The lengths whose next codeword lay below the node that was taken.
Below(len) ==
  {j \in len + 1 .. WordLen : \A i \in len + 1 .. j : marker[i] \div 2 = marker[i - 1]}

\* A mutant of Taken: the markers below the node are left as they are.
TakenAbove(len) ==
  [j \in Lengths |-> IF j <= len THEN Advanced(len)[j] ELSE marker[j]]

\* The markers once the next codeword of length len is taken.
Taken(len) ==
  [j \in Lengths |->
     IF j <= len THEN Advanced(len)[j]
     ELSE IF j \in Below(len) THEN Word(Advanced(len)[len] * Power[j - len])
     ELSE marker[j]]

CInit ==
  /\ entries_ = <<>>
  /\ num_entries_ = 0
  /\ marker = [j \in Lengths |-> 0]
  /\ status = "assigning"
  /\ dimensions_ \in Dimensions
  /\ num_lookup_values_ = 0

\* An entry that a sparse codebook does not use.
SkipEntry ==
  /\ status = "assigning"
  /\ num_entries_ < MaxEntries
  /\ num_entries_ - Len(entries_) < MaxUnused
  /\ num_entries_' = num_entries_ + 1
  /\ UNCHANGED <<entries_, marker, status, dimensions_, num_lookup_values_>>

\* A mutant of NewEntry: its number is taken after it was counted.
NewEntryCounted(len) == [num |-> num_entries_ + 1, len |-> len, codeword |-> marker[len]]

NewEntry(len) == [num |-> num_entries_, len |-> len, codeword |-> marker[len]]

(***************************************************************************)
(* The length of the next used entry is read, and the entry gets the next  *)
(* codeword of that length.  (The code reads all lengths first; what it    *)
(* assigns does not depend on the later ones.)  A codebook that fails is   *)
(* not used further, so what its markers are left at does not matter.      *)
(***************************************************************************)
AssignCodeword(len) ==
  /\ status = "assigning"
  /\ num_entries_ < MaxEntries
  /\ num_entries_' = num_entries_ + 1
  /\ entries_' = Append(entries_, NewEntry(len))
  /\ \E rest \in ShiftRight(marker[len], len), limit \in OneShifted(Turn(len)) :
       IF \/ rest # 0
          \/ Turn(len) > 0 /\ Advanced(len)[Turn(len)] > limit
       THEN status' = "overspecified" /\ UNCHANGED marker
       ELSE marker' = Taken(len) /\ UNCHANGED status
  /\ UNCHANGED <<dimensions_, num_lookup_values_>>

\* A mutant of Full: the markers below the root's children are not looked at.
FullAtRoot == marker[1] = Word(2)

\* No length has a codeword left; of the full length the marker has wrapped.
Full == \A j \in Lengths : marker[j] = Word(Power[j])

-----------------------------------------------------------------------------
(* _buildEntriesLookup                                                     *)

Entries == {entries_[i] : i \in DOMAIN entries_}

At(word, len) == {e \in Entries : e.len = len /\ e.codeword = word}

\* A mutant of Branch: the 1 branch is found where the 0 branch ends.
BranchShort(idx, zero) == [next_idx |-> idx + Len(zero), num |-> 0]

\* The 0 branch comes right after its node, the 1 branch after that.
Branch(idx, zero) == [next_idx |-> idx + 1 + Len(zero), num |-> 0]

(***************************************************************************)
(* The subtree of a word, as the table has it from index idx on; <<>> if   *)
(* the recursion gets to a word of full length, which it asserts it never  *)
(* does.  Nodes are visited as the code does, in preorder.                 *)
(***************************************************************************)
Subtree[len \in 0 .. WordLen] ==
  [word \in Nat |-> [idx \in Nat |->
     IF len = WordLen THEN <<>>
     ELSE IF len > 0 /\ At(word, len) # {}
     THEN <<[next_idx |-> 0, num |-> (CHOOSE e \in At(word, len) : TRUE).num]>>
     ELSE LET zero == Subtree[len + 1][2 * word][idx + 1]
              one  == Subtree[len + 1][2 * word + 1][idx + 1 + Len(zero)]
          IN IF zero = <<>> \/ one = <<>> THEN <<>>
             ELSE <<Branch(idx, zero)>> \o zero \o one]]

entries_lookup_ == Subtree[0][0][0]

\* All entries have their codewords: is the tree full, and its table built?
FinishCodewords ==
  /\ status = "assigning"
  /\ num_entries_ > 0
  /\ status' = CASE ~Full                            -> "underspecified"
                 [] Full /\ entries_lookup_ = <<>>   -> "aborted"
                 [] Full /\ entries_lookup_ # <<>>   -> "assigned"
  /\ UNCHANGED <<entries_, num_entries_, marker, dimensions_, num_lookup_values_>>

-----------------------------------------------------------------------------
(* decodeScalar                                                            *)

BitStrings == [1 .. WordLen - 1 -> {0, 1}]

\* A decoded scalar, with the number of bits read for it.
Scalar(num, bits) == [num |-> num, bits |-> bits]

\* Where decodeScalar_fast is in the table before each bit.
Walk(table, bits) ==
  LET at[n \in 0 .. WordLen - 1] ==
        IF n = 0 THEN 0
        ELSE LET node == table[at[n - 1] + 1]
             IN IF node.next_idx = 0 THEN at[n - 1]
                ELSE IF bits[n] = 0 THEN at[n - 1] + 1
                ELSE node.next_idx
  IN at

\* The num of the first leaf, if one is reached within a word.
decodeScalar_fast(table, bits) ==
  LET at   == Walk(table, bits)
      leaf == {n \in DOMAIN at : table[at[n] + 1].next_idx = 0}
  IN {Scalar(table[at[n] + 1].num, n) : n \in {m \in leaf : \A k \in leaf : m <= k}}

Prefix(bits, n) ==
  LET word[k \in 0 .. n] == IF k = 0 THEN 0 ELSE 2 * word[k - 1] + bits[k]
  IN word[n]

\* The entries whose codeword the bits begin with, the shortest first.
decodeScalar_slow(bits) ==
  LET found == {e \in Entries : e.len < WordLen /\ e.codeword = Prefix(bits, e.len)}
  IN {Scalar(e.num, e.len) : e \in {d \in found : \A c \in found : d.len <= c.len}}

-----------------------------------------------------------------------------
(* lookup1_values                                                          *)

\* powIntExp on uint32_t: squares and products of words.
powIntExp(base, exponent) ==
  LET pow[n \in 0 .. exponent] ==
        IF n = 0 THEN 1
        ELSE IF n % 2 = 0 THEN Word(pow[n \div 2] * pow[n \div 2])
        ELSE Word(pow[n - 1] * base)
  IN pow[exponent]

\* A mutant of MoreValues: the power may not be the number of entries itself.
FewerValues == powIntExp(num_lookup_values_ + 1, dimensions_) < num_entries_

MoreValues == powIntExp(num_lookup_values_ + 1, dimensions_) <= num_entries_

CountLookupValue ==
  /\ status = "assigned"
  /\ MoreValues
  /\ num_lookup_values_' = num_lookup_values_ + 1
  /\ UNCHANGED <<entries_, num_entries_, marker, status, dimensions_>>

FinishLookupValues ==
  /\ status = "assigned"
  /\ ~MoreValues
  /\ status' = "parsed"
  /\ UNCHANGED <<entries_, num_entries_, marker, dimensions_, num_lookup_values_>>

CNext ==
  \/ SkipEntry
  \/ \E len \in Lengths : AssignCodeword(len)
  \/ FinishCodewords
  \/ CountLookupValue
  \/ FinishLookupValues

CSpec == CInit /\ [][CNext]_cvars

-----------------------------------------------------------------------------
(* Properties                                                              *)

CTypeOK ==
  /\ \A e \in Entries : e.num \in 0 .. num_entries_ - 1 /\ e.len \in Lengths /\ e.codeword \in Words
  /\ num_entries_ \in 0 .. MaxEntries
  /\ marker \in [Lengths -> Words]
  /\ status \in {"assigning", "overspecified", "underspecified", "aborted", "assigned", "parsed"}
  /\ dimensions_ \in Dimensions
  /\ num_lookup_values_ \in Nat

\* The share of the tree below the codewords, in units of its lowest nodes.
Share(entries) ==
  LET sum[i \in 0 .. Len(entries)] ==
        IF i = 0 THEN 0 ELSE sum[i - 1] + Power[WordLen - entries[i].len]
  IN sum[Len(entries)]

FullLength == \E e \in Entries : e.len = WordLen

(***************************************************************************)
(* No codeword is the beginning of another, whatever the lengths and their *)
(* order are, at every point of the assignment.  (A codeword of the full   *)
(* length may be: the marker of that length wraps.)                        *)
(***************************************************************************)
PrefixFree ==
  status \in {"assigning", "assigned"} /\ ~FullLength =>
    \A i, j \in DOMAIN entries_ :
      i < j =>
        LET len == Min({entries_[i].len, entries_[j].len})
        IN entries_[i].codeword \div Power[entries_[i].len - len]
             # entries_[j].codeword \div Power[entries_[j].len - len]

(***************************************************************************)
(* A codebook is rejected as overspecified or underspecified exactly when  *)
(* its lengths need more or less than the whole tree (Kraft's equation).   *)
(* One with a codeword of full length is never decoded with: its shift is  *)
(* undefined, and the lookup table asserts that there is none.             *)
(***************************************************************************)
VerdictIsRight ==
  /\ status = "assigned" => Share(entries_) = Power[WordLen] /\ ~FullLength
  /\ status = "overspecified"  => Share(entries_) > Power[WordLen] \/ FullLength
  /\ status = "underspecified" => Share(entries_) < Power[WordLen] \/ FullLength
  /\ status = "aborted"        => FullLength

(***************************************************************************)
(* Every string of bits decodes, without getting to assert(false), and the *)
(* table gives the entry that decodeScalar_slow finds by its codeword,     *)
(* after as many bits.                                                     *)
(***************************************************************************)
FastIsSlow ==
  status = "assigned" /\ num_lookup_values_ = 0 =>
    LET table == entries_lookup_
    IN \A bits \in BitStrings :
         /\ decodeScalar_fast(table, bits) = decodeScalar_slow(bits)
         /\ decodeScalar_fast(table, bits) # {}

\* The n-th power of a number, however large it is.
ToThe(base, n) ==
  LET to[k \in 0 .. n] == IF k = 0 THEN 1 ELSE base * to[k - 1]
  IN to[n]

(***************************************************************************)
(* The comment on lookup1_values: it is the greatest number whose power of *)
(* dimensions_ is not above the number of entries.                         *)
(***************************************************************************)
GreatestRoot ==
  status = "parsed" =>
    /\ ToThe(num_lookup_values_, dimensions_) <= num_entries_
    /\ ToThe(num_lookup_values_ + 1, dimensions_) > num_entries_
=============================================================================
