----------------------------- MODULE TableFile ------------------------------
(***************************************************************************)
(* A sorted table file of LevelDB: TableBuilder writes it, block after     *)
(* block with an index of shortened keys and a Bloom filter for every      *)
(* FilterBase bytes, and Table finds a key in it again (table/table_       *)
(* builder.cc, table/filter_block.cc, table/table.cc, util/bloom.cc, the   *)
(* separators of db/dbformat.cc and util/comparator.cc).                   *)
(*                                                                         *)
(* A user key is a sequence of bytes, an internal key a user key with a    *)
(* sequence number. The size of a block is any of BlockSizes: it depends   *)
(* on values and compression, which are left out, as is the layout of a    *)
(* block. Words have WordBits bits instead of 32, bytes go up to MaxByte.  *)
(***************************************************************************)
EXTENDS Integers, FiniteSets, SequencesExt

CONSTANTS
    MaxByte,        \* 0xff
    UserKeys,       \* bound: the user keys, sequences of bytes
    MaxSequence,    \* kMaxSequenceNumber; keys are below it
    MaxEntries,     \* bound: entries of the table
    BlockSizes,     \* sizes of a written block, its trailer included
    FilterBase,     \* kFilterBase
    WordBits,       \* bits of the hash
    Probes, FilterBits, \* k_ and the bits of a filter
    Hash(_)         \* BloomHash, of a user key

(* What the constants are assumed to be.                                    *)
TableConstants ==
    /\ {MaxByte, MaxSequence, MaxEntries, FilterBase} \subseteq Nat \ {0}
    /\ {WordBits, Probes, FilterBits} \subseteq Nat \ {0}
    /\ BlockSizes \subseteq Nat \ {0}
    /\ UserKeys \subseteq Seq(0..MaxByte)

InternalKeys == [user: UserKeys, seq: 1..MaxSequence]

VARIABLES
    data_block,     \* the internal keys of the block that is filled
    blocks,         \* the blocks in the file, with their offsets
    index_block,    \* keys and the offsets of their blocks
    last_key, pending_index_entry, offset, ok, closed,
    start_,         \* the user keys of the filter to come
    filters,        \* the filters that were made
    footer,         \* whether the file ends with a footer
    added           \* ghost: the keys that were added

vars == <<data_block, blocks, index_block, last_key, pending_index_entry, offset, ok, closed,
          start_, filters, footer, added>>

-----------------------------------------------------------------------------
(* Comparators.                                                             *)

(* Slice::compare: the first byte that differs, then the length.            *)
Differ(a, b) == {i \in 1..Min({Len(a), Len(b)}) : a[i] # b[i]}
UserLess(a, b) ==
    IF Differ(a, b) = {} THEN Len(a) < Len(b)
    ELSE a[Min(Differ(a, b))] < b[Min(Differ(a, b))]

Less(a, b) == UserLess(a.user, b.user) \/ (a.user = b.user /\ a.seq > b.seq)

(* BytewiseComparatorImpl::FindShortestSeparator and FindShortSuccessor:    *)
(* the byte that is raised becomes the last one.                            *)
Raise(key, i) == [SubSeq(key, 1, i) EXCEPT ![i] = @ + 1]

ShortestUserSeparator(start, limit) ==
    LET d == Differ(start, limit)
        i == Min(d)
    IN  IF d # {} /\ start[i] < MaxByte /\ start[i] + 1 < limit[i]
        THEN Raise(start, i) ELSE start

ShortUserSuccessor(key) ==
    LET d == {i \in 1..Len(key) : key[i] # MaxByte}
    IN  IF d = {} THEN key ELSE Raise(key, Min(d))

(* InternalKeyComparator takes the shortened user key if it is shorter and  *)
(* larger, with the largest sequence number.                                *)
Shortened(key, user) ==
    IF Len(user) < Len(key.user) /\ UserLess(key.user, user)
    THEN [user |-> user, seq |-> MaxSequence] ELSE key

FindShortestSeparator(start, limit) == Shortened(start, ShortestUserSeparator(start.user, limit.user))
FindShortSuccessor(key) == Shortened(key, ShortUserSuccessor(key.user))

-----------------------------------------------------------------------------
(* BloomFilterPolicy over user keys: double hashing with a rotated word     *)
(* (by 17 of 32 bits; here by half of a word), modulo the word size.        *)
Word == 2^WordBits
Half == 2^(WordBits \div 2)
Delta(h) == (h \div Half) + ((h * (Word \div Half)) % Word)

ProbesOf(user) ==
    LET h == Hash(user) IN {((h + j * Delta(h)) % Word) % FilterBits : j \in 0..(Probes - 1)}

CreateFilter(users) == UNION {ProbesOf(u) : u \in users}
PolicyMatches(user, filter) == filter # {} /\ ProbesOf(user) \subseteq filter

-----------------------------------------------------------------------------
(* Mutant: one filter too many is made.                                     *)
StartBlockEarly(fs, keys, off) ==
    LET missing == off \div FilterBase + 1 - Len(fs)
    IN  IF missing <= 0 THEN [filters |-> fs, keys |-> keys]
        ELSE [filters |-> fs \o <<CreateFilter(keys)>> \o [i \in 1..(missing - 1) |-> {}],
              keys |-> {}]

(* FilterBlockBuilder. GenerateFilter makes a filter of the keys since the  *)
(* last one; without keys it is empty. StartBlock makes filters until the   *)
(* one of the new block's offset is next.                                   *)
StartBlock(fs, keys, off) ==
    LET missing == off \div FilterBase - Len(fs)
    IN  IF missing <= 0 THEN [filters |-> fs, keys |-> keys]
        ELSE [filters |-> fs \o <<CreateFilter(keys)>> \o [i \in 1..(missing - 1) |-> {}],
              keys |-> {}]

(* FilterBlockReader::KeyMayMatch: beyond the last filter everything may    *)
(* match.                                                                   *)
KeyMayMatch(off, user) ==
    LET i == off \div FilterBase + 1
    IN  i <= Len(filters) => PolicyMatches(user, filters[i])

-----------------------------------------------------------------------------
(* TableBuilder.                                                            *)
Init ==
    /\ data_block = <<>> /\ blocks = <<>> /\ index_block = <<>>
    /\ last_key = {} /\ pending_index_entry = {} /\ offset = 0
    /\ ok = TRUE /\ closed = FALSE /\ footer = FALSE
    /\ start_ = {} /\ filters = <<>> /\ added = <<>>

(* Flush: the block is written, its index entry waits for the next key. If  *)
(* an append fails, or the Flush of the file after it, the status is bad    *)
(* from then on. keys and block are those of the call, before the step is   *)
(* over.                                                                    *)
WriteBlock(block, keys, size) ==
    LET f == StartBlock(filters, keys, offset + size)
    IN  /\ blocks' = Append(blocks, [offset |-> offset, keys |-> block])
        /\ pending_index_entry' = {offset}
        /\ offset' = offset + size
        /\ data_block' = <<>>
        /\ filters' = f.filters /\ start_' = f.keys
        /\ ok' \in BOOLEAN

WriteBlockFails(keys) ==
    LET f == StartBlock(filters, keys, offset)
    IN  /\ ok' = FALSE
        /\ data_block' = <<>>
        /\ filters' = f.filters /\ start_' = f.keys
        /\ UNCHANGED <<blocks, offset>>

IndexEntries(key) == [i \in 1..Cardinality(pending_index_entry) |->
                        [key |-> key, offset |-> CHOOSE o \in pending_index_entry : TRUE]]

(* Add: the index entry of the last block gets a key between that block and *)
(* this key; then the key goes to the filter and to the block, which may be *)
(* full now.                                                                *)
Add(key) ==
    /\ ~closed /\ ok /\ Len(added) < MaxEntries /\ key.seq < MaxSequence
    /\ \A l \in last_key : Less(l, key)
    /\ added' = Append(added, key)
    /\ index_block' = index_block \o
            IndexEntries(IF last_key = {} THEN key
                         ELSE FindShortestSeparator(CHOOSE l \in last_key : TRUE, key))
    /\ last_key' = {key}
    /\ \/ /\ data_block' = Append(data_block, key) /\ start_' = start_ \cup {key.user}
          /\ pending_index_entry' = {}
          /\ UNCHANGED <<blocks, offset, ok, filters>>
       \/ \E size \in BlockSizes : WriteBlock(Append(data_block, key), start_ \cup {key.user}, size)
       \/ WriteBlockFails(start_ \cup {key.user}) /\ pending_index_entry' = {}
    /\ UNCHANGED <<closed, footer>>

(* Finish: the last block, then the filters, the index with an entry for    *)
(* that block, and the footer. First the block, if there is one.            *)
FlushLast ==
    /\ ~closed /\ ok /\ data_block # <<>>
    /\ closed' = TRUE
    /\ \/ \E size \in BlockSizes : WriteBlock(data_block, start_, size)
       \/ WriteBlockFails(start_) /\ UNCHANGED pending_index_entry
    /\ UNCHANGED <<index_block, last_key, footer, added>>

NothingToFlush ==
    /\ ~closed /\ (data_block = <<>> \/ ~ok)
    /\ closed' = TRUE
    /\ UNCHANGED <<data_block, blocks, index_block, last_key, pending_index_entry, offset, ok,
                   start_, filters, footer, added>>

Finish ==
    /\ closed /\ ok /\ ~footer
    /\ \/ /\ filters' = IF start_ = {} THEN filters ELSE Append(filters, CreateFilter(start_))
          /\ start_' = {}
          /\ index_block' = index_block \o
                IndexEntries(IF last_key = {} THEN {} ELSE FindShortSuccessor(CHOOSE l \in last_key : TRUE))
          /\ pending_index_entry' = {}
          /\ footer' = TRUE
          /\ UNCHANGED ok
       \/ \* An append fails: no footer.
          /\ ok' = FALSE
          /\ UNCHANGED <<filters, start_, index_block, pending_index_entry, footer>>
    /\ UNCHANGED <<data_block, blocks, last_key, offset, closed, added>>

Next == (\E key \in InternalKeys : Add(key)) \/ FlushLast \/ NothingToFlush \/ Finish

Spec == Init /\ [][Next]_vars

-----------------------------------------------------------------------------
(* Table. A key is looked up in the index and then, if the filter does not  *)
(* exclude it, in its block. filtered: whether the filter could be read;    *)
(* bad: the blocks that cannot be read.                                     *)
SeekIn(keys, k) ==
    LET rest == {i \in 1..Len(keys) : ~Less(keys[i], k)}
    IN  IF rest = {} THEN 0 ELSE Min(rest)

IndexSeek(k) == SeekIn([i \in 1..Len(index_block) |-> index_block[i].key], k)
BlockAt(off) == CHOOSE b \in ToSet(blocks) : b.offset = off

InternalGet(k, filtered, bad) ==
    LET i == IndexSeek(k)
        off == index_block[i].offset
        keys == BlockAt(off).keys
        j == SeekIn(keys, k)
        read == i # 0 /\ (filtered => KeyMayMatch(off, k.user))
    IN  [error |-> read /\ off \in bad,
         found |-> IF read /\ off \notin bad /\ j # 0 THEN {keys[j]} ELSE {}]

ApproximateOffsetOf(k) ==
    IF IndexSeek(k) = 0 THEN offset ELSE index_block[IndexSeek(k)].offset

-----------------------------------------------------------------------------
TypeOK ==
    /\ ToSet(data_block) \subseteq InternalKeys
    /\ \A b \in ToSet(blocks) : b.keys # <<>> /\ b.offset \in 0..offset
    /\ Len(index_block) + Cardinality(pending_index_entry) <= Len(blocks)
    /\ ok => Len(index_block) + Cardinality(pending_index_entry) = Len(blocks)
    /\ pending_index_entry # {} => data_block = <<>>
    /\ footer => ok /\ data_block = <<>> /\ pending_index_entry = {} /\ start_ = {}
    /\ {ok, closed, footer} \subseteq BOOLEAN

(* What a lookup should find: the first key at or after k, if it has the    *)
(* user key of k. SaveValue of db/version_set.cc takes no other.            *)
Found(k) == LET i == SeekIn(added, k) IN {added[j] : j \in {i} \ {0}}
OfUserKey(k, keys) == {e \in keys : e.user = k.user}

Right(k, r) == ~r.error /\ OfUserKey(k, r.found) = OfUserKey(k, Found(k))

(* A table that was finished without an error answers each lookup of a user *)
(* key at a sequence number with its newest entry at that number, with and  *)
(* without its filter, whatever the separators, the blocks and the filters  *)
(* came to be.                                                              *)
LookupsRight ==
    footer => \A k \in InternalKeys, filtered \in BOOLEAN :
                Right(k, InternalGet(k, filtered, {}))

(* If one block cannot be read, a lookup is still answered right or with an *)
(* error: never with "not found" for a key that is there.                   *)
DamageIsReported ==
    footer => \A k \in InternalKeys, filtered \in BOOLEAN, b \in ToSet(blocks) :
                LET r == InternalGet(k, filtered, {b.offset}) IN r.error \/ Right(k, r)

(* ApproximateOffsetOf does not go down as the key goes up: the sizes that  *)
(* GetApproximateSizes subtracts are not negative.                          *)
OffsetsAscend ==
    footer => \A a, b \in InternalKeys :
                Less(a, b) => ApproximateOffsetOf(a) <= ApproximateOffsetOf(b)

(* An error is never forgotten: a table that ends with a footer holds all   *)
(* that was added, in order.                                                *)
FooterMeansComplete ==
    footer => FlattenSeq([i \in 1..Len(blocks) |-> blocks[i].keys]) = added

=============================================================================
