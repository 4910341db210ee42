----------------------------- MODULE BlockIter ------------------------------
(***************************************************************************)
(* A block of a table of LevelDB: BlockBuilder stores each key as what it  *)
(* does not share with the key before, and starts anew at every restart    *)
(* point; Block::Iter puts the keys together again while it moves in both  *)
(* directions (table/block_builder.cc, table/block.cc).                    *)
(*                                                                         *)
(* The offset of an entry is the number of entries before it: only the     *)
(* order of offsets matters. Values are left out. An entry in bad is one   *)
(* that DecodeEntry refuses.                                               *)
(***************************************************************************)
EXTENDS Integers, FiniteSets, SequencesExt

CONSTANTS
    Bytes,          \* the bytes of keys, numbers
    KeyLength,      \* bound: length of a key
    MaxEntries,     \* bound: entries of the block
    Intervals,      \* values of block_restart_interval
    MaxBad          \* bound: damaged entries

(* What the constants are assumed to be.                                    *)
BlockConstants ==
    /\ Bytes \subseteq Nat /\ KeyLength \in Nat \ {0} /\ MaxEntries \in Nat \ {0}
    /\ Intervals \subseteq Nat \ {0} /\ MaxBad \in Nat

Strings == UNION {[1..n -> Bytes] : n \in 0..KeyLength}

VARIABLES
    interval,
    buffer_,        \* the entries: shared bytes and the rest of the key
    restarts_,      \* the restart points
    counter_, last_key_,
    finished_,
    bad,            \* the offsets of damaged entries
    it,             \* the iterator: current_, restart_index_, key_, the offset
                    \* after value_, whether its status is bad
    keys,           \* ghost: the keys that were added
    expect          \* ghost: the offset the calls so far should lead to

builder == <<interval, buffer_, restarts_, counter_, last_key_, keys>>
vars == <<builder, finished_, bad, it, expect>>

(* Comparator::Compare(a, b) < 0, bytewise.                                 *)
Differ(a, b) == {i \in 1..Min({Len(a), Len(b)}) : a[i] # b[i]}
Less(a, b) ==
    IF Differ(a, b) = {} THEN Len(a) < Len(b)
    ELSE a[Min(Differ(a, b))] < b[Min(Differ(a, b))]

-----------------------------------------------------------------------------
(* BlockBuilder.                                                            *)
Size == Len(buffer_)
NumRestarts == Len(restarts_)
Ended == [current |-> Size, restart |-> NumRestarts, key |-> <<>>, next |-> 0, error |-> FALSE]

Init ==
    /\ interval \in Intervals
    /\ buffer_ = <<>> /\ restarts_ = <<0>> /\ counter_ = 0 /\ last_key_ = <<>>
    /\ finished_ = FALSE /\ bad = {}
    /\ it = [current |-> 0, restart |-> 1, key |-> <<>>, next |-> 0, error |-> FALSE]
    /\ keys = <<>> /\ expect = 0

SharedBytes(a, b) ==
    IF Differ(a, b) = {} THEN Min({Len(a), Len(b)}) ELSE Min(Differ(a, b)) - 1

Add(key) ==
    /\ ~finished_ /\ Size < MaxEntries
    /\ keys = <<>> \/ Less(last_key_, key)
    /\ LET shared == IF counter_ < interval THEN SharedBytes(last_key_, key) ELSE 0
       IN  buffer_' = Append(buffer_, [shared |-> shared, rest |-> SubSeq(key, shared + 1, Len(key))])
    /\ restarts_' = IF counter_ < interval THEN restarts_ ELSE Append(restarts_, Size)
    /\ counter_' = IF counter_ < interval THEN counter_ + 1 ELSE 1
    /\ last_key_' = key /\ keys' = Append(keys, key)
    /\ UNCHANGED <<interval, finished_, bad, it, expect>>

(* Finish, and Block::NewIterator on the block as it is read from the disk. *)
Finish ==
    /\ ~finished_
    /\ finished_' = TRUE
    /\ bad' \in {B \in SUBSET (0..(Size - 1)) : Cardinality(B) <= MaxBad}
    /\ it' = Ended /\ expect' = Size
    /\ UNCHANGED builder

-----------------------------------------------------------------------------
(* Block::Iter. Restart indexes start at 0.                                 *)
GetRestartPoint(i) == restarts_[i + 1]
Valid(i) == i.current < Size

CorruptionError == [Ended EXCEPT !.error = TRUE]
SeekToRestartPoint(i, index) ==
    [i EXCEPT !.key = <<>>, !.restart = index, !.next = GetRestartPoint(index)]

(* ParseNextKey: the entry after value_, whose key keeps the shared bytes   *)
(* of the key before. The restart index follows the current offset.         *)
AdvancedRestart(index, current) ==
    Max({index} \cup {r \in index..(NumRestarts - 1) : GetRestartPoint(r) < current})

ParseNextKey(i) ==
    LET at == i.next
        entry == buffer_[at + 1]
    IN  IF at >= Size THEN [i EXCEPT !.current = Size, !.restart = NumRestarts]
        ELSE IF at \in bad \/ Len(i.key) < entry.shared THEN CorruptionError
        ELSE [i EXCEPT !.current = at,
                       !.key = SubSeq(i.key, 1, entry.shared) \o entry.rest,
                       !.next = at + 1,
                       !.restart = AdvancedRestart(i.restart, at)]

(* ParseNextKey again and again, while the iterator is valid and goes on.   *)
ParseWhile(i, GoesOn(_)) ==
    LET step[n \in 0..MaxEntries] ==
            IF n = 0 THEN ParseNextKey(i)
            ELSE IF Valid(step[n - 1]) /\ GoesOn(step[n - 1]) THEN ParseNextKey(step[n - 1])
            ELSE step[n - 1]
    IN  step[MaxEntries]

IterSeekToFirst(i) == ParseNextKey(SeekToRestartPoint(i, 0))

IterSeekToLast(i) ==
    ParseWhile(SeekToRestartPoint(i, NumRestarts - 1), LAMBDA j : j.next < Size)

(* Seek: binary search for the last restart point before target, whose      *)
(* entries hold whole keys; then entry by entry. -1: a restart point that   *)
(* cannot be decoded.                                                       *)
LastRestartBefore(target) ==
    LET search[left \in 0..NumRestarts, right \in 0..NumRestarts] ==
            IF left >= right THEN left
            ELSE LET mid == (left + right + 1) \div 2
                     entry == buffer_[GetRestartPoint(mid) + 1]
                 IN  IF GetRestartPoint(mid) \in bad \/ entry.shared # 0 THEN -1
                     ELSE IF Less(entry.rest, target) THEN search[mid, right]
                     ELSE search[left, mid - 1]
    IN  search[0, NumRestarts - 1]

(* Mutant: the search leaves the restart point itself out.                  *)
IterSeekFromNext(i, target) ==
    LET left == LastRestartBefore(target)
    IN  IF left < 0 THEN CorruptionError
        ELSE ParseWhile(SeekToRestartPoint(i, Min({left + 1, NumRestarts - 1})),
                        LAMBDA j : Less(j.key, target))

IterSeek(i, target) ==
    LET left == LastRestartBefore(target)
    IN  IF left < 0 THEN CorruptionError
        ELSE ParseWhile(SeekToRestartPoint(i, left), LAMBDA j : Less(j.key, target))

(* Prev: back to the restart point before the current entry, then on up to  *)
(* the entry that ends where this one starts.                               *)
RestartsBefore(i) == {r \in 0..i.restart : GetRestartPoint(r) < i.current}

IterPrev(i) ==
    IF RestartsBefore(i) = {} THEN [i EXCEPT !.current = Size, !.restart = NumRestarts]
    ELSE ParseWhile(SeekToRestartPoint(i, Max(RestartsBefore(i))),
                    LAMBDA j : j.next < i.current)

-----------------------------------------------------------------------------
(* The calls; expect is where a list of the keys would be.                  *)
Call(i, e) == finished_ /\ it' = i /\ expect' = e /\ UNCHANGED <<builder, finished_, bad>>

SeekToFirst == Call(IterSeekToFirst(it), 0)
SeekToLast == Call(IterSeekToLast(it), IF Size = 0 THEN 0 ELSE Size - 1)
Seek(target) ==
    Call(IterSeek(it, target),
         Min({Size} \cup {n \in 0..(Size - 1) : ~Less(keys[n + 1], target)}))
MoveNext == Valid(it) /\ Call(ParseNextKey(it), it.current + 1)
MovePrev == Valid(it) /\ Call(IterPrev(it), IF it.current = 0 THEN Size ELSE it.current - 1)

Next ==
    \/ \E key \in Strings : Add(key)
    \/ Finish
    \/ SeekToFirst \/ SeekToLast \/ (\E target \in Strings : Seek(target))
    \/ MoveNext \/ MovePrev

Spec == Init /\ [][Next]_vars

-----------------------------------------------------------------------------
TypeOK ==
    /\ Size <= MaxEntries /\ \A i \in 1..NumRestarts : restarts_[i] \in 0..Size
    /\ bad \subseteq 0..(Size - 1)
    /\ finished_ /\ Valid(it) =>
        /\ it.next = it.current + 1
        /\ it.restart \in 0..(NumRestarts - 1)
        /\ GetRestartPoint(it.restart) <= it.current
        /\ it.restart + 1 < NumRestarts => GetRestartPoint(it.restart + 1) >= it.current

(* Wherever a sequence of calls leads, the key is put together as it was    *)
(* added: the bytes it shares were those of the key before it.              *)
KeyIsWhole == finished_ /\ Valid(it) => it.key = keys[it.current + 1]

(* Every call lands where it would in the list of the keys. If an entry     *)
(* cannot be decoded on the way, the iterator says so: it is not just at    *)
(* the end.                                                                 *)
LandsRight ==
    finished_ => \/ it.current = expect
                 \/ it.error /\ ~Valid(it)

(* Without damage there is no error.                                        *)
NoFalseAlarm == bad = {} => ~it.error

=============================================================================
