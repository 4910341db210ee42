----------------------------- MODULE LogRecords -----------------------------
(***************************************************************************)
(* The format of LevelDB's logs and MANIFESTs (Pods/leveldb-library/db:    *)
(* log_format.h, log_writer.cc, log_reader.cc): records cut into fragments *)
(* that fit into blocks, and a reader that has to make sense of a file     *)
(* whose end was lost, whose middle was damaged, or into which a failed    *)
(* append put half a fragment.                                             *)
(*                                                                         *)
(* A file is a sequence of cells. A cell of a header knows its fragment    *)
(* and its place in the header; a cell of a payload its record and place;  *)
(* other cells are zeros of a trailer or damage. That a checksum fits      *)
(* means that the cells after the header are the ones it was made for.     *)
(***************************************************************************)
EXTENDS Integers, FiniteSets, SequencesExt

CONSTANTS
    BlockSize,      \* kBlockSize, in cells
    HeaderSize,     \* kHeaderSize, in cells
    Sizes,          \* sizes of records
    Reopens,        \* the log may be appended to after a crash (reuse_logs)
    MaxRecords,     \* bound: records added
    MaxFailures,    \* bound: failed appends
    MaxCrashes,     \* bound: crashes
    MaxDamage       \* bound: damaged cells

(* What the constants are assumed to be.                                    *)
LogConstants ==
    /\ HeaderSize \in Nat \ {0} /\ BlockSize \in Nat /\ BlockSize > HeaderSize
    /\ Sizes \subseteq Nat /\ Reopens \in BOOLEAN
    /\ MaxRecords \in Nat /\ MaxFailures \in Nat /\ MaxCrashes \in Nat /\ MaxDamage \in Nat

VARIABLES
    file,           \* the cells
    synced,         \* how many of them are safe
    blockOffset,    \* block_offset_ of the writer
    writing,        \* the record AddRecord is at: [id, size, left], or <<>>
    written,        \* the record whose AddRecord was ok and that may be synced, or 0
    added,          \* the sizes of the records given to AddRecord; a record's id is its place
    acked,          \* ids whose AddRecord and Sync were ok
    open,           \* somebody writes to the log
    damaged,        \* blocks that were damaged
    torn,           \* half a fragment is in the middle of the log
    failures, crashes

vars == <<file, synced, blockOffset, writing, written, added, acked, open, damaged, torn,
          failures, crashes>>

Init ==
    /\ file = <<>> /\ synced = 0 /\ blockOffset = 0 /\ writing = <<>>
    /\ written = 0 /\ added = <<>> /\ acked = {} /\ open = TRUE /\ damaged = {} /\ torn = FALSE
    /\ failures = 0 /\ crashes = 0

-----------------------------------------------------------------------------
(* The writer.                                                              *)
Zero == [cell |-> "zero"]
Damage == [cell |-> "damage"]

RecordType(begin, end) ==
    IF begin THEN (IF end THEN "full" ELSE "first") ELSE (IF end THEN "last" ELSE "middle")

(* A fragment on disk: its header, then the part of the payload it holds.   *)
Physical(f) ==
    [i \in 1..HeaderSize |-> [cell |-> "head", part |-> i, fragment |-> f]]
        \o [i \in 1..f.length |-> [cell |-> "data", id |-> f.id, at |-> f.from + i]]

AddRecord(size) ==
    /\ open /\ writing = <<>> /\ Len(added) < MaxRecords
    /\ added' = Append(added, size) /\ written' = 0
    /\ writing' = <<[id |-> Len(added) + 1, size |-> size, left |-> size]>>
    /\ UNCHANGED <<file, synced, blockOffset, acked, open, damaged, torn, failures,
                   crashes>>

(* One round of the loop of AddRecord: a trailer if no header fits into the *)
(* block any more, then the next fragment.                                  *)
Leftover == BlockSize - blockOffset

NewBlock == Leftover < HeaderSize
Offset == IF NewBlock THEN 0 ELSE blockOffset
Trailer == IF NewBlock THEN [i \in 1..Leftover |-> Zero] ELSE <<>>

Fragment(w) ==
    LET avail == BlockSize - Offset - HeaderSize
        length == IF w.left < avail THEN w.left ELSE avail
    IN  [id |-> w.id, from |-> w.size - w.left, length |-> length,
         type |-> RecordType(w.left = w.size, w.left = length)]

EmitPhysicalRecord ==
    /\ open
    /\ \E w \in ToSet(writing) :
        LET f == Fragment(w)
        IN  /\ file' = file \o Trailer \o Physical(f)
            /\ blockOffset' = Offset + HeaderSize + f.length
            /\ writing' = IF f.length = w.left THEN <<>>
                          ELSE <<[w EXCEPT !.left = @ - f.length]>>
            /\ written' = IF f.length = w.left THEN w.id ELSE 0
    /\ UNCHANGED <<synced, added, acked, open, damaged, torn, failures, crashes>>

(* An append fails: a part of the fragment is in the file, the writer       *)
(* counts all of it, and the record is given up.                            *)
EmitFails ==
    /\ open /\ failures < MaxFailures
    /\ \E w \in ToSet(writing) :
        LET f == Fragment(w)
            cells == Trailer \o Physical(f)
        IN  /\ \E n \in 0..(Len(cells) - 1) : file' = file \o SubSeq(cells, 1, n)
            /\ blockOffset' = Offset + HeaderSize + f.length
    /\ writing' = <<>> /\ torn' = TRUE
    /\ failures' = failures + 1
    /\ UNCHANGED <<synced, written, added, acked, open, damaged, crashes>>

(* Sync after an AddRecord that was ok.                                     *)
Sync ==
    /\ open /\ written # 0
    /\ synced' = Len(file)
    /\ acked' = acked \cup {written} /\ written' = 0
    /\ UNCHANGED <<file, blockOffset, writing, added, open, damaged, torn, failures,
                   crashes>>

-----------------------------------------------------------------------------
(* What can happen to the file. After a crash the writer is gone, and a     *)
(* prefix with all that was synced is left.                                 *)
Crash ==
    /\ open /\ crashes < MaxCrashes
    /\ \E n \in synced..Len(file) : file' = SubSeq(file, 1, n)
    /\ synced' = Len(file') /\ open' = FALSE /\ writing' = <<>> /\ written' = 0
    /\ crashes' = crashes + 1
    /\ UNCHANGED <<blockOffset, added, acked, damaged, torn, failures>>

(* Writer(dest, dest_length).                                               *)
Reopen ==
    /\ ~open /\ Reopens
    /\ open' = TRUE
    /\ blockOffset' = Len(file) % BlockSize
    /\ UNCHANGED <<file, synced, writing, written, added, acked, damaged, torn, failures,
                   crashes>>

BlockOf(p) == (p - 1) \div BlockSize

Corrupt(p) ==
    /\ ~open /\ Cardinality({i \in 1..Len(file) : file[i] = Damage}) < MaxDamage
    /\ file' = [file EXCEPT ![p] = Damage]
    /\ damaged' = damaged \cup {BlockOf(p)}
    /\ UNCHANGED <<synced, blockOffset, writing, written, added, acked, open, torn,
                   failures, crashes>>

Next ==
    \/ \E size \in Sizes : AddRecord(size)
    \/ EmitPhysicalRecord \/ EmitFails \/ Sync
    \/ Crash \/ Reopen
    \/ \E p \in 1..Len(file) : Corrupt(p)

Spec == Init /\ [][Next]_vars

-----------------------------------------------------------------------------
(* The reader. ReadPhysicalRecord turns a block into fragments; it gives up *)
(* the rest of a block at the first header that does not fit, silently if   *)
(* the file ends there (short is a block that is not full).                 *)
Bad == [type |-> "bad"]
ZeroType == [type |-> "zero"]
Eof == [type |-> "eof"]

HeaderAt(block, p) ==
    /\ block[p].cell = "head" /\ block[p].part = 1
    /\ \A i \in 1..HeaderSize :
        block[p + i - 1] = [block[p] EXCEPT !.part = i]

PayloadAt(block, p, f) ==
    \A i \in 1..f.length :
        block[p + i - 1] = [cell |-> "data", id |-> f.id, at |-> f.from + i]

ChecksumFits(block, p) ==
    HeaderAt(block, p) /\ PayloadAt(block, p + HeaderSize, block[p].fragment)

(* A header whose payload would end after the block: the end of the file,   *)
(* or a bad record.                                                         *)
(* Mutant: it is a bad record in any case.                                  *)
AlwaysBad(short) == <<Bad>>

TooLong(short) == IF short THEN <<Eof>> ELSE <<Bad>>

(* What a fragment is read as, with the payload that stands there.          *)
Read(block, p) ==
    LET f == block[p].fragment
    IN  [type |-> f.type, id |-> f.id, data |-> SubSeq(block, p + HeaderSize, p + HeaderSize + f.length - 1)]

(* Length and type, the end of a header, are zero. What follows such a      *)
(* header in its block is dropped, and not reported.                        *)
ZeroAt(block, p) == block[p + HeaderSize - 1] = Zero

Tokens(block, short) ==
    LET n == Len(block)
        next(p) == p + HeaderSize + block[p].fragment.length
        from[p \in 1..(n + 1)] ==
            IF n - p + 1 < HeaderSize THEN (IF short THEN <<Eof>> ELSE <<>>)
            ELSE IF HeaderAt(block, p) /\ next(p) > n + 1 THEN TooLong(short)
            ELSE IF ZeroAt(block, p) THEN <<ZeroType>>
            ELSE IF ~ChecksumFits(block, p) THEN <<Bad>>
            ELSE <<Read(block, p)>> \o from[next(p)]
    IN  from[1]

Blocks == Len(file) \div BlockSize
Block(b) ==
    SubSeq(file, b * BlockSize + 1, Min({(b + 1) * BlockSize, Len(file)}))

(* ReadRecord: fragments are put together; a record whose start or end is   *)
(* missing is dropped, and a drop that is not the end of the file reported. *)
ReadRecord(state, t) ==
    LET drop(reports) == [state EXCEPT !.scratch = <<>>, !.in = FALSE, !.reports = @ + reports]
        whole(data) == [drop(0) EXCEPT !.out = Append(@, [id |-> t.id, data |-> data])]
        cut == IF state.in /\ state.scratch # <<>> THEN 1 ELSE 0
        broken == IF state.in THEN 1 ELSE 0
    IN  CASE t.type = "full"   -> [whole(t.data) EXCEPT !.reports = @ + cut]
          [] t.type = "first"  -> [state EXCEPT !.scratch = t.data, !.in = TRUE, !.reports = @ + cut]
          [] t.type = "middle" -> IF state.in THEN [state EXCEPT !.scratch = @ \o t.data]
                                  ELSE drop(1)
          [] t.type = "last"   -> IF state.in THEN whole(state.scratch \o t.data) ELSE drop(1)
          [] t.type = "bad"    -> drop(1 + broken)
          [] t.type = "zero"   -> drop(broken)
          [] t.type = "eof"    -> drop(0)

(* The loop around it in RecoverLogFile goes on after what is reported.     *)
ReadStep(state, t) == ReadRecord(state, t)

ReadRecords ==
    FoldLeft(ReadStep, [scratch |-> <<>>, in |-> FALSE, out |-> <<>>, reports |-> 0],
             FlattenSeq([b \in 1..(Blocks + 1) |->
                            Tokens(Block(b - 1), Len(Block(b - 1)) < BlockSize)]))

ReadIds == [i \in 1..Len(ReadRecords.out) |-> ReadRecords.out[i].id]

-----------------------------------------------------------------------------
(* One type invariant: the writer never leaves room for less than a header  *)
(* without a trailer ("we never leave < kHeaderSize bytes in a block"), and *)
(* while nothing has failed its offset is the one of the file.              *)
TypeOK ==
    /\ synced \in 0..Len(file) /\ blockOffset \in 0..BlockSize
    /\ open /\ ~torn => blockOffset % BlockSize = Len(file) % BlockSize
    /\ \A w \in ToSet(writing) : w.left \in 0..w.size

(* Whatever was lost, damaged or half written, a record that is read is one *)
(* that was added, whole, once, and in the order of the log                 *)
(* (ReadPhysicalRecord, ReadRecord).                                        *)
ReadsOnlyAdded ==
    /\ \A r \in ToSet(ReadRecords.out) :
        r.data = [i \in 1..added[r.id] |-> [cell |-> "data", id |-> r.id, at |-> i]]
    /\ \A i, j \in 1..Len(ReadIds) : i < j => ReadIds[i] < ReadIds[j]

(* After a crash alone the records that are read are the first ones that    *)
(* were added, the acknowledged ones among them, and nothing is reported as *)
(* corrupt ("don't treat it as a corruption").                              *)
CrashLeavesPrefix ==
    damaged = {} /\ ~torn =>
        /\ ReadIds = [i \in 1..Len(ReadIds) |-> i]
        /\ acked \subseteq ToSet(ReadIds)
        /\ ReadRecords.reports = 0

(* Damage costs only the records that touch a damaged block.                *)
BlocksOf(id) ==
    {BlockOf(p) : p \in {q \in 1..Len(file) :
        \/ file[q].cell = "data" /\ file[q].id = id
        \/ file[q].cell = "head" /\ file[q].fragment.id = id}}
DamageStaysInBlock ==
    ~torn => \A id \in acked : BlocksOf(id) \cap damaged = {} => id \in ToSet(ReadIds)

(* "A DB write with sync==true has similar crash semantics to a write()     *)
(* system call followed by fsync()" (options.h): what was acknowledged can  *)
(* be read.                                                                 *)
AckedReadable == damaged = {} => acked \subseteq ToSet(ReadIds)
=============================================================================
