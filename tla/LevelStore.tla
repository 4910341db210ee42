----------------------------- MODULE LevelStore -----------------------------
(***************************************************************************)
(* A running LevelDB database (Pods/leveldb-library/db/db_impl.cc over     *)
(* version_set.cc): writes into the memtable, flushes of the full          *)
(* memtable, compactions between levels, snapshots, and reads that hold    *)
(* what they were begun with while everything else goes on.                *)
(*                                                                         *)
(* The background thread is one: it flushes, moves or merges, and flushes  *)
(* between two entries of a merge. A step here is what happens while the   *)
(* mutex is held, or one round of the loop that merges without it. Who may *)
(* write, and when background work is scheduled, is module WriteQueue;     *)
(* what a crash leaves is module Recovery.                                 *)
(***************************************************************************)
EXTENDS Levels

CONSTANTS
    Recovered,      \* entry sets of the level-0 tables the last Open made of its logs
    Batches,        \* write batches: sequences of [key, del]
    WriteBuffer,    \* write_buffer_size
    StopTrigger,    \* kL0_StopWritesTrigger
    AllowedSeeks,   \* allowed_seeks of a new file
    Readers,        \* threads that read
    Ranges,         \* ranges somebody may ask to compact: pairs of bounds
    MaxWrites,      \* bound: entries written in the run
    MaxSnapshots,   \* bound: snapshots held at once
    MaxCalls        \* bound: reads, samples and range compactions in the run

(* What the constants are assumed to be.                                    *)
StoreConstants ==
    /\ Recovered \in Seq(SUBSET Entry) /\ \A i \in 1..Len(Recovered) : Recovered[i] # {}
    /\ WriteBuffer \in Nat /\ StopTrigger \in Nat \ {0} /\ AllowedSeeks \in Nat \ {0}
    /\ Ranges \subseteq (0..NoLimit) \X (0..NoLimit)
    /\ MaxWrites \in Nat /\ MaxSnapshots \in Nat /\ MaxCalls \in Nat

VARIABLES
    memtables,      \* every memtable of the run; the last one is mem_
    imm,            \* the index of imm_, 0 for none
    inserted,       \* entries of the running write that mem_ has, LastSequence not yet
    lastSequence,   \* versions_->LastSequence()
    snapshots,      \* snapshots_, oldest first
    current,        \* versions_->current(), its files
    pointers,       \* compact_pointer_, a set of at most one key for each level
    seekFile,       \* file_to_compact_ with its level, a set of at most one pair
    allowed,        \* allowed_seeks of each file
    disk,           \* table files on disk, with their entries
    nextFile,       \* next_file_number_
    outputs,        \* pending_outputs_
    flush,          \* number of the table a flush is building, 0 for none
    job,            \* the merging compaction, a sequence of at most one record
    manual,         \* manual_compaction_ is set
    ranger,         \* the thread in CompactRange, with its ManualCompaction
    reads,          \* what each read in progress holds, a sequence of at most one record
    calls,          \* reads, samples and range compactions so far, for the bound
    (* History: written, never read by a guard.                            *)
    torn,           \* keys at which a compaction left the rest of a key behind
    gapped          \* keys of compactions that a flush to their output level cut

storeVars == <<current, pointers, seekFile, allowed, disk, nextFile, outputs>>
histVars  == <<torn, gapped>>
vars == <<memtables, imm, inserted, lastSequence, snapshots, storeVars, flush,
          job, manual, ranger, reads, calls, histVars>>

mem == Len(memtables)
RecoveredEntries == UNION ToSet(Recovered)
Written == RecoveredEntries \cup UNION ToSet(memtables)

Init ==
    /\ memtables = <<{}>> /\ imm = 0 /\ inserted = 0
    /\ lastSequence = Max({0} \cup {e.seq : e \in RecoveredEntries})
    /\ snapshots = <<>>
    /\ current = BuilderApply(NoFiles,
                    {<<0, MetaOf(i, Recovered[i])>> : i \in 1..Len(Recovered)}, {})
    /\ pointers = [l \in LevelSet |-> {}] /\ seekFile = {}
    /\ allowed = [i \in 1..Len(Recovered) |-> AllowedSeeks]
    /\ disk = [i \in 1..Len(Recovered) |-> Recovered[i]]
    /\ nextFile = Len(Recovered) + 1 /\ outputs = {}
    /\ flush = 0 /\ job = <<>> /\ manual = FALSE
    /\ ranger = [stage |-> "idle"]
    /\ reads = [r \in Readers |-> <<>>] /\ calls = 0
    /\ torn = {} /\ gapped = {}

-----------------------------------------------------------------------------
(* Writing. The writer at the front of the queue inserts its batch without  *)
(* the mutex and publishes the sequence numbers with it.                    *)
Write(batch) ==
    /\ inserted = 0 /\ Cardinality(memtables[mem]) <= WriteBuffer
    /\ lastSequence + Len(batch) <= MaxWrites
    /\ memtables' = [memtables EXCEPT ![mem] = @ \cup
            {[key |-> batch[i].key, seq |-> lastSequence + i, del |-> batch[i].del] :
                i \in 1..Len(batch)}]
    /\ inserted' = Len(batch)
    /\ UNCHANGED <<imm, lastSequence, snapshots, storeVars, flush, job, manual,
                   ranger, reads, calls, histVars>>

SetLastSequence ==
    /\ inserted > 0
    /\ lastSequence' = lastSequence + inserted
    /\ inserted' = 0
    /\ UNCHANGED <<memtables, imm, snapshots, storeVars, flush, job, manual,
                   ranger, reads, calls, histVars>>

(* MakeRoomForWrite, the last branch; CompactRange forces it.               *)
SwitchMemTable ==
    /\ inserted = 0 /\ imm = 0 /\ Len(current[0]) < StopTrigger
    /\ \/ Cardinality(memtables[mem]) > WriteBuffer /\ UNCHANGED ranger
       \/ ranger.stage = "force" /\ ranger' = [ranger EXCEPT !.stage = "wait"]
    /\ memtables' = Append(memtables, {})
    /\ imm' = mem
    /\ UNCHANGED <<inserted, lastSequence, snapshots, storeVars, flush, job,
                   manual, reads, calls, histVars>>

-----------------------------------------------------------------------------
(* Installing a new version: LogAndApply, then DeleteObsoleteFiles where    *)
(* the code calls it. Live versions are the current one and those held by   *)
(* reads and by the compaction.                                             *)
(* Mutant: a read does not hold its version.                                *)
NothingHeld == {}

Held == {reads[r][1].version : r \in {q \in Readers : reads[q] # <<>>}}

AddLiveFiles(live) == UNION {NumbersOf(v) : v \in live}

Swept(files, keep) == [n \in DOMAIN files \cap keep |-> files[n]]

LogAndApply(added, deleted) ==
    /\ current' = BuilderApply(current, added, deleted)
    /\ seekFile' = {}
    /\ allowed' = [n \in {a[2].number : a \in added} |-> AllowedSeeks] @@ allowed

(* CompactMemTable: WriteLevel0Table begins under the mutex, builds the     *)
(* table without it, and the new version replaces imm_.                     *)
StartFlush ==
    /\ imm # 0 /\ flush = 0
    /\ job # <<>> => job[1].todo # <<>>
    /\ flush' = nextFile /\ nextFile' = nextFile + 1
    /\ outputs' = outputs \cup {nextFile}
    /\ UNCHANGED <<memtables, imm, inserted, lastSequence, snapshots, current,
                   pointers, seekFile, allowed, disk, job, manual, ranger,
                   reads, calls, histVars>>

FlushLevel(entries) ==
    PickLevelForMemTableOutput(current, First(entries).key, Final(entries).key)

FlushedInto(entries) ==
    IF entries = {} THEN {} ELSE {<<FlushLevel(entries), MetaOf(flush, entries)>>}

(* The keys of the range of a compaction that is cut by a flush to the      *)
(* level of its outputs.                                                    *)
CutBy(entries, files) ==
    IF Final(entries).key < SmallestKey(files).key \/ LargestKey(files).key < First(entries).key
    THEN {} ELSE SmallestKey(files).key..LargestKey(files).key

FinishFlush ==
    LET entries == memtables[imm]
        built   == IF entries = {} THEN disk ELSE (flush :> entries) @@ disk
        live    == Held \cup {current'} \cup {j.version : j \in ToSet(job)}
    IN  /\ flush # 0
        /\ LogAndApply(FlushedInto(entries), {})
        /\ outputs' = outputs \ {flush}
        /\ disk' = Swept(built, outputs' \cup AddLiveFiles(live))
        /\ imm' = 0 /\ flush' = 0
        /\ gapped' = gapped \cup UNION {CutBy(entries, j.c.inputs \cup j.c.parents) :
                        j \in {i \in ToSet(job) : entries # {} /\ i.c.level + 1 = FlushLevel(entries)}}
        /\ UNCHANGED <<memtables, inserted, lastSequence, snapshots, pointers,
                       nextFile, job, manual, ranger, reads, calls, torn>>

-----------------------------------------------------------------------------
(* Compaction.                                                              *)
NeedsCompaction == SizeCompaction(current) \/ seekFile # {}

SmallestSnapshot == IF snapshots = <<>> THEN lastSequence ELSE Head(snapshots)

EntriesOf(files) == UNION {disk[f.number] : f \in files}

(* The state of DoCompactionWork before its loop.                           *)
CompactionState(c, isManual) ==
    [c |-> c, isManual |-> isManual, version |-> current,
     smallest_snapshot |-> SmallestSnapshot,
     todo |-> Ordered(EntriesOf(c.inputs \cup c.parents)),
     grandparents |-> SetToSortSeq(c.grandparents, BySmallestKey),
     grandparent_index |-> 1, seen_key |-> FALSE, overlapped |-> 0,
     builder |-> 0, outputs |-> {}, last |-> <<>>]

TornKeys(c) ==
    IF c.parents = {} THEN {}
    ELSE {f.smallest.key :
            f \in FindSmallestBoundaryFile(ToSet(current[c.level + 1]), LargestKey(c.parents))}

StartMerge(c, isManual) ==
    /\ job' = <<CompactionState(c, isManual)>>
    /\ torn' = torn \cup TornKeys(c)
    /\ UNCHANGED <<current, seekFile, allowed>>

StartMove(c, f) ==
    /\ LogAndApply({<<c.level + 1, f>>}, {<<c.level, f.number>>})
    /\ UNCHANGED <<job, torn>>

(* BackgroundCompaction without a manual request.                           *)
StartCompaction ==
    /\ imm = 0 /\ flush = 0 /\ job = <<>> /\ ~manual /\ NeedsCompaction
    /\ \E c \in {PickCompaction(current, pointers, seekFile)} :
        /\ IF IsTrivialMove(c) THEN \E f \in c.inputs : StartMove(c, f)
           ELSE StartMerge(c, FALSE)
        /\ pointers' = [pointers EXCEPT ![c.level] = {c.pointer}]
    /\ UNCHANGED <<memtables, imm, inserted, lastSequence, snapshots, disk,
                   nextFile, outputs, flush, manual, ranger, reads, calls,
                   gapped>>

(* Mutant: a manual compaction that finds nothing to do is not done.        *)
StartManualNeverDone ==
    /\ imm = 0 /\ flush = 0 /\ job = <<>> /\ manual
    /\ LET picked == RangeInputs(current, ranger.level, ranger.begin, ranger.hi)
       IN  IF picked = {}
           THEN manual' = FALSE /\ UNCHANGED <<ranger, job, torn, pointers, current, seekFile, allowed>>
           ELSE /\ \E c \in {SetupOtherInputs(current, ranger.level, picked)} :
                    /\ StartMerge(c, TRUE)
                    /\ pointers' = [pointers EXCEPT ![c.level] = {c.pointer}]
                /\ UNCHANGED <<manual, ranger>>
    /\ UNCHANGED <<memtables, imm, inserted, lastSequence, snapshots, disk,
                   nextFile, outputs, flush, reads, calls, gapped>>

(* BackgroundCompaction with one: nothing is left of the range, or a part   *)
(* of it is merged.                                                         *)
StartManualCompaction ==
    /\ imm = 0 /\ flush = 0 /\ job = <<>> /\ manual
    /\ LET picked == RangeInputs(current, ranger.level, ranger.begin, ranger.hi)
       IN  IF picked = {}
           THEN /\ manual' = FALSE /\ ranger' = [ranger EXCEPT !.done = TRUE]
                /\ UNCHANGED <<job, torn, pointers, current, seekFile, allowed>>
           ELSE /\ \E c \in {SetupOtherInputs(current, ranger.level, picked)} :
                    /\ StartMerge(c, TRUE)
                    /\ pointers' = [pointers EXCEPT ![c.level] = {c.pointer}]
                /\ UNCHANGED <<manual, ranger>>
    /\ UNCHANGED <<memtables, imm, inserted, lastSequence, snapshots, disk,
                   nextFile, outputs, flush, reads, calls, gapped>>

(* ShouldStopBefore: the grandparents that end before the entry are passed, *)
(* and counted once a key has been seen.                                    *)
Passed(j, e) ==
    {i \in j.grandparent_index..Len(j.grandparents) : IKLess(j.grandparents[i].largest, e)}
Overlapped(j, e) ==
    j.overlapped + (IF j.seen_key THEN TotalFileSize({j.grandparents[i] : i \in Passed(j, e)})
                    ELSE 0)
ShouldStopBefore(j, e) == Overlapped(j, e) > GrandParentLimit

(* The rules by which an entry is dropped. last is the previous entry, the  *)
(* one of the same user key that decides rule (A).                          *)
Drop(j, e) ==
    \/ \E p \in ToSet(j.last) : p.key = e.key /\ p.seq <= j.smallest_snapshot
    \/ /\ e.del /\ e.seq <= j.smallest_snapshot
       /\ IsBaseLevelForKey(j.version, j.c.level, e.key)

(* One round of the loop of DoCompactionWork.                               *)
CompactEntry ==
    /\ job # <<>> /\ job[1].todo # <<>> /\ flush = 0
    /\ LET j == job[1]
           e == Head(j.todo)
           stop == ShouldStopBefore(j, e)
           open == IF stop THEN 0 ELSE j.builder
           number == IF open = 0 THEN nextFile ELSE open
           content == (IF open = 0 THEN {} ELSE disk[open]) \cup {e}
           stepped == [j EXCEPT !.todo = Tail(@), !.last = <<e>>, !.seen_key = TRUE,
                         !.overlapped = IF stop THEN 0 ELSE Overlapped(j, e),
                         !.grandparent_index = @ + Cardinality(Passed(j, e))]
       IN  IF Drop(j, e)
           THEN /\ job' = <<[stepped EXCEPT !.builder = open]>>
                /\ UNCHANGED <<disk, nextFile, outputs>>
           ELSE /\ job' = <<[stepped EXCEPT !.outputs = @ \cup {number},
                               !.builder = IF Cardinality(content) >= MaxFileSize
                                           THEN 0 ELSE number]>>
                /\ disk' = (number :> content) @@ disk
                /\ nextFile' = IF open = 0 THEN nextFile + 1 ELSE nextFile
                /\ outputs' = outputs \cup {number}
    /\ UNCHANGED <<memtables, imm, inserted, lastSequence, snapshots, current,
                   pointers, seekFile, allowed, flush, manual, ranger, reads,
                   calls, histVars>>

(* After the loop: InstallCompactionResults, CleanupCompaction,             *)
(* ReleaseInputs, DeleteObsoleteFiles, and the rest of a manual range.      *)
InputDeletions(c) ==
    {<<c.level, f.number>> : f \in c.inputs} \cup {<<c.level + 1, f.number>> : f \in c.parents}

LastInput(c) == CHOOSE f \in c.inputs : \A g \in c.inputs \ {f} : BySmallestKey(g, f)

FinishCompaction ==
    /\ job # <<>> /\ job[1].todo = <<>> /\ flush = 0
    /\ LET j == job[1]
           new == {<<j.c.level + 1, MetaOf(n, disk[n])>> : n \in j.outputs}
       IN  /\ LogAndApply(new, InputDeletions(j.c))
           /\ outputs' = outputs \ j.outputs
           /\ disk' = Swept(disk, outputs' \cup AddLiveFiles(Held \cup {current'}))
           /\ IF j.isManual
              THEN /\ manual' = FALSE
                   /\ ranger' = [ranger EXCEPT !.begin = LastInput(j.c).largest.key]
              ELSE UNCHANGED <<manual, ranger>>
    /\ job' = <<>>
    /\ UNCHANGED <<memtables, imm, inserted, lastSequence, snapshots, pointers,
                   nextFile, flush, reads, calls, histVars>>

-----------------------------------------------------------------------------
(* CompactRange: the memtable is flushed, then every level that had tables  *)
(* in the range is compacted, part by part.                                 *)
CompactRange(lo, hi) ==
    /\ ranger.stage = "idle" /\ calls < MaxCalls
    /\ calls' = calls + 1
    /\ ranger' = [stage |-> "force", lo |-> lo, hi |-> hi, level |-> 0,
                  max |-> Max({1} \cup {l \in LevelSet \ {0} :
                                          SomeFileOverlapsRange(current, l, lo, hi)}),
                  begin |-> lo, done |-> FALSE]
    /\ UNCHANGED <<memtables, imm, inserted, lastSequence, snapshots, storeVars,
                   flush, job, manual, reads, histVars>>

(* TEST_CompactMemTable has waited for the flush.                           *)
MemTableFlushed ==
    /\ ranger.stage = "wait" /\ imm = 0
    /\ ranger' = [ranger EXCEPT !.stage = "range"]
    /\ UNCHANGED <<memtables, imm, inserted, lastSequence, snapshots, storeVars,
                   flush, job, manual, reads, calls, histVars>>

(* The loop of TEST_CompactRange, which asks again until its range is done, *)
(* and the one of CompactRange over the levels.                             *)
RequestManual ==
    /\ ranger.stage = "range" /\ ~ranger.done /\ ~manual
    /\ manual' = TRUE
    /\ UNCHANGED <<memtables, imm, inserted, lastSequence, snapshots, storeVars,
                   flush, job, ranger, reads, calls, histVars>>

NextLevel ==
    /\ ranger.stage = "range" /\ ranger.done
    /\ ranger' = IF ranger.level + 1 < ranger.max
                 THEN [ranger EXCEPT !.level = @ + 1, !.begin = ranger.lo, !.done = FALSE]
                 ELSE [stage |-> "idle"]
    /\ UNCHANGED <<memtables, imm, inserted, lastSequence, snapshots, storeVars,
                   flush, job, manual, reads, calls, histVars>>

-----------------------------------------------------------------------------
(* Snapshots and reads.                                                     *)
GetSnapshot ==
    /\ Len(snapshots) < MaxSnapshots
    /\ snapshots' = Append(snapshots, lastSequence)
    /\ UNCHANGED <<memtables, imm, inserted, lastSequence, storeVars, flush, job,
                   manual, ranger, reads, calls, histVars>>

ReleaseSnapshot(i) ==
    /\ snapshots' = RemoveAt(snapshots, i)
    /\ UNCHANGED <<memtables, imm, inserted, lastSequence, storeVars, flush, job,
                   manual, ranger, reads, calls, histVars>>

(* Get: the snapshot, the memtables and the version are taken under the     *)
(* mutex, the rest is done without it.                                      *)
BeginGet(r, key, snapshot) ==
    /\ reads[r] = <<>> /\ calls < MaxCalls
    /\ reads' = [reads EXCEPT ![r] = <<[ikey |-> LookupKey(key, snapshot), mem |-> mem,
                                        imm |-> imm, version |-> current]>>]
    /\ calls' = calls + 1
    /\ UNCHANGED <<memtables, imm, inserted, lastSequence, snapshots, storeVars,
                   flush, job, manual, ranger, histVars>>

Lookup(ikey, m, i, v) ==
    LET inMem == Seek(memtables[m], ikey)
        inImm == IF i = 0 THEN {} ELSE Seek(memtables[i], ikey)
    IN  IF inMem # {} THEN [found |-> inMem, reads |-> 0]
        ELSE IF inImm # {} THEN [found |-> inImm, reads |-> 0]
        ELSE VersionGet(v, disk, ikey)

(* UpdateStats on the version the read was begun with: only if that is      *)
(* still the current one does the choice of a compaction see it.            *)
UpdateStats(v, seek) ==
    \/ seek = {} /\ UNCHANGED <<allowed, seekFile>>
    \/ \E s \in seek :
        /\ allowed' = [allowed EXCEPT ![s[2].number] = @ - 1]
        /\ seekFile' = IF v = current /\ seekFile = {} /\ allowed'[s[2].number] <= 0
                       THEN {s} ELSE seekFile

EndGet(r) ==
    /\ reads[r] # <<>>
    /\ LET g == reads[r][1]
           n == Lookup(g.ikey, g.mem, g.imm, g.version).reads
       IN  UpdateStats(g.version, SeekFile(g.version, g.ikey, n))
    /\ reads' = [reads EXCEPT ![r] = <<>>]
    /\ UNCHANGED <<memtables, imm, inserted, lastSequence, snapshots, current,
                   pointers, disk, nextFile, outputs, flush, job, manual, ranger,
                   calls, histVars>>

(* RecordReadSample, which an iterator calls for an entry it passes.        *)
RecordReadSample(e) ==
    /\ calls < MaxCalls
    /\ SampleFile(current, e) # {}
    /\ UpdateStats(current, SampleFile(current, e))
    /\ calls' = calls + 1
    /\ UNCHANGED <<memtables, imm, inserted, lastSequence, snapshots, current,
                   pointers, disk, nextFile, outputs, flush, job, manual, ranger,
                   reads, histVars>>

-----------------------------------------------------------------------------
Background == \/ StartFlush \/ FinishFlush \/ StartCompaction
              \/ StartManualCompaction \/ CompactEntry \/ FinishCompaction

Visible == {lastSequence} \cup ToSet(snapshots)

Next ==
    \/ \E b \in Batches : Write(b)
    \/ SetLastSequence
    \/ SwitchMemTable
    \/ Background
    \/ \E range \in Ranges : CompactRange(range[1], range[2])
    \/ MemTableFlushed \/ RequestManual \/ NextLevel
    \/ GetSnapshot
    \/ \E i \in 1..Len(snapshots) : ReleaseSnapshot(i)
    \/ \E r \in Readers, k \in Keys, s \in Visible : BeginGet(r, k, s)
    \/ \E r \in Readers : EndGet(r)
    \/ \E e \in Written : e.seq <= lastSequence /\ RecordReadSample(e)

Spec == Init /\ [][Next]_vars

(* The background thread has something to do.                               *)
BackgroundReady == imm # 0 \/ flush # 0 \/ job # <<>> \/ manual \/ NeedsCompaction

-----------------------------------------------------------------------------
(* What a read at a snapshot should see: the newest write at or below it.   *)
Value(found) == {e \in found : ~e.del}
Expected(key, snapshot) ==
    Value(Seek(Written, LookupKey(key, snapshot)))
Damaged == torn \cup gapped

(* Types, with the parts of the state that must exist together: a job's     *)
(* outputs are on disk and pending, a flush has its memtable.               *)
TypeOK ==
    /\ memtables \in Seq(SUBSET Entry) /\ imm \in 0..(mem - 1)
    /\ inserted \in Nat /\ lastSequence \in Nat
    /\ snapshots \in Seq(Nat)
    /\ \A l \in LevelSet : current[l] \in Seq(FileMetaData)
    /\ \A n \in DOMAIN disk : n < nextFile /\ disk[n] \subseteq Entry
    /\ flush # 0 => imm # 0 /\ flush \in outputs
    /\ \A j \in ToSet(job) : j.outputs \subseteq outputs

(* A read at the newest state or at any snapshot returns the newest write   *)
(* it may see, wherever flushes, moves and merges have put it; except for   *)
(* keys that a compaction tore or that were flushed into its gap            *)
(* (DBImpl::Get, DoCompactionWork, SetupOtherInputs).                       *)
ReadsAgree ==
    \A k \in Keys \ Damaged, s \in Visible :
        Value(Lookup(LookupKey(k, s), mem, imm, current).found) = Expected(k, s)

(* A read in progress still returns what it should have returned when it    *)
(* was begun, from the version and memtables it holds (DBImpl::Get unlocks  *)
(* the mutex; DeleteObsoleteFiles, CompactMemTable).                        *)
HeldReadsAgree ==
    \A r \in Readers : \A g \in ToSet(reads[r]) : g.ikey.key \notin Damaged =>
        Value(Lookup(g.ikey, g.mem, g.imm, g.version).found) = Expected(g.ikey.key, g.ikey.seq)

(* No table that a version in use names, or that is being written, is       *)
(* deleted (DeleteObsoleteFiles, pending_outputs_).                         *)
LiveTablesOnDisk ==
    /\ NumbersOf(current) \subseteq DOMAIN disk
    /\ \A r \in Readers : \A g \in ToSet(reads[r]) : NumbersOf(g.version) \subseteq DOMAIN disk
    /\ \A j \in ToSet(job) : NumbersOf(j.version) \cup j.outputs \subseteq DOMAIN disk

(* Above level 0 tables do not overlap, as MaybeAddFile and SaveTo assert,  *)
(* unless a flush went into the gap of a manual compaction.                 *)
DisjointUnlessGapped == gapped = {} => Disjoint(current)

(* The assertion itself.                                                    *)
LevelsDisjoint == Disjoint(current)

(* "this deletion marker is obsolete and can be dropped": a key that was    *)
(* deleted does not come back (DoCompactionWork, rule for deletions).       *)
DeletedStaysDeleted ==
    \A k \in Keys \ gapped :
        Expected(k, lastSequence) = {} =>
            Value(Lookup(LookupKey(k, lastSequence), mem, imm, current).found) = {}

(* No background work is left to do (MaybeScheduleCompaction).              *)
Quiet == imm = 0 /\ flush = 0 /\ job = <<>> /\ ~NeedsCompaction

=============================================================================
