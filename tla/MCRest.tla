------------------------------- MODULE MCRest -------------------------------
(* LevelDB comes to rest, for TLC: background work of a store, calls into it, *)
(* a cursor, a search of the skip list, the background thread of the process *)
(* and a repair. A behaviour is about one of them, part; the background    *)
(* thread of the others does not start, and their variables stay Idle, so  *)
(* that the state spaces add up.                                           *)
EXTENDS BackgroundQueue, SequencesExt

CONSTANTS th1, th2, th3

VARIABLES
    part,   \* what a behaviour is about
    memtables, imm, inserted, lastSequence, snapshots, current, pointers,
    seekFile, allowed, disk, nextFile, outputs, flush, job, manual, ranger,
    reads, calls, torn, gapped, pc, call, writers, signalled, done, ok, force,
    delay, group, mem, level0, bgScheduled, bg, left, rangeDone, bgError,
    closing, dangling, log, synced, fresh, answered, before, failures, tables,
    sequence, pos, mdir, half, dir, valid, savedKey, savedValue, skipping,
    valueType, failed, ref, next, height, maxHeight, writer, reader, logs,
    lost, replaced, desc, logs_, table_numbers_,
    tables_, next_file_number_, crashes, fails, written, findable, sound

Recent(k, n) == [key |-> k, seq |-> n, del |-> FALSE]

(* Two tables with a gap between them, into which the middle key fits.      *)
TablesWithGap == <<{Recent(1, 1)}, {Recent(3, 2)}>>
PutMiddle == {<<[key |-> 2, del |-> FALSE]>>}
WholeRange == {<<0, 4>>}

Store == INSTANCE LevelStore WITH
    NumKeys <- 3, NumLevels <- 4, MaxMemCompactLevel <- 1,
    CompactionTrigger <- 1, LevelOneBytes <- 1, GrandParentLimit <- 1,
    ExpansionLimit <- 4, MaxFileSize <- 1, Recovered <- TablesWithGap,
    Batches <- PutMiddle, WriteBuffer <- 0, StopTrigger <- 3,
    AllowedSeeks <- 1, Readers <- {th1}, Ranges <- WholeRange, MaxWrites <- 3,
    MaxSnapshots <- 0, MaxCalls <- 2
Calls == INSTANCE WriteQueue WITH
    Threads <- {th1, th2}, Kinds <- {"sync", "compact"}, Sizes <- {1},
    WriteBuffer <- 1, SmallBatch <- 1, MaxBatch <- 3, Trigger <- 1,
    Slowdown <- 1, Stop <- 1, Parts <- 1, MaxCalls <- 2, MaxFailures <- 1,
    queue <- writers, scheduled <- bgScheduled
Writes == INSTANCE WriteQueue WITH
    Threads <- {th1, th2}, Kinds <- {"sync"}, Sizes <- {1}, WriteBuffer <- 1,
    SmallBatch <- 1, MaxBatch <- 3, Trigger <- 1, Slowdown <- 1, Stop <- 2,
    Parts <- 1, MaxCalls <- 5, MaxFailures <- 2, queue <- writers,
    scheduled <- bgScheduled
Walk == INSTANCE Cursor WITH
    Keys <- {1, 2}, Stored <- 2, MaxInserts <- 1, BadBlocks <- {FALSE}
List == INSTANCE SkipList WITH
    MaxKey <- 3, MaxHeight <- 2, Readers <- {th1}
Fix == INSTANCE Repair WITH
    NumKeys <- 1, MaxWrites <- 1, MaxCrashes <- 1, MaxFails <- 1,
    DamagedTables <- TRUE, ChangedRecords <- FALSE, NumLevels <- 3,
    MaxMemCompactLevel <- 1, CompactionTrigger <- 4, LevelOneBytes <- 10,
    GrandParentLimit <- 10, ExpansionLimit <- 10, MaxFileSize <- 2

ASSUME /\ Store!LevelConstants
       /\ Store!StoreConstants
       /\ Calls!QueueConstants
       /\ Writes!QueueConstants
       /\ Walk!CursorConstants
       /\ List!SkipListConstants
       /\ QueueBound
       /\ Fix!LevelConstants
       /\ Fix!RepairConstants

-----------------------------------------------------------------------------
(* The variables by the modules that have them, and their value where a     *)
(* behaviour is not about one of these.                                     *)
Idle == <<>>

levelStoreVars == <<memtables, inserted, lastSequence, snapshots, pointers,
                   seekFile, allowed, disk, nextFile, outputs, flush, ranger,
                   reads, torn, gapped>>
LevelStoreIdle ==
    /\ memtables = Idle /\ inserted = Idle /\ lastSequence = Idle
    /\ snapshots = Idle /\ pointers = Idle /\ seekFile = Idle
    /\ allowed = Idle /\ disk = Idle /\ nextFile = Idle /\ outputs = Idle
    /\ flush = Idle /\ ranger = Idle /\ reads = Idle /\ torn = Idle
    /\ gapped = Idle

(* LevelStore, WriteQueue                                                   *)
shared1Vars == <<imm, manual, calls>>
Shared1Idle ==
    /\ imm = Idle /\ manual = Idle /\ calls = Idle

(* LevelStore, Cursor                                                       *)
shared2Vars == <<current>>
Shared2Idle ==
    /\ current = Idle

(* LevelStore, Repair                                                       *)
shared3Vars == <<job>>
Shared3Idle ==
    /\ job = Idle

(* WriteQueue, Cursor, Repair                                               *)
shared4Vars == <<pc>>
Shared4Idle ==
    /\ pc = Idle

writeQueueVars == <<call, writers, signalled, ok, force, delay, group, level0,
                    bgScheduled, bg, left, rangeDone, bgError, closing,
                    dangling, synced, fresh, answered, before, failures>>
WriteQueueIdle ==
    /\ call = Idle /\ writers = Idle /\ signalled = Idle /\ ok = Idle
    /\ force = Idle /\ delay = Idle /\ group = Idle /\ level0 = Idle
    /\ bgScheduled = Idle /\ bg = Idle
    /\ left = Idle /\ rangeDone = Idle /\ bgError = Idle /\ closing = Idle
    /\ dangling = Idle /\ synced = Idle /\ fresh = Idle /\ answered = Idle
    /\ before = Idle /\ failures = Idle

(* WriteQueue, SkipList                                                     *)
shared5Vars == <<done>>
Shared5Idle ==
    /\ done = Idle

(* WriteQueue, Cursor                                                       *)
shared6Vars == <<mem, log>>
Shared6Idle ==
    /\ mem = Idle /\ log = Idle

(* Cursor, Repair                                                           *)
shared7Vars == <<tables>>
Shared7Idle ==
    /\ tables = Idle

cursorVars == <<sequence, pos, mdir, half, dir, valid, savedKey, savedValue,
               skipping, valueType, failed, ref>>
CursorIdle ==
    /\ sequence = Idle /\ pos = Idle /\ mdir = Idle /\ half = Idle
    /\ dir = Idle /\ valid = Idle /\ savedKey = Idle /\ savedValue = Idle
    /\ skipping = Idle /\ valueType = Idle /\ failed = Idle /\ ref = Idle

skipListVars == <<next, height, maxHeight, writer, reader>>
SkipListIdle ==
    /\ next = Idle /\ height = Idle /\ maxHeight = Idle /\ writer = Idle
    /\ reader = Idle

repairVars == <<logs, lost, replaced, desc, logs_, table_numbers_, tables_,
               next_file_number_, crashes, fails, written, findable, sound>>
RepairIdle ==
    /\ logs = Idle /\ lost = Idle /\ replaced = Idle /\ desc = Idle /\ logs_ = Idle
    /\ table_numbers_ = Idle /\ tables_ = Idle /\ next_file_number_ = Idle
    /\ crashes = Idle /\ fails = Idle /\ written = Idle /\ findable = Idle
    /\ sound = Idle

MCInit ==
    /\ Init
    /\ \/ part = "store" /\ Store!Init
          /\ Shared4Idle /\ WriteQueueIdle /\ Shared5Idle /\ Shared6Idle
          /\ Shared7Idle /\ CursorIdle /\ SkipListIdle /\ RepairIdle
       \/ part = "calls" /\ Calls!Init
          /\ LevelStoreIdle /\ Shared2Idle /\ Shared3Idle /\ Shared7Idle
          /\ CursorIdle /\ SkipListIdle /\ RepairIdle
       \/ part = "writes" /\ Writes!Init
          /\ LevelStoreIdle /\ Shared2Idle /\ Shared3Idle /\ Shared7Idle
          /\ CursorIdle /\ SkipListIdle /\ RepairIdle
       \/ part = "walk" /\ Walk!Init
          /\ LevelStoreIdle /\ Shared1Idle /\ Shared3Idle /\ WriteQueueIdle
          /\ Shared5Idle /\ SkipListIdle /\ RepairIdle
       \/ part = "search" /\ List!Init
          /\ LevelStoreIdle /\ Shared1Idle /\ Shared2Idle /\ Shared3Idle
          /\ Shared4Idle /\ WriteQueueIdle /\ Shared6Idle /\ Shared7Idle
          /\ CursorIdle /\ RepairIdle
       \/ part = "background"
          /\ LevelStoreIdle /\ Shared1Idle /\ Shared2Idle /\ Shared3Idle
          /\ Shared4Idle /\ WriteQueueIdle /\ Shared5Idle /\ Shared6Idle
          /\ Shared7Idle /\ CursorIdle /\ SkipListIdle /\ RepairIdle
       \/ part = "repair" /\ Fix!Init
          /\ LevelStoreIdle /\ Shared1Idle /\ Shared2Idle /\ WriteQueueIdle
          /\ Shared5Idle /\ Shared6Idle /\ CursorIdle /\ SkipListIdle

MCNext ==
    /\ UNCHANGED part
    /\ \/ /\ part = "store" /\ Store!Next
          /\ UNCHANGED <<shared4Vars, writeQueueVars, shared5Vars,
                         shared6Vars, shared7Vars, cursorVars, skipListVars,
                         vars, repairVars>>
       \/ /\ part = "calls" /\ Calls!Next
          /\ UNCHANGED <<levelStoreVars, shared2Vars, shared3Vars,
                         shared7Vars, cursorVars, skipListVars, vars,
                         repairVars>>
       \/ /\ part = "writes" /\ Writes!Next
          /\ UNCHANGED <<levelStoreVars, shared2Vars, shared3Vars,
                         shared7Vars, cursorVars, skipListVars, vars,
                         repairVars>>
       \/ /\ part = "walk" /\ Walk!Next
          /\ UNCHANGED <<levelStoreVars, shared1Vars, shared3Vars,
                         writeQueueVars, shared5Vars, skipListVars, vars,
                         repairVars>>
       \/ /\ part = "search" /\ List!Next
          /\ UNCHANGED <<levelStoreVars, shared1Vars, shared2Vars,
                         shared3Vars, shared4Vars, writeQueueVars,
                         shared6Vars, shared7Vars, cursorVars, vars,
                         repairVars>>
       \/ /\ part = "background" /\ Next
          /\ UNCHANGED <<levelStoreVars, shared1Vars, shared2Vars,
                         shared3Vars, shared4Vars, writeQueueVars,
                         shared5Vars, shared6Vars, shared7Vars, cursorVars,
                         skipListVars, repairVars>>
       \/ /\ part = "repair" /\ Fix!Next
          /\ UNCHANGED <<levelStoreVars, shared1Vars, shared2Vars,
                         writeQueueVars, shared5Vars, shared6Vars, cursorVars,
                         skipListVars, vars>>

allVars == <<part, vars, levelStoreVars, shared1Vars, shared2Vars,
             shared3Vars, shared4Vars, writeQueueVars, shared5Vars,
             shared6Vars, shared7Vars, cursorVars, skipListVars, repairVars>>

MCSpec == MCInit /\ [][MCNext]_allVars

-----------------------------------------------------------------------------
(* Threads that can go on do: the background thread while it has work, and  *)
(* each thread inside a call, a search or a repair that is run again after  *)
(* an error. Nobody has to call anything. As a behaviour is about one part, *)
(* one condition can speak for a thread of each of them.                    *)
InStore(step) ==
    /\ part = "store" /\ step
    /\ UNCHANGED <<part, shared4Vars, writeQueueVars, shared5Vars,
                   shared6Vars, shared7Vars, cursorVars, skipListVars, vars,
                   repairVars>>
InCalls(step) ==
    /\ part = "calls" /\ step
    /\ UNCHANGED <<part, levelStoreVars, shared2Vars, shared3Vars,
                   shared7Vars, cursorVars, skipListVars, vars, repairVars>>
InWrites(step) ==
    /\ part = "writes" /\ step
    /\ UNCHANGED <<part, levelStoreVars, shared2Vars, shared3Vars,
                   shared7Vars, cursorVars, skipListVars, vars, repairVars>>
InWalk(step) ==
    /\ part = "walk" /\ step
    /\ UNCHANGED <<part, levelStoreVars, shared1Vars, shared3Vars,
                   writeQueueVars, shared5Vars, skipListVars, vars,
                   repairVars>>
InSearch(step) ==
    /\ part = "search" /\ step
    /\ UNCHANGED <<part, levelStoreVars, shared1Vars, shared2Vars,
                   shared3Vars, shared4Vars, writeQueueVars, shared6Vars,
                   shared7Vars, cursorVars, vars, repairVars>>
InBackground(step) ==
    /\ part = "background" /\ step
    /\ UNCHANGED <<part, levelStoreVars, shared1Vars, shared2Vars,
                   shared3Vars, shared4Vars, writeQueueVars, shared5Vars,
                   shared6Vars, shared7Vars, cursorVars, skipListVars,
                   repairVars>>
InRepair(step) ==
    /\ part = "repair" /\ step
    /\ UNCHANGED <<part, levelStoreVars, shared1Vars, shared2Vars,
                   writeQueueVars, shared5Vars, shared6Vars, cursorVars,
                   skipListVars, vars>>

FairSpec ==
    /\ MCSpec
    /\ \/ []<>~(part = "store" /\ Store!BackgroundReady)
       \/ []<><<InStore(Store!Background)>>_allVars
    /\ WF_allVars(\/ InStore(Store!SetLastSequence)
               \/ InCalls(Calls!Caller(th1)) \/ InWrites(Writes!Caller(th1))
               \/ InWalk(Walk!Work) \/ InSearch(List!SearchStep(th1))
               \/ InBackground(ThreadStep) \/ InRepair(Fix!Next))
    /\ WF_allVars(\/ InStore(Store!SwitchMemTable)
               \/ InCalls(Calls!Caller(th2)) \/ InWrites(Writes!Caller(th2)))
    /\ WF_allVars(\/ InStore(Store!MemTableFlushed \/ Store!RequestManual \/ Store!NextLevel)
               \/ InCalls(Calls!Background) \/ InWrites(Writes!Background))
    /\ WF_allVars(InCalls(Calls!CloseWakes) \/ InWrites(Writes!CloseWakes))

-----------------------------------------------------------------------------
(* Flushes, merges and manual compactions come to an end once nobody writes *)
(* or reads any more (MaybeScheduleCompaction), and a repair that is run    *)
(* again after every error ends with a store that opens (RepairDB).         *)
Settles ==
    /\ <>[](part = "store" => Store!Quiet /\ ranger.stage = "idle")
    /\ []<>(part = "repair" => pc = "open")

(* Every Write and CompactRange returns, whatever fails and whoever is woken *)
(* first; the destructor of DBImpl ends, though work may schedule more work; *)
(* and whatever is scheduled is run: no signal is lost (MakeRoomForWrite,    *)
(* RecordBackgroundError, BackgroundCall, PosixEnv::Schedule).               *)
CallsReturn ==
    /\ \A t \in {th1, th2} :
          []<>(part \in {"calls", "writes"} => pc[t] = "idle" \/ dangling)
    /\ []<>(part \in {"calls", "writes"} => closing # "waits")
    /\ \A d \in {th1, th2, th3} :
          []<>(part = "background" /\ count[d] = 2 => Contains(ran, <<d, 2>>))

(* Every search of the skip list and every call on an iterator ends, though *)
(* nodes are linked before it (FindGreaterOrEqual, DBIter).                 *)
SearchesEnd ==
    /\ []<>(part = "search" => reader[th1].level = 0)
    /\ []<>(part = "walk" => pc = "idle")
=============================================================================
