------------------------------ MODULE MCStore ------------------------------
(* LevelDB's files for TLC: the tables of a running store on three small   *)
(* settings, the repair of what one leaves, opening with reuse_logs, and   *)
(* how many of the tables are mapped or kept open. A behaviour is about    *)
(* one of them, part; in the others no table is opened, and their variables *)
(* stay Idle, so that the state spaces add up.                             *)
EXTENDS ReadableFiles

CONSTANTS r1, th1, th2, th3

VARIABLES
    part,   \* what a behaviour is about
    memtables, imm, inserted, lastSequence, snapshots, current, pointers,
    seekFile, seeks, disk, nextFile, outputs, flush, job, manual, ranger,
    reads, calls, torn, gapped, tables, logs, lost, replaced, desc, at, logs_,
    table_numbers_, tables_, next_file_number_, crashes, fails, written,
    findable, sound, manifests, pointer, stage, mem, logfile, versions, edit,
    doomed, bgError, ids, failures, exits, promised

PutKey(k) == [key |-> k, del |-> FALSE]
DeleteKey(k) == [key |-> k, del |-> TRUE]
Recent(k, n) == [key |-> k, seq |-> n, del |-> FALSE]

(* Puts and deletions of single keys, and one batch of both keys.           *)
TwoKeys == {<<PutKey(1)>>, <<DeleteKey(1)>>, <<PutKey(2)>>, <<PutKey(1), PutKey(2)>>}

(* One table with two keys; then the first is written, the second deleted.  *)
OneTable == <<{Recent(1, 1), Recent(2, 2)}>>
PutFirstDeleteSecond == {<<PutKey(1)>>, <<DeleteKey(2)>>}

(* Two tables with a gap between them, into which the middle key fits.      *)
TablesWithGap == <<{Recent(1, 1)}, {Recent(3, 2)}>>
PutMiddle == {<<PutKey(2)>>}
WholeRange == {<<0, 4>>}

Mixed == INSTANCE LevelStore WITH
    NumKeys <- 2, NumLevels <- 4, MaxMemCompactLevel <- 1,
    CompactionTrigger <- 1, LevelOneBytes <- 1, GrandParentLimit <- 1,
    ExpansionLimit <- 4, MaxFileSize <- 2, Recovered <- OneTable,
    Batches <- TwoKeys, WriteBuffer <- 0, StopTrigger <- 3, AllowedSeeks <- 1,
    Readers <- {}, Ranges <- {}, MaxWrites <- 5, MaxSnapshots <- 1,
    MaxCalls <- 0, allowed <- seeks
Kept == INSTANCE LevelStore WITH
    NumKeys <- 2, NumLevels <- 4, MaxMemCompactLevel <- 1,
    CompactionTrigger <- 1, LevelOneBytes <- 1, GrandParentLimit <- 1,
    ExpansionLimit <- 4, MaxFileSize <- 1, Recovered <- OneTable,
    Batches <- PutFirstDeleteSecond, WriteBuffer <- 0, StopTrigger <- 3,
    AllowedSeeks <- 1, Readers <- {r1}, Ranges <- {}, MaxWrites <- 4,
    MaxSnapshots <- 0, MaxCalls <- 2, allowed <- seeks
Whole == INSTANCE LevelStore WITH
    NumKeys <- 3, NumLevels <- 4, MaxMemCompactLevel <- 2,
    CompactionTrigger <- 2, LevelOneBytes <- 2, GrandParentLimit <- 2,
    ExpansionLimit <- 5, MaxFileSize <- 2, Recovered <- TablesWithGap,
    Batches <- PutMiddle, WriteBuffer <- 0, StopTrigger <- 3,
    AllowedSeeks <- 1, Readers <- {}, Ranges <- WholeRange, MaxWrites <- 4,
    MaxSnapshots <- 1, MaxCalls <- 1, allowed <- seeks
Fix == INSTANCE Repair WITH
    NumKeys <- 1, MaxWrites <- 3, MaxCrashes <- 1, MaxFails <- 1,
    DamagedTables <- TRUE, ChangedRecords <- FALSE, NumLevels <- 3,
    MaxMemCompactLevel <- 1, CompactionTrigger <- 4, LevelOneBytes <- 10,
    GrandParentLimit <- 10, ExpansionLimit <- 10, MaxFileSize <- 2,
    pc <- at
Reuse == INSTANCE Recovery WITH
    WriteBuffer <- 1, ManifestLimit <- 3, MaxWrites <- 3,
    ReuseLogs <- BOOLEAN, MaxFailures <- 1, MaxExits <- 2, MaxCrashes <- 0,
    MaxFile <- 6

ASSUME /\ LimiterConstants
       /\ Mixed!LevelConstants
       /\ Mixed!StoreConstants
       /\ Kept!LevelConstants
       /\ Kept!StoreConstants
       /\ Whole!LevelConstants
       /\ Whole!StoreConstants
       /\ Fix!LevelConstants
       /\ Fix!RepairConstants
       /\ Reuse!RecoveryConstants

-----------------------------------------------------------------------------
(* The variables by the modules that have them, and their value where a     *)
(* behaviour is not about one of these.                                     *)
Idle == <<>>

levelStoreVars == <<memtables, inserted, lastSequence, snapshots, current,
                   pointers, seekFile, seeks, disk, nextFile, outputs,
                   flush, manual, ranger, reads, calls, torn, gapped>>
LevelStoreIdle ==
    /\ memtables = Idle /\ inserted = Idle /\ lastSequence = Idle
    /\ snapshots = Idle /\ current = Idle /\ pointers = Idle
    /\ seekFile = Idle /\ seeks = Idle /\ disk = Idle /\ nextFile = Idle
    /\ outputs = Idle /\ flush = Idle /\ manual = Idle /\ ranger = Idle
    /\ reads = Idle /\ calls = Idle /\ torn = Idle /\ gapped = Idle

(* LevelStore, Recovery                                                     *)
shared1Vars == <<imm>>
Shared1Idle ==
    /\ imm = Idle

(* LevelStore, Repair, Recovery                                             *)
shared2Vars == <<job>>
Shared2Idle ==
    /\ job = Idle

(* Repair, Recovery                                                         *)
shared3Vars == <<tables, logs, crashes>>
Shared3Idle ==
    /\ tables = Idle /\ logs = Idle /\ crashes = Idle

repairVars == <<lost, replaced, desc, at, logs_, table_numbers_, tables_,
               next_file_number_, fails, written, findable, sound>>
RepairIdle ==
    /\ lost = Idle /\ replaced = Idle /\ desc = Idle /\ at = Idle /\ logs_ = Idle
    /\ table_numbers_ = Idle /\ tables_ = Idle /\ next_file_number_ = Idle
    /\ fails = Idle /\ written = Idle /\ findable = Idle /\ sound = Idle

recoveryVars == <<manifests, pointer, stage, mem, logfile, versions, edit,
                 doomed, bgError, ids, failures, exits, promised>>
RecoveryIdle ==
    /\ manifests = Idle /\ pointer = Idle /\ stage = Idle /\ mem = Idle
    /\ logfile = Idle /\ versions = Idle /\ edit = Idle /\ doomed = Idle
    /\ bgError = Idle /\ ids = Idle /\ failures = Idle /\ exits = Idle
    /\ promised = Idle

MCInit ==
    /\ Init
    /\ \/ part = "mixed" /\ Mixed!Init
          /\ Shared3Idle /\ RepairIdle /\ RecoveryIdle
       \/ part = "kept" /\ Kept!Init
          /\ Shared3Idle /\ RepairIdle /\ RecoveryIdle
       \/ part = "ranges" /\ Whole!Init
          /\ Shared3Idle /\ RepairIdle /\ RecoveryIdle
       \/ part = "repair" /\ Fix!Init
          /\ LevelStoreIdle /\ Shared1Idle /\ RecoveryIdle
       \/ part = "reuse" /\ Reuse!Init
          /\ LevelStoreIdle /\ RepairIdle
       \/ part = "files"
          /\ LevelStoreIdle /\ Shared1Idle /\ Shared2Idle /\ Shared3Idle
          /\ RepairIdle /\ RecoveryIdle

MCNext ==
    /\ UNCHANGED part
    /\ \/ /\ part = "mixed" /\ Mixed!Next
          /\ UNCHANGED <<vars, shared3Vars, repairVars, recoveryVars>>
       \/ /\ part = "kept" /\ Kept!Next
          /\ UNCHANGED <<vars, shared3Vars, repairVars, recoveryVars>>
       \/ /\ part = "ranges" /\ Whole!Next
          /\ UNCHANGED <<vars, shared3Vars, repairVars, recoveryVars>>
       \/ /\ part = "repair" /\ Fix!Next
          /\ UNCHANGED <<vars, levelStoreVars, shared1Vars, recoveryVars>>
       \/ /\ part = "reuse" /\ Reuse!Next
          /\ UNCHANGED <<vars, levelStoreVars, repairVars>>
       \/ /\ part = "files" /\ Next
          /\ UNCHANGED <<levelStoreVars, shared1Vars, shared2Vars,
                         shared3Vars, repairVars, recoveryVars>>

allVars == <<part, vars, levelStoreVars, shared1Vars, shared2Vars,
             shared3Vars, repairVars, recoveryVars>>

MCSpec == MCInit /\ [][MCNext]_allVars

-----------------------------------------------------------------------------
(* What a read sees is the newest write it may see: at the newest state and *)
(* at a snapshot, through flushes, moves, merges and manual compactions;    *)
(* and for a Get that began before a flush or a merge and goes on without   *)
(* the mutex, what was there when it began. Keys that a merge has torn      *)
(* apart, or that lie in its gap, are excepted (DBImpl::Get).               *)
ReadsAgree ==
    /\ part = "mixed" => Mixed!ReadsAgree
    /\ part = "ranges" => Whole!ReadsAgree
    /\ part = "kept" => Kept!HeldReadsAgree

(* DeleteObsoleteFiles takes no table that a version in use still names,    *)
(* outputs of a merge are on disk and pending; tables of a level above 0 do *)
(* not overlap, unless a flush went into the gap of the merge that was      *)
(* running (PickLevelForMemTableOutput).                                    *)
LevelsSound ==
    /\ part = "mixed" => Mixed!TypeOK
    /\ part = "kept" => Kept!TypeOK /\ Kept!LiveTablesOnDisk /\ Kept!DisjointUnlessGapped
    /\ part = "ranges" => Whole!TypeOK /\ Whole!DisjointUnlessGapped

(* A crash between two steps of RepairDB loses nothing of the logs and of   *)
(* the sound tables (an I/O error excuses it), nothing is deleted unless a  *)
(* later repair replaced an archived file, and the new descriptor gives no  *)
(* file or sequence number again.                                           *)
RepairKeeps ==
    part = "repair" => /\ Fix!TypeOK /\ Fix!SoundDataKept
                       /\ Fix!NothingDeleted /\ Fix!NumbersNotReused

(* When logs and MANIFESTs are reused no sequence number is given twice,    *)
(* and what a running database shows is in its files: "if it is just the    *)
(* process that crashes, no writes will be lost even if sync==false"        *)
(* (options.h).                                                             *)
ReuseKeeps ==
    part = "reuse" => Reuse!TypeOK /\ Reuse!SequencesUnique /\ Reuse!WritesOnDisk
=============================================================================
