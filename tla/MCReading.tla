----------------------------- MODULE MCReading -----------------------------
(* What a read of LevelDB goes through, for TLC: the skip list of the      *)
(* memtable, the cursor over memtable and tables (with late writes; with bad *)
(* blocks), a table file, a block and a log (whose tail is lost; with failed *)
(* appends). A behaviour is about one of them, part; the skip list of the  *)
(* others does not start, and their variables stay Unused, so that the     *)
(* state spaces add up.                                                    *)
EXTENDS SkipList

VARIABLES
    part,   \* what a behaviour is about
    log, mem, tables, sequence,
    pos, current, mdir, half, dir, valid, savedKey, savedValue, skipping,
    valueType, failed, pc, ref, data_block, blocks, index_block, last_key,
    pending_index_entry, offset, ok, closed, start_, filters, footer, added,
    interval, buffer_, restarts_, counter_, last_key_, finished_, bad, it,
    keys, expect, file, synced, blockOffset, writing, written, acked, open,
    damaged, torn, failures, crashes

(* A hash of six bits, and keys that are prefixes of each other, that can   *)
(* be shortened and that cannot.                                            *)
S == INSTANCE SequencesExt
SmallHash(user) == S!FoldSeq(LAMBDA b, h : (5 * h + 7 * b + 3) % 64, S!Len(user), user)
SomeKeys == {<<0>>, <<0, 0>>, <<1, 2>>, <<2>>, <<2, 0>>, <<2, 2>>}

Late == INSTANCE Cursor WITH
    Keys <- {1, 2}, Stored <- 3, MaxInserts <- 1, BadBlocks <- {FALSE}
Damaged == INSTANCE Cursor WITH
    Keys <- {1, 2}, Stored <- 2, MaxInserts <- 0, BadBlocks <- BOOLEAN
File == INSTANCE TableFile WITH
    MaxByte <- 2, MaxSequence <- 3, MaxEntries <- 3, BlockSizes <- {1, 3},
    FilterBase <- 2, WordBits <- 6, Probes <- 2, FilterBits <- 7,
    UserKeys <- SomeKeys, Hash <- SmallHash
Block == INSTANCE BlockIter WITH
    Bytes <- {0, 1}, KeyLength <- 2, MaxEntries <- 4, Intervals <- {1, 2, 3},
    MaxBad <- 1
Torn == INSTANCE LogRecords WITH
    BlockSize <- 6, HeaderSize <- 2, Sizes <- {0, 4, 7}, Reopens <- FALSE,
    MaxRecords <- 3, MaxFailures <- 0, MaxCrashes <- 1, MaxDamage <- 1
Scars == INSTANCE LogRecords WITH
    BlockSize <- 6, HeaderSize <- 2, Sizes <- {2, 7}, Reopens <- TRUE,
    MaxRecords <- 3, MaxFailures <- 1, MaxCrashes <- 1, MaxDamage <- 0

ASSUME /\ SkipListConstants
       /\ Late!CursorConstants
       /\ Damaged!CursorConstants
       /\ File!TableConstants
       /\ Block!BlockConstants
       /\ Torn!LogConstants
       /\ Scars!LogConstants

-----------------------------------------------------------------------------
(* The variables by the modules that have them, and their value where a     *)
(* behaviour is not about one of these.                                     *)
Unused == <<>>

cursorVars == <<log, mem, tables, sequence, pos, current, mdir, half, dir,
               valid, savedKey, savedValue, skipping, valueType, failed, pc,
               ref>>
CursorIdle ==
    /\ log = Unused /\ mem = Unused /\ tables = Unused /\ sequence = Unused
    /\ pos = Unused /\ current = Unused /\ mdir = Unused /\ half = Unused
    /\ dir = Unused /\ valid = Unused /\ savedKey = Unused /\ savedValue = Unused
    /\ skipping = Unused /\ valueType = Unused /\ failed = Unused /\ pc = Unused
    /\ ref = Unused

tableFileVars == <<data_block, blocks, index_block, last_key,
                  pending_index_entry, offset, ok, closed, start_, filters,
                  footer>>
TableFileIdle ==
    /\ data_block = Unused /\ blocks = Unused /\ index_block = Unused
    /\ last_key = Unused /\ pending_index_entry = Unused /\ offset = Unused
    /\ ok = Unused /\ closed = Unused /\ start_ = Unused /\ filters = Unused
    /\ footer = Unused

(* TableFile, LogRecords                                                    *)
sharedVars == <<added>>
SharedIdle ==
    /\ added = Unused

blockIterVars == <<interval, buffer_, restarts_, counter_, last_key_,
                  finished_, bad, it, keys, expect>>
BlockIterIdle ==
    /\ interval = Unused /\ buffer_ = Unused /\ restarts_ = Unused
    /\ counter_ = Unused /\ last_key_ = Unused /\ finished_ = Unused /\ bad = Unused
    /\ it = Unused /\ keys = Unused /\ expect = Unused

logRecordsVars == <<file, synced, blockOffset, writing, written, acked, open,
                   damaged, torn, failures, crashes>>
LogRecordsIdle ==
    /\ file = Unused /\ synced = Unused /\ blockOffset = Unused /\ writing = Unused
    /\ written = Unused /\ acked = Unused /\ open = Unused /\ damaged = Unused
    /\ torn = Unused /\ failures = Unused /\ crashes = Unused

MCInit ==
    /\ Init
    /\ \/ part = "list"
          /\ CursorIdle /\ TableFileIdle /\ SharedIdle /\ BlockIterIdle
          /\ LogRecordsIdle
       \/ part = "late" /\ Late!Init
          /\ TableFileIdle /\ SharedIdle /\ BlockIterIdle /\ LogRecordsIdle
       \/ part = "damaged" /\ Damaged!Init
          /\ TableFileIdle /\ SharedIdle /\ BlockIterIdle /\ LogRecordsIdle
       \/ part = "table" /\ File!Init
          /\ CursorIdle /\ BlockIterIdle /\ LogRecordsIdle
       \/ part = "block" /\ Block!Init
          /\ CursorIdle /\ TableFileIdle /\ SharedIdle /\ LogRecordsIdle
       \/ part = "tail" /\ Torn!Init
          /\ CursorIdle /\ TableFileIdle /\ BlockIterIdle
       \/ part = "scars" /\ Scars!Init
          /\ CursorIdle /\ TableFileIdle /\ BlockIterIdle

MCNext ==
    /\ UNCHANGED part
    /\ \/ /\ part = "list" /\ Next
          /\ UNCHANGED <<cursorVars, tableFileVars, sharedVars, blockIterVars,
                         logRecordsVars>>
       \/ /\ part = "late" /\ Late!Next
          /\ UNCHANGED <<vars, tableFileVars, sharedVars, blockIterVars,
                         logRecordsVars>>
       \/ /\ part = "damaged" /\ Damaged!Next
          /\ UNCHANGED <<vars, tableFileVars, sharedVars, blockIterVars,
                         logRecordsVars>>
       \/ /\ part = "table" /\ File!Next
          /\ UNCHANGED <<vars, cursorVars, blockIterVars, logRecordsVars>>
       \/ /\ part = "block" /\ Block!Next
          /\ UNCHANGED <<vars, cursorVars, tableFileVars, sharedVars,
                         logRecordsVars>>
       \/ /\ part = "tail" /\ Torn!Next
          /\ UNCHANGED <<vars, cursorVars, tableFileVars, blockIterVars>>
       \/ /\ part = "scars" /\ Scars!Next
          /\ UNCHANGED <<vars, cursorVars, tableFileVars, blockIterVars>>

allVars == <<part, vars, cursorVars, tableFileVars, sharedVars, blockIterVars,
             logRecordsVars>>

MCSpec == MCInit /\ [][MCNext]_allVars

-----------------------------------------------------------------------------
(* A cursor is where one over the snapshot would be, whatever the writer    *)
(* does meanwhile, or it reports that a block could not be read. While it   *)
(* moves back, the internal iterator is before every entry of its key, and  *)
(* nothing visible lies between (DBIter).                                   *)
CursorAgrees ==
    /\ part = "late" => Late!TypeOK /\ Late!JustBefore /\ Late!CursorAgrees
    /\ part = "damaged" => Damaged!TypeOK /\ Damaged!CursorAgrees

(* A file with a footer holds all that was added; index and filters lead    *)
(* InternalGet to every key of it, or to an error when the block is damaged; *)
(* approximate offsets grow with the keys.                                  *)
TableRight ==
    part = "table" => /\ File!TypeOK /\ File!FooterMeansComplete /\ File!LookupsRight
                      /\ File!DamageIsReported /\ File!OffsetsAscend

(* The iterator of a block puts whole keys together, stands where the calls *)
(* so far lead, and reports corruption only where an entry is damaged.      *)
BlockRight ==
    part = "block" => /\ Block!TypeOK /\ Block!KeyIsWhole
                      /\ Block!LandsRight /\ Block!NoFalseAlarm

(* The reader of a log returns only records that were added, whole; after a *)
(* crash it reads up to some record and without complaint; damage costs the *)
(* records that touch its block and no others.                              *)
LogRight ==
    /\ part = "tail" => /\ Torn!TypeOK /\ Torn!ReadsOnlyAdded
                        /\ Torn!CrashLeavesPrefix /\ Torn!DamageStaysInBlock
    /\ part = "scars" => Scars!TypeOK /\ Scars!ReadsOnlyAdded
=============================================================================
