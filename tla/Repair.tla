------------------------------- MODULE Repair -------------------------------
(***************************************************************************)
(* RepairDB of LevelDB (db/repair.cc): a directory whose descriptor cannot *)
(* be used is turned into a database again, from its logs and tables. The  *)
(* repair may be interrupted by a crash or an I/O error at every step and  *)
(* be run again.                                                           *)
(*                                                                         *)
(* A file is told by its number and holds entries (module Levels). Of a    *)
(* damaged table some entries can no longer be read, and its iterator ends *)
(* with an error status. The records of a torn log that are gone are left  *)
(* out of the log; a record whose bytes changed is another entry. A file   *)
(* that ArchiveFile moves to the directory lost/ replaces one of its name. *)
(***************************************************************************)
EXTENDS Levels, TLC

CONSTANTS
    MaxWrites,      \* bound: writes before the repair
    MaxCrashes,     \* bound: times the process ends
    MaxFails,       \* bound: I/O errors
    DamagedTables,  \* whether tables may be damaged
    ChangedRecords  \* whether the bytes of log records may have changed

(* What the constants are assumed to be.                                    *)
RepairConstants ==
    /\ MaxWrites \in Nat \ {0} /\ MaxCrashes \in Nat /\ MaxFails \in Nat
    /\ {DamagedTables, ChangedRecords} \subseteq BOOLEAN

VARIABLES
    tables,     \* the table files by number: what they hold, what can be read
    logs,       \* the log files by number: the entries a reader finds
    lost,       \* the archived files, by kind and number: the entries in them
    desc,       \* the descriptor CURRENT leads to, once it is the new one
    pc,         \* where the repair is
    logs_, table_numbers_, tables_, next_file_number_,  \* the fields of Repairer
    job,        \* the file that is worked on, 0 between two files
    crashes, fails,
    written,    \* ghost: what was written before the repair
    findable,   \* ghost: what can be read of it
    sound,      \* ghost: the part of that outside of damaged tables
    replaced    \* ghost: a file of lost/ was replaced by another

repairer == <<pc, logs_, table_numbers_, tables_, next_file_number_, job>>
ghosts == <<written, findable, sound>>
archive == <<lost, replaced>>
vars == <<tables, logs, archive, desc, repairer, crashes, fails, ghosts>>

-----------------------------------------------------------------------------
(* The directory a repair can find. The writes before it are split, oldest  *)
(* first, into two tables and two logs. Of the two tables, flushed or       *)
(* written by a compaction, either may have the larger number: a flush is   *)
(* done between two tables of a compaction. Logs are numbered in order. The *)
(* repair copies values and deletions alike, so the writes are values.      *)
File(n) == [n -> [holds: SUBSET Entry, reads: SUBSET Entry]]
Intact(S) == [holds |-> S, reads |-> S]
ReadsWell(t) == t.holds # {} /\ t.reads = t.holds
Writes == UNION {[1..n -> Keys] : n \in 1..MaxWrites}
EntriesOf(h, from, to) == {[key |-> h[i], seq |-> i, del |-> FALSE] : i \in from..to}

(* What the reader may make of the entries of a log, one record changed.    *)
Changed(S) ==
    {S} \cup IF ~ChangedRecords THEN {}
             ELSE {(S \ {e}) \cup {[e EXCEPT !.seq = MaxWrites + 1]} : e \in S}

(* Of a damaged table at least one entry is gone.                           *)
Damaged(S) ==
    {Intact(S)} \cup IF ~DamagedTables THEN {}
                     ELSE {[holds |-> S, reads |-> r] : r \in (SUBSET S) \ {S}}

AllRead(f) == UNION {t.reads : t \in Range(f)}
AllLogged(f) == UNION Range(f)

Init ==
    /\ \E h \in Writes, a, b, c \in 0..MaxWrites, x \in {4, 6} :
        /\ a <= b /\ b <= c /\ c <= Len(h)
        /\ \E older \in Damaged(EntriesOf(h, 1, a)),
              newer \in Damaged(EntriesOf(h, a + 1, b)),
              log3 \in Changed(EntriesOf(h, b + 1, c)),
              log5 \in Changed(EntriesOf(h, c + 1, Len(h))) :
            LET both == (x :> older) @@ ((10 - x) :> newer)
            IN  /\ tables = [n \in {m \in DOMAIN both : both[m].holds # {}} |-> both[n]]
                /\ logs = (5 :> log5) @@ (IF log3 = {} THEN <<>> ELSE 3 :> log3)
        /\ written = EntriesOf(h, 1, Len(h))
    /\ findable = AllRead(tables) \cup AllLogged(logs)
    /\ sound = UNION {t.holds : t \in {u \in Range(tables) : ReadsWell(u)}} \cup AllLogged(logs)
    /\ lost = <<>> /\ replaced = FALSE /\ desc = {}
    /\ pc = "find" /\ logs_ = {} /\ table_numbers_ = {} /\ tables_ = {}
    /\ next_file_number_ = 1 /\ job = 0
    /\ crashes = 0 /\ fails = 0

-----------------------------------------------------------------------------
Fails == fails < MaxFails /\ fails' = fails + 1
Without(f, n) == [m \in DOMAIN f \ {n} |-> f[m]]

(* The directory lost/ keeps what earlier repairs put there; a rename to a  *)
(* name that is taken replaces the file.                                    *)
ArchiveFile(kind, n, S) ==
    /\ lost' = (<<kind, n>> :> S) @@ lost
    /\ replaced' = (replaced \/ <<kind, n>> \in DOMAIN lost)

(* FindFiles: next_file_number_ comes out above every log and table.        *)
FindFiles ==
    /\ pc = "find"
    /\ pc' = "logs"
    /\ logs_' = DOMAIN logs /\ table_numbers_' = DOMAIN tables
    /\ next_file_number_' = 1 + Max({0} \cup DOMAIN logs \cup DOMAIN tables)
    /\ UNCHANGED <<tables, logs, archive, desc, tables_, job, crashes, fails, ghosts>>

(* ConvertLogToTable: the logs come in the order of the directory, which is *)
(* any order. A log without a whole record leaves no table.                 *)
ConvertLogToTable ==
    /\ pc = "logs"
    /\ \E n \in logs_ :
        /\ job' = n
        /\ \/ /\ next_file_number_' = next_file_number_ + 1
              /\ IF logs[n] = {} THEN UNCHANGED <<tables, table_numbers_>>
                 ELSE /\ tables' = (next_file_number_ :> Intact(logs[n])) @@ tables
                      /\ table_numbers_' = table_numbers_ \cup {next_file_number_}
              /\ UNCHANGED fails
           \/ \* The log cannot be opened, or BuildTable fails.
              /\ Fails
              /\ next_file_number_' \in {next_file_number_, next_file_number_ + 1}
              /\ UNCHANGED <<tables, table_numbers_>>
    /\ pc' = "archive log"
    /\ UNCHANGED <<logs, archive, desc, logs_, tables_, crashes, ghosts>>

(* ConvertLogFilesToTables archives the log whatever came of it.            *)
ArchiveLog ==
    /\ pc = "archive log"
    /\ pc' = "logs"
    /\ logs' = Without(logs, job) /\ ArchiveFile("log", job, logs[job])
    /\ logs_' = logs_ \ {job} /\ job' = 0
    /\ UNCHANGED <<tables, desc, table_numbers_, tables_, next_file_number_, crashes, fails, ghosts>>

(* ScanTable: a table that is read to its end without an error is listed    *)
(* with the largest sequence number in it.                                  *)
MaxSequence(S) == Max({0} \cup {e.seq : e \in S})

ScanTable ==
    /\ pc = "logs" /\ logs_ = {}
    /\ \E n \in table_numbers_ :
        /\ \/ /\ ReadsWell(tables[n])
              /\ tables_' = tables_ \cup {n}
              /\ table_numbers_' = table_numbers_ \ {n}
              /\ UNCHANGED <<pc, job, tables, archive, fails>>
           \/ /\ ~ReadsWell(tables[n])
              /\ pc' = "copy" /\ job' = n
              /\ UNCHANGED <<tables, archive, tables_, table_numbers_, fails>>
           \/ \* GetFileSize fails: the table is archived unread.
              /\ Fails
              /\ tables' = Without(tables, n) /\ ArchiveFile("table", n, tables[n].holds)
              /\ table_numbers_' = table_numbers_ \ {n}
              /\ UNCHANGED <<pc, job, tables_>>
    /\ UNCHANGED <<logs, desc, logs_, next_file_number_, crashes, ghosts>>

(* RepairTable: what can be read goes to a new table, which has no footer   *)
(* yet when the old one is archived.                                        *)
RepairTable ==
    /\ pc = "copy"
    /\ next_file_number_' = next_file_number_ + 1
    /\ \/ /\ pc' = "archive table"
          /\ tables' = (next_file_number_ :> [holds |-> tables[job].reads, reads |-> {}]) @@ tables
          /\ UNCHANGED <<table_numbers_, job, fails>>
       \/ \* The new table cannot be created: the old one stays, unlisted.
          /\ Fails /\ pc' = "logs" /\ job' = 0
          /\ table_numbers_' = table_numbers_ \ {job}
          /\ UNCHANGED tables
    /\ UNCHANGED <<logs, archive, desc, logs_, tables_, crashes, ghosts>>

ArchiveTable ==
    /\ pc = "archive table"
    /\ pc' = "finish"
    /\ tables' = Without(tables, job) /\ ArchiveFile("table", job, tables[job].holds)
    /\ UNCHANGED <<logs, desc, logs_, table_numbers_, tables_, next_file_number_, job, crashes, fails, ghosts>>

(* The new table is finished and renamed to the number of the old one. If   *)
(* nothing could be read it is abandoned, and its file stays.               *)
Copy == next_file_number_ - 1

FinishCopy ==
    /\ pc = "finish"
    /\ pc' = "logs" /\ job' = 0
    /\ table_numbers_' = table_numbers_ \ {job}
    /\ \/ /\ tables[Copy].holds # {}
          /\ tables' = (job :> Intact(tables[Copy].holds)) @@ Without(tables, Copy)
          /\ tables_' = tables_ \cup {job}
          /\ UNCHANGED fails
       \/ /\ tables[Copy].holds = {}
          /\ UNCHANGED <<tables, tables_, fails>>
       \/ \* Finish, Close or RenameFile fails: the copy is deleted.
          /\ Fails
          /\ tables' = Without(tables, Copy)
          /\ UNCHANGED tables_
    /\ UNCHANGED <<logs, archive, desc, logs_, next_file_number_, crashes, ghosts>>

(* Mutant: the sequence number of the newest table.                         *)
EditOfNewestTable ==
    [next |-> next_file_number_,
     last |-> IF tables_ = {} THEN 0 ELSE MaxSequence(tables[Max(tables_)].reads),
     files |-> {<<0, MetaOf(n, tables[n].reads)>> : n \in tables_}]

(* WriteDescriptor: the edit, then the old descriptors are archived, then   *)
(* the new one gets its name and CURRENT is set to it.                      *)
VersionEdit ==
    [next |-> next_file_number_,
     last |-> Max({0} \cup {MaxSequence(tables[n].reads) : n \in tables_}),
     files |-> {<<0, MetaOf(n, tables[n].reads)>> : n \in tables_}]

WriteDescriptor ==
    /\ pc = "logs" /\ logs_ = {} /\ table_numbers_ = {}
    /\ \/ pc' = "install" /\ UNCHANGED fails
       \/ pc' = "failed" /\ Fails
    /\ UNCHANGED <<tables, logs, archive, desc, logs_, table_numbers_, tables_, next_file_number_, job, crashes, ghosts>>

ArchiveDescriptors ==
    /\ pc = "install"
    /\ pc' = "rename"
    /\ desc' = {}
    /\ UNCHANGED <<tables, logs, archive, logs_, table_numbers_, tables_, next_file_number_, job, crashes, fails, ghosts>>

InstallDescriptor ==
    /\ pc = "rename"
    /\ \/ pc' = "done" /\ desc' = {VersionEdit} /\ UNCHANGED fails
       \/ pc' = "failed" /\ desc' = {} /\ Fails
    /\ UNCHANGED <<tables, logs, archive, logs_, table_numbers_, tables_, next_file_number_, job, crashes, ghosts>>

(* DB::Open takes the version of the descriptor, and DeleteObsoleteFiles    *)
(* deletes the tables that are not in it.                                   *)
VersionOf(edit) == BuilderApply(NoFiles, edit.files, {})

Open ==
    /\ pc = "done"
    /\ pc' = "open"
    /\ \E edit \in desc :
        tables' = [n \in DOMAIN tables \cap NumbersOf(VersionOf(edit)) |-> tables[n]]
    /\ UNCHANGED <<logs, archive, desc, logs_, table_numbers_, tables_, next_file_number_, job, crashes, fails, ghosts>>

(* A new Repairer, after a crash, after an error or once more.              *)
Restart ==
    /\ pc' = "find" /\ logs_' = {} /\ table_numbers_' = {} /\ tables_' = {}
    /\ next_file_number_' = 1 /\ job' = 0
    /\ UNCHANGED <<tables, logs, archive, desc, fails, ghosts>>

Crash == pc \notin {"find", "open"} /\ crashes < MaxCrashes /\ crashes' = crashes + 1 /\ Restart
RunAgain == pc = "failed" /\ UNCHANGED crashes /\ Restart

Next ==
    \/ FindFiles \/ ConvertLogToTable \/ ArchiveLog
    \/ ScanTable \/ RepairTable \/ ArchiveTable \/ FinishCopy
    \/ WriteDescriptor \/ ArchiveDescriptors \/ InstallDescriptor
    \/ Open \/ Crash \/ RunAgain

Spec == Init /\ [][Next]_vars

-----------------------------------------------------------------------------
TypeOK ==
    /\ tables \in File(DOMAIN tables) /\ DOMAIN tables \subseteq Nat \ {0}
    /\ \A n \in DOMAIN tables : tables[n].reads \subseteq tables[n].holds
    /\ logs \in [DOMAIN logs -> SUBSET Entry] /\ DOMAIN logs \subseteq {3, 5}
    /\ pc \in {"find", "logs", "archive log", "copy", "archive table", "finish",
               "install", "rename", "failed", "done", "open"}
    /\ logs_ \subseteq DOMAIN logs
    /\ pc \notin {"finish"} => table_numbers_ \subseteq DOMAIN tables
    /\ tables_ \subseteq DOMAIN tables
    /\ pc = "archive log" => job \in logs_
    /\ Cardinality(desc) <= 1
    /\ {written, findable, sound} \subseteq SUBSET Entry
    /\ lost \in [DOMAIN lost -> SUBSET Entry] /\ replaced \in BOOLEAN

Present == AllRead(tables) \cup AllLogged(logs)
Recovered == UNION {tables[f[2].number].reads : f \in UNION {edit.files : edit \in desc}}

(* A crash between any two steps loses nothing of the logs and of the       *)
(* tables that were sound: until the database is opened it can be read in   *)
(* the directory, and once the repair is done it is in the new descriptor.  *)
(* An I/O error excuses it.                                                 *)
SoundDataKept ==
    fails = 0 => /\ sound \subseteq Present
                 /\ pc \in {"done", "open"} => sound \subseteq Recovered

(* Nothing is deleted: what could be read before the repair is in the       *)
(* directory or in lost/, unless a later repair replaced a file there.      *)
NothingDeleted == pc # "open" /\ ~replaced => findable \subseteq Present \cup UNION Range(lost)

(* ArchiveFile is there to keep the files that it moves; without the        *)
(* exception: a number that is free in the directory again goes to a new    *)
(* table, and the archived table of that number is replaced.                *)
ArchiveKeeps == pc # "open" => findable \subseteq Present \cup UNION Range(lost)

(* The repaired database uses no file number and no sequence number twice:  *)
(* its next file number is above all files, its last sequence number not    *)
(* below any entry it holds.                                                *)
NumbersNotReused ==
    \A edit \in desc : pc \in {"done", "open"} =>
        /\ \A n \in DOMAIN tables \cup DOMAIN logs : n < edit.next
        /\ \A e \in Recovered : e.seq <= edit.last

(* The repair makes up nothing.                                             *)
NothingInvented == pc \in {"done", "open"} => Recovered \subseteq written

(* A repair that was interrupted and is run again still finds all that      *)
(* could be read of the tables it was repairing: "copy src contents to a    *)
(* new table and then rename the new table over the source".                *)
CopiedBeforeMoved == fails = 0 /\ pc = "find" => findable \subseteq Present

(* A Get of the repaired database finds the newest entry of a key: the      *)
(* tables of level 0 are read "in order from newest to oldest".             *)
GetFindsNewest ==
    \A edit \in desc : pc = "open" =>
        LET v == VersionOf(edit)
            disk == [n \in DOMAIN tables |-> tables[n].reads]
        IN  \A k \in Keys :
                VersionGet(v, disk, LookupKey(k, edit.last)).found
                    = {e \in Recovered : e.key = k /\ \A o \in Recovered : o.key = k => o.seq <= e.seq}

=============================================================================
