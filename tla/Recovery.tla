------------------------------ MODULE Recovery ------------------------------
(***************************************************************************)
(* LevelDB on a disk that survives it (Pods/leveldb-library/db): the log,  *)
(* the MANIFEST and CURRENT files, the tables, what is written to them in  *)
(* which order, and what DB::Open makes of them after a crash.             *)
(*                                                                         *)
(* A process crash keeps everything that was written; a machine crash      *)
(* keeps of every file any prefix that holds what was synced. Directory    *)
(* operations are kept in order (a journalled file system); a crash is     *)
(* possible between any two of them.                                       *)
(*                                                                         *)
(* A write is [seq, id]: its sequence number and its identity. A version   *)
(* is a set of table numbers: levels, and what a merge may drop, are       *)
(* module LevelStore.                                                      *)
(***************************************************************************)
EXTENDS Integers, FiniteSets, SequencesExt

CONSTANTS
    WriteBuffer,    \* write_buffer_size, in writes
    ManifestLimit,  \* TargetFileSize, in MANIFEST records
    MaxWrites,      \* bound: writes in the run
    ReuseLogs,      \* the values of reuse_logs the database is opened with
    MaxFailures,    \* bound: failed writes to files
    MaxExits,       \* bound: crashes of the process
    MaxCrashes,     \* bound: crashes of the machine
    MaxFile         \* bound: file numbers used by background work and new logs

RecoveryConstants ==
    /\ WriteBuffer \in Nat /\ ManifestLimit \in Nat
    /\ ReuseLogs \subseteq BOOLEAN
    /\ MaxWrites \in Nat /\ MaxFailures \in Nat /\ MaxExits \in Nat /\ MaxCrashes \in Nat /\ MaxFile \in Nat

VARIABLES
    (* The directory.                                                      *)
    logs,       \* number -> [recs, synced]: log files
    manifests,  \* number -> [recs, synced]: MANIFEST files
    tables,     \* number -> the writes in a table
    pointer,    \* the number of the MANIFEST that CURRENT names, 0 for none
    (* The process.                                                        *)
    stage,      \* "down", "newdb", "opening", "open", "corrupt"
    mem,        \* mem_
    imm,        \* imm_, a sequence of at most one set
    logfile,    \* logfile_number_
    versions,   \* VersionSet: files, log, next, last, manifest, fresh
    edit,       \* the edit LogAndApply is at work on, with its next step, or <<>>
    job,        \* the table being built in the background, or <<>>
    doomed,     \* what DeleteObsoleteFiles has still to delete
    bgError,    \* bg_error_ is set
    (* For the bounds, and the writes that were answered with sync.        *)
    ids, failures, exits, crashes, promised

diskVars == <<logs, manifests, tables, pointer>>
memVars  == <<stage, mem, imm, logfile, versions, edit, job, doomed, bgError>>
bounds == <<ids, failures, exits, crashes, promised>>
vars == <<diskVars, memVars, bounds>>

-----------------------------------------------------------------------------
(* Files and edits.                                                         *)
File(recs, synced) == [recs |-> recs, synced |-> synced]

VersionEdit(added, deleted, log, next, last) ==
    [added |-> added, deleted |-> deleted, log |-> log, next |-> next, last |-> last]

(* WriteSnapshot: the files only.                                           *)
Snapshot(files) == [added |-> files, deleted |-> {}]

IsFull(e) == "next" \in DOMAIN e

(* VersionSet::Recover: the files that the records of a MANIFEST build up,  *)
(* and the numbers of the last record that has them.                        *)
FilesIn(recs) == FoldLeft(LAMBDA files, e : (files \ e.deleted) \cup e.added, {}, recs)
LastFull(recs) == recs[Max({i \in 1..Len(recs) : IsFull(recs[i])})]
Complete(recs) == \E i \in 1..Len(recs) : IsFull(recs[i])

Readable(ms, ts, p) ==
    p \in DOMAIN ms /\ Complete(ms[p].recs) /\ FilesIn(ms[p].recs) \subseteq DOMAIN ts

SortedLogs(ls, min) == SetToSortSeq({n \in DOMAIN ls : n >= min}, <)

(* RecoverLogFile: the records of a log, cut where the memtable is full.    *)
Full(recs) == Len(recs) \div (WriteBuffer + 1)
Chunk(recs, i) ==
    ToSet(SubSeq(recs, (i - 1) * (WriteBuffer + 1) + 1,
                       Min({i * (WriteBuffer + 1), Len(recs)})))
Chunks(recs) ==
    LET whole == Full(recs) * (WriteBuffer + 1) = Len(recs)
    IN  [i \in 1..(Full(recs) + IF whole THEN 0 ELSE 1) |-> Chunk(recs, i)]

(* Mutant: the numbers of logs are not marked.                              *)
MarkNothing(next, n) == next

(* The logs one after the other: new tables take the next numbers, and the  *)
(* number of the log counts as used only after it was read.                 *)
MarkFileNumberUsed(next, n) == IF next <= n THEN n + 1 ELSE next

RecoverLog(made, n) ==
    LET c == Chunks(logs[n].recs)
    IN  [tables |-> [t \in made.next..(made.next + Len(c) - 1) |-> c[t - made.next + 1]] @@ made.tables,
         next   |-> MarkFileNumberUsed(made.next + Len(c), n)]

Recovered(numbers, next) ==
    FoldLeft(RecoverLog, [tables |-> <<>>, next |-> next], numbers)

Sequences(ws) == {w.seq : w \in ws}
InLogs(ls, min) == UNION {ToSet(ls[n].recs) : n \in {m \in DOMAIN ls : m >= min}}

-----------------------------------------------------------------------------
(* DeleteObsoleteFiles: what to delete is found and deleted under the       *)
(* mutex; only a crash can come in between. After an error nothing is.      *)
(* Mutant: the error is not looked at.                                      *)
ObsoleteAnyway(v, failed) ==
    {<<"log", n>> : n \in {m \in DOMAIN logs' : m < v.log}}
        \cup {<<"manifest", n>> : n \in {m \in DOMAIN manifests' : m < v.manifest}}
        \cup {<<"table", n>> : n \in DOMAIN tables' \ v.files}

Obsolete(v, failed) ==
    IF failed THEN {}
    ELSE {<<"log", n>> : n \in {m \in DOMAIN logs' : m < v.log}}
        \cup {<<"manifest", n>> : n \in {m \in DOMAIN manifests' : m < v.manifest}}
        \cup {<<"table", n>> : n \in DOMAIN tables' \ v.files}

Without(files, kind, f) ==
    IF f[1] = kind THEN [n \in DOMAIN files \ {f[2]} |-> files[n]] ELSE files

DeleteFile(f) ==
    /\ doomed' = doomed \ {f}
    /\ logs' = Without(logs, "log", f)
    /\ manifests' = Without(manifests, "manifest", f)
    /\ tables' = Without(tables, "table", f)
    /\ UNCHANGED <<pointer, stage, mem, imm, logfile, versions, edit, job,
                   bgError, bounds>>

-----------------------------------------------------------------------------
Init ==
    /\ logs = <<>> /\ manifests = <<>> /\ tables = <<>> /\ pointer = 0
    /\ stage = "down" /\ mem = {} /\ imm = <<>> /\ logfile = 0
    /\ versions = [files |-> {}, log |-> 0, next |-> 2, last |-> 0,
                   manifest |-> 0, fresh |-> TRUE]
    /\ edit = <<>> /\ job = <<>> /\ doomed = {} /\ bgError = FALSE
    /\ ids = 0 /\ failures = 0 /\ exits = 0 /\ crashes = 0 /\ promised = {}

(* NewDB: a first MANIFEST, which is closed but not synced, then CURRENT.   *)
NewDB ==
    /\ stage = "down" /\ pointer = 0
    /\ manifests' = (1 :> File(<<VersionEdit({}, {}, 0, 2, 0)>>, 0)) @@ manifests
    /\ stage' = "newdb"
    /\ UNCHANGED <<logs, tables, pointer, mem, imm, logfile, versions, edit, job,
                   doomed, bgError, bounds>>

NewDBSetCurrentFile ==
    /\ stage = "newdb"
    /\ pointer' = 1 /\ stage' = "down"
    /\ UNCHANGED <<logs, manifests, tables, mem, imm, logfile, versions, edit,
                   job, doomed, bgError, bounds>>

(* An edit that LogAndApply is about to write.                              *)
LogAndApply(rec) == <<[rec |-> rec, step |-> "write"]>>

(* DBImpl::Recover and DB::Open up to LogAndApply. reuse is reuse_logs.     *)
Recover(reuse) ==
    /\ stage = "down" /\ pointer # 0
    /\ IF ~Readable(manifests, tables, pointer)
       THEN /\ stage' = "corrupt"
            /\ UNCHANGED <<logs, manifests, tables, mem, logfile, versions, edit, doomed>>
       ELSE LET recs  == manifests[pointer].recs
                saved == LastFull(recs)
                files == FilesIn(recs)
                keepManifest == reuse /\ Len(recs) < ManifestLimit
                found == SortedLogs(logs, saved.log)
                keepLog == reuse /\ found # <<>> /\ Full(logs[Last(found)].recs) = 0
                made  == Recovered(IF keepLog THEN Front(found) ELSE found, saved.next + 1)
                next  == IF keepLog THEN MarkFileNumberUsed(made.next, Last(found))
                         ELSE made.next
                log   == IF keepLog THEN Last(found) ELSE next
                v     == [files |-> files, log |-> saved.log,
                          next |-> IF keepLog THEN next ELSE next + 1,
                          last |-> Max({saved.last} \cup Sequences(InLogs(logs, saved.log))),
                          manifest |-> IF keepManifest THEN pointer ELSE saved.next,
                          fresh |-> ~keepManifest]
                save  == ~keepManifest \/ made.tables # <<>>
            IN  /\ logs' = IF keepLog THEN logs ELSE (log :> File(<<>>, 0)) @@ logs
                /\ tables' = made.tables @@ tables
                /\ manifests' = manifests
                /\ mem' = IF keepLog THEN ToSet(logs[log].recs) ELSE {}
                /\ logfile' = log
                /\ versions' = v
                /\ edit' = IF ~save THEN <<>>
                           ELSE LogAndApply(VersionEdit(DOMAIN made.tables, {}, log, v.next, v.last))
                /\ doomed' = IF save THEN {} ELSE Obsolete(v, FALSE)
                /\ stage' = IF save THEN "opening" ELSE "open"
    /\ UNCHANGED <<pointer, imm, job, bgError, bounds>>

-----------------------------------------------------------------------------
(* The steps of LogAndApply. A fresh VersionSet writes a snapshot of its    *)
(* version and the edit to a new MANIFEST, and CURRENT names it once it is  *)
(* synced; another one appends the edit to its MANIFEST. Between the steps  *)
(* the mutex is free and the database may be written to.                    *)
WriteManifest ==
    /\ \E e \in ToSet(edit) :
        /\ e.step = "write"
        /\ manifests' = IF versions.fresh
                        THEN (versions.manifest :> File(<<Snapshot(versions.files), e.rec>>, 0)) @@ manifests
                        ELSE [manifests EXCEPT ![versions.manifest].recs = Append(@, e.rec)]
        /\ edit' = <<[e EXCEPT !.step = "sync"]>>
    /\ UNCHANGED <<logs, tables, pointer, stage, mem, imm, logfile, versions, job,
                   doomed, bgError, bounds>>

(* The new version is installed; its caller finishes.                       *)
Install(rec) ==
    /\ versions' = [versions EXCEPT !.files = (@ \ rec.deleted) \cup rec.added,
                                    !.log = rec.log, !.fresh = FALSE]
    /\ edit' = <<>> /\ job' = <<>>
    /\ imm' = IF \E j \in ToSet(job) : j.flush THEN <<>> ELSE imm
    /\ stage' = "open"
    /\ doomed' = Obsolete(versions', bgError)

SyncManifest ==
    /\ UNCHANGED <<logs, tables, pointer>>
    /\ \E e \in ToSet(edit) :
        /\ e.step = "sync"
        /\ manifests' = [manifests EXCEPT ![versions.manifest].synced =
                                            Len(manifests[versions.manifest].recs)]
        /\ IF versions.fresh
           THEN /\ edit' = <<[e EXCEPT !.step = "rename"]>>
                /\ UNCHANGED <<versions, job, imm, stage, doomed>>
           ELSE Install(e.rec)
    /\ UNCHANGED <<mem, logfile, bgError, bounds>>

SetCurrentFile ==
    /\ UNCHANGED <<logs, tables, manifests>>
    /\ \E e \in ToSet(edit) :
        /\ e.step = "rename"
        /\ pointer' = versions.manifest
        /\ Install(e.rec)
    /\ UNCHANGED <<mem, logfile, bgError, bounds>>

(* A failed compaction still calls DeleteObsoleteFiles at its end.          *)
AfterFailure ==
    IF \E j \in ToSet(job) : ~j.flush THEN Obsolete(versions, TRUE) ELSE {}

Fails == failures < MaxFailures /\ failures' = failures + 1

(* A step of LogAndApply fails. In Open a new MANIFEST is deleted and Open  *)
(* fails; in the background the error is recorded. What was appended may    *)
(* stay in the MANIFEST.                                                    *)
LogAndApplyFails ==
    /\ edit # <<>> /\ Fails
    /\ edit' = <<>> /\ job' = <<>>
    /\ IF stage = "opening"
       THEN stage' = "down" /\ UNCHANGED bgError
       ELSE bgError' = TRUE /\ UNCHANGED stage
    /\ manifests' = IF versions.fresh THEN Without(manifests, "manifest", <<"manifest", versions.manifest>>)
                    ELSE manifests
    /\ UNCHANGED <<logs, tables, pointer, mem, imm, logfile, versions, ids, exits,
                   crashes, promised>>
    /\ doomed' = AfterFailure

-----------------------------------------------------------------------------
(* A running database. Write: the log, a sync if asked for, the memtable.   *)
Running == stage = "open" /\ doomed = {}
NextWrite == [seq |-> versions.last + 1, id |-> ids + 1]

CanWrite == Running /\ ~bgError /\ Cardinality(mem) <= WriteBuffer /\ ids < MaxWrites

Logged(sync) ==
    LET f == logs[logfile]
    IN  [logs EXCEPT ![logfile] =
            File(Append(f.recs, NextWrite), IF sync THEN Len(f.recs) + 1 ELSE f.synced)]

(* Mutant: a sync write is not synced.                                      *)
WriteUnsynced(sync) ==
    /\ CanWrite
    /\ logs' = Logged(FALSE)
    /\ mem' = mem \cup {NextWrite}
    /\ versions' = [versions EXCEPT !.last = @ + 1]
    /\ ids' = ids + 1
    /\ promised' = IF sync THEN promised \cup {NextWrite} ELSE promised
    /\ UNCHANGED <<manifests, tables, pointer, stage, imm, logfile, edit, job,
                   doomed, bgError, failures, exits, crashes>>

Write(sync) ==
    /\ CanWrite
    /\ logs' = Logged(sync)
    /\ mem' = mem \cup {NextWrite}
    /\ versions' = [versions EXCEPT !.last = @ + 1]
    /\ ids' = ids + 1
    /\ promised' = IF sync THEN promised \cup {NextWrite} ELSE promised
    /\ UNCHANGED <<manifests, tables, pointer, stage, imm, logfile, edit, job,
                   doomed, bgError, failures, exits, crashes>>

(* The sync of the log fails: the record is there, the memtable lacks it.   *)
WriteSyncFails ==
    /\ CanWrite /\ Fails
    /\ logs' = Logged(FALSE)
    /\ versions' = [versions EXCEPT !.last = @ + 1]
    /\ bgError' = TRUE
    /\ ids' = ids + 1
    /\ UNCHANGED <<manifests, tables, pointer, stage, mem, imm, logfile, edit,
                   job, doomed, exits, crashes, promised>>

(* MakeRoomForWrite with a full memtable: the old log is closed unsynced.   *)
SwitchMemTable ==
    /\ Running /\ ~bgError /\ imm = <<>> /\ Cardinality(mem) > WriteBuffer
    /\ versions.next <= MaxFile
    /\ logs' = (versions.next :> File(<<>>, 0)) @@ logs
    /\ logfile' = versions.next
    /\ versions' = [versions EXCEPT !.next = @ + 1]
    /\ imm' = <<mem>> /\ mem' = {}
    /\ UNCHANGED <<manifests, tables, pointer, stage, edit, job, doomed, bgError,
                   bounds>>

(* Background work: a flush before any compaction, one table at a time.     *)
StartJob(inputs) ==
    /\ Running /\ ~bgError /\ job = <<>>
    /\ (imm # <<>>) = (inputs = {})
    /\ versions.next <= MaxFile
    /\ job' = <<[flush |-> inputs = {}, inputs |-> inputs, number |-> versions.next]>>
    /\ versions' = [versions EXCEPT !.next = @ + 1]
    /\ UNCHANGED <<diskVars, stage, mem, imm, logfile, edit, doomed, bgError,
                   bounds>>

(* The table is built and synced, and LogAndApply begins. A flush ends the  *)
(* need for the logs before the current one.                                *)
BuildTable ==
    /\ Running /\ edit = <<>>
    /\ \E j \in ToSet(job) :
        /\ tables' = (j.number :> IF j.flush THEN imm[1]
                                  ELSE UNION {tables[n] : n \in j.inputs}) @@ tables
        /\ edit' = LogAndApply(VersionEdit({j.number}, j.inputs,
                        IF j.flush THEN logfile ELSE versions.log,
                        versions.next, versions.last))
    /\ UNCHANGED <<logs, manifests, pointer, stage, mem, imm, logfile, versions,
                   job, doomed, bgError, bounds>>

(* The table cannot be written; what there is of it is deleted.             *)
BuildTableFails ==
    /\ Running /\ job # <<>> /\ edit = <<>> /\ Fails
    /\ job' = <<>> /\ bgError' = TRUE
    /\ UNCHANGED <<diskVars, stage, mem, imm, logfile, versions, edit, ids, exits,
                   crashes, promised>>
    /\ doomed' = AfterFailure

-----------------------------------------------------------------------------
(* Crashes. A clean shutdown leaves what a crash of the process leaves.     *)
Forget ==
    /\ stage' = "down" /\ mem' = {} /\ imm' = <<>> /\ logfile' = 0
    /\ edit' = <<>> /\ job' = <<>> /\ doomed' = {} /\ bgError' = FALSE
    /\ versions' = [files |-> {}, log |-> 0, next |-> 2, last |-> 0,
                    manifest |-> 0, fresh |-> TRUE]

ProcessCrash ==
    /\ stage # "down" /\ exits < MaxExits
    /\ exits' = exits + 1
    /\ Forget
    /\ UNCHANGED <<diskVars, ids, failures, crashes, promised>>

(* The states of some files after a crash of the machine.                   *)
Torn(files) ==
    LET loose == {n \in DOMAIN files : files[n].synced < Len(files[n].recs)}
        length == Max({0} \cup {Len(files[n].recs) : n \in loose})
        keeps(n, k) == File(SubSeq(files[n].recs, 1, k), k)
    IN  {[n \in DOMAIN files |-> IF n \in loose THEN keeps(n, cut[n]) ELSE files[n]] :
            cut \in {c \in [loose -> 0..length] :
                        \A n \in loose : c[n] \in files[n].synced..Len(files[n].recs)}}

MachineCrash ==
    /\ crashes < MaxCrashes
    /\ logs' \in Torn(logs) /\ manifests' \in Torn(manifests)
    /\ crashes' = crashes + 1
    /\ Forget
    /\ UNCHANGED <<tables, pointer, ids, failures, exits, promised>>

Next ==
    \/ NewDB \/ NewDBSetCurrentFile
    \/ \E reuse \in ReuseLogs : Recover(reuse)
    \/ WriteManifest \/ SyncManifest \/ SetCurrentFile \/ LogAndApplyFails
    \/ \E f \in doomed : DeleteFile(f)
    \/ \E sync \in BOOLEAN : Write(sync)
    \/ WriteSyncFails \/ SwitchMemTable
    \/ \E inputs \in SUBSET versions.files : StartJob(inputs)
    \/ BuildTable \/ BuildTableFails
    \/ ProcessCrash \/ MachineCrash

Spec == Init /\ [][Next]_vars

-----------------------------------------------------------------------------
(* What the next Open would find on a disk.                                 *)
OnDisk(ls, ms) ==
    IF ~Readable(ms, tables, pointer) THEN {}
    ELSE LET recs == ms[pointer].recs
         IN  UNION {tables[n] : n \in FilesIn(recs)} \cup InLogs(ls, LastFull(recs).log)

SyncedPart(files) ==
    [n \in DOMAIN files |-> File(SubSeq(files[n].recs, 1, files[n].synced), files[n].synced)]

Contents ==
    IF stage = "open"
    THEN mem \cup UNION ToSet(imm) \cup UNION {tables[n] : n \in versions.files}
    ELSE OnDisk(logs, manifests)

(* Types, with what belongs together: a running database has its log and    *)
(* its MANIFEST, a job has a number that nothing else uses.                 *)
TypeOK ==
    /\ stage \in {"down", "newdb", "opening", "open", "corrupt"}
    /\ \A n \in DOMAIN logs : logs[n].synced \in 0..Len(logs[n].recs)
    /\ \A n \in DOMAIN manifests : manifests[n].synced \in 0..Len(manifests[n].recs)
    /\ stage = "open" => /\ logfile \in DOMAIN logs
                         /\ versions.manifest = pointer /\ pointer \in DOMAIN manifests
                         /\ versions.files \subseteq DOMAIN tables
    /\ \A j \in ToSet(job) : j.number < versions.next /\ j.number \notin versions.files

(* Every crash leaves a database that opens with all that it promised, and  *)
(* every step of Open, of a flush, of a compaction and of the deletion of   *)
(* old files leaves the contents alone (DB::Open, LogAndApply,              *)
(* DeleteObsoleteFiles).                                                    *)
Promise == INSTANCE DurableStore WITH
    Writes   <- [seq: 1..MaxWrites, id: 1..MaxWrites],
    contents <- Contents,
    durable  <- OnDisk(SyncedPart(logs), SyncedPart(manifests)),
    promised <- promised,
    doubtful <- OnDisk(logs, manifests) \ Contents
KeepsPromise == Promise!Spec

(* Whenever the machine stops, Open can read the MANIFEST that is left and  *)
(* finds every table it names; except with the first MANIFEST of a new      *)
(* database (VersionSet::Recover, DeleteObsoleteFiles after an error).      *)
OpensAgain ==
    pointer > 1 => \A ms \in Torn(manifests) : Readable(ms, tables, pointer)

(* "if it is just the process that crashes, no writes will be lost even if  *)
(* sync==false" (options.h): all that a running database shows is in files. *)
WritesOnDisk == stage = "open" => Contents \subseteq OnDisk(logs, manifests)

(* "the creation of the DB is committed only when the descriptor is         *)
(* created" (DBImpl::Recover): a creation that a crash cut off can be done  *)
(* again.                                                                   *)
CreationIsAtomic == stage # "corrupt"

(* No two writes of the database have one sequence number, and the next one *)
(* is larger than all of them (DBImpl::Recover, VersionSet::LogAndApply).   *)
SequencesUnique ==
    stage = "open" =>
        /\ \A a, b \in Contents : a.seq = b.seq => a = b
        /\ \A a \in Contents : a.seq <= versions.last

(* "A DB write with sync==true has similar crash semantics to a write()     *)
(* system call followed by fsync()" (options.h): whatever happens, it is    *)
(* still on the disk.                                                       *)
SyncedWritesKept == promised \subseteq OnDisk(SyncedPart(logs), SyncedPart(manifests))

(* The same lines, of the writes before it: what is durable has no gap      *)
(* before it (options.h, MakeRoomForWrite).                                 *)
SyncCoversEarlier ==
    LET kept == OnDisk(SyncedPart(logs), SyncedPart(manifests))
    IN  stage = "open" => \A a \in kept, b \in Contents : b.seq < a.seq => b \in kept

(* Through every failure and crash the files belong together, no sequence   *)
(* number is given twice, and Open can read what is left (DB::Open,         *)
(* LogAndApply, DeleteObsoleteFiles).                                       *)
DiskSound == TypeOK /\ SequencesUnique /\ OpensAgain
=============================================================================
