----------------------------- MODULE WriteQueue -----------------------------
(***************************************************************************)
(* The threads of LevelDB (Pods/leveldb-library/db/db_impl.cc): callers of *)
(* Write in their queue, callers of CompactRange, the one background       *)
(* thread, and the destructor; who waits for whom, and who wakes whom.     *)
(*                                                                         *)
(* A step is what a thread does between taking and giving up the mutex. A  *)
(* thread that waits on a condition variable goes on only after a signal.  *)
(* A call is [id, kind, size]: its place in the order in which calls took  *)
(* the mutex, "write", "sync" or "compact", and the size of its batch. A   *)
(* compact call is a write without a batch, a wait for the memtable if the *)
(* write was ok, and in any case manual compactions; Parts is how often it *)
(* needs one.                                                              *)
(***************************************************************************)
EXTENDS Integers, FiniteSets, SequencesExt

CONSTANTS
    Threads,            \* calling threads
    Kinds, Sizes,       \* what they call
    WriteBuffer,        \* write_buffer_size, in batches
    SmallBatch,         \* 128 KB: a smaller first batch lets the group grow less
    MaxBatch,           \* 1 MB
    Trigger, Slowdown, Stop,  \* the kL0_ triggers
    Parts,
    MaxCalls,           \* bound: calls in the run
    MaxFailures         \* bound: failed file operations

(* What the constants are assumed to be.                                    *)
QueueConstants ==
    /\ Kinds \subseteq {"write", "sync", "compact"} /\ Sizes \subseteq Nat \ {0}
    /\ WriteBuffer \in Nat /\ SmallBatch \in Nat /\ MaxBatch \in Nat
    /\ Trigger \in Nat \ {0} /\ Slowdown \in Nat /\ Stop \in Nat /\ Trigger <= Stop
    /\ Parts \in Nat /\ MaxCalls \in Nat /\ MaxFailures \in Nat

VARIABLES
    pc,         \* where each thread is
    call,       \* its call
    queue,      \* writers_
    signalled,  \* threads whose own cv was signalled
    done,       \* w.done, for threads in the queue
    ok,         \* the status of the call so far is ok
    force,      \* force of MakeRoomForWrite; allow_delay while it may sleep
    delay,
    group,      \* the threads whose batches are being logged
    mem, imm,   \* ids in mem_ and, a sequence of at most one set, imm_
    level0,     \* NumLevelFiles(0)
    scheduled,  \* background_compaction_scheduled_
    bg,         \* what the background thread is at
    manual,     \* manual_compaction_: a set of at most one thread
    left,       \* parts of its range a thread has still to compact
    rangeDone,  \* manual.done of a thread
    bgError,    \* bg_error_ is set
    closing,    \* the destructor: "no", "waits", "gone"
    dangling,   \* the background thread went through a manual_compaction_ that is null
    (* History and bounds.                                                 *)
    log, synced,   \* ids logged, in order, and ids whose log was synced
    fresh,         \* ids in the current log file
    answered,      \* [id, kind, ok] of the calls that returned
    before,        \* ids in the memtable when a call began
    calls, failures

queueVars == <<queue, signalled, done, force, delay, group>>
memVars   == <<mem, imm, level0>>
bgVars    == <<scheduled, bg, manual, left, rangeDone>>
history   == <<log, synced, fresh, answered, before, calls>>
vars == <<pc, call, queueVars, ok, memVars, bgVars, bgError, closing, dangling,
          history, failures>>

NoCall == [id |-> 0, kind |-> "write", size |-> 0]
Empty(t) == call[t].kind = "compact"
Init ==
    /\ pc = [t \in Threads |-> "idle"] /\ call = [t \in Threads |-> NoCall]
    /\ queue = <<>> /\ signalled = {} /\ done = {} /\ ok = {}
    /\ force = {} /\ delay = {} /\ group = <<>>
    /\ mem = {} /\ imm = <<>> /\ level0 = 0
    /\ scheduled = FALSE /\ bg = "idle" /\ manual = {}
    /\ left = [t \in Threads |-> 0] /\ rangeDone = {}
    /\ bgError = FALSE /\ closing = "no" /\ dangling = FALSE
    /\ log = <<>> /\ synced = {} /\ fresh = {} /\ answered = {}
    /\ before = [t \in Threads |-> {}] /\ calls = 0 /\ failures = 0

-----------------------------------------------------------------------------
(* Helpers. SignalAll on background_work_finished_signal_ wakes all that    *)
(* wait for it; MaybeScheduleCompaction looks at the state after the step.  *)
AfterWake == [roomwait |-> "room", flushwait |-> "flush", manualwait |-> "manual"]

SignalAll(p) ==
    [t \in Threads |-> IF p[t] \in DOMAIN AfterWake THEN AfterWake[p[t]] ELSE p[t]]

NeedsWork(i, m, files) == i # <<>> \/ m # {} \/ files >= Trigger

MaybeScheduleCompaction(already) ==
    scheduled' = (already \/ (closing = "no" /\ ~bgError' /\ NeedsWork(imm', manual', level0')))

(* RecordBackgroundError, with the signal it gives.                         *)
RecordBackgroundError(p) ==
    /\ bgError' = TRUE
    /\ pc' = IF bgError THEN p ELSE SignalAll(p)

Fails == failures < MaxFailures /\ failures' = failures + 1

-----------------------------------------------------------------------------
(* DBImpl::Write: into the queue, and on when at its front or done.         *)
Begin(t, kind, size) ==
    /\ pc[t] = "idle" /\ closing = "no" /\ calls < MaxCalls
    /\ calls' = calls + 1
    /\ call' = [call EXCEPT ![t] = [id |-> calls + 1, kind |-> kind, size |-> size]]
    /\ queue' = Append(queue, t)
    /\ pc' = [pc EXCEPT ![t] = IF queue = <<>> THEN "room" ELSE "queued"]
    /\ done' = done \ {t} /\ signalled' = signalled \ {t}
    /\ force' = IF kind = "compact" THEN force \cup {t} ELSE force \ {t}
    /\ delay' = IF kind = "compact" THEN delay \ {t} ELSE delay \cup {t}
    /\ before' = [before EXCEPT ![t] = mem]
    /\ left' = [left EXCEPT ![t] = Parts] /\ rangeDone' = rangeDone \ {t}
    /\ UNCHANGED <<group, ok, memVars, scheduled, bg, manual, bgError, closing,
                   dangling, log, synced, fresh, answered, failures>>

(* What happens to a call of Write that returns. CompactRange goes on: it   *)
(* waits for the memtable if the write was ok (TEST_CompactMemTable), and   *)
(* compacts its range whatever became of that. Any other call is over.      *)
Answer(t, isOk) == [id |-> call[t].id, kind |-> call[t].kind, ok |-> isOk]
AfterWrite(t, isOk) == IF ~Empty(t) THEN "idle" ELSE IF isOk THEN "flush" ELSE "manual"

WakeInQueue(t) ==
    /\ pc[t] = "queued" /\ t \in signalled
    /\ signalled' = signalled \ {t}
    /\ pc' = [pc EXCEPT ![t] = IF t \in done THEN AfterWrite(t, t \in ok)
                               ELSE IF t = Head(queue) THEN "room" ELSE "queued"]
    /\ answered' = IF t \in done /\ ~Empty(t)
                   THEN answered \cup {Answer(t, t \in ok)} ELSE answered
    /\ UNCHANGED <<call, queue, done, force, delay, group, ok, memVars, bgVars,
                   bgError, closing, dangling, log, synced, fresh, before, calls,
                   failures>>

(* MakeRoomForWrite, one round of its loop per step.                        *)
AtFront(t) == pc[t] = "room"
Delayed(t) == t \in delay /\ level0 >= Slowdown
HasRoom(t) == t \notin force /\ Cardinality(mem) <= WriteBuffer

Sleep(t) ==
    /\ AtFront(t) /\ ~bgError /\ Delayed(t)
    /\ pc' = [pc EXCEPT ![t] = "sleep"]
    /\ delay' = delay \ {t}
    /\ UNCHANGED <<call, queue, signalled, done, force, group, ok, memVars, bgVars,
                   bgError, closing, dangling, history, failures>>

EndSleep(t) ==
    /\ pc[t] = "sleep"
    /\ pc' = [pc EXCEPT ![t] = "room"]
    /\ UNCHANGED <<call, queueVars, ok, memVars, bgVars, bgError, closing, dangling,
                   history, failures>>

WaitForRoom(t) ==
    /\ AtFront(t) /\ ~bgError /\ ~Delayed(t) /\ ~HasRoom(t)
    /\ imm # <<>> \/ level0 >= Stop
    /\ pc' = [pc EXCEPT ![t] = "roomwait"]
    /\ UNCHANGED <<call, queueVars, ok, memVars, bgVars, bgError, closing, dangling,
                   history, failures>>

SwitchMemTable(t) ==
    /\ AtFront(t) /\ ~bgError /\ ~Delayed(t) /\ ~HasRoom(t)
    /\ imm = <<>> /\ level0 < Stop
    /\ imm' = <<mem>> /\ mem' = {} /\ fresh' = {}
    /\ force' = force \ {t}
    /\ UNCHANGED <<pc, call, queue, signalled, done, delay, group, ok, level0, bg,
                   manual, left, rangeDone, bgError, closing, dangling, log, synced,
                   answered, before, calls, failures>>
    /\ MaybeScheduleCompaction(scheduled)

(* BuildBatchGroup: the calls after the first that go with it. A sync write *)
(* does not join one without sync; a call without a batch joins any group.  *)
MaxSize(size) == IF size <= SmallBatch THEN size + SmallBatch ELSE MaxBatch
GroupSize(ts) == FoldLeft(LAMBDA n, t : n + IF Empty(t) THEN 0 ELSE call[t].size, 0, ts)

(* Mutant: a sync write may join any group.                                 *)
JoinsAny(n) ==
    Empty(queue[n]) \/ GroupSize(SubSeq(queue, 1, n)) <= MaxSize(call[queue[1]].size)

Joins(n) ==
    /\ ~(call[queue[n]].kind = "sync" /\ call[queue[1]].kind # "sync")
    /\ Empty(queue[n]) \/ GroupSize(SubSeq(queue, 1, n)) <= MaxSize(call[queue[1]].size)

BuildBatchGroup ==
    SubSeq(queue, 1, Max({n \in 1..Len(queue) : \A k \in 2..n : Joins(k)}))

StartLogging(t) ==
    /\ AtFront(t) /\ ~bgError /\ ~Delayed(t) /\ HasRoom(t) /\ ~Empty(t)
    /\ group' = BuildBatchGroup
    /\ pc' = [pc EXCEPT ![t] = "logging"]
    /\ UNCHANGED <<call, queue, signalled, done, force, delay, ok, memVars, bgVars,
                   bgError, closing, dangling, history, failures>>

(* The end of Write: the calls of the group leave the queue with the status *)
(* of the first, and the new front is woken.                                *)
(* Mutant: the new front is not woken.                                      *)
LeaveSilently(t, ts, isOk) ==
    /\ queue' = SubSeq(queue, Len(ts) + 1, Len(queue))
    /\ done' = done \cup ToSet(ts)
    /\ ok' = IF isOk THEN ok \cup ToSet(ts) ELSE ok \ ToSet(ts)
    /\ signalled' = signalled \cup (ToSet(ts) \ {t})
    /\ answered' = IF Empty(t) THEN answered ELSE answered \cup {Answer(t, isOk)}

Leave(t, ts, isOk) ==
    LET rest == SubSeq(queue, Len(ts) + 1, Len(queue))
    IN  /\ queue' = rest
        /\ done' = done \cup ToSet(ts)
        /\ ok' = IF isOk THEN ok \cup ToSet(ts) ELSE ok \ ToSet(ts)
        /\ signalled' = signalled \cup (ToSet(ts) \ {t})
                            \cup (IF rest = <<>> THEN {} ELSE {Head(rest)})
        /\ answered' = IF Empty(t) THEN answered ELSE answered \cup {Answer(t, isOk)}

(* The ids of the group in their order, a call without a batch adding an    *)
(* empty one to the record, and those with something to insert.             *)
Logged   == [i \in 1..Len(group) |-> call[group[i]].id]
Inserted == {call[u].id : u \in {v \in ToSet(group) : ~Empty(v)}}

EndLogging(t) ==
    /\ pc[t] = "logging"
    /\ log' = log \o Logged
    /\ mem' = mem \cup Inserted /\ fresh' = fresh \cup Inserted
    /\ synced' = IF call[t].kind = "sync" THEN synced \cup fresh' ELSE synced
    /\ Leave(t, group, TRUE)
    /\ group' = <<>>
    /\ pc' = [pc EXCEPT ![t] = "idle"]
    /\ UNCHANGED <<call, force, delay, imm, level0, bgVars, bgError, closing,
                   dangling, before, calls, failures>>

(* AddRecord fails and nothing else happens, or Sync fails and the database *)
(* takes no more writes.                                                    *)
AddRecordFails(t) ==
    /\ pc[t] = "logging" /\ Fails
    /\ Leave(t, group, FALSE)
    /\ group' = <<>>
    /\ pc' = [pc EXCEPT ![t] = "idle"]
    /\ UNCHANGED <<call, force, delay, memVars, bgVars, bgError, closing, dangling,
                   log, synced, fresh, before, calls>>

SyncFails(t) ==
    /\ pc[t] = "logging" /\ call[t].kind = "sync" /\ Fails
    /\ log' = log \o Logged
    /\ Leave(t, group, FALSE)
    /\ group' = <<>>
    /\ RecordBackgroundError([pc EXCEPT ![t] = "idle"])
    /\ UNCHANGED <<call, force, delay, memVars, bgVars, closing, dangling, synced,
                   fresh, before, calls>>

(* No room because of an error, no file for a new log, or nothing to log.   *)
LeaveAlone(t, isOk) ==
    /\ Leave(t, <<t>>, isOk)
    /\ pc' = [pc EXCEPT ![t] = AfterWrite(t, isOk)]
    /\ UNCHANGED <<call, force, delay, group, memVars, bgVars, bgError, closing,
                   dangling, log, synced, fresh, before, calls>>

NoRoom(t) == AtFront(t) /\ bgError /\ LeaveAlone(t, FALSE) /\ UNCHANGED failures

NewLogFails(t) ==
    /\ AtFront(t) /\ ~bgError /\ ~Delayed(t) /\ ~HasRoom(t)
    /\ imm = <<>> /\ level0 < Stop /\ Fails
    /\ LeaveAlone(t, FALSE)

NothingToLog(t) ==
    /\ AtFront(t) /\ ~bgError /\ ~Delayed(t) /\ HasRoom(t) /\ Empty(t)
    /\ LeaveAlone(t, TRUE) /\ UNCHANGED failures

-----------------------------------------------------------------------------
(* TEST_CompactMemTable after its write: until there is no imm_.            *)
AwaitFlush(t) ==
    /\ pc[t] = "flush"
    /\ pc' = [pc EXCEPT ![t] = IF imm # <<>> /\ ~bgError THEN "flushwait" ELSE "manual"]
    /\ ok' = IF imm # <<>> THEN ok \ {t} ELSE ok
    /\ UNCHANGED <<call, queueVars, memVars, bgVars, bgError, closing, dangling,
                   history, failures>>

(* One round of the loop of TEST_CompactRange, and its end.                 *)
GoesOn(t) == t \notin rangeDone /\ closing = "no" /\ ~bgError

RequestManual(t) ==
    /\ pc[t] = "manual" /\ GoesOn(t) /\ manual = {}
    /\ manual' = {t}
    /\ UNCHANGED <<pc, call, queueVars, ok, memVars, bg, left, rangeDone, bgError,
                   closing, dangling, history, failures>>
    /\ MaybeScheduleCompaction(scheduled)

AwaitManual(t) ==
    /\ pc[t] = "manual" /\ GoesOn(t) /\ manual # {}
    /\ pc' = [pc EXCEPT ![t] = "manualwait"]
    /\ UNCHANGED <<call, queueVars, ok, memVars, bgVars, bgError, closing, dangling,
                   history, failures>>

EndManual(t) ==
    /\ pc[t] = "manual" /\ ~GoesOn(t)
    /\ manual' = manual \ {t}
    /\ pc' = [pc EXCEPT ![t] = "idle"]
    /\ answered' = answered \cup {Answer(t, TRUE)}
    /\ UNCHANGED <<call, queueVars, ok, memVars, scheduled, bg, left, rangeDone,
                   bgError, closing, dangling, log, synced, fresh, before, calls,
                   failures>>

-----------------------------------------------------------------------------
(* The background thread: BackgroundCall, which takes a flush before a      *)
(* manual compaction before any other, and works without the mutex.         *)
StartBackground ==
    /\ scheduled /\ bg = "idle" /\ closing = "no" /\ ~bgError
    /\ bg' = IF imm # <<>> THEN "flush"
             ELSE IF manual = {} THEN "merge"
             ELSE IF \E t \in manual : left[t] = 0 THEN "nothing" ELSE "manual"
    /\ rangeDone' = IF imm = <<>> THEN rangeDone \cup {t \in manual : left[t] = 0}
                    ELSE rangeDone
    /\ UNCHANGED <<pc, call, queueVars, ok, memVars, scheduled, manual, left,
                   bgError, closing, dangling, history, failures>>

(* The end of BackgroundCall.                                               *)
EndCall(p) ==
    /\ bg' = "idle"
    /\ MaybeScheduleCompaction(FALSE)
    /\ pc' = SignalAll(p)

SkipBackground ==
    /\ scheduled /\ bg = "idle" /\ (closing # "no" \/ bgError)
    /\ UNCHANGED <<call, queueVars, ok, memVars, manual, left, rangeDone, bgError,
                   closing, dangling, history, failures>>
    /\ EndCall(pc)

(* CompactMemTable, to level 0 or below.                                    *)
FlushDone ==
    /\ bg = "flush"
    /\ imm' = <<>>
    /\ level0' \in {level0, level0 + 1}
    /\ UNCHANGED <<call, queueVars, ok, mem, manual, left, rangeDone, bgError,
                   closing, dangling, history, failures>>
    /\ EndCall(pc)

FlushFails ==
    /\ bg = "flush"
    /\ closing = "no" => Fails
    /\ closing # "no" => UNCHANGED failures
    /\ bgError' = TRUE
    /\ UNCHANGED <<call, queueVars, ok, memVars, manual, left, rangeDone, closing,
                   dangling, history>>
    /\ EndCall(pc)

(* DoCompactionWork flushes an imm_ it meets and wakes who waits for it.    *)
Merging == bg \in {"merge", "manual"}

FlushBetween ==
    /\ Merging /\ imm # <<>>
    /\ imm' = <<>>
    /\ level0' \in {level0, level0 + 1}
    /\ pc' = SignalAll(pc)
    /\ UNCHANGED <<call, queueVars, ok, mem, bgVars, bgError, closing, dangling,
                   history, failures>>

FlushBetweenFails ==
    /\ Merging /\ imm # <<>> /\ Fails
    /\ bgError' = TRUE
    /\ pc' = SignalAll(pc)
    /\ UNCHANGED <<call, queueVars, ok, memVars, bgVars, closing, dangling, history>>

(* The end of BackgroundCompaction: a manual one reports to the request     *)
(* that manual_compaction_ points to by then.                               *)
Report(isOk) ==
    IF bg = "merge" THEN UNCHANGED <<manual, left, rangeDone, dangling>>
    ELSE /\ manual' = {}
         /\ left' = [t \in Threads |-> IF t \in manual /\ isOk /\ left[t] > 0
                                       THEN left[t] - 1 ELSE left[t]]
         /\ rangeDone' = IF isOk THEN rangeDone ELSE rangeDone \cup manual
         /\ dangling' = (dangling \/ manual = {})

NothingToCompact ==
    /\ bg = "nothing"
    /\ Report(TRUE)
    /\ UNCHANGED <<call, queueVars, ok, memVars, bgError, closing, history, failures>>
    /\ EndCall(pc)

MergeDone ==
    /\ Merging
    /\ level0' \in 0..(IF bg = "merge" THEN level0 - 1 ELSE level0)
    /\ Report(TRUE)
    /\ UNCHANGED <<call, queueVars, ok, mem, imm, bgError, closing, history, failures>>
    /\ EndCall(pc)

MergeFails ==
    /\ Merging
    /\ closing = "no" => Fails
    /\ closing # "no" => UNCHANGED failures
    /\ bgError' = TRUE
    /\ Report(FALSE)
    /\ UNCHANGED <<call, queueVars, ok, memVars, closing, history>>
    /\ EndCall(pc)

-----------------------------------------------------------------------------
(* The destructor, which nobody else may run beside.                        *)
Close ==
    /\ closing = "no" /\ \A t \in Threads : pc[t] = "idle"
    /\ closing' = IF scheduled THEN "waits" ELSE "gone"
    /\ UNCHANGED <<pc, call, queueVars, ok, memVars, bgVars, bgError, dangling,
                   history, failures>>

CloseWakes ==
    /\ closing = "waits" /\ ~scheduled
    /\ closing' = "gone"
    /\ UNCHANGED <<pc, call, queueVars, ok, memVars, bgVars, bgError, dangling,
                   history, failures>>

-----------------------------------------------------------------------------
Caller(t) ==
    \/ WakeInQueue(t) \/ Sleep(t) \/ EndSleep(t) \/ WaitForRoom(t) \/ SwitchMemTable(t)
    \/ StartLogging(t) \/ EndLogging(t) \/ AddRecordFails(t) \/ SyncFails(t)
    \/ NoRoom(t) \/ NewLogFails(t) \/ NothingToLog(t)
    \/ AwaitFlush(t) \/ RequestManual(t) \/ AwaitManual(t) \/ EndManual(t)

Background ==
    \/ StartBackground \/ SkipBackground \/ FlushDone \/ FlushFails \/ FlushBetween
    \/ FlushBetweenFails \/ NothingToCompact \/ MergeDone \/ MergeFails

Next ==
    \/ \E t \in Threads, k \in Kinds, n \in Sizes : Begin(t, k, IF k = "compact" THEN 0 ELSE n)
    \/ \E t \in Threads : Caller(t)
    \/ Background
    \/ Close \/ CloseWakes

Spec == Init /\ [][Next]_vars

-----------------------------------------------------------------------------
Leading  == {"room", "sleep", "roomwait", "logging"}
Compacts == {"flush", "flushwait", "manual", "manualwait"}

Places   == {"idle", "queued"} \cup Leading \cup Compacts

CallTypes ==
    /\ pc \in [Threads -> Places]
    /\ call \in [Threads -> [id : Nat, kind : {"write", "sync", "compact"}, size : Nat]]
    /\ queue \in Seq(Threads) /\ group \in Seq(Threads) /\ log \in Seq(Nat)
    /\ calls \in Nat

StoreTypes ==
    /\ (signalled \cup done \cup ok \cup force \cup delay \cup rangeDone) \subseteq Threads
    /\ mem \subseteq Nat /\ synced \subseteq Nat /\ fresh \subseteq Nat
    /\ imm # <<>> => (imm[1] \subseteq Nat /\ imm = <<imm[1]>>)
    /\ level0 \in Nat
    /\ scheduled \in BOOLEAN /\ bgError \in BOOLEAN /\ dangling \in BOOLEAN
    /\ bg \in {"idle", "flush", "merge", "manual", "nothing"}
    /\ closing \in {"no", "waits", "gone"}
    /\ left \in [Threads -> Nat]
    /\ manual = {} \/ \E t \in Threads : manual = {t}
    /\ failures \in Nat

(* Types, with what must go together: the queue holds exactly the calls     *)
(* that are waiting or at work, only its front makes room or logs, and the  *)
(* group is at the front.                                                   *)
TypeOK ==
    /\ CallTypes /\ StoreTypes
    /\ \A t \in Threads :
        /\ pc[t] \in {"queued"} \cup Leading =>
                (t \in ToSet(queue) <=> ~(pc[t] = "queued" /\ t \in done))
        /\ pc[t] \in Leading => Head(queue) = t
    /\ group = SubSeq(queue, 1, Len(group))
    /\ bg # "idle" => scheduled

(* Batches reach the log in the order in which their calls queued up, each  *)
(* at most once (writers_, BuildBatchGroup).                                *)
LoggedInOrder == \A i \in 1..Len(log), j \in 1..Len(log) : i < j => log[i] < log[j]

(* An answer is true: a write that is ok is in the log, a sync write that   *)
(* is ok was synced, whoever led the group it was in (BuildBatchGroup:      *)
(* "Do not include a sync write into a batch handled by a non-sync write"). *)
AnswersHold ==
    \A a \in answered : a.ok =>
        /\ a.kind # "compact" => a.id \in ToSet(log)
        /\ a.kind = "sync" => a.id \in synced

(* "Force current memtable contents to be compacted" (db_impl.h): when      *)
(* TEST_CompactMemTable is ok, nothing that was in the memtable when it was *)
(* called still is.                                                         *)
MemTableCompacted ==
    \A t \in Threads : pc[t] = "manual" /\ t \in ok => before[t] \cap mem = {}

(* "Cancel my manual compaction since we aborted early" (TEST_CompactRange):*)
(* the background thread never reports to a request that is gone.           *)
ManualOutlivesWork == ~dangling

(* After the destructor the background thread is not at work                *)
(* (DBImpl::~DBImpl, MaybeScheduleCompaction).                              *)
NoWorkAfterClose == closing = "gone" => ~scheduled /\ bg = "idle"

(* What Write promises to the threads that call it.                         *)
WritersAnswered == TypeOK /\ LoggedInOrder /\ AnswersHold /\ NoWorkAfterClose

=============================================================================
