--------------------------- MODULE BackgroundQueue ---------------------------
(***************************************************************************)
(* The background thread of a LevelDB process (PosixEnv::Schedule and      *)
(* BackgroundThreadMain in util/env_posix.cc) under the databases that     *)
(* share it.  A database has at most one work item queued or running, and  *)
(* its item may schedule the next one before it ends (MaybeSchedule-       *)
(* Compaction and BackgroundCall in db/db_impl.cc).  What is done under    *)
(* background_work_mutex_ is one step; Wait gives the mutex up and returns *)
(* after a Signal or for no reason.                                        *)
(***************************************************************************)
EXTENDS Naturals, Sequences

CONSTANTS Databases,
          MaxItems  \* bound on the items scheduled for each database

(* What the constants are assumed to be.                                    *)
QueueBound == MaxItems \in Nat

VARIABLES started,    \* started_background_thread_
          queue,      \* background_work_queue_
          thread,     \* where the thread is: "none", "checks", "waits", "woken", "runs"
          work,       \* the item it runs
          scheduled,  \* background_compaction_scheduled_ of each database
          count,      \* number of items scheduled for each database
          ran,        \* the items that were run, in their order
          asked       \* the items in the order of the calls of Schedule

vars == <<started, queue, thread, work, scheduled, count, ran, asked>>

Items == Databases \X (1 .. MaxItems)
NoItem == <<>>

-----------------------------------------------------------------------------

\* Schedule: the first call starts the thread; a waiting thread is signalled
\* only when the queue is empty.
Woken ==
  IF ~started THEN "checks"
  ELSE IF thread = "waits" /\ queue = <<>> THEN "woken" ELSE thread

\* Mutant: the newest item goes to the front.
PutFirst(d) == <<<<d, count[d] + 1>>>> \o queue

Put(d) == Append(queue, <<d, count[d] + 1>>)

Schedule(d) ==
  /\ ~scheduled[d]
  /\ count[d] < MaxItems
  /\ started' = TRUE
  /\ thread' = Woken
  /\ queue' = Put(d)
  /\ scheduled' = [scheduled EXCEPT ![d] = TRUE]
  /\ count' = [count EXCEPT ![d] = @ + 1]
  /\ asked' = Append(asked, <<d, count[d] + 1>>)
  /\ UNCHANGED <<work, ran>>

\* The loop of BackgroundThreadMain around Wait.
Check ==
  /\ thread = "checks"
  /\ queue = <<>>
  /\ thread' = "waits"
  /\ UNCHANGED <<started, queue, work, scheduled, count, ran, asked>>

\* The thread leaves Wait: signalled, or for no reason.
Wake ==
  /\ thread = "woken"
  /\ thread' = "checks"
  /\ UNCHANGED <<started, queue, work, scheduled, count, ran, asked>>

WakeSpuriously ==
  /\ thread = "waits"
  /\ thread' = "checks"
  /\ UNCHANGED <<started, queue, work, scheduled, count, ran, asked>>

\* The first item is taken off the queue and run with the mutex free.
Take ==
  /\ thread = "checks"
  /\ queue # <<>>
  /\ work' = Head(queue)
  /\ queue' = Tail(queue)
  /\ ran' = Append(ran, Head(queue))
  /\ thread' = "runs"
  /\ UNCHANGED <<started, scheduled, count, asked>>

\* BackgroundCall ends its compaction: the database may schedule again ...
Clear ==
  /\ thread = "runs"
  /\ work # NoItem
  /\ scheduled[work[1]]
  /\ count[work[1]] = work[2]
  /\ scheduled' = [scheduled EXCEPT ![work[1]] = FALSE]
  /\ UNCHANGED <<started, queue, thread, work, count, ran, asked>>

\* ... and the function returns to the loop of the thread.
Return ==
  /\ thread = "runs"
  /\ ~(scheduled[work[1]] /\ count[work[1]] = work[2])
  /\ thread' = "checks"
  /\ work' = NoItem
  /\ UNCHANGED <<started, queue, scheduled, count, ran, asked>>

-----------------------------------------------------------------------------

Init ==
  /\ started = FALSE
  /\ queue = <<>>
  /\ thread = "none"
  /\ work = NoItem
  /\ scheduled = [d \in Databases |-> FALSE]
  /\ count = [d \in Databases |-> 0]
  /\ ran = <<>>
  /\ asked = <<>>

ThreadStep == Check \/ Wake \/ Take \/ Clear \/ Return

Next == (\E d \in Databases : Schedule(d)) \/ ThreadStep \/ WakeSpuriously

Spec == Init /\ [][Next]_vars

-----------------------------------------------------------------------------
(* Properties. *)

TypeOK ==
  /\ started \in BOOLEAN
  /\ started <=> thread # "none"
  /\ queue \in Seq(Items)
  /\ thread \in {"none", "checks", "waits", "woken", "runs"}
  /\ work \in Items \cup {NoItem}
  /\ thread = "runs" <=> work # NoItem
  /\ scheduled \in [Databases -> BOOLEAN]
  /\ count \in [Databases -> 0 .. MaxItems]
  /\ ran \in Seq(Items)
  /\ asked \in Seq(Items)

(* Every item is run once, in the order of the calls of Schedule, though   *)
(* an item may be queued by the one that is running.                       *)
InOrder ==
  /\ ran \o queue = asked
  /\ \A i, j \in 1 .. Len(asked) : asked[i] = asked[j] => i = j

(* A database never has a second item queued, nor one queued while an item *)
(* of its own is running and has not cleared its flag.                     *)
OneItemEach ==
  /\ \A i, j \in 1 .. Len(queue) : queue[i][1] = queue[j][1] => i = j
  /\ \A i \in 1 .. Len(queue) :
       /\ scheduled[queue[i][1]]
       /\ work # NoItem /\ queue[i][1] = work[1] => count[work[1]] # work[2]

(* No signal is lost: the thread never waits while work is queued, though  *)
(* Schedule signals only when it found the queue empty.                    *)
NoLostSignal == thread = "waits" => queue = <<>>

(* What the background thread promises to the databases.                   *)
RunsInOrder == TypeOK /\ InOrder /\ OneItemEach /\ NoLostSignal

=============================================================================
