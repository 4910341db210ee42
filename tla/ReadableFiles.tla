---------------------------- MODULE ReadableFiles ----------------------------
(***************************************************************************)
(* The table files a LevelDB process keeps open (util/env_posix.cc):       *)
(* NewRandomAccessFile maps a file while the mmap limiter allows it, else  *)
(* keeps its descriptor while the fd limiter allows that, else opens it    *)
(* for every read.  A Limiter is one counter that is taken down and, on    *)
(* failure, put back by two atomic operations; threads come in between.    *)
(* A thread opens one file, reads it any number of times and deletes it.   *)
(***************************************************************************)
EXTENDS Integers, FiniteSets

CONSTANTS Threads,
          MaxMmaps,     \* the limit of mmap_limiter_
          MaxOpenFiles  \* the limit of fd_limiter_

(* What the constants are assumed to be.                                    *)
LimiterConstants ==
  MaxMmaps \in Nat /\ MaxOpenFiles \in Nat /\ IsFiniteSet(Threads)

VARIABLES allowed,  \* acquires_allowed_ of the limiters "mmap" and "fd"
          pc,       \* what each thread is doing
          fds,      \* does the thread have a descriptor of its file open?
          kind,     \* the class of its RandomAccessFile
          turnedAway \* did its last Acquire fail although a slot was held by nobody?

vars == <<allowed, pc, fds, kind, turnedAway>>

Limiters == {"mmap", "fd"}
Limit(l) == IF l = "mmap" THEN MaxMmaps ELSE MaxOpenFiles

Goto(t, place) == pc' = [pc EXCEPT ![t] = place]

\* A thread holds a slot of l from its fetch_sub to the fetch_add of Release.
Holds(t, l) ==
  \/ kind[t] = l \/ pc[t] = l
  \/ l = "mmap" /\ pc[t] = "maps"

Held(l) == {t \in Threads : Holds(t, l)}

\* A thread whose fetch_sub found nothing has yet to put back what it took.
Owes(t, l) == pc[t] = IF l = "mmap" THEN "noMap" ELSE "noFd"

Owing(l) == {t \in Threads : Owes(t, l)}

-----------------------------------------------------------------------------
(* Limiter::Acquire: fetch_sub, and fetch_add again when nothing was left.  *)

Take(l) == allowed' = [allowed EXCEPT ![l] = @ - 1]
Give(l) == allowed' = [allowed EXCEPT ![l] = @ + 1]

Takes(l) == allowed[l] > 0

\* fetch_sub on l; the caller goes on at won or at lost.
Acquire(t, l, won, lost) ==
  /\ Take(l)
  /\ Goto(t, IF Takes(l) THEN won ELSE lost)
  /\ turnedAway' = [turnedAway EXCEPT ![t] = ~Takes(l) /\ Cardinality(Held(l)) < Limit(l)]

-----------------------------------------------------------------------------
(* NewRandomAccessFile and the constructors. *)

Open(t) ==
  /\ pc[t] = "out"
  /\ fds' = [fds EXCEPT ![t] = TRUE]
  /\ Goto(t, "opened")
  /\ UNCHANGED <<allowed, kind, turnedAway>>

AcquireMmap(t) ==
  /\ pc[t] = "opened"
  /\ Acquire(t, "mmap", "maps", "noMap")
  /\ UNCHANGED <<fds, kind>>

GiveBackMmap(t) ==
  /\ pc[t] = "noMap"
  /\ Give("mmap")
  /\ Goto(t, "asksFd")
  /\ UNCHANGED <<fds, kind, turnedAway>>

\* GetFileSize and mmap; the descriptor is closed either way.
Mmap(t) ==
  /\ pc[t] = "maps"
  /\ kind' = [kind EXCEPT ![t] = "mmap"]
  /\ fds' = [fds EXCEPT ![t] = FALSE]
  /\ Goto(t, "in")
  /\ UNCHANGED <<allowed, turnedAway>>

\* Mutant: a failed mmap keeps its slot.
MmapFailsLeaks(t) ==
  /\ pc[t] = "maps"
  /\ fds' = [fds EXCEPT ![t] = FALSE]
  /\ Goto(t, "out")
  /\ UNCHANGED <<allowed, kind, turnedAway>>

MmapFails(t) ==
  /\ pc[t] = "maps"
  /\ fds' = [fds EXCEPT ![t] = FALSE]
  /\ Give("mmap")
  /\ Goto(t, "out")
  /\ UNCHANGED <<kind, turnedAway>>

\* The constructor of PosixRandomAccessFile.
AcquireFd(t) ==
  /\ pc[t] = "asksFd"
  /\ Acquire(t, "fd", "in", "noFd")
  /\ kind' = [kind EXCEPT ![t] = IF Takes("fd") THEN "fd" ELSE "none"]
  /\ UNCHANGED fds

GiveBackFd(t) ==
  /\ pc[t] = "noFd"
  /\ Give("fd")
  /\ Goto(t, "closes")
  /\ UNCHANGED <<fds, kind, turnedAway>>

CloseUnlisted(t) ==
  /\ pc[t] = "closes"
  /\ fds' = [fds EXCEPT ![t] = FALSE]
  /\ kind' = [kind EXCEPT ![t] = "temporary"]
  /\ Goto(t, "in")
  /\ UNCHANGED <<allowed, turnedAway>>

\* Read without a descriptor of its own opens the file and closes it again.
BeginRead(t) ==
  /\ pc[t] = "in"
  /\ kind[t] = "temporary"
  /\ fds' = [fds EXCEPT ![t] = TRUE]
  /\ Goto(t, "reads")
  /\ UNCHANGED <<allowed, kind, turnedAway>>

EndRead(t) ==
  /\ pc[t] = "reads"
  /\ fds' = [fds EXCEPT ![t] = FALSE]
  /\ Goto(t, "in")
  /\ UNCHANGED <<allowed, kind, turnedAway>>

\* The destructors: munmap or close first, then Release.
Delete(t) ==
  /\ pc[t] = "in"
  /\ fds' = [fds EXCEPT ![t] = FALSE]
  /\ kind' = [kind EXCEPT ![t] = "none"]
  /\ IF kind[t] = "temporary" THEN Goto(t, "out") ELSE Goto(t, kind[t])
  /\ UNCHANGED <<allowed, turnedAway>>

Release(t) ==
  /\ pc[t] \in Limiters
  /\ Give(pc[t])
  /\ Goto(t, "out")
  /\ UNCHANGED <<fds, kind, turnedAway>>

-----------------------------------------------------------------------------

Init ==
  /\ allowed = [l \in Limiters |-> Limit(l)]
  /\ pc = [t \in Threads |-> "out"]
  /\ fds = [t \in Threads |-> FALSE]
  /\ kind = [t \in Threads |-> "none"]
  /\ turnedAway = [t \in Threads |-> FALSE]

Next ==
  \E t \in Threads :
    \/ Open(t) \/ AcquireMmap(t) \/ GiveBackMmap(t) \/ Mmap(t) \/ MmapFails(t)
    \/ AcquireFd(t) \/ GiveBackFd(t) \/ CloseUnlisted(t)
    \/ BeginRead(t) \/ EndRead(t) \/ Delete(t) \/ Release(t)

Spec == Init /\ [][Next]_vars

-----------------------------------------------------------------------------
(* Properties. *)

TypeOK ==
  /\ allowed \in [Limiters -> -Cardinality(Threads) .. MaxMmaps + MaxOpenFiles]
  /\ pc \in [Threads -> {"out", "opened", "maps", "noMap", "asksFd", "noFd",
                         "closes", "in", "reads", "mmap", "fd"}]
  /\ fds \in [Threads -> BOOLEAN]
  /\ kind \in [Threads -> {"none", "mmap", "fd", "temporary"}]
  /\ turnedAway \in [Threads -> BOOLEAN]
  /\ \A t \in Threads : kind[t] = "fd" => fds[t]

(* The limits hold whatever the threads do: never more mapped files than   *)
(* MaxMmaps, and never more descriptors kept than MaxOpenFiles.            *)
WithinLimits == \A l \in Limiters : Cardinality(Held(l)) <= Limit(l)

(* No path through the files loses a slot or gives one back twice: at      *)
(* every moment the counter, the slots in use and the failed calls that    *)
(* have yet to put back their fetch_sub add up to the limit.               *)
SlotsAddUp ==
  \A l \in Limiters :
     allowed[l] + Cardinality(Held(l)) + Cardinality(Owing(l)) = Limit(l)

(* What the limiters keep, whatever the threads do and whatever fails.     *)
LimitsKept == TypeOK /\ WithinLimits /\ SlotsAddUp

(* The comment on Acquire: "If another resource is available, acquire it   *)
(* and return true. Else return false."  No call fails while a slot is     *)
(* held by nobody.                                                         *)
FailsOnlyWhenFull == \A t \in Threads : ~turnedAway[t]

=============================================================================
