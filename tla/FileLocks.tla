------------------------------ MODULE FileLocks ------------------------------
(***************************************************************************)
(* Who may use a LevelDB directory: PosixEnv::LockFile and UnlockFile      *)
(* (util/env_posix.cc) on its LOCK file, called by DB::Open, by the        *)
(* destructor of DBImpl and by DestroyDB (db/db_impl.cc), from several     *)
(* threads of several processes.  Every system call and every use of the   *)
(* process's lock table is a step.  The record lock of fcntl belongs to a  *)
(* process and a file, and goes when the process closes any descriptor of  *)
(* that file.                                                              *)
(***************************************************************************)
EXTENDS Naturals, FiniteSets

CONSTANTS Procs,
          Threads,   \* the threads of each process
          Destroys,  \* may a thread call DestroyDB?
          MaxFiles,  \* bound on the LOCK files that exist or are open at once
          None

(* What the constants are assumed to be.                                    *)
LockConstants ==
  Destroys \in BOOLEAN /\ MaxFiles \in Nat \ {0} /\ None \notin Procs

VARIABLES file,    \* the file the name LOCK now refers to, 0 for none
          owner,   \* the process that has the record lock of each file
          listed,  \* locks_ of each process: is the name in it?
          pc,      \* what each thread is doing
          fd       \* the file its descriptor refers to

vars == <<file, owner, listed, pc, fd>>

Callers == Procs \X Threads
Files   == 1 .. MaxFiles

\* close(2): the process loses its record lock on the file, however it got it.
Close(p, f) == owner' = [owner EXCEPT ![f] = IF @ = p THEN None ELSE @]

Goto(c, place) == pc' = [pc EXCEPT ![c] = place]

-----------------------------------------------------------------------------
(* LockFile. *)

InUse(f) == owner[f] # None \/ \E c \in Callers : pc[c] # "out" /\ fd[c] = f

OpenLock(c) ==
  /\ pc[c] = "out"
  /\ \/ /\ file # 0
        /\ fd' = [fd EXCEPT ![c] = file]
        /\ UNCHANGED file
     \/ /\ file = 0
        /\ file' \in {f \in Files : ~InUse(f)}
        /\ fd' = [fd EXCEPT ![c] = file']
  /\ Goto(c, "opened")
  /\ UNCHANGED <<owner, listed>>

\* Mutant: the answer of the lock table is not looked at.
InsertNameAnyway(c) ==
  /\ pc[c] = "opened"
  /\ listed' = [listed EXCEPT ![c[1]] = TRUE]
  /\ Goto(c, "listed")
  /\ UNCHANGED <<file, owner, fd>>

\* PosixLockTable::Insert, which fails when another thread has the name there.
InsertName(c) ==
  /\ pc[c] = "opened"
  /\ ~listed[c[1]]
  /\ listed' = [listed EXCEPT ![c[1]] = TRUE]
  /\ Goto(c, "listed")
  /\ UNCHANGED <<file, owner, fd>>

AlreadyHeld(c) ==
  /\ pc[c] = "opened"
  /\ listed[c[1]]
  /\ Close(c[1], fd[c])
  /\ Goto(c, "out")
  /\ UNCHANGED <<file, listed, fd>>

\* F_SETLK, which does not wait.
Granted(p, f) == owner[f] \in {None, p}

SetLock(c) ==
  /\ pc[c] = "listed"
  /\ Granted(c[1], fd[c])
  /\ owner' = [owner EXCEPT ![fd[c]] = c[1]]
  /\ Goto(c, "holds")
  /\ UNCHANGED <<file, listed, fd>>

SetLockFails(c) ==
  /\ pc[c] = "listed"
  /\ ~Granted(c[1], fd[c])
  /\ Close(c[1], fd[c])
  /\ Goto(c, "refused")
  /\ UNCHANGED <<file, listed, fd>>

RemoveRefused(c) ==
  /\ pc[c] = "refused"
  /\ listed' = [listed EXCEPT ![c[1]] = FALSE]
  /\ Goto(c, "out")
  /\ UNCHANGED <<file, owner, fd>>

-----------------------------------------------------------------------------
(* UnlockFile; DestroyDB unlinks the LOCK file behind it. *)

Unlock(c) ==
  /\ pc[c] = "holds"
  /\ owner' = [owner EXCEPT ![fd[c]] = IF @ = c[1] THEN None ELSE @]
  /\ \/ Goto(c, "unlocked")
     \/ Destroys /\ Goto(c, "unlockedToDestroy")
  /\ UNCHANGED <<file, listed, fd>>

\* F_UNLCK fails: the name stays in the table and the descriptor stays open.
UnlockFails(c) ==
  /\ pc[c] = "holds"
  /\ Goto(c, "out")
  /\ UNCHANGED <<file, owner, listed, fd>>

RemoveName(c) ==
  /\ pc[c] \in {"unlocked", "unlockedToDestroy"}
  /\ listed' = [listed EXCEPT ![c[1]] = FALSE]
  /\ Goto(c, IF pc[c] = "unlocked" THEN "unlisted" ELSE "unlistedToDestroy")
  /\ UNCHANGED <<file, owner, fd>>

CloseLock(c) ==
  /\ pc[c] \in {"unlisted", "unlistedToDestroy"}
  /\ Close(c[1], fd[c])
  /\ Goto(c, IF pc[c] = "unlisted" THEN "out" ELSE "deletes")
  /\ UNCHANGED <<file, listed, fd>>

DeleteLock(c) ==
  /\ pc[c] = "deletes"
  /\ file' = 0
  /\ Goto(c, "out")
  /\ UNCHANGED <<owner, listed, fd>>

\* A process ends; the system gives back its locks.
Exit(p) ==
  /\ listed[p] \/ \E t \in Threads : pc[<<p, t>>] # "out"
  /\ owner' = [f \in Files |-> IF owner[f] = p THEN None ELSE owner[f]]
  /\ listed' = [listed EXCEPT ![p] = FALSE]
  /\ pc' = [c \in Callers |-> IF c[1] = p THEN "out" ELSE pc[c]]
  /\ UNCHANGED <<file, fd>>

-----------------------------------------------------------------------------

Init ==
  /\ file = 0
  /\ owner = [f \in Files |-> None]
  /\ listed = [p \in Procs |-> FALSE]
  /\ pc = [c \in Callers |-> "out"]
  /\ fd = [c \in Callers |-> 0]

Next ==
  \/ \E c \in Callers :
       \/ OpenLock(c) \/ InsertName(c) \/ AlreadyHeld(c)
       \/ SetLock(c) \/ SetLockFails(c) \/ RemoveRefused(c)
       \/ Unlock(c) \/ UnlockFails(c) \/ RemoveName(c) \/ CloseLock(c)
       \/ DeleteLock(c)
  \/ \E p \in Procs : Exit(p)

Spec == Init /\ [][Next]_vars

-----------------------------------------------------------------------------
(* Properties. *)

Places == {"out", "opened", "listed", "holds", "refused", "unlocked", "unlisted",
           "unlockedToDestroy", "unlistedToDestroy", "deletes"}

TypeOK ==
  /\ file \in 0 .. MaxFiles
  /\ owner \in [Files -> Procs \cup {None}]
  /\ listed \in [Procs -> BOOLEAN]
  /\ pc \in [Callers -> Places]
  /\ fd \in [Callers -> 0 .. MaxFiles]

Holders == {c \in Callers : pc[c] = "holds"}

(* env.h on LockFile: "Used to prevent concurrent access to the same db by *)
(* multiple processes."  No two callers have the directory at once.        *)
Exclusive == Cardinality(Holders) <= 1

(* The part of it the lock table is for: two threads of one process never  *)
(* have the directory at once, whatever becomes of the record lock.        *)
OncePerProcess ==
  \A c, d \in Holders : c[1] = d[1] => c = d

OneThread == \A s, t \in Threads : s = t

(* What LockFile gives: one holder per process always, and one holder in   *)
(* all while nobody destroys the database and no second thread of a        *)
(* process tries the lock (its close would give up the record lock).       *)
LocksExclude ==
  /\ TypeOK
  /\ OncePerProcess
  /\ ~Destroys /\ OneThread => Exclusive

=============================================================================
