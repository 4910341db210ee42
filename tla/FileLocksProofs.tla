--------------------------- MODULE FileLocksProofs ---------------------------
(***************************************************************************)
(* The LOCK file keeps the database to one holder, for any processes, any  *)
(* threads and any number of files.                                        *)
(*                                                                         *)
(* A holder alone says nothing of the steps around it.  The lock table     *)
(* holds a place for a thread from Insert to Remove, on every path between *)
(* (Inside); the record lock is on the file that the name LOCK refers to,  *)
(* which nobody replaces while nobody destroys the database.               *)
(***************************************************************************)
EXTENDS FileLocks, FiniteSetTheorems, TLAPS

(* From PosixLockTable::Insert to PosixLockTable::Remove.                    *)
Inside == {"listed", "holds", "refused", "unlocked", "unlockedToDestroy"}

(* A thread that is inside has the name in its process's table, and no other *)
(* thread of the process is.                                                 *)
TableGuards ==
  /\ \A c \in Callers : pc[c] \in Inside => listed[c[1]]
  /\ \A c, d \in Callers :
        pc[c] \in Inside /\ pc[d] \in Inside /\ c[1] = d[1] => c = d

(* Where nobody destroys, every descriptor is of the one LOCK file, and its  *)
(* holder's process has the record lock.                                     *)
OneFile ==
  \A c \in Callers :
     /\ pc[c] \notin {"unlockedToDestroy", "unlistedToDestroy", "deletes"}
     /\ pc[c] # "out" => fd[c] = file /\ file # 0
     /\ pc[c] = "holds" => owner[file] = c[1]

LockInv ==
  /\ TypeOK
  /\ TableGuards
  /\ ~Destroys /\ OneThread => OneFile

-----------------------------------------------------------------------------

LEMMA CallerParts ==
  \A c \in Callers : c[1] \in Procs /\ c[2] \in Threads /\ c = <<c[1], c[2]>>
  BY DEF Callers

(* With one thread per process, a caller is its process.                     *)
LEMMA OneCaller ==
  ASSUME OneThread, NEW c \in Callers, NEW d \in Callers, c[1] = d[1]
  PROVE  c = d
  BY CallerParts DEF OneThread

LEMMA LockInit ==
  ASSUME LockConstants, Init
  PROVE  LockInv
  <1>1. TypeOK
    BY DEF LockConstants, Init, TypeOK, Places
  <1>2. TableGuards
    BY DEF Init, TableGuards, Inside
  <1>3. OneFile
    BY DEF Init, OneFile
  <1> QED BY <1>1, <1>2, <1>3 DEF LockInv

(* Every step keeps the types.                                               *)
LEMMA TypeStep ==
  ASSUME LockConstants, TypeOK, Next
  PROVE  TypeOK'
  <1>1. ASSUME NEW c \in Callers, OpenLock(c)
        PROVE  TypeOK'
    BY <1>1 DEF OpenLock, Goto, TypeOK, Places, Files, LockConstants
  <1>2. ASSUME NEW c \in Callers, InsertName(c) \/ RemoveRefused(c) \/ RemoveName(c)
        PROVE  TypeOK'
    BY <1>2 DEF InsertName, RemoveRefused, RemoveName, Goto, TypeOK, Places
  <1>3. ASSUME NEW c \in Callers, AlreadyHeld(c) \/ SetLockFails(c) \/ CloseLock(c)
        PROVE  TypeOK'
    BY <1>3 DEF AlreadyHeld, SetLockFails, CloseLock, Close, Goto, TypeOK, Places
  <1>4. ASSUME NEW c \in Callers, SetLock(c) \/ Unlock(c)
        PROVE  TypeOK'
    BY <1>4, CallerParts DEF SetLock, Unlock, Goto, TypeOK, Places
  <1>5. ASSUME NEW c \in Callers, UnlockFails(c) \/ DeleteLock(c)
        PROVE  TypeOK'
    BY <1>5 DEF UnlockFails, DeleteLock, Goto, TypeOK, Places, LockConstants
  <1>6. ASSUME NEW p \in Procs, Exit(p)
        PROVE  TypeOK'
    BY <1>6 DEF Exit, TypeOK, Places
  <1> QED BY <1>1, <1>2, <1>3, <1>4, <1>5, <1>6 DEF Next

(* Every step keeps the lock table's guard: a thread comes inside only where *)
(* the name was not in the table, and takes it out only as it leaves.        *)
LEMMA TableStep ==
  ASSUME TypeOK, TableGuards, Next
  PROVE  TableGuards'
  <1>1. ASSUME NEW c \in Callers, OpenLock(c)
        PROVE  TableGuards'
    BY <1>1 DEF OpenLock, Goto, TypeOK, TableGuards, Inside
  <1>2. ASSUME NEW c \in Callers, InsertName(c)
        PROVE  TableGuards'
    BY <1>2, CallerParts DEF InsertName, Goto, TypeOK, TableGuards, Inside
  <1>3. ASSUME NEW c \in Callers, AlreadyHeld(c) \/ SetLock(c) \/ SetLockFails(c)
        PROVE  TableGuards'
    BY <1>3 DEF AlreadyHeld, SetLock, SetLockFails, Goto, TypeOK, TableGuards, Inside
  <1>4. ASSUME NEW c \in Callers, RemoveRefused(c)
        PROVE  TableGuards'
    BY <1>4, CallerParts DEF RemoveRefused, Goto, TypeOK, TableGuards, Inside
  <1>5. ASSUME NEW c \in Callers, Unlock(c) \/ UnlockFails(c)
        PROVE  TableGuards'
    BY <1>5 DEF Unlock, UnlockFails, Goto, TypeOK, TableGuards, Inside
  <1>6. ASSUME NEW c \in Callers, RemoveName(c)
        PROVE  TableGuards'
    BY <1>6, CallerParts DEF RemoveName, Goto, TypeOK, TableGuards, Inside
  <1>7. ASSUME NEW c \in Callers, CloseLock(c) \/ DeleteLock(c)
        PROVE  TableGuards'
    BY <1>7 DEF CloseLock, DeleteLock, Goto, TypeOK, TableGuards, Inside
  <1>8. ASSUME NEW p \in Procs, Exit(p)
        PROVE  TableGuards'
    BY <1>8, CallerParts DEF Exit, TypeOK, TableGuards, Inside
  <1> QED BY <1>1, <1>2, <1>3, <1>4, <1>5, <1>6, <1>7, <1>8 DEF Next

(* Where nobody destroys and each process has one thread, no close and no    *)
(* end of a process takes the record lock from another's holder.             *)
LEMMA FileStep ==
  ASSUME LockConstants, ~Destroys, OneThread, TypeOK, OneFile, Next
  PROVE  OneFile'
  <1>1. ASSUME NEW c \in Callers, OpenLock(c)
        PROVE  OneFile'
    BY <1>1 DEF OpenLock, Goto, TypeOK, OneFile, Files
  <1>2. ASSUME NEW c \in Callers, InsertName(c) \/ RemoveRefused(c) \/ RemoveName(c)
        PROVE  OneFile'
    BY <1>2 DEF InsertName, RemoveRefused, RemoveName, Goto, TypeOK, OneFile
  <1>3. ASSUME NEW c \in Callers, AlreadyHeld(c) \/ SetLockFails(c) \/ CloseLock(c)
        PROVE  OneFile'
    <2>1. \A d \in Callers : pc'[d] = "holds" => pc[d] = "holds" /\ d # c
      BY <1>3 DEF AlreadyHeld, SetLockFails, CloseLock, Goto, TypeOK
    <2>2. ASSUME NEW d \in Callers, pc'[d] = "holds"
          PROVE  owner'[file] = d[1]
      <3>1. file \in Files /\ owner[file] = d[1] /\ d[1] # c[1]
        BY <2>1, <2>2, OneCaller DEF TypeOK, OneFile, Files
      <3>2. Close(c[1], fd[c])
        BY <1>3 DEF AlreadyHeld, SetLockFails, CloseLock
      <3> QED BY <3>1, <3>2 DEF Close, TypeOK
    <2> QED BY <1>3, <2>2 DEF AlreadyHeld, SetLockFails, CloseLock, Goto, TypeOK, OneFile
  <1>4. ASSUME NEW c \in Callers, SetLock(c)
        PROVE  OneFile'
    <2>1. file \in Files /\ fd[c] = file
      BY <1>4 DEF SetLock, TypeOK, OneFile, Files
    <2>2. \A d \in Callers : pc[d] = "holds" => d[1] = c[1]
      BY <1>4, <2>1, CallerParts DEF SetLock, Granted, TypeOK, OneFile, LockConstants
    <2>3. \A d \in Callers : pc'[d] = "holds" => d = c
      BY <1>4, <2>2, OneCaller DEF SetLock, Goto, TypeOK
    <2> QED BY <1>4, <2>1, <2>3 DEF SetLock, Goto, TypeOK, OneFile
  <1>5. ASSUME NEW c \in Callers, Unlock(c)
        PROVE  OneFile'
    <2>1. \A d \in Callers : pc'[d] = "holds" => pc[d] = "holds" /\ d # c
      BY <1>5 DEF Unlock, Goto, TypeOK
    <2>2. \A d \in Callers : pc'[d] = "holds" => owner'[file] = d[1]
      BY <1>5, <2>1, OneCaller DEF Unlock, TypeOK, OneFile, Files
    <2> QED BY <1>5, <2>2 DEF Unlock, Goto, TypeOK, OneFile
  <1>6. ASSUME NEW c \in Callers, UnlockFails(c) \/ DeleteLock(c)
        PROVE  OneFile'
    BY <1>6 DEF UnlockFails, DeleteLock, Goto, TypeOK, OneFile
  <1>7. ASSUME NEW p \in Procs, Exit(p)
        PROVE  OneFile'
    BY <1>7 DEF Exit, TypeOK, OneFile, Files
  <1> QED BY <1>1, <1>2, <1>3, <1>4, <1>5, <1>6, <1>7 DEF Next

-----------------------------------------------------------------------------

(* What the invariant says of the holders.                                   *)
LEMMA LockInvExcludes ==
  ASSUME LockInv
  PROVE  LocksExclude
  <1>1. OncePerProcess
    BY DEF LockInv, TableGuards, Inside, OncePerProcess, Holders
  <1>2. ASSUME ~Destroys, OneThread
        PROVE  Exclusive
    <2>1. \A c, d \in Holders : c = d
      BY <1>2, OneCaller DEF LockInv, OneFile, Holders
    <2>2. CASE Holders = {}
      BY <2>2, FS_EmptySet DEF Exclusive
    <2>3. CASE \E c : c \in Holders
      <3>1. PICK c : c \in Holders
        BY <2>3
      <3>2. Holders = {c}
        BY <2>1, <3>1
      <3>3. Cardinality({c}) = 1
        BY FS_Singleton
      <3> QED BY <3>2, <3>3 DEF Exclusive
    <2> QED BY <2>2, <2>3
  <1> QED BY <1>1, <1>2 DEF LockInv, LocksExclude

(* PosixEnv::LockFile keeps the database to one thread of a process, through *)
(* refusals, failing unlocks, DestroyDB and processes that end; and to one   *)
(* process, where nobody destroys it and no second thread of a process tries *)
(* the lock.                                                                 *)
THEOREM LockFileExcludes ==
  ASSUME LockConstants
  PROVE  Spec => []LocksExclude
  <1>1. Init => LockInv
    BY LockInit
  <1>2. LockInv /\ [Next]_vars => LockInv'
    <2>1. CASE Next
      BY <2>1, TypeStep, TableStep, FileStep DEF LockInv, OneThread
    <2>2. CASE UNCHANGED vars
      BY <2>2 DEF vars, LockInv, TypeOK, TableGuards, OneFile, OneThread
    <2> QED BY <2>1, <2>2
  <1>3. LockInv => LocksExclude
    BY LockInvExcludes
  <1> QED BY <1>1, <1>2, <1>3, PTL DEF Spec

=============================================================================
