----------------------------- MODULE MCThreads -----------------------------
(* What threads and processes share in LevelDB, for TLC: the write queue,  *)
(* the LOCK file (processes that open it; threads that destroy it too) and *)
(* the table cache. A behaviour is about one of them, part; the write queue *)
(* of the others does not start, and their variables stay Idle, so that    *)
(* the state spaces add up.                                                *)
EXTENDS WriteQueue

CONSTANTS th1, th2, th3, t1, t2, p1, p2, p3, None

VARIABLES
    part,   \* what a behaviour is about
    at,     \* pc of FileLocks
    file, owner, listed, fd, capacity, entry, lru, inUse, table, usage,
    deleted, held, opening, used

(* The threads of the queue can be exchanged for each other.                *)
Interchangeable == Permutations(Threads)

Opening == INSTANCE FileLocks WITH
    Procs <- {p1, p2, p3}, Threads <- {t1}, Destroys <- FALSE, MaxFiles <- 1, pc <- at
Destroying == INSTANCE FileLocks WITH
    Procs <- {p1, p2}, Threads <- {t1, t2}, Destroys <- TRUE, MaxFiles <- 2, pc <- at
Cache == INSTANCE TableCache WITH
    Keys <- {p1, p2, p3}, Clients <- {t1, t2}, Charges <- {1, 2},
    Capacities <- {0, 1, 2}, MaxInserts <- 3

ASSUME /\ QueueConstants
       /\ Opening!LockConstants
       /\ Destroying!LockConstants
       /\ Cache!CacheConstants

-----------------------------------------------------------------------------
(* The variables by the modules that have them, and their value where a     *)
(* behaviour is not about one of these.                                     *)
Idle == <<>>

fileLocksVars == <<at, file, owner, listed, fd>>
FileLocksIdle ==
    /\ at = Idle /\ file = Idle /\ owner = Idle /\ listed = Idle /\ fd = Idle

tableCacheVars == <<capacity, entry, lru, inUse, table, usage, deleted, held,
                   opening, used>>
TableCacheIdle ==
    /\ capacity = Idle /\ entry = Idle /\ lru = Idle /\ inUse = Idle
    /\ table = Idle /\ usage = Idle /\ deleted = Idle /\ held = Idle
    /\ opening = Idle /\ used = Idle

MCInit ==
    /\ Init
    /\ \/ part = "queue" /\ FileLocksIdle /\ TableCacheIdle
       \/ part = "opening" /\ Opening!Init /\ TableCacheIdle
       \/ part = "destroying" /\ Destroying!Init /\ TableCacheIdle
       \/ part = "cache" /\ Cache!Init /\ FileLocksIdle

MCNext ==
    /\ UNCHANGED part
    /\ \/ /\ part = "queue" /\ Next
          /\ UNCHANGED <<fileLocksVars, tableCacheVars>>
       \/ /\ part = "opening" /\ Opening!Next
          /\ UNCHANGED <<vars, tableCacheVars>>
       \/ /\ part = "destroying" /\ Destroying!Next
          /\ UNCHANGED <<vars, tableCacheVars>>
       \/ /\ part = "cache" /\ Cache!Next
          /\ UNCHANGED <<vars, fileLocksVars>>

allVars == <<part, vars, fileLocksVars, tableCacheVars>>

MCSpec == MCInit /\ [][MCNext]_allVars

-----------------------------------------------------------------------------
(* Of processes that open and close, at most one has the database; within   *)
(* one process, at most one thread has it, DestroyDB included (LockFile).   *)
LocksExclude ==
    /\ part = "opening" => Opening!LocksExclude
    /\ part = "destroying" => Destroying!LocksExclude

(* The lists, the hash table and the usage of the cache agree, and a cached *)
(* table is closed exactly once, when nobody can reach it (LRUCache).       *)
CacheAgrees ==
    part = "cache" => Cache!TypeOK /\ Cache!ListsAgree /\ Cache!DeletedWhenUnreachable

(* An insertion evicts the tables used longest ago, and no more than needed. *)
EvictsOldest == [][part = "cache" => Cache!EvictStep]_allVars
=============================================================================
