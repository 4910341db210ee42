----------------------------- MODULE TableCache -----------------------------
(***************************************************************************)
(* The cache of open tables: one shard of the LRU cache (util/cache.cc)    *)
(* and the clients that use it (db/table_cache.cc; the blocks of           *)
(* table/table.cc go through the same calls).  A method of the cache runs  *)
(* under its mutex and is one step; FindTable looks up, opens the file and *)
(* inserts with the mutex free in between.  A client has one table at a    *)
(* time.                                                                   *)
(* A handle is the number of the Insert that made it.  The hash table      *)
(* (HandleTable) is the function from keys to handles it implements.       *)
(***************************************************************************)
EXTENDS Naturals, Sequences, SequencesExt, FiniteSets, FiniteSetsExt

CONSTANTS Keys,
          Clients,
          Charges,     \* the charges an entry may have
          Capacities,  \* the capacities of the shard that are tried
          MaxInserts   \* bound on the handles ever made

(* What the constants are assumed to be.                                    *)
CacheConstants ==
  /\ Charges \subseteq Nat
  /\ Capacities \subseteq Nat
  /\ MaxInserts \in Nat

VARIABLES capacity,  \* capacity_
          entry,     \* the LRUHandles made so far: [key, charge, refs, inCache]
          lru,       \* lru_, oldest first
          inUse,     \* in_use_, of which the order does not matter
          table,     \* table_: the handle of each key, 0 for none
          usage,     \* usage_
          deleted,   \* how often the deleter of each handle was called
          held,      \* the handle each client has and has not released, 0 for none
          opening,   \* the key a client opens the file of, 0 for none
          used       \* the handles in the order of their last use

vars == <<capacity, entry, lru, inUse, table, usage, deleted, held, opening, used>>

Handles == DOMAIN entry

\* The state a method works on, and the record the next state is taken from.
Cache == [entry |-> entry, lru |-> lru, inUse |-> inUse, table |-> table,
          usage |-> usage, deleted |-> deleted]

Becomes(c) ==
  /\ entry' = c.entry /\ lru' = c.lru /\ inUse' = c.inUse
  /\ table' = c.table /\ usage' = c.usage /\ deleted' = c.deleted

-----------------------------------------------------------------------------
(* Ref, Unref and FinishErase. *)

Ref(c, h) ==
  LET idle == c.entry[h].refs = 1 /\ c.entry[h].inCache
  IN  [c EXCEPT !.entry[h].refs = @ + 1,
                !.lru   = IF idle THEN Remove(@, h) ELSE @,
                !.inUse = IF idle THEN @ \cup {h} ELSE @]

\* Mutant: the deleter runs when the cache lets go of an entry.
UnrefDeletes(c, h) ==
  LET refs == c.entry[h].refs - 1
      idle == c.entry[h].inCache /\ refs = 1
  IN  [c EXCEPT !.entry[h].refs = refs,
                !.deleted[h] = IF refs <= 1 /\ ~c.entry[h].inCache THEN @ + 1 ELSE @,
                !.inUse      = IF idle THEN @ \ {h} ELSE @,
                !.lru        = IF idle THEN Append(@, h) ELSE @]

\* Mutant: an entry nobody uses becomes the oldest.
UnrefOldest(c, h) ==
  LET refs == c.entry[h].refs - 1
      idle == c.entry[h].inCache /\ refs = 1
  IN  [c EXCEPT !.entry[h].refs = refs,
                !.deleted[h] = IF refs = 0 THEN @ + 1 ELSE @,
                !.inUse      = IF idle THEN @ \ {h} ELSE @,
                !.lru        = IF idle THEN <<h>> \o @ ELSE @]

Unref(c, h) ==
  LET refs == c.entry[h].refs - 1
      idle == c.entry[h].inCache /\ refs = 1
  IN  [c EXCEPT !.entry[h].refs = refs,
                !.deleted[h] = IF refs = 0 THEN @ + 1 ELSE @,
                !.inUse      = IF idle THEN @ \ {h} ELSE @,
                !.lru        = IF idle THEN Append(@, h) ELSE @]

FinishErase(c, h) ==
  IF h = 0 THEN c
  ELSE Unref([c EXCEPT !.lru = Remove(@, h), !.inUse = @ \ {h},
                       !.entry[h].inCache = FALSE,
                       !.usage = @ - c.entry[h].charge], h)

\* The entry h leaves the hash table and the cache.
Drop(c, h) == FinishErase([c EXCEPT !.table[c.entry[h].key] = 0], h)

DropAll(c, hs) == FoldLeft(Drop, c, hs)

\* How many of the oldest entries Insert throws out: as few as needed, or all.
Excess(c) ==
  LET fits(n) == c.usage - MapThenSumSet(LAMBDA i : c.entry[c.lru[i]].charge, 1 .. n)
                   <= capacity
  IN  Min({n \in 0 .. Len(c.lru) : fits(n)} \cup {Len(c.lru)})

-----------------------------------------------------------------------------
(* Insert, Lookup, Release, Erase and Prune of the shard. *)

\* The new entry has one reference for the caller and one for the cache.
WithNew(k, charge) ==
  LET h      == Len(entry) + 1
      caches == capacity > 0
      new    == [key |-> k, charge |-> charge, inCache |-> caches,
                 refs |-> IF caches THEN 2 ELSE 1]
      old    == table[k]
      with   == [Cache EXCEPT !.entry = Append(@, new), !.deleted = Append(@, 0)]
  IN  IF caches
        THEN FinishErase([with EXCEPT !.inUse = @ \cup {h}, !.usage = @ + charge,
                                      !.table[k] = h], old)
        ELSE with

Insert(k, charge) ==
  LET c == WithNew(k, charge)
  IN  DropAll(c, SubSeq(c.lru, 1, Excess(c)))

Use(h) == used' = Append(Remove(used, h), h)

Hold(c, h) == held' = [held EXCEPT ![c] = h] /\ Use(h)

Free(c) == held[c] = 0 /\ opening[c] = 0

\* FindTable, when the cache has the table, and Lookup of a block.
LookupHit(c) ==
  /\ Free(c)
  /\ \E k \in Keys :
       /\ table[k] # 0
       /\ Becomes(Ref(Cache, table[k]))
       /\ Hold(c, table[k])
  /\ UNCHANGED <<capacity, opening>>

\* FindTable, when it has not: the file is opened without the mutex.
LookupMiss(c) ==
  /\ Free(c)
  /\ \E k \in Keys : table[k] = 0 /\ opening' = [opening EXCEPT ![c] = k]
  /\ UNCHANGED <<capacity, entry, lru, inUse, table, usage, deleted, held, used>>

\* The file and the table could not be opened; nothing is cached.
OpenFails(c) ==
  /\ opening[c] # 0
  /\ opening' = [opening EXCEPT ![c] = 0]
  /\ UNCHANGED <<capacity, entry, lru, inUse, table, usage, deleted, held, used>>

InsertOpened(c) ==
  /\ opening[c] # 0
  /\ Len(entry) < MaxInserts
  /\ \E charge \in Charges : Becomes(Insert(opening[c], charge))
  /\ Hold(c, Len(entry) + 1)
  /\ opening' = [opening EXCEPT ![c] = 0]
  /\ UNCHANGED capacity

\* Get releases its handle when it has its answer, an iterator when it is
\* deleted (UnrefEntry, ReleaseBlock).
Release(c) ==
  /\ held[c] # 0
  /\ Becomes(Unref(Cache, held[c]))
  /\ Use(held[c])
  /\ held' = [held EXCEPT ![c] = 0]
  /\ UNCHANGED <<capacity, opening>>

\* TableCache::Evict, when the table's file is deleted.
Erase(k) ==
  /\ table[k] # 0
  /\ Becomes(Drop(Cache, table[k]))
  /\ UNCHANGED <<capacity, held, opening, used>>

Prune ==
  /\ lru # <<>>
  /\ Becomes(DropAll(Cache, lru))
  /\ UNCHANGED <<capacity, held, opening, used>>

-----------------------------------------------------------------------------

Init ==
  /\ capacity \in Capacities
  /\ entry = <<>>
  /\ lru = <<>>
  /\ inUse = {}
  /\ table = [k \in Keys |-> 0]
  /\ usage = 0
  /\ deleted = <<>>
  /\ held = [c \in Clients |-> 0]
  /\ opening = [c \in Clients |-> 0]
  /\ used = <<>>

Next ==
  \/ \E c \in Clients :
       LookupHit(c) \/ LookupMiss(c) \/ OpenFails(c) \/ InsertOpened(c) \/ Release(c)
  \/ \E k \in Keys : Erase(k)
  \/ Prune

Spec == Init /\ [][Next]_vars

-----------------------------------------------------------------------------
(* Properties. *)

TypeOK ==
  /\ \A h \in Handles : entry[h] \in [key : Keys, charge : Charges, inCache : BOOLEAN,
                                      refs : 0 .. Cardinality(Clients) + 1]
  /\ ToSet(lru) \cup inUse \subseteq Handles
  /\ table \in [Keys -> {0} \cup Handles]
  /\ usage \in Nat
  /\ held \in [Clients -> {0} \cup Handles]

IsHeld(h) == \E c \in Clients : held[c] = h

(* No client ever has a table that was deleted under it, and no table is   *)
(* kept once nobody can reach it: the deleter has run, once, exactly for   *)
(* the entries that no client holds and the cache does not have, whatever  *)
(* was erased, replaced or thrown out while it was in use.                 *)
DeletedWhenUnreachable ==
  \A h \in Handles :
    deleted[h] = IF ~IsHeld(h) /\ ~entry[h].inCache THEN 1 ELSE 0

(* The comment on the two lists: an entry of the cache is in exactly one   *)
(* of them, in lru_ when only the cache refers to it and in in_use_ when a *)
(* client does; the hash table has exactly these entries, and usage_ is    *)
(* what they are charged.                                                  *)
ListsAgree ==
  /\ IsInjective(lru)
  /\ ToSet(lru) = {h \in Handles : entry[h].inCache /\ ~IsHeld(h)}
  /\ inUse = {h \in Handles : entry[h].inCache /\ IsHeld(h)}
  /\ {table[k] : k \in Keys} \ {0} = {h \in Handles : entry[h].inCache}
  /\ \A k \in Keys : table[k] # 0 => entry[table[k]].key = k
  /\ usage = MapThenSumSet(LAMBDA h : entry[h].charge, {h \in Handles : entry[h].inCache})

(* An insertion leaves the cache within its capacity, unless everything in *)
(* it is in use, and throws out no more than that takes, oldest first: the *)
(* entries that stay are the ones used last.                               *)
EvictStep ==
  Len(entry') > Len(entry) =>
    LET new    == entry'[Len(entry')]
        others == SelectSeq(used, LAMBDA h : h \in ToSet(lru) /\ entry[h].key # new.key)
    IN  /\ usage' <= capacity \/ lru' = <<>>
        /\ IsSuffix(lru', others)
        /\ LET out == Len(others) - Len(lru')
           IN  out > 0 => usage' + entry[others[out]].charge > capacity

=============================================================================
