------------------------------- MODULE Cursor -------------------------------
(***************************************************************************)
(* A LevelDB iterator: DBIter (db/db_iter.cc) over a MergingIterator       *)
(* (table/merger.cc) over the memtable and over one TwoLevelIterator       *)
(* (table/two_level_iterator.cc) per table.  The iterator reads at a       *)
(* snapshot while a writer goes on inserting into the memtable it walks,   *)
(* without a lock between them.                                            *)
(*                                                                         *)
(* An entry is named by its sequence number: log[s] is the user key and    *)
(* the type that write s stored, and s itself stands for the value.  A     *)
(* child iterator is the entry it stands on, None when it is not Valid().  *)
(* Every call of the internal iterator is one step, so that the writer can *)
(* come between any two of them; the call of MergingIterator::Prev that    *)
(* turns the direction is two steps.                                       *)
(***************************************************************************)
EXTENDS Naturals, Sequences, FiniteSets

CONSTANTS Keys,        \* the user keys, in their order
          Stored,      \* number of writes made before the iterator is created
          MaxInserts,  \* bound on the writes made while it is used
          BadBlocks    \* may blocks of the tables be unreadable?

(* What the constants are assumed to be.                                    *)
CursorConstants ==
  /\ Keys \subseteq Nat \ {0}
  /\ Keys # {}
  /\ Stored \in Nat \ {0}
  /\ MaxInserts \in Nat
  /\ BadBlocks \subseteq BOOLEAN

VARIABLES log,        \* every write: [key, type]
          mem,        \* the entries of the memtable
          tables,     \* the tables: sequences of blocks [entries, index, bad]
          sequence,   \* sequence_: the snapshot DBIter reads at
          pos,        \* the entry each child of the MergingIterator stands on
          current,    \* current_, the child whose entry is its key(), 0 when null
          mdir,       \* direction_ of the MergingIterator
          half,       \* is Prev between its Seek and its step back?
          dir,        \* direction_ of DBIter
          valid,      \* valid_
          savedKey,   \* saved_key_
          savedValue, \* saved_value_
          skipping,   \* the argument of FindNextUserEntry
          valueType,  \* the local variable of FindPrevUserEntry
          failed,     \* is status() not ok?
          pc,         \* the loop DBIter is in
          ref         \* the key a correct cursor would be on, 0 for none

internal == <<pos, current, mdir, half, failed>>
outer    == <<dir, valid, savedKey, savedValue, skipping, valueType, pc>>
store    == <<log, mem, tables, sequence>>
vars     == <<store, internal, outer, ref>>

None  == 0
Types == {"Value", "Deletion"}
Directions == {"Forward", "Reverse"}

-----------------------------------------------------------------------------
(* Internal keys and the order of InternalKeyComparator::Compare. *)

InternalKey(e) == <<log[e].key, e>>

Before(a, b) == a[1] < b[1] \/ (a[1] = b[1] /\ a[2] > b[2])

First(S) ==
  IF S = {} THEN None
  ELSE CHOOSE e \in S : \A f \in S \ {e} : Before(InternalKey(e), InternalKey(f))

Last(S) ==
  IF S = {} THEN None
  ELSE CHOOSE e \in S : \A f \in S \ {e} : Before(InternalKey(f), InternalKey(e))

After(S, k)   == {e \in S : Before(k, InternalKey(e))}
Below(S, k)   == {e \in S : Before(InternalKey(e), k)}
AtLeast(S, k) == S \ Below(S, k)

-----------------------------------------------------------------------------
(* TwoLevelIterator.  An unreadable block is an iterator with nothing in it *)
(* and an error; InitDataBlock and SetDataIterator keep that error.  A      *)
(* result is the entry and whether an unreadable block was met.             *)

Readable(t, b) == IF t[b].bad THEN {} ELSE t[b].entries

BlockOf(t, e) == CHOOSE b \in DOMAIN t : e \in t[b].entries

Smallest(S) == CHOOSE b \in S : \A c \in S : b <= c
Greatest(S) == CHOOSE b \in S : \A c \in S : b >= c

\* The blocks of t that are visited from block b on, in one direction, until
\* one has an entry.
SkipEmptyDataBlocksForward(t, b) ==
  LET found   == {c \in DOMAIN t : c >= b /\ Readable(t, c) # {}}
      visited == {c \in DOMAIN t : c >= b /\ \A d \in found : c <= d}
  IN  [at  |-> IF found = {} THEN None ELSE First(Readable(t, Smallest(found))),
       bad |-> \E c \in visited : t[c].bad]

SkipEmptyDataBlocksBackward(t, b) ==
  LET found   == {c \in DOMAIN t : c <= b /\ Readable(t, c) # {}}
      visited == {c \in DOMAIN t : c <= b /\ \A d \in found : c >= d}
  IN  [at  |-> IF found = {} THEN None ELSE Last(Readable(t, Greatest(found))),
       bad |-> \E c \in visited : t[c].bad]

\* A move that meets no unreadable block.
Within(e) == [at |-> e, bad |-> FALSE]

TableSeek(t, k) ==
  LET fits == {b \in DOMAIN t : ~Before(t[b].index, k)}
  IN  IF fits = {} THEN Within(None)
      ELSE LET b    == Smallest(fits)
               data == First(AtLeast(Readable(t, b), k))
               skip == SkipEmptyDataBlocksForward(t, b + 1)
           IN  IF data # None THEN Within(data)
               ELSE [skip EXCEPT !.bad = @ \/ t[b].bad]

TableNext(t, e) ==
  LET b    == BlockOf(t, e)
      data == First(After(t[b].entries, InternalKey(e)))
  IN  IF data # None THEN Within(data) ELSE SkipEmptyDataBlocksForward(t, b + 1)

TablePrev(t, e) ==
  LET b    == BlockOf(t, e)
      data == Last(Below(t[b].entries, InternalKey(e)))
  IN  IF data # None THEN Within(data) ELSE SkipEmptyDataBlocksBackward(t, b - 1)

-----------------------------------------------------------------------------
(* The children: child 1 is the memtable's iterator, child c > 1 the one of *)
(* tables[c - 1].  IteratorWrapper keeps what Valid() and key() answered.   *)

Children == 1 .. Len(tables) + 1

ChildSeekToFirst(c) ==
  IF c = 1 THEN Within(First(mem)) ELSE SkipEmptyDataBlocksForward(tables[c - 1], 1)

ChildSeekToLast(c) ==
  IF c = 1 THEN Within(Last(mem))
  ELSE SkipEmptyDataBlocksBackward(tables[c - 1], Len(tables[c - 1]))

ChildSeek(c, k) ==
  IF c = 1 THEN Within(First(AtLeast(mem, k))) ELSE TableSeek(tables[c - 1], k)

ChildNext(c, e) ==
  IF c = 1 THEN Within(First(After(mem, InternalKey(e))))
  ELSE TableNext(tables[c - 1], e)

ChildPrev(c, e) ==
  IF c = 1 THEN Within(Last(Below(mem, InternalKey(e))))
  ELSE TablePrev(tables[c - 1], e)

-----------------------------------------------------------------------------
(* MergingIterator. *)

ValidChildren(p) == {c \in Children : p[c] # None}

FindSmallest(p) ==
  IF ValidChildren(p) = {} THEN 0
  ELSE CHOOSE c \in ValidChildren(p) : p[c] = First({p[d] : d \in ValidChildren(p)})

FindLargest(p) ==
  IF ValidChildren(p) = {} THEN 0
  ELSE CHOOSE c \in ValidChildren(p) : p[c] = Last({p[d] : d \in ValidChildren(p)})

IterValid == current # 0
IterEntry == pos[current]
IterKey   == InternalKey(IterEntry)

\* The children are moved as move says, then the smallest or largest is current.
Moved(move) ==
  /\ pos' = [c \in Children |-> move[c].at]
  /\ failed' = (failed \/ \E c \in Children : move[c].bad)
  /\ half' = FALSE

MovedForward(move) ==
  Moved(move) /\ mdir' = "Forward" /\ current' = FindSmallest(pos')

MovedBack(move) ==
  Moved(move) /\ mdir' = "Reverse" /\ current' = FindLargest(pos')

IterSeekToFirst == MovedForward([c \in Children |-> ChildSeekToFirst(c)])
IterSeekToLast  == MovedBack([c \in Children |-> ChildSeekToLast(c)])
IterSeek(k)     == MovedForward([c \in Children |-> ChildSeek(c, k)])

\* Mutant: the other children are left where the walk back put them.
IterNextInPlace ==
  MovedForward([c \in Children |->
    IF c = current THEN ChildNext(c, pos[c]) ELSE Within(pos[c])])

\* Next: after a walk back every other child is first put behind key(). No
\* two children have the same internal key, so none has to step over it.
IterNext ==
  MovedForward([c \in Children |->
    IF c = current THEN ChildNext(c, pos[c])
    ELSE IF mdir = "Reverse" THEN ChildSeek(c, IterKey)
    ELSE Within(pos[c])])

\* Mutant: the current child is not stepped back.
IterPrevNowhere == MovedBack([c \in Children |-> Within(pos[c])])

\* Prev in the direction it already has.
IterPrevOn ==
  MovedBack([c \in Children |->
    IF c = current THEN ChildPrev(c, pos[c]) ELSE Within(pos[c])])

\* Prev after a walk forward: every other child seeks key() ...
IterPrevSeek ==
  LET move == [c \in Children |->
                 IF c = current THEN Within(pos[c]) ELSE ChildSeek(c, IterKey)]
  IN  /\ pos' = [c \in Children |-> move[c].at]
      /\ failed' = (failed \/ \E c \in Children : move[c].bad)
      /\ half' = TRUE
      /\ UNCHANGED <<current, mdir>>

\* ... and steps back from it, or goes to its last entry when it found none.
IterPrevBack ==
  MovedBack([c \in Children |->
    IF pos[c] # None THEN ChildPrev(c, pos[c]) ELSE ChildSeekToLast(c)])

IterPrev == IF mdir = "Reverse" THEN IterPrevOn ELSE IterPrevSeek

-----------------------------------------------------------------------------
(* What a correct cursor does: the newest entry of a key at the snapshot is *)
(* its value, unless it is a deletion.                                      *)

Visible   == {e \in 1 .. Len(log) : e <= sequence}
Newest(k) == CHOOSE e \in Visible :
               log[e].key = k /\ \A f \in Visible : log[f].key = k => f <= e
LiveKeys  == {k \in {log[e].key : e \in Visible} : log[Newest(k)].type = "Value"}

LeastLive(S)   == IF S \cap LiveKeys = {} THEN 0 ELSE Smallest(S \cap LiveKeys)
LargestLive(S) == IF S \cap LiveKeys = {} THEN 0 ELSE Greatest(S \cap LiveKeys)

-----------------------------------------------------------------------------
(* DBIter.  A call begins with pc = "idle" and ends with it. *)

Idle == pc = "idle" /\ ~half

CurrentUserKey == log[IterEntry].key

Key   == IF dir = "Forward" THEN CurrentUserKey ELSE savedKey
Value == IF dir = "Forward" THEN IterEntry ELSE savedValue

\* FindNextUserEntry(skip, ...) goes on from the entry the iterator is now on.
BeginFindNext(skip) ==
  /\ skipping' = skip
  /\ IF current' # 0 THEN pc' = "findNext" /\ UNCHANGED valid
                     ELSE pc' = "idle" /\ valid' = FALSE

SeekToFirst ==
  /\ Idle
  /\ IterSeekToFirst
  /\ BeginFindNext(FALSE)
  /\ dir' = "Forward"
  /\ savedValue' = None
  /\ ref' = LeastLive(Keys)
  /\ UNCHANGED <<store, savedKey, valueType>>

Seek ==
  /\ Idle
  /\ \E k \in Keys :
       /\ IterSeek(<<k, sequence>>)
       /\ ref' = LeastLive({l \in Keys : l >= k})
  /\ BeginFindNext(FALSE)
  /\ dir' = "Forward"
  /\ savedValue' = None
  /\ savedKey' = 0
  /\ UNCHANGED <<store, valueType>>

SeekToLast ==
  /\ Idle
  /\ IterSeekToLast
  /\ dir' = "Reverse"
  /\ savedValue' = None
  /\ valueType' = "Deletion"
  /\ pc' = "findPrev"
  /\ ref' = LargestLive(Keys)
  /\ UNCHANGED <<store, savedKey, skipping, valid>>

MoveNext ==
  /\ Idle
  /\ valid
  /\ ref' = LeastLive({l \in Keys : l > ref})
  /\ dir' = "Forward"
  /\ \/ /\ dir = "Reverse"
        /\ IF IterValid THEN IterNext ELSE IterSeekToFirst
        /\ savedKey' = IF current' = 0 THEN 0 ELSE savedKey
        /\ BeginFindNext(TRUE)
     \/ /\ dir = "Forward"
        /\ savedKey' = CurrentUserKey
        /\ skipping' = TRUE
        /\ pc' = "findNext"
        /\ UNCHANGED <<internal, valid>>
  /\ UNCHANGED <<store, savedValue, valueType>>

\* One turn of the loop of FindNextUserEntry.
FindNextUserEntry ==
  LET e      == IterEntry
      k      == log[e].key
      seen   == e <= sequence
      marker == seen /\ log[e].type = "Deletion"
      yields == seen /\ ~marker /\ ~(skipping /\ k <= savedKey)
  IN  /\ pc = "findNext"
      /\ \/ /\ yields
            /\ valid' = TRUE
            /\ savedKey' = 0
            /\ pc' = "idle"
            /\ UNCHANGED <<internal, skipping>>
         \/ /\ ~yields
            /\ skipping' = (skipping \/ marker)
            /\ IterNext
            /\ savedKey' = IF current' = 0 THEN 0 ELSE IF marker THEN k ELSE savedKey
            /\ IF current' = 0 THEN pc' = "idle" /\ valid' = FALSE
                               ELSE UNCHANGED <<pc, valid>>
      /\ UNCHANGED <<store, dir, savedValue, valueType, ref>>

\* DBIter::Prev; turning the direction walks back until the user key changes.
MovePrev ==
  /\ Idle
  /\ valid
  /\ ref' = LargestLive({l \in Keys : l < ref})
  /\ valueType' = "Deletion"
  /\ \/ /\ dir = "Forward"
        /\ savedKey' = CurrentUserKey
        /\ pc' = "goBack"
        /\ IterPrev
     \/ /\ dir = "Reverse"
        /\ pc' = "findPrev"
        /\ UNCHANGED <<internal, savedKey>>
  /\ UNCHANGED <<store, dir, valid, savedValue, skipping>>

\* The second half of a Prev of the MergingIterator that turns its direction.
FinishIterPrev ==
  /\ half
  /\ IterPrevBack
  /\ UNCHANGED <<store, outer, ref>>

GoBack ==
  /\ pc = "goBack"
  /\ ~half
  /\ \/ /\ ~IterValid
        /\ valid' = FALSE
        /\ savedKey' = 0
        /\ savedValue' = None
        /\ pc' = "idle"
        /\ UNCHANGED <<internal, dir>>
     \/ /\ IterValid
        /\ CurrentUserKey < savedKey
        /\ dir' = "Reverse"
        /\ pc' = "findPrev"
        /\ UNCHANGED <<internal, valid, savedKey, savedValue>>
     \/ /\ IterValid
        /\ CurrentUserKey >= savedKey
        /\ IterPrev
        /\ UNCHANGED <<dir, valid, savedKey, savedValue, pc>>
  /\ UNCHANGED <<store, skipping, valueType, ref>>

\* FindPrevUserEntry stops at the entries of a smaller key, or at the beginning.
EndOfPrev ==
  IterValid => /\ IterEntry <= sequence
               /\ valueType # "Deletion"
               /\ CurrentUserKey < savedKey

\* One turn of the loop of FindPrevUserEntry, or its end.
FindPrevUserEntry ==
  LET e == IterEntry
  IN  /\ pc = "findPrev"
      /\ ~half
      /\ \/ /\ ~EndOfPrev
            /\ IF e <= sequence
                 THEN /\ valueType' = log[e].type
                      /\ savedKey' = IF log[e].type = "Value" THEN log[e].key ELSE 0
                      /\ savedValue' = IF log[e].type = "Value" THEN e ELSE None
                 ELSE UNCHANGED <<valueType, savedKey, savedValue>>
            /\ IterPrev
            /\ UNCHANGED <<pc, valid, dir>>
         \/ /\ EndOfPrev
            /\ pc' = "idle"
            /\ valid' = (valueType # "Deletion")
            /\ IF valueType = "Deletion"
                 THEN savedKey' = 0 /\ savedValue' = None /\ dir' = "Forward"
                 ELSE UNCHANGED <<savedKey, savedValue, dir>>
            /\ UNCHANGED <<internal, valueType>>
      /\ UNCHANGED <<store, skipping, ref>>

\* A writer inserts into the memtable, at any moment.
Insert ==
  /\ Len(log) < Stored + MaxInserts
  /\ \E k \in Keys, type \in Types : log' = Append(log, [key |-> k, type |-> type])
  /\ mem' = mem \cup {Len(log) + 1}
  /\ UNCHANGED <<tables, sequence, internal, outer, ref>>

-----------------------------------------------------------------------------
(* NewIterator: the children of NewInternalIterator, none of them placed.   *)
(* The newest writes are in the memtable, the others in one or two tables,  *)
(* each of one or two blocks; the index key of a block lies at or after its *)
(* last entry and before the next block (FindShortestSeparator).            *)

Block(S, index, bad) == [entries |-> S, index |-> index, bad |-> bad]

Separators(e, f) ==
  {InternalKey(e)} \cup {<<k, Stored + MaxInserts + 1>> :
                           k \in {l \in Keys : log[e].key < l /\ l < log[f].key}}

Layouts(S) ==
  {<<Block(S, InternalKey(Last(S)), bad)>> : bad \in BadBlocks}
  \cup UNION {{<<Block(S \ After(S, InternalKey(e)), index, bad[1]),
                 Block(After(S, InternalKey(e)), InternalKey(Last(S)), bad[2])>> :
                  index \in Separators(e, First(After(S, InternalKey(e)))),
                  bad \in BadBlocks \X BadBlocks} :
                e \in S \ {Last(S)}}

Init ==
  /\ log \in [1 .. Stored -> [key : Keys, type : Types]]
  /\ sequence \in 0 .. Stored
  /\ \E a \in 1 .. Stored :
       \/ /\ mem = (a + 1) .. Stored
          /\ \E t \in Layouts(1 .. a) : tables = <<t>>
       \/ \E b \in (a + 1) .. Stored :
            /\ mem = (b + 1) .. Stored
            /\ \E t \in Layouts((a + 1) .. b), u \in Layouts(1 .. a) : tables = <<t, u>>
  /\ pos = [c \in Children |-> None]
  /\ current = 0
  /\ mdir = "Forward"
  /\ half = FALSE
  /\ failed = FALSE
  /\ dir = "Forward"
  /\ valid = FALSE
  /\ savedKey = 0
  /\ savedValue = None
  /\ skipping = FALSE
  /\ valueType = "Deletion"
  /\ pc = "idle"
  /\ ref = 0

Work == FindNextUserEntry \/ FinishIterPrev \/ GoBack \/ FindPrevUserEntry

Next == SeekToFirst \/ Seek \/ SeekToLast \/ MoveNext \/ MovePrev \/ Work \/ Insert

Spec == Init /\ [][Next]_vars

-----------------------------------------------------------------------------
(* Properties. *)

TypeOK ==
  /\ log \in Seq([key : Keys, type : Types])
  /\ mem \subseteq DOMAIN log
  /\ pos \in [Children -> {None} \cup DOMAIN log]
  /\ \A c \in Children : c > 1 /\ pos[c] # None =>
        \E b \in DOMAIN tables[c - 1] :
          ~tables[c - 1][b].bad /\ pos[c] \in tables[c - 1][b].entries
  /\ pos[1] # None => pos[1] \in mem
  /\ current \in {0} \cup ValidChildren(pos)
  /\ mdir \in Directions /\ dir \in Directions
  /\ half \in BOOLEAN /\ valid \in BOOLEAN /\ skipping \in BOOLEAN /\ failed \in BOOLEAN
  /\ savedKey \in {0} \cup Keys
  /\ savedValue \in {None} \cup DOMAIN log
  /\ valueType \in Types
  /\ pc \in {"idle", "findNext", "goBack", "findPrev"}

(* Whatever calls were made before, an iterator without an error stands on *)
(* the key and the value a cursor over the snapshot would stand on: the    *)
(* two direction switches, hidden versions, deletion markers, blocks that  *)
(* end under the cursor and writes that land in the memtable meanwhile     *)
(* neither skip a key nor show one twice.                                  *)
CursorAgrees ==
  Idle /\ ~failed =>
    /\ valid = (ref # 0)
    /\ valid => Key = ref /\ Value = Newest(ref)

(* The second case of the comment on DBIter::Direction: while it moves     *)
(* backwards the internal iterator has left every entry of key() behind,   *)
(* and no entry the snapshot can see lies between them.                    *)
JustBefore ==
  Idle /\ ~failed /\ valid /\ dir = "Reverse" =>
    {e \in Visible : log[e].key < savedKey}
      = IF IterValid
          THEN {e \in Visible : e = IterEntry \/ Before(InternalKey(e), IterKey)}
          ELSE {}

(* iterator.h on Prev: "Moves to the previous entry in the source."  A     *)
(* Prev of the MergingIterator never ends on a later entry.                *)
PrevMovesBack ==
  [][half /\ ~half' /\ current' # 0 => Before(InternalKey(IterEntry)', IterKey)]_vars

=============================================================================
