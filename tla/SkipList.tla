------------------------------ MODULE SkipList ------------------------------
(***************************************************************************)
(* The skip list of LevelDB's memtable (db/skiplist.h): one writer inserts *)
(* while readers search it without a lock.  The writer links a new node    *)
(* into one level after the other; a reader follows one link per step.     *)
(* A node is its key: the head is 0 and the null pointer sorts after every *)
(* key ("null n is considered infinite").  Links are read and written with *)
(* acquire and release, so a reader that meets a node sees its own links;  *)
(* max_height_ is relaxed, so a reader may use any height it ever had.     *)
(***************************************************************************)
EXTENDS Naturals, FiniteSets

CONSTANTS MaxKey,     \* the keys are 1 .. MaxKey
          MaxHeight,  \* kMaxHeight
          Readers

(* What the constants are assumed to be.                                    *)
SkipListConstants ==
  MaxKey \in Nat \ {0} /\ MaxHeight \in Nat \ {0}

VARIABLES next,       \* next_[level] of every node
          height,     \* the height of every node that was allocated, 0 for none
          maxHeight,  \* max_height_
          writer,     \* the insertion under way, level 0 for none
          done,       \* the keys whose Insert has returned
          reader      \* what every reader is doing

vars == <<next, height, maxHeight, writer, done, reader>>

Keys   == 1 .. MaxKey
Head   == 0
Null   == MaxKey + 1
Nodes  == {Head} \cup Keys
Levels == 1 .. MaxHeight

Idle == [key |-> 0, level |-> 0, ready |-> FALSE, prev |-> [l \in Levels |-> Head]]

-----------------------------------------------------------------------------
(* Insert.  It finds its place with FindGreaterOrEqual: only the writer     *)
(* changes links, so prev[] is the last node before the key on each level.  *)

Linked(level) == {n \in Nodes : n = Head \/ height[n] >= level}

\* Mutant: every level is entered at the head.
FindPrevHead(key, level) == Head

FindPrev(key, level) ==
  CHOOSE n \in Linked(level) :
    n < key /\ \A m \in Linked(level) : m < key => m <= n

Raised(h) == IF h > maxHeight THEN h ELSE maxHeight

\* RandomHeight and NewNode: any height; max_height_ grows at once.
BeginInsert ==
  /\ writer.level = 0
  /\ \E key \in {k \in Keys : height[k] = 0}, h \in Levels :
       /\ writer' = [key   |-> key,
                     level |-> 1,
                     ready |-> FALSE,
                     prev  |-> [l \in Levels |-> FindPrev(key, l)]]
       /\ height' = [height EXCEPT ![key] = h]
       /\ maxHeight' = Raised(h)
  /\ UNCHANGED <<next, done, reader>>

Successor(key, prev, level) == next[prev][level]

\* NoBarrier_SetNext: the new node takes over its successor on the level ...
PrepareLevel ==
  /\ writer.level > 0
  /\ ~writer.ready
  /\ next' = [next EXCEPT ![writer.key][writer.level] =
                Successor(writer.key, writer.prev[writer.level], writer.level)]
  /\ writer' = [writer EXCEPT !.ready = TRUE]
  /\ UNCHANGED <<height, maxHeight, done, reader>>

\* ... and SetNext publishes it there.
PublishLevel ==
  LET key   == writer.key
      level == writer.level
  IN  /\ writer.ready
      /\ next' = [next EXCEPT ![writer.prev[level]][level] = key]
      /\ IF level < height[key]
           THEN /\ writer' = [writer EXCEPT !.level = @ + 1, !.ready = FALSE]
                /\ UNCHANGED done
           ELSE writer' = Idle /\ done' = done \cup {key}
      /\ UNCHANGED <<height, maxHeight, reader>>

-----------------------------------------------------------------------------
(* Readers.  at is the node the search stands on, level its level, known    *)
(* the keys that were completely inserted when the call began.              *)

Resting == [op |-> "none", target |-> 0, at |-> Head, level |-> 0, known |-> {}]

\* One search begins: Seek and Contains, Prev, or SeekToLast of an iterator.
\* FindGreaterOrEqual, FindLessThan and FindLast differ in where they stop.
Ops == {"greaterOrEqual", "lessThan", "last"}

GoesOn(op, target, n) == n # Null /\ (op = "last" \/ n < target)

BeginSearch(r) ==
  /\ reader[r].level = 0
  /\ \E op \in Ops, target \in Keys, h \in 1 .. maxHeight :
       reader' = [reader EXCEPT ![r] = [op |-> op, target |-> target, at |-> Head,
                                        level |-> h, known |-> done]]
  /\ UNCHANGED <<next, height, maxHeight, writer, done>>

\* The iterator steps to the next node, SeekToFirst from the head.
StepNext(r) ==
  /\ reader[r].level = 0
  /\ reader[r].at # Null
  /\ reader' = [reader EXCEPT ![r] = [op |-> "next", target |-> reader[r].at,
                                      at |-> next[reader[r].at][1], level |-> 0,
                                      known |-> done]]
  /\ UNCHANGED <<next, height, maxHeight, writer, done>>

\* One turn of the loop of a search.
SearchStep(r) ==
  LET s == reader[r]
      n == next[s.at][s.level]
  IN  /\ s.level > 0
      /\ reader' = [reader EXCEPT ![r] =
           IF GoesOn(s.op, s.target, n) THEN [s EXCEPT !.at = n]
           ELSE IF s.level > 1 THEN [s EXCEPT !.level = @ - 1]
           ELSE [s EXCEPT !.level = 0,
                          !.at = IF s.op = "greaterOrEqual" THEN n ELSE @]]
      /\ UNCHANGED <<next, height, maxHeight, writer, done>>

-----------------------------------------------------------------------------

Init ==
  /\ next = [n \in Nodes |-> [l \in Levels |-> Null]]
  /\ height = [k \in Nodes |-> IF k = Head THEN MaxHeight ELSE 0]
  /\ maxHeight = 1
  /\ writer = Idle
  /\ done = {}
  /\ reader = [r \in Readers |-> Resting]

Read == \E r \in Readers : BeginSearch(r) \/ StepNext(r) \/ SearchStep(r)

Next == BeginInsert \/ PrepareLevel \/ PublishLevel \/ Read

Spec == Init /\ [][Next]_vars

-----------------------------------------------------------------------------
(* Properties. *)

TypeOK ==
  /\ next \in [Nodes -> [Levels -> Nodes \cup {Null}]]
  /\ height \in [Nodes -> 0 .. MaxHeight]
  /\ maxHeight \in Levels
  /\ \A k \in Keys : height[k] <= maxHeight
  /\ writer \in [key: Nodes, level: 0 .. MaxHeight, ready: BOOLEAN,
                 prev: [Levels -> Nodes]]
  /\ done \subseteq {k \in Keys : height[k] > 0}
  /\ reader \in [Readers -> [op: Ops \cup {"none", "next"}, target: Nodes,
                            at: Nodes \cup {Null}, level: 0 .. MaxHeight,
                            known: SUBSET Keys]]

\* The nodes a walk of one level passes through, in any state.
OnLevel(level) ==
  {n \in Keys : height[n] >= level /\
     (n \in done \/ (n = writer.key /\ level < writer.level))}

(* Every level is at all times the sorted list of the nodes that were      *)
(* linked into it: no state of an insertion drops a node or turns the list *)
(* back on itself, which a reader could not survive.                       *)
LevelsSorted ==
  \A level \in Levels : \A n \in {Head} \cup OnLevel(level) :
    next[n][level] =
      IF \E m \in OnLevel(level) : m > n
        THEN CHOOSE m \in OnLevel(level) :
               m > n /\ \A k \in OnLevel(level) : k > n => m <= k
        ELSE Null

(* A search that ends found its place among everything that had been       *)
(* inserted when it began: nothing inserted since can make it miss one of  *)
(* these keys, and the heights it read may be as stale as they like.       *)
SearchesRight ==
  \A r \in Readers :
    LET s     == reader[r]
        found == s.at
    IN  s.level = 0 =>
          /\ s.op = "greaterOrEqual" =>
               found >= s.target /\ \A k \in s.known : k >= s.target => found <= k
          /\ s.op = "lessThan" =>
               found < s.target /\ \A k \in s.known : k < s.target => found >= k
          /\ s.op = "last" =>
               found # Null /\ \A k \in s.known : found >= k
          /\ s.op = "next" =>
               found > s.target /\ \A k \in s.known : k > s.target => found <= k

(* What Insert and the searches of db/skiplist.h promise without a lock      *)
(* between them: typed state, sorted levels, right searches.                 *)
SkipListRight == TypeOK /\ LevelsSorted /\ SearchesRight

=============================================================================
