--------------------------- MODULE SkipListProofs ---------------------------
(***************************************************************************)
(* The skip list is sorted at every moment of an insertion and every search *)
(* finds its place, for any number of keys, levels and readers.             *)
(*                                                                          *)
(* LevelsSorted alone is not inductive.  Linking a node needs that prev[]   *)
(* is still the last node before the key on the levels to come (PrevHolds)  *)
(* and that a reader's node is on the level it is walked on (ReadersOn): a  *)
(* node is linked bottom-up, so whoever stands on it above may go down.     *)
(***************************************************************************)
EXTENDS SkipList, NaturalsInduction, WellFoundedInduction, TLAPS

(* x follows n on a level: nothing of the level lies between.               *)
Follows(x, n, level) ==
  /\ x > n
  /\ x \in OnLevel(level) \cup {Null}
  /\ \A m \in OnLevel(level) : m > n => x <= m

LevelsLinked ==
  \A level \in Levels : \A n \in {Head} \cup OnLevel(level) :
    Follows(next[n][level], n, level)

(* n is where the key goes in on the level.                                 *)
Before(n, key, level) ==
  /\ n \in {Head} \cup OnLevel(level)
  /\ n < key
  /\ \A m \in OnLevel(level) : m < key => m <= n

WriterShape ==
  /\ writer.level = 0 => ~writer.ready
  /\ writer.level > 0 => /\ writer.key \in Keys \ done
                         /\ writer.level <= height[writer.key]
  /\ \A k \in Keys : height[k] > 0 =>
       k \in done \/ (writer.level > 0 /\ k = writer.key)

PrevHolds ==
  writer.level > 0 =>
    /\ \A l \in Levels : l >= writer.level => Before(writer.prev[l], writer.key, l)
    /\ writer.ready =>
         next[writer.key][writer.level] =
           next[writer.prev[writer.level]][writer.level]

(* What holds of the record s of a reader.                                  *)
OnItsLevel(s) ==
  /\ s.known \subseteq done
  /\ s.level > 0 =>
       /\ s.at \in {Head} \cup OnLevel(s.level)
       /\ s.op \in Ops
       /\ s.op # "last" => s.at < s.target
  /\ s.level = 0 => s.at \in {Head, Null} \cup OnLevel(1)

ReadersOn == \A r \in Readers : OnItsLevel(reader[r])

(* The inductive invariant.                                                 *)
SkipListInv ==
  TypeOK /\ WriterShape /\ LevelsLinked /\ PrevHolds /\ ReadersOn /\ SearchesRight

-----------------------------------------------------------------------------
(* A set of natural numbers has a least one.                                *)
LEMMA LeastNat ==
  ASSUME NEW T, T \subseteq Nat, T # {}
  PROVE  \E x \in T : \A y \in T : x <= y
  <1> DEFINE R == OpToRel(<, Nat)
  <1>1. IsWellFoundedOn(R, Nat)
    BY NatLessThanWellFounded
  <1>2. \A y, x \in Nat : <<y, x>> \in R <=> y < x
    BY DEF OpToRel
  <1> HIDE DEF R
  <1>3. PICK x \in T : \A y \in T : ~ (<<y, x>> \in R)
    BY <1>1, WFMin
  <1>4. ASSUME NEW y \in T PROVE x <= y
    <2>1. x \in Nat /\ y \in Nat
      OBVIOUS
    <2>2. ~(y < x)
      BY <1>2, <1>3, <2>1
    <2> QED BY <2>1, <2>2
  <1> QED BY <1>4

(* A set of numbers below n has a greatest one.                             *)
LEMMA GreatestBelow ==
  ASSUME NEW n \in Nat, NEW T, T \subseteq Nat, T # {}, \A x \in T : x < n
  PROVE  \E x \in T : \A y \in T : y <= x
  <1> DEFINE D == {k \in Nat : n - k \in T}
  <1>1. PICK x \in T : TRUE
    OBVIOUS
  <1>2. n - x \in D
    OBVIOUS
  <1>3. PICK d \in D : \A e \in D : d <= e
    BY <1>2, LeastNat
  <1>4. ASSUME NEW y \in T PROVE y <= n - d
    <2>1. n - y \in D /\ d \in Nat /\ y \in Nat
      OBVIOUS
    <2>2. d <= n - y
      BY <1>3, <2>1
    <2> QED BY <2>1, <2>2
  <1> QED BY <1>3, <1>4

(* The constants in the form the steps use them.                            *)
LEMMA Constants ==
  ASSUME SkipListConstants
  PROVE  /\ MaxKey \in Nat /\ MaxKey > 0 /\ MaxHeight \in Nat /\ MaxHeight > 0
         /\ Head = 0 /\ Null = MaxKey + 1
         /\ Keys = 1 .. MaxKey /\ Levels = 1 .. MaxHeight
         /\ Nodes = 0 .. MaxKey
         /\ 1 \in Levels
  BY DEF SkipListConstants, Head, Null, Keys, Nodes, Levels

(* FindGreaterOrEqual gives Insert the place of the key, on every level.     *)
LEMMA FindPrevIsBefore ==
  ASSUME SkipListConstants, TypeOK, WriterShape, writer.level = 0,
         NEW key \in Keys, NEW l \in Levels
  PROVE  Before(FindPrev(key, l), key, l)
  <1> DEFINE T == {n \in Linked(l) : n < key}
  <1>1. Linked(l) = {Head} \cup OnLevel(l)
    BY Constants DEF Linked, OnLevel, TypeOK, WriterShape
  <1>2. T \subseteq Nat /\ Head \in T /\ key \in Nat /\ \A x \in T : x < key
    BY Constants DEF Linked
  <1>3. \E x \in T : \A y \in T : y <= x
    BY <1>2, GreatestBelow
  <1>4. \E n \in Linked(l) :
          n < key /\ \A m \in Linked(l) : m < key => m <= n
    BY <1>3
  <1> DEFINE p == FindPrev(key, l)
  <1>5. p \in Linked(l) /\ p < key /\ \A m \in Linked(l) : m < key => m <= p
    BY <1>4 DEF FindPrev
  <1> QED BY <1>1, <1>5 DEF Before

(* A level that is linked is the sorted list the property speaks of.         *)
LEMMA LinkedIsSorted ==
  ASSUME SkipListConstants, TypeOK, LevelsLinked
  PROVE  LevelsSorted
  <1> SUFFICES ASSUME NEW l \in Levels, NEW n \in {Head} \cup OnLevel(l)
               PROVE  next[n][l] =
                        IF \E m \in OnLevel(l) : m > n
                          THEN CHOOSE m \in OnLevel(l) :
                                 m > n /\ \A k \in OnLevel(l) : k > n => m <= k
                          ELSE Null
    BY DEF LevelsSorted
  <1> DEFINE x == next[n][l]
             Best(m) == m > n /\ \A k \in OnLevel(l) : k > n => m <= k
  <1>1. OnLevel(l) \subseteq Keys
    BY DEF OnLevel
  <1>2. x > n /\ x \in OnLevel(l) \cup {Null} /\ \A m \in OnLevel(l) : m > n => x <= m
    BY DEF LevelsLinked, Follows
  <1> HIDE DEF x
  <1>3. CASE \E m \in OnLevel(l) : m > n
    <2>1. x \in OnLevel(l)
      BY <1>1, <1>2, <1>3, Constants
    <2>2. Best(x)
      BY <1>2
    <2> DEFINE c == CHOOSE m \in OnLevel(l) : Best(m)
    <2>3. c \in OnLevel(l) /\ Best(c)
      BY <2>1, <2>2
    <2> HIDE DEF c
    <2>4. x <= c /\ c <= x
      BY <1>2, <2>1, <2>3
    <2>5. x = c
      BY <2>1, <2>3, <2>4, <1>1, Constants
    <2> QED BY <1>3, <2>5 DEF c, x
  <1>4. CASE ~\E m \in OnLevel(l) : m > n
    BY <1>2, <1>4 DEF x
  <1> QED BY <1>3, <1>4

-----------------------------------------------------------------------------
LEMMA InitHolds ==
  ASSUME SkipListConstants, Init
  PROVE  SkipListInv
  <1>1. TypeOK
    BY Constants DEF Init, TypeOK, Idle, Resting, Ops
  <1>2. \A l \in Levels : OnLevel(l) = {}
    BY Constants DEF Init, OnLevel, Idle
  <1>3. WriterShape
    BY Constants DEF Init, WriterShape, Idle
  <1>4. LevelsLinked
    BY <1>2, Constants DEF Init, LevelsLinked, Follows
  <1>5. PrevHolds
    BY Constants DEF Init, PrevHolds, Idle
  <1>6. ReadersOn
    BY Constants DEF Init, ReadersOn, OnItsLevel, Resting
  <1>7. SearchesRight
    BY DEF Init, SearchesRight, Resting
  <1> QED BY <1>1, <1>3, <1>4, <1>5, <1>6, <1>7 DEF SkipListInv

(* A step of the writer leaves the readers where they stood: levels only     *)
(* gain nodes.                                                               *)
LEMMA ReadersStay ==
  ASSUME SkipListConstants, SkipListInv, UNCHANGED reader, done \subseteq done',
         \A l \in Levels : OnLevel(l) \subseteq OnLevel(l)'
  PROVE  ReadersOn' /\ SearchesRight'
  <1>1. ASSUME NEW r \in Readers PROVE OnItsLevel(reader[r])'
    <2>1. OnItsLevel(reader[r]) /\ reader[r].level \in 0 .. MaxHeight
      BY DEF SkipListInv, ReadersOn, TypeOK
    <2>2. reader[r].level > 0 => OnLevel(reader[r].level) \subseteq OnLevel(reader[r].level)'
      BY <2>1, Constants
    <2>3. OnLevel(1) \subseteq OnLevel(1)'
      BY Constants
    <2> QED BY <2>1, <2>2, <2>3 DEF OnItsLevel
  <1>2. SearchesRight'
    BY DEF SkipListInv, SearchesRight
  <1> QED BY <1>1, <1>2 DEF ReadersOn

(* A step of a reader changes nothing the writer relies on.                  *)
LEMMA ListStays ==
  ASSUME SkipListInv, UNCHANGED <<next, height, maxHeight, writer, done>>
  PROVE  WriterShape' /\ LevelsLinked' /\ PrevHolds'
  BY DEF SkipListInv, WriterShape, LevelsLinked, Follows, OnLevel, PrevHolds, Before

LEMMA BeginInsertHolds ==
  ASSUME SkipListConstants, SkipListInv, BeginInsert
  PROVE  SkipListInv'
  <1>1. PICK key \in Keys, h \in Levels :
          /\ height[key] = 0
          /\ writer' = [key |-> key, level |-> 1, ready |-> FALSE,
                        prev |-> [l \in Levels |-> FindPrev(key, l)]]
          /\ height' = [height EXCEPT ![key] = h]
          /\ maxHeight' = Raised(h)
    BY DEF BeginInsert
  <1>2. UNCHANGED <<next, done, reader>> /\ writer.level = 0
    BY DEF BeginInsert
  <1>3. TypeOK /\ WriterShape /\ LevelsLinked
    BY DEF SkipListInv
  <1>4. key \notin done
    BY <1>1, <1>3, Constants DEF TypeOK
  <1>5. ASSUME NEW l \in Levels PROVE OnLevel(l)' = OnLevel(l)
    BY <1>1, <1>2, <1>3, <1>4, Constants DEF OnLevel, TypeOK
  <1>6. \A l \in Levels : Before(FindPrev(key, l), key, l)
    BY <1>2, <1>3, FindPrevIsBefore
  <1>7. TypeOK'
    <2>1. \A l \in Levels : FindPrev(key, l) \in Nodes
      BY <1>6, Constants DEF Before, OnLevel
    <2>2. writer' \in [key: Nodes, level: 0 .. MaxHeight, ready: BOOLEAN,
                       prev: [Levels -> Nodes]]
      BY <1>1, <2>1, Constants
    <2>3. maxHeight' \in Levels /\ maxHeight' >= h /\ maxHeight' >= maxHeight
      BY <1>1, <1>3, Constants DEF Raised, TypeOK
    <2>4. height' \in [Nodes -> 0 .. MaxHeight]
      BY <1>1, <1>3, Constants DEF TypeOK
    <2>5. \A k \in Keys : height'[k] <= maxHeight'
      BY <1>1, <1>3, <2>3, Constants DEF TypeOK
    <2>6. done' \subseteq {k \in Keys : height'[k] > 0}
      BY <1>1, <1>2, <1>3, <1>4, Constants DEF TypeOK
    <2> QED BY <1>2, <1>3, <2>2, <2>3, <2>4, <2>5, <2>6 DEF TypeOK
  <1>8. WriterShape'
    BY <1>1, <1>2, <1>3, <1>4, Constants DEF WriterShape, TypeOK
  <1>9. LevelsLinked'
    BY <1>2, <1>3, <1>5 DEF LevelsLinked, Follows
  <1>10. PrevHolds'
    BY <1>1, <1>5, <1>6, Constants DEF PrevHolds, Before
  <1>11. ReadersOn' /\ SearchesRight'
    BY <1>2, <1>5, ReadersStay
  <1> QED BY <1>7, <1>8, <1>9, <1>10, <1>11 DEF SkipListInv

LEMMA PrepareLevelHolds ==
  ASSUME SkipListConstants, SkipListInv, PrepareLevel
  PROVE  SkipListInv'
  <1> DEFINE key == writer.key
             level == writer.level
             p == writer.prev[level]
  <1>1. TypeOK /\ WriterShape /\ LevelsLinked /\ PrevHolds
    BY DEF SkipListInv
  <1>2. /\ level \in Levels /\ key \in Keys \ done /\ p \in Nodes
        /\ key # p /\ level <= height[key]
    BY <1>1, Constants DEF PrepareLevel, TypeOK, WriterShape, PrevHolds, Before
  <1>3. /\ writer' = [writer EXCEPT !.ready = TRUE]
        /\ next' = [next EXCEPT ![key][level] = next[p][level]]
        /\ UNCHANGED <<height, maxHeight, done, reader>>
    BY DEF PrepareLevel, Successor
  <1>4. /\ writer'.key = key /\ writer'.level = level /\ writer'.prev = writer.prev
        /\ writer' \in [key: Nodes, level: 0 .. MaxHeight, ready: BOOLEAN,
                        prev: [Levels -> Nodes]]
    BY <1>1, <1>3 DEF TypeOK
  <1>5. \A l \in Levels : OnLevel(l)' = OnLevel(l)
    BY <1>3, <1>4 DEF OnLevel
  <1>6. /\ next' \in [Nodes -> [Levels -> Nodes \cup {Null}]]
        /\ next'[key][level] = next[p][level]
        /\ \A n \in Nodes, l \in Levels :
             ~(n = key /\ l = level) => next'[n][l] = next[n][l]
    BY <1>1, <1>2, <1>3, Constants DEF TypeOK
  <1>7. TypeOK'
    BY <1>1, <1>3, <1>4, <1>6 DEF TypeOK
  <1>8. WriterShape'
    BY <1>1, <1>2, <1>3, <1>4, Constants DEF WriterShape
  <1>9. LevelsLinked'
    <2> SUFFICES ASSUME NEW l \in Levels, NEW n \in {Head} \cup OnLevel(l)
                 PROVE  Follows(next[n][l], n, l)'
      BY <1>5 DEF LevelsLinked
    <2>1. n \in Nodes /\ ~(n = key /\ l = level)
      BY <1>2, Constants DEF OnLevel
    <2> QED BY <1>1, <1>5, <1>6, <2>1 DEF LevelsLinked, Follows
  <1>10. PrevHolds'
    <2>1. \A l \in Levels : l >= level => Before(writer.prev[l], key, l)
      BY <1>1, <1>2, Constants DEF PrevHolds
    <2>2. \A l \in Levels : l >= level => Before(writer.prev[l], key, l)'
      BY <1>3, <1>4, <1>5, <2>1 DEF Before
    <2>3. next'[key][level] = next'[p][level]
      BY <1>2, <1>6
    <2> QED BY <1>4, <2>2, <2>3 DEF PrevHolds
  <1>11. ReadersOn' /\ SearchesRight'
    BY <1>3, <1>5, ReadersStay
  <1> QED BY <1>7, <1>8, <1>9, <1>10, <1>11 DEF SkipListInv


LEMMA PublishLevelHolds ==
  ASSUME SkipListConstants, SkipListInv, PublishLevel
  PROVE  SkipListInv'
  <1>0. PICK key, level, p :
          key = writer.key /\ level = writer.level /\ p = writer.prev[level]
    OBVIOUS
  <1>1. TypeOK /\ WriterShape /\ LevelsLinked /\ PrevHolds
    BY DEF SkipListInv
  <1>2. /\ writer.ready /\ level \in Levels /\ key \in Keys \ done
        /\ level <= height[key] /\ height[key] \in 0 .. MaxHeight
    BY <1>0, <1>1, Constants DEF PublishLevel, TypeOK, WriterShape
  <1>3. Before(p, key, level) /\ next[key][level] = next[p][level]
    BY <1>0, <1>1, <1>2, Constants DEF PrevHolds
  <1>4. p \in Nodes /\ p # key
    BY <1>0, <1>2, <1>3, Constants DEF Before, OnLevel
  <1>5. /\ next' = [next EXCEPT ![p][level] = key]
        /\ UNCHANGED <<height, maxHeight, reader>>
    BY <1>0 DEF PublishLevel
  <1>6. \/ /\ level < height[key]
           /\ writer' = [writer EXCEPT !.level = @ + 1, !.ready = FALSE]
           /\ done' = done
        \/ /\ level = height[key]
           /\ writer' = Idle /\ done' = done \cup {key}
    BY <1>0, <1>2, Constants DEF PublishLevel
  <1>7. \/ /\ writer' \in [key: Nodes, level: 0 .. MaxHeight, ready: BOOLEAN,
                           prev: [Levels -> Nodes]]
           /\ writer'.key = key /\ writer'.level = level + 1
           /\ writer'.prev = writer.prev /\ ~writer'.ready
           /\ level < height[key] /\ done' = done
        \/ /\ writer' \in [key: Nodes, level: 0 .. MaxHeight, ready: BOOLEAN,
                           prev: [Levels -> Nodes]]
           /\ writer'.level = 0 /\ ~writer'.ready
           /\ level = height[key] /\ done' = done \cup {key}
    <2>1. /\ writer \in [key: Nodes, level: 0 .. MaxHeight, ready: BOOLEAN,
                         prev: [Levels -> Nodes]]
          /\ writer.key = key /\ writer.level = level
      BY <1>0, <1>1 DEF TypeOK
    <2>2. CASE level < height[key]
      <3>1. /\ writer' = [writer EXCEPT !.level = level + 1, !.ready = FALSE]
            /\ done' = done
        BY <1>2, <1>6, <2>1, <2>2, Constants
      <3>2. level + 1 \in 0 .. MaxHeight
        BY <1>2, <2>2, Constants
      <3> QED BY <2>1, <2>2, <3>1, <3>2
    <2>3. CASE level = height[key]
      <3>1. writer' = Idle /\ done' = done \cup {key}
        BY <1>2, <1>6, <2>3, Constants
      <3>2. Head \in Nodes /\ 0 \in Nodes /\ 0 \in 0 .. MaxHeight
        BY Constants
      <3> QED BY <2>3, <3>1, <3>2 DEF Idle
    <2> QED BY <1>6, <2>2, <2>3
  <1>8. /\ OnLevel(level)' = OnLevel(level) \cup {key}
        /\ \A l \in Levels : l # level => OnLevel(l)' = OnLevel(l)
    BY <1>0, <1>2, <1>5, <1>7, Constants DEF OnLevel
  <1>9. /\ next' \in [Nodes -> [Levels -> Nodes \cup {Null}]]
        /\ next'[p][level] = key
        /\ \A n \in Nodes, l \in Levels :
             ~(n = p /\ l = level) => next'[n][l] = next[n][l]
    <2>1. next \in [Nodes -> [Levels -> Nodes \cup {Null}]] /\ key \in Nodes
      BY <1>1, <1>2, Constants DEF TypeOK
    <2>2. [next[p] EXCEPT ![level] = key] \in [Levels -> Nodes \cup {Null}]
      BY <1>4, <2>1
    <2>3. next' = [next EXCEPT ![p] = [next[p] EXCEPT ![level] = key]]
      BY <1>5
    <2> QED BY <1>2, <1>4, <2>1, <2>2, <2>3
  <1>10. TypeOK'
    <2>1. done' \subseteq {k \in Keys : height'[k] > 0}
      BY <1>1, <1>2, <1>5, <1>7, Constants DEF TypeOK
    <2> QED BY <1>1, <1>5, <1>7, <1>9, <2>1 DEF TypeOK
  <1>11. WriterShape'
    BY <1>0, <1>1, <1>2, <1>5, <1>7, Constants DEF WriterShape
  <1>12. LevelsLinked'
    <2>1. ASSUME NEW l \in Levels, l # level, NEW n \in {Head} \cup OnLevel(l)
          PROVE  Follows(next[n][l], n, l)'
      <3>1. n \in Nodes
        BY Constants DEF OnLevel
      <3> QED BY <1>1, <1>8, <1>9, <2>1, <3>1 DEF LevelsLinked, Follows
    <2>2. ASSUME NEW n \in {Head} \cup OnLevel(level) \cup {key}
          PROVE  Follows(next[n][level], n, level)'
      <3> DEFINE S == OnLevel(level)
                 x == next[p][level]
      <3>1. S \subseteq Keys /\ key \notin S
        BY <1>0, <1>2, Constants DEF OnLevel
      <3>2. /\ p \in {Head} \cup S /\ p < key
            /\ \A m \in S : m < key => m <= p
        BY <1>3 DEF Before
      <3>3. x > p /\ x \in S \cup {Null} /\ \A m \in S : m > p => x <= m
        BY <1>1, <1>2, <3>2 DEF LevelsLinked, Follows
      <3>4. CASE n = p
        <4>1. \A m \in S \cup {key} : m > p => key <= m
          BY <1>2, <3>1, <3>2, Constants
        <4> QED BY <1>8, <1>9, <3>2, <3>4, <4>1 DEF Follows
      <3>5. CASE n = key
        <4>1. next'[key][level] = x
          BY <1>2, <1>3, <1>4, <1>9, Constants
        <4>2. x > key
          BY <1>2, <3>1, <3>2, <3>3, Constants
        <4>3. \A m \in S \cup {key} : m > key => x <= m
          BY <1>2, <3>1, <3>2, <3>3, Constants
        <4> QED BY <1>8, <3>3, <3>5, <4>1, <4>2, <4>3 DEF Follows
      <3>6. CASE n # p /\ n # key
        <4> DEFINE y == next[n][level]
        <4>1. n \in {Head} \cup S /\ n \in Nodes
          BY <3>6, Constants DEF OnLevel
        <4>2. y > n /\ y \in S \cup {Null} /\ \A m \in S : m > n => y <= m
          BY <1>1, <1>2, <4>1 DEF LevelsLinked, Follows
        <4>3. next'[n][level] = y
          BY <1>2, <1>9, <3>6, <4>1
        <4>4. key > n => y <= key
          BY <1>2, <3>1, <3>2, <3>6, <4>1, <4>2, Constants
        <4> QED BY <1>8, <4>2, <4>3, <4>4 DEF Follows
      <3> QED BY <2>2, <3>4, <3>5, <3>6
    <2> QED BY <1>8, <2>1, <2>2 DEF LevelsLinked
  <1>13. PrevHolds'
    <2>1. SUFFICES ASSUME level < height[key], writer'.level = level + 1, writer'.key = key,
                          writer'.prev = writer.prev, ~writer'.ready,
                          NEW l \in Levels, l >= level + 1
                   PROVE  Before(writer.prev[l], writer.key, l)'
      BY <1>7 DEF PrevHolds
    <2>2. Before(writer.prev[l], key, l)
      BY <1>0, <1>1, <1>2, <2>1, Constants DEF PrevHolds
    <2>3. OnLevel(l)' = OnLevel(l)
      BY <1>2, <1>8, <2>1, Constants
    <2> QED BY <2>1, <2>2, <2>3 DEF Before
  <1>14. ReadersOn' /\ SearchesRight'
    <2>1. \A l \in Levels : OnLevel(l) \subseteq OnLevel(l)'
      BY <1>8
    <2> QED BY <1>5, <1>7, <2>1, ReadersStay
  <1> QED BY <1>10, <1>11, <1>12, <1>13, <1>14 DEF SkipListInv

-----------------------------------------------------------------------------
(* What SearchesRight says of one reader.                                    *)
Right(s) ==
  s.level = 0 =>
    /\ s.op = "greaterOrEqual" =>
         s.at >= s.target /\ \A k \in s.known : k >= s.target => s.at <= k
    /\ s.op = "lessThan" =>
         s.at < s.target /\ \A k \in s.known : k < s.target => s.at >= k
    /\ s.op = "last" => s.at # Null /\ \A k \in s.known : s.at >= k
    /\ s.op = "next" =>
         s.at > s.target /\ \A k \in s.known : k > s.target => s.at <= k

ReaderType == [op: Ops \cup {"none", "next"}, target: Nodes, at: Nodes \cup {Null},
               level: 0 .. MaxHeight, known: SUBSET Keys]

(* A step of one reader keeps the invariant when the new record of that      *)
(* reader is right.                                                          *)
LEMMA OneReaderMoves ==
  ASSUME SkipListInv, NEW r \in Readers, NEW t \in ReaderType,
         reader' = [reader EXCEPT ![r] = t],
         UNCHANGED <<next, height, maxHeight, writer, done>>,
         OnItsLevel(t), Right(t)
  PROVE  SkipListInv'
  <1>1. TypeOK'
    BY DEF SkipListInv, TypeOK, ReaderType
  <1>2. \A q \in Readers : reader'[q] = IF q = r THEN t ELSE reader[q]
    BY DEF SkipListInv, TypeOK
  <1>3. \A l : OnLevel(l)' = OnLevel(l)
    BY DEF OnLevel
  <1>4. ReadersOn'
    <2> SUFFICES ASSUME NEW q \in Readers PROVE OnItsLevel(reader[q])'
      BY DEF ReadersOn
    <2>1. OnItsLevel(reader'[q])
      BY <1>2 DEF SkipListInv, ReadersOn
    <2> QED BY <1>3, <2>1 DEF OnItsLevel
  <1>5. \A q \in Readers : Right(reader[q])
    BY DEF SkipListInv, SearchesRight, Right
  <1>6. \A q \in Readers : Right(reader'[q])
    BY <1>2, <1>5
  <1>7. SearchesRight'
    BY <1>6 DEF SearchesRight, Right
  <1> QED BY <1>1, <1>4, <1>7, ListStays DEF SkipListInv

LEMMA BeginSearchHolds ==
  ASSUME SkipListConstants, SkipListInv, NEW r \in Readers, BeginSearch(r)
  PROVE  SkipListInv'
  <1>1. PICK op \in Ops, target \in Keys, h \in 1 .. maxHeight :
          reader' = [reader EXCEPT ![r] = [op |-> op, target |-> target, at |-> Head,
                                           level |-> h, known |-> done]]
    BY DEF BeginSearch
  <1> DEFINE t == [op |-> op, target |-> target, at |-> Head, level |-> h,
                   known |-> done]
  <1>2. h \in Levels /\ target \in Nodes /\ Head \in Nodes /\ done \subseteq Keys
    BY Constants DEF SkipListInv, TypeOK
  <1>3. t \in ReaderType
    BY <1>2, Constants DEF ReaderType
  <1>4. OnItsLevel(t) /\ Right(t)
    BY <1>2, Constants DEF OnItsLevel, Right
  <1>5. UNCHANGED <<next, height, maxHeight, writer, done>>
    BY DEF BeginSearch
  <1> HIDE DEF t
  <1> QED BY <1>1, <1>3, <1>4, <1>5, OneReaderMoves DEF t

(* Every key that was inserted is on the lowest level.                       *)
LEMMA LowestHasAll ==
  ASSUME SkipListConstants, TypeOK
  PROVE  done \subseteq OnLevel(1)
  BY Constants DEF TypeOK, OnLevel

LEMMA StepNextHolds ==
  ASSUME SkipListConstants, SkipListInv, NEW r \in Readers, StepNext(r)
  PROVE  SkipListInv'
  <1> DEFINE s == reader[r]
             n == next[s.at][1]
             t == [op |-> "next", target |-> s.at, at |-> n, level |-> 0,
                   known |-> done]
  <1>1. /\ s.level = 0 /\ s.at # Null
        /\ reader' = [reader EXCEPT ![r] = t]
        /\ UNCHANGED <<next, height, maxHeight, writer, done>>
    BY DEF StepNext
  <1>2. s.at \in {Head} \cup OnLevel(1)
    BY <1>1 DEF SkipListInv, ReadersOn, OnItsLevel
  <1>3. n > s.at /\ n \in OnLevel(1) \cup {Null} /\ \A m \in OnLevel(1) : m > s.at => n <= m
    BY <1>2, Constants DEF SkipListInv, LevelsLinked, Follows
  <1>4. done \subseteq OnLevel(1) /\ OnLevel(1) \subseteq Keys
    BY LowestHasAll DEF SkipListInv, OnLevel
  <1> HIDE DEF n, s
  <1>5. t \in ReaderType
    BY <1>2, <1>3, <1>4, Constants DEF ReaderType
  <1>6. OnItsLevel(t) /\ Right(t)
    BY <1>3, <1>4 DEF OnItsLevel, Right, Ops
  <1> HIDE DEF t
  <1> QED BY <1>1, <1>5, <1>6, OneReaderMoves

LEMMA SearchStepHolds ==
  ASSUME SkipListConstants, SkipListInv, NEW r \in Readers, SearchStep(r)
  PROVE  SkipListInv'
  <1> DEFINE s == reader[r]
             n == next[s.at][s.level]
             goes == GoesOn(s.op, s.target, n)
             on == [s EXCEPT !.at = n]
             down == [s EXCEPT !.level = @ - 1]
             end == [s EXCEPT !.level = 0,
                              !.at = IF s.op = "greaterOrEqual" THEN n ELSE @]
  <1>1. /\ s.level > 0
        /\ reader' = [reader EXCEPT ![r] = IF goes THEN on
                                           ELSE IF s.level > 1 THEN down ELSE end]
        /\ UNCHANGED <<next, height, maxHeight, writer, done>>
    BY DEF SearchStep
  <1>2. s \in ReaderType /\ s.level \in Levels
    BY <1>1, Constants DEF SkipListInv, TypeOK, ReaderType
  <1>3. /\ s.known \subseteq done /\ s.op \in Ops
        /\ s.at \in {Head} \cup OnLevel(s.level)
        /\ s.op # "last" => s.at < s.target
    BY <1>1 DEF SkipListInv, ReadersOn, OnItsLevel
  <1>4. /\ n > s.at /\ n \in OnLevel(s.level) \cup {Null}
        /\ \A m \in OnLevel(s.level) : m > s.at => n <= m
    BY <1>2, <1>3, Constants DEF SkipListInv, LevelsLinked, Follows
  <1>5. \A l : OnLevel(l) \subseteq Keys
    BY DEF OnLevel
  <1>6. done \subseteq OnLevel(1)
    BY LowestHasAll DEF SkipListInv
  <1>7. goes <=> n # Null /\ (s.op = "last" \/ n < s.target)
    BY DEF GoesOn
  <1>8. height \in [Nodes -> 0 .. MaxHeight] /\ writer.level \in 0 .. MaxHeight
    BY DEF SkipListInv, TypeOK
  <1> HIDE DEF s, n, goes
  <1>9. CASE goes
    <2>1. on \in ReaderType
      BY <1>2, <1>4, <1>5, Constants DEF ReaderType
    <2>2. OnItsLevel(on) /\ Right(on)
      BY <1>1, <1>2, <1>3, <1>4, <1>7, <1>9 DEF OnItsLevel, Right, ReaderType
    <2>3. reader' = [reader EXCEPT ![r] = on]
      BY <1>1, <1>9
    <2> HIDE DEF on
    <2> QED BY <1>1, <2>1, <2>2, <2>3, OneReaderMoves
  <1>10. CASE ~goes /\ s.level > 1
    <2>1. down \in ReaderType /\ down.level = s.level - 1 /\ down.level > 0
      BY <1>2, <1>10, Constants DEF ReaderType
    <2>2. OnLevel(s.level) \subseteq OnLevel(s.level - 1)
      BY <1>2, <1>8, <1>10, Constants DEF OnLevel
    <2>3. down.at = s.at /\ down.known = s.known /\ down.op = s.op /\ down.target = s.target
      BY <1>2 DEF ReaderType
    <2>4. OnItsLevel(down) /\ Right(down)
      BY <1>3, <2>1, <2>2, <2>3 DEF OnItsLevel, Right
    <2>5. reader' = [reader EXCEPT ![r] = down]
      BY <1>1, <1>10
    <2> HIDE DEF down
    <2> QED BY <1>1, <2>1, <2>4, <2>5, OneReaderMoves
  <1>11. CASE ~goes /\ ~(s.level > 1)
    <2>1. s.level = 1
      BY <1>2, <1>11, Constants
    <2>2. /\ end \in ReaderType /\ end.level = 0 /\ end.op = s.op
          /\ end.target = s.target /\ end.known = s.known
          /\ end.at = IF s.op = "greaterOrEqual" THEN n ELSE s.at
      <3> DEFINE a == IF s.op = "greaterOrEqual" THEN n ELSE s.at
      <3>1. a \in Nodes \cup {Null}
        BY <1>2, <1>4, <1>5, Constants DEF ReaderType
      <3>2. end = [s EXCEPT !.level = 0, !.at = a]
        OBVIOUS
      <3>3. 0 \in 0 .. MaxHeight
        BY Constants
      <3> HIDE DEF a, end
      <3>4. /\ end \in ReaderType /\ end.level = 0 /\ end.op = s.op
            /\ end.target = s.target /\ end.known = s.known /\ end.at = a
        BY <1>2, <3>1, <3>2, <3>3 DEF ReaderType
      <3> QED BY <3>4 DEF a
    <2> HIDE DEF end
    <2>3. OnItsLevel(end)
      BY <1>3, <1>4, <2>1, <2>2 DEF OnItsLevel
    <2>4. /\ s.at \in Nat /\ n \in Nat /\ s.target \in Nat /\ s.known \subseteq OnLevel(1)
          /\ s.at # Null
          /\ (n = Null \/ (s.op # "last" /\ n >= s.target))
      BY <1>2, <1>3, <1>4, <1>5, <1>6, <1>7, <1>11, Constants DEF ReaderType
    <2>5. s.op = "greaterOrEqual" =>
            n >= s.target /\ \A k \in s.known : k >= s.target => n <= k
      BY <1>2, <1>3, <1>4, <1>5, <2>1, <2>4, Constants DEF ReaderType
    <2>6. s.op = "lessThan" =>
            s.at < s.target /\ \A k \in s.known : k < s.target => s.at >= k
      BY <1>2, <1>3, <1>4, <1>5, <2>1, <2>4, Constants DEF ReaderType
    <2>7. s.op = "last" => \A k \in s.known : s.at >= k
      BY <1>3, <1>4, <1>5, <2>1, <2>4, Constants
    <2>8. Right(end)
      BY <1>3, <2>2, <2>4, <2>5, <2>6, <2>7 DEF Right, Ops
    <2>9. reader' = [reader EXCEPT ![r] = end]
      BY <1>1, <1>11
    <2> QED BY <1>1, <2>2, <2>3, <2>8, <2>9, OneReaderMoves
  <1> QED BY <1>9, <1>10, <1>11

-----------------------------------------------------------------------------
(* Whatever the readers do while Insert links a node, every level of the     *)
(* skip list stays a sorted list of what was linked into it, and a search    *)
(* ends where it should among the keys inserted before it began.             *)
THEOREM SearchesFindInserted ==
  ASSUME SkipListConstants
  PROVE  Spec => []SkipListRight
  <1>1. Init => SkipListInv
    BY InitHolds
  <1>2. SkipListInv /\ [Next]_vars => SkipListInv'
    <2> SUFFICES ASSUME SkipListInv, [Next]_vars PROVE SkipListInv'
      OBVIOUS
    <2>1. CASE BeginInsert
      BY <2>1, BeginInsertHolds
    <2>2. CASE PrepareLevel
      BY <2>2, PrepareLevelHolds
    <2>3. CASE PublishLevel
      BY <2>3, PublishLevelHolds
    <2>4. CASE Read
      BY <2>4, BeginSearchHolds, StepNextHolds, SearchStepHolds DEF Read
    <2>5. CASE UNCHANGED vars
      <3>1. TypeOK'
        BY <2>5 DEF vars, SkipListInv, TypeOK
      <3>2. WriterShape' /\ LevelsLinked' /\ PrevHolds'
        BY <2>5, ListStays DEF vars
      <3>3. ReadersOn'
        BY <2>5 DEF vars, SkipListInv, ReadersOn, OnItsLevel, OnLevel
      <3>4. SearchesRight'
        BY <2>5 DEF vars, SkipListInv, SearchesRight
      <3> QED BY <3>1, <3>2, <3>3, <3>4 DEF SkipListInv
    <2> QED BY <2>1, <2>2, <2>3, <2>4, <2>5 DEF Next
  <1>3. SkipListInv => SkipListRight
    BY LinkedIsSorted DEF SkipListInv, SkipListRight
  <1> QED BY <1>1, <1>2, <1>3, PTL DEF Spec


=============================================================================
