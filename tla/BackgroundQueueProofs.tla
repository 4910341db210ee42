------------------------ MODULE BackgroundQueueProofs ------------------------
(***************************************************************************)
(* The background thread runs every item once and in order, for any number *)
(* of databases and of items.                                              *)
(*                                                                         *)
(* That a database has one item queued at most is kept by its flag, which  *)
(* the item clears while it still runs, so that the next one may be queued *)
(* behind it.  The number of an item tells the two apart: a queued item is *)
(* always the newest of its database (Newest), the running one is older.   *)
(***************************************************************************)
EXTENDS BackgroundQueue, SequenceTheorems, TLAPS

Newest ==
  /\ \A i \in 1 .. Len(asked) : asked[i][2] <= count[asked[i][1]]
  /\ \A i \in 1 .. Len(queue) : queue[i][2] = count[queue[i][1]]
  /\ work # NoItem => work[2] <= count[work[1]]

QueueInv == TypeOK /\ InOrder /\ OneItemEach /\ NoLostSignal /\ Newest

-----------------------------------------------------------------------------
(* Sequences. *)

(* Moving the first of q to the end of r leaves the whole as it was.         *)
LEMMA MoveAcross ==
  ASSUME NEW S, NEW r \in Seq(S), NEW q \in Seq(S), q # <<>>
  PROVE  /\ Append(r, Head(q)) \in Seq(S)
         /\ Append(r, Head(q)) \o Tail(q) = r \o q
  <1> DEFINE a == Append(r, Head(q))
             b == a \o Tail(q)
             c == r \o q
  <1>1. /\ Head(q) \in S /\ Head(q) = q[1] /\ Tail(q) \in Seq(S)
        /\ Len(q) \in Nat \ {0} /\ Len(Tail(q)) = Len(q) - 1
        /\ \A i \in 1 .. Len(q) - 1 : Tail(q)[i] = q[i + 1]
    OBVIOUS
  <1>2. /\ a \in Seq(S) /\ Len(a) = Len(r) + 1 /\ Len(r) \in Nat
        /\ \A i \in 1 .. Len(r) : a[i] = r[i]
        /\ a[Len(r) + 1] = q[1]
    BY <1>1
  <1> HIDE DEF a
  <1>3. /\ b \in Seq(S) /\ Len(b) = Len(r) + Len(q)
        /\ \A i \in 1 .. Len(r) + Len(q) :
              b[i] = IF i <= Len(a) THEN a[i] ELSE Tail(q)[i - Len(a)]
    <2>1. /\ b \in Seq(S) /\ Len(b) = Len(a) + Len(Tail(q))
          /\ \A i \in 1 .. Len(a) + Len(Tail(q)) :
                b[i] = IF i <= Len(a) THEN a[i] ELSE Tail(q)[i - Len(a)]
      BY <1>1, <1>2, ConcatProperties
    <2>2. Len(a) + Len(Tail(q)) = Len(r) + Len(q)
      BY <1>1, <1>2
    <2> QED BY <2>1, <2>2
  <1>4. /\ c \in Seq(S) /\ Len(c) = Len(r) + Len(q)
        /\ \A i \in 1 .. Len(r) + Len(q) :
              c[i] = IF i <= Len(r) THEN r[i] ELSE q[i - Len(r)]
    BY ConcatProperties
  <1> HIDE DEF b, c
  <1>5. ASSUME NEW i \in 1 .. Len(r) + Len(q)
        PROVE  b[i] = c[i]
    <2>1. CASE i <= Len(r)
      BY <2>1, <1>2, <1>3, <1>4
    <2>2. CASE i = Len(r) + 1
      BY <2>2, <1>1, <1>2, <1>3, <1>4
    <2>3. CASE i > Len(r) + 1
      <3>1. i - Len(a) \in 1 .. Len(q) - 1 /\ i - Len(a) + 1 = i - Len(r)
        BY <2>3, <1>1, <1>2
      <3> QED BY <2>3, <3>1, <1>1, <1>2, <1>3, <1>4
    <2> QED BY <1>1, <1>2, <2>1, <2>2, <2>3
  <1>6. b = c
    BY <1>3, <1>4, <1>5, SeqEqual
  <1> QED BY <1>2, <1>6 DEF a, b, c

(* Appending to q appends to the whole.                                      *)
LEMMA AppendBehind ==
  ASSUME NEW S, NEW r \in Seq(S), NEW q \in Seq(S), NEW x \in S
  PROVE  r \o Append(q, x) = Append(r \o q, x)
  <1>1. Append(q, x) = q \o <<x>> /\ <<x>> \in Seq(S)
    BY AppendIsConcat
  <1>2. r \o q \in Seq(S)
    BY ConcatProperties
  <1>3. Append(r \o q, x) = (r \o q) \o <<x>>
    BY <1>2, AppendIsConcat
  <1> QED BY <1>1, <1>2, <1>3, ConcatAssociative

(* What a queue holds after its first is taken, or after one is put behind.  *)
LEMMA AfterTake ==
  ASSUME NEW S, NEW q \in Seq(S), q # <<>>
  PROVE  /\ Head(q) \in S /\ Tail(q) \in Seq(S)
         /\ 1 \in 1 .. Len(q) /\ Head(q) = q[1]
         /\ \A i \in 1 .. Len(Tail(q)) : i + 1 \in 2 .. Len(q) /\ Tail(q)[i] = q[i + 1]
  OBVIOUS

LEMMA AfterPut ==
  ASSUME NEW S, NEW q \in Seq(S), NEW x \in S
  PROVE  /\ Append(q, x) \in Seq(S)
         /\ Len(Append(q, x)) = Len(q) + 1
         /\ \A i \in 1 .. Len(q) + 1 :
              IF i = Len(q) + 1 THEN Append(q, x)[i] = x
              ELSE i \in 1 .. Len(q) /\ Append(q, x)[i] = q[i]
  OBVIOUS

(* The parts of an item.                                                     *)
LEMMA ItemParts ==
  \A x \in Items : /\ x[1] \in Databases /\ x[2] \in 1 .. MaxItems
                   /\ x = <<x[1], x[2]>> /\ x # NoItem
  BY DEF Items, NoItem

-----------------------------------------------------------------------------

LEMMA QueueInit ==
  ASSUME QueueBound, Init
  PROVE  QueueInv
  <1>1. <<>> \in Seq(Items) /\ Len(<<>>) = 0 /\ <<>> \o <<>> = <<>>
    BY EmptySeq, ConcatEmptySeq
  <1>2. TypeOK
    <2>1. /\ count \in [Databases -> 0 .. MaxItems]
          /\ scheduled \in [Databases -> BOOLEAN]
      BY DEF QueueBound, Init
    <2>2. queue \in Seq(Items) /\ ran \in Seq(Items) /\ asked \in Seq(Items)
      BY <1>1 DEF Init
    <2>3. /\ started \in BOOLEAN
          /\ started <=> thread # "none"
          /\ thread = "runs" <=> work # NoItem
      BY DEF Init
    <2> QED BY <2>1, <2>2, <2>3 DEF Init, TypeOK
  <1>3. InOrder
    BY <1>1 DEF Init, InOrder
  <1>4. OneItemEach /\ NoLostSignal /\ Newest
    BY <1>1 DEF Init, OneItemEach, NoLostSignal, Newest
  <1> QED BY <1>2, <1>3, <1>4 DEF QueueInv

(* A call of Schedule puts an item that is newer than all of its database.   *)
LEMMA ScheduleStep ==
  ASSUME QueueBound, QueueInv, NEW d \in Databases, Schedule(d)
  PROVE  QueueInv'
  <1> DEFINE x == <<d, count[d] + 1>>
  <1> USE DEF QueueInv
  <1>1. /\ x \in Items /\ x[1] = d /\ x[2] = count[d] + 1
        /\ count[d] \in Nat /\ count'[d] = count[d] + 1
        /\ \A e \in Databases : count[e] \in Nat /\ count'[e] >= count[e]
        /\ \A e \in Databases \ {d} : count'[e] = count[e] /\ scheduled'[e] = scheduled[e]
        /\ scheduled'[d] /\ ~scheduled[d]
    BY DEF Schedule, QueueBound, TypeOK, Items
  <1>2. queue' = Append(queue, x) /\ asked' = Append(asked, x)
    BY DEF Schedule, Put
  <1> HIDE DEF x
  <1>3. /\ queue' \in Seq(Items) /\ Len(queue') = Len(queue) + 1 /\ Len(queue) \in Nat
        /\ \A i \in 1 .. Len(queue) + 1 :
             IF i = Len(queue) + 1 THEN queue'[i] = x
             ELSE i \in 1 .. Len(queue) /\ queue'[i] = queue[i]
    BY <1>1, <1>2, AfterPut DEF TypeOK
  <1>4. /\ asked' \in Seq(Items) /\ Len(asked') = Len(asked) + 1 /\ Len(asked) \in Nat
        /\ \A i \in 1 .. Len(asked) + 1 :
             IF i = Len(asked) + 1 THEN asked'[i] = x
             ELSE i \in 1 .. Len(asked) /\ asked'[i] = asked[i]
    BY <1>1, <1>2, AfterPut DEF TypeOK
  <1>5. /\ \A i \in 1 .. Len(queue) : queue[i] \in Items /\ queue[i][1] # d
        /\ \A i \in 1 .. Len(asked) : asked[i] \in Items
    BY <1>1, ElementOfSeq DEF TypeOK, OneItemEach
  <1>6. TypeOK'
    <2>1. count' \in [Databases -> 0 .. MaxItems] /\ scheduled' \in [Databases -> BOOLEAN]
      BY <1>1 DEF Schedule, TypeOK, QueueBound
    <2>2. /\ started' \in BOOLEAN
          /\ started' <=> thread' # "none"
          /\ thread' = "runs" <=> work' # NoItem
          /\ thread' \in {"none", "checks", "waits", "woken", "runs"}
      BY DEF Schedule, Woken, TypeOK
    <2> QED BY <1>3, <1>4, <2>1, <2>2 DEF Schedule, TypeOK
  <1>7. InOrder'
    <2>1. ran' \o queue' = asked'
      <3>1. ran \in Seq(Items) /\ queue \in Seq(Items) /\ ran' = ran
        BY DEF Schedule, TypeOK
      <3>2. ran \o Append(queue, x) = Append(ran \o queue, x)
        BY <1>1, <3>1, AppendBehind
      <3> QED BY <1>2, <3>1, <3>2 DEF InOrder
    <2>2. ASSUME NEW i \in 1 .. Len(asked)
          PROVE  asked[i] # x
      BY <1>1, <1>5, ItemParts DEF Newest
    <2>3. ASSUME NEW i \in 1 .. Len(asked'), NEW j \in 1 .. Len(asked'), asked'[i] = asked'[j]
          PROVE  i = j
      BY <1>4, <2>2, <2>3 DEF InOrder
    <2> QED BY <2>1, <2>3 DEF InOrder
  <1>8. OneItemEach'
    <2>1. ASSUME NEW i \in 1 .. Len(queue'), NEW j \in 1 .. Len(queue'),
                 queue'[i][1] = queue'[j][1]
          PROVE  i = j
      BY <1>1, <1>3, <1>5, <2>1 DEF OneItemEach
    <2>2. ASSUME NEW i \in 1 .. Len(queue')
          PROVE  /\ scheduled'[queue'[i][1]]
                 /\ work' # NoItem /\ queue'[i][1] = work'[1] => count'[work'[1]] # work'[2]
      <3>1. work' = work /\ (work # NoItem => work \in Items /\ work[2] <= count[work[1]])
        BY DEF Schedule, TypeOK, Newest
      <3>2. CASE i = Len(queue) + 1
        BY <1>1, <1>3, <3>1, <3>2, ItemParts
      <3>3. CASE i # Len(queue) + 1
        <4>1. i \in 1 .. Len(queue) /\ queue'[i] = queue[i]
          BY <1>3, <3>3
        <4>2. queue[i][1] \in Databases \ {d}
          BY <1>5, <4>1, ItemParts
        <4> QED BY <1>1, <3>1, <4>1, <4>2 DEF OneItemEach
      <3> QED BY <3>2, <3>3
    <2> QED BY <2>1, <2>2 DEF OneItemEach
  <1>9. NoLostSignal'
    BY DEF Schedule, Woken, TypeOK, NoLostSignal
  <1>10. Newest'
    <2>1. ASSUME NEW i \in 1 .. Len(asked')
          PROVE  asked'[i][2] <= count'[asked'[i][1]]
      <3>1. CASE i = Len(asked) + 1
        BY <1>1, <1>4, <3>1
      <3>2. CASE i # Len(asked) + 1
        <4>1. i \in 1 .. Len(asked) /\ asked'[i] = asked[i]
          BY <1>4, <3>2
        <4>2. asked[i][1] \in Databases /\ asked[i][2] \in Nat
          BY <1>5, <4>1, ItemParts
        <4> QED BY <1>1, <4>1, <4>2 DEF Newest
      <3> QED BY <3>1, <3>2
    <2>2. ASSUME NEW i \in 1 .. Len(queue')
          PROVE  queue'[i][2] = count'[queue'[i][1]]
      <3>1. CASE i = Len(queue) + 1
        BY <1>1, <1>3, <3>1
      <3>2. CASE i # Len(queue) + 1
        <4>1. i \in 1 .. Len(queue) /\ queue'[i] = queue[i]
          BY <1>3, <3>2
        <4>2. queue[i][1] \in Databases \ {d}
          BY <1>5, <4>1, ItemParts
        <4> QED BY <1>1, <4>1, <4>2 DEF Newest
      <3> QED BY <3>1, <3>2
    <2>3. work' # NoItem => work'[2] <= count'[work'[1]]
      <3>1. work' = work /\ (work # NoItem => work \in Items)
        BY DEF Schedule, TypeOK
      <3> QED BY <1>1, <3>1, ItemParts DEF Newest
    <2> QED BY <2>1, <2>2, <2>3 DEF Newest
  <1> QED BY <1>6, <1>7, <1>8, <1>9, <1>10

(* The thread takes the first item; its database has no other in the queue.  *)
LEMMA TakeStep ==
  ASSUME QueueInv, Take
  PROVE  QueueInv'
  <1> USE DEF QueueInv
  <1>1. /\ Head(queue) \in Items /\ queue' \in Seq(Items)
        /\ 1 \in 1 .. Len(queue) /\ Head(queue) = queue[1]
        /\ \A i \in 1 .. Len(queue') : i + 1 \in 2 .. Len(queue) /\ queue'[i] = queue[i + 1]
    BY AfterTake DEF Take, TypeOK
  <1>2. ran' \in Seq(Items) /\ ran' \o queue' = ran \o queue
    BY MoveAcross DEF Take, TypeOK
  <1>3. work' \in Items /\ work' # NoItem /\ work' = queue[1]
    BY <1>1, ItemParts DEF Take
  <1>4. TypeOK'
    BY <1>1, <1>2, <1>3 DEF Take, TypeOK
  <1>5. InOrder'
    BY <1>2 DEF Take, InOrder
  <1>6. \A i \in 1 .. Len(queue') : queue'[i][1] # work'[1]
    BY <1>1, <1>3 DEF OneItemEach
  <1>7. OneItemEach'
    <2>1. ASSUME NEW i \in 1 .. Len(queue'), NEW j \in 1 .. Len(queue'),
                 queue'[i][1] = queue'[j][1]
          PROVE  i = j
      <3>1. /\ i + 1 \in 1 .. Len(queue) /\ j + 1 \in 1 .. Len(queue)
            /\ queue[i + 1][1] = queue[j + 1][1]
        BY <1>1, <2>1
      <3>2. i + 1 = j + 1
        BY <3>1 DEF OneItemEach
      <3> QED BY <3>2
    <2> QED BY <1>1, <1>6, <2>1 DEF Take, OneItemEach
  <1>8. NoLostSignal'
    BY DEF Take, NoLostSignal
  <1>9. Newest'
    <2>1. work'[2] <= count[work'[1]]
      <3>1. work'[2] = count[work'[1]] /\ count[work'[1]] \in Nat
        BY <1>1, <1>3, ItemParts DEF Newest, TypeOK
      <3> QED BY <3>1
    <2> QED BY <1>1, <2>1 DEF Take, Newest
  <1> QED BY <1>4, <1>5, <1>7, <1>8, <1>9

(* The running item clears the flag of its database while none is queued.    *)
LEMMA ClearStep ==
  ASSUME QueueInv, Clear
  PROVE  QueueInv'
  <1> USE DEF QueueInv
  <1>1. work \in Items /\ work[1] \in Databases
    BY ItemParts DEF Clear, TypeOK
  <1>2. TypeOK'
    BY <1>1 DEF Clear, TypeOK
  <1>3. \A i \in 1 .. Len(queue) :
           queue[i][1] # work[1] /\ scheduled'[queue[i][1]]
    BY DEF Clear, OneItemEach, TypeOK
  <1> QED BY <1>2, <1>3 DEF Clear, InOrder, OneItemEach, NoLostSignal, Newest

(* The other steps move the thread only.                                     *)
LEMMA MoveStep ==
  ASSUME QueueInv, Check \/ Wake \/ WakeSpuriously \/ Return \/ UNCHANGED vars
  PROVE  QueueInv'
  <1>1. CASE Check \/ Wake \/ WakeSpuriously
    <2>1. /\ UNCHANGED <<started, queue, work, scheduled, count, ran, asked>>
          /\ thread \notin {"none", "runs"} /\ thread' \in {"checks", "waits"}
          /\ thread' = "waits" => queue = <<>>
      BY <1>1 DEF Check, Wake, WakeSpuriously
    <2>2. TypeOK'
      BY <2>1 DEF QueueInv, TypeOK
    <2> QED BY <2>1, <2>2 DEF QueueInv, InOrder, OneItemEach, NoLostSignal, Newest
  <1>2. CASE Return
    BY <1>2 DEF QueueInv, Return, TypeOK, InOrder, OneItemEach, NoLostSignal, Newest
  <1>3. CASE UNCHANGED vars
    BY <1>3 DEF QueueInv, vars, TypeOK, InOrder, OneItemEach, NoLostSignal, Newest
  <1> QED BY <1>1, <1>2, <1>3

(* PosixEnv::Schedule and BackgroundThreadMain: every item is run once and   *)
(* in the order of the calls, a database has one item at a time, and the     *)
(* thread never waits while an item is queued.                               *)
THEOREM BackgroundRunsInOrder ==
  ASSUME QueueBound
  PROVE  Spec => []RunsInOrder
  <1>1. Init => QueueInv
    BY QueueInit
  <1>2. QueueInv /\ [Next]_vars => QueueInv'
    BY ScheduleStep, TakeStep, ClearStep, MoveStep DEF Next, ThreadStep
  <1>3. QueueInv => RunsInOrder
    BY DEF QueueInv, RunsInOrder
  <1> QED BY <1>1, <1>2, <1>3, PTL DEF Spec

=============================================================================
