-------------------------- MODULE WriteQueueProofs ---------------------------
(***************************************************************************)
(* What DBImpl::Write answers is true of the log, for any number of        *)
(* threads and calls, any sizes and triggers, and through failures.        *)
(*                                                                         *)
(* The answers alone are not inductive: a call is answered by its own      *)
(* thread, long after the leader of its group took it off the queue.  What *)
(* carries it there: ids grow along the queue and everything in the log is *)
(* older than everything queued (IdsGrow), the group is the front of the   *)
(* queue and has a sync call only under a sync leader (GroupAtFront), and  *)
(* a call that is done and ok is in the log already (ServedWhenDone).      *)
(***************************************************************************)
EXTENDS WriteQueue, SequenceTheorems, WellFoundedInduction, TLAPS

(* The queue holds the calls that are waiting or at work, and only its       *)
(* first is at work.                                                         *)
QueueHolds ==
    /\ \A i \in 1..Len(queue) :
          pc[queue[i]] \in {"queued"} \cup Leading /\ queue[i] \notin done
    /\ \A t \in Threads :
          pc[t] = "queued" /\ t \notin done => \E i \in 1..Len(queue) : queue[i] = t
    /\ \A t \in Threads : pc[t] \in Leading => Len(queue) > 0 /\ queue[1] = t

IdsGrow ==
    /\ \A t \in Threads : call[t].id <= calls
    /\ \A i, j \in 1..Len(queue) : i < j => call[queue[i]].id < call[queue[j]].id
    /\ \A i \in 1..Len(log) : log[i] <= calls
    /\ \A i \in 1..Len(log), j \in 1..Len(queue) : log[i] < call[queue[j]].id
    /\ LoggedInOrder

GroupAtFront ==
    /\ Len(group) <= Len(queue)
    /\ \A i \in 1..Len(group) : group[i] = queue[i]
    /\ \A t \in Threads : pc[t] = "logging" => Len(group) > 0
    /\ (\A t \in Threads : pc[t] # "logging") => group = <<>>
    /\ \A i \in 1..Len(group) :
          call[group[i]].kind = "sync" => call[group[1]].kind = "sync"

(* The batch of t is logged, and synced if t asked for it.                   *)
Served(t) ==
    /\ call[t].kind # "compact" => call[t].id \in ToSet(log)
    /\ call[t].kind = "sync" => call[t].id \in synced

ServedWhenDone ==
    \A t \in Threads : pc[t] = "queued" /\ t \in done /\ t \in ok => Served(t)

CompactsOnly == \A t \in Threads : pc[t] \in Compacts => call[t].kind = "compact"

CallInv ==
    /\ CallTypes /\ QueueHolds /\ IdsGrow /\ GroupAtFront
    /\ ServedWhenDone /\ AnswersHold /\ CompactsOnly

(* The destructor runs alone, and the background thread works only while     *)
(* its flag is set.                                                          *)
ClosesIdle ==
    /\ closing # "no" => \A t \in Threads : pc[t] = "idle"
    /\ bg # "idle" => scheduled
    /\ closing = "gone" => ~scheduled

WriteInv == CallInv /\ StoreTypes /\ ClosesIdle

-----------------------------------------------------------------------------
(* Sequences, and the largest of a bounded set. *)

LEMMA InToSet ==
    ASSUME NEW S, NEW s \in Seq(S)
    PROVE  \A x : x \in ToSet(s) <=> \E i \in 1..Len(s) : s[i] = x
  BY DEF ToSet

LEMMA AddedBehind ==
    ASSUME NEW S, NEW q \in Seq(S), NEW x \in S
    PROVE  /\ Append(q, x) \in Seq(S)
           /\ Len(Append(q, x)) = Len(q) + 1 /\ Len(q) \in Nat
           /\ Append(q, x)[Len(q) + 1] = x
           /\ \A i \in 1..Len(q) : Append(q, x)[i] = q[i]
  OBVIOUS

LEMMA TakenOff ==
    ASSUME NEW S, NEW q \in Seq(S), NEW n \in 1..Len(q)
    PROVE  LET r == SubSeq(q, n + 1, Len(q))
           IN  /\ r \in Seq(S) /\ Len(r) = Len(q) - n /\ Len(q) \in Nat
               /\ \A i \in 1..(Len(q) - n) : i + n \in (n + 1)..Len(q) /\ r[i] = q[i + n]
  <1>1. Len(q) \in Nat /\ \A i \in (n + 1)..Len(q) : q[i] \in S
    BY ElementOfSeq
  <1>2. /\ SubSeq(q, n + 1, Len(q)) \in Seq(S)
        /\ Len(SubSeq(q, n + 1, Len(q))) = IF n + 1 <= Len(q) THEN Len(q) - (n + 1) + 1 ELSE 0
        /\ \A i \in 1..(Len(q) - (n + 1) + 1) :
              SubSeq(q, n + 1, Len(q))[i] = q[(n + 1) + i - 1]
    BY <1>1, SubSeqProperties
  <1>3. ASSUME NEW i \in 1..(Len(q) - n)
        PROVE  i + n \in (n + 1)..Len(q) /\ SubSeq(q, n + 1, Len(q))[i] = q[i + n]
    <2>1. i \in 1..(Len(q) - (n + 1) + 1) /\ (n + 1) + i - 1 = i + n
      BY <1>1
    <2> QED BY <1>1, <1>2, <2>1
  <1> QED BY <1>1, <1>2, <1>3

LEMMA LeastNat ==
    ASSUME NEW T, T \subseteq Nat, T # {}
    PROVE  \E x \in T : \A y \in T : x <= y
  <1> DEFINE R == OpToRel(<, Nat)
  <1>1. IsWellFoundedOn(R, Nat)
    BY NatLessThanWellFounded
  <1>2. \A y, x \in Nat : <<y, x>> \in R <=> y < x
    BY DEF OpToRel
  <1> HIDE DEF R
  <1>3. PICK x \in T : \A y \in T : ~ (<<y, x>> \in R)
    BY <1>1, WFMin
  <1>4. ASSUME NEW y \in T PROVE x <= y
    <2>1. x \in Nat /\ y \in Nat
      OBVIOUS
    <2>2. ~(y < x)
      BY <1>2, <1>3, <2>1
    <2> QED BY <2>1, <2>2
  <1> QED BY <1>4

(* The largest of the numbers up to n that are in T.                         *)
LEMMA LargestUpTo ==
    ASSUME NEW n \in Nat, NEW T, T \subseteq 1..n, T # {}
    PROVE  Max(T) \in T
  <1> DEFINE D == {k \in Nat : n - k \in T}
  <1>1. PICK x \in T : TRUE
    OBVIOUS
  <1>2. n - x \in D
    OBVIOUS
  <1>3. PICK d \in D : \A e \in D : d <= e
    BY <1>2, LeastNat
  <1>4. ASSUME NEW y \in T PROVE n - d >= y
    <2>1. n - y \in D /\ d \in Nat /\ y \in Nat
      OBVIOUS
    <2>2. d <= n - y
      BY <1>3, <2>1
    <2> QED BY <2>1, <2>2
  <1>5. \E z \in T : \A y \in T : z >= y
    BY <1>3, <1>4
  <1> QED BY <1>5 DEF Max

-----------------------------------------------------------------------------
(* Steps that move a thread without letting it out of its part of the code. *)

MakesRoom == {"room", "sleep", "roomwait"}

SamePart(p, q) ==
    \/ p = q
    \/ p \in MakesRoom /\ q \in MakesRoom
    \/ p \in Compacts /\ q \in Compacts

(* What SamePart keeps.                                                      *)
LEMMA SamePartKeeps ==
    ASSUME NEW p \in Places, NEW q \in Places, SamePart(p, q)
    PROVE  /\ q = "idle" <=> p = "idle"
           /\ q = "queued" <=> p = "queued"
           /\ q = "logging" <=> p = "logging"
           /\ q \in Leading <=> p \in Leading
           /\ q \in Compacts <=> p \in Compacts
  BY DEF SamePart, MakesRoom, Compacts, Leading, Places

(* SignalAll wakes threads within MakeRoomForWrite and within a compaction.  *)
LEMMA SignalKeeps ==
    ASSUME NEW p \in [Threads -> Places]
    PROVE  /\ SignalAll(p) \in [Threads -> Places]
           /\ \A t \in Threads : SamePart(p[t], SignalAll(p)[t])
  <1>1. /\ DOMAIN AfterWake = {"roomwait", "flushwait", "manualwait"}
        /\ AfterWake["roomwait"] = "room" /\ AfterWake["flushwait"] = "flush"
        /\ AfterWake["manualwait"] = "manual"
    BY DEF AfterWake
  <1>2. ASSUME NEW t \in Threads
        PROVE  SignalAll(p)[t] \in Places /\ SamePart(p[t], SignalAll(p)[t])
    BY <1>1, <1>2 DEF SignalAll, SamePart, MakesRoom, Compacts, Leading, Places
  <1>3. DOMAIN SignalAll(p) = Threads /\ SignalAll(p) = [t \in Threads |-> SignalAll(p)[t]]
    BY DEF SignalAll
  <1> QED BY <1>2, <1>3

(* A step that leaves the calls, the queue and the log alone and moves       *)
(* threads within their parts keeps everything said of them.                 *)
LEMMA MoveKeeps ==
    ASSUME CallInv, UNCHANGED <<call, queue, done, group, log, synced, answered, calls>>,
           ok' \subseteq ok, pc' \in [Threads -> Places],
           \A t \in Threads : SamePart(pc[t], pc'[t])
    PROVE  CallInv'
  <1> USE DEF CallInv
  <1>1. \A t \in Threads :
           /\ pc'[t] = "queued" <=> pc[t] = "queued"
           /\ pc'[t] = "logging" <=> pc[t] = "logging"
           /\ pc'[t] \in Leading <=> pc[t] \in Leading
           /\ pc'[t] \in Compacts <=> pc[t] \in Compacts
    BY SamePartKeeps DEF CallTypes
  <1>2. \A i \in 1..Len(queue) : queue[i] \in Threads
    BY ElementOfSeq DEF CallTypes
  <1>3. CallTypes'
    BY DEF CallTypes
  <1>4. QueueHolds'
    BY <1>1, <1>2 DEF QueueHolds
  <1>5. IdsGrow'
    BY DEF IdsGrow, LoggedInOrder
  <1>6. GroupAtFront'
    BY <1>1 DEF GroupAtFront
  <1>7. ServedWhenDone' /\ AnswersHold' /\ CompactsOnly'
    BY <1>1 DEF ServedWhenDone, Served, AnswersHold, CompactsOnly
  <1> QED BY <1>3, <1>4, <1>5, <1>6, <1>7

-----------------------------------------------------------------------------
(* The calls. *)

(* What is in the queue are threads, each once.                              *)
LEMMA QueueOnce ==
    ASSUME CallInv
    PROVE  /\ Len(queue) \in Nat
           /\ \A i \in 1..Len(queue) : queue[i] \in Threads /\ call[queue[i]].id \in Nat
           /\ \A i, j \in 1..Len(queue) : queue[i] = queue[j] => i = j
  <1>1. /\ Len(queue) \in Nat
        /\ \A i \in 1..Len(queue) : queue[i] \in Threads /\ call[queue[i]].id \in Nat
    BY ElementOfSeq DEF CallInv, CallTypes
  <1>2. ASSUME NEW i \in 1..Len(queue), NEW j \in 1..Len(queue), queue[i] = queue[j]
        PROVE  i = j
    <2>1. ~(i < j) /\ ~(j < i)
      BY <1>1, <1>2 DEF CallInv, IdsGrow
    <2> QED BY <1>1, <2>1
  <1> QED BY <1>1, <1>2

LEMMA BeginKeeps ==
    ASSUME QueueConstants, CallInv, NEW t \in Threads, NEW kind \in Kinds, NEW size \in Nat,
           Begin(t, kind, size)
    PROVE  CallInv'
  <1> USE DEF CallInv
  <1>1. /\ pc[t] = "idle" /\ calls \in Nat /\ calls' = calls + 1
        /\ kind \in {"write", "sync", "compact"}
        /\ queue' = Append(queue, t) /\ done' = done \ {t}
        /\ UNCHANGED <<group, ok, log, synced, answered>>
        /\ call' = [call EXCEPT ![t] = [id |-> calls + 1, kind |-> kind, size |-> size]]
        /\ pc' = [pc EXCEPT ![t] = IF queue = <<>> THEN "room" ELSE "queued"]
    BY DEF Begin, CallTypes, QueueConstants
  <1>2. /\ call'[t].id = calls + 1 /\ \A u \in Threads \ {t} : call'[u] = call[u]
        /\ pc'[t] \in {"room", "queued"} /\ \A u \in Threads \ {t} : pc'[u] = pc[u]
        /\ pc'[t] = "room" <=> queue = <<>>
    BY <1>1 DEF CallTypes
  <1>3. CallTypes'
    <2>1. call' \in [Threads -> [id : Nat, kind : {"write", "sync", "compact"}, size : Nat]]
      BY <1>1 DEF CallTypes
    <2>2. pc' \in [Threads -> Places]
      BY <1>1 DEF CallTypes, Places, Leading
    <2>3. queue' \in Seq(Threads)
      BY <1>1, AddedBehind DEF CallTypes
    <2> QED BY <1>1, <2>1, <2>2, <2>3 DEF CallTypes
  <1>4. /\ Len(queue') = Len(queue) + 1 /\ Len(queue) \in Nat
        /\ queue'[Len(queue) + 1] = t
        /\ \A i \in 1..Len(queue) : queue'[i] = queue[i]
    BY <1>1, AddedBehind DEF CallTypes
  <1>5. \A i \in 1..Len(queue) : queue[i] \in Threads \ {t} /\ call[queue[i]].id \in Nat
    BY <1>1, QueueOnce DEF QueueHolds, Leading
  <1>6. queue = <<>> <=> Len(queue) = 0
    BY DEF CallTypes
  <1>7. QueueHolds'
    <2>1. ASSUME NEW i \in 1..Len(queue')
          PROVE  pc'[queue'[i]] \in {"queued"} \cup Leading /\ queue'[i] \notin done'
      <3>1. CASE i = Len(queue) + 1
        BY <1>1, <1>2, <1>4, <3>1 DEF Leading
      <3>2. CASE i \in 1..Len(queue)
        BY <1>1, <1>2, <1>4, <1>5, <3>2 DEF QueueHolds
      <3> QED BY <1>4, <3>1, <3>2
    <2>2. ASSUME NEW u \in Threads, pc'[u] = "queued", u \notin done'
          PROVE  \E i \in 1..Len(queue') : queue'[i] = u
      <3>1. CASE u = t
        BY <1>4, <3>1
      <3>2. CASE u # t
        <4>1. PICK i \in 1..Len(queue) : queue[i] = u
          BY <1>1, <1>2, <2>2, <3>2 DEF QueueHolds
        <4> QED BY <1>4, <4>1
      <3> QED BY <3>1, <3>2
    <2>3. ASSUME NEW u \in Threads, pc'[u] \in Leading
          PROVE  Len(queue') > 0 /\ queue'[1] = u
      <3>1. CASE u = t
        BY <1>2, <1>4, <1>6, <2>3, <3>1 DEF Leading
      <3>2. CASE u # t
        <4>1. Len(queue) > 0 /\ queue[1] = u
          BY <1>2, <2>3, <3>2 DEF QueueHolds
        <4> QED BY <1>4, <4>1
      <3> QED BY <3>1, <3>2
    <2> QED BY <2>1, <2>2, <2>3 DEF QueueHolds
  <1>8. IdsGrow'
    <2>1. \A u \in Threads : call[u].id \in Nat /\ call[u].id <= calls
      BY DEF IdsGrow, CallTypes
    <2>2. \A i \in 1..Len(log) : log[i] \in Nat /\ log[i] <= calls
      BY ElementOfSeq DEF IdsGrow, CallTypes
    <2>3. ASSUME NEW j \in 1..Len(queue')
          PROVE  \/ j = Len(queue) + 1 /\ call'[queue'[j]].id = calls + 1
                 \/ j \in 1..Len(queue) /\ call'[queue'[j]].id = call[queue[j]].id
                    /\ call[queue[j]].id \in Nat /\ call[queue[j]].id <= calls
      BY <1>2, <1>4, <1>5, <2>1
    <2>4. \A i, j \in 1..Len(queue') : i < j => call'[queue'[i]].id < call'[queue'[j]].id
      BY <1>1, <1>4, <2>3 DEF IdsGrow
    <2>5. \A i \in 1..Len(log), j \in 1..Len(queue') : log[i] < call'[queue'[j]].id
      BY <1>1, <2>2, <2>3 DEF IdsGrow
    <2>6. \A u \in Threads : call'[u].id <= calls'
      BY <1>1, <1>2, <2>1
    <2>7. \A i \in 1..Len(log) : log[i] <= calls'
      BY <1>1, <2>2
    <2> QED BY <1>1, <2>4, <2>5, <2>6, <2>7 DEF IdsGrow, LoggedInOrder
  <1>9. GroupAtFront'
    <2>1. Len(group) \in Nat /\ Len(group) <= Len(queue)
      BY DEF GroupAtFront, CallTypes
    <2>2. \A i \in 1..Len(group) :
             i \in 1..Len(queue) /\ group[i] = queue'[i] /\ call'[group[i]] = call[group[i]]
      BY <1>2, <1>4, <1>5, <2>1 DEF GroupAtFront
    <2>3. Len(group) <= Len(queue')
      BY <1>4, <2>1
    <2>4. \A u \in Threads : pc'[u] = "logging" <=> pc[u] = "logging"
      BY <1>1, <1>2
    <2>5. \A i \in 1..Len(group) :
             call'[group[i]].kind = "sync" => call'[group[1]].kind = "sync"
      BY <2>1, <2>2 DEF GroupAtFront
    <2> QED BY <1>1, <2>2, <2>3, <2>4, <2>5 DEF GroupAtFront
  <1>10. ServedWhenDone' /\ AnswersHold' /\ CompactsOnly'
    BY <1>1, <1>2 DEF ServedWhenDone, Served, AnswersHold, CompactsOnly, Compacts
  <1> QED BY <1>3, <1>7, <1>8, <1>9, <1>10

(* A waiting thread wakes: it returns with the answer that is ready for it,  *)
(* or is at the front now, or waits on.                                      *)
LEMMA WakeKeeps ==
    ASSUME CallInv, NEW t \in Threads, WakeInQueue(t)
    PROVE  CallInv'
  <1> USE DEF CallInv
  <1>1. /\ pc[t] = "queued"
        /\ UNCHANGED <<call, queue, done, group, ok, log, synced, calls>>
        /\ pc' = [pc EXCEPT ![t] = IF t \in done THEN AfterWrite(t, t \in ok)
                                   ELSE IF t = Head(queue) THEN "room" ELSE "queued"]
    BY DEF WakeInQueue
  <1>2. CASE t \in done
    <2>1. /\ pc'[t] = "idle" \/ (pc'[t] \in {"flush", "manual"} /\ call[t].kind = "compact")
          /\ \A u \in Threads \ {t} : pc'[u] = pc[u]
      BY <1>1, <1>2 DEF AfterWrite, Empty, CallTypes
    <2>2. pc' \in [Threads -> Places]
      BY <1>1, <2>1 DEF CallTypes, Places, Compacts
    <2>3. CallTypes'
      BY <1>1, <2>2 DEF CallTypes
    <2>4. \A i \in 1..Len(queue) : queue[i] \in Threads \ {t}
      BY <1>2, QueueOnce DEF QueueHolds
    <2>5. QueueHolds'
      BY <1>1, <1>2, <2>1, <2>4 DEF QueueHolds, Leading
    <2>6. IdsGrow'
      BY <1>1 DEF IdsGrow, LoggedInOrder
    <2>7. GroupAtFront'
      BY <1>1, <2>1 DEF GroupAtFront
    <2>8. ServedWhenDone' /\ CompactsOnly'
      BY <1>1, <2>1 DEF ServedWhenDone, Served, CompactsOnly, Compacts
    <2>9. AnswersHold'
      <3>1. t \in ok => Served(t)
        BY <1>1, <1>2 DEF ServedWhenDone
      <3>2. \A a \in answered' : a \in answered \/ a = Answer(t, t \in ok)
        BY DEF WakeInQueue
      <3>3. /\ Answer(t, t \in ok).ok <=> t \in ok
            /\ Answer(t, t \in ok).id = call[t].id /\ Answer(t, t \in ok).kind = call[t].kind
        BY DEF Answer
      <3> QED BY <1>1, <3>1, <3>2, <3>3 DEF AnswersHold, Served
    <2> QED BY <2>3, <2>5, <2>6, <2>7, <2>8, <2>9
  <1>3. CASE t \notin done
    <2>1. /\ pc'[t] = (IF t = Head(queue) THEN "room" ELSE "queued")
          /\ \A u \in Threads \ {t} : pc'[u] = pc[u]
          /\ answered' = answered
      BY <1>1, <1>3 DEF WakeInQueue, CallTypes
    <2>2. pc' \in [Threads -> Places]
      BY <1>1, <2>1 DEF CallTypes, Places, Leading
    <2>3. CallTypes'
      BY <1>1, <2>2 DEF CallTypes
    <2>4. PICK k \in 1..Len(queue) : queue[k] = t
      BY <1>1, <1>3 DEF QueueHolds
    <2>5. Len(queue) > 0 /\ Head(queue) = queue[1]
      BY <2>4, QueueOnce DEF CallTypes
    <2>6. QueueHolds'
      <3>1. \A i \in 1..Len(queue) :
               pc'[queue[i]] \in {"queued"} \cup Leading /\ queue[i] \notin done
        BY <2>1, QueueOnce DEF QueueHolds, Leading
      <3>2. \A u \in Threads : pc'[u] = "queued" => pc[u] = "queued"
        BY <1>1, <2>1
      <3>3. \A u \in Threads : pc'[u] \in Leading => Len(queue) > 0 /\ queue[1] = u
        BY <2>1, <2>5 DEF QueueHolds, Leading
      <3> QED BY <1>1, <3>1, <3>2, <3>3 DEF QueueHolds
    <2>7. IdsGrow'
      BY <1>1 DEF IdsGrow, LoggedInOrder
    <2>8. GroupAtFront'
      BY <1>1, <2>1 DEF GroupAtFront
    <2>9. ServedWhenDone' /\ CompactsOnly' /\ AnswersHold'
      BY <1>1, <1>3, <2>1 DEF ServedWhenDone, Served, CompactsOnly, Compacts, AnswersHold
    <2> QED BY <2>3, <2>6, <2>7, <2>8, <2>9
  <1> QED BY <1>2, <1>3


(* BuildBatchGroup takes a nonempty front of the queue, in which a sync call *)
(* has a sync leader.                                                        *)
LEMMA GroupBuilt ==
    ASSUME CallInv, Len(queue) > 0
    PROVE  /\ BuildBatchGroup \in Seq(Threads)
           /\ Len(BuildBatchGroup) \in 1..Len(queue)
           /\ \A i \in 1..Len(BuildBatchGroup) :
                 /\ BuildBatchGroup[i] = queue[i]
                 /\ call[queue[i]].kind = "sync" => call[queue[1]].kind = "sync"
  <1> DEFINE T == {n \in 1..Len(queue) : \A k \in 2..n : Joins(k)}
             m == Max(T)
  <1>1. Len(queue) \in Nat /\ queue \in Seq(Threads)
    BY DEF CallInv, CallTypes
  <1>2. 1 \in T /\ T \subseteq 1..Len(queue)
    BY <1>1
  <1>3. m \in T
    <2> HIDE DEF T
    <2> QED BY <1>1, <1>2, LargestUpTo
  <1>4. BuildBatchGroup = SubSeq(queue, 1, m)
    BY DEF BuildBatchGroup
  <1>5. m \in 1..Len(queue) /\ \A k \in 2..m : Joins(k)
    BY <1>3
  <1> HIDE DEF m
  <1>6. /\ SubSeq(queue, 1, m) \in Seq(Threads) /\ Len(SubSeq(queue, 1, m)) = m
        /\ \A i \in 1..m : SubSeq(queue, 1, m)[i] = queue[i]
    BY <1>1, <1>5
  <1>7. \A i \in 1..m : call[queue[i]].kind = "sync" => call[queue[1]].kind = "sync"
    BY <1>5 DEF Joins
  <1> QED BY <1>4, <1>5, <1>6, <1>7

LEMMA StartKeeps ==
    ASSUME CallInv, NEW t \in Threads, StartLogging(t)
    PROVE  CallInv'
  <1> USE DEF CallInv
  <1>1. /\ pc[t] = "room" /\ group' = BuildBatchGroup
        /\ pc' = [pc EXCEPT ![t] = "logging"]
        /\ UNCHANGED <<call, queue, done, ok, log, synced, answered, calls>>
    BY DEF StartLogging, AtFront, history
  <1>2. pc'[t] = "logging" /\ \A u \in Threads \ {t} : pc'[u] = pc[u]
    BY <1>1 DEF CallTypes
  <1>3. Len(queue) > 0 /\ queue[1] = t
    BY <1>1 DEF QueueHolds, Leading
  <1>4. CallTypes'
    BY <1>1, <1>3, GroupBuilt DEF CallTypes, Places, Leading
  <1>5. QueueHolds'
    BY <1>1, <1>2, <1>3, QueueOnce DEF QueueHolds, Leading
  <1>6. IdsGrow'
    BY <1>1 DEF IdsGrow, LoggedInOrder
  <1>7. GroupAtFront'
    <2>1. /\ Len(group') \in 1..Len(queue) /\ Len(queue) \in Nat
          /\ \A i \in 1..Len(group') :
                /\ group'[i] = queue[i]
                /\ call[queue[i]].kind = "sync" => call[queue[1]].kind = "sync"
      BY <1>1, <1>3, GroupBuilt, QueueOnce
    <2>2. Len(group') <= Len(queue) /\ Len(group') > 0 /\ 1 \in 1..Len(group')
      BY <2>1
    <2> QED BY <1>1, <1>2, <2>1, <2>2 DEF GroupAtFront
  <1>8. ServedWhenDone' /\ AnswersHold' /\ CompactsOnly'
    BY <1>1, <1>2 DEF ServedWhenDone, Served, AnswersHold, CompactsOnly, Compacts
  <1> QED BY <1>4, <1>5, <1>6, <1>7, <1>8

(* The first n calls leave the queue, their batches handled one way or the   *)
(* other, and the log and synced are what an answer that is ok says.         *)
LEMMA LeaveKeeps ==
    ASSUME CallInv, NEW t \in Threads, pc[t] \in Leading,
           NEW ts \in Seq(Threads), Len(ts) \in 1..Len(queue),
           \A i \in 1..Len(ts) : ts[i] = queue[i],
           NEW isOk \in BOOLEAN, Leave(t, ts, isOk),
           UNCHANGED <<call, calls>>, group' = <<>>,
           pc' \in [Threads -> Places],
           \A u \in Threads \ {t} : SamePart(pc[u], pc'[u]),
           pc'[t] = "idle" \/ (pc'[t] \in {"flush", "manual"} /\ Empty(t)),
           log' \in Seq(Nat), LoggedInOrder',
           \A i \in 1..Len(log') : log'[i] <= calls,
           \A i \in 1..Len(log'), j \in (Len(ts) + 1)..Len(queue) :
              log'[i] < call[queue[j]].id,
           ToSet(log) \subseteq ToSet(log'), synced \subseteq synced',
           isOk => \A u \in ToSet(ts) : Served(u)'
    PROVE  CallInv'
  <1> USE DEF CallInv
  <1> DEFINE n == Len(ts)
  <1>1. /\ queue' \in Seq(Threads) /\ Len(queue') = Len(queue) - n /\ Len(queue) \in Nat
        /\ \A i \in 1..Len(queue') : i + n \in (n + 1)..Len(queue) /\ queue'[i] = queue[i + n]
    BY TakenOff DEF Leave, CallTypes
  <1>2. queue[1] = t /\ n \in Nat /\ n > 0
    BY DEF QueueHolds
  <1>3. \A u : u \in ToSet(ts) <=> \E i \in 1..n : queue[i] = u
    <2>1. \A u : u \in ToSet(ts) <=> \E i \in 1..n : ts[i] = u
      BY InToSet
    <2> QED BY <2>1
  <1>4. /\ done' = done \cup ToSet(ts)
        /\ ok' = IF isOk THEN ok \cup ToSet(ts) ELSE ok \ ToSet(ts)
        /\ answered' = IF Empty(t) THEN answered ELSE answered \cup {Answer(t, isOk)}
    BY DEF Leave
  <1> HIDE DEF n
  <1>5. \A u \in Threads \ {t} :
           /\ pc'[u] = "idle" <=> pc[u] = "idle"
           /\ pc'[u] = "queued" <=> pc[u] = "queued"
           /\ pc'[u] = "logging" <=> pc[u] = "logging"
           /\ pc'[u] \in Leading <=> pc[u] \in Leading
           /\ pc'[u] \in Compacts <=> pc[u] \in Compacts
    BY SamePartKeeps DEF CallTypes
  <1>6. \A u \in Threads : pc[u] \in Leading => u = t
    BY <1>2 DEF QueueHolds
  <1>7. pc'[t] \notin {"queued"} \cup Leading
    BY DEF Leading
  <1>8. CallTypes'
    BY <1>1, EmptySeq DEF CallTypes
  <1>9. ASSUME NEW i \in 1..Len(queue')
        PROVE  /\ i + n \in 1..Len(queue) /\ queue'[i] = queue[i + n]
               /\ queue'[i] \in Threads \ {t} /\ queue'[i] \notin ToSet(ts)
    <2>1. i + n \in 1..Len(queue) /\ i + n > n /\ queue'[i] = queue[i + n]
      BY <1>1, <1>2
    <2>2. \A k \in 1..n : k \in 1..Len(queue) /\ queue[k] # queue[i + n]
      BY <2>1, <1>1, <1>2, QueueOnce DEF n
    <2> QED BY <1>2, <1>3, <2>1, <2>2, QueueOnce
  <1>10. QueueHolds'
    <2>1. ASSUME NEW i \in 1..Len(queue')
          PROVE  pc'[queue'[i]] \in {"queued"} \cup Leading /\ queue'[i] \notin done'
      BY <1>4, <1>5, <1>9 DEF QueueHolds
    <2>2. ASSUME NEW u \in Threads, pc'[u] = "queued", u \notin done'
          PROVE  \E i \in 1..Len(queue') : queue'[i] = u
      <3>1. u # t /\ pc[u] = "queued" /\ u \notin done /\ u \notin ToSet(ts)
        BY <1>4, <1>5, <1>7, <2>2
      <3>2. PICK k \in 1..Len(queue) : queue[k] = u
        BY <3>1 DEF QueueHolds
      <3>3. ~(k <= n)
        BY <1>1, <1>2, <1>3, <3>1, <3>2
      <3>4. k - n \in 1..Len(queue') /\ (k - n) + n = k
        BY <1>1, <1>2, <3>3
      <3> QED BY <1>1, <3>2, <3>4
    <2>3. \A u \in Threads : pc'[u] \notin Leading
      BY <1>5, <1>6, <1>7
    <2> QED BY <2>1, <2>2, <2>3 DEF QueueHolds
  <1>11. IdsGrow'
    <2>1. ASSUME NEW i \in 1..Len(queue'), NEW j \in 1..Len(queue'), i < j
          PROVE  call[queue'[i]].id < call[queue'[j]].id
      <3>1. /\ i + n \in 1..Len(queue) /\ j + n \in 1..Len(queue) /\ i + n < j + n
            /\ queue'[i] = queue[i + n] /\ queue'[j] = queue[j + n]
        BY <1>1, <1>2, <1>9, <2>1
      <3> QED BY <3>1 DEF IdsGrow
    <2>2. ASSUME NEW i \in 1..Len(log'), NEW j \in 1..Len(queue')
          PROVE  log'[i] < call[queue'[j]].id
      BY <1>1 DEF n
    <2> QED BY <2>1, <2>2 DEF IdsGrow
  <1>12. GroupAtFront'
    <2>1. Len(group') = 0 /\ Len(queue') \in Nat
      BY <1>1, EmptySeq
    <2>2. \A u \in Threads : pc'[u] # "logging"
      BY <1>5, <1>6, <1>7 DEF Leading
    <2> QED BY <2>1, <2>2 DEF GroupAtFront
  <1>13. ServedWhenDone'
    <2> SUFFICES ASSUME NEW u \in Threads, pc'[u] = "queued", u \in done', u \in ok'
                 PROVE  Served(u)'
      BY DEF ServedWhenDone
    <2>1. CASE u \in ToSet(ts)
      BY <1>4, <2>1
    <2>2. CASE u \notin ToSet(ts)
      <3>1. u # t /\ pc[u] = "queued" /\ u \in done /\ u \in ok
        BY <1>4, <1>5, <1>7, <2>2
      <3> QED BY <3>1 DEF ServedWhenDone, Served
    <2> QED BY <2>1, <2>2
  <1>14. AnswersHold'
    <2>1. isOk => Served(t)'
      <3>1. 1 \in 1..n
        BY <1>2
      <3>2. t \in ToSet(ts)
        BY <1>2, <1>3, <3>1
      <3> QED BY <3>2
    <2>2. /\ Answer(t, isOk).ok = isOk
          /\ Answer(t, isOk).id = call[t].id /\ Answer(t, isOk).kind = call[t].kind
      BY DEF Answer
    <2>3. \A a \in answered' : a \in answered \/ a = Answer(t, isOk)
      BY <1>4
    <2> QED BY <2>1, <2>2, <2>3 DEF AnswersHold, Served
  <1>15. CompactsOnly'
    BY <1>5 DEF CompactsOnly, Compacts, Empty
  <1> QED BY <1>8, <1>10, <1>11, <1>12, <1>13, <1>14, <1>15


(* What a group that is logged does to the log.                              *)
LEMMA LogGrows ==
    ASSUME CallInv, NEW t \in Threads, pc[t] = "logging"
    PROVE  LET new == log \o Logged
           IN  /\ new \in Seq(Nat)
               /\ \A i, j \in 1..Len(new) : i < j => new[i] < new[j]
               /\ \A i \in 1..Len(new) : new[i] <= calls
               /\ \A i \in 1..Len(new), j \in (Len(group) + 1)..Len(queue) :
                     new[i] < call[queue[j]].id
               /\ ToSet(log) \subseteq ToSet(new)
               /\ \A u \in ToSet(group) : call[u].id \in ToSet(new)
  <1> DEFINE new == log \o Logged
             g == Len(group)
             l == Len(log)
  <1>1. /\ log \in Seq(Nat) /\ group \in Seq(Threads) /\ g \in Nat /\ l \in Nat
        /\ g <= Len(queue) /\ Len(queue) \in Nat
        /\ \A i \in 1..g : group[i] = queue[i] /\ i \in 1..Len(queue)
    BY DEF CallInv, CallTypes, GroupAtFront
  <1>2. \A i \in 1..g : call[queue[i]].id \in Nat /\ call[queue[i]].id <= calls
    BY <1>1, QueueOnce DEF CallInv, IdsGrow
  <1>3. /\ Logged \in Seq(Nat) /\ Len(Logged) = g
        /\ \A i \in 1..g : Logged[i] = call[queue[i]].id
    <2>1. Logged = [i \in 1..g |-> call[group[i]].id]
      BY DEF Logged
    <2>2. \A i \in 1..g : call[group[i]].id \in Nat
      BY <1>1, <1>2
    <2>3. Logged \in [1..g -> Nat]
      BY <2>1, <2>2
    <2>4. Logged \in Seq(Nat)
      BY <1>1, <2>3, SeqDef
    <2>5. Len(Logged) = g
      BY <1>1, <2>3, <2>4, LenProperties
    <2> QED BY <1>1, <2>1, <2>4, <2>5
  <1>4. \A i \in 1..l : log[i] \in Nat /\ log[i] <= calls
    BY <1>1, ElementOfSeq DEF CallInv, IdsGrow
  <1>5. /\ new \in Seq(Nat) /\ Len(new) = l + g
        /\ \A i \in 1..(l + g) : new[i] = IF i <= l THEN log[i] ELSE Logged[i - l]
    <2>1. /\ new \in Seq(Nat) /\ Len(new) = Len(log) + Len(Logged)
          /\ \A i \in 1..(Len(log) + Len(Logged)) :
                new[i] = IF i <= Len(log) THEN log[i] ELSE Logged[i - Len(log)]
      <3>1. log \in Seq(Nat) /\ Logged \in Seq(Nat)
        BY <1>1, <1>3
      <3> QED BY <3>1, ConcatProperties
    <2> HIDE DEF new
    <2> QED BY <1>3, <2>1
  <1> HIDE DEF new, g, l
  <1>6. ASSUME NEW i \in 1..Len(new)
        PROVE  \/ i \in 1..l /\ new[i] = log[i]
               \/ /\ i > l /\ i - l \in 1..g /\ new[i] = call[queue[i - l]].id
                  /\ i - l \in 1..Len(queue)
    <2>1. i \in 1..(l + g) /\ l \in Nat /\ g \in Nat
      BY <1>1, <1>5 DEF g, l
    <2>2. CASE i <= l
      BY <2>1, <2>2, <1>5
    <2>3. CASE i > l
      <3>1. i - l \in 1..g /\ ~(i <= l)
        BY <2>1, <2>3
      <3>2. new[i] = Logged[i - l]
        BY <1>5, <2>1, <3>1
      <3> QED BY <1>1, <1>3, <2>3, <3>1, <3>2
    <2> QED BY <2>1, <2>2, <2>3
  <1>7. ASSUME NEW i \in 1..Len(new), NEW j \in 1..Len(new), i < j
        PROVE  new[i] < new[j]
    <2>0. i \in Nat /\ j \in Nat /\ l \in Nat
      BY <1>1, <1>5 DEF g, l
    <2>1. CASE i \in 1..l /\ j \in 1..l
      <3>1. new[i] = log[i] /\ new[j] = log[j]
        BY <1>6, <2>0, <2>1
      <3> QED BY <1>7, <2>1, <3>1 DEF CallInv, IdsGrow, LoggedInOrder, l
    <2>2. CASE i \in 1..l /\ j > l
      <3>1. new[i] = log[i] /\ j - l \in 1..Len(queue) /\ new[j] = call[queue[j - l]].id
        BY <1>6, <2>0, <2>2
      <3> QED BY <2>2, <3>1 DEF CallInv, IdsGrow, l
    <2>3. CASE i > l
      <3>1. i - l < j - l /\ j > l
        BY <1>1, <1>5, <1>7, <2>3
      <3>2. /\ i - l \in 1..Len(queue) /\ new[i] = call[queue[i - l]].id
            /\ j - l \in 1..Len(queue) /\ new[j] = call[queue[j - l]].id
        BY <1>1, <1>6, <2>3, <3>1
      <3> QED BY <3>1, <3>2 DEF CallInv, IdsGrow
    <2> QED BY <1>1, <1>5, <1>7, <2>1, <2>2, <2>3
  <1>8. \A i \in 1..Len(new) : new[i] <= calls
    BY <1>2, <1>4, <1>6
  <1>9. ASSUME NEW i \in 1..Len(new), NEW j \in (g + 1)..Len(queue)
        PROVE  new[i] < call[queue[j]].id
    <2>1. j \in 1..Len(queue)
      BY <1>1
    <2>2. CASE i \in 1..l /\ new[i] = log[i]
      BY <2>1, <2>2 DEF CallInv, IdsGrow, l
    <2>3. CASE i - l \in 1..g /\ new[i] = call[queue[i - l]].id
      <3>1. i - l \in 1..Len(queue) /\ i - l < j
        BY <1>1, <2>3
      <3> QED BY <2>1, <2>3, <3>1 DEF CallInv, IdsGrow
    <2> QED BY <1>6, <2>2, <2>3
  <1>10. ToSet(log) \subseteq ToSet(new)
    <2> SUFFICES ASSUME NEW x \in ToSet(log) PROVE x \in ToSet(new)
      OBVIOUS
    <2>1. PICK i \in 1..l : log[i] = x
      BY <1>1, InToSet DEF l
    <2>2. i \in 1..Len(new) /\ new[i] = x
      BY <1>1, <1>5, <2>1
    <2> QED BY <1>5, <2>2, InToSet
  <1>11. ASSUME NEW u \in ToSet(group)
         PROVE  call[u].id \in ToSet(new)
    <2>1. PICK i \in 1..g : group[i] = u
      BY <1>1, InToSet DEF g
    <2>2. i + l \in 1..Len(new) /\ (i + l) - l = i /\ ~(i + l <= l)
      BY <1>1, <1>5
    <2>3. new[i + l] = call[u].id
      BY <1>1, <1>3, <1>5, <2>1, <2>2
    <2> QED BY <1>5, <2>2, <2>3, InToSet
  <1> QED BY <1>5, <1>7, <1>8, <1>9, <1>10, <1>11 DEF new, g

(* A thread that logs has its group at the front of the queue.               *)
LEMMA LoggingGroup ==
    ASSUME CallInv, NEW t \in Threads, pc[t] = "logging"
    PROVE  /\ pc[t] \in Leading /\ queue[1] = t /\ group[1] = t
           /\ group \in Seq(Threads) /\ Len(group) \in 1..Len(queue)
           /\ \A i \in 1..Len(group) : group[i] = queue[i]
           /\ \A u \in ToSet(group) : call[u].kind = "sync" => call[t].kind = "sync"
  <1>1. /\ pc[t] \in Leading /\ queue[1] = t
        /\ group \in Seq(Threads) /\ Len(group) \in Nat /\ Len(queue) \in Nat
        /\ Len(group) <= Len(queue) /\ Len(group) > 0
        /\ \A i \in 1..Len(group) : group[i] = queue[i]
    BY DEF CallInv, CallTypes, QueueHolds, GroupAtFront, Leading
  <1>2. group[1] = t
    BY <1>1
  <1>3. \A u \in ToSet(group) : call[u].kind = "sync" => call[t].kind = "sync"
    BY <1>1, <1>2, InToSet DEF CallInv, GroupAtFront
  <1> QED BY <1>1, <1>2, <1>3


(* The leader answers for its group: all of it logged, and synced if the     *)
(* leader syncs, or none of it.                                              *)
LEMMA LoggingKeeps ==
    ASSUME CallInv, NEW t \in Threads,
           EndLogging(t) \/ AddRecordFails(t) \/ SyncFails(t)
    PROVE  CallInv'
  <1>1. /\ pc[t] = "logging" /\ group' = <<>> /\ UNCHANGED <<call, calls>>
    BY DEF EndLogging, AddRecordFails, SyncFails
  <1>2. /\ pc[t] \in Leading /\ group \in Seq(Threads) /\ Len(group) \in 1..Len(queue)
        /\ \A i \in 1..Len(group) : group[i] = queue[i]
        /\ \A u \in ToSet(group) : u \in Threads
                                   /\ (call[u].kind = "sync" => call[t].kind = "sync")
    BY <1>1, LoggingGroup, InToSet, ElementOfSeq
  <1>3. /\ pc' \in [Threads -> Places] /\ pc'[t] = "idle"
        /\ \A u \in Threads \ {t} : SamePart(pc[u], pc'[u])
    <2> DEFINE p == [pc EXCEPT ![t] = "idle"]
    <2>1. /\ p \in [Threads -> Places] /\ p[t] = "idle"
          /\ \A u \in Threads \ {t} : p[u] = pc[u]
      BY DEF CallInv, CallTypes, Places
    <2>2. pc' = p \/ pc' = SignalAll(p)
      BY DEF EndLogging, AddRecordFails, SyncFails, RecordBackgroundError
    <2> HIDE DEF p
    <2>3. /\ SignalAll(p) \in [Threads -> Places]
          /\ \A u \in Threads : SamePart(p[u], SignalAll(p)[u])
      BY <2>1, SignalKeeps
    <2>4. SignalAll(p)[t] = "idle"
      BY <2>1, <2>3, SamePartKeeps DEF Places
    <2>5. \A u \in Threads \ {t} : SamePart(pc[u], p[u]) /\ SamePart(pc[u], SignalAll(p)[u])
      BY <2>1, <2>3 DEF SamePart
    <2> QED BY <2>1, <2>2, <2>3, <2>4, <2>5
  <1>4. CASE EndLogging(t)
    <2>1. /\ Leave(t, group, TRUE) /\ log' = log \o Logged
          /\ synced' = IF call[t].kind = "sync" THEN synced \cup fresh' ELSE synced
          /\ fresh' = fresh \cup Inserted
      BY <1>4 DEF EndLogging
    <2>2. /\ log' \in Seq(Nat) /\ LoggedInOrder'
          /\ \A i \in 1..Len(log') : log'[i] <= calls
          /\ \A i \in 1..Len(log'), j \in (Len(group) + 1)..Len(queue) :
                log'[i] < call[queue[j]].id
          /\ ToSet(log) \subseteq ToSet(log')
          /\ \A u \in ToSet(group) : call[u].id \in ToSet(log')
      BY <1>1, <2>1, LogGrows DEF LoggedInOrder
    <2>3. ASSUME NEW u \in ToSet(group) PROVE Served(u)'
      <3>1. call'[u] = call[u] /\ call[u].id \in ToSet(log')
        BY <1>1, <2>2
      <3>2. ASSUME call[u].kind = "sync" PROVE call[u].id \in synced'
        <4>1. call[u].id \in Inserted
          BY <3>2 DEF Inserted, Empty
        <4> QED BY <1>2, <2>1, <3>2, <4>1
      <3> QED BY <3>1, <3>2 DEF Served
    <2> QED BY <1>1, <1>2, <1>3, <2>1, <2>2, <2>3, LeaveKeeps
  <1>5. CASE AddRecordFails(t)
    <2>1. Leave(t, group, FALSE) /\ UNCHANGED <<log, synced>>
      BY <1>5 DEF AddRecordFails
    <2>2. /\ log' \in Seq(Nat) /\ LoggedInOrder'
          /\ \A i \in 1..Len(log') : log'[i] <= calls
          /\ \A i \in 1..Len(log'), j \in (Len(group) + 1)..Len(queue) :
                log'[i] < call[queue[j]].id
      <3>1. (Len(group) + 1)..Len(queue) \subseteq 1..Len(queue)
        BY <1>2, QueueOnce
      <3> QED BY <2>1, <3>1 DEF CallInv, CallTypes, IdsGrow, LoggedInOrder
    <2> QED BY <1>1, <1>2, <1>3, <2>1, <2>2, LeaveKeeps
  <1>6. CASE SyncFails(t)
    <2>1. Leave(t, group, FALSE) /\ log' = log \o Logged /\ UNCHANGED synced
      BY <1>6 DEF SyncFails
    <2>2. /\ log' \in Seq(Nat) /\ LoggedInOrder'
          /\ \A i \in 1..Len(log') : log'[i] <= calls
          /\ \A i \in 1..Len(log'), j \in (Len(group) + 1)..Len(queue) :
                log'[i] < call[queue[j]].id
          /\ ToSet(log) \subseteq ToSet(log')
      BY <1>1, <2>1, LogGrows DEF LoggedInOrder
    <2> QED BY <1>1, <1>2, <1>3, <2>1, <2>2, LeaveKeeps
  <1> QED BY <1>4, <1>5, <1>6

(* A call that is refused, or has nothing to log, leaves the queue alone.    *)
LEMMA AloneKeeps ==
    ASSUME CallInv, NEW t \in Threads, NoRoom(t) \/ NewLogFails(t) \/ NothingToLog(t)
    PROVE  CallInv'
  <1>1. PICK isOk \in BOOLEAN : LeaveAlone(t, isOk) /\ (isOk => Empty(t))
    BY DEF NoRoom, NewLogFails, NothingToLog
  <1>2. /\ Leave(t, <<t>>, isOk) /\ UNCHANGED <<call, group, calls, log, synced>>
        /\ pc' = [pc EXCEPT ![t] = AfterWrite(t, isOk)]
    BY <1>1 DEF LeaveAlone
  <1>3. pc[t] = "room" /\ pc[t] \in Leading
    BY DEF NoRoom, NewLogFails, NothingToLog, AtFront, Leading
  <1>4. Len(queue) \in Nat /\ Len(queue) > 0 /\ queue[1] = t
    BY <1>3, QueueOnce DEF CallInv, QueueHolds
  <1>5. group' = <<>>
    <2>1. \A u \in Threads : pc[u] # "logging"
      BY <1>3, <1>4 DEF CallInv, QueueHolds, Leading
    <2> QED BY <1>2, <2>1 DEF CallInv, GroupAtFront
  <1>6. /\ pc' \in [Threads -> Places]
        /\ pc'[t] = "idle" \/ (pc'[t] \in {"flush", "manual"} /\ Empty(t))
        /\ \A u \in Threads \ {t} : SamePart(pc[u], pc'[u])
    BY <1>2 DEF CallInv, CallTypes, AfterWrite, Places, Compacts, SamePart
  <1>7. /\ <<t>> \in Seq(Threads) /\ Len(<<t>>) = 1 /\ Len(<<t>>) \in 1..Len(queue)
        /\ \A i \in 1..Len(<<t>>) : <<t>>[i] = queue[i]
    <2>1. <<t>> \in Seq(Threads) /\ Len(<<t>>) = 1 /\ <<t>>[1] = t
      OBVIOUS
    <2>2. 1 \in 1..Len(queue) /\ \A i \in 1..1 : i = 1
      BY <1>4
    <2> QED BY <1>4, <2>1, <2>2
  <1>8. \A u \in ToSet(<<t>>) : u = t
    <2> DEFINE ts == <<t>>
    <2>1. ts \in Seq(Threads) /\ Len(ts) = 1 /\ \A i \in 1..1 : ts[i] = t
      OBVIOUS
    <2> HIDE DEF ts
    <2>2. \A u \in ToSet(ts) : u = t
      BY <2>1, InToSet
    <2> QED BY <2>2 DEF ts
  <1>9. isOk => \A u \in ToSet(<<t>>) : Served(u)'
    BY <1>1, <1>2, <1>8 DEF Served, Empty
  <1>10. /\ log' \in Seq(Nat) /\ LoggedInOrder'
         /\ \A i \in 1..Len(log') : log'[i] <= calls
         /\ \A i \in 1..Len(log'), j \in (Len(<<t>>) + 1)..Len(queue) :
               log'[i] < call[queue[j]].id
    BY <1>2, <1>4, <1>7 DEF CallInv, CallTypes, IdsGrow, LoggedInOrder
  <1> QED BY <1>2, <1>3, <1>5, <1>6, <1>7, <1>9, <1>10, LeaveKeeps

(* A compaction that is through is answered; it was a compaction.            *)
LEMMA EndManualKeeps ==
    ASSUME CallInv, NEW t \in Threads, EndManual(t)
    PROVE  CallInv'
  <1> USE DEF CallInv
  <1>1. /\ pc[t] = "manual" /\ pc' = [pc EXCEPT ![t] = "idle"]
        /\ answered' = answered \cup {Answer(t, TRUE)}
        /\ UNCHANGED <<call, queue, done, group, ok, log, synced, calls>>
    BY DEF EndManual, queueVars
  <1>2. pc'[t] = "idle" /\ \A u \in Threads \ {t} : pc'[u] = pc[u]
    BY <1>1 DEF CallTypes
  <1>3. CallTypes'
    BY <1>1 DEF CallTypes, Places
  <1>4. \A i \in 1..Len(queue) : queue[i] \in Threads \ {t}
    BY <1>1, QueueOnce DEF QueueHolds, Leading
  <1>5. QueueHolds'
    BY <1>1, <1>2, <1>4 DEF QueueHolds, Leading
  <1>6. IdsGrow'
    BY <1>1 DEF IdsGrow, LoggedInOrder
  <1>7. GroupAtFront'
    BY <1>1, <1>2 DEF GroupAtFront
  <1>8. ServedWhenDone' /\ CompactsOnly'
    BY <1>1, <1>2 DEF ServedWhenDone, Served, CompactsOnly, Compacts
  <1>9. AnswersHold'
    <2>1. Answer(t, TRUE).kind = "compact"
      BY <1>1 DEF Answer, CompactsOnly, Compacts
    <2>2. \A a \in answered' : a \in answered \/ a = Answer(t, TRUE)
      BY <1>1
    <2> QED BY <1>1, <2>1, <2>2 DEF AnswersHold
  <1> QED BY <1>3, <1>5, <1>6, <1>7, <1>8, <1>9


-----------------------------------------------------------------------------
(* Every step. *)

(* The steps of the background thread, of the destructor and of a thread     *)
(* within its part of the code.                                              *)
LEMMA QuietKeeps ==
    ASSUME CallInv,
           \/ Background \/ Close \/ CloseWakes \/ UNCHANGED vars
           \/ \E t \in Threads : \/ Sleep(t) \/ EndSleep(t) \/ WaitForRoom(t)
                                 \/ SwitchMemTable(t) \/ AwaitFlush(t)
                                 \/ RequestManual(t) \/ AwaitManual(t)
    PROVE  /\ CallInv'
           /\ \A t \in Threads : SamePart(pc[t], pc'[t])
  <1>1. pc \in [Threads -> Places]
    BY DEF CallInv, CallTypes
  <1>2. CASE Background
    <2>1. UNCHANGED <<call, queue, done, group, ok, log, synced, answered, calls>>
      BY <1>2 DEF Background, StartBackground, SkipBackground, FlushDone, FlushFails,
                  FlushBetween, FlushBetweenFails, NothingToCompact, MergeDone, MergeFails,
                  queueVars, history
    <2>2. pc' = pc \/ pc' = SignalAll(pc)
      BY <1>2 DEF Background, StartBackground, SkipBackground, FlushDone, FlushFails,
                  FlushBetween, FlushBetweenFails, NothingToCompact, MergeDone, MergeFails,
                  EndCall
    <2>3. /\ pc' \in [Threads -> Places]
          /\ \A t \in Threads : SamePart(pc[t], pc'[t])
      BY <1>1, <2>2, SignalKeeps DEF SamePart
    <2> QED BY <2>1, <2>3, MoveKeeps
  <1>3. CASE Close \/ CloseWakes \/ UNCHANGED vars
    <2>1. UNCHANGED <<pc, call, queue, done, group, ok, log, synced, answered, calls>>
      BY <1>3 DEF Close, CloseWakes, vars, queueVars, history
    <2> QED BY <1>1, <2>1, MoveKeeps DEF SamePart
  <1>4. ASSUME NEW t \in Threads, SwitchMemTable(t) \/ RequestManual(t)
        PROVE  CallInv' /\ \A u \in Threads : SamePart(pc[u], pc'[u])
    <2>1. UNCHANGED <<pc, call, queue, done, group, ok, log, synced, answered, calls>>
      BY <1>4 DEF SwitchMemTable, RequestManual, queueVars, history
    <2> QED BY <1>1, <2>1, MoveKeeps DEF SamePart
  <1>5. ASSUME NEW t \in Threads, Sleep(t) \/ EndSleep(t) \/ WaitForRoom(t)
        PROVE  CallInv' /\ \A u \in Threads : SamePart(pc[u], pc'[u])
    <2>1. UNCHANGED <<call, queue, done, group, ok, log, synced, answered, calls>>
      BY <1>5 DEF Sleep, EndSleep, WaitForRoom, queueVars, history
    <2>2. PICK place \in MakesRoom : pc' = [pc EXCEPT ![t] = place] /\ pc[t] \in MakesRoom
      BY <1>5 DEF Sleep, EndSleep, WaitForRoom, AtFront, MakesRoom
    <2>3. /\ pc' \in [Threads -> Places]
          /\ \A u \in Threads : SamePart(pc[u], pc'[u])
      BY <1>1, <2>2 DEF SamePart, MakesRoom, Places, Leading
    <2> QED BY <2>1, <2>3, MoveKeeps
  <1>6. ASSUME NEW t \in Threads, AwaitFlush(t) \/ AwaitManual(t)
        PROVE  CallInv' /\ \A u \in Threads : SamePart(pc[u], pc'[u])
    <2>1. UNCHANGED <<call, queue, done, group, log, synced, answered, calls>>
      BY <1>6 DEF AwaitFlush, AwaitManual, queueVars, history
    <2>2. PICK place \in Compacts : pc' = [pc EXCEPT ![t] = place] /\ pc[t] \in Compacts
      BY <1>6 DEF AwaitFlush, AwaitManual, Compacts
    <2>3. /\ pc' \in [Threads -> Places]
          /\ \A u \in Threads : SamePart(pc[u], pc'[u])
      BY <1>1, <2>2 DEF SamePart, Compacts, Places
    <2>4. ok' \subseteq ok
      BY <1>6 DEF AwaitFlush, AwaitManual
    <2> QED BY <2>1, <2>3, <2>4, MoveKeeps
  <1> QED BY <1>2, <1>3, <1>4, <1>5, <1>6

LEMMA CallStep ==
    ASSUME QueueConstants, CallInv, [Next]_vars
    PROVE  CallInv'
  <1>1. ASSUME NEW t \in Threads, NEW k \in Kinds, NEW n \in Sizes,
               Begin(t, k, IF k = "compact" THEN 0 ELSE n)
        PROVE  CallInv'
    <2>1. (IF k = "compact" THEN 0 ELSE n) \in Nat
      BY DEF QueueConstants
    <2> QED BY <1>1, <2>1, BeginKeeps
  <1>2. ASSUME NEW t \in Threads, Caller(t)
        PROVE  CallInv'
    BY <1>2, WakeKeeps, StartKeeps, LoggingKeeps, AloneKeeps, EndManualKeeps, QuietKeeps
       DEF Caller
  <1>3. ASSUME Background \/ Close \/ CloseWakes \/ UNCHANGED vars
        PROVE  CallInv'
    BY <1>3, QuietKeeps
  <1> QED BY <1>1, <1>2, <1>3 DEF Next

(* What a thread that leaves the queue does to the sets of threads.          *)
LEMMA LeaveTypes ==
    ASSUME CallInv, StoreTypes, NEW t \in Threads, NEW ts \in Seq(Threads),
           Len(ts) \in 1..Len(queue), NEW isOk \in BOOLEAN, Leave(t, ts, isOk)
    PROVE  (signalled' \cup done' \cup ok') \subseteq Threads
  <1> DEFINE rest == SubSeq(queue, Len(ts) + 1, Len(queue))
  <1>1. \A u \in ToSet(ts) : u \in Threads
    BY InToSet, ElementOfSeq
  <1>2. rest \in Seq(Threads)
    BY TakenOff DEF CallInv, CallTypes
  <1>3. rest # <<>> => Head(rest) \in Threads
    <2> HIDE DEF rest
    <2> QED BY <1>2, HeadTailProperties
  <1>4. /\ done' = done \cup ToSet(ts)
        /\ ok' = IF isOk THEN ok \cup ToSet(ts) ELSE ok \ ToSet(ts)
        /\ signalled' = signalled \cup (ToSet(ts) \ {t})
                            \cup (IF rest = <<>> THEN {} ELSE {Head(rest)})
    BY DEF Leave
  <1> HIDE DEF rest
  <1> QED BY <1>1, <1>3, <1>4 DEF StoreTypes


LEMMA FailuresCount ==
    ASSUME QueueConstants, failures \in Nat, Fails \/ UNCHANGED failures
    PROVE  failures' \in Nat
  <1>1. CASE Fails
    BY <1>1 DEF Fails
  <1>2. CASE UNCHANGED failures
    BY <1>2
  <1> QED BY <1>1, <1>2

(* The calls of Write keep the types of what they share.                     *)
LEMMA CallerStoreTypes ==
    ASSUME QueueConstants, CallInv, StoreTypes, NEW t \in Threads, Caller(t)
    PROVE  StoreTypes'
  <1>1. CASE WakeInQueue(t) \/ Sleep(t) \/ EndSleep(t) \/ WaitForRoom(t) \/ StartLogging(t)
             \/ AwaitManual(t)
    BY <1>1 DEF WakeInQueue, Sleep, EndSleep, WaitForRoom, StartLogging, AwaitManual,
                memVars, bgVars, queueVars, history, StoreTypes
  <1>2. CASE SwitchMemTable(t)
    BY <1>2 DEF SwitchMemTable, MaybeScheduleCompaction, StoreTypes
  <1>3. CASE EndLogging(t) \/ AddRecordFails(t) \/ SyncFails(t)
    <2>1. pc[t] = "logging"
      BY <1>3 DEF EndLogging, AddRecordFails, SyncFails
    <2>2. group \in Seq(Threads) /\ Len(group) \in 1..Len(queue)
      BY <2>1, LoggingGroup
    <2>3. (signalled' \cup done' \cup ok') \subseteq Threads
      BY <1>3, <2>2, LeaveTypes DEF EndLogging, AddRecordFails, SyncFails
    <2>4. Inserted \subseteq Nat
      <3>1. \A u \in ToSet(group) : u \in Threads
        BY <2>2, InToSet, ElementOfSeq
      <3> QED BY <3>1 DEF Inserted, CallInv, CallTypes
    <2>5. mem' \subseteq Nat /\ synced' \subseteq Nat /\ fresh' \subseteq Nat
      BY <1>3, <2>4 DEF EndLogging, AddRecordFails, SyncFails, memVars, StoreTypes
    <2>6. failures' \in Nat /\ bgError' \in BOOLEAN
      <3>1. failures \in Nat /\ bgError \in BOOLEAN
        BY DEF StoreTypes
      <3>2. Fails \/ UNCHANGED failures
        BY <1>3 DEF EndLogging, AddRecordFails, SyncFails
      <3>3. bgError' = bgError \/ bgError' = TRUE
        BY <1>3 DEF EndLogging, AddRecordFails, SyncFails, RecordBackgroundError
      <3> QED BY <3>1, <3>2, <3>3, FailuresCount
    <2>7. UNCHANGED <<force, delay, imm, level0, bgVars, closing, dangling>>
      BY <1>3 DEF EndLogging, AddRecordFails, SyncFails, memVars
    <2> QED BY <2>3, <2>5, <2>6, <2>7 DEF bgVars, StoreTypes
  <1>4. CASE NoRoom(t) \/ NewLogFails(t) \/ NothingToLog(t)
    <2>1. PICK isOk \in BOOLEAN : LeaveAlone(t, isOk)
      BY <1>4 DEF NoRoom, NewLogFails, NothingToLog
    <2>2. Len(queue) \in Nat /\ Len(queue) > 0
      BY <1>4, QueueOnce
         DEF NoRoom, NewLogFails, NothingToLog, AtFront, Leading, CallInv, QueueHolds
    <2>3. <<t>> \in Seq(Threads) /\ Len(<<t>>) = 1 /\ 1 \in 1..Len(queue)
      BY <2>2
    <2>4. (signalled' \cup done' \cup ok') \subseteq Threads
      BY <2>1, <2>3, LeaveTypes DEF LeaveAlone
    <2>5. failures' \in Nat
      <3>1. failures \in Nat
        BY DEF StoreTypes
      <3>2. Fails \/ UNCHANGED failures
        BY <1>4 DEF NoRoom, NewLogFails, NothingToLog
      <3> QED BY <3>1, <3>2, FailuresCount
    <2> QED BY <2>1, <2>4, <2>5 DEF LeaveAlone, memVars, bgVars, StoreTypes
  <1>5. CASE AwaitFlush(t)
    BY <1>5 DEF AwaitFlush, memVars, bgVars, queueVars, history, StoreTypes
  <1>6. CASE RequestManual(t)
    BY <1>6 DEF RequestManual, MaybeScheduleCompaction, memVars, queueVars, history, StoreTypes
  <1>7. CASE EndManual(t)
    <2>1. manual' = {} \/ \E u \in Threads : manual' = {u}
      BY <1>7 DEF EndManual, StoreTypes
    <2> QED BY <1>7, <2>1 DEF EndManual, memVars, queueVars, StoreTypes
  <1> QED BY <1>1, <1>2, <1>3, <1>4, <1>5, <1>6, <1>7 DEF Caller

(* So does the background thread.                                            *)
LEMMA BackgroundStoreTypes ==
    ASSUME QueueConstants, StoreTypes, Background
    PROVE  StoreTypes'
  <1>1. CASE StartBackground
    <2>1. rangeDone' \subseteq Threads
      BY <1>1 DEF StartBackground, StoreTypes
    <2> QED BY <1>1, <2>1 DEF StartBackground, memVars, queueVars, history, StoreTypes
  <1>2. CASE SkipBackground
    BY <1>2 DEF SkipBackground, EndCall, MaybeScheduleCompaction, memVars, queueVars,
                history, StoreTypes
  <1>3. CASE FlushDone
    BY <1>3 DEF FlushDone, EndCall, MaybeScheduleCompaction, queueVars, history, StoreTypes
  <1>4. CASE FlushFails
    BY <1>4 DEF FlushFails, Fails, EndCall, MaybeScheduleCompaction, memVars, queueVars,
                history, StoreTypes
  <1>5. CASE FlushBetween
    BY <1>5 DEF FlushBetween, bgVars, queueVars, history, StoreTypes
  <1>6. CASE FlushBetweenFails
    BY <1>6 DEF FlushBetweenFails, Fails, memVars, bgVars, queueVars, history, StoreTypes
  <1>7. CASE NothingToCompact \/ MergeDone \/ MergeFails
    <2>1. PICK isOk \in BOOLEAN : Report(isOk)
      BY <1>7 DEF NothingToCompact, MergeDone, MergeFails
    <2>2. /\ rangeDone' \subseteq Threads /\ left' \in [Threads -> Nat]
          /\ manual' = {} \/ \E t \in Threads : manual' = {t}
          /\ dangling' \in BOOLEAN
      <3>1. /\ rangeDone \subseteq Threads /\ left \in [Threads -> Nat]
            /\ manual \subseteq Threads
            /\ manual = {} \/ \E t \in Threads : manual = {t}
            /\ dangling \in BOOLEAN
        BY DEF StoreTypes
      <3>2. CASE bg = "merge"
        BY <2>1, <3>1, <3>2 DEF Report
      <3>3. CASE bg # "merge"
        <4>1. /\ manual' = {}
              /\ left' = [t \in Threads |-> IF t \in manual /\ isOk /\ left[t] > 0
                                            THEN left[t] - 1 ELSE left[t]]
              /\ rangeDone' = IF isOk THEN rangeDone ELSE rangeDone \cup manual
              /\ dangling' = (dangling \/ manual = {})
          BY <2>1, <3>3 DEF Report
        <4>2. left' \in [Threads -> Nat]
          BY <3>1, <4>1
        <4>3. dangling' \in BOOLEAN
          BY <3>1, <4>1
        <4> QED BY <3>1, <4>1, <4>2, <4>3
      <3> QED BY <3>2, <3>3
    <2>3. level0' \in Nat /\ failures' \in Nat /\ bgError' \in BOOLEAN
      <3>1. level0 \in Nat /\ failures \in Nat /\ bgError \in BOOLEAN
        BY DEF StoreTypes
      <3>2. level0' \in Nat
        <4>1. \/ level0' = level0
              \/ level0' \in 0..(IF bg = "merge" THEN level0 - 1 ELSE level0)
          BY <1>7 DEF NothingToCompact, MergeDone, MergeFails, memVars
        <4> QED BY <3>1, <4>1
      <3>3. failures' \in Nat
        <4>1. Fails \/ UNCHANGED failures
          BY <1>7 DEF NothingToCompact, MergeDone, MergeFails
        <4> QED BY <3>1, <4>1, FailuresCount
      <3>4. bgError' \in BOOLEAN
        BY <1>7, <3>1 DEF NothingToCompact, MergeDone, MergeFails
      <3> QED BY <3>2, <3>3, <3>4
    <2>4. bg' = "idle" /\ scheduled' \in BOOLEAN
      BY <1>7 DEF NothingToCompact, MergeDone, MergeFails, EndCall, MaybeScheduleCompaction
    <2>5. UNCHANGED <<signalled, done, ok, force, delay, mem, imm, synced, fresh, closing>>
      BY <1>7 DEF NothingToCompact, MergeDone, MergeFails, memVars, queueVars, history
    <2> QED BY <2>2, <2>3, <2>4, <2>5 DEF StoreTypes
  <1> QED BY <1>1, <1>2, <1>3, <1>4, <1>5, <1>6, <1>7 DEF Background

LEMMA StoreStep ==
    ASSUME QueueConstants, CallInv, StoreTypes, [Next]_vars
    PROVE  StoreTypes'
  <1>1. ASSUME NEW t \in Threads, NEW k \in Kinds, NEW n, Begin(t, k, n)
        PROVE  StoreTypes'
    BY <1>1 DEF Begin, memVars, StoreTypes, QueueConstants
  <1>2. CASE Close \/ CloseWakes
    BY <1>2 DEF Close, CloseWakes, queueVars, memVars, bgVars, history, StoreTypes
  <1>3. CASE UNCHANGED vars
    BY <1>3 DEF vars, queueVars, memVars, bgVars, history, StoreTypes
  <1> QED BY <1>1, <1>2, <1>3, CallerStoreTypes, BackgroundStoreTypes DEF Next

(* The destructor runs alone; MaybeScheduleCompaction schedules nothing once *)
(* it has begun.                                                             *)
LEMMA ClosesStep ==
    ASSUME CallInv, StoreTypes, ClosesIdle, [Next]_vars
    PROVE  ClosesIdle'
  <1>1. ASSUME NEW t \in Threads, NEW k \in Kinds, NEW n, Begin(t, k, n)
        PROVE  ClosesIdle'
    BY <1>1 DEF Begin, ClosesIdle
  <1>2. ASSUME NEW t \in Threads, Caller(t)
        PROVE  ClosesIdle'
    <2>1. closing = "no"
      <3>1. pc[t] # "idle"
        BY <1>2 DEF Caller, WakeInQueue, Sleep, EndSleep, WaitForRoom, SwitchMemTable,
                    StartLogging, EndLogging, AddRecordFails, SyncFails, NoRoom, NewLogFails,
                    NothingToLog, AwaitFlush, RequestManual, AwaitManual, EndManual, AtFront
      <3> QED BY <3>1 DEF ClosesIdle
    <2>2. closing' = closing /\ bg' = bg
      BY <1>2 DEF Caller, WakeInQueue, Sleep, EndSleep, WaitForRoom, SwitchMemTable,
                  StartLogging, EndLogging, AddRecordFails, SyncFails, NoRoom, NewLogFails,
                  NothingToLog, LeaveAlone, AwaitFlush, RequestManual, AwaitManual, EndManual,
                  bgVars
    <2>3. scheduled => scheduled'
      <3>1. CASE SwitchMemTable(t) \/ RequestManual(t)
        BY <3>1 DEF SwitchMemTable, RequestManual, MaybeScheduleCompaction
      <3>2. CASE ~(SwitchMemTable(t) \/ RequestManual(t))
        BY <1>2, <3>2 DEF Caller, WakeInQueue, Sleep, EndSleep, WaitForRoom,
                  StartLogging, EndLogging, AddRecordFails, SyncFails, NoRoom, NewLogFails,
                  NothingToLog, LeaveAlone, AwaitFlush, AwaitManual, EndManual, bgVars
      <3> QED BY <3>1, <3>2
    <2> QED BY <2>1, <2>2, <2>3 DEF ClosesIdle
  <1>3. CASE Background
    <2>1. \A t \in Threads : pc[t] = "idle" => pc'[t] = "idle"
      <3>1. CallInv' /\ \A t \in Threads : SamePart(pc[t], pc'[t])
        BY <1>3, QuietKeeps
      <3> QED BY <3>1, SamePartKeeps DEF CallInv, CallTypes
    <2>2. closing' = closing
      BY <1>3 DEF Background, StartBackground, SkipBackground, FlushDone, FlushFails,
                  FlushBetween, FlushBetweenFails, NothingToCompact, MergeDone, MergeFails
    <2>3. scheduled
      BY <1>3 DEF Background, StartBackground, SkipBackground, FlushDone, FlushFails,
                  FlushBetween, FlushBetweenFails, NothingToCompact, MergeDone, MergeFails,
                  Merging, ClosesIdle
    <2>4. \/ UNCHANGED scheduled
          \/ bg' = "idle" /\ (scheduled' => closing = "no")
      BY <1>3 DEF Background, StartBackground, SkipBackground, FlushDone, FlushFails,
                  FlushBetween, FlushBetweenFails, NothingToCompact, MergeDone, MergeFails,
                  EndCall, MaybeScheduleCompaction, bgVars
    <2> QED BY <2>1, <2>2, <2>3, <2>4 DEF ClosesIdle
  <1>4. CASE Close \/ CloseWakes
    BY <1>4 DEF Close, CloseWakes, bgVars, ClosesIdle
  <1>5. CASE UNCHANGED vars
    BY <1>5 DEF vars, bgVars, ClosesIdle
  <1> QED BY <1>1, <1>2, <1>3, <1>4, <1>5 DEF Next

-----------------------------------------------------------------------------

LEMMA WriteInit ==
    ASSUME QueueConstants, Init
    PROVE  WriteInv
  <1>1. <<>> \in Seq(Threads) /\ <<>> \in Seq(Nat) /\ Len(<<>>) = 0
    BY EmptySeq
  <1>2. CallTypes
    BY <1>1 DEF Init, CallTypes, NoCall, Places
  <1>3. QueueHolds /\ GroupAtFront
    BY <1>1 DEF Init, QueueHolds, GroupAtFront, Leading
  <1>4. IdsGrow
    BY <1>1 DEF Init, IdsGrow, LoggedInOrder, NoCall
  <1>5. ServedWhenDone /\ AnswersHold /\ CompactsOnly
    BY DEF Init, ServedWhenDone, AnswersHold, CompactsOnly, Compacts
  <1>6. StoreTypes /\ ClosesIdle
    BY DEF Init, StoreTypes, ClosesIdle
  <1> QED BY <1>2, <1>3, <1>4, <1>5, <1>6 DEF WriteInv, CallInv

(* What the invariant says to a caller.                                      *)
LEMMA WriteInvAnswers ==
    ASSUME WriteInv
    PROVE  WritersAnswered
  <1> USE DEF WriteInv, CallInv
  <1>1. queue \in Seq(Threads) /\ \A u : u \in ToSet(queue) <=> \E i \in 1..Len(queue) : queue[i] = u
    BY InToSet DEF CallTypes
  <1>2. ASSUME NEW t \in Threads, pc[t] \in Leading
        PROVE  Head(queue) = t /\ t \in ToSet(queue)
    <2>1. Len(queue) \in Nat /\ Len(queue) > 0 /\ queue[1] = t
      BY <1>2, QueueOnce DEF QueueHolds
    <2>2. Head(queue) = queue[1]
      BY <1>1, <2>1
    <2> QED BY <1>1, <2>1, <2>2
  <1>3. ASSUME NEW t \in Threads, pc[t] \in {"queued"} \cup Leading
        PROVE  t \in ToSet(queue) <=> ~(pc[t] = "queued" /\ t \in done)
    BY <1>1, <1>2, <1>3 DEF QueueHolds, Leading
  <1>4. group = SubSeq(queue, 1, Len(group))
    <2> DEFINE n == Len(group)
               s == SubSeq(queue, 1, n)
    <2>1. group \in Seq(Threads) /\ n \in Nat /\ n <= Len(queue) /\ Len(queue) \in Nat
      BY DEF CallTypes, GroupAtFront
    <2>2. s \in Seq(Threads) /\ Len(s) = n /\ \A i \in 1..n : s[i] = queue[i]
      BY <1>1, <2>1
    <2>3. \A i \in 1..n : group[i] = s[i]
      BY <2>2 DEF GroupAtFront
    <2> HIDE DEF s
    <2>4. group = s
      BY <2>1, <2>2, <2>3, SeqEqual
    <2> QED BY <2>4 DEF s
  <1>5. TypeOK
    BY <1>2, <1>3, <1>4 DEF TypeOK, ClosesIdle
  <1>6. LoggedInOrder /\ AnswersHold /\ NoWorkAfterClose
    BY DEF IdsGrow, NoWorkAfterClose, ClosesIdle
  <1> QED BY <1>5, <1>6 DEF WritersAnswered

(* DBImpl::Write for any number of threads: batches reach the log once and   *)
(* in the order of their calls; a call answered ok is in the log, and synced *)
(* if it asked for it, whoever led its group; and after the destructor no    *)
(* background work is left.                                                  *)
THEOREM WritesAnswerTruly ==
    ASSUME QueueConstants
    PROVE  Spec => []WritersAnswered
  <1>1. Init => WriteInv
    BY WriteInit
  <1>2. WriteInv /\ [Next]_vars => WriteInv'
    BY CallStep, StoreStep, ClosesStep DEF WriteInv
  <1>3. WriteInv => WritersAnswered
    BY WriteInvAnswers
  <1> QED BY <1>1, <1>2, <1>3, PTL DEF Spec

=============================================================================
