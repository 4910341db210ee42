------------------------- MODULE ReadableFilesProofs -------------------------
(***************************************************************************)
(* The limiters of the environment keep their limits, for any number of    *)
(* threads and any limits, whatever opening, mapping and reading do.       *)
(*                                                                         *)
(* The counter of a Limiter may fall below zero, by one for every Acquire  *)
(* that found nothing and has not put its decrement back (Owing).  With    *)
(* those counted, counter and slots add up at every step; a thread that    *)
(* finds a positive counter therefore finds a slot that nobody holds.      *)
(***************************************************************************)
EXTENDS ReadableFiles, FiniteSetTheorems, TLAPS

(* A file object exists exactly between its constructor and its destructor,  *)
(* and gets a descriptor that is open.                                       *)
KindFits ==
  \A t \in Threads :
     /\ kind[t] = "none" <=> pc[t] \notin {"in", "reads"}
     /\ pc[t] = "reads" => kind[t] = "temporary"
     /\ pc[t] \in {"opened", "noMap", "asksFd"} => fds[t]
     /\ kind[t] = "fd" => fds[t]

ThreadTypes ==
  /\ allowed \in [Limiters -> Int]
  /\ pc \in [Threads -> {"out", "opened", "maps", "noMap", "asksFd", "noFd",
                         "closes", "in", "reads", "mmap", "fd"}]
  /\ fds \in [Threads -> BOOLEAN]
  /\ kind \in [Threads -> {"none", "mmap", "fd", "temporary"}]
  /\ turnedAway \in [Threads -> BOOLEAN]

LimitInv ==
  /\ ThreadTypes
  /\ KindFits
  /\ SlotsAddUp
  /\ WithinLimits

-----------------------------------------------------------------------------
(* Counting. *)

(* How much t counts for in the set S.                                       *)
Counts(t, S) == IF t \in S THEN 1 ELSE 0

(* A set that changes in one element grows by what that element now counts   *)
(* for.                                                                      *)
LEMMA OneElementChanges ==
  ASSUME NEW S, IsFiniteSet(S), NEW T, NEW t, S \ {t} = T \ {t}
  PROVE  /\ IsFiniteSet(T)
         /\ Cardinality(S) \in Nat /\ Cardinality(T) \in Nat
         /\ Cardinality(T) = Cardinality(S) - Counts(t, S) + Counts(t, T)
  <1> DEFINE R == S \ {t}
  <1>1. IsFiniteSet(R) /\ Cardinality(R) \in Nat
    BY FS_RemoveElement, FS_CardinalityType
  <1>2. ASSUME NEW U, U \ {t} = R
        PROVE  IsFiniteSet(U) /\ Cardinality(U) = Cardinality(R) + Counts(t, U)
    <2>1. CASE t \in U
      <3>1. U = R \cup {t} /\ t \notin R
        BY <1>2, <2>1
      <3>2. IsFiniteSet(R \cup {t}) /\ Cardinality(R \cup {t}) = Cardinality(R) + 1
        BY <1>1, <3>1, FS_AddElement
      <3> QED BY <2>1, <3>1, <3>2 DEF Counts
    <2>2. CASE t \notin U
      <3>1. U = R
        BY <1>2, <2>2
      <3> QED BY <1>1, <2>2, <3>1 DEF Counts
    <2> QED BY <2>1, <2>2
  <1>3. Cardinality(S) = Cardinality(R) + Counts(t, S)
    BY <1>2
  <1>4. T \ {t} = R
    OBVIOUS
  <1>5. IsFiniteSet(T) /\ Cardinality(T) = Cardinality(R) + Counts(t, T)
    BY <1>2, <1>4
  <1> HIDE DEF R
  <1> QED BY <1>1, <1>3, <1>5 DEF Counts

(* The threads that hold a slot, and those that owe one, are finitely many.  *)
LEMMA FewThreads ==
  ASSUME LimiterConstants, NEW l \in Limiters
  PROVE  /\ IsFiniteSet(Held(l)) /\ IsFiniteSet(Owing(l))
         /\ Cardinality(Held(l)) \in 0 .. Cardinality(Threads)
         /\ Cardinality(Owing(l)) \in 0 .. Cardinality(Threads)
         /\ Cardinality(Threads) \in Nat
  <1>1. Held(l) \subseteq Threads /\ Owing(l) \subseteq Threads
    BY DEF Held, Owing
  <1> QED BY <1>1, FS_Subset, FS_CardinalityType DEF LimiterConstants

(* A step of t leaves the slots of the other threads alone.  *)
OnlyMoves(t) ==
  \A s \in Threads \ {t} : pc'[s] = pc[s] /\ kind'[s] = kind[s]

(* What a step of one thread does to the slots of a limiter is told by what  *)
(* that thread held and owed before and after.                               *)
LEMMA SlotsMove ==
  ASSUME LimiterConstants, NEW t \in Threads, OnlyMoves(t), NEW l \in Limiters
  PROVE  /\ Cardinality(Held(l)) \in Nat /\ Cardinality(Owing(l)) \in Nat
         /\ Cardinality(Held(l)') = Cardinality(Held(l))
              - (IF Holds(t, l) THEN 1 ELSE 0) + (IF Holds(t, l)' THEN 1 ELSE 0)
         /\ Cardinality(Owing(l)') = Cardinality(Owing(l))
              - (IF Owes(t, l) THEN 1 ELSE 0) + (IF Owes(t, l)' THEN 1 ELSE 0)
  <1>1. Held(l) \ {t} = Held(l)' \ {t}
    BY DEF OnlyMoves, Held, Holds
  <1>2. Owing(l) \ {t} = Owing(l)' \ {t}
    BY DEF OnlyMoves, Owing, Owes
  <1>3. IsFiniteSet(Held(l)) /\ IsFiniteSet(Owing(l))
    BY FewThreads
  <1>4. (t \in Held(l) <=> Holds(t, l)) /\ (t \in Held(l)' <=> Holds(t, l)')
    BY DEF Held, Holds
  <1>5. (t \in Owing(l) <=> Owes(t, l)) /\ (t \in Owing(l)' <=> Owes(t, l)')
    BY DEF Owing, Owes
  <1>6. /\ Cardinality(Held(l)) \in Nat
        /\ Cardinality(Held(l)') = Cardinality(Held(l))
             - Counts(t, Held(l)) + Counts(t, Held(l)')
    BY <1>1, <1>3, OneElementChanges
  <1>7. /\ Cardinality(Owing(l)) \in Nat
        /\ Cardinality(Owing(l)') = Cardinality(Owing(l))
             - Counts(t, Owing(l)) + Counts(t, Owing(l)')
    BY <1>2, <1>3, OneElementChanges
  <1> QED BY <1>4, <1>5, <1>6, <1>7 DEF Counts

-----------------------------------------------------------------------------

LEMMA LimitInit ==
  ASSUME LimiterConstants, Init
  PROVE  LimitInv
  <1>1. \A l \in Limiters : Held(l) = {} /\ Owing(l) = {} /\ Limit(l) \in Nat
    BY DEF Init, Limiters, Held, Holds, Owing, Owes, Limit, LimiterConstants
  <1>2. \A l \in Limiters : allowed[l] = Limit(l)
    BY DEF Init
  <1>3. Cardinality({}) = 0
    BY FS_EmptySet
  <1>4. SlotsAddUp /\ WithinLimits
    <2>1. ASSUME NEW l \in Limiters
          PROVE  /\ allowed[l] + Cardinality(Held(l)) + Cardinality(Owing(l)) = Limit(l)
                 /\ Cardinality(Held(l)) <= Limit(l)
      <3>1. /\ Cardinality(Held(l)) = 0 /\ Cardinality(Owing(l)) = 0
            /\ allowed[l] = Limit(l) /\ Limit(l) \in Nat
        BY <1>1, <1>2, <1>3
      <3> QED BY <3>1
    <2> QED BY <2>1 DEF SlotsAddUp, WithinLimits
  <1>5. ThreadTypes /\ KindFits
    BY DEF Init, ThreadTypes, KindFits, Limiters, Limit, LimiterConstants
  <1> QED BY <1>4, <1>5 DEF LimitInv

(* Every step keeps the types, and keeps an object in its place.             *)
LEMMA KindStep ==
  ASSUME LimiterConstants, ThreadTypes, KindFits, Next
  PROVE  ThreadTypes' /\ KindFits'
  <1>1. ASSUME NEW t \in Threads, Open(t) \/ Mmap(t) \/ CloseUnlisted(t)
        PROVE  ThreadTypes' /\ KindFits'
    BY <1>1 DEF Open, Mmap, CloseUnlisted, Goto, ThreadTypes, KindFits
  <1>2. ASSUME NEW t \in Threads, AcquireMmap(t)
        PROVE  ThreadTypes' /\ KindFits'
    <2>1. turnedAway' \in [Threads -> BOOLEAN]
      BY <1>2 DEF AcquireMmap, Acquire, ThreadTypes
    <2>2. Limiters = {"mmap", "fd"} /\ allowed' \in [Limiters -> Int]
      BY <1>2 DEF AcquireMmap, Acquire, Take, ThreadTypes, Limiters
    <2> QED BY <1>2, <2>1, <2>2 DEF AcquireMmap, Acquire, Takes, Goto, ThreadTypes, KindFits
  <1>3. ASSUME NEW t \in Threads, AcquireFd(t)
        PROVE  ThreadTypes' /\ KindFits'
    <2>1. turnedAway' \in [Threads -> BOOLEAN]
      BY <1>3 DEF AcquireFd, Acquire, ThreadTypes
    <2>2. Limiters = {"mmap", "fd"} /\ allowed' \in [Limiters -> Int]
      BY <1>3 DEF AcquireFd, Acquire, Take, ThreadTypes, Limiters
    <2> QED BY <1>3, <2>1, <2>2 DEF AcquireFd, Acquire, Takes, Goto, ThreadTypes, KindFits
  <1>4. ASSUME NEW t \in Threads, GiveBackMmap(t) \/ MmapFails(t) \/ GiveBackFd(t) \/ Release(t)
        PROVE  ThreadTypes' /\ KindFits'
    <2>1. CASE GiveBackMmap(t) \/ MmapFails(t) \/ GiveBackFd(t)
      <3>1. allowed' \in [Limiters -> Int]
        BY <2>1 DEF GiveBackMmap, MmapFails, GiveBackFd, Give, ThreadTypes, Limiters
      <3> QED BY <2>1, <3>1 DEF GiveBackMmap, MmapFails, GiveBackFd, Goto,
                                ThreadTypes, KindFits
    <2>2. CASE Release(t)
      BY <2>2 DEF Release, Give, Goto, ThreadTypes, KindFits, Limiters
    <2> QED BY <1>4, <2>1, <2>2
  <1>5. ASSUME NEW t \in Threads, BeginRead(t) \/ EndRead(t)
        PROVE  ThreadTypes' /\ KindFits'
    BY <1>5 DEF BeginRead, EndRead, Goto, ThreadTypes, KindFits
  <1>6. ASSUME NEW t \in Threads, Delete(t)
        PROVE  ThreadTypes' /\ KindFits'
    BY <1>6 DEF Delete, Goto, ThreadTypes, KindFits
  <1> QED BY <1>1, <1>2, <1>3, <1>4, <1>5, <1>6 DEF Next

(* Every step is of one thread, and what it takes from a counter or gives    *)
(* back is what that thread comes to hold or to owe.                         *)
LEMMA OneThreadMoves ==
  ASSUME LimiterConstants, ThreadTypes, KindFits, Next
  PROVE  \E t \in Threads :
           /\ OnlyMoves(t)
           /\ \A l \in Limiters :
                /\ allowed'[l] = allowed[l]
                     + (IF Holds(t, l) THEN 1 ELSE 0) - (IF Holds(t, l)' THEN 1 ELSE 0)
                     + (IF Owes(t, l) THEN 1 ELSE 0) - (IF Owes(t, l)' THEN 1 ELSE 0)
                /\ Holds(t, l)' => Holds(t, l) \/ (allowed[l] > 0 /\ ~Owes(t, l))
  <1> DEFINE Balanced(t) ==
        \A l \in Limiters :
           /\ allowed'[l] = allowed[l]
                + (IF Holds(t, l) THEN 1 ELSE 0) - (IF Holds(t, l)' THEN 1 ELSE 0)
                + (IF Owes(t, l) THEN 1 ELSE 0) - (IF Owes(t, l)' THEN 1 ELSE 0)
           /\ Holds(t, l)' => Holds(t, l) \/ (allowed[l] > 0 /\ ~Owes(t, l))
  <1>1. ASSUME NEW t \in Threads, Open(t) \/ Mmap(t) \/ CloseUnlisted(t)
        PROVE  OnlyMoves(t) /\ Balanced(t)
    BY <1>1 DEF Open, Mmap, CloseUnlisted, Goto, ThreadTypes, KindFits, Limiters,
                OnlyMoves, Holds, Owes
  <1>2. ASSUME NEW t \in Threads, AcquireMmap(t)
        PROVE  OnlyMoves(t) /\ Balanced(t)
    BY <1>2 DEF AcquireMmap, Acquire, Take, Takes, Goto, ThreadTypes, KindFits, Limiters,
                OnlyMoves, Holds, Owes
  <1>3. ASSUME NEW t \in Threads, AcquireFd(t)
        PROVE  OnlyMoves(t) /\ Balanced(t)
    BY <1>3 DEF AcquireFd, Acquire, Take, Takes, Goto, ThreadTypes, KindFits, Limiters,
                OnlyMoves, Holds, Owes
  <1>4. ASSUME NEW t \in Threads, GiveBackMmap(t) \/ MmapFails(t) \/ GiveBackFd(t) \/ Release(t)
        PROVE  OnlyMoves(t) /\ Balanced(t)
    BY <1>4 DEF GiveBackMmap, MmapFails, GiveBackFd, Release, Give, Goto,
                ThreadTypes, KindFits, Limiters, OnlyMoves, Holds, Owes
  <1>5. ASSUME NEW t \in Threads, BeginRead(t) \/ EndRead(t)
        PROVE  OnlyMoves(t) /\ Balanced(t)
    BY <1>5 DEF BeginRead, EndRead, Goto, ThreadTypes, KindFits, Limiters,
                OnlyMoves, Holds, Owes
  <1>6. ASSUME NEW t \in Threads, Delete(t)
        PROVE  OnlyMoves(t) /\ Balanced(t)
    BY <1>6 DEF Delete, Goto, ThreadTypes, KindFits, Limiters, OnlyMoves, Holds, Owes
  <1> QED BY <1>1, <1>2, <1>3, <1>4, <1>5, <1>6 DEF Next

LEMMA LimitStep ==
  ASSUME LimiterConstants, LimitInv, Next
  PROVE  LimitInv'
  <1>1. ThreadTypes' /\ KindFits'
    BY KindStep DEF LimitInv
  <1>2. PICK t \in Threads :
           /\ OnlyMoves(t)
           /\ \A l \in Limiters :
                /\ allowed'[l] = allowed[l]
                     + (IF Holds(t, l) THEN 1 ELSE 0) - (IF Holds(t, l)' THEN 1 ELSE 0)
                     + (IF Owes(t, l) THEN 1 ELSE 0) - (IF Owes(t, l)' THEN 1 ELSE 0)
                /\ Holds(t, l)' => Holds(t, l) \/ (allowed[l] > 0 /\ ~Owes(t, l))
    BY OneThreadMoves DEF LimitInv
  <1>3. ASSUME NEW l \in Limiters
        PROVE  /\ allowed'[l] + Cardinality(Held(l)') + Cardinality(Owing(l)') = Limit(l)
               /\ Cardinality(Held(l)') <= Limit(l)
    <2>1. allowed[l] \in Int /\ Limit(l) \in Nat
      BY DEF LimitInv, ThreadTypes, LimiterConstants, Limit
    <2>2. /\ allowed[l] + Cardinality(Held(l)) + Cardinality(Owing(l)) = Limit(l)
          /\ Cardinality(Held(l)) <= Limit(l)
      BY DEF LimitInv, SlotsAddUp, WithinLimits
    <2>3. /\ Cardinality(Held(l)) \in Nat /\ Cardinality(Owing(l)) \in Nat
          /\ Cardinality(Held(l)') = Cardinality(Held(l))
               - (IF Holds(t, l) THEN 1 ELSE 0) + (IF Holds(t, l)' THEN 1 ELSE 0)
          /\ Cardinality(Owing(l)') = Cardinality(Owing(l))
               - (IF Owes(t, l) THEN 1 ELSE 0) + (IF Owes(t, l)' THEN 1 ELSE 0)
      BY <1>2, SlotsMove
    <2> QED BY <1>2, <2>1, <2>2, <2>3
  <1>4. SlotsAddUp' /\ WithinLimits'
    BY <1>3 DEF SlotsAddUp, WithinLimits, Limit
  <1> QED BY <1>1, <1>4 DEF LimitInv

LEMMA LimitInvKeeps ==
  ASSUME LimiterConstants, LimitInv
  PROVE  LimitsKept
  <1>1. ASSUME NEW l \in Limiters
        PROVE  allowed[l] \in -Cardinality(Threads) .. MaxMmaps + MaxOpenFiles
    <2>1. Limit(l) \in 0 .. MaxMmaps + MaxOpenFiles
      BY DEF Limit, LimiterConstants
    <2>2. /\ Cardinality(Held(l)) \in 0 .. Cardinality(Threads)
          /\ Cardinality(Owing(l)) \in 0 .. Cardinality(Threads)
          /\ Cardinality(Threads) \in Nat
      BY FewThreads
    <2>3. /\ allowed[l] \in Int
          /\ allowed[l] + Cardinality(Held(l)) + Cardinality(Owing(l)) = Limit(l)
          /\ Cardinality(Held(l)) <= Limit(l)
      BY DEF LimitInv, ThreadTypes, SlotsAddUp, WithinLimits
    <2> QED BY <2>1, <2>2, <2>3 DEF LimiterConstants
  <1> QED BY <1>1 DEF LimitInv, ThreadTypes, KindFits, LimitsKept, TypeOK

(* mmap_limiter_ and fd_limiter_ of PosixEnv: never more files mapped, and   *)
(* never more descriptors kept, than the limits say, and no path loses a     *)
(* slot or gives one back twice.                                             *)
THEOREM LimitersKeepLimits ==
  ASSUME LimiterConstants
  PROVE  Spec => []LimitsKept
  <1>1. Init => LimitInv
    BY LimitInit
  <1>2. LimitInv /\ [Next]_vars => LimitInv'
    <2>1. CASE Next
      BY <2>1, LimitStep
    <2>2. CASE UNCHANGED vars
      BY <2>2 DEF vars, LimitInv, ThreadTypes, KindFits, SlotsAddUp, WithinLimits,
                  Held, Holds, Owing, Owes
    <2> QED BY <2>1, <2>2
  <1>3. LimitInv => LimitsKept
    BY LimitInvKeeps
  <1> QED BY <1>1, <1>2, <1>3, PTL DEF Spec

=============================================================================
