--------------------------- MODULE PlayersProofs ----------------------------
(***************************************************************************)
(* The list of players, for any accounts, any number of loads and any      *)
(* changes by other phones.                                                *)
(*                                                                         *)
(* The view model does not know which load an answer belongs to: it empties *)
(* the list when a load starts and appends whatever arrives. That the list *)
(* is the last answer is therefore not inductive by itself; what is: as    *)
(* long as no two loads overlapped, at most one is under way and the list  *)
(* is empty while it is (OneLoad). A database answers with every profile   *)
(* once, and a profile that was written stays, so that what an answer and  *)
(* the list name is still there when it is shown (Listable).               *)
(***************************************************************************)
EXTENDS Players, FiniteSetTheorems, SequenceTheorems, TLAPS

Present == {u \in Users : profiles[u] # "none"}

Call == [served : BOOLEAN, children : Seq(Users)]

PlayersTypes ==
    /\ profiles \in [Users -> {"none", "whole", "bare"}]
    /\ view \in [isLoad : BOOLEAN, showAlert : BOOLEAN, userModelList : Seq(Users),
                 didAppear : BOOLEAN]
    /\ calls \in Seq(Call)
    /\ ghosts \in [overlapped : BOOLEAN, lost : BOOLEAN, empty : BOOLEAN, last : SUBSET Users]
    /\ loads \in Nat
    /\ Len(calls) <= loads /\ (view.didAppear <=> loads > 0)

(* No player twice.                                                         *)
Distinct(s) == \A i, j \in 1..Len(s) : s[i] = s[j] => i = j

(* What names only profiles that are there.                                 *)
Names(s, S) == \A i \in 1..Len(s) : s[i] \in S

(* The answers under way name profiles that are there, each once, and the   *)
(* list names profiles that are there.                                      *)
Listable ==
    /\ Names(view.userModelList, Present)
    /\ \A i \in 1..Len(calls) : Distinct(calls[i].children) /\ Names(calls[i].children, Present)

(* Loads that do not overlap: one at most, and an empty list meanwhile.     *)
OneLoad ==
    ~ghosts.overlapped =>
        /\ Len(calls) <= 1
        /\ calls # <<>> => view.userModelList = <<>>
        /\ Distinct(view.userModelList)

PlayersInv == PlayersTypes /\ Listable /\ OneLoad /\ ListIsLastAnswer /\ SpinnerEndsWithWork

-----------------------------------------------------------------------------
(* Sequences.                                                               *)

LEMMA EmptyQueue ==
    ASSUME NEW S
    PROVE  <<>> \in Seq(S) /\ Len(<<>>) = 0 /\ ToSet(<<>>) = {} /\ Distinct(<<>>) /\ Names(<<>>, S)
  BY DEF ToSet, Distinct, Names

LEMMA QueueElement ==
    ASSUME NEW S, NEW q \in Seq(S), NEW i \in 1..Len(q)
    PROVE  q[i] \in S
  OBVIOUS

LEMMA QueueAdd ==
    ASSUME NEW S, NEW q \in Seq(S), NEW x \in S
    PROVE  /\ Append(q, x) \in Seq(S)
           /\ Len(Append(q, x)) = Len(q) + 1
           /\ Append(q, x) # <<>>
           /\ \A i \in 1..Len(Append(q, x)) :
                 (i \in 1..Len(q) /\ Append(q, x)[i] = q[i]) \/ Append(q, x)[i] = x
  OBVIOUS

LEMMA QueueTake ==
    ASSUME NEW S, NEW q \in Seq(S), q # <<>>
    PROVE  /\ Tail(q) \in Seq(S)
           /\ Len(Tail(q)) = Len(q) - 1
           /\ 1 \in 1..Len(q)
           /\ \A i \in 1..Len(Tail(q)) : i + 1 \in 1..Len(q) /\ Tail(q)[i] = q[i + 1]
  OBVIOUS

LEMMA QueueNone ==
    ASSUME NEW S, NEW q \in Seq(S)
    PROVE  Len(q) = 0 <=> q = <<>>
  OBVIOUS

LEMMA QueueSet ==
    ASSUME NEW S, NEW q \in Seq(S), NEW i \in 1..Len(q), NEW x \in S
    PROVE  /\ [q EXCEPT ![i] = x] \in Seq(S)
           /\ Len([q EXCEPT ![i] = x]) = Len(q)
           /\ \A j \in 1..Len(q) : [q EXCEPT ![i] = x][j] = IF j = i THEN x ELSE q[j]
  OBVIOUS

LEMMA QueueRemove ==
    ASSUME NEW S, NEW q \in Seq(S), NEW i \in 1..Len(q)
    PROVE  /\ RemoveAt(q, i) \in Seq(S)
           /\ Len(RemoveAt(q, i)) = Len(q) - 1
           /\ \A j \in 1..Len(RemoveAt(q, i)) :
                 RemoveAt(q, i)[j] = IF j < i THEN q[j] ELSE q[j + 1]
  <1> DEFINE a == SubSeq(q, 1, i - 1)
             b == SubSeq(q, i + 1, Len(q))
  <1>1. a \in Seq(S) /\ Len(a) = i - 1 /\ \A j \in 1..(i - 1) : a[j] = q[j]
    OBVIOUS
  <1>2. b \in Seq(S) /\ Len(b) = Len(q) - i /\ \A j \in 1..(Len(q) - i) : b[j] = q[i + j]
    OBVIOUS
  <1> HIDE DEF a, b
  <1>3. RemoveAt(q, i) = a \o b
    BY DEF RemoveAt, a, b
  <1>4. a \o b \in Seq(S) /\ Len(a \o b) = Len(q) - 1
    <2>1. a \o b \in Seq(S) /\ Len(a \o b) = Len(a) + Len(b)
      BY <1>1, <1>2, ConcatProperties
    <2> QED BY <2>1, <1>1, <1>2
  <1>5. \A j \in 1..Len(a \o b) : (a \o b)[j] = IF j < i THEN q[j] ELSE q[j + 1]
    <2> TAKE j \in 1..Len(a \o b)
    <2>1. CASE j < i
      BY <2>1, <1>1, <1>2, <1>4
    <2>2. CASE ~(j < i)
      <3>1. (a \o b)[j] = b[j - Len(a)]
        BY <2>2, <1>1, <1>2, <1>4
      <3>2. j - Len(a) \in 1..(Len(q) - i) /\ i + (j - Len(a)) = j + 1
        BY <2>2, <1>1, <1>4
      <3> QED BY <2>2, <3>1, <3>2, <1>2
    <2> QED BY <2>1, <2>2
  <1> QED BY <1>3, <1>4, <1>5

LEMMA QueueJoin ==
    ASSUME NEW S, NEW a \in Seq(S), NEW b \in Seq(S)
    PROVE  /\ a \o b \in Seq(S)
           /\ Len(a \o b) = Len(a) + Len(b)
           /\ \A i \in 1..Len(a \o b) :
                 \/ i \in 1..Len(a) /\ (a \o b)[i] = a[i]
                 \/ i - Len(a) \in 1..Len(b) /\ (a \o b)[i] = b[i - Len(a)]
           /\ a = <<>> => a \o b = b
  OBVIOUS

(* Naming profiles, as sets.                                                *)
LEMMA NamesSet ==
    ASSUME NEW S, NEW T, NEW q \in Seq(S), Names(q, T)
    PROVE  ToSet(q) \subseteq T
  BY DEF Names, ToSet

(* What the database answers: the profiles that are there, each once.       *)
LEMMA AnswerOrder ==
    ASSUME NEW S \in SUBSET Users, NEW s \in SetToSeqs(S)
    PROVE  s \in Seq(Users) /\ Distinct(s) /\ Names(s, S)
  <1>1. IsFiniteSet(S)
    BY PlayersConstants, FS_Subset
  <1>2. Cardinality(S) \in Nat
    BY <1>1, FS_CardinalityType
  <1> DEFINE n == Cardinality(S)
  <1>3. s \in [1..n -> S] /\ \A i, j \in 1..n : i # j => s[i] # s[j]
    BY DEF SetToSeqs
  <1> HIDE DEF n
  <1>4. n \in Nat
    BY <1>2 DEF n
  <1>5. s \in Seq(Users) /\ Len(s) = n
    BY <1>3, <1>4
  <1> QED BY <1>3, <1>5 DEF Distinct, Names

-----------------------------------------------------------------------------
(* What the invariant gives the run.                                        *)
LEMMA PlayersInvGives == PlayersInv => PlayersRight
  <1> SUFFICES ASSUME PlayersInv PROVE PlayersRight
    OBVIOUS
  <1> USE DEF PlayersInv, PlayersTypes
  <1>1. TypeOK
    <2>1. ToSet(view.userModelList) \subseteq Present
      BY NamesSet DEF Listable
    <2> QED BY <2>1 DEF TypeOK, Present
  <1>2. CardsToldApart
    <2> DEFINE list == view.userModelList
    <2> SUFFICES ASSUME NEW i \in 1..Len(list), NEW j \in 1..Len(list), i # j,
                        uuid(list[i]) = uuid(list[j]), ~ghosts.overlapped
                 PROVE  list[i] # list[j] /\ profiles[list[i]] = "bare" /\ profiles[list[j]] = "bare"
      BY DEF CardsToldApart
    <2>1. list[i] # list[j]
      BY DEF OneLoad, Distinct
    <2>2. list[i] \in Present /\ list[j] \in Present
      BY DEF Listable, Names
    <2> HIDE DEF list
    <2> QED BY <2>1, <2>2, PlayersConstants DEF Present, uuid
  <1> QED BY <1>1, <1>2 DEF PlayersRight

-----------------------------------------------------------------------------
LEMMA PlayersInit == Init => PlayersInv
  <1> SUFFICES ASSUME Init PROVE PlayersInv
    OBVIOUS
  <1>1. /\ view.userModelList = <<>> /\ calls = <<>> /\ ghosts.last = {} /\ ~view.isLoad
    BY DEF Init
  <1>2. PlayersTypes
    BY EmptyQueue DEF Init, PlayersTypes
  <1>3. Listable /\ OneLoad
    BY <1>1, EmptyQueue DEF Listable, OneLoad
  <1> QED BY <1>1, <1>2, <1>3, EmptyQueue DEF PlayersInv, ListIsLastAnswer, SpinnerEndsWithWork

(* A load: the list is emptied and one call is added.                       *)
LEMMA LoadStep ==
    ASSUME PlayersInv, NEW v, getAllPlayers(v), UNCHANGED <<profiles, writes>>,
           v = [view EXCEPT !.didAppear = TRUE]
    PROVE  PlayersInv'
  <1> USE DEF PlayersInv
  <1> DEFINE c == [served |-> FALSE, children |-> <<>>]
  <1>0. c \in Call /\ c.children = <<>>
    BY EmptyQueue DEF Call
  <1>1. /\ calls' = Append(calls, c) /\ loads' = loads + 1
        /\ view' = [v EXCEPT !.isLoad = TRUE, !.userModelList = <<>>]
        /\ ghosts' = [ghosts EXCEPT !.overlapped = @ \/ calls # <<>>]
    BY DEF getAllPlayers, Loading
  <1> HIDE DEF c
  <1>2. /\ calls' \in Seq(Call) /\ Len(calls') = Len(calls) + 1 /\ calls' # <<>>
        /\ \A i \in 1..Len(calls') : (i \in 1..Len(calls) /\ calls'[i] = calls[i]) \/ calls'[i] = c
    BY <1>0, <1>1, QueueAdd DEF PlayersTypes
  <1>3. view'.userModelList = <<>>
    BY <1>1 DEF PlayersTypes
  <1>4. PlayersTypes'
    <2>1. /\ view' \in [isLoad : BOOLEAN, showAlert : BOOLEAN, userModelList : Seq(Users),
                        didAppear : BOOLEAN]
          /\ view'.didAppear
      BY <1>1, EmptyQueue DEF PlayersTypes
    <2>2. ghosts' \in [overlapped : BOOLEAN, lost : BOOLEAN, empty : BOOLEAN, last : SUBSET Users]
      BY <1>1 DEF PlayersTypes
    <2>3. loads' \in Nat /\ Len(calls') <= loads' /\ loads' > 0
      BY <1>1, <1>2 DEF PlayersTypes
    <2> QED BY <1>2, <2>1, <2>2, <2>3 DEF PlayersTypes
  <1>5. Present' = Present
    BY DEF Present
  <1>6. Listable'
    BY <1>0, <1>2, <1>3, <1>5, EmptyQueue DEF Listable
  <1>7. OneLoad'
    <2> SUFFICES ASSUME ~ghosts'.overlapped
                 PROVE  Len(calls') <= 1 /\ Distinct(view'.userModelList)
      BY <1>3 DEF OneLoad
    <2>1. calls = <<>>
      BY <1>1 DEF PlayersTypes
    <2> QED BY <2>1, <1>2, <1>3, EmptyQueue
  <1> QED BY <1>2, <1>4, <1>6, <1>7 DEF ListIsLastAnswer, SpinnerEndsWithWork

LEMMA AppearStep == PlayersInv /\ Appear => PlayersInv'
  BY LoadStep DEF Appear

LEMMA RefreshStep == PlayersInv /\ Refresh => PlayersInv'
  <1> SUFFICES ASSUME PlayersInv, Refresh PROVE PlayersInv'
    OBVIOUS
  <1>1. view = [view EXCEPT !.didAppear = TRUE]
    BY DEF Refresh, PlayersInv, PlayersTypes
  <1> QED BY <1>1, LoadStep DEF Refresh

LEMMA DismissStep == PlayersInv /\ DismissAlert => PlayersInv'
  <1> SUFFICES ASSUME PlayersInv, DismissAlert PROVE PlayersInv'
    OBVIOUS
  <1> USE DEF PlayersInv, DismissAlert
  <1>1. PlayersTypes' /\ view'.userModelList = view.userModelList /\ view'.isLoad = view.isLoad
    BY DEF PlayersTypes
  <1>2. Present' = Present
    BY DEF Present
  <1> QED BY <1>1, <1>2 DEF Listable, OneLoad, ListIsLastAnswer, SpinnerEndsWithWork

LEMMA WriteStep == PlayersInv /\ WriteProfile => PlayersInv'
  <1> SUFFICES ASSUME PlayersInv, WriteProfile PROVE PlayersInv'
    OBVIOUS
  <1> USE DEF PlayersInv, WriteProfile
  <1>1. PlayersTypes'
    BY DEF PlayersTypes
  <1>2. Present \subseteq Present'
    BY DEF Present, PlayersTypes
  <1>3. Listable'
    BY <1>2 DEF Listable, Names
  <1> QED BY <1>1, <1>3 DEF OneLoad, ListIsLastAnswer, SpinnerEndsWithWork

LEMMA ServeStep ==
    ASSUME PlayersInv, NEW i \in 1..Len(calls), Serve(i)
    PROVE  PlayersInv'
  <1> USE DEF PlayersInv
  <1>1. PICK s \in SetToSeqs(Present) : calls' = [calls EXCEPT ![i] = [served |-> TRUE, children |-> s]]
    BY DEF Serve, Present
  <1>2. s \in Seq(Users) /\ Distinct(s) /\ Names(s, Present)
    BY AnswerOrder DEF Present
  <1> DEFINE c == [served |-> TRUE, children |-> s]
  <1>3. c \in Call /\ c.children = s
    BY <1>2 DEF Call
  <1> HIDE DEF c
  <1>4. /\ calls' \in Seq(Call) /\ Len(calls') = Len(calls)
        /\ \A j \in 1..Len(calls) : calls'[j] = IF j = i THEN c ELSE calls[j]
    <2>1. calls' = [calls EXCEPT ![i] = c]
      BY <1>1 DEF c
    <2> QED BY <2>1, <1>3, QueueSet DEF PlayersTypes
  <1>5. UNCHANGED <<profiles, view, ghosts, loads, writes>> /\ Present' = Present
    BY DEF Serve, Present
  <1>6. PlayersTypes'
    BY <1>4, <1>5 DEF PlayersTypes
  <1>7. Listable'
    BY <1>2, <1>3, <1>4, <1>5 DEF Listable
  <1>8. calls # <<>> /\ calls' # <<>>
    BY <1>4, EmptyQueue DEF PlayersTypes
  <1> QED BY <1>4, <1>5, <1>6, <1>7, <1>8 DEF OneLoad, ListIsLastAnswer, SpinnerEndsWithWork

LEMMA OnPlayersStep == PlayersInv /\ OnPlayers => PlayersInv'
  <1> SUFFICES ASSUME PlayersInv, OnPlayers PROVE PlayersInv'
    OBVIOUS
  <1> USE DEF PlayersInv
  <1> DEFINE kids == calls[1].children
             list == view.userModelList
  <1>1. /\ calls' \in Seq(Call) /\ Len(calls') = Len(calls) - 1 /\ 1 \in 1..Len(calls)
        /\ \A i \in 1..Len(calls') : i + 1 \in 1..Len(calls) /\ calls'[i] = calls[i + 1]
    BY QueueTake DEF OnPlayers, PlayersTypes
  <1>2. kids \in Seq(Users) /\ list \in Seq(Users)
    <2>1. calls[1] \in Call
      BY <1>1, QueueElement DEF PlayersTypes
    <2> QED BY <2>1 DEF PlayersTypes, Call
  <1>3. /\ view' = [view EXCEPT !.userModelList = list \o kids,
                                !.isLoad = IF kids # <<>> THEN FALSE ELSE @]
        /\ ghosts' = [ghosts EXCEPT !.last = ToSet(kids), !.empty = @ \/ kids = <<>>]
        /\ UNCHANGED <<profiles, loads, writes>> /\ calls # <<>>
    BY DEF OnPlayers, Listed
  <1>4. Distinct(kids) /\ Names(kids, Present)
    BY <1>1 DEF Listable
  <1>5. ToSet(kids) \subseteq Users
    BY <1>2, <1>4, NamesSet DEF Present
  <1> HIDE DEF kids, list
  <1>6. /\ list \o kids \in Seq(Users)
        /\ \A i \in 1..Len(list \o kids) :
              \/ i \in 1..Len(list) /\ (list \o kids)[i] = list[i]
              \/ i - Len(list) \in 1..Len(kids) /\ (list \o kids)[i] = kids[i - Len(list)]
        /\ list = <<>> => list \o kids = kids
    BY <1>2, QueueJoin
  <1>7. view'.userModelList = list \o kids /\ (kids # <<>> => ~view'.isLoad)
    BY <1>3 DEF PlayersTypes
  <1>8. PlayersTypes'
    <2>1. /\ view' \in [isLoad : BOOLEAN, showAlert : BOOLEAN, userModelList : Seq(Users),
                        didAppear : BOOLEAN]
          /\ view'.didAppear = view.didAppear
      BY <1>3, <1>6 DEF PlayersTypes
    <2>2. ghosts' \in [overlapped : BOOLEAN, lost : BOOLEAN, empty : BOOLEAN, last : SUBSET Users]
      BY <1>3, <1>5 DEF PlayersTypes
    <2>3. Len(calls') <= loads'
      BY <1>1, <1>3 DEF PlayersTypes
    <2> QED BY <1>1, <1>3, <2>1, <2>2, <2>3 DEF PlayersTypes
  <1>9. Present' = Present
    BY <1>3 DEF Present
  <1>10. Names(list \o kids, Present)
    BY <1>4, <1>6 DEF Listable, Names, list
  <1>11. Listable'
    BY <1>1, <1>7, <1>9, <1>10 DEF Listable
  <1>12. ~ghosts.overlapped => list = <<>> /\ Len(calls) <= 1
    BY <1>3 DEF OneLoad, list
  <1>13. ghosts'.overlapped = ghosts.overlapped /\ ghosts'.last = ToSet(kids) /\ (kids = <<>> => ghosts'.empty)
    BY <1>3 DEF PlayersTypes
  <1>14. OneLoad'
    <2> SUFFICES ASSUME ~ghosts.overlapped
                 PROVE  /\ Len(calls') <= 1 /\ calls' = <<>>
                        /\ Distinct(view'.userModelList)
      BY <1>13 DEF OneLoad
    <2>1. Len(calls') = 0
      BY <1>1, <1>12 DEF PlayersTypes
    <2>2. calls' = <<>>
      BY <2>1, <1>1, QueueNone
    <2>3. view'.userModelList = kids
      BY <1>6, <1>7, <1>12
    <2> QED BY <2>1, <2>2, <2>3, <1>4
  <1>15. ListIsLastAnswer'
    BY <1>6, <1>7, <1>12, <1>13 DEF ListIsLastAnswer
  <1> QED BY <1>7, <1>8, <1>11, <1>13, <1>14, <1>15 DEF SpinnerEndsWithWork

(* A call that is taken away, refused or lost.                              *)
LEMMA CallRemoved ==
    ASSUME PlayersInv, NEW i \in 1..Len(calls), calls' = RemoveAt(calls, i), profiles' = profiles
    PROVE  /\ calls' \in Seq(Call) /\ Len(calls') = Len(calls) - 1
           /\ Names(view'.userModelList, Present) => Listable'
           /\ ~ghosts.overlapped => calls' = <<>> /\ view.userModelList = <<>>
           /\ Len(calls) \in Nat /\ calls # <<>>
  <1> USE DEF PlayersInv
  <1>1. /\ calls' \in Seq(Call) /\ Len(calls') = Len(calls) - 1
        /\ \A j \in 1..Len(calls') : calls'[j] = IF j < i THEN calls[j] ELSE calls[j + 1]
    BY QueueRemove DEF PlayersTypes
  <1>2. Len(calls) \in Nat /\ calls # <<>>
    BY EmptyQueue DEF PlayersTypes
  <1>3. \A j \in 1..Len(calls') : \E k \in 1..Len(calls) : calls'[j] = calls[k]
    <2> TAKE j \in 1..Len(calls')
    <2>1. CASE j < i
      BY <2>1, <1>1, <1>2
    <2>2. CASE ~(j < i)
      <3>1. j + 1 \in 1..Len(calls)
        BY <1>1, <1>2
      <3> QED BY <3>1, <2>2, <1>1
    <2> QED BY <2>1, <2>2
  <1>4. Present' = Present
    BY DEF Present
  <1>5. Names(view'.userModelList, Present) => Listable'
    BY <1>3, <1>4 DEF Listable
  <1>6. ASSUME ~ghosts.overlapped PROVE calls' = <<>> /\ view.userModelList = <<>>
    <2>1. Len(calls') = 0
      BY <1>1, <1>2, <1>6 DEF OneLoad
    <2> QED BY <2>1, <1>1, <1>2, <1>6, QueueNone DEF OneLoad
  <1> QED BY <1>1, <1>2, <1>5, <1>6

LEMMA FailStep ==
    ASSUME PlayersInv, NEW i \in 1..Len(calls), Fail(i)
    PROVE  PlayersInv'
  <1> USE DEF PlayersInv
  <1>1. /\ calls' = RemoveAt(calls, i) /\ UNCHANGED <<profiles, loads, writes>>
        /\ view' = [view EXCEPT !.isLoad = FALSE, !.userModelList = <<>>, !.showAlert = TRUE]
        /\ ghosts' = [ghosts EXCEPT !.last = {}]
    BY DEF Fail, Refused
  <1>2. view'.userModelList = <<>> /\ ~view'.isLoad
    BY <1>1 DEF PlayersTypes
  <1>3. ghosts'.overlapped = ghosts.overlapped /\ ghosts'.last = {}
    BY <1>1 DEF PlayersTypes
  <1>4. Names(view'.userModelList, Present) /\ Distinct(view'.userModelList) /\ ToSet(view'.userModelList) = {}
    BY <1>2, EmptyQueue
  <1>5. /\ calls' \in Seq(Call) /\ Len(calls') = Len(calls) - 1 /\ Listable' /\ Len(calls) \in Nat
        /\ ~ghosts.overlapped => calls' = <<>>
    BY <1>1, <1>4, CallRemoved
  <1>6. PlayersTypes'
    <2>1. /\ view' \in [isLoad : BOOLEAN, showAlert : BOOLEAN, userModelList : Seq(Users),
                        didAppear : BOOLEAN]
          /\ view'.didAppear = view.didAppear
      BY <1>1, EmptyQueue DEF PlayersTypes
    <2>2. ghosts' \in [overlapped : BOOLEAN, lost : BOOLEAN, empty : BOOLEAN, last : SUBSET Users]
      BY <1>1 DEF PlayersTypes
    <2>3. Len(calls') <= loads'
      BY <1>1, <1>5 DEF PlayersTypes
    <2> QED BY <1>1, <1>5, <2>1, <2>2, <2>3 DEF PlayersTypes
  <1>7. OneLoad'
    BY <1>2, <1>3, <1>4, <1>5, EmptyQueue DEF OneLoad
  <1> QED BY <1>2, <1>3, <1>4, <1>5, <1>6, <1>7 DEF ListIsLastAnswer, SpinnerEndsWithWork

LEMMA LoseStep ==
    ASSUME PlayersInv, NEW i \in 1..Len(calls), Lose(i)
    PROVE  PlayersInv'
  <1> USE DEF PlayersInv
  <1>1. /\ calls' = RemoveAt(calls, i) /\ UNCHANGED <<profiles, view, loads, writes>>
        /\ ghosts' = [ghosts EXCEPT !.lost = TRUE]
    BY DEF Lose
  <1>2. ghosts'.overlapped = ghosts.overlapped /\ ghosts'.lost
    BY <1>1 DEF PlayersTypes
  <1>3. /\ calls' \in Seq(Call) /\ Len(calls') = Len(calls) - 1 /\ Listable' /\ Len(calls) \in Nat
        /\ ~ghosts.overlapped => calls' = <<>>
    BY <1>1, CallRemoved DEF Listable
  <1>4. PlayersTypes'
    <2>1. ghosts' \in [overlapped : BOOLEAN, lost : BOOLEAN, empty : BOOLEAN, last : SUBSET Users]
      BY <1>1 DEF PlayersTypes
    <2>2. Len(calls') <= loads'
      BY <1>1, <1>3 DEF PlayersTypes
    <2> QED BY <1>1, <1>3, <2>1, <2>2 DEF PlayersTypes
  <1>5. OneLoad'
    BY <1>1, <1>2, <1>3, EmptyQueue DEF OneLoad
  <1> QED BY <1>2, <1>3, <1>4, <1>5 DEF ListIsLastAnswer, SpinnerEndsWithWork

-----------------------------------------------------------------------------
(* The list of players keeps what it promises (PlayersRight): its cards can *)
(* be told apart, at rest it is the last answer, and the loading view does  *)
(* not outlive the load, except where the code really has no answer to      *)
(* overlapping loads, lost reads, an empty database and profiles without    *)
(* uuid (PlayersViewModel.getAllPlayers, PlayersView).                      *)
THEOREM PlayersListRight == Spec => []PlayersRight
  <1>1. PlayersInv /\ [Next]_vars => PlayersInv'
    <2> SUFFICES ASSUME PlayersInv, [Next]_vars PROVE PlayersInv'
      OBVIOUS
    <2>1. CASE UNCHANGED vars
      BY <2>1 DEF vars, PlayersInv, PlayersTypes, Listable, OneLoad, Present, ListIsLastAnswer,
                  SpinnerEndsWithWork
    <2>2. CASE \E i \in 1..Len(calls) : Serve(i) \/ Fail(i) \/ Lose(i)
      BY <2>2, ServeStep, FailStep, LoseStep
    <2> QED BY <2>1, <2>2, AppearStep, RefreshStep, DismissStep, WriteStep, OnPlayersStep DEF Next
  <1> QED BY <1>1, PlayersInit, PlayersInvGives, PTL DEF Spec

=============================================================================
