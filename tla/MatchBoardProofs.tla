-------------------------- MODULE MatchBoardProofs --------------------------
(***************************************************************************)
(* What the match screens promise, for any number of phones, users,        *)
(* matches and places, any capacity and any bounds, and through any of the *)
(* failures of MatchBoard.                                                 *)
(*                                                                         *)
(* Types. Every request and every answer is about a match, and what a      *)
(* phone shows was parsed from what the database held.                     *)
(*                                                                         *)
(* Squads. The squad keeps its capacity unless two phones joined it at     *)
(* once. A phone that has found room and has not written yet (Joining) is  *)
(* a promise of one more player. Counting the players alone is therefore   *)
(* not inductive; what is: in a match that was not raced at most one phone *)
(* holds such a promise, and the squad with its player added still fits.   *)
(*                                                                         *)
(* Ghosts. A match without its fields is one that was deleted. The         *)
(* database alone does not say why: what is inductive is that everything   *)
(* on a phone or under way is about matches that have their fields or were *)
(* deleted (Known).                                                        *)
(*                                                                         *)
(* The list. A phone whose loads did not overlap shows every match once.   *)
(* What is inductive: one load at most is under way, and the list is empty *)
(* while it is (OneLoad).                                                  *)
(*                                                                         *)
(* The overlay. The callback that ends a phone's work ends its overlay.    *)
(*                                                                         *)
(* Alone. With one phone and no failures the pitch agrees with the squad   *)
(* and the screens with the database once everything is answered. What is  *)
(* inductive says of every call under way what its callback relies on      *)
(* (AloneInv): the calls an overlay covers do not meet, a chain of         *)
(* leaveMatches that has begun will find and clear its place, and a load   *)
(* that a change of a squad overtook is followed by the answer to that     *)
(* change, which loads again.                                              *)
(***************************************************************************)
EXTENDS MatchBoard, TLAPS, FiniteSetTheorems, SequenceTheorems

-----------------------------------------------------------------------------
(* Queues.                                                                  *)

(* Taking the oldest element of a queue (a served request, a consumed answer). *)
LEMMA QueueTake ==
    ASSUME NEW S, NEW q \in Seq(S), q # <<>>
    PROVE  /\ Head(q) \in S
           /\ Tail(q) \in Seq(S)
           /\ Len(Tail(q)) = Len(q) - 1
           /\ 1 \in 1..Len(q) /\ Head(q) = q[1]
           /\ \A i \in 1..Len(Tail(q)) :
                 i + 1 \in 1..Len(q) /\ Tail(q)[i] = q[i + 1]
  OBVIOUS

(* Adding an element at the end of a queue (a request sent, an answer).      *)
LEMMA QueueAdd ==
    ASSUME NEW S, NEW q \in Seq(S), NEW x \in S
    PROVE  /\ Append(q, x) \in Seq(S)
           /\ Len(Append(q, x)) = Len(q) + 1
           /\ Append(q, x)[Len(q) + 1] = x
           /\ \A i \in 1..Len(Append(q, x)) :
                 \/ i \in 1..Len(q) /\ Append(q, x)[i] = q[i]
                 \/ i = Len(q) + 1 /\ Append(q, x)[i] = x
  OBVIOUS

(* Keeping a prefix of a queue (the requests already sent when an app stops).  *)
LEMMA QueuePrefix ==
    ASSUME NEW S, NEW q \in Seq(S), NEW n \in 0..Len(q)
    PROVE  /\ SubSeq(q, 1, n) \in Seq(S)
           /\ Len(SubSeq(q, 1, n)) = n
           /\ \A i \in 1..n : i \in 1..Len(q) /\ SubSeq(q, 1, n)[i] = q[i]
  OBVIOUS

(* Removing one element of a queue (a read that failed without connection).   *)
LEMMA QueueRemove ==
    ASSUME NEW S, NEW q \in Seq(S), NEW k \in 1..Len(q)
    PROVE  /\ Without(q, k) \in Seq(S)
           /\ Len(Without(q, k)) = Len(q) - 1
           /\ \A i \in 1..Len(Without(q, k)) :
                 \E j \in 1..Len(q) : Without(q, k)[i] = q[j]
  <1> DEFINE a == SubSeq(q, 1, k - 1)
             b == SubSeq(q, k + 1, Len(q))
             r == a \o b
  <1>1. a \in Seq(S) /\ Len(a) = k - 1 /\ \A i \in 1..(k - 1) : a[i] = q[i]
    OBVIOUS
  <1>2. b \in Seq(S) /\ Len(b) = Len(q) - k
        /\ \A i \in 1..(Len(q) - k) : b[i] = q[k + i]
    OBVIOUS
  <1> HIDE DEF a, b
  <1>3. r \in Seq(S) /\ Len(r) = Len(q) - 1
    <2>1. r \in Seq(S) /\ Len(r) = Len(a) + Len(b)
      BY <1>1, <1>2, ConcatProperties
    <2> QED BY <2>1, <1>1, <1>2, LenProperties
  <1>4. ASSUME NEW i \in 1..Len(r) PROVE \E j \in 1..Len(q) : r[i] = q[j]
    <2>1. CASE i <= k - 1
      BY <2>1, <1>1, <1>2, <1>3
    <2>2. CASE i > k - 1
      <3>1. r[i] = b[i - (k - 1)] /\ i - (k - 1) \in 1..(Len(q) - k)
        BY <2>2, <1>1, <1>2, <1>3
      <3>2. r[i] = q[i + 1] /\ i + 1 \in 1..Len(q)
        BY <3>1, <1>2, <2>2
      <3> QED BY <3>2
    <2> QED BY <2>1, <2>2
  <1> QED BY <1>3, <1>4 DEF a, b, Without

(* Two neighbours of a queue change places.                                   *)
LEMMA QueueSwap ==
    ASSUME NEW S, NEW q \in Seq(S), NEW k \in 1..(Len(q) - 1)
    PROVE  /\ Swapped(q, k) \in Seq(S)
           /\ Len(Swapped(q, k)) = Len(q)
           /\ \A i \in 1..Len(Swapped(q, k)) :
                 \E j \in 1..Len(q) : Swapped(q, k)[i] = q[j]
  <1>1. Len(q) \in Nat /\ k \in 1..Len(q) /\ k + 1 \in 1..Len(q)
    OBVIOUS
  <1>2. q[k] \in S /\ q[k + 1] \in S
    BY <1>1, ElementOfSeq
  <1>3. Swapped(q, k) \in Seq(S) /\ Len(Swapped(q, k)) = Len(q)
    BY <1>1, <1>2 DEF Swapped
  <1>4. ASSUME NEW i \in 1..Len(q) PROVE \E j \in 1..Len(q) : Swapped(q, k)[i] = q[j]
    <2>1. i \in DOMAIN q /\ DOMAIN q = 1..Len(q)
      OBVIOUS
    <2> QED BY <1>1, <2>1 DEF Swapped
  <1> QED BY <1>3, <1>4

-----------------------------------------------------------------------------
(* What the operators of MatchStore and the view-model updates return.       *)

(* A path without a value and the node createMatch writes are nodes.         *)
LEMMA EmptyNodeType == EmptyNode \in Node /\ CreatedNode \in Node
  BY DEF EmptyNode, CreatedNode, Node

(* A tree without matches is a tree.                                         *)
LEMMA EmptyStoreType == EmptyStore \in Store
  BY EmptyNodeType DEF EmptyStore, Store

(* init(dictionary:) builds a MatchsModel from whatever a node holds.        *)
LEMMA ParsedType ==
    ASSUME NEW m \in Matches \cup {None}, NEW n \in Node
    PROVE  Parsed(m, n) \in MatchsModel
  BY DEF Parsed, Node, MatchsModel

(* getAllMatchs makes a card, or none, of every child it reads.              *)
LEMMA CardsType ==
    ASSUME NEW store \in Store
    PROVE  CardsOf(store) \in [Matches -> Card]
  BY ParsedType DEF CardsOf, Store, Card

(* The bench of getMatchWithMatchID holds users.                             *)
LEMMA UnselectedType ==
    ASSUME NEW model \in MatchsModel
    PROVE  Unselected(model) \in SUBSET Users
  BY DEF Unselected, MatchsModel

(* A write of a well-formed request leaves a well-formed node.               *)
LEMMA RewrittenType ==
    ASSUME NEW n \in Node, NEW r \in Request
    PROVE  Rewritten(n, r) \in Node
  <1>1. CASE r.kind \in {"join", "leave"}
    BY <1>1 DEF Rewritten, Node, Request, RawRequest
  <1>2. CASE r.kind \in {"place", "vacate", "areaRemove"}
    BY <1>2 DEF Rewritten, Node, Request, RawRequest
  <1>3. CASE r.kind \in {"plan", "comment"}
    BY <1>3 DEF Rewritten, Node, Request, RawRequest
  <1>4. CASE r.kind \in {"create", "delete"}
    BY <1>4, EmptyNodeType DEF Rewritten
  <1>5. CASE r.kind \in ReadKinds
    BY <1>5 DEF Rewritten, ReadKinds
  <1>6. r.kind \in ReadKinds \cup WriteKinds
    BY DEF Request, RawRequest
  <1> QED BY <1>1, <1>2, <1>3, <1>4, <1>5, <1>6 DEF WriteKinds

(* A write that takes effect leaves a well-formed tree.                      *)
LEMMA AppliedType ==
    ASSUME NEW store \in Store, NEW r \in Request
    PROVE  Applied(store, r) \in Store
  BY RewrittenType DEF Applied, Store

(* What a read returns is a well-formed tree.                                *)
LEMMA SnapshotType ==
    ASSUME NEW store \in Store, NEW r \in Request
    PROVE  Snapshot(store, r) \in Store
  <1>1. ASSUME NEW m \in Matches
        PROVE  [EmptyNode EXCEPT !.players = store[m].players] \in Node
    BY EmptyNodeType DEF Store, Node
  <1> QED BY <1>1, EmptyNodeType DEF Snapshot, Store

(* The assignments of the view model's functions keep its type.              *)
LEMMA ViewModelUpdates ==
    /\ NewViewModel \in ViewModel
    /\ \A v \in ViewModel :
         /\ Loading(v) \in ViewModel
         /\ Alerted(v) \in ViewModel
         /\ getAllMatchs(v) \in ViewModel
         /\ [v EXCEPT !.isLoad = FALSE] \in ViewModel
         /\ \A b \in BOOLEAN : [v EXCEPT !.showAlert = b] \in ViewModel
  <1>1. EmptyModel \in MatchsModel
    BY ParsedType, EmptyNodeType DEF EmptyModel
  <1>2. NewViewModel \in ViewModel
    BY <1>1 DEF NewViewModel, ViewModel
  <1>3. ASSUME NEW v \in ViewModel
        PROVE  /\ Loading(v) \in ViewModel
               /\ Alerted(v) \in ViewModel
               /\ [v EXCEPT !.isLoad = FALSE] \in ViewModel
               /\ \A b \in BOOLEAN : [v EXCEPT !.showAlert = b] \in ViewModel
    BY DEF ViewModel, Loading, Alerted
  <1>4. ASSUME NEW v \in ViewModel
        PROVE  getAllMatchs(v) \in ViewModel
    BY EmptySeq DEF ViewModel, getAllMatchs
  <1> QED BY <1>2, <1>3, <1>4

(* The requests the app builds.                                              *)
LEMMA RequestTypes ==
    /\ Req("list", None) \in Request
    /\ \A m \in Matches :
         /\ \A kind \in {"roster", "detail", "delete"} : Req(kind, m) \in Request
         /\ \A u \in Users :
              /\ \A kind \in {"join", "leave", "area"} :
                    [Req(kind, m) EXCEPT !.user = u] \in Request
              /\ \A s \in Slots :
                    [Req("place", m) EXCEPT !.slot = s, !.user = u] \in Request
         /\ \A s \in Slots : \A kind \in {"vacate", "areaRemove"} :
               [Req(kind, m) EXCEPT !.slot = s] \in Request
         /\ \A p \in {"no", "yes"} : [Req("plan", m) EXCEPT !.plan = p] \in Request
         /\ \A a \in Matches : [Req("comment", m) EXCEPT !.about = a] \in Request
         /\ \A v \in Nat : [Req("create", m) EXCEPT !.visit = v] \in Request
  <1> USE DEF Req, Request, RawRequest, ReadKinds, WriteKinds
  <1>1. Req("list", None) \in Request
    OBVIOUS
  <1> SUFFICES ASSUME NEW m \in Matches
      PROVE  /\ \A kind \in {"roster", "detail", "delete"} : Req(kind, m) \in Request
             /\ \A u \in Users :
                  /\ \A kind \in {"join", "leave", "area"} :
                        [Req(kind, m) EXCEPT !.user = u] \in Request
                  /\ \A s \in Slots :
                        [Req("place", m) EXCEPT !.slot = s, !.user = u] \in Request
             /\ \A s \in Slots : \A kind \in {"vacate", "areaRemove"} :
                   [Req(kind, m) EXCEPT !.slot = s] \in Request
             /\ \A p \in {"no", "yes"} : [Req("plan", m) EXCEPT !.plan = p] \in Request
             /\ \A a \in Matches : [Req("comment", m) EXCEPT !.about = a] \in Request
             /\ \A v \in Nat : [Req("create", m) EXCEPT !.visit = v] \in Request
    BY <1>1
  <1>2. \A kind \in {"roster", "detail", "delete"} : Req(kind, m) \in Request
    OBVIOUS
  <1>3. ASSUME NEW u \in Users
        PROVE  /\ \A kind \in {"join", "leave", "area"} :
                     [Req(kind, m) EXCEPT !.user = u] \in Request
               /\ \A s \in Slots :
                     [Req("place", m) EXCEPT !.slot = s, !.user = u] \in Request
    OBVIOUS
  <1>4. \A s \in Slots : \A kind \in {"vacate", "areaRemove"} :
           [Req(kind, m) EXCEPT !.slot = s] \in Request
    OBVIOUS
  <1>5. \A p \in {"no", "yes"} : [Req("plan", m) EXCEPT !.plan = p] \in Request
    OBVIOUS
  <1>6. \A a \in Matches : [Req("comment", m) EXCEPT !.about = a] \in Request
    OBVIOUS
  <1>7. \A v \in Nat : [Req("create", m) EXCEPT !.visit = v] \in Request
    OBVIOUS
  <1> QED BY <1>2, <1>3, <1>4, <1>5, <1>6, <1>7

-----------------------------------------------------------------------------
(* The parts actions are made of keep the types of what they change.         *)

(* Sending a request keeps the type of the queues.                           *)
LEMMA SendType ==
    ASSUME TypeOK, NEW d \in Devices, NEW r \in Request, Send(d, r)
    PROVE  requests' \in [Devices -> Seq(Request)]
  BY QueueAdd DEF TypeOK, Send

(* Answering a request keeps the type of the answers.                        *)
LEMMA AnswerType ==
    ASSUME TypeOK, NEW d \in Devices, NEW r \in Request, NEW ok \in BOOLEAN,
           NEW snap \in Store, Answer(d, r, ok, snap)
    PROVE  replies' \in [Devices -> Seq(Reply)]
  <1>1. [req |-> r, ok |-> ok, snap |-> snap] \in Reply
    BY DEF Reply
  <1> QED BY <1>1, QueueAdd DEF TypeOK, Answer

(* A callback takes a well-formed answer of its own kind.                    *)
LEMMA AnsweredType ==
    ASSUME TypeOK, NEW d \in Devices, NEW kind, Answered(d, kind)
    PROVE  /\ replies' \in [Devices -> Seq(Reply)]
           /\ Head(replies[d]) \in Reply
           /\ Head(replies[d]).req \in Request
           /\ Head(replies[d]).snap \in Store
           /\ Head(replies[d]).req.kind = kind
  <1>1. replies[d] \in Seq(Reply) /\ replies[d] # <<>>
    BY DEF TypeOK, Answered
  <1>2. Head(replies[d]) \in Reply /\ Tail(replies[d]) \in Seq(Reply)
    BY <1>1, QueueTake
  <1>3. replies' \in [Devices -> Seq(Reply)]
    BY <1>2 DEF TypeOK, Answered
  <1> QED BY <1>2, <1>3 DEF Answered, Reply

(* The server takes a well-formed request.                                   *)
LEMMA DequeueType ==
    ASSUME TypeOK, NEW d \in Devices, requests[d] # <<>>
    PROVE  /\ Head(requests[d]) \in Request
           /\ [requests EXCEPT ![d] = Tail(@)] \in [Devices -> Seq(Request)]
  BY QueueTake DEF TypeOK

(* A view model put at its phone.                                            *)
LEMMA ViewModelType ==
    ASSUME TypeOK, NEW d \in Devices, NEW v \in ViewModel
    PROVE  [vm EXCEPT ![d] = v] \in [Devices -> ViewModel]
  BY DEF TypeOK

(* The assignments of CreateMatchViewModel keep its type.                    *)
LEMMA FormUpdates ==
    ASSUME NEW f \in Form
    PROVE  /\ \A b, c \in BOOLEAN : [f EXCEPT !.isLoad = b, !.showAlert = c] \in Form
           /\ \A b \in BOOLEAN : [f EXCEPT !.isLoad = b] \in Form
           /\ \A b \in BOOLEAN : [f EXCEPT !.showAlert = b] \in Form
           /\ f.visit \in Nat
           /\ \A n \in Nat : [visit |-> n, isLoad |-> FALSE, showAlert |-> FALSE] \in Form
  BY DEF Form

(* A form put at its phone.                                                  *)
LEMMA FormType ==
    ASSUME TypeOK, NEW d \in Devices
    PROVE  /\ form[d] \in Form
           /\ \A f \in Form : [form EXCEPT ![d] = f] \in [Devices -> Form]
  BY DEF TypeOK

(* The updates of a view model, at its phone.                                *)
LEMMA ViewModelSteps ==
    ASSUME TypeOK, NEW d \in Devices
    PROVE  /\ [vm EXCEPT ![d] = Loading(@)] \in [Devices -> ViewModel]
           /\ [vm EXCEPT ![d] = Alerted(@)] \in [Devices -> ViewModel]
           /\ [vm EXCEPT ![d] = getAllMatchs(@)] \in [Devices -> ViewModel]
           /\ [vm EXCEPT ![d].isLoad = FALSE] \in [Devices -> ViewModel]
           /\ [vm EXCEPT ![d].showAlert = TRUE] \in [Devices -> ViewModel]
           /\ [vm EXCEPT ![d].showAlert = FALSE] \in [Devices -> ViewModel]
  <1>1. vm[d] \in ViewModel
    BY DEF TypeOK
  <1>2. /\ Loading(vm[d]) \in ViewModel /\ Alerted(vm[d]) \in ViewModel
        /\ getAllMatchs(vm[d]) \in ViewModel
        /\ [vm[d] EXCEPT !.isLoad = FALSE] \in ViewModel
        /\ [vm[d] EXCEPT !.showAlert = TRUE] \in ViewModel
        /\ [vm[d] EXCEPT !.showAlert = FALSE] \in ViewModel
    BY <1>1, ViewModelUpdates
  <1> QED BY <1>2, ViewModelType

(* What a gesture counts and notes.                                          *)
LEMMA TouchType ==
    ASSUME TypeOK, NEW d \in Devices, NEW g, Touch(d, g)
    PROVE  taps' \in [Devices -> Nat]
  BY DEF TypeOK, Touch

(* What a gesture on the content counts and notes.                           *)
LEMMA TapType ==
    ASSUME TypeOK, NEW d \in Devices, NEW g, Tap(d, g)
    PROVE  taps' \in [Devices -> Nat] /\ slipped' \subseteq Devices
  BY TouchType DEF TypeOK, Tap

(* An app that stops leaves every part of its phone well-formed.             *)
LEMMA StopsType ==
    ASSUME TypeOK, NEW d \in Devices, NEW how \in {"off", "crashed"}, Stops(d, how)
    PROVE  /\ app' \in [Devices -> {"off", "on", "crashed"}]
           /\ screen' \in [Devices -> Matches \cup {"list", "create"}]
           /\ vm' \in [Devices -> ViewModel]
           /\ form' \in [Devices -> Form]
           /\ requests' \in [Devices -> Seq(Request)]
           /\ replies' \in [Devices -> Seq(Reply)]
  <1>1. form' \in [Devices -> Form]
    BY FormType, FormUpdates DEF Stops
  <1>2. requests' \in [Devices -> Seq(Request)]
    BY QueuePrefix DEF TypeOK, Stops
  <1>3. replies' \in [Devices -> Seq(Reply)]
    BY EmptySeq DEF TypeOK, Stops
  <1>4. vm' \in [Devices -> ViewModel]
    BY ViewModelUpdates, ViewModelType DEF Stops
  <1> QED BY <1>1, <1>2, <1>3, <1>4 DEF TypeOK, Stops

(* The cards on the list screen and the selected match, as the view models    *)
(* hold them.                                                                *)
LEMMA ShownCardsType ==
    ASSUME TypeOK, NEW d \in Devices
    PROVE  /\ ShownCards(d) \subseteq MatchsModel
           /\ vm[d] \in ViewModel
           /\ vm[d].selectedMatch \in MatchsModel
           /\ \A card \in MatchsModel : card.matchID # None => card.matchID \in Matches
  <1>1. vm[d] \in ViewModel
    BY DEF TypeOK
  <1>2. vm[d].matchsModelList \in Seq([Matches -> Card])
    BY <1>1 DEF ViewModel
  <1>3. ASSUME NEW i \in 1..Len(vm[d].matchsModelList), NEW m \in Matches
        PROVE  vm[d].matchsModelList[i][m] \in Card
    BY <1>2, ElementOfSeq
  <1>4. ShownCards(d) \subseteq MatchsModel
    BY <1>3 DEF ShownCards, Card
  <1>5. vm[d].selectedMatch \in MatchsModel
    BY <1>1 DEF ViewModel
  <1> QED BY <1>1, <1>4, <1>5 DEF MatchsModel

-----------------------------------------------------------------------------
(* The two ways most callbacks end.                                           *)
LEMMA ThenAllMatchsType ==
    ASSUME TypeOK, NEW d \in Devices, NEW v \in ViewModel, ThenAllMatchs(d, v)
    PROVE  /\ vm' \in [Devices -> ViewModel]
           /\ requests' \in [Devices -> Seq(Request)]
           /\ overlapped' \subseteq Devices
  <1>1. vm' \in [Devices -> ViewModel]
    BY ViewModelUpdates, ViewModelType DEF ThenAllMatchs
  <1>2. requests' \in [Devices -> Seq(Request)]
    BY SendType, RequestTypes DEF ThenAllMatchs
  <1> QED BY <1>1, <1>2 DEF ThenAllMatchs, NotesListLoad, TypeOK

(* A callback that ends with the alert.                                      *)
LEMMA ThenAlertType ==
    ASSUME TypeOK, NEW d \in Devices, ThenAlert(d)
    PROVE  /\ vm' \in [Devices -> ViewModel]
           /\ requests' \in [Devices -> Seq(Request)]
           /\ overlapped' \subseteq Devices
  BY ViewModelSteps DEF ThenAlert, TypeOK

(* A request of one of these kinds names a match.                             *)
LEMMA RequestMatch ==
    ASSUME NEW r \in Request, r.kind # "list"
    PROVE  r.match \in Matches
  BY DEF Request

(* A write at the head of the queue takes effect on a well-formed tree.      *)
LEMMA CommitType ==
    ASSUME TypeOK, NEW d \in Devices, Commit(d)
    PROVE  db' \in Store /\ deleted' \subseteq Matches
  <1>1. Head(requests[d]) \in Request
    BY DequeueType DEF Commit
  <1>2. Head(requests[d]).match \in Matches
    BY <1>1, RequestMatch DEF Commit, WriteKinds
  <1> QED BY <1>1, <1>2, AppliedType DEF Commit, TypeOK

(* One step of the system keeps every type.                                   *)
LEMMA TypeStep ==
    ASSUME TypeOK, [Next]_vars PROVE TypeOK'
  <1>stutter. CASE UNCHANGED vars
    BY <1>stutter DEF TypeOK, vars, histVars
  <1>Launch. ASSUME NEW d \in Devices, Launch(d) PROVE TypeOK'
    <2>1. requests' \in [Devices -> Seq(Request)]
      BY <1>Launch, SendType, RequestTypes DEF Launch
    <2>2. vm' \in [Devices -> ViewModel]
      BY <1>Launch, ViewModelUpdates, ViewModelType DEF Launch
    <2> QED BY <1>Launch, <2>1, <2>2 DEF Launch, TypeOK, NotesListLoad
  <1>Refresh. ASSUME NEW d \in Devices, Refresh(d) PROVE TypeOK'
    <2>1. requests' \in [Devices -> Seq(Request)]
      BY <1>Refresh, SendType, RequestTypes DEF Refresh
    <2>2. vm' \in [Devices -> ViewModel]
      BY <1>Refresh, ViewModelSteps DEF Refresh
    <2> QED BY <1>Refresh, <2>1, <2>2 DEF Refresh, TypeOK, Touch, NotesListLoad
  <1>OpenDetail. ASSUME NEW d \in Devices, OpenDetail(d) PROVE TypeOK'
    <2>0. UNCHANGED <<db, minted, played, faults, deleted, raced, overlapped>>
          /\ taps' \in [Devices -> Nat] /\ slipped' \subseteq Devices
      BY <1>OpenDetail, TapType DEF OpenDetail, netHist
    <2>1. PICK card \in ShownCards(d) :
             \/ /\ card.matchID # None
                /\ screen' = [screen EXCEPT ![d] = card.matchID]
                /\ vm' = [vm EXCEPT ![d] = Loading(@)]
                /\ Send(d, Req("detail", card.matchID))
                /\ UNCHANGED <<app, form, replies>>
             \/ card.matchID = None /\ Stops(d, "crashed")
      BY <1>OpenDetail DEF OpenDetail
    <2>2. card \in MatchsModel
      BY ShownCardsType
    <2>3. CASE Stops(d, "crashed")
      BY <2>0, <2>3, StopsType DEF TypeOK
    <2>4. CASE ~Stops(d, "crashed")
      <3>1. card.matchID \in Matches
        BY <2>1, <2>2, <2>4, ShownCardsType
      <3>2. requests' \in [Devices -> Seq(Request)]
        BY <2>1, <2>4, <3>1, SendType, RequestTypes
      <3>3. vm' = [vm EXCEPT ![d] = Loading(@)]
        BY <2>1, <2>4
      <3>4. vm' \in [Devices -> ViewModel]
        BY <3>3, ViewModelSteps
      <3> QED BY <2>0, <2>1, <2>4, <3>1, <3>2, <3>4 DEF TypeOK
    <2> QED BY <2>3, <2>4
  <1>Reappear. ASSUME NEW d \in Devices, Reappear(d) PROVE TypeOK'
    <2>1. requests' \in [Devices -> Seq(Request)]
      BY <1>Reappear, SendType, RequestTypes DEF Reappear, OnDetail
    <2>2. vm' \in [Devices -> ViewModel]
      BY <1>Reappear, ViewModelSteps DEF Reappear
    <2> QED BY <1>Reappear, <2>1, <2>2 DEF Reappear, Touch, histVars, TypeOK
  <1>Back. ASSUME NEW d \in Devices, Back(d) PROVE TypeOK'
    BY <1>Back DEF Back, histVars, TypeOK
  <1>DismissAlert. ASSUME NEW d \in Devices, DismissAlert(d) PROVE TypeOK'
    <2>1. CASE vm' = [vm EXCEPT ![d].showAlert = FALSE] /\ UNCHANGED form
      <3>1. vm' \in [Devices -> ViewModel]
        BY <2>1, ViewModelSteps
      <3> QED BY <1>DismissAlert, <2>1, <3>1 DEF DismissAlert, histVars, TypeOK
    <2>2. CASE form' = [form EXCEPT ![d].showAlert = FALSE] /\ UNCHANGED vm
      <3>1. [form[d] EXCEPT !.showAlert = FALSE] \in Form
        BY FormType, FormUpdates
      <3>2. form' \in [Devices -> Form]
        BY <2>2, <3>1, FormType
      <3> QED BY <1>DismissAlert, <2>2, <3>2 DEF DismissAlert, histVars, TypeOK
    <2> QED BY <1>DismissAlert, <2>1, <2>2 DEF DismissAlert
  <1>joinMatches. ASSUME NEW d \in Devices, joinMatches(d) PROVE TypeOK'
    <2>1. PICK card \in ShownCards(d) :
             /\ card.matchID # None
             /\ Send(d, Req("roster", card.matchID))
      BY <1>joinMatches DEF joinMatches, CanStillJoin
    <2>2. card.matchID \in Matches
      BY <2>1, ShownCardsType
    <2>3. requests' \in [Devices -> Seq(Request)]
      BY <2>1, <2>2, SendType, RequestTypes
    <2>4. vm' \in [Devices -> ViewModel]
      BY <1>joinMatches, ViewModelSteps DEF joinMatches
    <2> QED BY <1>joinMatches, <2>3, <2>4 DEF joinMatches, Tap, Touch, netHist, TypeOK
  <1>leaveMatches. ASSUME NEW d \in Devices, leaveMatches(d) PROVE TypeOK'
    <2>1. PICK card \in ShownCards(d) :
             /\ card.matchID # None
             /\ Send(d, [Req("leave", card.matchID) EXCEPT !.user = Owner[d]])
      BY <1>leaveMatches DEF leaveMatches, CanStillJoin
    <2>2. card.matchID \in Matches
      BY <2>1, ShownCardsType
    <2>3. requests' \in [Devices -> Seq(Request)]
      BY <2>1, <2>2, SendType, RequestTypes, OwnerType
    <2>4. vm' \in [Devices -> ViewModel]
      BY <1>leaveMatches, ViewModelSteps DEF leaveMatches
    <2> QED BY <1>leaveMatches, <2>3, <2>4 DEF leaveMatches, Tap, Touch, netHist, TypeOK
  <1>deleteMatches. ASSUME NEW d \in Devices, deleteMatches(d) PROVE TypeOK'
    <2>0. UNCHANGED <<db, minted, played, faults, deleted, raced, overlapped>>
          /\ taps' \in [Devices -> Nat] /\ slipped' \subseteq Devices
      BY <1>deleteMatches, TapType DEF deleteMatches, netHist
    <2>1. PICK card \in ShownCards(d) :
             \/ /\ card.matchID # None
                /\ vm' = [vm EXCEPT ![d] = Loading(@)]
                /\ Send(d, Req("delete", card.matchID))
                /\ UNCHANGED <<app, screen, form, replies>>
             \/ card.matchID = None /\ Stops(d, "crashed")
      BY <1>deleteMatches DEF deleteMatches
    <2>2. CASE Stops(d, "crashed")
      BY <2>0, <2>2, StopsType DEF TypeOK
    <2>3. CASE ~Stops(d, "crashed")
      <3>1. card.matchID \in Matches
        BY <2>1, <2>3, ShownCardsType
      <3>2. requests' \in [Devices -> Seq(Request)]
        BY <2>1, <2>3, <3>1, SendType, RequestTypes
      <3>3. vm' \in [Devices -> ViewModel]
        BY <2>1, <2>3, ViewModelSteps
      <3> QED BY <2>0, <2>1, <2>3, <3>2, <3>3 DEF TypeOK
    <2> QED BY <2>2, <2>3
  <1>setPlayerPositionWithMatch. ASSUME NEW d \in Devices, setPlayerPositionWithMatch(d) PROVE TypeOK'
    <2>0. UNCHANGED <<db, minted, played, faults, deleted, raced, overlapped>>
          /\ taps' \in [Devices -> Nat] /\ slipped' \subseteq Devices
      BY <1>setPlayerPositionWithMatch, TapType DEF setPlayerPositionWithMatch, netHist
    <2> DEFINE id == vm[d].selectedMatch.matchID
    <2>1. PICK u \in vm[d].unselectedPlayer, s \in Slots :
             \/ /\ id # None
                /\ vm' = [vm EXCEPT ![d] = Loading(@)]
                /\ Send(d, [Req("place", id) EXCEPT !.slot = s, !.user = u])
                /\ UNCHANGED <<app, screen, form, replies>>
             \/ Stops(d, "crashed")
      BY <1>setPlayerPositionWithMatch DEF setPlayerPositionWithMatch
    <2>2. CASE Stops(d, "crashed")
      BY <2>0, <2>2, StopsType DEF TypeOK
    <2>3. CASE ~Stops(d, "crashed")
      <3>1. id \in Matches
        BY <2>1, <2>3, ShownCardsType
      <3>2. u \in Users
        BY <2>1, ShownCardsType DEF ViewModel
      <3>3. requests' \in [Devices -> Seq(Request)]
        BY <2>1, <2>3, <3>1, <3>2, SendType, RequestTypes
      <3>4. vm' \in [Devices -> ViewModel]
        BY <2>1, <2>3, ViewModelSteps
      <3> QED BY <2>0, <2>1, <2>3, <3>3, <3>4 DEF TypeOK
    <2> QED BY <2>2, <2>3
  <1>deletePlayerPositionWithMatch. ASSUME NEW d \in Devices, deletePlayerPositionWithMatch(d) PROVE TypeOK'
    <2>1. requests' \in [Devices -> Seq(Request)]
      BY <1>deletePlayerPositionWithMatch, SendType, RequestTypes
      DEF deletePlayerPositionWithMatch, OnDetail
    <2>2. vm' \in [Devices -> ViewModel]
      BY <1>deletePlayerPositionWithMatch, ViewModelSteps
      DEF deletePlayerPositionWithMatch
    <2> QED BY <1>deletePlayerPositionWithMatch, <2>1, <2>2
            DEF deletePlayerPositionWithMatch, Tap, Touch, netHist, TypeOK
  <1>setIsPlanningCompleteForMatch. ASSUME NEW d \in Devices, setIsPlanningCompleteForMatch(d) PROVE TypeOK'
    <2>1. requests' \in [Devices -> Seq(Request)]
      BY <1>setIsPlanningCompleteForMatch, SendType, RequestTypes
      DEF setIsPlanningCompleteForMatch, OnDetail
    <2>2. vm' \in [Devices -> ViewModel]
      BY <1>setIsPlanningCompleteForMatch, ViewModelSteps
      DEF setIsPlanningCompleteForMatch
    <2> QED BY <1>setIsPlanningCompleteForMatch, <2>1, <2>2
            DEF setIsPlanningCompleteForMatch, Touch, histVars, TypeOK
  <1>addComment. ASSUME NEW d \in Devices, addComment(d) PROVE TypeOK'
    <2>0. UNCHANGED <<db, minted, played, faults, deleted, raced, overlapped>>
          /\ taps' \in [Devices -> Nat] /\ slipped' \subseteq Devices
      BY <1>addComment, TapType DEF addComment, netHist
    <2> DEFINE id == vm[d].selectedMatch.matchID
    <2>1. CASE Stops(d, "crashed")
      BY <2>0, <2>1, StopsType DEF TypeOK
    <2>2. CASE ~Stops(d, "crashed")
      <3>1. id \in Matches /\ screen[d] \in Matches
        BY <1>addComment, <2>2, ShownCardsType DEF addComment, OnDetail
      <3>2. Send(d, [Req("comment", id) EXCEPT !.about = screen[d]])
        BY <1>addComment, <2>2 DEF addComment
      <3>3. requests' \in [Devices -> Seq(Request)]
        BY <3>1, <3>2, SendType, RequestTypes
      <3>4. vm' \in [Devices -> ViewModel]
        BY <1>addComment, <2>2, ViewModelSteps
        DEF addComment
      <3> QED BY <1>addComment, <2>0, <2>2, <3>3, <3>4 DEF addComment, TypeOK
    <2> QED BY <2>1, <2>2
  <1>OpenCreate. ASSUME NEW d \in Devices, OpenCreate(d) PROVE TypeOK'
    <2>1. form[d].visit + 1 \in Nat
      BY FormType DEF Form
    <2>2. [visit |-> form[d].visit + 1, isLoad |-> FALSE, showAlert |-> FALSE] \in Form
      BY <2>1, FormType, FormUpdates
    <2>3. form' \in [Devices -> Form]
      BY <1>OpenCreate, <2>2, FormType DEF OpenCreate
    <2> QED BY <1>OpenCreate, <2>3 DEF OpenCreate, Touch, histVars, TypeOK
  <1>createMatch. ASSUME NEW d \in Devices, createMatch(d) PROVE TypeOK'
    <2>1. form' \in [Devices -> Form] /\ form[d].visit \in Nat
      BY <1>createMatch, FormType, FormUpdates DEF createMatch
    <2>2. PICK m \in Matches \ minted :
             /\ minted' = minted \cup {m}
             /\ Send(d, [Req("create", m) EXCEPT !.visit = form[d].visit])
      BY <1>createMatch DEF createMatch
    <2>3. requests' \in [Devices -> Seq(Request)]
      BY <2>1, <2>2, SendType, RequestTypes
    <2> QED BY <1>createMatch, <2>1, <2>2, <2>3
            DEF createMatch, Touch, histVars, TypeOK
  <1>OnAllMatchs. ASSUME NEW d \in Devices, OnAllMatchs(d) PROVE TypeOK'
    <2> DEFINE a == Head(replies[d])
    <2>1. a \in Reply /\ a.snap \in Store /\ replies' \in [Devices -> Seq(Reply)]
      BY <1>OnAllMatchs, AnsweredType DEF OnAllMatchs
    <2>2. vm[d] \in ViewModel
      BY ShownCardsType
    <2>3. Listed(vm[d], a.snap) \in ViewModel
      <3>1. CardsOf(a.snap) \in [Matches -> Card]
        BY <2>1, CardsType
      <3>2. vm[d].matchsModelList \in Seq([Matches -> Card])
        BY <2>2 DEF ViewModel
      <3>3. Append(vm[d].matchsModelList, CardsOf(a.snap)) \in Seq([Matches -> Card])
        BY <3>1, <3>2, QueueAdd
      <3> HIDE DEF a
      <3> QED BY <2>2, <3>3 DEF ViewModel, Listed
    <2>4. [Alerted(vm[d]) EXCEPT !.matchsModelList = <<>>] \in ViewModel
      <3>1. Alerted(vm[d]) \in ViewModel
        BY <2>2, ViewModelUpdates
      <3> QED BY <3>1, EmptySeq DEF ViewModel
    <2>5. vm' \in [Devices -> ViewModel]
      <3> HIDE DEF a
      <3>1. CASE vm' = [vm EXCEPT ![d] = [Alerted(@) EXCEPT !.matchsModelList = <<>>]]
        BY <2>4, <3>1, ViewModelType
      <3>2. CASE UNCHANGED vm
        BY <3>2 DEF TypeOK
      <3>3. CASE vm' = [vm EXCEPT ![d] = Listed(@, a.snap)]
        BY <2>3, <3>3, ViewModelType
      <3> QED BY <1>OnAllMatchs, <3>1, <3>2, <3>3 DEF OnAllMatchs, a
    <2> QED BY <1>OnAllMatchs, <2>1, <2>5 DEF OnAllMatchs, callbackUnchanged, TypeOK
  <1>OnRoster. ASSUME NEW d \in Devices, OnRoster(d) PROVE TypeOK'
    <2> DEFINE a == Head(replies[d])
    <2>1. /\ a \in Reply /\ a.req \in Request /\ a.req.kind = "roster"
          /\ replies' \in [Devices -> Seq(Reply)]
      BY <1>OnRoster, AnsweredType DEF OnRoster
    <2>2. a.req.match \in Matches
      BY <2>1, RequestMatch
    <2>3. /\ vm' \in [Devices -> ViewModel]
          /\ requests' \in [Devices -> Seq(Request)]
          /\ overlapped' \subseteq Devices
      <3>1. CASE vm' = [vm EXCEPT ![d].showAlert = TRUE] /\ UNCHANGED <<requests, overlapped>>
        BY <3>1, ViewModelSteps DEF TypeOK
      <3>2. CASE /\ Send(d, [Req("join", a.req.match) EXCEPT !.user = Owner[d]])
                 /\ UNCHANGED <<vm, overlapped>>
        BY <3>2, <2>2, SendType, RequestTypes, OwnerType DEF TypeOK
      <3>3. CASE ThenAlert(d)
        BY <3>3, ThenAlertType
      <3> QED BY <1>OnRoster, <3>1, <3>2, <3>3 DEF OnRoster
    <2> QED BY <1>OnRoster, <2>1, <2>3 DEF OnRoster, callbackUnchanged, TypeOK
  <1>OnJoined. ASSUME NEW d \in Devices, OnJoined(d) PROVE TypeOK'
    <2>1. replies' \in [Devices -> Seq(Reply)]
      BY <1>OnJoined, AnsweredType DEF OnJoined
    <2>2. PICK b \in BOOLEAN : ThenAllMatchs(d, [vm[d] EXCEPT !.showAlert = b])
      BY <1>OnJoined, ShownCardsType DEF OnJoined, ViewModel
    <2>3. [vm[d] EXCEPT !.showAlert = b] \in ViewModel
      BY ShownCardsType, ViewModelUpdates
    <2>4. /\ vm' \in [Devices -> ViewModel]
          /\ requests' \in [Devices -> Seq(Request)]
          /\ overlapped' \subseteq Devices
      BY <2>2, <2>3, ThenAllMatchsType
    <2> QED BY <1>OnJoined, <2>1, <2>4 DEF OnJoined, callbackUnchanged, TypeOK
  <1>OnLeft. ASSUME NEW d \in Devices, OnLeft(d) PROVE TypeOK'
    <2> DEFINE a == Head(replies[d])
    <2>1. /\ a \in Reply /\ a.req \in Request /\ a.req.kind = "leave"
          /\ replies' \in [Devices -> Seq(Reply)]
      BY <1>OnLeft, AnsweredType DEF OnLeft
    <2>2. a.req.match \in Matches /\ a.req.user \in Users
      BY <2>1, RequestMatch DEF Request
    <2>3. /\ vm' \in [Devices -> ViewModel]
          /\ requests' \in [Devices -> Seq(Request)]
          /\ overlapped' \subseteq Devices
      <3>1. CASE /\ vm' = [vm EXCEPT ![d] = Loading(@)]
                 /\ Send(d, [Req("area", a.req.match) EXCEPT !.user = a.req.user])
                 /\ UNCHANGED overlapped
        <4>1. requests' \in [Devices -> Seq(Request)]
          BY <3>1, <2>2, SendType, RequestTypes
        <4> QED BY <3>1, <4>1, ViewModelSteps DEF TypeOK
      <3>2. CASE ThenAlert(d)
        BY <3>2, ThenAlertType
      <3> QED BY <1>OnLeft, <3>1, <3>2 DEF OnLeft
    <2> QED BY <1>OnLeft, <2>1, <2>3 DEF OnLeft, callbackUnchanged, TypeOK
  <1>OnArea. ASSUME NEW d \in Devices, OnArea(d) PROVE TypeOK'
    <2> DEFINE a == Head(replies[d])
    <2>1. /\ a \in Reply /\ a.req \in Request /\ a.req.kind = "area"
          /\ replies' \in [Devices -> Seq(Reply)]
      BY Zenon, <1>OnArea, AnsweredType DEF OnArea
    <2>2. a.req.match \in Matches
      BY <2>1, RequestMatch
    <2>3. /\ vm' \in [Devices -> ViewModel]
          /\ requests' \in [Devices -> Seq(Request)]
          /\ overlapped' \subseteq Devices
      <3>1. CASE /\ vm' = [vm EXCEPT ![d] = Loading(@)]
                 /\ \E s \in Slots :
                      Send(d, [Req("areaRemove", a.req.match) EXCEPT !.slot = s])
                 /\ UNCHANGED overlapped
        <4>1. requests' \in [Devices -> Seq(Request)]
          BY <3>1, <2>2, SendType, RequestTypes
        <4> QED BY <3>1, <4>1, ViewModelSteps DEF TypeOK
      <3>2. CASE ThenAlert(d)
        BY <3>2, ThenAlertType
      <3>3. CASE ThenAllMatchs(d, vm[d])
        BY <3>3, ShownCardsType, ThenAllMatchsType
      <3> QED BY Zenon, <1>OnArea, <3>1, <3>2, <3>3 DEF OnArea
    <2> QED BY Zenon, <1>OnArea, <2>1, <2>3 DEF OnArea, callbackUnchanged, TypeOK
  <1>OnAreaRemoved. ASSUME NEW d \in Devices, OnAreaRemoved(d) PROVE TypeOK'
    <2>1. replies' \in [Devices -> Seq(Reply)]
      BY <1>OnAreaRemoved, AnsweredType DEF OnAreaRemoved
    <2>2. /\ vm' \in [Devices -> ViewModel]
          /\ requests' \in [Devices -> Seq(Request)]
          /\ overlapped' \subseteq Devices
      BY <1>OnAreaRemoved, ShownCardsType, ThenAllMatchsType, ThenAlertType DEF OnAreaRemoved
    <2> QED BY <1>OnAreaRemoved, <2>1, <2>2 DEF OnAreaRemoved, callbackUnchanged, TypeOK
  <1>OnDeleted. ASSUME NEW d \in Devices, OnDeleted(d) PROVE TypeOK'
    <2>1. replies' \in [Devices -> Seq(Reply)]
      BY <1>OnDeleted, AnsweredType DEF OnDeleted
    <2>2. /\ vm' \in [Devices -> ViewModel]
          /\ requests' \in [Devices -> Seq(Request)]
          /\ overlapped' \subseteq Devices
      BY <1>OnDeleted, ShownCardsType, ThenAllMatchsType, ThenAlertType DEF OnDeleted
    <2> QED BY <1>OnDeleted, <2>1, <2>2 DEF OnDeleted, callbackUnchanged, TypeOK
  <1>OnPositionWritten. ASSUME NEW d \in Devices, OnPositionWritten(d) PROVE TypeOK'
    <2> DEFINE a == Head(replies[d])
    <2>1. /\ a \in Reply /\ a.req \in Request /\ a.req.kind \in {"place", "vacate"}
          /\ replies' \in [Devices -> Seq(Reply)]
      BY <1>OnPositionWritten, AnsweredType DEF OnPositionWritten
    <2>2. a.req.match \in Matches
      BY <2>1, RequestMatch
    <2>3. /\ vm' \in [Devices -> ViewModel]
          /\ requests' \in [Devices -> Seq(Request)]
          /\ overlapped' \subseteq Devices
      <3>1. CASE /\ Send(d, Req("detail", a.req.match))
                 /\ vm' = [vm EXCEPT ![d].isLoad = FALSE]
                 /\ UNCHANGED overlapped
        <4>1. requests' \in [Devices -> Seq(Request)]
          BY <3>1, <2>2, SendType, RequestTypes
        <4> QED BY <3>1, <4>1, ViewModelSteps DEF TypeOK
      <3>2. CASE ThenAlert(d)
        BY <3>2, ThenAlertType
      <3> QED BY <1>OnPositionWritten, <3>1, <3>2 DEF OnPositionWritten
    <2> QED BY <1>OnPositionWritten, <2>1, <2>3
            DEF OnPositionWritten, callbackUnchanged, TypeOK
  <1>OnMatch. ASSUME NEW d \in Devices, OnMatch(d) PROVE TypeOK'
    <2> DEFINE a == Head(replies[d])
               model == Parsed(a.req.match, a.snap[a.req.match])
    <2>1. /\ a \in Reply /\ a.req \in Request /\ a.req.kind = "detail"
          /\ a.snap \in Store
          /\ replies' \in [Devices -> Seq(Reply)]
      BY <1>OnMatch, AnsweredType DEF OnMatch
    <2>2. a.req.match \in Matches
      BY <2>1, RequestMatch
    <2>3. model \in MatchsModel /\ Unselected(model) \in SUBSET Users
      BY <2>1, <2>2, ParsedType, UnselectedType DEF Store
    <2>4. vm[d] \in ViewModel
      BY ShownCardsType
    <2>5. [vm[d] EXCEPT !.isLoad = FALSE, !.selectedMatch = model,
                        !.unselectedPlayer = Unselected(model)] \in ViewModel
      <3> HIDE DEF model
      <3> QED BY <2>3, <2>4 DEF ViewModel
    <2>6. /\ vm' \in [Devices -> ViewModel]
          /\ requests' \in [Devices -> Seq(Request)]
          /\ overlapped' \subseteq Devices
      <3>1. CASE ThenAlert(d)
        BY <3>1, ThenAlertType
      <3>2. CASE vm' = [vm EXCEPT ![d].isLoad = FALSE] /\ UNCHANGED <<requests, overlapped>>
        BY <3>2, ViewModelSteps DEF TypeOK
      <3>3. CASE /\ vm' = [vm EXCEPT ![d] =
                             [@ EXCEPT !.isLoad = FALSE, !.selectedMatch = model,
                                       !.unselectedPlayer = Unselected(model)]]
                 /\ UNCHANGED <<requests, overlapped>>
        <4> HIDE DEF model
        <4>1. vm' \in [Devices -> ViewModel]
          BY <2>5, <3>3, ViewModelType
        <4> QED BY <3>3, <4>1 DEF TypeOK
      <3> QED BY <1>OnMatch, <3>1, <3>2, <3>3 DEF OnMatch
    <2> QED BY <1>OnMatch, <2>1, <2>6 DEF OnMatch, callbackUnchanged, TypeOK
  <1>OnPlanned. ASSUME NEW d \in Devices, OnPlanned(d) PROVE TypeOK'
    <2> DEFINE a == Head(replies[d])
    <2>1. /\ a \in Reply /\ a.req \in Request /\ a.req.kind = "plan"
          /\ replies' \in [Devices -> Seq(Reply)]
      BY <1>OnPlanned, AnsweredType DEF OnPlanned
    <2>2. a.req.match \in Matches
      BY <2>1, RequestMatch
    <2>3. /\ vm' \in [Devices -> ViewModel]
          /\ requests' \in [Devices -> Seq(Request)]
          /\ overlapped' \subseteq Devices
      <3>1. CASE /\ vm' = [vm EXCEPT ![d] = Loading(@)]
                 /\ Send(d, Req("detail", a.req.match))
                 /\ UNCHANGED overlapped
        <4>1. requests' \in [Devices -> Seq(Request)]
          BY <3>1, <2>2, SendType, RequestTypes
        <4> QED BY <3>1, <4>1, ViewModelSteps DEF TypeOK
      <3>2. CASE ThenAlert(d)
        BY <3>2, ThenAlertType
      <3> QED BY <1>OnPlanned, <3>1, <3>2 DEF OnPlanned
    <2> QED BY <1>OnPlanned, <2>1, <2>3 DEF OnPlanned, callbackUnchanged, TypeOK
  <1>OnCommented. ASSUME NEW d \in Devices, OnCommented(d) PROVE TypeOK'
    <2> DEFINE a == Head(replies[d])
    <2>1. /\ a \in Reply /\ a.req \in Request /\ a.req.kind = "comment"
          /\ replies' \in [Devices -> Seq(Reply)]
      BY <1>OnCommented, AnsweredType DEF OnCommented
    <2>2. a.req.match \in Matches
      BY <2>1, RequestMatch
    <2>3. /\ vm' \in [Devices -> ViewModel]
          /\ requests' \in [Devices -> Seq(Request)]
          /\ overlapped' \subseteq Devices
      <3>1. CASE /\ vm' = [vm EXCEPT ![d] = Loading(@)]
                 /\ Send(d, Req("detail", a.req.match))
                 /\ UNCHANGED overlapped
        <4>1. requests' \in [Devices -> Seq(Request)]
          BY <3>1, <2>2, SendType, RequestTypes
        <4> QED BY <3>1, <4>1, ViewModelSteps DEF TypeOK
      <3>2. CASE ThenAlert(d)
        BY <3>2, ThenAlertType
      <3> QED BY <1>OnCommented, <3>1, <3>2 DEF OnCommented
    <2> QED BY <1>OnCommented, <2>1, <2>3 DEF OnCommented, callbackUnchanged, TypeOK
  <1>OnCreated. ASSUME NEW d \in Devices, OnCreated(d) PROVE TypeOK'
    <2>1. replies' \in [Devices -> Seq(Reply)]
      BY <1>OnCreated, AnsweredType DEF OnCreated
    <2>2. /\ [form[d] EXCEPT !.isLoad = FALSE] \in Form
          /\ [form[d] EXCEPT !.isLoad = FALSE, !.showAlert = TRUE] \in Form
      BY FormType, FormUpdates
    <2>3. CASE /\ screen' = [screen EXCEPT ![d] = "list"]
               /\ form' = [form EXCEPT ![d].isLoad = FALSE]
               /\ ThenAllMatchs(d, vm[d])
      <3>1. form' \in [Devices -> Form]
        BY <2>2, <2>3, FormType
      <3>2. /\ vm' \in [Devices -> ViewModel]
            /\ requests' \in [Devices -> Seq(Request)]
            /\ overlapped' \subseteq Devices
        BY <2>3, ShownCardsType, ThenAllMatchsType
      <3> QED BY <1>OnCreated, <2>1, <2>3, <3>1, <3>2
              DEF OnCreated, callbackUnchanged, TypeOK
    <2>4. CASE /\ form' = [form EXCEPT ![d] =
                             [@ EXCEPT !.isLoad = FALSE, !.showAlert = TRUE]]
               /\ UNCHANGED <<screen, vm, requests, overlapped>>
      <3>1. form' \in [Devices -> Form]
        BY <2>2, <2>4, FormType
      <3> QED BY <1>OnCreated, <2>1, <2>4, <3>1 DEF OnCreated, callbackUnchanged, TypeOK
    <2>5. CASE UNCHANGED <<screen, form, vm, requests, overlapped>>
      BY <1>OnCreated, <2>1, <2>5 DEF OnCreated, callbackUnchanged, TypeOK
    <2> QED BY <1>OnCreated, <2>3, <2>4, <2>5 DEF OnCreated
  <1>ServeRead. ASSUME NEW d \in Devices, ServeRead(d) PROVE TypeOK'
    <2>1. Head(requests[d]) \in Request /\ requests' \in [Devices -> Seq(Request)]
      BY <1>ServeRead, DequeueType DEF ServeRead
    <2>2. Snapshot(db, Head(requests[d])) \in Store
      BY <2>1, SnapshotType DEF TypeOK
    <2>3. replies' \in [Devices -> Seq(Reply)]
      BY <1>ServeRead, <2>1, <2>2, AnswerType DEF ServeRead
    <2>4. raced' \subseteq Matches
      BY <1>ServeRead, <2>1, RequestMatch DEF ServeRead, TypeOK
    <2> QED BY <1>ServeRead, <2>1, <2>3, <2>4 DEF ServeRead, serverUnchanged, TypeOK
  <1>ServeWrite. ASSUME NEW d \in Devices, ServeWrite(d) PROVE TypeOK'
    <2>1. Head(requests[d]) \in Request /\ requests' \in [Devices -> Seq(Request)]
      BY <1>ServeWrite, DequeueType DEF ServeWrite, Commit
    <2>2. db' \in Store /\ deleted' \subseteq Matches
      BY <1>ServeWrite, CommitType DEF ServeWrite
    <2>3. replies' \in [Devices -> Seq(Reply)]
      BY <1>ServeWrite, <2>1, EmptyStoreType, AnswerType DEF ServeWrite
    <2> QED BY <1>ServeWrite, <2>1, <2>2, <2>3
            DEF ServeWrite, Commit, serverUnchanged, TypeOK
  <1>FailRead. ASSUME NEW d \in Devices, FailRead(d) PROVE TypeOK'
    <2>1. PICK i \in 1..Len(requests[d]) :
             /\ requests' = [requests EXCEPT ![d] = Without(@, i)]
             /\ Answer(d, requests[d][i], FALSE, EmptyStore)
      BY <1>FailRead DEF FailRead
    <2>2. requests[d] \in Seq(Request) /\ requests[d][i] \in Request
      BY ElementOfSeq DEF TypeOK
    <2>3. requests' \in [Devices -> Seq(Request)]
      BY <2>1, <2>2, QueueRemove DEF TypeOK
    <2>4. replies' \in [Devices -> Seq(Reply)]
      BY <2>1, <2>2, EmptyStoreType, AnswerType
    <2> QED BY <1>FailRead, <2>3, <2>4 DEF FailRead, Fault, serverUnchanged, TypeOK
  <1>FailWrite. ASSUME NEW d \in Devices, FailWrite(d) PROVE TypeOK'
    <2>1. Head(requests[d]) \in Request /\ requests' \in [Devices -> Seq(Request)]
      BY <1>FailWrite, DequeueType DEF FailWrite
    <2>2. replies' \in [Devices -> Seq(Reply)]
      BY <1>FailWrite, <2>1, EmptyStoreType, AnswerType DEF FailWrite
    <2> QED BY <1>FailWrite, <2>1, <2>2 DEF FailWrite, Fault, serverUnchanged, TypeOK
  <1>LoseRead. ASSUME NEW d \in Devices, LoseRead(d) PROVE TypeOK'
    <2>1. PICK i \in 1..Len(requests[d]) :
             requests' = [requests EXCEPT ![d] = Without(@, i)]
      BY <1>LoseRead DEF LoseRead
    <2>2. requests' \in [Devices -> Seq(Request)]
      BY <2>1, QueueRemove DEF TypeOK
    <2> QED BY <1>LoseRead, <2>2 DEF LoseRead, Fault, serverUnchanged, TypeOK
  <1>Overtake. ASSUME NEW d \in Devices, Overtake(d) PROVE TypeOK'
    <2>1. PICK i \in 1..(Len(requests[d]) - 1) :
             requests' = [requests EXCEPT ![d] = Swapped(@, i)]
      BY <1>Overtake DEF Overtake
    <2>2. requests' \in [Devices -> Seq(Request)]
      BY <2>1, QueueSwap DEF TypeOK
    <2> QED BY <1>Overtake, <2>2 DEF Overtake, Fault, serverUnchanged, TypeOK
  <1>Resend. ASSUME NEW d \in Devices, Resend(d) PROVE TypeOK'
    <2>1. db' \in Store /\ deleted' \subseteq Matches
      BY <1>Resend, CommitType DEF Resend
    <2> QED BY <1>Resend, <2>1 DEF Resend, Commit, Fault, serverUnchanged, TypeOK
  <1>Quit. ASSUME NEW d \in Devices, Quit(d) PROVE TypeOK'
    BY <1>Quit, StopsType DEF Quit, Fault, histVars, TypeOK
  <1>MatchEnds. ASSUME NEW m \in Matches, MatchEnds(m) PROVE TypeOK'
    BY <1>MatchEnds DEF MatchEnds, histVars, TypeOK
  <1> QED
    BY <1>stutter, <1>Launch, <1>Refresh, <1>OpenDetail, <1>Reappear,
       <1>Back, <1>DismissAlert, <1>joinMatches, <1>leaveMatches,
       <1>deleteMatches, <1>setPlayerPositionWithMatch,
       <1>deletePlayerPositionWithMatch, <1>setIsPlanningCompleteForMatch,
       <1>addComment, <1>OpenCreate, <1>createMatch, <1>OnAllMatchs,
       <1>OnRoster, <1>OnJoined, <1>OnLeft, <1>OnArea, <1>OnAreaRemoved,
       <1>OnDeleted, <1>OnPositionWritten, <1>OnMatch, <1>OnPlanned,
       <1>OnCommented, <1>OnCreated, <1>ServeRead, <1>ServeWrite,
       <1>FailRead, <1>FailWrite, <1>LoseRead, <1>Overtake, <1>Resend,
       <1>Quit, <1>MatchEnds
    DEF Next, User, Callback, Serve, Failure

(* Every variable keeps its type, so every request that is under way has a     *)
(* path without empty components and a value the database accepts.             *)
THEOREM TypeCorrect == Spec => []TypeOK
  <1>1. Init => TypeOK
    <2> SUFFICES ASSUME Init PROVE TypeOK
      OBVIOUS
    <2>1. db \in Store
      BY EmptyNodeType DEF Init, Store
    <2>2. vm \in [Devices -> ViewModel]
      BY ViewModelUpdates DEF Init
    <2>3. form \in [Devices -> Form]
      BY DEF Init, Form
    <2>4. requests \in [Devices -> Seq(Request)] /\ replies \in [Devices -> Seq(Reply)]
      BY EmptySeq DEF Init
    <2> QED BY <2>1, <2>2, <2>3, <2>4, ExistingType DEF Init, TypeOK
  <1>2. TypeOK /\ [Next]_vars => TypeOK'
    BY TypeStep
  <1> QED BY <1>1, <1>2, PTL DEF Spec


-----------------------------------------------------------------------------
(* Squads.                                                                   *)

(* A step that brings no new promise: every join under way, and every squad   *)
(* read with room, was there before.                                         *)
QuietRequests ==
    \A e \in Devices : \A i \in 1..Len(requests'[e]) :
       \/ requests'[e][i].kind # "join"
       \/ \E j \in 1..Len(requests[e]) : requests'[e][i] = requests[e][j]

QuietReplies ==
    \A e \in Devices : \A i \in 1..Len(replies'[e]) :
       \/ replies'[e][i].req.kind # "roster"
       \/ ~replies'[e][i].ok
       \/ \E j \in 1..Len(replies[e]) : replies'[e][i] = replies[e][j]

(* Sending anything but a join brings no new join.                           *)
LEMMA SendQuiet ==
    ASSUME TypeOK, NEW d \in Devices, NEW r \in Request, r.kind # "join", Send(d, r)
    PROVE  QuietRequests
  <1> SUFFICES ASSUME NEW e \in Devices, NEW i \in 1..Len(requests'[e])
               PROVE  \/ requests'[e][i].kind # "join"
                      \/ \E j \in 1..Len(requests[e]) : requests'[e][i] = requests[e][j]
    BY DEF QuietRequests
  <1>1. CASE e # d
    BY <1>1 DEF Send, TypeOK
  <1>2. CASE e = d
    <2>1. requests[d] \in Seq(Request) /\ requests'[d] = Append(requests[d], r)
      BY DEF Send, TypeOK
    <2> QED BY <1>2, <2>1, QueueAdd
  <1> QED BY <1>1, <1>2

(* Handling a request brings no new join.                                    *)
LEMMA DequeueQuiet ==
    ASSUME TypeOK, NEW d \in Devices, requests[d] # <<>>,
           requests' = [requests EXCEPT ![d] = Tail(@)]
    PROVE  QuietRequests
  <1> SUFFICES ASSUME NEW e \in Devices, NEW i \in 1..Len(requests'[e])
               PROVE  \E j \in 1..Len(requests[e]) : requests'[e][i] = requests[e][j]
    BY DEF QuietRequests
  <1>1. CASE e # d
    BY <1>1 DEF TypeOK
  <1>2. CASE e = d
    <2>1. requests[d] \in Seq(Request) /\ requests'[d] = Tail(requests[d])
      BY DEF TypeOK
    <2> QED BY <1>2, <2>1, QueueTake
  <1> QED BY <1>1, <1>2

(* A callback that takes its answer brings no new squad read.                *)
LEMMA AnsweredQuiet ==
    ASSUME TypeOK, NEW d \in Devices, NEW kind, Answered(d, kind)
    PROVE  QuietReplies
  <1> SUFFICES ASSUME NEW e \in Devices, NEW i \in 1..Len(replies'[e])
               PROVE  \E j \in 1..Len(replies[e]) : replies'[e][i] = replies[e][j]
    BY DEF QuietReplies
  <1>1. CASE e # d
    BY <1>1 DEF TypeOK, Answered
  <1>2. CASE e = d
    <2>1. /\ replies[d] \in Seq(Reply) /\ replies[d] # <<>>
          /\ replies'[d] = Tail(replies[d])
      BY DEF TypeOK, Answered
    <2> QED BY <1>2, <2>1, QueueTake
  <1> QED BY <1>1, <1>2

(* An answer other than that of a successful squad read brings none.         *)
LEMMA AnswerQuiet ==
    ASSUME TypeOK, NEW d \in Devices, NEW r \in Request, NEW ok \in BOOLEAN,
           NEW snap \in Store, Answer(d, r, ok, snap), r.kind # "roster" \/ ~ok
    PROVE  QuietReplies
  <1> SUFFICES ASSUME NEW e \in Devices, NEW i \in 1..Len(replies'[e])
               PROVE  \/ replies'[e][i].req.kind # "roster"
                      \/ ~replies'[e][i].ok
                      \/ \E j \in 1..Len(replies[e]) : replies'[e][i] = replies[e][j]
    BY DEF QuietReplies
  <1>1. CASE e # d \/ app[d] # "on"
    BY <1>1 DEF TypeOK, Answer
  <1>2. CASE e = d /\ app[d] = "on"
    <2> DEFINE x == [req |-> r, ok |-> ok, snap |-> snap]
    <2>1. x \in Reply /\ (x.req.kind # "roster" \/ ~x.ok)
      BY DEF Reply
    <2>2. replies[d] \in Seq(Reply) /\ replies'[d] = Append(replies[d], x)
      BY <1>2 DEF TypeOK, Answer
    <2> HIDE DEF x
    <2> QED BY <1>2, <2>1, <2>2, QueueAdd
  <1> QED BY <1>1, <1>2

(* An app that stops brings neither.                                         *)
LEMMA StopsQuiet ==
    ASSUME TypeOK, NEW d \in Devices, NEW how, Stops(d, how)
    PROVE  QuietRequests /\ QuietReplies
  <1>1. ASSUME NEW e \in Devices, NEW i \in 1..Len(requests'[e])
        PROVE  \E j \in 1..Len(requests[e]) : requests'[e][i] = requests[e][j]
    <2>1. CASE e # d
      BY <2>1, <1>1 DEF TypeOK, Stops
    <2>2. CASE e = d
      <3>1. PICK n \in 0..Len(requests[d]) : requests'[d] = SubSeq(requests[d], 1, n)
        BY DEF Stops, TypeOK
      <3>2. requests[d] \in Seq(Request)
        BY DEF TypeOK
      <3> QED BY <1>1, <2>2, <3>1, <3>2, QueuePrefix
    <2> QED BY <2>1, <2>2
  <1>2. ASSUME NEW e \in Devices, NEW i \in 1..Len(replies'[e])
        PROVE  \E j \in 1..Len(replies[e]) : replies'[e][i] = replies[e][j]
    BY DEF TypeOK, Stops
  <1> QED BY <1>1, <1>2 DEF QuietRequests, QuietReplies

(* Queues that stay as they are bring neither.                               *)
LEMMA UnchangedQuiet ==
    /\ UNCHANGED requests => QuietRequests
    /\ UNCHANGED replies => QuietReplies
  BY DEF QuietRequests, QuietReplies

(* Quiet steps bring no phone to Joining.                                     *)
LEMMA QuietJoining ==
    ASSUME TypeOK, JoinsOwnUser, QuietRequests, QuietReplies
    PROVE  /\ JoinsOwnUser'
           /\ \A e \in Devices, m \in Matches : Joining(e, m)' => Joining(e, m)
  <1>1. JoinsOwnUser'
    BY DEF JoinsOwnUser, QuietRequests
  <1>2. ASSUME NEW e \in Devices, NEW m \in Matches, Joining(e, m)'
        PROVE  Joining(e, m)
    <2>1. CASE \E i \in 1..Len(requests'[e]) :
                  requests'[e][i].kind = "join" /\ requests'[e][i].match = m
      BY <2>1 DEF Joining, QuietRequests
    <2>2. CASE \E i \in 1..Len(replies'[e]) :
                  /\ replies'[e][i].req.kind = "roster"
                  /\ replies'[e][i].req.match = m
                  /\ replies'[e][i].ok
                  /\ Cardinality(replies'[e][i].snap[m].players) # Capacity
      <3>1. PICK i \in 1..Len(replies'[e]) :
                  /\ replies'[e][i].req.kind = "roster"
                  /\ replies'[e][i].req.match = m
                  /\ replies'[e][i].ok
                  /\ Cardinality(replies'[e][i].snap[m].players) # Capacity
        BY <2>2
      <3>2. PICK j \in 1..Len(replies[e]) : replies'[e][i] = replies[e][j]
        BY <3>1 DEF QuietReplies
      <3> QED BY <3>1, <3>2 DEF Joining
    <2> QED BY <1>2, <2>1, <2>2 DEF Joining
  <1> QED BY <1>1, <1>2

(* A quiet step that leaves the database alone keeps the invariant.          *)
LEMMA QuietStep ==
    ASSUME TypeOK, SquadInv, QuietRequests, QuietReplies, UNCHANGED <<db, raced>>
    PROVE  SquadInv'
  <1>1. /\ JoinsOwnUser'
        /\ \A e \in Devices, m \in Matches : Joining(e, m)' => Joining(e, m)
    BY QuietJoining DEF SquadInv
  <1>2. ASSUME NEW m \in Matches \ raced PROVE PromiseFits(m)'
    BY <1>1 DEF PromiseFits, SquadInv
  <1> QED BY <1>1, <1>2 DEF SquadInv

-----------------------------------------------------------------------------
(* Counting.                                                                 *)

(* A squad is finite.                                                        *)
LEMMA SquadFinite ==
    ASSUME NEW S \in SUBSET Users
    PROVE  IsFiniteSet(S) /\ Cardinality(S) \in Nat
  BY UsersFinite, FS_Subset, FS_CardinalityType

(* A squad that shrinks still fits.                                           *)
LEMMA SmallerFits ==
    ASSUME NEW S \in SUBSET Users, NEW T \in SUBSET Users, T \subseteq S,
           Cardinality(S) <= Capacity
    PROVE  Cardinality(T) <= Capacity
  <1>1. IsFiniteSet(S)
    BY SquadFinite
  <1>2. Cardinality(T) <= Cardinality(S)
    BY <1>1, FS_Subset
  <1> QED BY <1>2, SquadFinite, CapacityType

(* A squad that fits and is not full has room for one more.                   *)
LEMMA RoomForOne ==
    ASSUME NEW S \in SUBSET Users, NEW u \in Users,
           Cardinality(S) <= Capacity, Cardinality(S) # Capacity
    PROVE  Cardinality(S \cup {u}) <= Capacity
  <1>1. IsFiniteSet(S) /\ Cardinality(S) \in Nat
    BY SquadFinite
  <1>2. Cardinality(S \cup {u}) = Cardinality(S) \/ Cardinality(S \cup {u}) = Cardinality(S) + 1
    BY <1>1, FS_AddElement
  <1> QED BY <1>1, <1>2, CapacityType

-----------------------------------------------------------------------------
(* Only a join adds a player, and it adds the user it names.                  *)
LEMMA RewrittenPlayers ==
    ASSUME NEW n \in Node, NEW r \in Request
    PROVE  \/ r.kind = "join" /\ Rewritten(n, r).players = n.players \cup {r.user}
           \/ Rewritten(n, r).players \subseteq n.players
  <1>1. CASE r.kind \in {"join", "leave"}
    BY <1>1 DEF Rewritten, Node
  <1>2. CASE r.kind \in {"place", "vacate", "areaRemove"}
    BY <1>2 DEF Rewritten, Node
  <1>3. CASE r.kind \in {"plan", "comment"}
    BY <1>3 DEF Rewritten, Node
  <1>4. CASE r.kind \in {"create", "delete"}
    BY <1>4 DEF Rewritten, CreatedNode, EmptyNode
  <1>5. CASE r.kind \in ReadKinds
    BY <1>5 DEF Rewritten, ReadKinds
  <1>6. r.kind \in ReadKinds \cup WriteKinds
    BY DEF Request, RawRequest
  <1> QED BY <1>1, <1>2, <1>3, <1>4, <1>5, <1>6 DEF WriteKinds

(* A write that takes effect, acknowledged or not, keeps the promise.          *)
LEMMA CommitSquad ==
    ASSUME TypeOK, TypeOK', SquadInv, NEW d \in Devices, Commit(d),
           QuietRequests, QuietReplies
    PROVE  SquadInv'
  <1> DEFINE r == Head(requests[d])
  <1>1. /\ r \in Request /\ r.match \in Matches /\ requests[d] # <<>>
        /\ 1 \in 1..Len(requests[d]) /\ r = requests[d][1]
    <2>1. requests[d] \in Seq(Request) /\ requests[d] # <<>>
      BY DEF TypeOK, Commit
    <2> QED BY <2>1, QueueTake, RequestMatch DEF Commit, WriteKinds
  <1>2. db' = [db EXCEPT ![r.match] = Rewritten(@, r)] /\ raced' = raced
    BY DEF Commit, Applied
  <1>3. /\ JoinsOwnUser'
        /\ \A e \in Devices, m \in Matches : Joining(e, m)' => Joining(e, m)
    BY QuietJoining DEF SquadInv
  <1>4. r.kind = "join" => r.user = Owner[d] /\ Joining(d, r.match)
    BY <1>1 DEF SquadInv, JoinsOwnUser, Joining
  <1> HIDE DEF r
  <1>5. ASSUME NEW m \in Matches \ raced PROVE PromiseFits(m)'
    <2>1. PromiseFits(m)
      BY DEF SquadInv
    <2>2. CASE m # r.match
      <3>1. db'[m] = db[m]
        BY <1>2, <2>2 DEF TypeOK, Store
      <3> QED BY <1>3, <2>1, <3>1 DEF PromiseFits
    <2>3. CASE m = r.match
      <3> DEFINE S == db[m].players
                 T == db'[m].players
      <3>1. db[m] \in Node /\ db'[m] \in Node /\ db'[m] = Rewritten(db[m], r)
        BY <1>2, <2>3 DEF TypeOK, Store
      <3>2. S \in SUBSET Users /\ T \in SUBSET Users
        BY <3>1 DEF Node
      <3>3. \/ r.kind = "join" /\ T = S \cup {r.user}
            \/ T \subseteq S
        BY <1>1, <3>1, RewrittenPlayers
      <3> HIDE DEF S, T
      <3>4. \A e, f \in Devices : Joining(e, m)' /\ Joining(f, m)' => e = f
        BY <1>3, <2>1 DEF PromiseFits
      <3>5. CASE T \subseteq S
        <4>1. Cardinality(T) <= Capacity
          BY <2>1, <3>2, <3>5, SmallerFits DEF PromiseFits, S
        <4>2. ASSUME NEW e \in Devices, Joining(e, m)'
              PROVE  Cardinality(T \cup {Owner[e]}) <= Capacity
          <5>1. Cardinality(S \cup {Owner[e]}) <= Capacity
            BY <1>3, <2>1, <4>2 DEF PromiseFits, S
          <5>2. S \cup {Owner[e]} \in SUBSET Users /\ T \cup {Owner[e]} \in SUBSET Users
            BY <3>2, OwnerType
          <5> QED BY <5>1, <5>2, <3>5, SmallerFits
        <4> QED BY <3>4, <4>1, <4>2 DEF PromiseFits, T
      <3>6. CASE r.kind = "join" /\ T = S \cup {r.user}
        <4>1. r.user = Owner[d] /\ Joining(d, m)
          BY <1>4, <2>3, <3>6
        <4>2. Cardinality(T) <= Capacity
          BY <2>1, <3>6, <4>1 DEF PromiseFits, S
        <4>3. ASSUME NEW e \in Devices, Joining(e, m)'
              PROVE  T \cup {Owner[e]} = T
          <5>1. e = d
            BY <1>3, <2>1, <4>1, <4>3 DEF PromiseFits
          <5> QED BY <5>1, <3>6, <4>1
        <4> QED BY <3>4, <4>2, <4>3 DEF PromiseFits, T
      <3> QED BY <3>3, <3>5, <3>6
    <2> QED BY <2>2, <2>3
  <1> QED BY <1>2, <1>3, <1>5 DEF SquadInv

(* The server answers a read. The answer to a squad read is a new promise when *)
(* there is room; unless the match is raced, it is the only one.               *)
LEMMA ServeReadSquad ==
    ASSUME TypeOK, TypeOK', SquadInv, NEW d \in Devices, ServeRead(d)
    PROVE  SquadInv'
  <1> DEFINE r == Head(requests[d])
             snap == Snapshot(db, r)
             x == [req |-> r, ok |-> TRUE, snap |-> snap]
  <1>1. r \in Request /\ snap \in Store
    BY DequeueType, SnapshotType DEF ServeRead, TypeOK
  <1>2. QuietRequests /\ db' = db
    BY DequeueQuiet DEF ServeRead
  <1>3. CASE r.kind # "roster"
    <2>1. QuietReplies
      BY <1>1, <1>3, AnswerQuiet DEF ServeRead
    <2>2. UNCHANGED <<db, raced>>
      BY <1>3 DEF ServeRead
    <2> QED BY <1>2, <2>1, <2>2, QuietStep
  <1>4. CASE r.kind = "roster"
    <2>1. r.match \in Matches /\ snap[r.match].players = db[r.match].players
      <3>1. r.match \in Matches
        BY <1>1, <1>4, RequestMatch
      <3>2. snap[r.match] = [EmptyNode EXCEPT !.players = db[r.match].players]
        BY <1>4, <3>1 DEF Snapshot
      <3> QED BY <3>1, <3>2 DEF EmptyNode
    <2>2. \/ UNCHANGED replies
          \/ replies' = [replies EXCEPT ![d] = Append(@, x)]
      BY DEF ServeRead, Answer
    <2>3. raced \subseteq raced'
      BY DEF ServeRead
    <2>4. r.match \notin raced' => \A e \in Devices \ {d} : ~Joining(e, r.match)
      BY <1>4 DEF ServeRead
    <2>5. JoinsOwnUser'
      BY <1>2 DEF JoinsOwnUser, QuietRequests, SquadInv
    <2>6. x \in Reply /\ x.req = r /\ x.snap = snap
      BY <1>1 DEF Reply
    <2> HIDE DEF r, snap, x
    <2>7. ASSUME NEW e \in Devices, NEW m \in Matches, Joining(e, m)'
          PROVE  \/ Joining(e, m)
                 \/ e = d /\ m = r.match /\ Cardinality(snap[m].players) # Capacity
      <3>1. CASE \E i \in 1..Len(requests'[e]) :
                    requests'[e][i].kind = "join" /\ requests'[e][i].match = m
        BY <1>2, <3>1 DEF Joining, QuietRequests
      <3>2. CASE \E i \in 1..Len(replies'[e]) :
                    /\ replies'[e][i].req.kind = "roster"
                    /\ replies'[e][i].req.match = m
                    /\ replies'[e][i].ok
                    /\ Cardinality(replies'[e][i].snap[m].players) # Capacity
        <4>1. PICK i \in 1..Len(replies'[e]) :
                    /\ replies'[e][i].req.kind = "roster"
                    /\ replies'[e][i].req.match = m
                    /\ replies'[e][i].ok
                    /\ Cardinality(replies'[e][i].snap[m].players) # Capacity
          BY <3>2
        <4>2. \/ i \in 1..Len(replies[e]) /\ replies'[e][i] = replies[e][i]
              \/ e = d /\ replies'[e][i] = x
          <5>1. CASE UNCHANGED replies \/ e # d
            BY <2>2, <5>1 DEF TypeOK
          <5>2. CASE e = d /\ replies' = [replies EXCEPT ![d] = Append(@, x)]
            <6>1. replies[d] \in Seq(Reply) /\ replies'[d] = Append(replies[d], x)
              BY <5>2 DEF TypeOK
            <6> QED BY <5>2, <6>1, <2>6, QueueAdd
          <5> QED BY <2>2, <5>1, <5>2
        <4> QED BY <4>1, <4>2, <2>6 DEF Joining
      <3> QED BY <2>7, <3>1, <3>2 DEF Joining
    <2>8. ASSUME NEW m \in Matches \ raced' PROVE PromiseFits(m)'
      <3>1. PromiseFits(m)
        BY <2>3 DEF SquadInv
      <3>2. CASE m # r.match
        <4>1. \A e \in Devices : Joining(e, m)' => Joining(e, m)
          BY <2>7, <3>2
        <4> QED BY <1>2, <3>1, <4>1 DEF PromiseFits
      <3>3. CASE m = r.match
        <4>1. \A e \in Devices : Joining(e, m)' => e = d
          BY <2>4, <2>7, <3>3
        <4>2. ASSUME Joining(d, m)'
              PROVE  Cardinality(db[m].players \cup {Owner[d]}) <= Capacity
          <5>1. CASE Joining(d, m)
            BY <5>1, <3>1 DEF PromiseFits
          <5>2. CASE Cardinality(snap[m].players) # Capacity
            <6>1. db[m].players \in SUBSET Users /\ Owner[d] \in Users
              BY OwnerType DEF TypeOK, Store, Node
            <6> QED BY <2>1, <3>1, <3>3, <5>2, <6>1, RoomForOne DEF PromiseFits
          <5> QED BY <2>7, <4>2, <5>1, <5>2
        <4> QED BY <1>2, <3>1, <4>1, <4>2 DEF PromiseFits
      <3> QED BY <3>2, <3>3
    <2> QED BY <2>5, <2>8 DEF SquadInv
  <1> QED BY <1>3, <1>4

(* joinMatches finds room: the promise moves from the answer to the request.    *)
LEMMA OnRosterSquad ==
    ASSUME TypeOK, TypeOK', SquadInv, NEW d \in Devices, OnRoster(d)
    PROVE  SquadInv'
  <1> DEFINE a == Head(replies[d])
             j == [Req("join", a.req.match) EXCEPT !.user = Owner[d]]
  <1>1. /\ a \in Reply /\ a.req \in Request /\ a.req.kind = "roster"
        /\ QuietReplies
    BY AnsweredType, AnsweredQuiet DEF OnRoster
  <1>2. a.req.match \in Matches
    BY <1>1, RequestMatch
  <1>3. UNCHANGED <<db, raced>>
    BY DEF OnRoster, callbackUnchanged
  <1>4. CASE UNCHANGED requests
    BY <1>1, <1>3, <1>4, UnchangedQuiet, QuietStep
  <1>5. CASE ~UNCHANGED requests
    <2>1. /\ a.ok /\ Cardinality(a.snap[a.req.match].players) # Capacity
          /\ Send(d, j)
      BY <1>5 DEF OnRoster, ThenAlert
    <2>2. 1 \in 1..Len(replies[d]) /\ a = replies[d][1]
      <3>1. replies[d] \in Seq(Reply) /\ replies[d] # <<>>
        BY SMTT(30) DEF OnRoster, Answered, TypeOK
      <3> QED BY <3>1, QueueTake
    <2>3. Joining(d, a.req.match)
      <3> HIDE DEF a
      <3> QED BY <1>1, <2>1, <2>2 DEF Joining
    <2>4. /\ j \in Request /\ j.kind = "join" /\ j.match = a.req.match
          /\ j.user = Owner[d]
      BY <1>2, RequestTypes, OwnerType DEF Req
    <2>5. requests[d] \in Seq(Request) /\ requests' = [requests EXCEPT ![d] = Append(@, j)]
      BY <2>1 DEF Send, TypeOK
    <2> HIDE DEF a, j
    <2>6. ASSUME NEW e \in Devices, NEW i \in 1..Len(requests'[e])
          PROVE  \/ i \in 1..Len(requests[e]) /\ requests'[e][i] = requests[e][i]
                 \/ e = d /\ requests'[e][i] = j
      <3>1. CASE e # d
        BY <2>5, <2>6, <3>1 DEF TypeOK
      <3>2. CASE e = d
        <4>1. requests'[d] = Append(requests[d], j)
          BY <2>5 DEF TypeOK
        <4> QED BY <2>4, <2>5, <2>6, <3>2, <4>1, QueueAdd
      <3> QED BY <3>1, <3>2
    <2>7. JoinsOwnUser'
      BY <2>4, <2>6 DEF SquadInv, JoinsOwnUser
    <2>8. ASSUME NEW e \in Devices, NEW m \in Matches, Joining(e, m)'
          PROVE  Joining(e, m)
      <3>1. CASE \E i \in 1..Len(requests'[e]) :
                    requests'[e][i].kind = "join" /\ requests'[e][i].match = m
        <4>1. PICK i \in 1..Len(requests'[e]) :
                 requests'[e][i].kind = "join" /\ requests'[e][i].match = m
          BY <3>1
        <4>2. CASE i \in 1..Len(requests[e]) /\ requests'[e][i] = requests[e][i]
          BY <4>1, <4>2 DEF Joining
        <4>3. CASE e = d /\ requests'[e][i] = j
          <5>1. m = a.req.match
            BY <2>4, <4>1, <4>3
          <5> QED BY <2>3, <4>3, <5>1
        <4> QED BY <2>6, <4>2, <4>3
      <3>2. CASE \E i \in 1..Len(replies'[e]) :
                    /\ replies'[e][i].req.kind = "roster"
                    /\ replies'[e][i].req.match = m
                    /\ replies'[e][i].ok
                    /\ Cardinality(replies'[e][i].snap[m].players) # Capacity
        <4>1. PICK i \in 1..Len(replies'[e]) :
                    /\ replies'[e][i].req.kind = "roster"
                    /\ replies'[e][i].req.match = m
                    /\ replies'[e][i].ok
                    /\ Cardinality(replies'[e][i].snap[m].players) # Capacity
          BY <3>2
        <4>2. PICK k \in 1..Len(replies[e]) : replies'[e][i] = replies[e][k]
          BY <1>1, <4>1 DEF QuietReplies
        <4> QED BY <4>1, <4>2 DEF Joining
      <3> QED BY <2>8, <3>1, <3>2 DEF Joining
    <2>9. ASSUME NEW m \in Matches \ raced PROVE PromiseFits(m)'
      BY <1>3, <2>8 DEF PromiseFits, SquadInv
    <2> QED BY <1>3, <2>7, <2>9 DEF SquadInv
  <1> QED BY <1>4, <1>5

-----------------------------------------------------------------------------
(* A read that is taken out of its queue, and a write that overtakes a read.    *)
LEMMA WithoutQuiet ==
    ASSUME TypeOK, NEW d \in Devices, NEW k \in 1..Len(requests[d]),
           requests' = [requests EXCEPT ![d] = Without(@, k)]
    PROVE  QuietRequests
  <1>1. requests[d] \in Seq(Request)
    BY DEF TypeOK
  <1>2. \A i \in 1..Len(Without(requests[d], k)) :
           \E j \in 1..Len(requests[d]) : Without(requests[d], k)[i] = requests[d][j]
    BY <1>1, QueueRemove
  <1>3. requests'[d] = Without(requests[d], k)
    BY DEF TypeOK
  <1>4. ASSUME NEW e \in Devices, NEW i \in 1..Len(requests'[e])
        PROVE  \E j \in 1..Len(requests[e]) : requests'[e][i] = requests[e][j]
    <2>1. CASE e # d
      BY <1>4, <2>1 DEF TypeOK
    <2>2. CASE e = d
      BY <1>2, <1>3, <1>4, <2>2
    <2> QED BY <2>1, <2>2
  <1> QED BY <1>4 DEF QuietRequests

(* A write that overtakes a read brings no new join.                         *)
LEMMA SwappedQuiet ==
    ASSUME TypeOK, NEW d \in Devices, NEW k \in 1..(Len(requests[d]) - 1),
           requests' = [requests EXCEPT ![d] = Swapped(@, k)]
    PROVE  QuietRequests
  <1>1. requests[d] \in Seq(Request)
    BY DEF TypeOK
  <1>2. \A i \in 1..Len(Swapped(requests[d], k)) :
           \E j \in 1..Len(requests[d]) : Swapped(requests[d], k)[i] = requests[d][j]
    BY <1>1, QueueSwap
  <1>3. requests'[d] = Swapped(requests[d], k)
    BY DEF TypeOK
  <1>4. ASSUME NEW e \in Devices, NEW i \in 1..Len(requests'[e])
        PROVE  \E j \in 1..Len(requests[e]) : requests'[e][i] = requests[e][j]
    <2>1. CASE e # d
      BY <1>4, <2>1 DEF TypeOK
    <2>2. CASE e = d
      BY <1>2, <1>3, <1>4, <2>2
    <2> QED BY <2>1, <2>2
  <1> QED BY <1>4 DEF QuietRequests

(* A read that fails brings neither a join nor a successful squad read.      *)
LEMMA FailReadQuiet ==
    ASSUME TypeOK, NEW d \in Devices, FailRead(d)
    PROVE  QuietRequests /\ QuietReplies
  <1>1. PICK k \in 1..Len(requests[d]) :
           /\ requests' = [requests EXCEPT ![d] = Without(@, k)]
           /\ Answer(d, requests[d][k], FALSE, EmptyStore)
    BY DEF FailRead
  <1>2. requests[d] \in Seq(Request) /\ requests[d][k] \in Request
    BY ElementOfSeq DEF TypeOK
  <1>3. QuietReplies
    BY <1>1, <1>2, EmptyStoreType, AnswerQuiet
  <1> QED BY <1>1, <1>3, WithoutQuiet

(* A user does something: no request of a user's is itself a join.              *)
LEMMA UserQuiet ==
    ASSUME TypeOK, TypeOK', NEW d \in Devices, User(d)
    PROVE  QuietRequests /\ QuietReplies /\ UNCHANGED <<db, raced>>
  <1>1. UNCHANGED <<db, raced>>
    BY DEF User, Launch, Refresh, OpenDetail, Reappear, Back, DismissAlert,
           joinMatches, leaveMatches, deleteMatches, setPlayerPositionWithMatch,
           deletePlayerPositionWithMatch, setIsPlanningCompleteForMatch,
           addComment, OpenCreate, createMatch, histVars, netHist
  <1>2. CASE \E r : r.kind # "join" /\ Send(d, r) /\ UNCHANGED replies
    <2>1. PICK r : r.kind # "join" /\ Send(d, r) /\ UNCHANGED replies
      BY <1>2
    <2>2. r \in Request
      <3>1. requests[d] \in Seq(Request) /\ requests'[d] \in Seq(Request)
            /\ requests'[d] = Append(requests[d], r)
        BY <2>1 DEF TypeOK, Send
      <3> QED BY <3>1
    <2> QED BY <1>1, <2>1, <2>2, SendQuiet, UnchangedQuiet
  <1>3. CASE Stops(d, "crashed")
    BY <1>1, <1>3, StopsQuiet
  <1>4. CASE UNCHANGED <<requests, replies>>
    BY <1>1, <1>4, UnchangedQuiet
  <1>5. \/ \E r : r.kind # "join" /\ Send(d, r) /\ UNCHANGED replies
        \/ Stops(d, "crashed")
        \/ UNCHANGED <<requests, replies>>
    <2>1. ASSUME NEW m, NEW kind, kind # "join"
          PROVE  Req(kind, m).kind # "join"
      BY <2>1 DEF Req
    <2>2. CASE Launch(d) \/ Refresh(d)
      BY <2>2, <2>1 DEF Launch, Refresh
    <2>3. CASE OpenDetail(d) \/ deleteMatches(d)
      BY <2>3, <2>1 DEF OpenDetail, deleteMatches
    <2>4. CASE Reappear(d)
      BY <2>4, <2>1 DEF Reappear
    <2>5. CASE Back(d) \/ DismissAlert(d) \/ OpenCreate(d)
      BY <2>5 DEF Back, DismissAlert, OpenCreate
    <2>6. CASE joinMatches(d)
      BY <2>6, <2>1 DEF joinMatches
    <2>7. CASE leaveMatches(d)
      BY <2>7 DEF leaveMatches, Req
    <2>8. CASE setPlayerPositionWithMatch(d)
      BY <2>8 DEF setPlayerPositionWithMatch, Req
    <2>9. CASE deletePlayerPositionWithMatch(d)
      BY <2>9 DEF deletePlayerPositionWithMatch, Req
    <2>10. CASE setIsPlanningCompleteForMatch(d)
      BY <2>10 DEF setIsPlanningCompleteForMatch, Req
    <2>11. CASE addComment(d)
      BY <2>11 DEF addComment, Req
    <2>12. CASE createMatch(d)
      BY <2>12 DEF createMatch, Req
    <2> QED BY <2>2, <2>3, <2>4, <2>5, <2>6, <2>7, <2>8, <2>9, <2>10, <2>11,
               <2>12 DEF User
  <1> QED BY <1>2, <1>3, <1>4, <1>5

(* The callbacks other than joinMatches' first one send no join.                *)
LEMMA CallbackQuiet ==
    ASSUME TypeOK, TypeOK', NEW d \in Devices, Callback(d), ~OnRoster(d)
    PROVE  QuietRequests /\ QuietReplies /\ UNCHANGED <<db, raced>>
  <1>1. UNCHANGED <<db, raced>>
    BY Zenon DEF Callback, OnAllMatchs, OnJoined, OnLeft, OnArea, OnAreaRemoved,
           OnDeleted, OnPositionWritten, OnMatch, OnPlanned, OnCommented,
           OnCreated, callbackUnchanged
  <1>2. \E kind : Answered(d, kind)
    BY Zenon DEF Callback, OnAllMatchs, OnJoined, OnLeft, OnArea, OnAreaRemoved,
           OnDeleted, OnPositionWritten, OnMatch, OnPlanned, OnCommented,
           OnCreated
  <1>3. QuietReplies
    BY <1>2, AnsweredQuiet
  <1>4. CASE \E r : r.kind # "join" /\ Send(d, r)
    <2>1. PICK r : r.kind # "join" /\ Send(d, r)
      BY <1>4
    <2>2. r \in Request
      <3>1. requests[d] \in Seq(Request) /\ requests'[d] \in Seq(Request)
            /\ requests'[d] = Append(requests[d], r)
        BY <2>1 DEF TypeOK, Send
      <3> QED BY <3>1
    <2> QED BY <1>1, <1>3, <2>1, <2>2, SendQuiet
  <1>5. CASE UNCHANGED requests
    BY <1>1, <1>3, <1>5, UnchangedQuiet
  <1>6. (\E r : r.kind # "join" /\ Send(d, r)) \/ UNCHANGED requests
    <2>1. ASSUME NEW m, NEW kind, kind # "join"
          PROVE  Req(kind, m).kind # "join"
      BY <2>1 DEF Req
    <2>2. CASE OnAllMatchs(d)
      BY <2>2 DEF OnAllMatchs
    <2>3. CASE OnJoined(d)
      BY <2>3, <2>1 DEF OnJoined, ThenAllMatchs
    <2>4. CASE OnLeft(d)
      BY <2>4 DEF OnLeft, ThenAlert, Req
    <2>5. CASE OnArea(d)
      BY Zenon, <2>5 DEF OnArea, ThenAlert, ThenAllMatchs, Req
    <2>6. CASE OnAreaRemoved(d) \/ OnDeleted(d)
      BY <2>6, <2>1 DEF OnAreaRemoved, OnDeleted, ThenAlert, ThenAllMatchs
    <2>7. CASE OnPositionWritten(d)
      BY <2>7, <2>1 DEF OnPositionWritten, ThenAlert
    <2>8. CASE OnMatch(d)
      BY <2>8 DEF OnMatch, ThenAlert
    <2>9. CASE OnPlanned(d) \/ OnCommented(d)
      BY <2>9, <2>1 DEF OnPlanned, OnCommented, ThenAlert
    <2>10. CASE OnCreated(d)
      BY <2>10, <2>1 DEF OnCreated, ThenAllMatchs
    <2> QED BY <2>2, <2>3, <2>4, <2>5, <2>6, <2>7, <2>8, <2>9, <2>10 DEF Callback
  <1> QED BY <1>4, <1>5, <1>6

-----------------------------------------------------------------------------
(* At the start nobody is joining and the squads are empty.                    *)
LEMMA SquadInit == ASSUME Init PROVE SquadInv
  <1>1. \A d \in Devices : requests[d] = <<>> /\ replies[d] = <<>>
    BY DEF Init
  <1>2. ASSUME NEW d \in Devices PROVE 1..Len(requests[d]) = {} /\ 1..Len(replies[d]) = {}
    BY <1>1
  <1>3. \A d \in Devices, m \in Matches : ~Joining(d, m)
    BY <1>2, Zenon DEF Joining
  <1>4. \A m \in Matches : db[m].players = {}
    BY DEF Init, CreatedNode, EmptyNode
  <1>5. Cardinality({}) <= Capacity
    BY FS_EmptySet, CapacityType
  <1>6. JoinsOwnUser
    BY <1>2 DEF JoinsOwnUser
  <1>7. ASSUME NEW m \in Matches \ raced PROVE PromiseFits(m)
    BY <1>3, <1>4, <1>5 DEF PromiseFits
  <1> QED BY <1>6, <1>7 DEF SquadInv

(* The server and the faults of the connection, one phone at a time.           *)
LEMMA FailureSquad ==
    ASSUME TypeOK, TypeOK', SquadInv, NEW d \in Devices, ServeWrite(d) \/ Failure(d)
    PROVE  SquadInv'
  <1>1. CASE ServeWrite(d)
    <2>1. Commit(d) /\ QuietRequests
      BY <1>1, DequeueQuiet DEF ServeWrite, Commit
    <2>2. Head(requests[d]) \in Request /\ Head(requests[d]).kind # "roster"
      BY <2>1, DequeueType DEF Commit, WriteKinds
    <2>3. QuietReplies
      BY <1>1, <2>2, EmptyStoreType, AnswerQuiet DEF ServeWrite
    <2> QED BY <2>1, <2>3, CommitSquad
  <1>2. CASE FailRead(d)
    <2>1. UNCHANGED <<db, raced>>
      BY <1>2 DEF FailRead
    <2> QED BY <1>2, <2>1, FailReadQuiet, QuietStep
  <1>3. CASE FailWrite(d)
    <2>1. QuietRequests /\ UNCHANGED <<db, raced>>
      BY <1>3, DequeueQuiet DEF FailWrite
    <2>2. Head(requests[d]) \in Request
      BY <1>3, DequeueType DEF FailWrite
    <2>3. QuietReplies
      BY <1>3, <2>2, EmptyStoreType, AnswerQuiet DEF FailWrite
    <2> QED BY <2>1, <2>3, QuietStep
  <1>4. CASE LoseRead(d)
    <2>1. QuietRequests /\ QuietReplies /\ UNCHANGED <<db, raced>>
      BY <1>4, WithoutQuiet, UnchangedQuiet DEF LoseRead
    <2> QED BY <2>1, QuietStep
  <1>7. CASE Overtake(d)
    <2>1. QuietRequests /\ QuietReplies /\ UNCHANGED <<db, raced>>
      BY <1>7, SwappedQuiet, UnchangedQuiet DEF Overtake
    <2> QED BY <2>1, QuietStep
  <1>5. CASE Resend(d)
    BY <1>5, UnchangedQuiet, CommitSquad DEF Resend
  <1>6. CASE Quit(d)
    <2>1. QuietRequests /\ QuietReplies /\ UNCHANGED <<db, raced>>
      BY <1>6, StopsQuiet DEF Quit, histVars
    <2> QED BY <2>1, QuietStep
  <1> QED BY <1>1, <1>2, <1>3, <1>4, <1>5, <1>6, <1>7 DEF Failure

(* Every step keeps the promise.                                                *)
LEMMA SquadStep ==
    ASSUME TypeOK, TypeOK', SquadInv, [Next]_vars PROVE SquadInv'
  <1>1. CASE UNCHANGED vars
    <2>1. UNCHANGED <<requests, replies, db, raced>>
      BY <1>1 DEF vars, histVars
    <2> QED BY <2>1, UnchangedQuiet, QuietStep
  <1>2. CASE \E m \in Matches : MatchEnds(m)
    <2>1. UNCHANGED <<requests, replies, db, raced>>
      BY <1>2 DEF MatchEnds, histVars
    <2> QED BY <2>1, UnchangedQuiet, QuietStep
  <1>3. ASSUME NEW d \in Devices, User(d) PROVE SquadInv'
    BY <1>3, UserQuiet, QuietStep
  <1>4. ASSUME NEW d \in Devices, Callback(d) PROVE SquadInv'
    <2>1. CASE OnRoster(d)
      BY <2>1, OnRosterSquad
    <2>2. CASE ~OnRoster(d)
      BY <1>4, <2>2, CallbackQuiet, QuietStep
    <2> QED BY <2>1, <2>2
  <1>5. ASSUME NEW d \in Devices, Serve(d) \/ Failure(d) PROVE SquadInv'
    BY <1>5, ServeReadSquad, FailureSquad DEF Serve
  <1> QED BY <1>1, <1>2, <1>3, <1>4, <1>5 DEF Next

(* Between its read and its write a join holds a promise of one more player,    *)
(* and the promise still fits when it is kept, for any number of phones and     *)
(* through every failure.                                                       *)
THEOREM SquadPromises == Spec => []SquadInv
  <1>1. Init => SquadInv
    BY SquadInit
  <1>2. TypeOK /\ TypeOK' /\ SquadInv /\ [Next]_vars => SquadInv'
    BY SquadStep
  <1> QED BY <1>1, <1>2, TypeCorrect, PTL DEF Spec

(* joinMatches keeps every squad within its capacity unless some phone read     *)
(* the squad while another one, having found room, had yet to write. This is    *)
(* for any number of phones and through every failure the model has.            *)
THEOREM SquadKeepsCapacity == Spec => []CapacityUnlessRaced
  <1>1. SquadInv => CapacityUnlessRaced
    BY DEF SquadInv, PromiseFits, CapacityUnlessRaced
  <1> QED BY <1>1, SquadPromises, PTL

-----------------------------------------------------------------------------
(* Ghosts. Every write but a creation goes below a match the phone has read,  *)
(* and what it has read had its fields then: it still has them, or a deletion *)
(* has reached the server since. That is what the phones know of, and it only *)
(* grows.                                                                     *)
Known == {m \in Matches : db[m].info \/ m \in deleted}

(* Models without an empty matchID name a known match; so do the screens.     *)
KnownModels == {c \in MatchsModel : c.matchID \in Known \cup {None}}
KnownCards  == KnownModels \cup {None}
KnownScreens == Known \cup {"list", "create"}

KnownViews == {v \in ViewModel :
                 /\ v.selectedMatch \in KnownModels
                 /\ v.matchsModelList \in Seq([Matches -> KnownCards])}

(* Requests, and what answers bring.                                         *)
KnownRequests == {r \in Request : r.kind \in {"list", "create"} \/ r.match \in Known}
KnownStores   == {s \in Store : \A m \in Matches : s[m].info => m \in Known}
KnownReplies  == {a \in Reply : a.req \in KnownRequests /\ a.snap \in KnownStores}

(* All a phone holds or has under way is about known matches.                 *)
KnownPhones ==
    /\ screen \in [Devices -> KnownScreens]
    /\ vm \in [Devices -> KnownViews]
    /\ requests \in [Devices -> Seq(KnownRequests)]
    /\ replies \in [Devices -> Seq(KnownReplies)]

(* Nothing but a known match is in the database.                              *)
GhostInv == KnownPhones /\ \A m \in Matches : Exists(db[m]) => m \in Known

(* The same of the next state, with what is known now.                        *)
StaysKnown ==
    /\ screen' \in [Devices -> KnownScreens]
    /\ vm' \in [Devices -> KnownViews]
    /\ requests' \in [Devices -> Seq(KnownRequests)]
    /\ replies' \in [Devices -> Seq(KnownReplies)]

(* What is known stays known, so phones that stay with what is known keep     *)
(* their part of the invariant.                                               *)
LEMMA KnownGrows ==
    ASSUME Known \subseteq Known', StaysKnown
    PROVE  KnownPhones'
  <1>1. KnownModels \subseteq KnownModels' /\ KnownScreens \subseteq KnownScreens'
    BY DEF KnownModels, KnownScreens
  <1>2. [Matches -> KnownCards] \subseteq [Matches -> KnownCards']
    BY <1>1 DEF KnownCards
  <1>3. KnownRequests \subseteq KnownRequests' /\ KnownStores \subseteq KnownStores'
    BY DEF KnownRequests, KnownStores
  <1>4. KnownReplies \subseteq KnownReplies'
    BY <1>3 DEF KnownReplies
  <1>5. ASSUME NEW S, NEW T, S \subseteq T PROVE Seq(S) \subseteq Seq(T)
    <2> SUFFICES ASSUME NEW q \in Seq(S) PROVE q \in Seq(T)
      OBVIOUS
    <2>1. \A i \in 1..Len(q) : q[i] \in T
      BY <1>5, ElementOfSeq
    <2>2. Len(q) \in Nat /\ q = [i \in 1..Len(q) |-> q[i]]
      OBVIOUS
    <2> QED BY <2>1, <2>2
  <1>6. KnownViews \subseteq KnownViews'
    <2> SUFFICES ASSUME NEW v \in KnownViews PROVE v \in KnownViews'
      OBVIOUS
    <2>1. Seq([Matches -> KnownCards]) \subseteq Seq([Matches -> KnownCards'])
      BY <1>2, <1>5
    <2> QED BY <1>1, <2>1 DEF KnownViews
  <1>7. /\ Seq(KnownRequests) \subseteq Seq(KnownRequests')
        /\ Seq(KnownReplies) \subseteq Seq(KnownReplies')
    BY <1>3, <1>4, <1>5
  <1> QED BY <1>1, <1>6, <1>7 DEF StaysKnown, KnownPhones

(* A step that leaves the database alone.                                     *)
LEMMA KnownStep ==
    ASSUME GhostInv, StaysKnown, UNCHANGED <<db, deleted>>
    PROVE  GhostInv'
  <1>1. Known' = Known
    BY DEF Known
  <1> QED BY <1>1, KnownGrows DEF GhostInv

(* The assignments of MatchsViewModel.                                        *)
LEMMA KnownViewUpdates ==
    /\ NewViewModel \in KnownViews
    /\ \A v \in KnownViews :
         /\ Loading(v) \in KnownViews
         /\ Alerted(v) \in KnownViews
         /\ getAllMatchs(v) \in KnownViews
         /\ [v EXCEPT !.isLoad = FALSE] \in KnownViews
         /\ \A b \in BOOLEAN : [v EXCEPT !.showAlert = b] \in KnownViews
  <1>1. EmptyModel \in KnownModels
    <2>1. EmptyModel \in MatchsModel
      BY ParsedType, EmptyNodeType DEF EmptyModel
    <2> QED BY <2>1 DEF KnownModels, EmptyModel, Parsed
  <1>2. NewViewModel \in KnownViews
    BY <1>1, ViewModelUpdates, EmptySeq DEF NewViewModel, KnownViews
  <1>3. ASSUME NEW v \in KnownViews
        PROVE  /\ Loading(v) \in KnownViews
               /\ Alerted(v) \in KnownViews
               /\ [v EXCEPT !.isLoad = FALSE] \in KnownViews
               /\ \A b \in BOOLEAN : [v EXCEPT !.showAlert = b] \in KnownViews
    <2>1. v \in ViewModel /\ v.selectedMatch \in KnownModels
          /\ v.matchsModelList \in Seq([Matches -> KnownCards])
      BY DEF KnownViews
    <2>2. /\ Loading(v) \in ViewModel /\ Alerted(v) \in ViewModel
          /\ [v EXCEPT !.isLoad = FALSE] \in ViewModel
          /\ \A b \in BOOLEAN : [v EXCEPT !.showAlert = b] \in ViewModel
      BY <2>1, ViewModelUpdates
    <2>3. \A w \in {Loading(v), Alerted(v), [v EXCEPT !.isLoad = FALSE]}
                    \cup {[v EXCEPT !.showAlert = b] : b \in BOOLEAN} :
             w.selectedMatch = v.selectedMatch /\ w.matchsModelList = v.matchsModelList
      BY <2>1 DEF ViewModel, Loading, Alerted
    <2> QED BY <2>1, <2>2, <2>3 DEF KnownViews
  <1>4. ASSUME NEW v \in KnownViews PROVE getAllMatchs(v) \in KnownViews
    <2>1. v \in ViewModel /\ v.selectedMatch \in KnownModels
      BY DEF KnownViews
    <2>2. getAllMatchs(v) \in ViewModel
      BY <2>1, ViewModelUpdates
    <2>3. getAllMatchs(v).selectedMatch = v.selectedMatch
          /\ getAllMatchs(v).matchsModelList = <<>>
      BY <2>1 DEF ViewModel, getAllMatchs
    <2> QED BY <2>1, <2>2, <2>3, EmptySeq DEF KnownViews
  <1> QED BY <1>2, <1>3, <1>4

(* The same, at a phone.                                                      *)
LEMMA KnownViewSteps ==
    ASSUME GhostInv, NEW d \in Devices
    PROVE  /\ vm[d] \in KnownViews
           /\ \A v \in KnownViews : [vm EXCEPT ![d] = v] \in [Devices -> KnownViews]
           /\ [vm EXCEPT ![d] = Loading(@)] \in [Devices -> KnownViews]
           /\ [vm EXCEPT ![d] = Alerted(@)] \in [Devices -> KnownViews]
           /\ [vm EXCEPT ![d] = getAllMatchs(@)] \in [Devices -> KnownViews]
           /\ [vm EXCEPT ![d].isLoad = FALSE] \in [Devices -> KnownViews]
           /\ [vm EXCEPT ![d].showAlert = TRUE] \in [Devices -> KnownViews]
           /\ [vm EXCEPT ![d].showAlert = FALSE] \in [Devices -> KnownViews]
  <1>1. vm[d] \in KnownViews /\ vm \in [Devices -> KnownViews]
    BY DEF GhostInv, KnownPhones
  <1>2. \A v \in KnownViews : [vm EXCEPT ![d] = v] \in [Devices -> KnownViews]
    BY <1>1
  <1>3. /\ Loading(vm[d]) \in KnownViews /\ Alerted(vm[d]) \in KnownViews
        /\ getAllMatchs(vm[d]) \in KnownViews
        /\ [vm[d] EXCEPT !.isLoad = FALSE] \in KnownViews
        /\ [vm[d] EXCEPT !.showAlert = TRUE] \in KnownViews
        /\ [vm[d] EXCEPT !.showAlert = FALSE] \in KnownViews
    BY <1>1, KnownViewUpdates
  <1> QED BY <1>1, <1>2, <1>3

(* Sending a request about a known match.                                     *)
LEMMA SendKnown ==
    ASSUME GhostInv, NEW d \in Devices, NEW r \in Request, Send(d, r),
           r.kind \in {"list", "create"} \/ r.match \in Known
    PROVE  requests' \in [Devices -> Seq(KnownRequests)]
  <1>1. r \in KnownRequests
    BY DEF KnownRequests
  <1>2. requests \in [Devices -> Seq(KnownRequests)]
    BY DEF GhostInv, KnownPhones
  <1>3. Append(requests[d], r) \in Seq(KnownRequests)
    BY <1>1, <1>2, QueueAdd
  <1> QED BY <1>2, <1>3 DEF Send

(* An app that stops holds nothing that is not known.                         *)
LEMMA StopsKnown ==
    ASSUME GhostInv, NEW d \in Devices, NEW how, Stops(d, how)
    PROVE  StaysKnown
  <1>1. requests' \in [Devices -> Seq(KnownRequests)]
    BY QueuePrefix DEF GhostInv, KnownPhones, Stops
  <1>2. replies' \in [Devices -> Seq(KnownReplies)]
    BY EmptySeq DEF GhostInv, KnownPhones, Stops
  <1>3. vm' \in [Devices -> KnownViews]
    BY KnownViewUpdates, KnownViewSteps DEF Stops
  <1>4. screen' \in [Devices -> KnownScreens]
    BY DEF GhostInv, KnownPhones, Stops, KnownScreens
  <1> QED BY <1>1, <1>2, <1>3, <1>4 DEF StaysKnown

(* A card or a selected match with a matchID is about a known match.           *)
LEMMA CardsKnown ==
    ASSUME GhostInv, NEW d \in Devices
    PROVE  /\ \A card \in ShownCards(d) :
                 card.matchID # None => card.matchID \in Known
           /\ vm[d].selectedMatch.matchID # None
                 => vm[d].selectedMatch.matchID \in Known
  <1>1. vm[d] \in KnownViews
    BY KnownViewSteps
  <1>2. vm[d].matchsModelList \in Seq([Matches -> KnownCards])
    BY <1>1 DEF KnownViews
  <1>3. ASSUME NEW i \in 1..Len(vm[d].matchsModelList), NEW m \in Matches
        PROVE  vm[d].matchsModelList[i][m] \in KnownCards
    BY <1>2, ElementOfSeq
  <1>4. ShownCards(d) \subseteq KnownModels
    BY <1>3 DEF ShownCards, KnownCards
  <1>5. vm[d].selectedMatch \in KnownModels
    BY <1>1 DEF KnownViews
  <1> QED BY <1>4, <1>5 DEF KnownModels



(* The match a detail screen was opened for is known.                          *)
LEMMA ScreenKnown ==
    ASSUME GhostInv, NEW d \in Devices, OnDetail(d)
    PROVE  screen[d] \in Known /\ screen[d] \in Matches
  BY ScreensAreNew DEF GhostInv, KnownPhones, KnownScreens, OnDetail

(* What a user does on a phone sends requests about what the phone shows.      *)
LEMMA UserKeepsKnown ==
    ASSUME TypeOK, GhostInv, NEW d \in Devices, User(d)
    PROVE  StaysKnown /\ UNCHANGED <<db, deleted>>
  <1> USE DEF histVars, netHist
  <1>0. /\ screen \in [Devices -> KnownScreens] /\ vm \in [Devices -> KnownViews]
        /\ requests \in [Devices -> Seq(KnownRequests)]
        /\ replies \in [Devices -> Seq(KnownReplies)]
        /\ Known \subseteq Matches
    BY DEF GhostInv, KnownPhones, Known
  <1>1. \A kind \in {"roster", "detail", "delete"} : \A m :
           Req(kind, m).kind = kind /\ Req(kind, m).match = m
    BY DEF Req
  <1>2. Req("list", None) \in Request /\ Req("list", None).kind = "list"
    BY RequestTypes DEF Req
  <1>Launch. CASE Launch(d)
    <2>1. requests' \in [Devices -> Seq(KnownRequests)]
      BY <1>Launch, <1>2, SendKnown DEF Launch
    <2>2. vm' \in [Devices -> KnownViews]
      BY <1>Launch, KnownViewUpdates, KnownViewSteps DEF Launch
    <2> QED BY <1>Launch, <1>0, <2>1, <2>2 DEF Launch, StaysKnown
  <1>Refresh. CASE Refresh(d)
    <2>1. requests' \in [Devices -> Seq(KnownRequests)]
      BY <1>Refresh, <1>2, SendKnown DEF Refresh
    <2>2. vm' \in [Devices -> KnownViews]
      BY <1>Refresh, KnownViewSteps DEF Refresh
    <2> QED BY <1>Refresh, <1>0, <2>1, <2>2 DEF Refresh, StaysKnown
  <1>OpenDetail. CASE OpenDetail(d)
    <2>1. PICK card \in ShownCards(d) :
            \/ /\ card.matchID # None
               /\ screen' = [screen EXCEPT ![d] = card.matchID]
               /\ vm' = [vm EXCEPT ![d] = Loading(@)]
               /\ Send(d, Req("detail", card.matchID))
               /\ UNCHANGED <<app, form, replies>>
            \/ card.matchID = None /\ Stops(d, "crashed")
      BY <1>OpenDetail DEF OpenDetail
    <2>2. UNCHANGED <<db, deleted>>
      BY <1>OpenDetail DEF OpenDetail
    <2>3. CASE Stops(d, "crashed")
      BY <2>2, <2>3, StopsKnown
    <2>4. CASE /\ card.matchID # None
               /\ screen' = [screen EXCEPT ![d] = card.matchID]
               /\ vm' = [vm EXCEPT ![d] = Loading(@)]
               /\ Send(d, Req("detail", card.matchID))
               /\ UNCHANGED replies
      <3>1. card.matchID \in Known
        BY <2>4, CardsKnown
      <3>2. Req("detail", card.matchID) \in Request
        BY <3>1, <1>0, RequestTypes
      <3>3. requests' \in [Devices -> Seq(KnownRequests)]
        BY <2>4, <3>1, <3>2, <1>1, SendKnown
      <3>4. vm' \in [Devices -> KnownViews]
        BY <2>4, KnownViewSteps
      <3> QED BY <1>0, <2>2, <2>4, <3>1, <3>3, <3>4 DEF StaysKnown, KnownScreens
    <2> QED BY <2>1, <2>3, <2>4
  <1>Reappear. CASE Reappear(d)
    <2>1. screen[d] \in Known
      BY <1>Reappear, ScreenKnown DEF Reappear
    <2>2. Req("detail", screen[d]) \in Request
      BY <2>1, <1>0, RequestTypes
    <2>3. requests' \in [Devices -> Seq(KnownRequests)]
      BY <1>Reappear, <2>1, <2>2, <1>1, SendKnown DEF Reappear
    <2>4. vm' \in [Devices -> KnownViews]
      BY <1>Reappear, KnownViewSteps DEF Reappear
    <2> QED BY <1>Reappear, <1>0, <2>3, <2>4 DEF Reappear, StaysKnown
  <1>Back. CASE Back(d)
    BY <1>Back, <1>0 DEF Back, StaysKnown, KnownScreens
  <1>DismissAlert. CASE DismissAlert(d)
    <2>1. vm' \in [Devices -> KnownViews]
      BY Zenon, <1>DismissAlert, <1>0, KnownViewSteps DEF DismissAlert
    <2> QED BY <1>DismissAlert, <1>0, <2>1 DEF DismissAlert, StaysKnown
  <1>joinMatches. CASE joinMatches(d)
    <2>1. PICK card \in ShownCards(d) :
            CanStillJoin(card) /\ Send(d, Req("roster", card.matchID))
      BY <1>joinMatches DEF joinMatches
    <2>2. card.matchID \in Known
      BY <2>1, CardsKnown DEF CanStillJoin
    <2>3. Req("roster", card.matchID) \in Request
      BY <2>2, <1>0, RequestTypes
    <2>4. requests' \in [Devices -> Seq(KnownRequests)]
      BY <2>1, <2>2, <2>3, <1>1, SendKnown
    <2>5. vm' \in [Devices -> KnownViews]
      BY <1>joinMatches, KnownViewSteps DEF joinMatches
    <2> QED BY <1>joinMatches, <1>0, <2>4, <2>5 DEF joinMatches, StaysKnown
  <1>leaveMatches. CASE leaveMatches(d)
    <2>1. PICK card \in ShownCards(d) :
            /\ CanStillJoin(card)
            /\ Send(d, [Req("leave", card.matchID) EXCEPT !.user = Owner[d]])
      BY <1>leaveMatches DEF leaveMatches
    <2> DEFINE r == [Req("leave", card.matchID) EXCEPT !.user = Owner[d]]
    <2>2. card.matchID \in Known
      BY <2>1, CardsKnown DEF CanStillJoin
    <2>3. r \in Request
      BY <2>2, <1>0, RequestTypes, OwnerType
    <2>4. r.match = card.matchID
      BY DEF Req
    <2>5. requests' \in [Devices -> Seq(KnownRequests)]
      <3> HIDE DEF r
      <3> QED BY <2>1, <2>2, <2>3, <2>4, SendKnown DEF r
    <2>6. vm' \in [Devices -> KnownViews]
      BY <1>leaveMatches, KnownViewSteps DEF leaveMatches
    <2> QED BY <1>leaveMatches, <1>0, <2>5, <2>6 DEF leaveMatches, StaysKnown
  <1>deleteMatches. CASE deleteMatches(d)
    <2>1. PICK card \in ShownCards(d) :
            \/ /\ card.matchID # None
               /\ vm' = [vm EXCEPT ![d] = Loading(@)]
               /\ Send(d, Req("delete", card.matchID))
               /\ UNCHANGED <<app, screen, form, replies>>
            \/ card.matchID = None /\ Stops(d, "crashed")
      BY <1>deleteMatches DEF deleteMatches
    <2>2. UNCHANGED <<db, deleted>>
      BY <1>deleteMatches DEF deleteMatches
    <2>3. CASE Stops(d, "crashed")
      BY <2>2, <2>3, StopsKnown
    <2>4. CASE /\ card.matchID # None
               /\ vm' = [vm EXCEPT ![d] = Loading(@)]
               /\ Send(d, Req("delete", card.matchID))
               /\ UNCHANGED <<screen, replies>>
      <3>1. card.matchID \in Known
        BY <2>4, CardsKnown
      <3>2. Req("delete", card.matchID) \in Request
        BY <3>1, <1>0, RequestTypes
      <3>3. requests' \in [Devices -> Seq(KnownRequests)]
        BY <2>4, <3>1, <3>2, <1>1, SendKnown
      <3>4. vm' \in [Devices -> KnownViews]
        BY <2>4, KnownViewSteps
      <3> QED BY <1>0, <2>2, <2>4, <3>3, <3>4 DEF StaysKnown
    <2> QED BY <2>1, <2>3, <2>4
  <1>place. CASE setPlayerPositionWithMatch(d)
    <2> DEFINE m == vm[d].selectedMatch.matchID
    <2>1. PICK u \in vm[d].unselectedPlayer, s \in Slots :
            \/ /\ m # None
               /\ vm' = [vm EXCEPT ![d] = Loading(@)]
               /\ Send(d, [Req("place", m) EXCEPT !.slot = s, !.user = u])
               /\ UNCHANGED <<app, screen, form, replies>>
            \/ m = None /\ Stops(d, "crashed")
      BY <1>place DEF setPlayerPositionWithMatch
    <2>2. UNCHANGED <<db, deleted>>
      BY <1>place DEF setPlayerPositionWithMatch
    <2>3. CASE Stops(d, "crashed")
      BY <2>2, <2>3, StopsKnown
    <2>4. CASE /\ m # None
               /\ vm' = [vm EXCEPT ![d] = Loading(@)]
               /\ Send(d, [Req("place", m) EXCEPT !.slot = s, !.user = u])
               /\ UNCHANGED <<screen, replies>>
      <3>1. m \in Known
        BY <2>4, CardsKnown
      <3>2. u \in Users
        BY ShownCardsType DEF ViewModel
      <3> DEFINE r == [Req("place", m) EXCEPT !.slot = s, !.user = u]
      <3>3. r \in Request
        BY <3>1, <3>2, <1>0, RequestTypes
      <3>4. r.match = m
        BY DEF Req
      <3>5. requests' \in [Devices -> Seq(KnownRequests)]
        <4> HIDE DEF r, m
        <4> QED BY <2>4, <3>1, <3>3, <3>4, SendKnown DEF r
      <3>6. vm' \in [Devices -> KnownViews]
        BY <2>4, KnownViewSteps
      <3> QED BY <1>0, <2>2, <2>4, <3>5, <3>6 DEF StaysKnown
    <2> QED BY <2>1, <2>3, <2>4
  <1>vacate. CASE deletePlayerPositionWithMatch(d)
    <2>1. screen[d] \in Known
      BY <1>vacate, ScreenKnown DEF deletePlayerPositionWithMatch
    <2>2. PICK s \in Slots : Send(d, [Req("vacate", screen[d]) EXCEPT !.slot = s])
      BY <1>vacate DEF deletePlayerPositionWithMatch
    <2> DEFINE r == [Req("vacate", screen[d]) EXCEPT !.slot = s]
    <2>3. r \in Request
      BY <2>1, <1>0, RequestTypes
    <2>4. r.match = screen[d]
      BY DEF Req
    <2>5. requests' \in [Devices -> Seq(KnownRequests)]
      <3> HIDE DEF r
      <3> QED BY <2>1, <2>2, <2>3, <2>4, SendKnown DEF r
    <2>6. vm' \in [Devices -> KnownViews]
      BY <1>vacate, KnownViewSteps DEF deletePlayerPositionWithMatch
    <2> QED BY <1>vacate, <1>0, <2>5, <2>6 DEF deletePlayerPositionWithMatch, StaysKnown
  <1>plan. CASE setIsPlanningCompleteForMatch(d)
    <2>1. screen[d] \in Known
      BY <1>plan, ScreenKnown DEF setIsPlanningCompleteForMatch
    <2>2. PICK p \in {"no", "yes"} : Send(d, [Req("plan", screen[d]) EXCEPT !.plan = p])
      BY <1>plan DEF setIsPlanningCompleteForMatch
    <2> DEFINE r == [Req("plan", screen[d]) EXCEPT !.plan = p]
    <2>3. r \in Request
      BY <2>1, <1>0, RequestTypes
    <2>4. r.match = screen[d]
      BY DEF Req
    <2>5. requests' \in [Devices -> Seq(KnownRequests)]
      <3> HIDE DEF r
      <3> QED BY <2>1, <2>2, <2>3, <2>4, SendKnown DEF r
    <2>6. vm' \in [Devices -> KnownViews]
      BY <1>plan, KnownViewSteps DEF setIsPlanningCompleteForMatch
    <2> QED BY <1>plan, <1>0, <2>5, <2>6 DEF setIsPlanningCompleteForMatch, StaysKnown
  <1>comment. CASE addComment(d)
    <2> DEFINE m == vm[d].selectedMatch.matchID
    <2>1. UNCHANGED <<db, deleted>>
      BY <1>comment DEF addComment
    <2>2. CASE Stops(d, "crashed")
      BY <2>1, <2>2, StopsKnown
    <2>3. CASE /\ m # None
               /\ vm' = [vm EXCEPT ![d] = Loading(@)]
               /\ Send(d, [Req("comment", m) EXCEPT !.about = screen[d]])
               /\ UNCHANGED <<screen, replies>>
      <3>1. m \in Known /\ screen[d] \in Matches
        BY <1>comment, <2>3, CardsKnown DEF addComment, OnDetail
      <3> DEFINE r == [Req("comment", m) EXCEPT !.about = screen[d]]
      <3>3. r \in Request
        BY <3>1, <1>0, RequestTypes
      <3>4. r.match = m
        BY DEF Req
      <3>5. requests' \in [Devices -> Seq(KnownRequests)]
        <4> HIDE DEF r, m
        <4> QED BY <2>3, <3>1, <3>3, <3>4, SendKnown DEF r
      <3>6. vm' \in [Devices -> KnownViews]
        BY <2>3, KnownViewSteps
      <3> QED BY <1>0, <2>1, <2>3, <3>5, <3>6 DEF StaysKnown
    <2> QED BY <1>comment, <2>2, <2>3 DEF addComment
  <1>OpenCreate. CASE OpenCreate(d)
    BY <1>OpenCreate, <1>0 DEF OpenCreate, StaysKnown, KnownScreens
  <1>createMatch. CASE createMatch(d)
    <2>1. PICK m \in Matches : Send(d, [Req("create", m) EXCEPT !.visit = form[d].visit])
      BY <1>createMatch DEF createMatch
    <2> DEFINE r == [Req("create", m) EXCEPT !.visit = form[d].visit]
    <2>2. form[d].visit \in Nat
      BY DEF TypeOK, Form
    <2>3. r \in Request
      BY <2>2, RequestTypes
    <2>4. r.kind = "create"
      BY DEF Req
    <2>5. requests' \in [Devices -> Seq(KnownRequests)]
      <3> HIDE DEF r
      <3> QED BY <2>1, <2>3, <2>4, SendKnown DEF r
    <2> QED BY <1>createMatch, <1>0, <2>5 DEF createMatch, StaysKnown
  <1> QED
    BY <1>Launch, <1>Refresh, <1>OpenDetail, <1>Reappear, <1>Back, <1>DismissAlert,
       <1>joinMatches, <1>leaveMatches, <1>deleteMatches, <1>place, <1>vacate,
       <1>plan, <1>comment, <1>OpenCreate, <1>createMatch
    DEF User


(* A callback takes an answer about a known match.                             *)
LEMMA AnsweredKnown ==
    ASSUME TypeOK, GhostInv, NEW d \in Devices, NEW kind, Answered(d, kind)
    PROVE  /\ replies' \in [Devices -> Seq(KnownReplies)]
           /\ Head(replies[d]).req \in Request
           /\ Head(replies[d]).snap \in KnownStores
           /\ Head(replies[d]).req.kind = kind
           /\ kind \notin {"list", "create"} =>
                 Head(replies[d]).req.match \in Known \cap Matches
  <1>1. replies \in [Devices -> Seq(KnownReplies)]
    BY DEF GhostInv, KnownPhones
  <1>2. replies[d] \in Seq(KnownReplies) /\ replies[d] # <<>>
    BY <1>1 DEF Answered
  <1>3. Head(replies[d]) \in KnownReplies /\ Tail(replies[d]) \in Seq(KnownReplies)
    BY <1>2, QueueTake
  <1>4. replies' \in [Devices -> Seq(KnownReplies)]
    BY <1>1, <1>3 DEF Answered
  <1>5. Head(replies[d]).req \in KnownRequests /\ Head(replies[d]).snap \in KnownStores
    BY <1>3 DEF KnownReplies
  <1> QED BY <1>4, <1>5 DEF KnownRequests, Known, Answered

(* Models made from what an answer brought are about known matches.            *)
LEMMA ParsedKnown ==
    ASSUME NEW store \in KnownStores
    PROVE  /\ CardsOf(store) \in [Matches -> KnownCards]
           /\ \A m \in Matches : Parsed(m, store[m]) \in KnownModels
  <1>1. store \in Store /\ \A m \in Matches : store[m].info => m \in Known
    BY DEF KnownStores
  <1>2. ASSUME NEW m \in Matches PROVE Parsed(m, store[m]) \in KnownModels
    <2>1. Parsed(m, store[m]) \in MatchsModel
      BY <1>1, ParsedType DEF Store
    <2>2. Parsed(m, store[m]).matchID = IF store[m].info THEN m ELSE None
      BY DEF Parsed
    <2> QED BY <1>1, <2>1, <2>2 DEF KnownModels
  <1> QED BY <1>2 DEF CardsOf, KnownCards

(* The two ways most callbacks end.                                            *)
LEMMA EndsKnown ==
    ASSUME GhostInv, NEW d \in Devices, NEW v \in KnownViews,
           ThenAllMatchs(d, v) \/ ThenAlert(d)
    PROVE  /\ vm' \in [Devices -> KnownViews]
           /\ requests' \in [Devices -> Seq(KnownRequests)]
  <1>1. CASE ThenAllMatchs(d, v)
    <2>1. Req("list", None) \in Request /\ Req("list", None).kind = "list"
      BY RequestTypes DEF Req
    <2>2. requests' \in [Devices -> Seq(KnownRequests)]
      BY <1>1, <2>1, SendKnown DEF ThenAllMatchs
    <2> QED BY <1>1, <2>2, KnownViewUpdates, KnownViewSteps DEF ThenAllMatchs
  <1>2. CASE ThenAlert(d)
    BY <1>2, KnownViewSteps DEF ThenAlert, GhostInv, KnownPhones
  <1> QED BY <1>1, <1>2

(* A callback sends, if anything, a request about the match it was told of.    *)
LEMMA CallbackKeepsKnown ==
    ASSUME TypeOK, GhostInv, NEW d \in Devices, Callback(d)
    PROVE  StaysKnown /\ UNCHANGED <<db, deleted>>
  <1> DEFINE a == Head(replies[d])
  <1> USE DEF callbackUnchanged
  <1>0. /\ screen \in [Devices -> KnownScreens] /\ vm \in [Devices -> KnownViews]
        /\ vm[d] \in KnownViews
        /\ requests \in [Devices -> Seq(KnownRequests)]
    BY DEF GhostInv, KnownPhones
  <1>1. \A m \in Known \cap Matches :
          Send(d, Req("detail", m)) => requests' \in [Devices -> Seq(KnownRequests)]
    <2> SUFFICES ASSUME NEW m \in Known \cap Matches, Send(d, Req("detail", m))
                 PROVE  requests' \in [Devices -> Seq(KnownRequests)]
      OBVIOUS
    <2>1. Req("detail", m) \in Request /\ Req("detail", m).match = m
      BY RequestTypes DEF Req
    <2> QED BY <2>1, SendKnown
  <1>OnAllMatchs. CASE OnAllMatchs(d)
    <2>1. a.snap \in KnownStores /\ replies' \in [Devices -> Seq(KnownReplies)]
      BY <1>OnAllMatchs, AnsweredKnown DEF OnAllMatchs
    <2>2. CardsOf(a.snap) \in [Matches -> KnownCards]
      BY <2>1, ParsedKnown
    <2>3. Listed(vm[d], a.snap) \in KnownViews
      <3>1. vm[d] \in ViewModel /\ vm[d].selectedMatch \in KnownModels
            /\ vm[d].matchsModelList \in Seq([Matches -> KnownCards])
        BY <1>0 DEF KnownViews
      <3>2. vm[d].matchsModelList \in Seq([Matches -> Card])
            /\ CardsOf(a.snap) \in [Matches -> Card]
        BY <2>1, <3>1, CardsType DEF ViewModel, KnownStores
      <3> DEFINE q == Append(vm[d].matchsModelList, CardsOf(a.snap))
      <3>3. q \in Seq([Matches -> Card]) /\ q \in Seq([Matches -> KnownCards])
        BY <2>2, <3>1, <3>2, QueueAdd
      <3>4. Listed(vm[d], a.snap) = [vm[d] EXCEPT !.isLoad = FALSE, !.matchsModelList = q]
        BY <3>1 DEF Listed, ViewModel
      <3> HIDE DEF q
      <3>5. /\ Listed(vm[d], a.snap) \in ViewModel
            /\ Listed(vm[d], a.snap).matchsModelList = q
            /\ Listed(vm[d], a.snap).selectedMatch = vm[d].selectedMatch
        BY <3>1, <3>3, <3>4 DEF ViewModel
      <3> QED BY <3>1, <3>3, <3>5 DEF KnownViews
    <2>4. [Alerted(vm[d]) EXCEPT !.matchsModelList = <<>>] \in KnownViews
      <3> DEFINE v == Alerted(vm[d])
      <3>1. v \in ViewModel /\ v.selectedMatch \in KnownModels
        BY <1>0, KnownViewUpdates DEF KnownViews
      <3> HIDE DEF v
      <3>2. /\ [v EXCEPT !.matchsModelList = <<>>] \in ViewModel
            /\ [v EXCEPT !.matchsModelList = <<>>].matchsModelList = <<>>
            /\ [v EXCEPT !.matchsModelList = <<>>].selectedMatch = v.selectedMatch
        BY <3>1, EmptySeq DEF ViewModel
      <3>3. [v EXCEPT !.matchsModelList = <<>>] \in KnownViews
        BY <3>1, <3>2, EmptySeq DEF KnownViews
      <3> QED BY <3>3 DEF v
    <2>5. vm' \in [Devices -> KnownViews]
      <3>1. CASE vm' = [vm EXCEPT ![d] = Listed(@, a.snap)]
        BY <1>0, <2>3, <3>1
      <3>2. CASE vm' = [vm EXCEPT ![d] = [Alerted(@) EXCEPT !.matchsModelList = <<>>]]
        BY <1>0, <2>4, <3>2
      <3> QED BY <1>OnAllMatchs, <1>0, <3>1, <3>2 DEF OnAllMatchs
    <2> QED BY <1>OnAllMatchs, <1>0, <2>1, <2>5 DEF OnAllMatchs, StaysKnown
  <1>OnRoster. CASE OnRoster(d)
    <2>1. /\ replies' \in [Devices -> Seq(KnownReplies)]
          /\ a.req.match \in Known \cap Matches
      BY <1>OnRoster, AnsweredKnown DEF OnRoster
    <2>2. CASE vm' = [vm EXCEPT ![d].showAlert = TRUE] /\ UNCHANGED requests
      BY <1>OnRoster, <1>0, <2>1, <2>2, KnownViewSteps DEF OnRoster, StaysKnown
    <2>3. CASE /\ Send(d, [Req("join", a.req.match) EXCEPT !.user = Owner[d]])
               /\ UNCHANGED vm
      <3> DEFINE r == [Req("join", a.req.match) EXCEPT !.user = Owner[d]]
      <3>1. r \in Request /\ r.match = a.req.match
        BY <2>1, RequestTypes, OwnerType DEF Req
      <3>2. requests' \in [Devices -> Seq(KnownRequests)]
        <4> HIDE DEF r, a
        <4> QED BY <2>1, <2>3, <3>1, SendKnown DEF r
      <3> QED BY <1>OnRoster, <1>0, <2>1, <2>3, <3>2 DEF OnRoster, StaysKnown
    <2>4. CASE ThenAlert(d)
      BY <1>OnRoster, <1>0, <2>1, <2>4, EndsKnown DEF OnRoster, StaysKnown
    <2> QED BY <1>OnRoster, <2>2, <2>3, <2>4 DEF OnRoster
  <1>OnJoined. CASE OnJoined(d)
    <2>1. replies' \in [Devices -> Seq(KnownReplies)]
      BY <1>OnJoined, AnsweredKnown DEF OnJoined
    <2>2. PICK b \in BOOLEAN : ThenAllMatchs(d, [vm[d] EXCEPT !.showAlert = b])
      BY <1>OnJoined, ShownCardsType DEF OnJoined, ViewModel
    <2>3. [vm[d] EXCEPT !.showAlert = b] \in KnownViews
      BY <1>0, KnownViewUpdates
    <2>4. /\ vm' \in [Devices -> KnownViews]
          /\ requests' \in [Devices -> Seq(KnownRequests)]
      BY <2>2, <2>3, EndsKnown
    <2> QED BY <1>OnJoined, <1>0, <2>1, <2>4 DEF OnJoined, StaysKnown
  <1>OnLeft. CASE OnLeft(d)
    <2>1. /\ replies' \in [Devices -> Seq(KnownReplies)]
          /\ a.req \in Request /\ a.req.kind = "leave"
          /\ a.req.match \in Known \cap Matches
      BY <1>OnLeft, AnsweredKnown DEF OnLeft
    <2>2. CASE /\ vm' = [vm EXCEPT ![d] = Loading(@)]
               /\ Send(d, [Req("area", a.req.match) EXCEPT !.user = a.req.user])
      <3> DEFINE r == [Req("area", a.req.match) EXCEPT !.user = a.req.user]
      <3>0. a.req.user \in Users
        BY <2>1 DEF Request
      <3>1. r \in Request /\ r.match = a.req.match
        BY <2>1, <3>0, RequestTypes DEF Req
      <3>2. requests' \in [Devices -> Seq(KnownRequests)]
        <4> HIDE DEF r, a
        <4> QED BY <2>1, <2>2, <3>1, SendKnown DEF r
      <3> QED BY <1>OnLeft, <1>0, <2>1, <2>2, <3>2, KnownViewSteps DEF OnLeft, StaysKnown
    <2>3. CASE ThenAlert(d)
      BY <1>OnLeft, <1>0, <2>1, <2>3, EndsKnown DEF OnLeft, StaysKnown
    <2> QED BY <1>OnLeft, <2>2, <2>3 DEF OnLeft
  <1>OnArea. CASE OnArea(d)
    <2>1. /\ replies' \in [Devices -> Seq(KnownReplies)]
          /\ a.req.match \in Known \cap Matches
      <3>1. Answered(d, "area")
        BY Zenon, <1>OnArea DEF OnArea
      <3> QED BY <3>1, AnsweredKnown
    <2>2. CASE /\ vm' = [vm EXCEPT ![d] = Loading(@)]
               /\ \E s \in Slots :
                    Send(d, [Req("areaRemove", a.req.match) EXCEPT !.slot = s])
      <3>0. PICK s \in Slots : Send(d, [Req("areaRemove", a.req.match) EXCEPT !.slot = s])
        BY <2>2
      <3> DEFINE r == [Req("areaRemove", a.req.match) EXCEPT !.slot = s]
      <3>1. r \in Request /\ r.match = a.req.match
        BY <2>1, RequestTypes DEF Req
      <3>2. requests' \in [Devices -> Seq(KnownRequests)]
        <4> HIDE DEF r, a
        <4> QED BY Zenon, <2>1, <3>0, <3>1, SendKnown DEF r
      <3> QED BY Zenon, <1>OnArea, <1>0, <2>1, <2>2, <3>2, KnownViewSteps DEF OnArea, StaysKnown
    <2>3. CASE ThenAlert(d) \/ ThenAllMatchs(d, vm[d])
      BY Zenon, <1>OnArea, <1>0, <2>1, <2>3, EndsKnown DEF OnArea, StaysKnown
    <2> QED BY Zenon, <1>OnArea, <2>2, <2>3 DEF OnArea
  <1>OnAreaRemoved. CASE OnAreaRemoved(d)
    <2>1. replies' \in [Devices -> Seq(KnownReplies)]
      BY <1>OnAreaRemoved, AnsweredKnown DEF OnAreaRemoved
    <2> QED BY <1>OnAreaRemoved, <1>0, <2>1, EndsKnown DEF OnAreaRemoved, StaysKnown
  <1>OnDeleted. CASE OnDeleted(d)
    <2>1. replies' \in [Devices -> Seq(KnownReplies)]
      BY <1>OnDeleted, AnsweredKnown DEF OnDeleted
    <2> QED BY <1>OnDeleted, <1>0, <2>1, EndsKnown DEF OnDeleted, StaysKnown
  <1>OnPositionWritten. CASE OnPositionWritten(d)
    <2>1. /\ replies' \in [Devices -> Seq(KnownReplies)]
          /\ a.req.match \in Known \cap Matches
      BY <1>OnPositionWritten, AnsweredKnown DEF OnPositionWritten
    <2>2. CASE /\ Send(d, Req("detail", a.req.match))
               /\ vm' = [vm EXCEPT ![d].isLoad = FALSE]
      BY <1>OnPositionWritten, <1>0, <1>1, <2>1, <2>2, KnownViewSteps
         DEF OnPositionWritten, StaysKnown
    <2>3. CASE ThenAlert(d)
      BY <1>OnPositionWritten, <1>0, <2>1, <2>3, EndsKnown DEF OnPositionWritten, StaysKnown
    <2> QED BY <1>OnPositionWritten, <2>2, <2>3 DEF OnPositionWritten
  <1>OnMatch. CASE OnMatch(d)
    <2> DEFINE model == Parsed(a.req.match, a.snap[a.req.match])
    <2>1. /\ replies' \in [Devices -> Seq(KnownReplies)]
          /\ a.req.match \in Known \cap Matches
          /\ a.snap \in KnownStores
      BY <1>OnMatch, AnsweredKnown DEF OnMatch
    <2>2. model \in KnownModels /\ Unselected(model) \in SUBSET Users
      BY <2>1, ParsedKnown, UnselectedType DEF KnownModels
    <2>3. [vm[d] EXCEPT !.isLoad = FALSE, !.selectedMatch = model,
                        !.unselectedPlayer = Unselected(model)] \in KnownViews
      <3> HIDE DEF model
      <3> DEFINE v == [vm[d] EXCEPT !.isLoad = FALSE, !.selectedMatch = model,
                                    !.unselectedPlayer = Unselected(model)]
      <3>1. vm[d] \in ViewModel /\ vm[d].matchsModelList \in Seq([Matches -> KnownCards])
        BY <1>0 DEF KnownViews
      <3>2. model \in MatchsModel
        BY <2>2 DEF KnownModels
      <3>3. v \in ViewModel
        BY <2>2, <3>1, <3>2 DEF ViewModel
      <3>4. v.selectedMatch = model /\ v.matchsModelList = vm[d].matchsModelList
        BY <3>1 DEF ViewModel
      <3> QED BY <2>2, <3>1, <3>3, <3>4 DEF KnownViews
    <2>4. CASE ThenAlert(d)
      BY <1>OnMatch, <1>0, <2>1, <2>4, EndsKnown DEF OnMatch, StaysKnown
    <2>5. CASE vm' = [vm EXCEPT ![d].isLoad = FALSE] /\ UNCHANGED requests
      BY <1>OnMatch, <1>0, <2>1, <2>5, KnownViewSteps DEF OnMatch, StaysKnown
    <2>6. CASE /\ vm' = [vm EXCEPT ![d] =
                           [@ EXCEPT !.isLoad = FALSE, !.selectedMatch = model,
                                     !.unselectedPlayer = Unselected(model)]]
               /\ UNCHANGED requests
      <3> HIDE DEF model
      <3>1. vm' \in [Devices -> KnownViews]
        BY <2>3, <2>6, KnownViewSteps
      <3> QED BY <1>OnMatch, <1>0, <2>1, <2>6, <3>1 DEF OnMatch, StaysKnown
    <2> QED BY <1>OnMatch, <2>4, <2>5, <2>6 DEF OnMatch
  <1>OnPlanned. CASE OnPlanned(d)
    <2>1. /\ replies' \in [Devices -> Seq(KnownReplies)]
          /\ a.req.match \in Known \cap Matches
      BY <1>OnPlanned, AnsweredKnown DEF OnPlanned
    <2>2. CASE Send(d, Req("detail", a.req.match)) /\ vm' = [vm EXCEPT ![d] = Loading(@)]
      BY <1>OnPlanned, <1>0, <1>1, <2>1, <2>2, KnownViewSteps DEF OnPlanned, StaysKnown
    <2>3. CASE ThenAlert(d)
      BY <1>OnPlanned, <1>0, <2>1, <2>3, EndsKnown DEF OnPlanned, StaysKnown
    <2> QED BY <1>OnPlanned, <2>2, <2>3 DEF OnPlanned
  <1>OnCommented. CASE OnCommented(d)
    <2>1. /\ replies' \in [Devices -> Seq(KnownReplies)]
          /\ a.req.match \in Known \cap Matches
      BY <1>OnCommented, AnsweredKnown DEF OnCommented
    <2>2. CASE Send(d, Req("detail", a.req.match)) /\ vm' = [vm EXCEPT ![d] = Loading(@)]
      BY <1>OnCommented, <1>0, <1>1, <2>1, <2>2, KnownViewSteps DEF OnCommented, StaysKnown
    <2>3. CASE ThenAlert(d)
      BY <1>OnCommented, <1>0, <2>1, <2>3, EndsKnown DEF OnCommented, StaysKnown
    <2> QED BY <1>OnCommented, <2>2, <2>3 DEF OnCommented
  <1>OnCreated. CASE OnCreated(d)
    <2>1. replies' \in [Devices -> Seq(KnownReplies)]
      BY <1>OnCreated, AnsweredKnown DEF OnCreated
    <2>2. CASE screen' = [screen EXCEPT ![d] = "list"] /\ ThenAllMatchs(d, vm[d])
      BY <1>OnCreated, <1>0, <2>1, <2>2, EndsKnown DEF OnCreated, StaysKnown, KnownScreens
    <2>3. CASE UNCHANGED <<screen, vm, requests>>
      BY <1>OnCreated, <1>0, <2>1, <2>3 DEF OnCreated, StaysKnown
    <2> QED BY <1>OnCreated, <2>2, <2>3 DEF OnCreated
  <1> QED
    BY <1>OnAllMatchs, <1>OnRoster, <1>OnJoined, <1>OnLeft, <1>OnArea, <1>OnAreaRemoved,
       <1>OnDeleted, <1>OnPositionWritten, <1>OnMatch, <1>OnPlanned, <1>OnCommented,
       <1>OnCreated
    DEF Callback


(* An answer about a known match that brings only what is known.               *)
LEMMA AnswerKnown ==
    ASSUME GhostInv, NEW d \in Devices, NEW r \in KnownRequests, NEW ok \in BOOLEAN,
           NEW snap \in KnownStores, Answer(d, r, ok, snap)
    PROVE  replies' \in [Devices -> Seq(KnownReplies)]
  <1>1. replies \in [Devices -> Seq(KnownReplies)]
    BY DEF GhostInv, KnownPhones
  <1>2. [req |-> r, ok |-> ok, snap |-> snap] \in KnownReplies
    BY DEF KnownReplies, KnownRequests, KnownStores, Reply
  <1>3. Append(replies[d], [req |-> r, ok |-> ok, snap |-> snap]) \in Seq(KnownReplies)
    BY <1>1, <1>2, QueueAdd
  <1> QED BY <1>1, <1>3 DEF Answer

(* A tree without matches brings nothing unknown; neither does a read.         *)
LEMMA StoresKnown ==
    ASSUME TypeOK, GhostInv
    PROVE  /\ EmptyStore \in KnownStores
           /\ \A r \in Request : Snapshot(db, r) \in KnownStores
  <1>1. \A m \in Matches : EmptyStore[m].info = FALSE
    BY DEF EmptyStore, EmptyNode
  <1>2. EmptyStore \in KnownStores
    BY <1>1, EmptyStoreType DEF KnownStores
  <1>3. ASSUME NEW r \in Request, NEW m \in Matches, Snapshot(db, r)[m].info
        PROVE  m \in Known
    <2>1. EmptyNode.info = FALSE /\ [EmptyNode EXCEPT !.players = db[m].players].info = FALSE
      BY DEF EmptyNode
    <2>2. Snapshot(db, r)[m] \in
            {db[m], EmptyNode, [EmptyNode EXCEPT !.players = db[m].players]}
      BY DEF Snapshot
    <2>3. db[m].info
      BY <1>3, <2>1, <2>2
    <2> QED BY <2>3 DEF Known
  <1>4. \A r \in Request : Snapshot(db, r) \in Store
    BY SnapshotType DEF TypeOK
  <1> QED BY <1>2, <1>3, <1>4 DEF KnownStores

(* A write that takes effect leaves no unknown match behind: a creation writes *)
(* the fields, a deletion is noted, and the others go below a known match.     *)
LEMMA CommitKnown ==
    ASSUME TypeOK, GhostInv, NEW d \in Devices, Commit(d)
    PROVE  /\ Known \subseteq Known'
           /\ \A m \in Matches : Exists(db'[m]) => m \in Known'
  <1> DEFINE r == Head(requests[d])
  <1>0. db \in Store
    BY DEF TypeOK
  <1>1. r \in KnownRequests
    BY QueueTake DEF GhostInv, KnownPhones, Commit
  <1>2. r \in Request /\ r.kind \in WriteKinds
    BY <1>1 DEF KnownRequests, Commit
  <1>3. r.match \in Matches
    BY <1>2, RequestMatch DEF WriteKinds
  <1>4. db' = [db EXCEPT ![r.match] = Rewritten(@, r)]
    BY DEF Commit, Applied
  <1>5. deleted' = IF r.kind = "delete" THEN deleted \cup {r.match} ELSE deleted
    BY DEF Commit
  <1> HIDE DEF r
  <1>6. \A m \in Matches \ {r.match} : db'[m] = db[m]
    BY <1>0, <1>4 DEF Store
  <1>7. db'[r.match] = Rewritten(db[r.match], r) /\ db[r.match] \in Node
    BY <1>0, <1>3, <1>4 DEF Store
  <1>8. CASE r.kind = "create"
    <2>1. db'[r.match].info
      BY <1>7, <1>8 DEF Rewritten, CreatedNode, EmptyNode
    <2> QED BY <1>5, <1>6, <1>8, <2>1 DEF Known, GhostInv
  <1>9. CASE r.kind = "delete"
    <2>1. r.match \in deleted'
      BY <1>5, <1>9
    <2> QED BY <1>5, <1>6, <2>1 DEF Known, GhostInv
  <1>10. CASE r.kind \notin {"create", "delete"}
    <2>1. db'[r.match].info = db[r.match].info
      <3>1. CASE r.kind \in {"join", "leave"}
        BY <1>7, <3>1 DEF Rewritten, Node
      <3>2. CASE r.kind \in {"place", "vacate", "areaRemove"}
        BY <1>7, <3>2 DEF Rewritten, Node
      <3>3. CASE r.kind \in {"plan", "comment"}
        BY <1>7, <3>3 DEF Rewritten, Node
      <3> QED BY <1>2, <1>10, <3>1, <3>2, <3>3 DEF WriteKinds
    <2>2. r.match \in Known
      BY <1>1, <1>2, <1>10 DEF KnownRequests, WriteKinds
    <2>3. Known' = Known
      BY <1>5, <1>6, <1>10, <2>1 DEF Known
    <2> QED BY <1>6, <2>2, <2>3 DEF GhostInv
  <1> QED BY <1>8, <1>9, <1>10

(* One step keeps the invariant.                                               *)
LEMMA GhostStep ==
    ASSUME TypeOK, GhostInv, [Next]_vars PROVE GhostInv'
  <1> USE DEF serverUnchanged, histVars
  <1>0. /\ screen \in [Devices -> KnownScreens] /\ vm \in [Devices -> KnownViews]
        /\ requests \in [Devices -> Seq(KnownRequests)]
        /\ replies \in [Devices -> Seq(KnownReplies)]
    BY DEF GhostInv, KnownPhones
  <1>1. \A d \in Devices : requests[d] # <<>> =>
          /\ Head(requests[d]) \in KnownRequests
          /\ [requests EXCEPT ![d] = Tail(@)] \in [Devices -> Seq(KnownRequests)]
    BY <1>0, QueueTake
  <1>2. KnownRequests \subseteq Request
    BY DEF KnownRequests
  <1>stutter. CASE UNCHANGED vars
    BY <1>stutter, <1>0, KnownStep DEF vars, StaysKnown
  <1>User. ASSUME NEW d \in Devices, User(d) PROVE GhostInv'
    BY <1>User, UserKeepsKnown, KnownStep
  <1>Callback. ASSUME NEW d \in Devices, Callback(d) PROVE GhostInv'
    BY <1>Callback, CallbackKeepsKnown, KnownStep
  <1>ServeRead. ASSUME NEW d \in Devices, ServeRead(d) PROVE GhostInv'
    <2>1. /\ Head(requests[d]) \in KnownRequests
          /\ requests' \in [Devices -> Seq(KnownRequests)]
      BY <1>ServeRead, <1>1 DEF ServeRead
    <2>2. Snapshot(db, Head(requests[d])) \in KnownStores
      BY <2>1, <1>2, StoresKnown
    <2>3. replies' \in [Devices -> Seq(KnownReplies)]
      BY <1>ServeRead, <2>1, <2>2, AnswerKnown DEF ServeRead
    <2>4. StaysKnown /\ UNCHANGED <<db, deleted>>
      BY <1>ServeRead, <1>0, <2>1, <2>3 DEF ServeRead, StaysKnown
    <2> QED BY <2>4, KnownStep
  <1>ServeWrite. ASSUME NEW d \in Devices, ServeWrite(d) PROVE GhostInv'
    <2>1. /\ Head(requests[d]) \in KnownRequests
          /\ requests' \in [Devices -> Seq(KnownRequests)]
      BY <1>ServeWrite, <1>1 DEF ServeWrite, Commit
    <2>2. replies' \in [Devices -> Seq(KnownReplies)]
      BY <1>ServeWrite, <2>1, StoresKnown, AnswerKnown DEF ServeWrite
    <2>3. StaysKnown
      BY <1>ServeWrite, <1>0, <2>1, <2>2 DEF ServeWrite, Commit, StaysKnown
    <2>4. Known \subseteq Known' /\ \A m \in Matches : Exists(db'[m]) => m \in Known'
      BY <1>ServeWrite, CommitKnown DEF ServeWrite
    <2>5. KnownPhones'
      BY <2>3, <2>4, KnownGrows
    <2> QED BY <2>4, <2>5 DEF GhostInv
  <1>FailRead. ASSUME NEW d \in Devices, FailRead(d) PROVE GhostInv'
    <2>1. PICK i \in 1..Len(requests[d]) :
             /\ requests' = [requests EXCEPT ![d] = Without(@, i)]
             /\ Answer(d, requests[d][i], FALSE, EmptyStore)
      BY <1>FailRead DEF FailRead
    <2>2. requests[d] \in Seq(KnownRequests) /\ requests[d][i] \in KnownRequests
      BY <1>0, ElementOfSeq
    <2>3. requests' \in [Devices -> Seq(KnownRequests)]
      BY <1>0, <2>1, <2>2, QueueRemove
    <2>4. replies' \in [Devices -> Seq(KnownReplies)]
      BY <2>1, <2>2, StoresKnown, AnswerKnown
    <2>5. StaysKnown /\ UNCHANGED <<db, deleted>>
      BY <1>FailRead, <1>0, <2>3, <2>4 DEF FailRead, StaysKnown
    <2> QED BY <2>5, KnownStep
  <1>FailWrite. ASSUME NEW d \in Devices, FailWrite(d) PROVE GhostInv'
    <2>1. /\ Head(requests[d]) \in KnownRequests
          /\ requests' \in [Devices -> Seq(KnownRequests)]
      BY <1>FailWrite, <1>1 DEF FailWrite
    <2>2. replies' \in [Devices -> Seq(KnownReplies)]
      BY <1>FailWrite, <2>1, StoresKnown, AnswerKnown DEF FailWrite
    <2>3. StaysKnown /\ UNCHANGED <<db, deleted>>
      BY <1>FailWrite, <1>0, <2>1, <2>2 DEF FailWrite, StaysKnown
    <2> QED BY <2>3, KnownStep
  <1>LoseRead. ASSUME NEW d \in Devices, LoseRead(d) PROVE GhostInv'
    <2>1. PICK i \in 1..Len(requests[d]) :
             requests' = [requests EXCEPT ![d] = Without(@, i)]
      BY <1>LoseRead DEF LoseRead
    <2>2. requests' \in [Devices -> Seq(KnownRequests)]
      BY <1>0, <2>1, QueueRemove
    <2>3. StaysKnown /\ UNCHANGED <<db, deleted>>
      BY <1>LoseRead, <1>0, <2>2 DEF LoseRead, StaysKnown
    <2> QED BY <2>3, KnownStep
  <1>Overtake. ASSUME NEW d \in Devices, Overtake(d) PROVE GhostInv'
    <2>1. PICK i \in 1..(Len(requests[d]) - 1) :
             requests' = [requests EXCEPT ![d] = Swapped(@, i)]
      BY <1>Overtake DEF Overtake
    <2>2. requests' \in [Devices -> Seq(KnownRequests)]
      BY <1>0, <2>1, QueueSwap
    <2>3. StaysKnown /\ UNCHANGED <<db, deleted>>
      BY <1>Overtake, <1>0, <2>2 DEF Overtake, StaysKnown
    <2> QED BY <2>3, KnownStep
  <1>Resend. ASSUME NEW d \in Devices, Resend(d) PROVE GhostInv'
    <2>1. StaysKnown
      BY <1>Resend, <1>0 DEF Resend, Commit, StaysKnown
    <2>2. Known \subseteq Known' /\ \A m \in Matches : Exists(db'[m]) => m \in Known'
      BY <1>Resend, CommitKnown DEF Resend
    <2>3. KnownPhones'
      BY <2>1, <2>2, KnownGrows
    <2> QED BY <2>2, <2>3 DEF GhostInv
  <1>Quit. ASSUME NEW d \in Devices, Quit(d) PROVE GhostInv'
    BY <1>Quit, StopsKnown, KnownStep DEF Quit
  <1>MatchEnds. ASSUME NEW m \in Matches, MatchEnds(m) PROVE GhostInv'
    BY <1>MatchEnds, <1>0, KnownStep DEF MatchEnds, StaysKnown
  <1> QED
    BY <1>stutter, <1>User, <1>Callback, <1>ServeRead, <1>ServeWrite, <1>FailRead,
       <1>FailWrite, <1>LoseRead, <1>Overtake, <1>Resend, <1>Quit, <1>MatchEnds
    DEF Next, Serve, Failure

LEMMA GhostInit ==
    ASSUME Init PROVE GhostInv
  <1>1. \A m \in Matches : Exists(db[m]) => m \in Known
    BY DEF Init, Known, Exists, CreatedNode, EmptyNode
  <1>2. requests \in [Devices -> Seq(KnownRequests)]
        /\ replies \in [Devices -> Seq(KnownReplies)]
    BY EmptySeq DEF Init
  <1>3. vm \in [Devices -> KnownViews] /\ screen \in [Devices -> KnownScreens]
    BY KnownViewUpdates DEF Init, KnownScreens
  <1> QED BY <1>1, <1>2, <1>3 DEF GhostInv, KnownPhones

(* Whatever the phones, the server and the connection do, a match is in the    *)
(* database without its own fields only after a deletion of it was served:     *)
(* no call of the match screens writes below a match that was never there.     *)
THEOREM NoGhostBeforeDelete == Spec => []GhostOnlyAfterDelete
  <1>1. Init => GhostInv
    BY GhostInit
  <1>2. TypeOK /\ GhostInv /\ [Next]_vars => GhostInv'
    BY GhostStep
  <1>3. GhostInv => GhostOnlyAfterDelete
    BY DEF GhostInv, GhostOnlyAfterDelete, Known
  <1> QED BY <1>1, <1>2, <1>3, TypeCorrect, PTL DEF Spec

-----------------------------------------------------------------------------
(* The list screen. A load of the list is under way from the request that      *)
(* getAllMatchs sends until the callback of its answer.                        *)

(* Queue q of requests, queue p of answers and list l: one load at most is      *)
(* under way, and while it is nothing has been appended to the emptied list.    *)
OneLoad(q, p, l) ==
    /\ Len(l) <= 1
    /\ \A i, j \in 1..Len(q) : q[i].kind = "list" /\ q[j].kind = "list" => i = j
    /\ \A i, j \in 1..Len(p) : p[i].req.kind = "list" /\ p[j].req.kind = "list" => i = j
    /\ \A i \in 1..Len(q), j \in 1..Len(p) :
          ~(q[i].kind = "list" /\ p[j].req.kind = "list")
    /\ \/ \E i \in 1..Len(q) : q[i].kind = "list"
       \/ \E j \in 1..Len(p) : p[j].req.kind = "list"
       => l = <<>>

(* Phones whose newest load did not begin during another one.                   *)
ListInv == \A d \in Devices \ overlapped :
              OneLoad(requests[d], replies[d], vm[d].matchsModelList)

(* Sending a request that is no load, or the load of a phone without one.       *)
LEMMA OneLoadSend ==
    ASSUME NEW q \in Seq(Request), NEW p \in Seq(Reply), NEW l, NEW r \in Request
    PROVE  /\ OneLoad(q, p, l) /\ r.kind # "list" => OneLoad(Append(q, r), p, l)
           /\ /\ r.kind = "list"
              /\ \A i \in 1..Len(q) : q[i].kind # "list"
              /\ \A j \in 1..Len(p) : p[j].req.kind # "list"
              => OneLoad(Append(q, r), p, <<>>)
  <1> DEFINE n == Append(q, r)
  <1>1. /\ Len(n) = Len(q) + 1 /\ Len(q) \in Nat /\ n[Len(q) + 1] = r
        /\ \A i \in 1..Len(n) : \/ i \in 1..Len(q) /\ n[i] = q[i]
                                \/ i = Len(q) + 1 /\ n[i] = r
    BY QueueAdd
  <1> HIDE DEF n
  <1>2. OneLoad(q, p, l) /\ r.kind # "list" => OneLoad(n, p, l)
    BY <1>1 DEF OneLoad
  <1>3. /\ r.kind = "list"
        /\ \A i \in 1..Len(q) : q[i].kind # "list"
        /\ \A j \in 1..Len(p) : p[j].req.kind # "list"
        => OneLoad(n, p, <<>>)
    BY <1>1 DEF OneLoad
  <1> QED BY <1>2, <1>3 DEF n

(* Of an app that stops, a part of the requests is left.                        *)
LEMMA OneLoadStops ==
    ASSUME NEW q \in Seq(Request), NEW p, NEW l, OneLoad(q, p, l), NEW n \in 0..Len(q)
    PROVE  OneLoad(SubSeq(q, 1, n), <<>>, <<>>)
  <1> DEFINE s == SubSeq(q, 1, n)
  <1>1. Len(s) = n /\ \A i \in 1..n : i \in 1..Len(q) /\ s[i] = q[i]
    BY QueuePrefix
  <1> HIDE DEF s
  <1>2. OneLoad(s, <<>>, <<>>)
    BY <1>1 DEF OneLoad
  <1> QED BY <1>2 DEF s

(* A callback takes the oldest answer. That of a load leaves none under way,     *)
(* and may append once.                                                         *)
LEMMA OneLoadAnswered ==
    ASSUME NEW q \in Seq(Request), NEW p \in Seq(Reply), NEW l, OneLoad(q, p, l), p # <<>>
    PROVE  /\ OneLoad(q, Tail(p), l)
           /\ Head(p).req.kind = "list" =>
                 l = <<>> /\ \A k : Len(k) <= 1 => OneLoad(q, Tail(p), k)
  <1>1. /\ 1 \in 1..Len(p) /\ Head(p) = p[1]
        /\ \A i \in 1..Len(Tail(p)) : i + 1 \in 1..Len(p) /\ Tail(p)[i] = p[i + 1]
        /\ Len(Tail(p)) = Len(p) - 1 /\ Len(p) \in Nat
    BY QueueTake
  <1> DEFINE t == Tail(p)
  <1> HIDE DEF t
  <1>2. /\ 1 \in 1..Len(p) /\ Head(p) = p[1]
        /\ \A i \in 1..Len(t) : i + 1 \in 1..Len(p) /\ t[i] = p[i + 1]
        /\ Len(t) \in Nat
    BY <1>1 DEF t
  <1>3. \A i, j \in 1..Len(t) : t[i].req.kind = "list" /\ t[j].req.kind = "list" => i = j
    BY <1>2 DEF OneLoad
  <1>4. OneLoad(q, t, l)
    BY <1>2, <1>3 DEF OneLoad
  <1>5. ASSUME Head(p).req.kind = "list"
        PROVE  /\ l = <<>>
               /\ \A i \in 1..Len(q) : q[i].kind # "list"
               /\ \A j \in 1..Len(t) : t[j].req.kind # "list"
    <2>1. p[1].req.kind = "list" /\ 1 \in 1..Len(p)
      BY <1>2, <1>5
    <2>2. l = <<>> /\ \A i \in 1..Len(q) : q[i].kind # "list"
      BY <2>1 DEF OneLoad
    <2>3. ASSUME NEW j \in 1..Len(t), t[j].req.kind = "list" PROVE FALSE
      <3>1. j + 1 \in 1..Len(p) /\ p[j + 1].req.kind = "list" /\ j + 1 # 1
        BY <1>2, <2>3
      <3> QED BY <2>1, <3>1 DEF OneLoad
    <2> QED BY <2>2, <2>3
  <1>6. Head(p).req.kind = "list" =>
           l = <<>> /\ \A k : Len(k) <= 1 => OneLoad(q, t, k)
    BY <1>5 DEF OneLoad
  <1> QED BY <1>4, <1>6 DEF t

(* A request leaves the queue, at place k, and is answered or lost.              *)
LEMMA OneLoadServed ==
    ASSUME NEW q \in Seq(Request), NEW p \in Seq(Reply), NEW l, OneLoad(q, p, l),
           NEW k \in 1..Len(q), NEW q2 \in Seq(Request), NEW a \in Reply, a.req = q[k],
           Len(q2) = Len(q) - 1,
           \A i \in 1..Len(q2) : q2[i] = q[IF i < k THEN i ELSE i + 1]
    PROVE  OneLoad(q2, p, l) /\ OneLoad(q2, Append(p, a), l)
  <1>1. /\ Len(q) \in Nat /\ Len(q2) \in Nat
        /\ \A i \in 1..Len(q2) :
              /\ (IF i < k THEN i ELSE i + 1) \in 1..Len(q)
              /\ (IF i < k THEN i ELSE i + 1) # k
    OBVIOUS
  <1> DEFINE at(i) == IF i < k THEN i ELSE i + 1
  <1>2. /\ \A i \in 1..Len(q2) : at(i) \in 1..Len(q) /\ at(i) # k /\ q2[i] = q[at(i)]
        /\ \A i, j \in 1..Len(q2) : at(i) = at(j) => i = j
    BY <1>1
  <1> HIDE DEF at
  <1>3. \A i, j \in 1..Len(q2) : q2[i].kind = "list" /\ q2[j].kind = "list" => i = j
    BY <1>2 DEF OneLoad
  <1>4. OneLoad(q2, p, l)
    BY <1>2, <1>3 DEF OneLoad
  <1> DEFINE n == Append(p, a)
  <1>5. /\ Len(n) = Len(p) + 1 /\ Len(p) \in Nat
        /\ \A i \in 1..Len(n) : \/ i \in 1..Len(p) /\ n[i] = p[i]
                                \/ i = Len(p) + 1 /\ n[i] = a
    BY QueueAdd
  <1> HIDE DEF n
  <1>6. CASE a.req.kind # "list"
    <2>1. \A i, j \in 1..Len(n) : n[i].req.kind = "list" /\ n[j].req.kind = "list" => i = j
      BY <1>5, <1>6 DEF OneLoad
    <2>2. \A i \in 1..Len(n) : n[i].req.kind = "list" => i \in 1..Len(p) /\ p[i].req.kind = "list"
      BY <1>5, <1>6
    <2>3. OneLoad(q2, n, l)
      BY <1>4, <2>1, <2>2 DEF OneLoad
    <2> QED BY <1>4, <2>3 DEF n
  <1>7. CASE a.req.kind = "list"
    <2>1. \A j \in 1..Len(p) : p[j].req.kind # "list"
      BY <1>7 DEF OneLoad
    <2>2. \A i \in 1..Len(q2) : q2[i].kind # "list"
      BY <1>2, <1>7 DEF OneLoad
    <2>3. l = <<>> /\ Len(l) <= 1
      BY <1>7 DEF OneLoad
    <2>4. \A i \in 1..Len(n) : n[i].req.kind = "list" => i = Len(p) + 1
      BY <1>5, <2>1
    <2>5. OneLoad(q2, n, l)
      BY <2>2, <2>3, <2>4 DEF OneLoad
    <2> QED BY <1>4, <2>5 DEF n
  <1> QED BY <1>6, <1>7

(* The queue without its oldest request.                                         *)
LEMMA TailIsWithout ==
    ASSUME NEW q \in Seq(Request), q # <<>>
    PROVE  /\ 1 \in 1..Len(q) /\ Head(q) = q[1]
           /\ Tail(q) \in Seq(Request) /\ Len(Tail(q)) = Len(q) - 1
           /\ \A i \in 1..Len(Tail(q)) : Tail(q)[i] = q[IF i < 1 THEN i ELSE i + 1]
  BY QueueTake

(* The queue without any one of its requests.                                    *)
LEMMA WithoutAt ==
    ASSUME NEW q \in Seq(Request), NEW k \in 1..Len(q)
    PROVE  /\ Without(q, k) \in Seq(Request) /\ Len(Without(q, k)) = Len(q) - 1
           /\ \A i \in 1..Len(Without(q, k)) :
                 Without(q, k)[i] = q[IF i < k THEN i ELSE i + 1]
  <1> DEFINE a == SubSeq(q, 1, k - 1)
             b == SubSeq(q, k + 1, Len(q))
             r == a \o b
  <1>1. a \in Seq(Request) /\ Len(a) = k - 1 /\ \A i \in 1..(k - 1) : a[i] = q[i]
    OBVIOUS
  <1>2. b \in Seq(Request) /\ Len(b) = Len(q) - k
        /\ \A i \in 1..(Len(q) - k) : b[i] = q[k + i]
    OBVIOUS
  <1> HIDE DEF a, b
  <1>3. Without(q, k) = r
    BY DEF Without, a, b
  <1>4. r \in Seq(Request) /\ Len(r) = Len(q) - 1
    BY <1>3, QueueRemove
  <1>5. ASSUME NEW i \in 1..Len(r) PROVE r[i] = q[IF i < k THEN i ELSE i + 1]
    <2>1. CASE i <= k - 1
      BY <2>1, <1>1, <1>2, <1>4
    <2>2. CASE i > k - 1
      <3>1. r[i] = b[i - (k - 1)] /\ i - (k - 1) \in 1..(Len(q) - k)
        BY <2>2, <1>1, <1>2, <1>4
      <3>2. r[i] = q[i + 1]
        BY <3>1, <1>2, <2>2
      <3> QED BY <3>2, <2>2
    <2> QED BY <2>1, <2>2
  <1> QED BY <1>3, <1>4, <1>5

(* Two neighbours change places: no request is added or lost.                    *)
LEMMA OneLoadSwapped ==
    ASSUME NEW q \in Seq(Request), NEW p, NEW l, OneLoad(q, p, l), NEW k \in 1..(Len(q) - 1)
    PROVE  OneLoad(Swapped(q, k), p, l)
  <1> DEFINE s == Swapped(q, k)
             at(i) == IF i = k THEN k + 1 ELSE IF i = k + 1 THEN k ELSE i
  <1>1. Len(s) = Len(q) /\ Len(q) \in Nat /\ k \in 1..Len(q) /\ k + 1 \in 1..Len(q)
    BY QueueSwap
  <1>2. \A i \in 1..Len(q) : s[i] = q[at(i)]
    <2>1. DOMAIN q = 1..Len(q)
      OBVIOUS
    <2> QED BY <1>1, <2>1 DEF Swapped
  <1>3. \A i, j \in 1..Len(q) : at(i) \in 1..Len(q) /\ (at(i) = at(j) => i = j)
    BY <1>1
  <1> HIDE DEF at, s
  <1>4. ASSUME NEW i \in 1..Len(s), NEW j \in 1..Len(s),
               s[i].kind = "list", s[j].kind = "list"
        PROVE  i = j
    <2>1. q[at(i)].kind = "list" /\ q[at(j)].kind = "list"
          /\ at(i) \in 1..Len(q) /\ at(j) \in 1..Len(q)
      BY <1>1, <1>2, <1>3, <1>4
    <2>2. at(i) = at(j)
      BY <2>1 DEF OneLoad
    <2> QED BY <1>1, <1>3, <2>2
  <1>5. \A i \in 1..Len(s) : s[i].kind = "list" =>
           \E j \in 1..Len(q) : q[j].kind = "list"
    BY <1>1, <1>2, <1>3
  <1>6. OneLoad(s, p, l)
    BY <1>4, <1>5 DEF OneLoad
  <1> QED BY <1>6 DEF s


(* What a step of phone d, or of the server for it, leaves alone.                *)
OtherPhonesKeep(d) ==
    /\ \A e \in Devices \ {d} :
          /\ requests'[e] = requests[e] /\ replies'[e] = replies[e]
          /\ vm'[e].matchsModelList = vm[e].matchsModelList
    /\ overlapped' \ {d} = overlapped \ {d}

(* So the invariant is the affair of the phone that takes the step.              *)
LEMMA ListStepOf ==
    ASSUME ListInv, NEW d \in Devices, OtherPhonesKeep(d),
           d \notin overlapped' =>
              OneLoad(requests'[d], replies'[d], vm'[d].matchsModelList)
    PROVE  ListInv'
  BY DEF ListInv, OtherPhonesKeep

(* The step sends, if anything, a request that is no load of the list.           *)
SendsOther(d) == \/ UNCHANGED requests
                 \/ \E r \in Request : r.kind # "list" /\ Send(d, r)

SameLists == \A e \in Devices : vm'[e].matchsModelList = vm[e].matchsModelList

StartsLoad(d) == \E v \in ViewModel : ThenAllMatchs(d, v)

(* What most view-model updates leave alone.                                     *)
LEMMA ListsSame ==
    ASSUME TypeOK, NEW d \in Devices,
           \/ UNCHANGED vm
           \/ vm' = [vm EXCEPT ![d] = Loading(@)]
           \/ vm' = [vm EXCEPT ![d] = Alerted(@)]
           \/ vm' = [vm EXCEPT ![d].isLoad = FALSE]
           \/ vm' = [vm EXCEPT ![d].showAlert = TRUE]
           \/ vm' = [vm EXCEPT ![d].showAlert = FALSE]
    PROVE  SameLists
  <1>1. vm \in [Devices -> ViewModel]
    BY DEF TypeOK
  <1>2. vm[d] \in ViewModel
    BY <1>1
  <1>3. /\ Loading(vm[d]).matchsModelList = vm[d].matchsModelList
        /\ Alerted(vm[d]).matchsModelList = vm[d].matchsModelList
        /\ [vm[d] EXCEPT !.isLoad = FALSE].matchsModelList = vm[d].matchsModelList
        /\ [vm[d] EXCEPT !.showAlert = TRUE].matchsModelList = vm[d].matchsModelList
        /\ [vm[d] EXCEPT !.showAlert = FALSE].matchsModelList = vm[d].matchsModelList
    BY <1>2 DEF ViewModel, Loading, Alerted
  <1> QED BY <1>1, <1>3 DEF SameLists

(* The queues of phone d when an answer may have been taken.                     *)
LEMMA ListQueues ==
    ASSUME TypeOK, NEW d \in Devices
    PROVE  /\ requests[d] \in Seq(Request) /\ replies[d] \in Seq(Reply)
           /\ DOMAIN requests = Devices /\ DOMAIN replies = Devices
           /\ DOMAIN vm = Devices
           /\ replies[d] # <<>> =>
                /\ Tail(replies[d]) \in Seq(Reply)
                /\ \A j \in 1..Len(Tail(replies[d])) :
                      j + 1 \in 1..Len(replies[d])
                      /\ Tail(replies[d])[j] = replies[d][j + 1]
  BY QueueTake DEF TypeOK

(* A new load empties the list; the phone has overlapped when another load was    *)
(* under way.                                                                    *)
LEMMA ListLoadStarts ==
    ASSUME TypeOK, ListInv, NEW d \in Devices, StartsLoad(d),
           \/ UNCHANGED replies
           \/ replies[d] # <<>> /\ replies' = [replies EXCEPT ![d] = Tail(@)]
    PROVE  ListInv'
  <1>1. PICK v \in ViewModel : ThenAllMatchs(d, v)
    BY DEF StartsLoad
  <1>2. /\ vm' = [vm EXCEPT ![d] = getAllMatchs(v)]
        /\ requests' = [requests EXCEPT ![d] = Append(@, Req("list", None))]
        /\ overlapped' = IF Outstanding(d, "list") THEN overlapped \cup {d}
                                                   ELSE overlapped \ {d}
    BY <1>1 DEF ThenAllMatchs, Send, NotesListLoad
  <1>3. Req("list", None) \in Request /\ Req("list", None).kind = "list"
    BY RequestTypes DEF Req
  <1>4. OtherPhonesKeep(d)
    BY <1>2, ListQueues DEF OtherPhonesKeep
  <1>5. getAllMatchs(v).matchsModelList = <<>>
    BY DEF getAllMatchs, ViewModel
  <1>6. ASSUME d \notin overlapped'
        PROVE  OneLoad(requests'[d], replies'[d], vm'[d].matchsModelList)
    <2>1. ~Outstanding(d, "list")
      BY <1>2, <1>6
    <2>2. /\ \A i \in 1..Len(requests[d]) : requests[d][i].kind # "list"
          /\ \A j \in 1..Len(replies[d]) : replies[d][j].req.kind # "list"
      BY <2>1 DEF Outstanding
    <2>3. /\ replies'[d] \in Seq(Reply)
          /\ \A j \in 1..Len(replies'[d]) : replies'[d][j].req.kind # "list"
      <3>1. CASE UNCHANGED replies
        BY <2>2, <3>1, ListQueues
      <3>2. CASE replies[d] # <<>> /\ replies' = [replies EXCEPT ![d] = Tail(@)]
        <4>1. replies'[d] = Tail(replies[d]) /\ Tail(replies[d]) \in Seq(Reply)
          BY <3>2, ListQueues
        <4>2. \A j \in 1..Len(Tail(replies[d])) : Tail(replies[d])[j].req.kind # "list"
          BY <2>2, <3>2, ListQueues
        <4> QED BY <4>1, <4>2
      <3> QED BY <3>1, <3>2
    <2>4. /\ requests'[d] = Append(requests[d], Req("list", None))
          /\ vm'[d].matchsModelList = <<>>
      BY <1>2, <1>5, ListQueues
    <2>5. requests[d] \in Seq(Request)
      BY ListQueues
    <2> QED BY <1>3, <2>2, <2>3, <2>4, <2>5, OneLoadSend
  <1> QED BY <1>4, <1>6, ListStepOf

(* A step that starts no load and changes no list.                                *)
LEMMA ListSendsOther ==
    ASSUME TypeOK, ListInv, NEW d \in Devices, SendsOther(d), SameLists,
           UNCHANGED overlapped,
           \/ UNCHANGED replies
           \/ replies[d] # <<>> /\ replies' = [replies EXCEPT ![d] = Tail(@)]
    PROVE  ListInv'
  <1>1. OtherPhonesKeep(d)
    BY ListQueues DEF OtherPhonesKeep, SendsOther, Send, SameLists
  <1>2. ASSUME d \notin overlapped
        PROVE  OneLoad(requests'[d], replies'[d], vm'[d].matchsModelList)
    <2> DEFINE l == vm[d].matchsModelList
    <2>1. requests[d] \in Seq(Request) /\ replies[d] \in Seq(Reply)
          /\ OneLoad(requests[d], replies[d], l) /\ vm'[d].matchsModelList = l
      BY <1>2, ListQueues DEF ListInv, SameLists
    <2>2. replies'[d] \in Seq(Reply) /\ OneLoad(requests[d], replies'[d], l)
      <3>1. CASE UNCHANGED replies
        BY <2>1, <3>1
      <3>2. CASE replies[d] # <<>> /\ replies' = [replies EXCEPT ![d] = Tail(@)]
        <4>1. replies'[d] = Tail(replies[d]) /\ Tail(replies[d]) \in Seq(Reply)
          BY <3>2, ListQueues
        <4>2. OneLoad(requests[d], Tail(replies[d]), l)
          BY <2>1, <3>2, OneLoadAnswered
        <4> QED BY <4>1, <4>2
      <3> QED BY <3>1, <3>2
    <2>3. CASE UNCHANGED requests
      BY <2>1, <2>2, <2>3
    <2>4. CASE \E r \in Request : r.kind # "list" /\ Send(d, r)
      <3>1. PICK r \in Request : r.kind # "list" /\ Send(d, r)
        BY <2>4
      <3>2. requests'[d] = Append(requests[d], r)
        BY <3>1, ListQueues DEF Send
      <3>3. OneLoad(Append(requests[d], r), replies'[d], l)
        BY <2>1, <2>2, <3>1, OneLoadSend
      <3> QED BY <2>1, <3>2, <3>3
    <2> QED BY <2>3, <2>4 DEF SendsOther
  <1> QED BY <1>1, <1>2, ListStepOf

(* An app that stops has an empty list and no answers.                            *)
LEMMA ListStops ==
    ASSUME TypeOK, ListInv, NEW d \in Devices, NEW how, Stops(d, how), UNCHANGED overlapped
    PROVE  ListInv'
  <1>1. PICK n \in 0..Len(requests[d]) :
           requests' = [requests EXCEPT ![d] = SubSeq(@, 1, n)]
    BY DEF Stops
  <1>2. /\ requests'[d] = SubSeq(requests[d], 1, n) /\ replies'[d] = <<>>
        /\ vm'[d].matchsModelList = <<>>
    BY <1>1, ListQueues DEF Stops, NewViewModel
  <1>3. OtherPhonesKeep(d)
    BY <1>1, ListQueues DEF OtherPhonesKeep, Stops
  <1>4. ASSUME d \notin overlapped
        PROVE  OneLoad(requests'[d], replies'[d], vm'[d].matchsModelList)
    <2>1. OneLoad(requests[d], replies[d], vm[d].matchsModelList)
          /\ requests[d] \in Seq(Request)
      BY <1>4, ListQueues DEF ListInv
    <2> QED BY <1>2, <2>1, OneLoadStops
  <1> QED BY <1>3, <1>4, ListStepOf


(* What a user does on a phone.                                                   *)
LEMMA ListUserStep ==
    ASSUME TypeOK, ListInv, NEW d \in Devices, User(d)
    PROVE  ListInv'
  <1> USE DEF histVars, netHist
  <1>0. vm[d] \in ViewModel /\ NewViewModel \in ViewModel /\ form[d].visit \in Nat
    BY ViewModelUpdates DEF TypeOK, Form
  <1>1. ASSUME NEW m \in Matches, NEW kind \in {"roster", "detail", "delete"},
               Send(d, Req(kind, m))
        PROVE  SendsOther(d)
    BY <1>1, RequestTypes DEF SendsOther, Req
  <1>Launch. CASE Launch(d)
    <2>1. StartsLoad(d) /\ UNCHANGED replies
      BY <1>Launch, <1>0 DEF Launch, StartsLoad, ThenAllMatchs
    <2> QED BY <2>1, ListLoadStarts
  <1>Refresh. CASE Refresh(d)
    <2>1. StartsLoad(d) /\ UNCHANGED replies
      BY <1>Refresh, <1>0 DEF Refresh, StartsLoad, ThenAllMatchs
    <2> QED BY <2>1, ListLoadStarts
  <1>OpenDetail. CASE OpenDetail(d)
    <2>1. PICK card \in ShownCards(d) :
            \/ /\ card.matchID # None
               /\ vm' = [vm EXCEPT ![d] = Loading(@)]
               /\ Send(d, Req("detail", card.matchID))
               /\ UNCHANGED replies
            \/ Stops(d, "crashed")
      BY <1>OpenDetail DEF OpenDetail
    <2>2. UNCHANGED overlapped
      BY <1>OpenDetail DEF OpenDetail
    <2>3. card.matchID # None => card.matchID \in Matches
      BY ShownCardsType
    <2> QED BY <1>1, <2>1, <2>2, <2>3, ListsSame, ListSendsOther, ListStops
  <1>Reappear. CASE Reappear(d)
    <2>1. SendsOther(d) /\ SameLists /\ UNCHANGED <<overlapped, replies>>
      BY <1>Reappear, <1>1, ListsSame DEF Reappear, OnDetail
    <2> QED BY <2>1, ListSendsOther
  <1>Back. CASE Back(d)
    <2>1. SendsOther(d) /\ SameLists /\ UNCHANGED <<overlapped, replies>>
      BY <1>Back DEF Back, SendsOther, SameLists
    <2> QED BY <2>1, ListSendsOther
  <1>DismissAlert. CASE DismissAlert(d)
    <2>1. SendsOther(d) /\ SameLists /\ UNCHANGED <<overlapped, replies>>
      BY <1>DismissAlert, ListsSame DEF DismissAlert, SendsOther
    <2> QED BY <2>1, ListSendsOther
  <1>joinMatches. CASE joinMatches(d)
    <2>1. PICK card \in ShownCards(d) :
            card.matchID # None /\ Send(d, Req("roster", card.matchID))
      BY <1>joinMatches DEF joinMatches, CanStillJoin
    <2>2. SendsOther(d)
      BY <1>1, <2>1, ShownCardsType
    <2>3. SameLists /\ UNCHANGED <<overlapped, replies>>
      BY <1>joinMatches, ListsSame DEF joinMatches
    <2> QED BY <2>2, <2>3, ListSendsOther
  <1>leaveMatches. CASE leaveMatches(d)
    <2>1. PICK card \in ShownCards(d) :
            /\ card.matchID # None
            /\ Send(d, [Req("leave", card.matchID) EXCEPT !.user = Owner[d]])
      BY <1>leaveMatches DEF leaveMatches, CanStillJoin
    <2>2. SendsOther(d)
      <3>1. [Req("leave", card.matchID) EXCEPT !.user = Owner[d]] \in Request
        BY <2>1, ShownCardsType, RequestTypes, OwnerType
      <3>2. [Req("leave", card.matchID) EXCEPT !.user = Owner[d]].kind # "list"
        BY DEF Req
      <3> QED BY <2>1, <3>1, <3>2 DEF SendsOther
    <2>3. SameLists /\ UNCHANGED <<overlapped, replies>>
      BY <1>leaveMatches, ListsSame DEF leaveMatches
    <2> QED BY <2>2, <2>3, ListSendsOther
  <1>deleteMatches. CASE deleteMatches(d)
    <2>1. PICK card \in ShownCards(d) :
            \/ /\ card.matchID # None
               /\ vm' = [vm EXCEPT ![d] = Loading(@)]
               /\ Send(d, Req("delete", card.matchID))
               /\ UNCHANGED replies
            \/ Stops(d, "crashed")
      BY <1>deleteMatches DEF deleteMatches
    <2>2. UNCHANGED overlapped
      BY <1>deleteMatches DEF deleteMatches
    <2>3. card.matchID # None => card.matchID \in Matches
      BY ShownCardsType
    <2> QED BY <1>1, <2>1, <2>2, <2>3, ListsSame, ListSendsOther, ListStops
  <1>place. CASE setPlayerPositionWithMatch(d)
    <2> DEFINE m == vm[d].selectedMatch.matchID
    <2>1. PICK u \in vm[d].unselectedPlayer, s \in Slots :
            \/ /\ m # None
               /\ vm' = [vm EXCEPT ![d] = Loading(@)]
               /\ Send(d, [Req("place", m) EXCEPT !.slot = s, !.user = u])
               /\ UNCHANGED replies
            \/ Stops(d, "crashed")
      BY <1>place DEF setPlayerPositionWithMatch
    <2>2. UNCHANGED overlapped
      BY <1>place DEF setPlayerPositionWithMatch
    <2>3. u \in Users /\ (m # None => m \in Matches)
      BY <1>0, ShownCardsType DEF ViewModel
    <2>4. m # None => [Req("place", m) EXCEPT !.slot = s, !.user = u] \in Request
      BY <2>3, RequestTypes
    <2>5. [Req("place", m) EXCEPT !.slot = s, !.user = u].kind # "list"
      BY DEF Req
    <2>6. CASE Stops(d, "crashed")
      BY <2>2, <2>6, ListStops
    <2>7. CASE /\ m # None
               /\ vm' = [vm EXCEPT ![d] = Loading(@)]
               /\ Send(d, [Req("place", m) EXCEPT !.slot = s, !.user = u])
               /\ UNCHANGED replies
      <3>1. SendsOther(d)
        BY <2>4, <2>5, <2>7 DEF SendsOther
      <3> QED BY <2>2, <2>7, <3>1, ListsSame, ListSendsOther
    <2> QED BY <2>1, <2>6, <2>7
  <1>vacate. CASE deletePlayerPositionWithMatch(d)
    <2>1. PICK s \in Slots : Send(d, [Req("vacate", screen[d]) EXCEPT !.slot = s])
      BY <1>vacate DEF deletePlayerPositionWithMatch
    <2>2. [Req("vacate", screen[d]) EXCEPT !.slot = s] \in Request
      BY <1>vacate, RequestTypes DEF deletePlayerPositionWithMatch, OnDetail
    <2>3. [Req("vacate", screen[d]) EXCEPT !.slot = s].kind # "list"
      BY DEF Req
    <2>4. SendsOther(d)
      BY <2>1, <2>2, <2>3 DEF SendsOther
    <2>5. SameLists /\ UNCHANGED <<overlapped, replies>>
      BY <1>vacate, ListsSame DEF deletePlayerPositionWithMatch
    <2> QED BY <2>4, <2>5, ListSendsOther
  <1>plan. CASE setIsPlanningCompleteForMatch(d)
    <2>1. PICK p \in {"no", "yes"} : Send(d, [Req("plan", screen[d]) EXCEPT !.plan = p])
      BY <1>plan DEF setIsPlanningCompleteForMatch
    <2>2. [Req("plan", screen[d]) EXCEPT !.plan = p] \in Request
      BY <1>plan, RequestTypes DEF setIsPlanningCompleteForMatch, OnDetail
    <2>3. [Req("plan", screen[d]) EXCEPT !.plan = p].kind # "list"
      BY DEF Req
    <2>4. SendsOther(d)
      BY <2>1, <2>2, <2>3 DEF SendsOther
    <2>5. SameLists /\ UNCHANGED <<overlapped, replies>>
      BY <1>plan, ListsSame DEF setIsPlanningCompleteForMatch
    <2> QED BY <2>4, <2>5, ListSendsOther
  <1>comment. CASE addComment(d)
    <2> DEFINE m == vm[d].selectedMatch.matchID
    <2>1. UNCHANGED overlapped
      BY <1>comment DEF addComment
    <2>2. CASE Stops(d, "crashed")
      BY <2>1, <2>2, ListStops
    <2>3. CASE /\ m # None
               /\ vm' = [vm EXCEPT ![d] = Loading(@)]
               /\ Send(d, [Req("comment", m) EXCEPT !.about = screen[d]])
               /\ UNCHANGED replies
      <3>1. [Req("comment", m) EXCEPT !.about = screen[d]] \in Request
        BY <1>comment, <2>3, ShownCardsType, RequestTypes DEF addComment, OnDetail
      <3>2. [Req("comment", m) EXCEPT !.about = screen[d]].kind # "list"
        BY DEF Req
      <3>3. SendsOther(d)
        BY <2>3, <3>1, <3>2 DEF SendsOther
      <3> QED BY <2>1, <2>3, <3>3, ListsSame, ListSendsOther
    <2> QED BY <1>comment, <2>2, <2>3 DEF addComment
  <1>OpenCreate. CASE OpenCreate(d)
    <2>1. SendsOther(d) /\ SameLists /\ UNCHANGED <<overlapped, replies>>
      BY <1>OpenCreate DEF OpenCreate, SendsOther, SameLists
    <2> QED BY <2>1, ListSendsOther
  <1>createMatch. CASE createMatch(d)
    <2>1. PICK m \in Matches : Send(d, [Req("create", m) EXCEPT !.visit = form[d].visit])
      BY <1>createMatch DEF createMatch
    <2>2. [Req("create", m) EXCEPT !.visit = form[d].visit] \in Request
      BY <1>0, RequestTypes
    <2>3. [Req("create", m) EXCEPT !.visit = form[d].visit].kind # "list"
      BY DEF Req
    <2>4. SendsOther(d)
      BY <2>1, <2>2, <2>3 DEF SendsOther
    <2>5. SameLists /\ UNCHANGED <<overlapped, replies>>
      BY <1>createMatch DEF createMatch, SameLists
    <2> QED BY <2>4, <2>5, ListSendsOther
  <1> QED
    BY <1>Launch, <1>Refresh, <1>OpenDetail, <1>Reappear, <1>Back, <1>DismissAlert,
       <1>joinMatches, <1>leaveMatches, <1>deleteMatches, <1>place, <1>vacate,
       <1>plan, <1>comment, <1>OpenCreate, <1>createMatch
    DEF User


(* The callback of a load appends to the emptied list; every other callback       *)
(* starts a load or leaves the list alone.                                        *)
LEMMA ListCallbackStep ==
    ASSUME TypeOK, ListInv, NEW d \in Devices, Callback(d)
    PROVE  ListInv'
  <1> DEFINE a == Head(replies[d])
             Took == replies[d] # <<>> /\ replies' = [replies EXCEPT ![d] = Tail(@)]
  <1>0. vm[d] \in ViewModel
    BY DEF TypeOK
  <1>1. ASSUME Took, StartsLoad(d) PROVE ListInv'
    BY <1>1, ListLoadStarts
  <1>2. ASSUME Took, SendsOther(d), SameLists, UNCHANGED overlapped PROVE ListInv'
    BY <1>2, ListSendsOther
  <1>3. ASSUME ThenAlert(d) PROVE SendsOther(d) /\ SameLists /\ UNCHANGED overlapped
    BY <1>3, ListsSame DEF ThenAlert, SendsOther
  <1>4. ASSUME ThenAllMatchs(d, vm[d]) PROVE StartsLoad(d)
    BY <1>0, <1>4 DEF StartsLoad
  <1>5. ASSUME NEW kind, kind # "list", Answered(d, kind)
        PROVE  Took /\ a.req \in Request /\ a.req.match \in Matches /\ a.req.kind = kind
    <2>1. a.req \in Request /\ a.req.kind = kind
      BY <1>5, AnsweredType
    <2> QED BY <1>5, <2>1, RequestMatch DEF Answered
  <1>6. ASSUME NEW m \in Matches, Send(d, Req("detail", m)) PROVE SendsOther(d)
    BY <1>6, RequestTypes DEF SendsOther, Req
  <1>OnAllMatchs. CASE OnAllMatchs(d)
    <2>1. /\ replies[d] # <<>> /\ a.req.kind = "list"
          /\ replies' = [replies EXCEPT ![d] = Tail(@)]
          /\ UNCHANGED <<requests, overlapped>>
      BY <1>OnAllMatchs DEF OnAllMatchs, Answered
    <2>2. vm' = [vm EXCEPT ![d] = vm'[d]]
          /\ vm'[d].matchsModelList \in
               {vm[d].matchsModelList, <<>>,
                Append(vm[d].matchsModelList, CardsOf(a.snap))}
      <3>0. Listed(vm[d], a.snap).matchsModelList
              = Append(vm[d].matchsModelList, CardsOf(a.snap))
        BY <1>0 DEF Listed, ViewModel
      <3>1. Alerted(vm[d]) \in ViewModel
        BY <1>0, ViewModelUpdates
      <3>2. [Alerted(vm[d]) EXCEPT !.matchsModelList = <<>>].matchsModelList = <<>>
        BY <3>1 DEF ViewModel
      <3>3. CASE vm' = [vm EXCEPT ![d] = Listed(@, a.snap)]
        BY <3>0, <3>3, ListQueues
      <3>4. CASE vm' = [vm EXCEPT ![d] = [Alerted(@) EXCEPT !.matchsModelList = <<>>]]
        BY <3>2, <3>4, ListQueues
      <3>5. CASE UNCHANGED vm
        BY <3>5 DEF TypeOK
      <3> QED BY <1>OnAllMatchs, <3>3, <3>4, <3>5 DEF OnAllMatchs
    <2>3. OtherPhonesKeep(d)
      BY <2>1, <2>2, ListQueues DEF OtherPhonesKeep
    <2>4. ASSUME d \notin overlapped
          PROVE  OneLoad(requests[d], Tail(replies[d]), vm'[d].matchsModelList)
      <3>1. OneLoad(requests[d], replies[d], vm[d].matchsModelList)
        BY <2>4 DEF ListInv
      <3>2. /\ vm[d].matchsModelList = <<>>
            /\ \A k : Len(k) <= 1 => OneLoad(requests[d], Tail(replies[d]), k)
        BY <2>1, <3>1, ListQueues, OneLoadAnswered
      <3>3. Len(vm'[d].matchsModelList) <= 1
        <4>1. <<>> \in Seq({CardsOf(a.snap)}) /\ Len(<<>>) = 0
          BY EmptySeq
        <4>2. Len(Append(<<>>, CardsOf(a.snap))) = 1
          BY <4>1, QueueAdd
        <4>3. vm'[d].matchsModelList \in {<<>>, Append(<<>>, CardsOf(a.snap))}
          BY <2>2, <3>2, Zenon
        <4>4. Len(vm'[d].matchsModelList) = 0 \/ Len(vm'[d].matchsModelList) = 1
          BY <4>1, <4>2, <4>3, Zenon
        <4>5. \A i : i = 0 \/ i = 1 => i <= 1
          OBVIOUS
        <4> QED BY <4>4, <4>5, Zenon
      <3> QED BY <3>2, <3>3
    <2>5. replies'[d] = Tail(replies[d])
      BY <2>1, ListQueues
    <2> QED BY <2>1, <2>3, <2>4, <2>5, ListStepOf
  <1>OnRoster. CASE OnRoster(d)
    <2>1. Took /\ a.req.match \in Matches
      BY <1>OnRoster, <1>5 DEF OnRoster
    <2>2. CASE ThenAlert(d)
      BY <1>2, <1>3, <2>1, <2>2
    <2>3. CASE vm' = [vm EXCEPT ![d].showAlert = TRUE] /\ UNCHANGED <<requests, overlapped>>
      BY <1>2, <2>1, <2>3, ListsSame DEF SendsOther
    <2>4. CASE /\ Send(d, [Req("join", a.req.match) EXCEPT !.user = Owner[d]])
               /\ UNCHANGED <<vm, overlapped>>
      <3>1. [Req("join", a.req.match) EXCEPT !.user = Owner[d]] \in Request
        BY <2>1, RequestTypes, OwnerType
      <3>2. [Req("join", a.req.match) EXCEPT !.user = Owner[d]].kind # "list"
        BY DEF Req
      <3>3. SendsOther(d)
        BY <2>4, <3>1, <3>2 DEF SendsOther
      <3> QED BY <1>2, <2>1, <2>4, <3>3, ListsSame
    <2> QED BY <1>OnRoster, <2>2, <2>3, <2>4 DEF OnRoster
  <1>OnJoined. CASE OnJoined(d)
    <2>1. Took
      BY <1>OnJoined DEF OnJoined, Answered
    <2>2. PICK b \in BOOLEAN : ThenAllMatchs(d, [vm[d] EXCEPT !.showAlert = b])
      BY <1>OnJoined, <1>0 DEF OnJoined, ViewModel
    <2>3. StartsLoad(d)
      BY <1>0, <2>2, ViewModelUpdates DEF StartsLoad
    <2> QED BY <1>1, <2>1, <2>3
  <1>OnLeft. CASE OnLeft(d)
    <2>1. Took /\ a.req \in Request /\ a.req.match \in Matches /\ a.req.kind = "leave"
      BY <1>OnLeft, <1>5 DEF OnLeft
    <2>2. CASE ThenAlert(d)
      BY <1>2, <1>3, <2>1, <2>2
    <2>3. CASE /\ vm' = [vm EXCEPT ![d] = Loading(@)]
               /\ Send(d, [Req("area", a.req.match) EXCEPT !.user = a.req.user])
               /\ UNCHANGED overlapped
      <3>0. a.req.user \in Users
        BY <2>1 DEF Request
      <3>1. [Req("area", a.req.match) EXCEPT !.user = a.req.user] \in Request
        BY <2>1, <3>0, RequestTypes
      <3>2. [Req("area", a.req.match) EXCEPT !.user = a.req.user].kind # "list"
        BY DEF Req
      <3>3. SendsOther(d)
        BY Zenon, <2>3, <3>1, <3>2 DEF SendsOther
      <3> QED BY <1>2, <2>1, <2>3, <3>3, ListsSame
    <2> QED BY <1>OnLeft, <2>2, <2>3 DEF OnLeft
  <1>OnArea. CASE OnArea(d)
    <2>0. Answered(d, "area")
      BY Zenon, <1>OnArea DEF OnArea
    <2>1. Took /\ a.req.match \in Matches
      BY <2>0, <1>5
    <2>2. CASE ThenAlert(d)
      BY <1>2, <1>3, <2>1, <2>2
    <2>3. CASE ThenAllMatchs(d, vm[d])
      BY <1>1, <1>4, <2>1, <2>3
    <2>4. CASE /\ vm' = [vm EXCEPT ![d] = Loading(@)]
               /\ \E s \in Slots :
                    Send(d, [Req("areaRemove", a.req.match) EXCEPT !.slot = s])
               /\ UNCHANGED overlapped
      <3>0. PICK s \in Slots : Send(d, [Req("areaRemove", a.req.match) EXCEPT !.slot = s])
        BY <2>4
      <3>1. [Req("areaRemove", a.req.match) EXCEPT !.slot = s] \in Request
        BY <2>1, RequestTypes
      <3>2. [Req("areaRemove", a.req.match) EXCEPT !.slot = s].kind # "list"
        BY DEF Req
      <3>3. SendsOther(d)
        BY <3>0, <3>1, <3>2 DEF SendsOther
      <3> QED BY <1>2, <2>1, <2>4, <3>3, ListsSame
    <2> QED BY Zenon, <1>OnArea, <2>2, <2>3, <2>4 DEF OnArea
  <1>OnAreaRemoved. CASE OnAreaRemoved(d)
    <2>1. Took
      BY <1>OnAreaRemoved DEF OnAreaRemoved, Answered
    <2> QED BY <1>OnAreaRemoved, <1>1, <1>2, <1>3, <1>4, <2>1 DEF OnAreaRemoved
  <1>OnDeleted. CASE OnDeleted(d)
    <2>1. Took
      BY <1>OnDeleted DEF OnDeleted, Answered
    <2> QED BY <1>OnDeleted, <1>1, <1>2, <1>3, <1>4, <2>1 DEF OnDeleted
  <1>OnPositionWritten. CASE OnPositionWritten(d)
    <2>1. Took /\ a.req.match \in Matches
      BY <1>OnPositionWritten, <1>5 DEF OnPositionWritten
    <2>2. CASE ThenAlert(d)
      BY <1>2, <1>3, <2>1, <2>2
    <2>3. CASE /\ Send(d, Req("detail", a.req.match))
               /\ vm' = [vm EXCEPT ![d].isLoad = FALSE] /\ UNCHANGED overlapped
      BY <1>2, <1>6, <2>1, <2>3, ListsSame
    <2> QED BY <1>OnPositionWritten, <2>2, <2>3 DEF OnPositionWritten
  <1>OnMatch. CASE OnMatch(d)
    <2> DEFINE model == Parsed(a.req.match, a.snap[a.req.match])
    <2>1. Took
      BY <1>OnMatch DEF OnMatch, Answered
    <2>2. CASE ThenAlert(d)
      BY <1>2, <1>3, <2>1, <2>2
    <2>3. CASE vm' = [vm EXCEPT ![d].isLoad = FALSE] /\ UNCHANGED <<requests, overlapped>>
      BY <1>2, <2>1, <2>3, ListsSame DEF SendsOther
    <2>4. CASE /\ vm' = [vm EXCEPT ![d] =
                           [@ EXCEPT !.isLoad = FALSE, !.selectedMatch = model,
                                     !.unselectedPlayer = Unselected(model)]]
               /\ UNCHANGED <<requests, overlapped>>
      <3> HIDE DEF model
      <3>1. [vm[d] EXCEPT !.isLoad = FALSE, !.selectedMatch = model,
                          !.unselectedPlayer = Unselected(model)].matchsModelList
              = vm[d].matchsModelList
        BY <1>0 DEF ViewModel
      <3>2. SameLists
        BY <2>4, <3>1, ListQueues DEF SameLists
      <3> QED BY <1>2, <2>1, <2>4, <3>2 DEF SendsOther
    <2> QED BY <1>OnMatch, <2>2, <2>3, <2>4 DEF OnMatch
  <1>OnPlanned. CASE OnPlanned(d)
    <2>1. Took /\ a.req.match \in Matches
      BY <1>OnPlanned, <1>5 DEF OnPlanned
    <2>2. CASE ThenAlert(d)
      BY <1>2, <1>3, <2>1, <2>2
    <2>3. CASE /\ Send(d, Req("detail", a.req.match))
               /\ vm' = [vm EXCEPT ![d] = Loading(@)] /\ UNCHANGED overlapped
      BY <1>2, <1>6, <2>1, <2>3, ListsSame
    <2> QED BY <1>OnPlanned, <2>2, <2>3 DEF OnPlanned
  <1>OnCommented. CASE OnCommented(d)
    <2>1. Took /\ a.req.match \in Matches
      BY <1>OnCommented, <1>5 DEF OnCommented
    <2>2. CASE ThenAlert(d)
      BY <1>2, <1>3, <2>1, <2>2
    <2>3. CASE /\ Send(d, Req("detail", a.req.match))
               /\ vm' = [vm EXCEPT ![d] = Loading(@)] /\ UNCHANGED overlapped
      BY <1>2, <1>6, <2>1, <2>3, ListsSame
    <2> QED BY <1>OnCommented, <2>2, <2>3 DEF OnCommented
  <1>OnCreated. CASE OnCreated(d)
    <2>1. Took
      BY <1>OnCreated DEF OnCreated, Answered
    <2>2. CASE ThenAllMatchs(d, vm[d])
      BY <1>1, <1>4, <2>1, <2>2
    <2>3. CASE UNCHANGED <<vm, requests, overlapped>>
      BY <1>2, <2>1, <2>3, ListsSame DEF SendsOther
    <2> QED BY <1>OnCreated, <2>2, <2>3 DEF OnCreated
  <1> QED
    BY <1>OnAllMatchs, <1>OnRoster, <1>OnJoined, <1>OnLeft, <1>OnArea, <1>OnAreaRemoved,
       <1>OnDeleted, <1>OnPositionWritten, <1>OnMatch, <1>OnPlanned, <1>OnCommented,
       <1>OnCreated
    DEF Callback

(* The server takes the request at place k of the queue and answers it, or         *)
(* nobody does.                                                                   *)
LEMMA ListServed ==
    ASSUME TypeOK, ListInv, NEW d \in Devices, NEW k \in 1..Len(requests[d]),
           NEW q \in Seq(Request), Len(q) = Len(requests[d]) - 1,
           \A i \in 1..Len(q) : q[i] = requests[d][IF i < k THEN i ELSE i + 1],
           requests' = [requests EXCEPT ![d] = q],
           UNCHANGED <<vm, overlapped>>,
           \/ UNCHANGED replies
           \/ \E ok \in BOOLEAN, snap \in Store : Answer(d, requests[d][k], ok, snap)
    PROVE  ListInv'
  <1>1. requests[d] \in Seq(Request) /\ requests[d][k] \in Request
    BY ElementOfSeq, ListQueues
  <1>2. PICK a \in Reply :
           /\ a.req = requests[d][k]
           /\ UNCHANGED replies \/ replies' = [replies EXCEPT ![d] = Append(@, a)]
    <2>1. CASE UNCHANGED replies
      <3>1. [req |-> requests[d][k], ok |-> TRUE, snap |-> EmptyStore] \in Reply
        BY <1>1, EmptyStoreType DEF Reply
      <3> QED BY <2>1, <3>1
    <2>2. CASE \E ok \in BOOLEAN, snap \in Store : Answer(d, requests[d][k], ok, snap)
      <3>1. PICK ok \in BOOLEAN, snap \in Store : Answer(d, requests[d][k], ok, snap)
        BY <2>2
      <3>2. [req |-> requests[d][k], ok |-> ok, snap |-> snap] \in Reply
        BY <1>1 DEF Reply
      <3> QED BY <3>1, <3>2 DEF Answer
    <2> QED BY <2>1, <2>2
  <1>3. OtherPhonesKeep(d)
    BY <1>2, ListQueues DEF OtherPhonesKeep
  <1>4. ASSUME d \notin overlapped
        PROVE  OneLoad(requests'[d], replies'[d], vm'[d].matchsModelList)
    <2>1. OneLoad(requests[d], replies[d], vm[d].matchsModelList)
          /\ replies[d] \in Seq(Reply)
      BY <1>4, ListQueues DEF ListInv
    <2>2. /\ OneLoad(q, replies[d], vm[d].matchsModelList)
          /\ OneLoad(q, Append(replies[d], a), vm[d].matchsModelList)
      BY <1>1, <1>2, <2>1, OneLoadServed
    <2>3. requests'[d] = q /\ replies'[d] \in {replies[d], Append(replies[d], a)}
      BY <1>2, ListQueues
    <2> QED BY <2>2, <2>3
  <1> QED BY <1>3, <1>4, ListStepOf

(* One step keeps the invariant.                                                  *)
LEMMA ListStep ==
    ASSUME TypeOK, ListInv, [Next]_vars PROVE ListInv'
  <1> USE DEF serverUnchanged, histVars
  <1>0. ASSUME UNCHANGED <<requests, replies, vm, overlapped>> PROVE ListInv'
    BY <1>0 DEF ListInv
  <1>1. ASSUME NEW d \in Devices, requests[d] # <<>>,
               requests' = [requests EXCEPT ![d] = Tail(@)],
               UNCHANGED <<vm, overlapped>>,
               \E ok \in BOOLEAN, snap \in Store : Answer(d, Head(requests[d]), ok, snap)
        PROVE  ListInv'
    <2>1. /\ 1 \in 1..Len(requests[d]) /\ Head(requests[d]) = requests[d][1]
          /\ Tail(requests[d]) \in Seq(Request)
          /\ Len(Tail(requests[d])) = Len(requests[d]) - 1
          /\ \A i \in 1..Len(Tail(requests[d])) :
                Tail(requests[d])[i] = requests[d][IF i < 1 THEN i ELSE i + 1]
      BY <1>1, ListQueues, TailIsWithout
    <2> QED BY <1>1, <2>1, ListServed
  <1>stutter. CASE UNCHANGED vars
    BY <1>stutter, <1>0 DEF vars
  <1>User. ASSUME NEW d \in Devices, User(d) PROVE ListInv'
    BY <1>User, ListUserStep
  <1>Callback. ASSUME NEW d \in Devices, Callback(d) PROVE ListInv'
    BY <1>Callback, ListCallbackStep
  <1>ServeRead. ASSUME NEW d \in Devices, ServeRead(d) PROVE ListInv'
    <2>1. Snapshot(db, Head(requests[d])) \in Store
      BY <1>ServeRead, DequeueType, SnapshotType DEF ServeRead, TypeOK
    <2> QED BY <1>ServeRead, <1>1, <2>1 DEF ServeRead
  <1>ServeWrite. ASSUME NEW d \in Devices, ServeWrite(d) PROVE ListInv'
    BY <1>ServeWrite, <1>1, EmptyStoreType DEF ServeWrite, Commit
  <1>FailRead. ASSUME NEW d \in Devices, FailRead(d) PROVE ListInv'
    <2>1. PICK i \in 1..Len(requests[d]) :
             /\ requests' = [requests EXCEPT ![d] = Without(@, i)]
             /\ Answer(d, requests[d][i], FALSE, EmptyStore)
      BY <1>FailRead DEF FailRead
    <2>2. UNCHANGED <<vm, overlapped>>
      BY <1>FailRead DEF FailRead
    <2>3. /\ Without(requests[d], i) \in Seq(Request)
          /\ Len(Without(requests[d], i)) = Len(requests[d]) - 1
          /\ \A j \in 1..Len(Without(requests[d], i)) :
                Without(requests[d], i)[j] = requests[d][IF j < i THEN j ELSE j + 1]
      BY ListQueues, WithoutAt
    <2> QED BY <2>1, <2>2, <2>3, EmptyStoreType, ListServed
  <1>FailWrite. ASSUME NEW d \in Devices, FailWrite(d) PROVE ListInv'
    BY <1>FailWrite, <1>1, EmptyStoreType DEF FailWrite
  <1>LoseRead. ASSUME NEW d \in Devices, LoseRead(d) PROVE ListInv'
    <2>1. PICK i \in 1..Len(requests[d]) :
             requests' = [requests EXCEPT ![d] = Without(@, i)]
      BY <1>LoseRead DEF LoseRead
    <2>2. UNCHANGED <<vm, overlapped, replies>>
      BY <1>LoseRead DEF LoseRead
    <2>3. /\ Without(requests[d], i) \in Seq(Request)
          /\ Len(Without(requests[d], i)) = Len(requests[d]) - 1
          /\ \A j \in 1..Len(Without(requests[d], i)) :
                Without(requests[d], i)[j] = requests[d][IF j < i THEN j ELSE j + 1]
      BY ListQueues, WithoutAt
    <2> QED BY <2>1, <2>2, <2>3, ListServed
  <1>Overtake. ASSUME NEW d \in Devices, Overtake(d) PROVE ListInv'
    <2>1. PICK i \in 1..(Len(requests[d]) - 1) :
             requests' = [requests EXCEPT ![d] = Swapped(@, i)]
      BY <1>Overtake DEF Overtake
    <2>2. UNCHANGED <<vm, overlapped, replies>>
      BY <1>Overtake DEF Overtake
    <2>3. OtherPhonesKeep(d)
      BY <2>1, <2>2, ListQueues DEF OtherPhonesKeep
    <2>4. ASSUME d \notin overlapped
          PROVE  OneLoad(Swapped(requests[d], i), replies[d], vm[d].matchsModelList)
      <3>1. OneLoad(requests[d], replies[d], vm[d].matchsModelList)
            /\ requests[d] \in Seq(Request)
        BY <2>4, ListQueues DEF ListInv
      <3> QED BY <3>1, OneLoadSwapped
    <2>5. requests'[d] = Swapped(requests[d], i)
      BY <2>1, ListQueues
    <2> QED BY <2>2, <2>3, <2>4, <2>5, ListStepOf
  <1>Resend. ASSUME NEW d \in Devices, Resend(d) PROVE ListInv'
    BY <1>Resend, <1>0 DEF Resend, Commit
  <1>Quit. ASSUME NEW d \in Devices, Quit(d) PROVE ListInv'
    BY <1>Quit, ListStops DEF Quit
  <1>MatchEnds. ASSUME NEW m \in Matches, MatchEnds(m) PROVE ListInv'
    BY <1>MatchEnds, <1>0 DEF MatchEnds
  <1> QED
    BY <1>stutter, <1>User, <1>Callback, <1>ServeRead, <1>ServeWrite, <1>FailRead,
       <1>FailWrite, <1>LoseRead, <1>Overtake, <1>Resend, <1>Quit, <1>MatchEnds
    DEF Next, Serve, Failure

(* The list screen shows every match once, unless getAllMatchs was called again    *)
(* before an earlier call was answered: whatever is lost, refused, reordered or    *)
(* killed in between, a load that had the phone to itself leaves one copy.         *)
THEOREM OneCopyOfTheList == Spec => []OneCopyUnlessOverlapped
  <1>1. Init => ListInv
    BY DEF Init, ListInv, OneLoad, NewViewModel
  <1>2. TypeOK /\ ListInv /\ [Next]_vars => ListInv'
    BY ListStep
  <1>3. ListInv => OneCopyUnlessOverlapped
    BY DEF ListInv, OneLoad, OneCopyUnlessOverlapped
  <1> QED BY <1>1, <1>2, <1>3, TypeCorrect, PTL DEF Spec

-----------------------------------------------------------------------------
(* The loading overlay.                                                           *)

(* The flag after the view-model updates that clear it.                            *)
LEMMA OverlayCleared ==
    ASSUME TypeOK, NEW d \in Devices,
           \/ vm' = [vm EXCEPT ![d] = Alerted(@)]
           \/ vm' = [vm EXCEPT ![d].isLoad = FALSE]
    PROVE  ~vm'[d].isLoad
  <1>1. vm[d] \in ViewModel /\ DOMAIN vm = Devices
    BY DEF TypeOK
  <1>2. Alerted(vm[d]).isLoad = FALSE /\ [vm[d] EXCEPT !.isLoad = FALSE].isLoad = FALSE
    BY <1>1 DEF ViewModel, Alerted
  <1> QED BY <1>1, <1>2

(* A callback that leaves no work behind has sent nothing.                         *)
LEMMA SentIsWork ==
    ASSUME TypeOK, NEW d \in Devices, NEW r \in Request, Send(d, r)
    PROVE  ~Idle(d)'
  <1>1. requests[d] \in Seq(Request) /\ requests'[d] = Append(requests[d], r)
    BY DEF TypeOK, Send
  <1>2. Len(requests'[d]) = Len(requests[d]) + 1 /\ Len(requests[d]) \in Nat
    BY <1>1, QueueAdd
  <1>3. requests'[d] # <<>>
    BY <1>1, <1>2
  <1> QED BY <1>3 DEF Idle

(* Of a phone that stays on, only a callback takes answers.                        *)
LEMMA OnlyCallbacksTake ==
    ASSUME TypeOK, Next, NEW d \in Devices, replies[d] # <<>>, Idle(d)', app'[d] = "on"
    PROVE  Callback(d)
  <1> USE DEF serverUnchanged, histVars
  <1>0. replies'[d] = <<>> /\ DOMAIN replies = Devices /\ DOMAIN app = Devices
        /\ replies[d] \in Seq(Reply)
    BY DEF Idle, TypeOK
  <1>1. ASSUME NEW e \in Devices, NEW how \in {"off", "crashed"}, Stops(e, how) PROVE FALSE
    <2>1. CASE e = d
      BY <1>0, <1>1, <2>1 DEF Stops
    <2>2. CASE e # d
      BY <1>0, <1>1, <2>2 DEF Stops
    <2> QED BY <2>1, <2>2
  <1>2. ASSUME NEW e \in Devices, NEW r \in Request, NEW ok \in BOOLEAN,
               NEW snap \in Store, Answer(e, r, ok, snap)
        PROVE  FALSE
    <2>1. CASE e = d
      <3> DEFINE a == [req |-> r, ok |-> ok, snap |-> snap]
      <3>1. a \in Reply
        BY DEF Reply
      <3> HIDE DEF a
      <3>2. Len(Append(replies[d], a)) = Len(replies[d]) + 1 /\ Len(replies[d]) \in Nat
        BY <1>0, <3>1, QueueAdd
      <3>3. Append(replies[d], a) # <<>>
        BY SMTT(30), <3>2
      <3>4. replies'[d] \in {replies[d], Append(replies[d], a)}
        BY <1>0, <1>2, <2>1 DEF Answer, a
      <3> QED BY <1>0, <3>3, <3>4, Zenon
    <2>2. CASE e # d
      BY <1>0, <1>2, <2>2 DEF Answer
    <2> QED BY <2>1, <2>2
  <1>User. ASSUME NEW e \in Devices, User(e) PROVE FALSE
    <2>1. UNCHANGED replies \/ Stops(e, "crashed")
      <3>1. CASE Launch(e) \/ Refresh(e) \/ Reappear(e) \/ Back(e) \/ DismissAlert(e)
        BY <3>1 DEF Launch, Refresh, Reappear, Back, DismissAlert
      <3>2. CASE OpenDetail(e) \/ deleteMatches(e)
        BY <3>2 DEF OpenDetail, deleteMatches
      <3>3. CASE setPlayerPositionWithMatch(e) \/ addComment(e)
        BY <3>3 DEF setPlayerPositionWithMatch, addComment
      <3>4. CASE joinMatches(e) \/ leaveMatches(e) \/ deletePlayerPositionWithMatch(e)
        BY <3>4 DEF joinMatches, leaveMatches, deletePlayerPositionWithMatch
      <3>5. CASE setIsPlanningCompleteForMatch(e) \/ OpenCreate(e) \/ createMatch(e)
        BY <3>5 DEF setIsPlanningCompleteForMatch, OpenCreate, createMatch
      <3> QED BY <1>User, <3>1, <3>2, <3>3, <3>4, <3>5 DEF User
    <2> QED BY <1>0, <1>1, <2>1
  <1>Callback. ASSUME NEW e \in Devices, Callback(e) PROVE e = d
    <2>1. replies' = [replies EXCEPT ![e] = Tail(@)]
      <3>1. PICK kind : Answered(e, kind)
        <4>1. CASE OnAllMatchs(e) \/ OnRoster(e) \/ OnJoined(e) \/ OnLeft(e)
          BY <4>1 DEF OnAllMatchs, OnRoster, OnJoined, OnLeft
        <4>2. CASE OnArea(e)
          BY Zenon, <4>2 DEF OnArea
        <4>3. CASE OnAreaRemoved(e) \/ OnDeleted(e) \/ OnPositionWritten(e) \/ OnMatch(e)
          BY <4>3 DEF OnAreaRemoved, OnDeleted, OnPositionWritten, OnMatch
        <4>4. CASE OnPlanned(e) \/ OnCommented(e) \/ OnCreated(e)
          BY <4>4 DEF OnPlanned, OnCommented, OnCreated
        <4> QED BY <1>Callback, <4>1, <4>2, <4>3, <4>4 DEF Callback
      <3> QED BY <3>1 DEF Answered
    <2> QED BY <1>0, <2>1
  <1>Serve. ASSUME NEW e \in Devices, Serve(e) PROVE FALSE
    <2>1. requests[e] # <<>>
      BY <1>Serve DEF Serve, ServeRead, ServeWrite, Commit
    <2>2. Head(requests[e]) \in Request
      BY <2>1, DequeueType
    <2>3. EmptyStore \in Store /\ Snapshot(db, Head(requests[e])) \in Store
      BY <2>2, EmptyStoreType, SnapshotType DEF TypeOK
    <2> QED BY <1>Serve, <1>2, <2>2, <2>3 DEF Serve, ServeRead, ServeWrite
  <1>Failure. ASSUME NEW e \in Devices, Failure(e) PROVE FALSE
    <2>1. CASE FailRead(e)
      <3>1. PICK i \in 1..Len(requests[e]) : Answer(e, requests[e][i], FALSE, EmptyStore)
        BY <2>1 DEF FailRead
      <3>2. requests[e][i] \in Request
        BY ElementOfSeq DEF TypeOK
      <3> QED BY <1>2, <3>1, <3>2, EmptyStoreType
    <2>2. CASE FailWrite(e)
      BY <1>2, <2>2, DequeueType, EmptyStoreType DEF FailWrite
    <2>3. CASE LoseRead(e) \/ Overtake(e) \/ Resend(e)
      BY <1>0, <2>3 DEF LoseRead, Overtake, Resend
    <2>4. CASE Quit(e)
      BY <1>1, <2>4 DEF Quit
    <2> QED BY <1>Failure, <2>1, <2>2, <2>3, <2>4 DEF Failure
  <1>MatchEnds. ASSUME NEW m \in Matches, MatchEnds(m) PROVE FALSE
    BY <1>0, <1>MatchEnds DEF MatchEnds
  <1> QED BY <1>User, <1>Callback, <1>Serve, <1>Failure, <1>MatchEnds DEF Next

(* A callback that leaves no work has cleared the flag, but for those that are     *)
(* named.                                                                         *)
LEMMA CallbackClears ==
    ASSUME TypeOK, NEW d \in Devices, Callback(d), Idle(d)'
    PROVE  LET a == Head(replies[d]) IN
           \/ a.req.kind = "create"
           \/ /\ a.req.kind = "roster" /\ a.ok
              /\ Cardinality(a.snap[a.req.match].players) = Capacity
           \/ a.req.kind = "list" /\ a.ok /\ a.snap = EmptyStore
           \/ ~vm'[d].isLoad
  <1> DEFINE a == Head(replies[d])
  <1>0. vm[d] \in ViewModel /\ DOMAIN vm = Devices
    BY DEF TypeOK
  <1>1. ASSUME ThenAlert(d) PROVE ~vm'[d].isLoad
    BY <1>1, OverlayCleared DEF ThenAlert
  <1>2. ASSUME NEW v, ThenAllMatchs(d, v) PROVE FALSE
    BY <1>2, SentIsWork, RequestTypes DEF ThenAllMatchs
  <1>3. ASSUME NEW kind, kind # "list", Answered(d, kind)
        PROVE  a.req \in Request /\ a.req.match \in Matches /\ a.req.kind = kind
    <2>1. a.req \in Request /\ a.req.kind = kind
      BY <1>3, AnsweredType
    <2> QED BY <1>3, <2>1, RequestMatch
  <1>4. ASSUME NEW m \in Matches, Send(d, Req("detail", m)) PROVE FALSE
    BY <1>4, SentIsWork, RequestTypes
  <1>OnAllMatchs. CASE OnAllMatchs(d)
    <2>1. a.req.kind = "list" /\ a.snap \in Store
      BY <1>OnAllMatchs, AnsweredType DEF OnAllMatchs
    <2>2. CASE vm' = [vm EXCEPT ![d] = Listed(@, a.snap)]
      <3>1. Listed(vm[d], a.snap).isLoad = FALSE
        BY <1>0 DEF Listed, ViewModel
      <3> QED BY <1>0, <2>2, <3>1
    <2>3. CASE vm' = [vm EXCEPT ![d] = [Alerted(@) EXCEPT !.matchsModelList = <<>>]]
      <3>1. Alerted(vm[d]) \in ViewModel /\ Alerted(vm[d]).isLoad = FALSE
        BY <1>0, ViewModelUpdates DEF Alerted, ViewModel
      <3>2. [Alerted(vm[d]) EXCEPT !.matchsModelList = <<>>].isLoad = FALSE
        BY <3>1 DEF ViewModel
      <3> QED BY <1>0, <2>3, <3>2
    <2>4. CASE a.ok /\ \A m \in Matches : ~Exists(a.snap[m])
      <3>1. a.snap = EmptyStore
        BY <2>1, <2>4 DEF Exists, Store, EmptyStore
      <3> QED BY <2>1, <2>4, <3>1
    <2> QED BY <1>OnAllMatchs, <2>2, <2>3, <2>4 DEF OnAllMatchs
  <1>OnRoster. CASE OnRoster(d)
    <2>1. a.req.kind = "roster" /\ a.req.match \in Matches
      BY <1>OnRoster, <1>3 DEF OnRoster
    <2>2. [Req("join", a.req.match) EXCEPT !.user = Owner[d]] \in Request
      BY <2>1, RequestTypes, OwnerType
    <2>3. ~Send(d, [Req("join", a.req.match) EXCEPT !.user = Owner[d]])
      BY <2>2, SentIsWork
    <2> QED BY <1>OnRoster, <1>1, <2>1, <2>3 DEF OnRoster
  <1>OnJoined. CASE OnJoined(d)
    BY <1>OnJoined, <1>2 DEF OnJoined
  <1>OnLeft. CASE OnLeft(d)
    <2>1. a.req \in Request /\ a.req.kind = "leave" /\ a.req.match \in Matches
      BY <1>OnLeft, <1>3 DEF OnLeft
    <2>2. a.req.user \in Users
      BY <2>1 DEF Request
    <2>3. [Req("area", a.req.match) EXCEPT !.user = a.req.user] \in Request
      BY <2>1, <2>2, RequestTypes
    <2>4. ~Send(d, [Req("area", a.req.match) EXCEPT !.user = a.req.user])
      BY <2>3, SentIsWork
    <2> QED BY <1>OnLeft, <1>1, <2>4 DEF OnLeft
  <1>OnArea. CASE OnArea(d)
    <2>0. Answered(d, "area")
      BY Zenon, <1>OnArea DEF OnArea
    <2>1. a.req.match \in Matches
      BY <2>0, <1>3
    <2>2. \A s \in Slots : ~Send(d, [Req("areaRemove", a.req.match) EXCEPT !.slot = s])
      <3> SUFFICES ASSUME NEW s \in Slots
                   PROVE  ~Send(d, [Req("areaRemove", a.req.match) EXCEPT !.slot = s])
        OBVIOUS
      <3>1. [Req("areaRemove", a.req.match) EXCEPT !.slot = s] \in Request
        BY <2>1, RequestTypes
      <3> QED BY <3>1, SentIsWork
    <2> QED BY Zenon, <1>OnArea, <1>1, <1>2, <2>2 DEF OnArea
  <1>OnAreaRemoved. CASE OnAreaRemoved(d)
    BY <1>OnAreaRemoved, <1>1, <1>2 DEF OnAreaRemoved
  <1>OnDeleted. CASE OnDeleted(d)
    BY <1>OnDeleted, <1>1, <1>2 DEF OnDeleted
  <1>OnPositionWritten. CASE OnPositionWritten(d)
    <2>1. a.req.match \in Matches
      BY <1>OnPositionWritten, <1>3 DEF OnPositionWritten
    <2> QED BY <1>OnPositionWritten, <1>1, <1>4, <2>1 DEF OnPositionWritten
  <1>OnMatch. CASE OnMatch(d)
    <2> DEFINE model == Parsed(a.req.match, a.snap[a.req.match])
    <2>1. CASE vm' = [vm EXCEPT ![d].isLoad = FALSE]
      BY <2>1, OverlayCleared
    <2>2. CASE vm' = [vm EXCEPT ![d] =
                        [@ EXCEPT !.isLoad = FALSE, !.selectedMatch = model,
                                  !.unselectedPlayer = Unselected(model)]]
      <3> HIDE DEF model
      <3>1. [vm[d] EXCEPT !.isLoad = FALSE, !.selectedMatch = model,
                          !.unselectedPlayer = Unselected(model)].isLoad = FALSE
        BY <1>0 DEF ViewModel
      <3> QED BY <1>0, <2>2, <3>1
    <2> QED BY <1>OnMatch, <1>1, <2>1, <2>2 DEF OnMatch
  <1>OnPlanned. CASE OnPlanned(d)
    <2>1. a.req.match \in Matches
      BY <1>OnPlanned, <1>3 DEF OnPlanned
    <2> QED BY <1>OnPlanned, <1>1, <1>4, <2>1 DEF OnPlanned
  <1>OnCommented. CASE OnCommented(d)
    <2>1. a.req.match \in Matches
      BY <1>OnCommented, <1>3 DEF OnCommented
    <2> QED BY <1>OnCommented, <1>1, <1>4, <2>1 DEF OnCommented
  <1>OnCreated. CASE OnCreated(d)
    BY <1>OnCreated DEF OnCreated, Answered
  <1> QED
    BY <1>OnAllMatchs, <1>OnRoster, <1>OnJoined, <1>OnLeft, <1>OnArea, <1>OnAreaRemoved,
       <1>OnDeleted, <1>OnPositionWritten, <1>OnMatch, <1>OnPlanned, <1>OnCommented,
       <1>OnCreated
    DEF Callback

(* In every behaviour, the step that ends a phone's last piece of work ends its    *)
(* loading overlay too, unless it is the answer of a full squad in joinMatches,     *)
(* of an empty database in getAllMatchs, or of createMatch, which has its own.      *)
THEOREM OverlayEnds == Spec => SpinnerEndsWithWork
  <1> DEFINE Ends ==
         \A d \in Devices :
           LET a == Head(replies[d]) IN
           /\ replies[d] # <<>> /\ Idle(d)' /\ app'[d] = "on"
           /\ a.req.kind # "create"
           /\ ~(a.req.kind = "roster" /\ a.ok
                  /\ Cardinality(a.snap[a.req.match].players) = Capacity)
           /\ ~(a.req.kind = "list" /\ a.ok /\ a.snap = EmptyStore)
           => ~vm'[d].isLoad
  <1>1. TypeOK /\ Next => Ends
    <2> SUFFICES ASSUME TypeOK, Next, NEW d \in Devices, replies[d] # <<>>,
                        Idle(d)', app'[d] = "on"
                 PROVE  LET a == Head(replies[d]) IN
                        \/ a.req.kind = "create"
                        \/ /\ a.req.kind = "roster" /\ a.ok
                           /\ Cardinality(a.snap[a.req.match].players) = Capacity
                        \/ a.req.kind = "list" /\ a.ok /\ a.snap = EmptyStore
                        \/ ~vm'[d].isLoad
      OBVIOUS
    <2>1. Callback(d)
      BY OnlyCallbacksTake
    <2> QED BY <2>1, CallbackClears
  <1>2. TypeOK /\ [Next]_vars => [Ends]_vars
    BY <1>1
  <1> HIDE DEF Ends
  <1>3. Spec => [][Ends]_vars
    BY <1>2, TypeCorrect, PTL DEF Spec
  <1> QED BY <1>3 DEF Ends, SpinnerEndsWithWork

-----------------------------------------------------------------------------
(* A phone that is alone, with a connection that does not fail. Its pending    *)
(* calls are the answers whose callback has not run and the requests that are  *)
(* not served, in the order they were sent: serving one changes nothing of     *)
(* them, and all that a call in the middle of its chain is about stays as it   *)
(* was read, because nobody else writes.                                       *)

(* Calls a gesture on the content starts, and those that follow from them: the  *)
(* overlay keeps two of them from being under way.                             *)
ListCalls   == {"roster", "join", "leave", "area", "areaRemove", "delete"}
DetailCalls == {"detail", "plan", "place", "vacate", "comment"}
Covered     == ListCalls \cup {"place", "vacate", "comment"}

(* The writes that change a squad or remove a match; their callbacks load the   *)
(* list again, at once or at the end of the chain of leaveMatches.             *)
SquadWrites == {"join", "leave", "delete"}
ChainKinds  == {"area", "areaRemove"}

Pending(q, r) == Len(r) + Len(q)

Item(q, r, i) == IF i <= Len(r) THEN r[i].req ELSE q[i - Len(r)]

(* Two calls that cannot both be under way.                                    *)
Clash(x, y) == \/ x.kind \in Covered /\ y.kind \in Covered
               \/ x.kind \in ListCalls /\ y.kind \in DetailCalls
               \/ x.kind \in DetailCalls /\ y.kind \in ListCalls

(* All answers are good ones; a phone that is off shows nothing and waits for   *)
(* nothing; the bench is what the selected match makes it.                     *)
Plain(p) ==
    /\ \A i \in 1..Len(replies[p]) : replies[p][i].ok
    /\ app[p] # "on" =>
          screen[p] = "list" /\ replies[p] = <<>> /\ vm[p].matchsModelList = <<>>
    /\ vm[p].unselectedPlayer = Unselected(vm[p].selectedMatch)

(* A match that is being created was never there.                              *)
Births(p) ==
    /\ \A m \in Matches \ minted : m \notin Known
    /\ \A i \in 1..Len(requests[p]) :
          requests[p][i].kind = "create" =>
             requests[p][i].match \in minted /\ requests[p][i].match \notin Known
    /\ \A i, j \in 1..Len(requests[p]) :
          /\ requests[p][i].kind = "create" /\ requests[p][j].kind = "create"
          /\ requests[p][i].match = requests[p][j].match
          => i = j

(* Cards that show the squads as they are now.                                 *)
Seen(c, known) == \A m \in Matches : c[m] # None => m \in known

Current(c, store) ==
    \A m \in Matches : c[m] # None =>
       c[m].players = store[m].players /\ c[m].matchID = Parsed(m, store[m]).matchID

(* A load that was overtaken by a change of a squad is before the answer to     *)
(* that change, whose callback empties the list.                               *)
Reloads(p) ==
    \/ \E j \in 1..Len(replies[p]) : replies[p][j].req.kind \in SquadWrites \cup ChainKinds
    \/ \E j \in 1..Len(requests[p]) : requests[p][j].kind \in ChainKinds

AnswersCurrent(p) ==
    \A i \in 1..Len(replies[p]) : replies[p][i].req.kind = "list" =>
       /\ Seen(CardsOf(replies[p][i].snap), Known)
       /\ \/ Current(CardsOf(replies[p][i].snap), db)
          \/ \E j \in (i + 1)..Len(replies[p]) : replies[p][j].req.kind \in SquadWrites

ListCurrent(p) ==
    \A i \in 1..Len(vm[p].matchsModelList) :
       /\ Seen(vm[p].matchsModelList[i], Known)
       /\ Current(vm[p].matchsModelList[i], db) \/ Reloads(p)

(* While the phone has not slipped:                                            *)
(* no two calls under way clash;                                               *)
NoClash(p) ==
    /\ app[p] # "on" => requests[p] = <<>>
    /\ \A i, j \in 1..Pending(requests[p], replies[p]) : i # j => ~Clash(Item(requests[p], replies[p], i), Item(requests[p], replies[p], j))

(* a detail screen shows a match that is there, and so do the calls it makes;   *)
DetailThere(p) ==
    /\ \A i \in 1..Pending(requests[p], replies[p]) :
          Item(requests[p], replies[p], i).kind \in DetailCalls => db[Item(requests[p], replies[p], i).match].info
    /\ screen[p] \in Matches =>
          /\ db[screen[p]].info
          /\ \A i \in 1..Pending(requests[p], replies[p]) :
                Item(requests[p], replies[p], i).kind \in DetailCalls /\ Item(requests[p], replies[p], i).match = screen[p]

(* with nothing left to serve, the last answer for it is the match as it is;    *)
DetailCurrent(p) ==
    /\ screen[p] \in Matches /\ requests[p] = <<>>
    /\ \A i \in 1..Len(replies[p]) : replies[p][i].req.kind = "detail"
    => IF replies[p] = <<>>
       THEN vm[p].selectedMatch = Parsed(screen[p], db[screen[p]])
       ELSE replies[p][Len(replies[p])].snap[screen[p]] = db[screen[p]]

(* a player to be placed is in the squad and has no place;                     *)
PlaceReady(p) ==
    \A i \in 1..Len(requests[p]) : requests[p][i].kind = "place" =>
       LET r == requests[p][i] IN
       /\ r.user \in db[r.match].players
       /\ \A s \in Slots : db[r.match].Positions[s] # r.user

(* the pitch that leaveMatches has read is still the pitch;                    *)
AreaCurrent(p) ==
    \A i \in 1..Len(replies[p]) : replies[p][i].req.kind = "area" =>
       LET a == replies[p][i] IN
       a.snap[a.req.match].Positions = db[a.req.match].Positions

(* a player has one place;                                                     *)
OnePlaceEach ==
    \A m \in Matches : \A s, t \in Slots :
       db[m].Positions[s] = db[m].Positions[t] => s = t \/ db[m].Positions[s] = None

(* and whoever is on the pitch outside the squad is on the way off it: the      *)
(* chain of leaveMatches has still to find place s of m, where u is, and to     *)
(* clear it.                                                                   *)
Finds(a, m, s, u) ==
    /\ a.req.match = m /\ a.req.user = u
    /\ \/ a.req.kind = "leave"
       \/ a.req.kind = "area" /\ a.snap[m].Positions[s] = u

Clears(r, m, s, u) ==
    /\ r.match = m
    /\ \/ r.kind = "area" /\ r.user = u
       \/ r.kind = "areaRemove" /\ r.slot = s

Leaving(p, m, s) ==
    \/ \E i \in 1..Len(replies[p]) : Finds(replies[p][i], m, s, db[m].Positions[s])
    \/ \E i \in 1..Len(requests[p]) : Clears(requests[p][i], m, s, db[m].Positions[s])

PitchInSquad(p) ==
    \A m \in Matches, s \in Slots :
       db[m].Positions[s] \in db[m].players \cup {None} \/ Leaving(p, m, s)

Calm(p) == /\ NoClash(p) /\ DetailThere(p) /\ DetailCurrent(p) /\ PlaceReady(p)
           /\ AreaCurrent(p) /\ OnePlaceEach /\ PitchInSquad(p)

AloneInv(p) == /\ TypeOK /\ GhostInv /\ Plain(p) /\ Births(p)
               /\ AnswersCurrent(p) /\ ListCurrent(p)
               /\ slipped = {} => Calm(p)

-----------------------------------------------------------------------------
(* What a step does to the phone, as far as the invariant is concerned.        *)
SameList(p)   == vm'[p].matchsModelList = vm[p].matchsModelList
SameDetail(p) == /\ vm'[p].selectedMatch = vm[p].selectedMatch
                 /\ vm'[p].unselectedPlayer = vm[p].unselectedPlayer

(* A gesture on the content: with a call under way it slips.                   *)
Slips(p) == slipped' = {} => slipped = {} /\ Idle(p)

RestStep(p) ==
    /\ UNCHANGED <<db, deleted, minted, slipped>> /\ app'[p] = app[p]
    /\ requests'[p] = requests[p] /\ replies'[p] = replies[p]
    /\ SameList(p) /\ SameDetail(p)
    /\ screen'[p] = screen[p] \/ (screen'[p] \in {"list", "create"} /\ app[p] = "on")

StopStep(p) ==
    /\ UNCHANGED <<db, deleted, minted>> /\ app'[p] # "on" /\ screen'[p] = "list"
    /\ vm'[p] = NewViewModel /\ replies'[p] = <<>>
    /\ \E n \in 0..Len(requests[p]) : requests'[p] = SubSeq(requests[p], 1, n)
    /\ Slips(p)

(* Calls that gestures start.                                                  *)
Sends(p, x) ==
    /\ requests'[p] = Append(requests[p], x) /\ replies'[p] = replies[p]
    /\ UNCHANGED <<db, deleted>> /\ app'[p] = "on"

LoadStep(p) ==
    \E x \in Request :
       /\ Sends(p, x) /\ x.kind = "list" /\ UNCHANGED <<minted, slipped>>
       /\ screen[p] = "list" /\ screen'[p] = "list"
       /\ vm'[p].matchsModelList = <<>>
       /\ SameDetail(p) \/ vm'[p] = getAllMatchs(NewViewModel)

ToolbarStep(p) ==
    \E x \in Request :
       /\ Sends(p, x) /\ x.kind \in {"detail", "plan"} /\ UNCHANGED <<minted, slipped>>
       /\ screen[p] \in Matches /\ screen'[p] = screen[p] /\ x.match = screen[p]
       /\ SameList(p) /\ SameDetail(p)

CreateStep(p) ==
    \E x \in Request :
       /\ Sends(p, x) /\ x.kind = "create" /\ UNCHANGED slipped
       /\ x.match \notin minted /\ minted' = minted \cup {x.match}
       /\ screen[p] = "create" /\ screen'[p] = "create"
       /\ SameList(p) /\ SameDetail(p)

OpenStep(p) ==
    \E x \in Request :
       /\ Sends(p, x) /\ x.kind = "detail" /\ UNCHANGED minted /\ Slips(p)
       /\ screen'[p] = x.match
       /\ \E card \in ShownCards(p) : card.matchID = x.match
       /\ SameList(p) /\ SameDetail(p)

CardStep(p) ==
    \E x \in Request :
       /\ Sends(p, x) /\ x.kind \in {"roster", "leave", "delete"} /\ UNCHANGED minted /\ Slips(p)
       /\ screen[p] = "list" /\ screen'[p] = "list"
       /\ SameList(p) /\ SameDetail(p)

PitchStep(p) ==
    \E x \in Request :
       /\ Sends(p, x) /\ x.kind \in {"place", "vacate", "comment"} /\ UNCHANGED minted /\ Slips(p)
       /\ screen[p] \in Matches /\ screen'[p] = screen[p]
       /\ x.match \in {screen[p], vm[p].selectedMatch.matchID}
       /\ x.kind = "place" => x.user \in vm[p].unselectedPlayer
       /\ SameList(p) /\ SameDetail(p)

(* Callbacks that send nothing.                                                *)
Takes(p) ==
    /\ replies[p] # <<>> /\ replies'[p] = Tail(replies[p])
    /\ UNCHANGED <<db, deleted, minted, slipped>> /\ app[p] = "on" /\ app'[p] = "on"

ListedStep(p) ==
    /\ Takes(p) /\ requests'[p] = requests[p] /\ Head(replies[p]).req.kind = "list"
    /\ SameDetail(p) /\ screen'[p] = screen[p]
    /\ SameList(p) \/ vm'[p].matchsModelList =
                         Append(vm[p].matchsModelList, CardsOf(Head(replies[p]).snap))

ShownStep(p) ==
    LET a == Head(replies[p])
        model == Parsed(a.req.match, a.snap[a.req.match]) IN
    /\ Takes(p) /\ requests'[p] = requests[p] /\ a.req.kind = "detail"
    /\ SameList(p) /\ screen'[p] = screen[p]
    /\ IF Exists(a.snap[a.req.match])
       THEN vm'[p].selectedMatch = model /\ vm'[p].unselectedPlayer = Unselected(model)
       ELSE SameDetail(p)

IgnoredStep(p) ==
    /\ Takes(p) /\ requests'[p] = requests[p]
    /\ Head(replies[p]).req.kind \in {"roster", "create"}
    /\ SameList(p) /\ SameDetail(p) /\ screen'[p] = screen[p]

(* Callbacks that send the next call.                                          *)
ReloadStep(p) ==
    LET a == Head(replies[p]) IN
    /\ Takes(p) /\ a.req.kind \in {"join", "area", "areaRemove", "delete", "create"}
    /\ \E x \in Request : x.kind = "list" /\ requests'[p] = Append(requests[p], x)
    /\ a.req.kind = "area" =>
          \A s \in Slots : a.snap[a.req.match].Positions[s] # a.req.user
    /\ vm'[p].matchsModelList = <<>> /\ SameDetail(p)
    /\ screen'[p] \in {screen[p], "list"}

ChainStep(p) ==
    LET a == Head(replies[p]) IN
    /\ Takes(p) /\ SameList(p) /\ SameDetail(p) /\ screen'[p] = screen[p]
    /\ \E x \in Request :
          /\ requests'[p] = Append(requests[p], x) /\ x.match = a.req.match
          /\ \/ a.req.kind = "roster" /\ x.kind = "join"
             \/ a.req.kind = "leave" /\ x.kind = "area" /\ x.user = a.req.user
             \/ /\ a.req.kind = "area" /\ x.kind = "areaRemove"
                /\ a.snap[a.req.match].Positions[x.slot] = a.req.user

ShowStep(p) ==
    LET a == Head(replies[p]) IN
    /\ Takes(p) /\ SameList(p) /\ SameDetail(p) /\ screen'[p] = screen[p]
    /\ a.req.kind \in {"place", "vacate", "plan", "comment"}
    /\ \E x \in Request : /\ requests'[p] = Append(requests[p], x)
                          /\ x.kind = "detail" /\ x.match = a.req.match

(* The database serves the oldest request.                                     *)
Serves(p, snap) ==
    /\ requests[p] # <<>> /\ requests'[p] = Tail(requests[p])
    /\ replies'[p] = IF app[p] = "on"
                     THEN Append(replies[p], [req |-> Head(requests[p]), ok |-> TRUE, snap |-> snap])
                     ELSE replies[p]
    /\ UNCHANGED <<minted, app, screen, vm, slipped>>

ReadStep(p) ==
    /\ Serves(p, Snapshot(db, Head(requests[p]))) /\ Head(requests[p]).kind \in ReadKinds
    /\ UNCHANGED <<db, deleted>>

WriteStep(p) ==
    LET x == Head(requests[p]) IN
    /\ Serves(p, EmptyStore) /\ x.kind \in WriteKinds
    /\ db' = Applied(db, x)
    /\ deleted' = IF x.kind = "delete" THEN deleted \cup {x.match} ELSE deleted

AloneStep(p) ==
    \/ RestStep(p) \/ StopStep(p)
    \/ LoadStep(p) \/ ToolbarStep(p) \/ CreateStep(p) \/ OpenStep(p) \/ CardStep(p) \/ PitchStep(p)
    \/ ListedStep(p) \/ ShownStep(p) \/ IgnoredStep(p)
    \/ ReloadStep(p) \/ ChainStep(p) \/ ShowStep(p)
    \/ ReadStep(p) \/ WriteStep(p)

-----------------------------------------------------------------------------
(* Types of what a phone holds.                                                *)
LEMMA PhoneTypes ==
    ASSUME TypeOK, NEW p \in Devices
    PROVE  /\ requests[p] \in Seq(Request) /\ replies[p] \in Seq(Reply) /\ vm[p] \in ViewModel
           /\ vm[p].matchsModelList \in Seq([Matches -> Card])
           /\ vm[p].selectedMatch \in MatchsModel
           /\ db \in Store /\ screen[p] \in Matches \cup {"list", "create"}
           /\ app[p] \in {"off", "on", "crashed"} /\ slipped \subseteq Devices
           /\ vm \in [Devices -> ViewModel] /\ requests \in [Devices -> Seq(Request)]
           /\ replies \in [Devices -> Seq(Reply)] /\ minted \subseteq Matches
  BY DEF TypeOK, ViewModel

(* What the assignments of the view model's functions leave alone.             *)
LEMMA ViewParts ==
    ASSUME NEW v \in ViewModel
    PROVE  /\ Loading(v).matchsModelList = v.matchsModelList
           /\ Loading(v).selectedMatch = v.selectedMatch
           /\ Loading(v).unselectedPlayer = v.unselectedPlayer
           /\ getAllMatchs(v).matchsModelList = <<>>
           /\ getAllMatchs(v).selectedMatch = v.selectedMatch
           /\ getAllMatchs(v).unselectedPlayer = v.unselectedPlayer
           /\ \A b \in BOOLEAN :
                 /\ [v EXCEPT !.isLoad = b].matchsModelList = v.matchsModelList
                 /\ [v EXCEPT !.isLoad = b].selectedMatch = v.selectedMatch
                 /\ [v EXCEPT !.isLoad = b].unselectedPlayer = v.unselectedPlayer
                 /\ [v EXCEPT !.showAlert = b].matchsModelList = v.matchsModelList
                 /\ [v EXCEPT !.showAlert = b].selectedMatch = v.selectedMatch
                 /\ [v EXCEPT !.showAlert = b].unselectedPlayer = v.unselectedPlayer
  BY DEF ViewModel, Loading, getAllMatchs

(* A phone that loads keeps its list and its detail screen.                    *)
LEMMA LoadingSame ==
    ASSUME TypeOK, NEW p \in Devices,
           \/ vm' = vm
           \/ vm' = [vm EXCEPT ![p] = Loading(@)]
           \/ vm' = [vm EXCEPT ![p].isLoad = FALSE]
           \/ \E b \in BOOLEAN : vm' = [vm EXCEPT ![p].showAlert = b]
    PROVE  SameList(p) /\ SameDetail(p)
  <1>1. vm[p] \in ViewModel /\ vm \in [Devices -> ViewModel]
    BY PhoneTypes
  <1>2. \/ vm'[p] = vm[p] \/ vm'[p] = Loading(vm[p])
        \/ vm'[p] = [vm[p] EXCEPT !.isLoad = FALSE]
        \/ \E b \in BOOLEAN : vm'[p] = [vm[p] EXCEPT !.showAlert = b]
    BY <1>1
  <1>3. CASE vm'[p] = vm[p] \/ vm'[p] = Loading(vm[p])
    BY <1>1, <1>3, ViewParts DEF SameList, SameDetail
  <1>4. CASE vm'[p] = [vm[p] EXCEPT !.isLoad = FALSE]
    BY <1>1, <1>4, ViewParts DEF SameList, SameDetail
  <1>5. CASE \E b \in BOOLEAN : vm'[p] = [vm[p] EXCEPT !.showAlert = b]
    BY <1>1, <1>5, ViewParts DEF SameList, SameDetail
  <1> QED BY <1>2, <1>3, <1>4, <1>5

LEMMA SendAt ==
    ASSUME TypeOK, NEW p \in Devices, NEW x, Send(p, x)
    PROVE  requests'[p] = Append(requests[p], x)
  BY PhoneTypes DEF Send

(* An app that stops.                                                          *)
LEMMA StopsAlone ==
    ASSUME TypeOK, NEW p \in Devices, NEW how \in {"off", "crashed"}, Stops(p, how),
           UNCHANGED <<db, deleted, minted>>, Slips(p)
    PROVE  StopStep(p)
  BY DEF Stops, StopStep, TypeOK

LEMMA TapSlips ==
    ASSUME TypeOK, NEW p \in Devices, NEW g, Tap(p, g)
    PROVE  Slips(p) /\ app[p] = "on"
  BY DEF Tap, Touch, Slips

LEMMA UserAlone ==
    ASSUME TypeOK, NEW p \in Devices, Plain(p), User(p)
    PROVE  AloneStep(p)
  <1> USE DEF histVars, netHist
  <1>0. /\ app \in [Devices -> {"off", "on", "crashed"}]
        /\ screen \in [Devices -> Matches \cup {"list", "create"}]
        /\ vm \in [Devices -> ViewModel]
    BY DEF TypeOK
  <1>1. Req("list", None) \in Request /\ Req("list", None).kind = "list"
    BY RequestTypes DEF Req
  <1>Launch. CASE Launch(p)
    <2> USE <1>Launch DEF Launch
    <2>1. Sends(p, Req("list", None))
      BY <1>0, SendAt DEF Sends
    <2>2. vm'[p] = getAllMatchs(NewViewModel) /\ vm'[p].matchsModelList = <<>>
      BY <1>0, ViewParts, ViewModelUpdates
    <2>3. screen[p] = "list" /\ screen'[p] = "list"
      BY DEF Plain
    <2>4. LoadStep(p)
      BY <1>1, <2>1, <2>2, <2>3 DEF LoadStep
    <2> QED BY <2>4 DEF AloneStep
  <1>Refresh. CASE Refresh(p)
    <2> USE <1>Refresh DEF Refresh
    <2>1. Sends(p, Req("list", None))
      BY <1>0, SendAt DEF Sends, Touch
    <2>2. vm'[p].matchsModelList = <<>> /\ SameDetail(p)
      BY <1>0, ViewParts DEF SameDetail
    <2>4. LoadStep(p)
      BY <1>1, <2>1, <2>2 DEF LoadStep
    <2> QED BY <2>4 DEF AloneStep
  <1>OpenDetail. CASE OpenDetail(p)
    <2>0. Slips(p) /\ app[p] = "on"
      BY <1>OpenDetail, TapSlips DEF OpenDetail
    <2>1. PICK card \in ShownCards(p) :
            \/ /\ card.matchID # None
               /\ screen' = [screen EXCEPT ![p] = card.matchID]
               /\ vm' = [vm EXCEPT ![p] = Loading(@)]
               /\ Send(p, Req("detail", card.matchID))
               /\ UNCHANGED <<app, form, replies>>
            \/ card.matchID = None /\ Stops(p, "crashed")
      BY <1>OpenDetail DEF OpenDetail
    <2>2. UNCHANGED <<db, deleted, minted>>
      BY <1>OpenDetail DEF OpenDetail
    <2>3. CASE Stops(p, "crashed")
      BY <2>0, <2>2, <2>3, StopsAlone DEF AloneStep
    <2>4. CASE /\ card.matchID # None
               /\ screen' = [screen EXCEPT ![p] = card.matchID]
               /\ vm' = [vm EXCEPT ![p] = Loading(@)]
               /\ Send(p, Req("detail", card.matchID))
               /\ UNCHANGED <<app, replies>>
      <3> DEFINE x == Req("detail", card.matchID)
      <3>1. card.matchID \in Matches
        BY <2>4, ShownCardsType
      <3>2. x \in Request /\ x.kind = "detail" /\ x.match = card.matchID
        <4>1. x \in Request
          BY <3>1, RequestTypes
        <4>2. x.kind = "detail" /\ x.match = card.matchID
          BY DEF Req
        <4> QED BY <4>1, <4>2
      <3>3. Sends(p, x)
        BY <2>0, <2>2, <2>4, SendAt DEF Sends
      <3>4. SameList(p) /\ SameDetail(p)
        BY <2>4, LoadingSame
      <3>5. screen'[p] = card.matchID
        BY <1>0, <2>4
      <3> HIDE DEF x
      <3>6. OpenStep(p)
        BY <2>0, <2>2, <3>2, <3>3, <3>4, <3>5 DEF OpenStep
      <3> QED BY <3>6 DEF AloneStep
    <2> QED BY <2>1, <2>3, <2>4
  <1>Reappear. CASE Reappear(p)
    <2> USE <1>Reappear DEF Reappear
    <2> DEFINE x == Req("detail", screen[p])
    <2>1. screen[p] \in Matches
      BY DEF OnDetail
    <2>2. x \in Request /\ x.kind = "detail" /\ x.match = screen[p]
      <3>1. x \in Request
        BY <2>1, RequestTypes
      <3>2. x.kind = "detail" /\ x.match = screen[p]
        BY DEF Req
      <3> QED BY <3>1, <3>2
    <2>3. Sends(p, x)
      BY SendAt DEF Sends, Touch
    <2>4. SameList(p) /\ SameDetail(p)
      BY LoadingSame
    <2> HIDE DEF x
    <2>5. ToolbarStep(p)
      BY <2>1, <2>2, <2>3, <2>4 DEF ToolbarStep
    <2> QED BY <2>5 DEF AloneStep
  <1>Back. CASE Back(p)
    <2>1. RestStep(p)
      BY <1>Back, <1>0 DEF Back, RestStep, SameList, SameDetail
    <2> QED BY <2>1 DEF AloneStep
  <1>DismissAlert. CASE DismissAlert(p)
    <2>1. SameList(p) /\ SameDetail(p)
      BY <1>DismissAlert, LoadingSame DEF DismissAlert
    <2>2. RestStep(p)
      BY <1>DismissAlert, <2>1 DEF DismissAlert, RestStep
    <2> QED BY <2>2 DEF AloneStep
  <1>joinMatches. CASE joinMatches(p)
    <2>0. Slips(p) /\ app[p] = "on"
      BY <1>joinMatches, TapSlips DEF joinMatches
    <2>1. PICK card \in ShownCards(p) : CanStillJoin(card) /\ Send(p, Req("roster", card.matchID))
      BY <1>joinMatches DEF joinMatches
    <2> DEFINE x == Req("roster", card.matchID)
    <2>2. card.matchID \in Matches
      BY <2>1, ShownCardsType DEF CanStillJoin
    <2>3. x \in Request /\ x.kind = "roster"
      <3>1. x \in Request
        BY <2>2, RequestTypes
      <3>2. x.kind = "roster"
        BY DEF Req
      <3> QED BY <3>1, <3>2
    <2>4. Sends(p, x)
      BY <1>joinMatches, <2>0, <2>1, SendAt DEF Sends, joinMatches
    <2>5. SameList(p) /\ SameDetail(p)
      BY <1>joinMatches, LoadingSame DEF joinMatches
    <2> HIDE DEF x
    <2>6. CardStep(p)
      BY <1>joinMatches, <2>0, <2>3, <2>4, <2>5 DEF CardStep, joinMatches
    <2> QED BY <2>6 DEF AloneStep
  <1>leaveMatches. CASE leaveMatches(p)
    <2>0. Slips(p) /\ app[p] = "on"
      BY <1>leaveMatches, TapSlips DEF leaveMatches
    <2>1. PICK card \in ShownCards(p) :
            CanStillJoin(card) /\ Send(p, [Req("leave", card.matchID) EXCEPT !.user = Owner[p]])
      BY <1>leaveMatches DEF leaveMatches
    <2> DEFINE x == [Req("leave", card.matchID) EXCEPT !.user = Owner[p]]
    <2>2. card.matchID \in Matches /\ Owner[p] \in Users
      BY <2>1, ShownCardsType, OwnerType DEF CanStillJoin
    <2>3. x \in Request /\ x.kind = "leave"
      <3>1. x \in Request
        BY <2>2, RequestTypes
      <3>2. x.kind = "leave"
        BY DEF Req
      <3> QED BY <3>1, <3>2
    <2>4. Sends(p, x)
      BY <1>leaveMatches, <2>0, <2>1, SendAt DEF Sends, leaveMatches
    <2>5. SameList(p) /\ SameDetail(p)
      BY <1>leaveMatches, LoadingSame DEF leaveMatches
    <2> HIDE DEF x
    <2>6. CardStep(p)
      BY <1>leaveMatches, <2>0, <2>3, <2>4, <2>5 DEF CardStep, leaveMatches
    <2> QED BY <2>6 DEF AloneStep
  <1>deleteMatches. CASE deleteMatches(p)
    <2>0. Slips(p) /\ app[p] = "on" /\ UNCHANGED <<db, deleted, minted>> /\ screen[p] = "list"
      BY <1>deleteMatches, TapSlips DEF deleteMatches
    <2>1. PICK card \in ShownCards(p) :
            \/ /\ card.matchID # None
               /\ vm' = [vm EXCEPT ![p] = Loading(@)]
               /\ Send(p, Req("delete", card.matchID))
               /\ UNCHANGED <<app, screen, form, replies>>
            \/ card.matchID = None /\ Stops(p, "crashed")
      BY <1>deleteMatches DEF deleteMatches
    <2>2. CASE Stops(p, "crashed")
      BY <2>0, <2>2, StopsAlone DEF AloneStep
    <2>3. CASE /\ card.matchID # None
               /\ vm' = [vm EXCEPT ![p] = Loading(@)]
               /\ Send(p, Req("delete", card.matchID))
               /\ UNCHANGED <<app, screen, replies>>
      <3> DEFINE x == Req("delete", card.matchID)
      <3>1. card.matchID \in Matches
        BY <2>3, ShownCardsType
      <3>2. x \in Request /\ x.kind = "delete"
        <4>1. x \in Request
          BY <3>1, RequestTypes
        <4>2. x.kind = "delete"
          BY DEF Req
        <4> QED BY <4>1, <4>2
      <3>3. Sends(p, x)
        BY <2>0, <2>3, SendAt DEF Sends
      <3>4. SameList(p) /\ SameDetail(p)
        BY <2>3, LoadingSame
      <3> HIDE DEF x
      <3>5. CardStep(p)
        BY <2>0, <2>3, <3>2, <3>3, <3>4 DEF CardStep
      <3> QED BY <3>5 DEF AloneStep
    <2> QED BY <2>1, <2>2, <2>3
  <1>place. CASE setPlayerPositionWithMatch(p)
    <2>0. Slips(p) /\ app[p] = "on" /\ UNCHANGED <<db, deleted, minted>> /\ screen[p] \in Matches
      BY <1>place, TapSlips DEF setPlayerPositionWithMatch, OnDetail
    <2>1. PICK u \in vm[p].unselectedPlayer, s \in Slots :
            \/ /\ vm[p].selectedMatch.matchID # None
               /\ vm' = [vm EXCEPT ![p] = Loading(@)]
               /\ Send(p, [Req("place", vm[p].selectedMatch.matchID) EXCEPT !.slot = s, !.user = u])
               /\ UNCHANGED <<app, screen, form, replies>>
            \/ vm[p].selectedMatch.matchID = None /\ Stops(p, "crashed")
      BY <1>place DEF setPlayerPositionWithMatch
    <2>2. CASE Stops(p, "crashed")
      BY <2>0, <2>2, StopsAlone DEF AloneStep
    <2>3. CASE /\ vm[p].selectedMatch.matchID # None
               /\ vm' = [vm EXCEPT ![p] = Loading(@)]
               /\ Send(p, [Req("place", vm[p].selectedMatch.matchID) EXCEPT !.slot = s, !.user = u])
               /\ UNCHANGED <<app, screen, replies>>
      <3> DEFINE x == [Req("place", vm[p].selectedMatch.matchID) EXCEPT !.slot = s, !.user = u]
      <3>1. vm[p].selectedMatch.matchID \in Matches /\ u \in Users
        BY <2>3, ShownCardsType DEF ViewModel
      <3>2. x \in Request /\ x.kind = "place" /\ x.match = vm[p].selectedMatch.matchID /\ x.user = u
        <4>1. x \in Request
          BY <3>1, RequestTypes
        <4>2. x.kind = "place" /\ x.match = vm[p].selectedMatch.matchID /\ x.user = u
          BY DEF Req
        <4> QED BY <4>1, <4>2
      <3>3. Sends(p, x)
        BY <2>0, <2>3, SendAt DEF Sends
      <3>4. SameList(p) /\ SameDetail(p)
        BY <2>3, LoadingSame
      <3> HIDE DEF x
      <3>5. PitchStep(p)
        BY <2>0, <2>3, <3>2, <3>3, <3>4 DEF PitchStep
      <3> QED BY <3>5 DEF AloneStep
    <2> QED BY <2>1, <2>2, <2>3
  <1>vacate. CASE deletePlayerPositionWithMatch(p)
    <2>0. Slips(p) /\ app[p] = "on" /\ screen[p] \in Matches
      BY <1>vacate, TapSlips DEF deletePlayerPositionWithMatch, OnDetail
    <2>1. PICK s \in Slots : Send(p, [Req("vacate", screen[p]) EXCEPT !.slot = s])
      BY <1>vacate DEF deletePlayerPositionWithMatch
    <2> DEFINE x == [Req("vacate", screen[p]) EXCEPT !.slot = s]
    <2>2. x \in Request /\ x.kind = "vacate" /\ x.match = screen[p]
      <3>1. x \in Request
        BY <2>0, RequestTypes
      <3>2. x.kind = "vacate" /\ x.match = screen[p]
        BY DEF Req
      <3> QED BY <3>1, <3>2
    <2>3. Sends(p, x)
      BY <1>vacate, <2>0, <2>1, SendAt DEF Sends, deletePlayerPositionWithMatch
    <2>4. SameList(p) /\ SameDetail(p)
      BY <1>vacate, LoadingSame DEF deletePlayerPositionWithMatch
    <2> HIDE DEF x
    <2>5. PitchStep(p)
      BY <1>vacate, <2>0, <2>2, <2>3, <2>4 DEF PitchStep, deletePlayerPositionWithMatch
    <2> QED BY <2>5 DEF AloneStep
  <1>plan. CASE setIsPlanningCompleteForMatch(p)
    <2> DEFINE b == IF vm[p].selectedMatch.isPlanningComplete THEN "no" ELSE "yes"
               x == [Req("plan", screen[p]) EXCEPT !.plan = b]
    <2>0. app[p] = "on" /\ screen[p] \in Matches
      BY <1>plan DEF setIsPlanningCompleteForMatch, OnDetail, Touch
    <2>1. b \in {"no", "yes"}
      OBVIOUS
    <2> HIDE DEF b
    <2>2. x \in Request /\ x.kind = "plan" /\ x.match = screen[p]
      <3>1. x \in Request
        BY <2>0, <2>1, RequestTypes
      <3>2. x.kind = "plan" /\ x.match = screen[p]
        BY DEF Req
      <3> QED BY <3>1, <3>2
    <2>3. Sends(p, x)
      BY <1>plan, <2>0, SendAt DEF Sends, setIsPlanningCompleteForMatch, b
    <2>4. SameList(p) /\ SameDetail(p)
      BY <1>plan, LoadingSame DEF setIsPlanningCompleteForMatch
    <2> HIDE DEF x
    <2>5. ToolbarStep(p)
      BY <1>plan, <2>0, <2>2, <2>3, <2>4 DEF ToolbarStep, setIsPlanningCompleteForMatch
    <2> QED BY <2>5 DEF AloneStep
  <1>comment. CASE addComment(p)
    <2>0. Slips(p) /\ app[p] = "on" /\ UNCHANGED <<db, deleted, minted>> /\ screen[p] \in Matches
      BY <1>comment, TapSlips DEF addComment, OnDetail
    <2>2. CASE Stops(p, "crashed")
      BY <2>0, <2>2, StopsAlone DEF AloneStep
    <2>3. CASE ~Stops(p, "crashed")
      <3> DEFINE x == [Req("comment", vm[p].selectedMatch.matchID) EXCEPT !.about = screen[p]]
      <3>0. /\ vm[p].selectedMatch.matchID # None
            /\ vm' = [vm EXCEPT ![p] = Loading(@)]
            /\ Send(p, x)
            /\ UNCHANGED <<app, screen, replies>>
        BY <1>comment, <2>3 DEF addComment
      <3>1. vm[p].selectedMatch.matchID \in Matches
        BY <3>0, ShownCardsType
      <3>2. x \in Request /\ x.kind = "comment" /\ x.match = vm[p].selectedMatch.matchID
        <4>1. x \in Request
          BY <2>0, <3>1, RequestTypes
        <4>2. x.kind = "comment" /\ x.match = vm[p].selectedMatch.matchID
          BY DEF Req
        <4> QED BY <4>1, <4>2
      <3>3. Sends(p, x)
        BY <2>0, <3>0, SendAt DEF Sends
      <3>4. SameList(p) /\ SameDetail(p)
        BY <3>0, LoadingSame
      <3> HIDE DEF x
      <3>5. PitchStep(p)
        BY <2>0, <3>0, <3>2, <3>3, <3>4 DEF PitchStep
      <3> QED BY <3>5 DEF AloneStep
    <2> QED BY <2>2, <2>3
  <1>OpenCreate. CASE OpenCreate(p)
    <2>1. RestStep(p)
      BY <1>OpenCreate, <1>0 DEF OpenCreate, RestStep, SameList, SameDetail, Touch
    <2> QED BY <2>1 DEF AloneStep
  <1>createMatch. CASE createMatch(p)
    <2>1. PICK m \in Matches \ minted :
             minted' = minted \cup {m} /\ Send(p, [Req("create", m) EXCEPT !.visit = form[p].visit])
      BY <1>createMatch DEF createMatch
    <2> DEFINE x == [Req("create", m) EXCEPT !.visit = form[p].visit]
    <2>2. form[p].visit \in Nat
      BY FormType, FormUpdates
    <2>3. x \in Request /\ x.kind = "create" /\ x.match = m
      <3>1. x \in Request
        BY <2>2, RequestTypes
      <3>2. x.kind = "create" /\ x.match = m
        BY DEF Req
      <3> QED BY <3>1, <3>2
    <2>4. Sends(p, x)
      BY <1>createMatch, <2>1, SendAt DEF Sends, createMatch, Touch
    <2> HIDE DEF x
    <2>5. CreateStep(p)
      BY <1>createMatch, <2>1, <2>3, <2>4 DEF CreateStep, createMatch, SameList, SameDetail
    <2> QED BY <2>5 DEF AloneStep
  <1> QED
    BY <1>Launch, <1>Refresh, <1>OpenDetail, <1>Reappear, <1>Back, <1>DismissAlert, <1>joinMatches,
       <1>leaveMatches, <1>deleteMatches, <1>place, <1>vacate, <1>plan, <1>comment, <1>OpenCreate,
       <1>createMatch DEF User

(* A callback takes an answer, which is a good one.                            *)
LEMMA AnsweredAlone ==
    ASSUME TypeOK, NEW p \in Devices, Plain(p), NEW kind, Answered(p, kind),
           UNCHANGED callbackUnchanged
    PROVE  /\ Takes(p) /\ Head(replies[p]).ok /\ Head(replies[p]).req.kind = kind
           /\ Head(replies[p]) \in Reply /\ Head(replies[p]).req \in Request
  <1>1. replies[p] \in Seq(Reply) /\ replies[p] # <<>>
    BY PhoneTypes DEF Answered
  <1>2. 1 \in 1..Len(replies[p]) /\ Head(replies[p]) = replies[p][1] /\ Head(replies[p]) \in Reply
    BY <1>1, QueueTake
  <1>3. Head(replies[p]).ok
    BY <1>2 DEF Plain
  <1>4. replies'[p] = Tail(replies[p])
    BY PhoneTypes DEF Answered
  <1> QED BY <1>1, <1>2, <1>3, <1>4 DEF Answered, Takes, callbackUnchanged, Reply

(* A callback that loads the list.                                             *)
LEMMA ReloadAlone ==
    ASSUME TypeOK, NEW p \in Devices, NEW v \in ViewModel,
           ThenAllMatchs(p, v), v.selectedMatch = vm[p].selectedMatch,
           v.unselectedPlayer = vm[p].unselectedPlayer
    PROVE  /\ \E x \in Request : x.kind = "list" /\ requests'[p] = Append(requests[p], x)
           /\ vm'[p].matchsModelList = <<>> /\ SameDetail(p)
  <1>1. Req("list", None) \in Request /\ Req("list", None).kind = "list"
    BY RequestTypes DEF Req
  <1>2. requests'[p] = Append(requests[p], Req("list", None))
    BY SendAt DEF ThenAllMatchs
  <1>3. vm'[p] = getAllMatchs(v)
    BY PhoneTypes DEF ThenAllMatchs
  <1> QED BY <1>1, <1>2, <1>3, ViewParts DEF SameDetail

LEMMA CallbackAlone ==
    ASSUME TypeOK, NEW p \in Devices, Plain(p), Callback(p)
    PROVE  AloneStep(p)
  <1> DEFINE a == Head(replies[p])
  <1> HIDE DEF a
  <1>0. /\ screen \in [Devices -> Matches \cup {"list", "create"}]
        /\ vm \in [Devices -> ViewModel] /\ vm[p] \in ViewModel
    BY DEF TypeOK
  <1>1. ASSUME NEW kind, Answered(p, kind), UNCHANGED callbackUnchanged
        PROVE  /\ Takes(p) /\ a.ok /\ a.req.kind = kind
               /\ a \in Reply /\ a.req \in Request
               /\ kind # "list" => a.req.match \in Matches
    BY <1>1, AnsweredAlone, RequestMatch DEF a
  <1>2. ASSUME requests' = requests PROVE requests'[p] = requests[p]
    BY <1>2
  <1>list. CASE OnAllMatchs(p)
    <2>1. Takes(p) /\ a.ok /\ a.req.kind = "list"
      BY <1>list, <1>1 DEF OnAllMatchs
    <2>2. requests'[p] = requests[p] /\ screen'[p] = screen[p]
      BY <1>list DEF OnAllMatchs
    <2>3. \/ vm' = vm
          \/ vm' = [vm EXCEPT ![p] = Listed(@, a.snap)]
      BY <1>list, <2>1 DEF OnAllMatchs, a
    <2>4. /\ SameDetail(p)
          /\ SameList(p) \/ vm'[p].matchsModelList = Append(vm[p].matchsModelList, CardsOf(a.snap))
      <3>1. CASE vm' = vm
        BY <3>1 DEF SameList, SameDetail
      <3>2. CASE vm' = [vm EXCEPT ![p] = Listed(@, a.snap)]
        <4>1. vm'[p] = Listed(vm[p], a.snap)
          BY <3>2, <1>0
        <4> DEFINE cards == CardsOf(a.snap)
        <4>2. vm'[p] = [vm[p] EXCEPT !.isLoad = FALSE, !.matchsModelList = Append(@, cards)]
          BY <4>1 DEF Listed
        <4> HIDE DEF cards
        <4>3. /\ vm'[p].matchsModelList = Append(vm[p].matchsModelList, cards)
              /\ vm'[p].selectedMatch = vm[p].selectedMatch
              /\ vm'[p].unselectedPlayer = vm[p].unselectedPlayer
          BY <4>2, <1>0 DEF ViewModel
        <4> QED BY <4>3 DEF SameDetail, cards
      <3> QED BY <2>3, <3>1, <3>2
    <2>5. ListedStep(p)
      BY <2>1, <2>2, <2>4 DEF ListedStep, a
    <2> QED BY <2>5 DEF AloneStep
  <1>roster. CASE OnRoster(p)
    <2>1. Takes(p) /\ a.ok /\ a.req.kind = "roster" /\ a.req.match \in Matches
      BY <1>roster, <1>1 DEF OnRoster
    <2>2. screen'[p] = screen[p]
      BY <1>roster DEF OnRoster
    <2>3. CASE vm' = [vm EXCEPT ![p].showAlert = TRUE] /\ requests' = requests
      <3>1. SameList(p) /\ SameDetail(p)
        BY <2>3, LoadingSame
      <3>2. IgnoredStep(p)
        BY <2>1, <2>2, <2>3, <3>1 DEF IgnoredStep, a
      <3> QED BY <3>2 DEF AloneStep
    <2>4. CASE vm' = vm /\ Send(p, [Req("join", a.req.match) EXCEPT !.user = Owner[p]])
      <3> DEFINE x == [Req("join", a.req.match) EXCEPT !.user = Owner[p]]
      <3>1. x \in Request
        BY <2>1, RequestTypes, OwnerType
      <3>2. x.kind = "join" /\ x.match = a.req.match
        BY DEF Req
      <3>3. requests'[p] = Append(requests[p], x)
        BY <2>4, SendAt
      <3>4. SameList(p) /\ SameDetail(p)
        BY <2>4, LoadingSame
      <3> HIDE DEF x
      <3>5. ChainStep(p)
        BY <2>1, <2>2, <3>1, <3>2, <3>3, <3>4 DEF ChainStep, a
      <3> QED BY <3>5 DEF AloneStep
    <2> QED BY <1>roster, <2>1, <2>3, <2>4 DEF OnRoster, a
  <1>join. CASE OnJoined(p)
    <2>1. Takes(p) /\ a.ok /\ a.req.kind = "join" /\ screen'[p] = screen[p]
      BY <1>join, <1>1 DEF OnJoined
    <2> DEFINE v == [vm[p] EXCEPT !.showAlert = IF a.ok THEN @ ELSE TRUE]
    <2>2. /\ v \in ViewModel /\ v.selectedMatch = vm[p].selectedMatch
          /\ v.unselectedPlayer = vm[p].unselectedPlayer
      BY <1>0, <2>1 DEF ViewModel
    <2>3. ThenAllMatchs(p, v)
      BY <1>join DEF OnJoined, a
    <2> HIDE DEF v
    <2>4. ReloadStep(p)
      BY <2>1, <2>2, <2>3, ReloadAlone DEF ReloadStep, a
    <2> QED BY <2>4 DEF AloneStep
  <1>leave. CASE OnLeft(p)
    <2>1. Takes(p) /\ a.ok /\ a.req.kind = "leave" /\ a.req.match \in Matches /\ a.req \in Request
      BY <1>leave, <1>1 DEF OnLeft
    <2>2. a.req.user \in Users
      BY <2>1 DEF Request
    <2>3. screen'[p] = screen[p]
      BY <1>leave DEF OnLeft
    <2> DEFINE x == [Req("area", a.req.match) EXCEPT !.user = a.req.user]
    <2>4. vm' = [vm EXCEPT ![p] = Loading(@)] /\ Send(p, x)
      BY <1>leave, <2>1 DEF OnLeft, a
    <2>5. x \in Request
      BY <2>1, <2>2, RequestTypes
    <2>6. x.kind = "area" /\ x.match = a.req.match /\ x.user = a.req.user
      BY DEF Req
    <2>7. requests'[p] = Append(requests[p], x) /\ SameList(p) /\ SameDetail(p)
      BY <2>4, SendAt, LoadingSame
    <2> HIDE DEF x
    <2>8. ChainStep(p)
      BY <2>1, <2>3, <2>5, <2>6, <2>7 DEF ChainStep, a
    <2> QED BY <2>8 DEF AloneStep
  <1>area. CASE OnArea(p)
    <2>0. Answered(p, "area") /\ UNCHANGED callbackUnchanged
      BY Zenon, <1>area DEF OnArea
    <2>1. Takes(p) /\ a.ok /\ a.req.kind = "area" /\ a.req.match \in Matches
      BY <2>0, <1>1
    <2>2. screen'[p] = screen[p]
      BY Zenon, <1>area DEF OnArea
    <2>3. CASE /\ \A s \in Slots : a.snap[a.req.match].Positions[s] # a.req.user
               /\ ThenAllMatchs(p, vm[p])
      <3>1. ReloadStep(p)
        BY <1>0, <2>1, <2>2, <2>3, ReloadAlone DEF ReloadStep, a
      <3> QED BY <3>1 DEF AloneStep
    <2>4. ASSUME NEW s \in Slots, a.snap[a.req.match].Positions[s] = a.req.user,
                 Send(p, [Req("areaRemove", a.req.match) EXCEPT !.slot = s]),
                 vm' = [vm EXCEPT ![p] = Loading(@)]
          PROVE  AloneStep(p)
      <3> DEFINE x == [Req("areaRemove", a.req.match) EXCEPT !.slot = s]
      <3>1. x \in Request
        BY <2>1, RequestTypes
      <3>2. x.kind = "areaRemove" /\ x.match = a.req.match /\ x.slot = s
        BY DEF Req
      <3>3. requests'[p] = Append(requests[p], x) /\ SameList(p) /\ SameDetail(p)
        BY Zenon, <2>4, SendAt, LoadingSame
      <3> HIDE DEF x
      <3>4. ChainStep(p)
        BY Zenon, <2>1, <2>2, <2>4, <3>1, <3>2, <3>3 DEF ChainStep, a
      <3> QED BY <3>4 DEF AloneStep
    <2> QED BY Zenon, <1>area, <2>1, <2>3, <2>4 DEF OnArea, a
  <1>areaRemove. CASE OnAreaRemoved(p)
    <2>1. Takes(p) /\ a.ok /\ a.req.kind = "areaRemove" /\ screen'[p] = screen[p]
      BY <1>areaRemove, <1>1 DEF OnAreaRemoved
    <2>2. ThenAllMatchs(p, vm[p])
      BY <1>areaRemove, <2>1 DEF OnAreaRemoved, a
    <2>3. ReloadStep(p)
      BY <1>0, <2>1, <2>2, ReloadAlone DEF ReloadStep, a
    <2> QED BY <2>3 DEF AloneStep
  <1>delete. CASE OnDeleted(p)
    <2>1. Takes(p) /\ a.ok /\ a.req.kind = "delete" /\ screen'[p] = screen[p]
      BY <1>delete, <1>1 DEF OnDeleted
    <2>2. ThenAllMatchs(p, vm[p])
      BY <1>delete, <2>1 DEF OnDeleted, a
    <2>3. ReloadStep(p)
      BY <1>0, <2>1, <2>2, ReloadAlone DEF ReloadStep, a
    <2> QED BY <2>3 DEF AloneStep
  <1>show. ASSUME Takes(p), a.req.kind \in {"place", "vacate", "plan", "comment"},
                  a.req.match \in Matches, screen' = screen,
                  Send(p, Req("detail", a.req.match)),
                  \/ vm' = [vm EXCEPT ![p].isLoad = FALSE]
                  \/ vm' = [vm EXCEPT ![p] = Loading(@)]
           PROVE  AloneStep(p)
    <2> DEFINE x == Req("detail", a.req.match)
    <2>1. x \in Request
      BY <1>show, RequestTypes
    <2>2. x.kind = "detail" /\ x.match = a.req.match
      BY DEF Req
    <2>3. requests'[p] = Append(requests[p], x) /\ SameList(p) /\ SameDetail(p)
      BY <1>show, SendAt, LoadingSame
    <2> HIDE DEF x
    <2>4. ShowStep(p)
      BY <1>show, <2>1, <2>2, <2>3 DEF ShowStep, a
    <2> QED BY <2>4 DEF AloneStep
  <1>position. CASE OnPositionWritten(p)
    <2>1. /\ Takes(p) /\ a.ok /\ a.req.kind \in {"place", "vacate"} /\ a.req.match \in Matches
          /\ screen' = screen
      BY <1>position, <1>1 DEF OnPositionWritten
    <2> QED BY <1>position, <1>show, <2>1 DEF OnPositionWritten, a
  <1>plan. CASE OnPlanned(p)
    <2>1. Takes(p) /\ a.ok /\ a.req.kind = "plan" /\ a.req.match \in Matches /\ screen' = screen
      BY <1>plan, <1>1 DEF OnPlanned
    <2> QED BY <1>plan, <1>show, <2>1 DEF OnPlanned, a
  <1>comment. CASE OnCommented(p)
    <2>1. Takes(p) /\ a.ok /\ a.req.kind = "comment" /\ a.req.match \in Matches /\ screen' = screen
      BY <1>comment, <1>1 DEF OnCommented
    <2> QED BY <1>comment, <1>show, <2>1 DEF OnCommented, a
  <1>detail. CASE OnMatch(p)
    <2> DEFINE model == Parsed(a.req.match, a.snap[a.req.match])
    <2>1. Takes(p) /\ a.ok /\ a.req.kind = "detail"
      BY <1>detail, <1>1 DEF OnMatch
    <2>2. requests'[p] = requests[p] /\ screen'[p] = screen[p]
      BY <1>detail, <2>1 DEF OnMatch, a
    <2>3. \/ /\ Exists(a.snap[a.req.match])
             /\ vm' = [vm EXCEPT ![p] = [@ EXCEPT !.isLoad = FALSE, !.selectedMatch = model,
                                                  !.unselectedPlayer = Unselected(model)]]
          \/ ~Exists(a.snap[a.req.match]) /\ vm' = [vm EXCEPT ![p].isLoad = FALSE]
      BY <1>detail, <2>1 DEF OnMatch, a
    <2> HIDE DEF model
    <2>4. CASE Exists(a.snap[a.req.match])
      <3>1. SameList(p) /\ vm'[p].selectedMatch = model /\ vm'[p].unselectedPlayer = Unselected(model)
        <4> DEFINE bench == Unselected(model)
        <4>1. vm'[p] = [vm[p] EXCEPT !.isLoad = FALSE, !.selectedMatch = model,
                                     !.unselectedPlayer = bench]
          BY <1>0, <2>3, <2>4
        <4> HIDE DEF bench
        <4>2. /\ vm'[p].matchsModelList = vm[p].matchsModelList
              /\ vm'[p].selectedMatch = model /\ vm'[p].unselectedPlayer = bench
          BY <4>1, <1>0 DEF ViewModel
        <4> QED BY <4>2 DEF SameList, bench
      <3>2. ShownStep(p)
        BY <2>1, <2>2, <2>4, <3>1 DEF ShownStep, a, model
      <3> QED BY <3>2 DEF AloneStep
    <2>5. CASE ~Exists(a.snap[a.req.match])
      <3>1. SameList(p) /\ SameDetail(p)
        BY <2>3, <2>5, LoadingSame
      <3>2. ShownStep(p)
        BY <2>1, <2>2, <2>5, <3>1 DEF ShownStep, a
      <3> QED BY <3>2 DEF AloneStep
    <2> QED BY <2>4, <2>5
  <1>create. CASE OnCreated(p)
    <2>1. Takes(p) /\ a.ok /\ a.req.kind = "create"
      BY <1>create, <1>1 DEF OnCreated
    <2>2. CASE screen' = [screen EXCEPT ![p] = "list"] /\ ThenAllMatchs(p, vm[p])
      <3>1. ReloadStep(p)
        BY <1>0, <2>1, <2>2, ReloadAlone DEF ReloadStep, a
      <3> QED BY <3>1 DEF AloneStep
    <2>3. CASE UNCHANGED <<screen, vm, requests>>
      <3>1. IgnoredStep(p)
        BY <2>1, <2>3 DEF IgnoredStep, SameList, SameDetail, a
      <3> QED BY <3>1 DEF AloneStep
    <2> QED BY <1>create, <2>1, <2>2, <2>3 DEF OnCreated, a
  <1> QED
    BY <1>list, <1>roster, <1>join, <1>leave, <1>area, <1>areaRemove, <1>delete, <1>position,
       <1>plan, <1>comment, <1>detail, <1>create DEF Callback

(* One step of a system with one phone and no faults.                          *)
LEMMA NextAlone ==
    ASSUME TypeOK, NEW p, Devices = {p}, Faults = {}, Plain(p), [Next]_vars
    PROVE  AloneStep(p)
  <1> USE DEF histVars, serverUnchanged
  <1>0. p \in Devices
    OBVIOUS
  <1>1. requests \in [Devices -> Seq(Request)] /\ replies \in [Devices -> Seq(Reply)]
    BY DEF TypeOK
  <1>stutter. CASE UNCHANGED vars
    <2>1. RestStep(p)
      BY <1>stutter DEF RestStep, SameList, SameDetail, vars
    <2> QED BY <2>1 DEF AloneStep
  <1>user. CASE User(p)
    BY <1>0, <1>user, UserAlone
  <1>callback. CASE Callback(p)
    BY <1>0, <1>callback, CallbackAlone
  <1>answer. ASSUME NEW snap, requests[p] # <<>>, requests' = [requests EXCEPT ![p] = Tail(@)],
                    Answer(p, Head(requests[p]), TRUE, snap), UNCHANGED serverUnchanged
             PROVE  Serves(p, snap)
    BY <1>0, <1>1, <1>answer DEF Serves, Answer
  <1>read. CASE ServeRead(p)
    <2>1. ReadStep(p)
      BY <1>read, <1>answer DEF ServeRead, ReadStep
    <2> QED BY <2>1 DEF AloneStep
  <1>write. CASE ServeWrite(p)
    <2>1. WriteStep(p)
      BY <1>write, <1>answer DEF ServeWrite, Commit, WriteStep
    <2> QED BY <2>1 DEF AloneStep
  <1>ends. ASSUME NEW m \in Matches, MatchEnds(m) PROVE AloneStep(p)
    <2>1. RestStep(p)
      BY <1>ends DEF MatchEnds, RestStep, SameList, SameDetail
    <2> QED BY <2>1 DEF AloneStep
  <1>fault. ~Failure(p)
    BY DEF Failure, FailRead, FailWrite, LoseRead, Overtake, Resend, Quit, Fault
  <1> QED
    BY <1>stutter, <1>user, <1>callback, <1>read, <1>write, <1>ends, <1>fault DEF Next, Serve

-----------------------------------------------------------------------------
(* What pending calls become when one is served, sent or answered.             *)
LEMMA ItemType ==
    ASSUME NEW q \in Seq(Request), NEW r \in Seq(Reply)
    PROVE  /\ Len(q) \in Nat /\ Len(r) \in Nat /\ Pending(q, r) \in Nat
           /\ \A i \in 1..Pending(q, r) : Item(q, r, i) \in Request
           /\ \A i \in 1..Len(r) : i \in 1..Pending(q, r) /\ r[i].req = Item(q, r, i)
           /\ \A i \in 1..Len(q) :
                 /\ Len(r) + i \in 1..Pending(q, r)
                 /\ q[i] = Item(q, r, Len(r) + i)
  <1>1. Len(q) \in Nat /\ Len(r) \in Nat
    OBVIOUS
  <1>2. \A i \in 1..Len(r) : r[i] \in Reply
    BY ElementOfSeq
  <1>3. \A i \in 1..Len(q) : q[i] \in Request
    BY ElementOfSeq
  <1>4. ASSUME NEW i \in 1..Pending(q, r) PROVE Item(q, r, i) \in Request
    <2>1. CASE i <= Len(r)
      BY <1>1, <1>2, <2>1 DEF Item, Reply, Pending
    <2>2. CASE ~(i <= Len(r))
      <3>1. i - Len(r) \in 1..Len(q)
        BY <1>1, <2>2 DEF Pending
      <3> QED BY <1>3, <2>2, <3>1 DEF Item
    <2> QED BY <2>1, <2>2
  <1> QED BY <1>1, <1>4 DEF Pending, Item

LEMMA ItemSend ==
    ASSUME NEW q \in Seq(Request), NEW r \in Seq(Reply), NEW x \in Request
    PROVE  /\ Pending(Append(q, x), r) = Pending(q, r) + 1
           /\ \A i \in 1..Pending(Append(q, x), r) :
                 \/ i \in 1..Pending(q, r) /\ Item(Append(q, x), r, i) = Item(q, r, i)
                 \/ i = Pending(q, r) + 1 /\ Item(Append(q, x), r, i) = x
  <1>1. Len(q) \in Nat /\ Len(r) \in Nat /\ Len(Append(q, x)) = Len(q) + 1
    BY QueueAdd
  <1> SUFFICES ASSUME NEW i \in 1..Pending(Append(q, x), r)
               PROVE \/ i \in 1..Pending(q, r) /\ Item(Append(q, x), r, i) = Item(q, r, i)
                     \/ i = Pending(q, r) + 1 /\ Item(Append(q, x), r, i) = x
    BY <1>1 DEF Pending
  <1>2. CASE i <= Len(r)
    BY <1>1, <1>2 DEF Item, Pending
  <1>3. CASE ~(i <= Len(r))
    <2>1. i - Len(r) \in 1..Len(Append(q, x))
      BY <1>1, <1>3 DEF Pending
    <2>2. \/ i - Len(r) \in 1..Len(q) /\ Append(q, x)[i - Len(r)] = q[i - Len(r)]
          \/ i - Len(r) = Len(q) + 1 /\ Append(q, x)[i - Len(r)] = x
      BY <2>1, QueueAdd
    <2> QED BY <1>1, <1>3, <2>2 DEF Item, Pending
  <1> QED BY <1>2, <1>3

LEMMA ItemTake ==
    ASSUME NEW q \in Seq(Request), NEW r \in Seq(Reply), r # <<>>
    PROVE  /\ Pending(q, Tail(r)) = Pending(q, r) - 1
           /\ 1 \in 1..Pending(q, r) /\ Item(q, r, 1) = Head(r).req
           /\ \A i \in 1..Pending(q, Tail(r)) :
                 i + 1 \in 1..Pending(q, r) /\ Item(q, Tail(r), i) = Item(q, r, i + 1)
  <1>1. /\ Len(q) \in Nat /\ Len(r) \in Nat /\ Len(Tail(r)) = Len(r) - 1 /\ 1 \in 1..Len(r)
        /\ Head(r) = r[1]
        /\ \A i \in 1..Len(Tail(r)) : i + 1 \in 1..Len(r) /\ Tail(r)[i] = r[i + 1]
    BY QueueTake
  <1>2. Pending(q, Tail(r)) = Pending(q, r) - 1 /\ 1 \in 1..Pending(q, r)
    BY <1>1 DEF Pending
  <1>3. Item(q, r, 1) = Head(r).req
    BY <1>1 DEF Item
  <1> SUFFICES ASSUME NEW i \in 1..Pending(q, Tail(r))
               PROVE  i + 1 \in 1..Pending(q, r) /\ Item(q, Tail(r), i) = Item(q, r, i + 1)
    BY <1>2, <1>3
  <1>4. i + 1 \in 1..Pending(q, r)
    BY <1>1, <1>2 DEF Pending
  <1>5. CASE i <= Len(Tail(r))
    <2>1. i \in 1..Len(Tail(r)) /\ i + 1 <= Len(r)
      BY <1>1, <1>5 DEF Pending
    <2> QED BY <1>1, <1>4, <1>5, <2>1 DEF Item
  <1>6. CASE ~(i <= Len(Tail(r)))
    <2>1. i - Len(Tail(r)) = i + 1 - Len(r) /\ ~(i + 1 <= Len(r))
      BY <1>1, <1>6 DEF Pending
    <2> QED BY <1>4, <1>6, <2>1 DEF Item
  <1> QED BY <1>5, <1>6

LEMMA ItemServe ==
    ASSUME NEW q \in Seq(Request), NEW r \in Seq(Reply), q # <<>>, NEW a \in Reply, a.req = Head(q)
    PROVE  /\ Pending(Tail(q), Append(r, a)) = Pending(q, r)
           /\ \A i \in 1..Pending(q, r) : Item(Tail(q), Append(r, a), i) = Item(q, r, i)
  <1>1. /\ Len(q) \in Nat /\ Len(r) \in Nat /\ Len(Tail(q)) = Len(q) - 1 /\ Head(q) = q[1]
        /\ 1 \in 1..Len(q)
        /\ \A i \in 1..Len(Tail(q)) : Tail(q)[i] = q[i + 1]
        /\ Len(Append(r, a)) = Len(r) + 1
    BY QueueTake, QueueAdd
  <1> SUFFICES ASSUME NEW i \in 1..Pending(q, r)
               PROVE  Item(Tail(q), Append(r, a), i) = Item(q, r, i)
    BY <1>1 DEF Pending
  <1>2. CASE i <= Len(r)
    <2>1. i \in 1..Len(Append(r, a)) /\ Append(r, a)[i] = r[i]
      BY <1>1, <1>2, QueueAdd DEF Pending
    <2> QED BY <1>1, <1>2, <2>1 DEF Item, Pending
  <1>3. CASE i = Len(r) + 1
    <2>1. Append(r, a)[i] = a
      BY <1>3, QueueAdd
    <2>2. i <= Len(Append(r, a)) /\ ~(i <= Len(r)) /\ i - Len(r) = 1
      BY <1>1, <1>3
    <2> QED BY <1>1, <2>1, <2>2 DEF Item
  <1>4. CASE i > Len(r) + 1
    <2>1. i - Len(Append(r, a)) \in 1..Len(Tail(q)) /\ i - Len(Append(r, a)) + 1 = i - Len(r)
      BY <1>1, <1>4 DEF Pending
    <2>2. ~(i <= Len(Append(r, a))) /\ ~(i <= Len(r))
      BY <1>1, <1>4 DEF Pending
    <2> QED BY <1>1, <2>1, <2>2 DEF Item
  <1> QED BY <1>1, <1>2, <1>3, <1>4 DEF Pending

-----------------------------------------------------------------------------
(* The answer to a served request.                                             *)
LEMMA ServedReply ==
    ASSUME TypeOK, NEW p \in Devices, NEW snap \in Store, Serves(p, snap)
    PROVE  /\ Head(requests[p]) \in Request
           /\ [req |-> Head(requests[p]), ok |-> TRUE, snap |-> snap] \in Reply
  BY PhoneTypes, QueueTake DEF Serves, Reply

LEMMA PlainStep ==
    ASSUME TypeOK, NEW p \in Devices, Plain(p), AloneStep(p)
    PROVE  Plain(p)'
  <1>0. /\ replies[p] \in Seq(Reply) /\ requests[p] \in Seq(Request) /\ db \in Store
        /\ \A i \in 1..Len(replies[p]) : replies[p][i].ok
    BY PhoneTypes DEF Plain
  <1>bench. ASSUME SameDetail(p)
            PROVE  vm'[p].unselectedPlayer = Unselected(vm'[p].selectedMatch)
    BY <1>bench DEF SameDetail, Plain
  <1>new. /\ NewViewModel.unselectedPlayer = Unselected(NewViewModel.selectedMatch)
          /\ NewViewModel.matchsModelList = <<>>
    BY DEF NewViewModel, EmptyModel, Parsed, EmptyNode, Unselected
  <1>rest. CASE RestStep(p)
    BY <1>rest, <1>bench DEF RestStep, Plain, SameList
  <1>stop. CASE StopStep(p)
    BY <1>stop, <1>new DEF StopStep, Plain
  <1>load. CASE LoadStep(p)
    <2>1. replies'[p] = replies[p] /\ app'[p] = "on"
      BY <1>load DEF LoadStep, Sends
    <2>2. vm'[p].unselectedPlayer = Unselected(vm'[p].selectedMatch)
      <3>1. CASE SameDetail(p)
        BY <3>1, <1>bench
      <3>2. CASE vm'[p] = getAllMatchs(NewViewModel)
        <4>1. /\ vm'[p].unselectedPlayer = NewViewModel.unselectedPlayer
              /\ vm'[p].selectedMatch = NewViewModel.selectedMatch
          BY <3>2, ViewParts, ViewModelUpdates
        <4> QED BY <4>1, <1>new
      <3> QED BY <3>1, <3>2, <1>load DEF LoadStep
    <2> QED BY <1>0, <2>1, <2>2 DEF Plain
  <1>sends. CASE \/ ToolbarStep(p) \/ CreateStep(p) \/ OpenStep(p) \/ CardStep(p) \/ PitchStep(p)
    <2>1. replies'[p] = replies[p] /\ app'[p] = "on" /\ SameDetail(p)
      BY <1>sends DEF ToolbarStep, CreateStep, OpenStep, CardStep, PitchStep, Sends
    <2> QED BY <1>0, <1>bench, <2>1 DEF Plain
  <1>takes. ASSUME Takes(p), vm'[p].unselectedPlayer = Unselected(vm'[p].selectedMatch)
            PROVE  Plain(p)'
    <2>1. \A i \in 1..Len(replies'[p]) : replies'[p][i].ok
      BY <1>0, <1>takes, QueueTake DEF Takes
    <2> QED BY <2>1, <1>takes DEF Takes, Plain
  <1>callback. CASE \/ ListedStep(p) \/ IgnoredStep(p) \/ ReloadStep(p) \/ ChainStep(p) \/ ShowStep(p)
    <2>1. Takes(p) /\ SameDetail(p)
      BY Zenon, <1>callback DEF ListedStep, IgnoredStep, ReloadStep, ChainStep, ShowStep
    <2> QED BY <2>1, <1>takes, <1>bench
  <1>shown. CASE ShownStep(p)
    <2>1. Takes(p) /\ vm'[p].unselectedPlayer = Unselected(vm'[p].selectedMatch)
      BY <1>shown, <1>bench DEF ShownStep
    <2> QED BY <2>1, <1>takes
  <1>serves. ASSUME NEW snap \in Store, Serves(p, snap) PROVE Plain(p)'
    <2>1. UNCHANGED <<app, screen, vm>> /\ (app[p] # "on" => replies'[p] = replies[p])
      BY <1>serves DEF Serves
    <2> DEFINE a == [req |-> Head(requests[p]), ok |-> TRUE, snap |-> snap]
    <2>2. a \in Reply /\ a.ok
      BY <1>serves, ServedReply
    <2>3. replies'[p] = Append(replies[p], a) \/ replies'[p] = replies[p]
      BY <1>serves DEF Serves
    <2> HIDE DEF a
    <2>4. \A i \in 1..Len(replies'[p]) : replies'[p][i].ok
      BY SMTT(30), <1>0, <2>2, <2>3, QueueAdd
    <2> QED BY <2>1, <2>4 DEF Plain
  <1>read. CASE ReadStep(p)
    <2>1. Head(requests[p]) \in Request
      BY <1>read, PhoneTypes, QueueTake DEF ReadStep, Serves
    <2> QED BY <1>read, <1>0, <1>serves, <2>1, SnapshotType DEF ReadStep
  <1>write. CASE WriteStep(p)
    BY <1>write, <1>serves, EmptyStoreType DEF WriteStep
  <1> QED
    BY <1>rest, <1>stop, <1>load, <1>sends, <1>callback, <1>shown, <1>read, <1>write DEF AloneStep

-----------------------------------------------------------------------------
(* What each write leaves of a match.                                          *)
LEMMA RewrittenParts ==
    ASSUME NEW n \in Node, NEW r \in Request
    PROVE  /\ r.kind \notin {"create", "delete"} => Rewritten(n, r).info = n.info
           /\ r.kind \notin {"join", "leave", "create", "delete"} => Rewritten(n, r).players = n.players
           /\ r.kind \notin {"place", "vacate", "areaRemove", "create", "delete"} =>
                 Rewritten(n, r).Positions = n.Positions
           /\ r.kind = "join" => Rewritten(n, r).players = n.players \cup {r.user}
           /\ r.kind = "leave" => Rewritten(n, r).players = n.players \ {r.user}
           /\ r.kind = "place" => Rewritten(n, r).Positions = [n.Positions EXCEPT ![r.slot] = r.user]
           /\ r.kind \in {"vacate", "areaRemove"} =>
                 Rewritten(n, r).Positions = [n.Positions EXCEPT ![r.slot] = None]
           /\ r.kind = "create" => Rewritten(n, r).info
           /\ r.kind = "delete" => ~Rewritten(n, r).info
           /\ r.kind \in {"create", "delete"} =>
                 \A s \in Slots : Rewritten(n, r).Positions[s] = None
  <1>1. CASE r.kind \in {"join", "leave"}
    BY <1>1 DEF Rewritten, Node
  <1>2. CASE r.kind = "place"
    BY <1>2 DEF Rewritten, Node
  <1>3. CASE r.kind \in {"vacate", "areaRemove"}
    BY <1>3 DEF Rewritten, Node
  <1>4. CASE r.kind \in {"plan", "comment"}
    BY <1>4 DEF Rewritten, Node
  <1>5. CASE r.kind = "create"
    BY <1>5 DEF Rewritten, CreatedNode, EmptyNode
  <1>6. CASE r.kind = "delete"
    BY <1>6 DEF Rewritten, EmptyNode
  <1>7. CASE r.kind \in ReadKinds
    BY <1>7 DEF Rewritten, ReadKinds
  <1>8. r.kind \in ReadKinds \cup WriteKinds
    BY DEF Request, RawRequest
  <1> QED BY <1>1, <1>2, <1>3, <1>4, <1>5, <1>6, <1>7, <1>8 DEF WriteKinds

(* What a served write changes: one match, which becomes known if it was not.  *)
LEMMA WriteAlone ==
    ASSUME TypeOK, GhostInv, NEW p \in Devices, WriteStep(p), NEW x, x = Head(requests[p])
    PROVE  /\ x \in Request /\ x.match \in Matches
           /\ \A m \in Matches : m # x.match => db'[m] = db[m]
           /\ db'[x.match] = Rewritten(db[x.match], x)
           /\ x.kind = "create" => Known' = Known \cup {x.match}
           /\ x.kind # "create" => Known' = Known /\ x.match \in Known
  <1>1. x \in Request /\ x \in KnownRequests
    <2>1. requests[p] \in Seq(Request) /\ requests[p] \in Seq(KnownRequests) /\ requests[p] # <<>>
      BY PhoneTypes DEF GhostInv, KnownPhones, WriteStep, Serves
    <2> QED BY <2>1, QueueTake
  <1>2. x.match \in Matches /\ x.kind # "list"
    BY <1>1, RequestMatch DEF WriteStep, WriteKinds
  <1>3. /\ \A m \in Matches : m # x.match => db'[m] = db[m]
        /\ db'[x.match] = Rewritten(db[x.match], x)
        /\ deleted' = IF x.kind = "delete" THEN deleted \cup {x.match} ELSE deleted
    BY <1>2, PhoneTypes DEF WriteStep, Applied, Store
  <1>6. db[x.match] \in Node
    BY <1>2, PhoneTypes DEF Store
  <1>4. CASE x.kind = "create"
    <2>0. Rewritten(db[x.match], x).info
      BY <1>1, <1>4, <1>6, RewrittenParts
    <2>1. db'[x.match].info
      BY <1>3, <2>0
    <2> QED BY <1>1, <1>2, <1>3, <1>4, <2>1 DEF Known
  <1>5. CASE x.kind # "create"
    <2>1. x.match \in Known
      BY <1>1, <1>2, <1>5 DEF KnownRequests
    <2>2. CASE x.kind = "delete"
      <3>1. deleted' = deleted \cup {x.match}
        BY <1>3, <2>2
      <3>2. \A m \in Matches : m \in Known' <=> m \in Known
        BY <1>2, <1>3, <2>1, <3>1 DEF Known
      <3>3. Known' = Known
        BY <3>2 DEF Known
      <3> QED BY <1>1, <1>2, <1>3, <1>5, <2>1, <3>3
    <2>3. CASE x.kind # "delete"
      <3>0. Rewritten(db[x.match], x).info = db[x.match].info
        BY <1>1, <1>5, <1>6, <2>3, RewrittenParts
      <3>1. db'[x.match].info = db[x.match].info
        BY <1>3, <3>0
      <3>2. deleted' = deleted
        BY <1>3, <2>3
      <3>3. \A m \in Matches : m \in Known' <=> m \in Known
        BY <1>2, <1>3, <3>1, <3>2 DEF Known
      <3>4. Known' = Known
        BY <3>3 DEF Known
      <3> QED BY <1>1, <1>2, <1>3, <1>5, <2>1, <3>4
    <2> QED BY <2>2, <2>3
  <1> QED BY <1>4, <1>5, <1>1, <1>2, <1>3

(* A step that sends no creation and writes nothing.                           *)
LEMMA BirthsKept ==
    ASSUME TypeOK, NEW p \in Devices, Births(p), UNCHANGED <<db, deleted, minted>>,
           \/ requests'[p] = requests[p]
           \/ \E n \in 0..Len(requests[p]) : requests'[p] = SubSeq(requests[p], 1, n)
           \/ \E x \in Request : x.kind # "create" /\ requests'[p] = Append(requests[p], x)
    PROVE  Births(p)'
  <1>1. Known' = Known /\ requests[p] \in Seq(Request)
    BY PhoneTypes DEF Known
  <1>2. \A i \in 1..Len(requests'[p]) : requests'[p][i].kind = "create" =>
           i \in 1..Len(requests[p]) /\ requests'[p][i] = requests[p][i]
    <2>1. CASE requests'[p] = requests[p]
      BY <2>1
    <2>2. CASE \E n \in 0..Len(requests[p]) : requests'[p] = SubSeq(requests[p], 1, n)
      BY <1>1, <2>2, QueuePrefix
    <2>3. CASE \E x \in Request : x.kind # "create" /\ requests'[p] = Append(requests[p], x)
      BY <1>1, <2>3, QueueAdd
    <2> QED BY <2>1, <2>2, <2>3
  <1> QED BY <1>1, <1>2 DEF Births

LEMMA BirthsStep ==
    ASSUME TypeOK, GhostInv, NEW p \in Devices, Births(p), AloneStep(p)
    PROVE  Births(p)'
  <1>0. requests[p] \in Seq(Request)
    BY PhoneTypes
  <1>quiet. CASE \/ RestStep(p) \/ StopStep(p) \/ ListedStep(p) \/ ShownStep(p) \/ IgnoredStep(p)
    BY <1>quiet, BirthsKept DEF RestStep, StopStep, ListedStep, ShownStep, IgnoredStep, Takes
  <1>user. CASE \/ LoadStep(p) \/ ToolbarStep(p) \/ OpenStep(p) \/ CardStep(p) \/ PitchStep(p)
    <2>1. /\ UNCHANGED <<db, deleted, minted>>
          /\ \E x \in Request : x.kind # "create" /\ requests'[p] = Append(requests[p], x)
      BY <1>user DEF LoadStep, ToolbarStep, OpenStep, CardStep, PitchStep, Sends
    <2> QED BY <2>1, BirthsKept
  <1>next. CASE \/ ReloadStep(p) \/ ChainStep(p) \/ ShowStep(p)
    <2>1. /\ UNCHANGED <<db, deleted, minted>>
          /\ \E x \in Request : x.kind # "create" /\ requests'[p] = Append(requests[p], x)
      BY Zenon, <1>next DEF ReloadStep, ChainStep, ShowStep, Takes
    <2> QED BY <2>1, BirthsKept
  <1>create. CASE CreateStep(p)
    <2>1. PICK x \in Request :
            /\ requests'[p] = Append(requests[p], x) /\ x.match \notin minted
            /\ minted' = minted \cup {x.match} /\ UNCHANGED <<db, deleted>> /\ x.kind = "create"
      BY <1>create DEF CreateStep, Sends
    <2>2. Known' = Known /\ x.match \in Matches
      BY <2>1, RequestMatch DEF Known
    <2>3. x.match \notin Known
      BY <2>1, <2>2 DEF Births
    <2>4. \A i \in 1..Len(requests'[p]) :
             \/ i \in 1..Len(requests[p]) /\ requests'[p][i] = requests[p][i]
             \/ i = Len(requests[p]) + 1 /\ requests'[p][i] = x
      BY <1>0, <2>1, QueueAdd
    <2> QED BY <2>1, <2>2, <2>3, <2>4 DEF Births
  <1>tail. ASSUME requests[p] # <<>>, requests'[p] = Tail(requests[p])
           PROVE  \A i \in 1..Len(requests'[p]) :
                     i + 1 \in 1..Len(requests[p]) /\ requests'[p][i] = requests[p][i + 1]
    BY <1>0, <1>tail, QueueTake
  <1>read. CASE ReadStep(p)
    <2>1. UNCHANGED <<db, deleted, minted>> /\ requests[p] # <<>> /\ requests'[p] = Tail(requests[p])
      BY <1>read DEF ReadStep, Serves
    <2>2. Known' = Known
      BY <2>1 DEF Known
    <2> QED BY <1>tail, <2>1, <2>2 DEF Births
  <1>write. CASE WriteStep(p)
    <2> DEFINE x == Head(requests[p])
    <2>1. minted' = minted /\ requests[p] # <<>> /\ requests'[p] = Tail(requests[p])
      BY <1>write DEF WriteStep, Serves
    <2>2. 1 \in 1..Len(requests[p]) /\ x = requests[p][1]
      BY <1>0, <2>1, QueueTake
    <2>3. x.kind # "create" => Known' = Known
      BY <1>write, WriteAlone
    <2>4. x.kind = "create" => Known' = Known \cup {x.match} /\ x.match \in minted
      BY <1>write, <2>2, WriteAlone DEF Births
    <2> HIDE DEF x
    <2>5. \A m \in Matches \ minted' : m \notin Known'
      BY <2>1, <2>3, <2>4 DEF Births
    <2>6. \A i \in 1..Len(requests'[p]) :
             /\ i + 1 \in 1..Len(requests[p]) /\ requests'[p][i] = requests[p][i + 1]
             /\ i + 1 # 1
      BY <1>0, <1>tail, <2>1
    <2>7. ASSUME NEW i \in 1..Len(requests'[p]), requests'[p][i].kind = "create"
          PROVE  requests'[p][i].match \in minted' /\ requests'[p][i].match \notin Known'
      <3>1. /\ requests'[p][i].match \in minted /\ requests'[p][i].match \notin Known
            /\ x.kind = "create" => requests'[p][i].match # x.match
        BY <2>2, <2>6, <2>7 DEF Births
      <3> QED BY <2>1, <2>3, <2>4, <3>1
    <2>8. ASSUME NEW i \in 1..Len(requests'[p]), NEW j \in 1..Len(requests'[p]),
                 requests'[p][i].kind = "create", requests'[p][j].kind = "create",
                 requests'[p][i].match = requests'[p][j].match
          PROVE  i = j
      <3>1. i + 1 = j + 1
        BY <2>6, <2>8 DEF Births
      <3> QED BY <3>1
    <2> QED BY <2>5, <2>7, <2>8 DEF Births
  <1> QED BY <1>quiet, <1>user, <1>next, <1>create, <1>read, <1>write DEF AloneStep

-----------------------------------------------------------------------------
(* The list.                                                                   *)

(* Cards stay current through every write that is not of a squad.              *)
LEMMA CurrentKept ==
    ASSUME TypeOK, GhostInv, NEW p \in Devices, Births(p), WriteStep(p)
    PROVE  /\ \A c : Seen(c, Known) => Seen(c, Known')
           /\ Head(requests[p]).kind \notin SquadWrites =>
                 \A c : Seen(c, Known) /\ Current(c, db) => Current(c, db')
  <1> DEFINE x == Head(requests[p])
  <1>1. /\ x \in Request /\ x.match \in Matches
        /\ \A m \in Matches : m # x.match => db'[m] = db[m]
        /\ db'[x.match] = Rewritten(db[x.match], x)
        /\ Known \subseteq Known'
    BY WriteAlone
  <1>2. x.kind = "create" => x.match \notin Known
    <2>1. 1 \in 1..Len(requests[p]) /\ x = requests[p][1]
      BY PhoneTypes, QueueTake DEF WriteStep, Serves
    <2> QED BY <2>1 DEF Births
  <1>3. \A c : Seen(c, Known) => Seen(c, Known')
    BY <1>1 DEF Seen
  <1>4. db[x.match] \in Node
    BY <1>1, PhoneTypes DEF Store
  <1> HIDE DEF x
  <1>5. ASSUME x.kind \notin SquadWrites, NEW c, Seen(c, Known), Current(c, db)
        PROVE  Current(c, db')
    <2> SUFFICES ASSUME NEW m \in Matches, c[m] # None
                 PROVE  /\ c[m].players = db'[m].players
                        /\ c[m].matchID = Parsed(m, db'[m]).matchID
      BY DEF Current
    <2>1. m \in Known /\ c[m].players = db[m].players /\ c[m].matchID = Parsed(m, db[m]).matchID
      BY <1>5 DEF Seen, Current
    <2>2. CASE m # x.match
      BY <1>1, <2>1, <2>2
    <2>3. CASE m = x.match
      <3>1. x.kind \notin {"join", "leave", "delete", "create"}
        BY <1>2, <1>5, <2>1, <2>3 DEF SquadWrites
      <3>2. /\ Rewritten(db[x.match], x).players = db[x.match].players
            /\ Rewritten(db[x.match], x).info = db[x.match].info
        BY <1>1, <1>4, <3>1, RewrittenParts
      <3>3. db'[m].players = db[m].players /\ db'[m].info = db[m].info
        BY <1>1, <2>3, <3>2
      <3>4. Parsed(m, db'[m]).matchID = Parsed(m, db[m]).matchID
        BY <3>3 DEF Parsed
      <3> QED BY <2>1, <3>3, <3>4
    <2> QED BY <2>2, <2>3
  <1> QED BY <1>3, <1>5 DEF x

(* What the database answers to a load is current.                             *)
LEMMA SnapshotCurrent ==
    ASSUME TypeOK, GhostInv, NEW x \in Request, x.kind = "list"
    PROVE  Seen(CardsOf(Snapshot(db, x)), Known) /\ Current(CardsOf(Snapshot(db, x)), db)
  <1>1. \A m \in Matches : Snapshot(db, x)[m] = db[m]
    BY DEF Snapshot
  <1>2. \A m \in Matches : CardsOf(Snapshot(db, x))[m] = IF Exists(db[m]) THEN Parsed(m, db[m]) ELSE None
    BY <1>1 DEF CardsOf
  <1>3. \A m \in Matches : Parsed(m, db[m]).players = db[m].players
    BY DEF Parsed
  <1> QED BY <1>2, <1>3 DEF Seen, Current, GhostInv

LEMMA AnswersStep ==
    ASSUME TypeOK, GhostInv, NEW p \in Devices, Plain(p), Births(p), AnswersCurrent(p), AloneStep(p)
    PROVE  AnswersCurrent(p)'
  <1>0. replies[p] \in Seq(Reply) /\ requests[p] \in Seq(Request) /\ db \in Store /\ Len(replies[p]) \in Nat
    BY PhoneTypes
  <1>same. ASSUME UNCHANGED <<db, deleted>>, replies'[p] = replies[p] PROVE AnswersCurrent(p)'
    BY <1>same DEF AnswersCurrent, Known
  <1>send. CASE \/ RestStep(p) \/ LoadStep(p) \/ ToolbarStep(p) \/ CreateStep(p) \/ OpenStep(p)
                \/ CardStep(p) \/ PitchStep(p)
    <2>1. UNCHANGED <<db, deleted>> /\ replies'[p] = replies[p]
      BY <1>send DEF RestStep, LoadStep, ToolbarStep, CreateStep, OpenStep, CardStep, PitchStep, Sends
    <2> QED BY <2>1, <1>same
  <1>stop. CASE StopStep(p)
    BY <1>stop DEF StopStep, AnswersCurrent
  <1>take. CASE \/ ListedStep(p) \/ ShownStep(p) \/ IgnoredStep(p) \/ ReloadStep(p) \/ ChainStep(p)
                \/ ShowStep(p)
    <2>1. UNCHANGED <<db, deleted>> /\ replies[p] # <<>> /\ replies'[p] = Tail(replies[p])
      BY Zenon, <1>take DEF ListedStep, ShownStep, IgnoredStep, ReloadStep, ChainStep, ShowStep, Takes
    <2>2. /\ Len(replies'[p]) = Len(replies[p]) - 1
          /\ \A i \in 1..Len(replies'[p]) :
                i + 1 \in 1..Len(replies[p]) /\ replies'[p][i] = replies[p][i + 1]
      BY <1>0, <2>1, QueueTake
    <2>3. Known' = Known
      BY <2>1 DEF Known
    <2> SUFFICES ASSUME NEW i \in 1..Len(replies'[p]), replies'[p][i].req.kind = "list"
                 PROVE  /\ Seen(CardsOf(replies'[p][i].snap), Known)
                        /\ \/ Current(CardsOf(replies'[p][i].snap), db)
                           \/ \E j \in (i + 1)..Len(replies'[p]) : replies'[p][j].req.kind \in SquadWrites
      BY <2>1, <2>3 DEF AnswersCurrent
    <2>4. /\ Seen(CardsOf(replies'[p][i].snap), Known)
          /\ \/ Current(CardsOf(replies'[p][i].snap), db)
             \/ \E j \in (i + 1 + 1)..Len(replies[p]) : replies[p][j].req.kind \in SquadWrites
      BY <2>2 DEF AnswersCurrent
    <2>5. ASSUME NEW j \in (i + 1 + 1)..Len(replies[p]), replies[p][j].req.kind \in SquadWrites
          PROVE  \E k \in (i + 1)..Len(replies'[p]) : replies'[p][k].req.kind \in SquadWrites
      <3>1. j - 1 \in (i + 1)..Len(replies'[p]) /\ j - 1 \in 1..Len(replies'[p]) /\ j - 1 + 1 = j
        BY <1>0, <2>2
      <3> QED BY <2>2, <2>5, <3>1
    <2> QED BY <2>4, <2>5
  <1>serve. ASSUME NEW a \in Reply, replies'[p] = Append(replies[p], a),
                   \A c : Seen(c, Known) => Seen(c, Known'),
                   \/ a.req.kind \in SquadWrites
                   \/ \A c : Seen(c, Known) /\ Current(c, db) => Current(c, db'),
                   a.req.kind = "list" => Seen(CardsOf(a.snap), Known') /\ Current(CardsOf(a.snap), db')
            PROVE  AnswersCurrent(p)'
    <2>1. /\ Len(replies'[p]) = Len(replies[p]) + 1
          /\ \A i \in 1..Len(replies'[p]) :
                \/ i \in 1..Len(replies[p]) /\ replies'[p][i] = replies[p][i]
                \/ i = Len(replies[p]) + 1 /\ replies'[p][i] = a
          /\ replies'[p][Len(replies[p]) + 1] = a
      BY <1>0, <1>serve, QueueAdd
    <2> SUFFICES ASSUME NEW i \in 1..Len(replies'[p]), replies'[p][i].req.kind = "list"
                 PROVE  /\ Seen(CardsOf(replies'[p][i].snap), Known')
                        /\ \/ Current(CardsOf(replies'[p][i].snap), db')
                           \/ \E j \in (i + 1)..Len(replies'[p]) : replies'[p][j].req.kind \in SquadWrites
      BY DEF AnswersCurrent
    <2>2. CASE i = Len(replies[p]) + 1
      BY <1>serve, <2>1, <2>2
    <2>3. CASE i \in 1..Len(replies[p]) /\ replies'[p][i] = replies[p][i]
      <3>1. /\ Seen(CardsOf(replies'[p][i].snap), Known)
            /\ \/ Current(CardsOf(replies'[p][i].snap), db)
               \/ \E j \in (i + 1)..Len(replies[p]) : replies[p][j].req.kind \in SquadWrites
        BY <2>3 DEF AnswersCurrent
      <3>2. ASSUME NEW j \in (i + 1)..Len(replies[p]), replies[p][j].req.kind \in SquadWrites
            PROVE  j \in (i + 1)..Len(replies'[p]) /\ replies'[p][j].req.kind \in SquadWrites
        <4>1. j \in 1..Len(replies'[p]) /\ j # Len(replies[p]) + 1
          BY <1>0, <2>1
        <4> QED BY <1>0, <2>1, <3>2, <4>1
      <3>3. Len(replies[p]) + 1 \in (i + 1)..Len(replies'[p])
        BY <1>0, <2>1, <2>3
      <3>4. CASE a.req.kind \in SquadWrites
        BY <1>serve, <2>1, <3>1, <3>3, <3>4
      <3>5. CASE \A c : Seen(c, Known) /\ Current(c, db) => Current(c, db')
        BY <1>serve, <3>1, <3>2, <3>5
      <3> QED BY <1>serve, <3>4, <3>5
    <2> QED BY <2>1, <2>2, <2>3
  <1>off. ASSUME app[p] # "on", replies'[p] = replies[p] PROVE AnswersCurrent(p)'
    BY <1>off DEF Plain, AnswersCurrent
  <1>read. CASE ReadStep(p)
    <2> DEFINE x == Head(requests[p])
               a == [req |-> x, ok |-> TRUE, snap |-> Snapshot(db, x)]
    <2>1. UNCHANGED <<db, deleted>> /\ Serves(p, Snapshot(db, x))
      BY <1>read DEF ReadStep
    <2>2. x \in Request
      BY <1>0, <2>1, QueueTake DEF Serves
    <2>3. a \in Reply
      BY <1>0, <2>2, SnapshotType DEF Reply
    <2>4. Known' = Known
      BY <2>1 DEF Known
    <2>5. a.req.kind = "list" => Seen(CardsOf(a.snap), Known) /\ Current(CardsOf(a.snap), db)
      BY <2>2, SnapshotCurrent
    <2>6. CASE app[p] = "on"
      <3>1. replies'[p] = Append(replies[p], a)
        BY <2>1, <2>6 DEF Serves
      <3> HIDE DEF a
      <3> QED BY <1>serve, <2>1, <2>3, <2>4, <2>5, <3>1
    <2>7. CASE app[p] # "on"
      BY <1>off, <2>1, <2>7 DEF Serves
    <2> QED BY <2>6, <2>7
  <1>write. CASE WriteStep(p)
    <2> DEFINE x == Head(requests[p])
               a == [req |-> x, ok |-> TRUE, snap |-> EmptyStore]
    <2>1. Serves(p, EmptyStore) /\ x.kind \in WriteKinds
      BY <1>write DEF WriteStep
    <2>2. x \in Request
      BY <1>0, <2>1, QueueTake DEF Serves
    <2>3. a \in Reply /\ a.req = x
      BY <2>2, EmptyStoreType DEF Reply
    <2>4. a.req.kind # "list"
      BY <2>1, <2>3 DEF WriteKinds
    <2>5. CASE app[p] = "on"
      <3>1. replies'[p] = Append(replies[p], a)
        BY <2>1, <2>5 DEF Serves
      <3> HIDE DEF a
      <3>2. /\ \A c : Seen(c, Known) => Seen(c, Known')
            /\ \/ a.req.kind \in SquadWrites
               \/ \A c : Seen(c, Known) /\ Current(c, db) => Current(c, db')
        BY <1>write, <2>3, CurrentKept
      <3> QED BY <1>serve, <2>3, <2>4, <3>1, <3>2
    <2>6. CASE app[p] # "on"
      BY <1>off, <2>1, <2>6 DEF Serves
    <2> QED BY <2>5, <2>6
  <1> QED BY <1>send, <1>stop, <1>take, <1>read, <1>write DEF AloneStep

LEMMA ListCurrentStep ==
    ASSUME TypeOK, GhostInv, NEW p \in Devices, Plain(p), Births(p), AnswersCurrent(p), ListCurrent(p),
           AloneStep(p)
    PROVE  ListCurrent(p)'
  <1>0. /\ replies[p] \in Seq(Reply) /\ requests[p] \in Seq(Request)
        /\ Len(replies[p]) \in Nat /\ Len(requests[p]) \in Nat
        /\ vm[p].matchsModelList \in Seq([Matches -> Card])
    BY PhoneTypes
  <1>empty. ASSUME vm'[p].matchsModelList = <<>> PROVE ListCurrent(p)'
    BY <1>empty DEF ListCurrent
  <1>same. ASSUME UNCHANGED <<db, deleted>>, SameList(p), Reloads(p) => Reloads(p)'
           PROVE  ListCurrent(p)'
    <2>1. Known' = Known
      BY <1>same DEF Known
    <2> QED BY <1>same, <2>1 DEF ListCurrent, SameList
  <1>more. ASSUME replies'[p] = replies[p],
                  \/ requests'[p] = requests[p]
                  \/ \E x \in Request : requests'[p] = Append(requests[p], x)
           PROVE  Reloads(p) => Reloads(p)'
    <2>1. \A j \in 1..Len(requests[p]) : j \in 1..Len(requests'[p]) /\ requests'[p][j] = requests[p][j]
      <3>1. CASE requests'[p] = requests[p]
        BY <3>1
      <3>2. ASSUME NEW x \in Request, requests'[p] = Append(requests[p], x)
            PROVE  \A j \in 1..Len(requests[p]) :
                      j \in 1..Len(requests'[p]) /\ requests'[p][j] = requests[p][j]
        BY <1>0, <3>2
      <3> QED BY <1>more, <3>1, <3>2
    <2> QED BY <1>more, <2>1 DEF Reloads
  <1>taken. ASSUME replies[p] # <<>>, replies'[p] = Tail(replies[p]),
                   \/ requests'[p] = requests[p]
                   \/ \E x \in Request : requests'[p] = Append(requests[p], x)
            PROVE  /\ \A j \in 1..Len(requests[p]) :
                         j \in 1..Len(requests'[p]) /\ requests'[p][j] = requests[p][j]
                   /\ \A j \in 1..Len(replies[p]) :
                         j = 1 \/ (j - 1 \in 1..Len(replies'[p]) /\ replies'[p][j - 1] = replies[p][j])
                   /\ Head(replies[p]) = replies[p][1] /\ 1 \in 1..Len(replies[p])
    <2>1. \A j \in 1..Len(requests[p]) : j \in 1..Len(requests'[p]) /\ requests'[p][j] = requests[p][j]
      <3>1. CASE requests'[p] = requests[p]
        BY <3>1
      <3>2. ASSUME NEW x \in Request, requests'[p] = Append(requests[p], x)
            PROVE  \A j \in 1..Len(requests[p]) :
                      j \in 1..Len(requests'[p]) /\ requests'[p][j] = requests[p][j]
        BY <1>0, <3>2
      <3> QED BY <1>taken, <3>1, <3>2
    <2>2. /\ Len(replies'[p]) = Len(replies[p]) - 1
          /\ Head(replies[p]) = replies[p][1] /\ 1 \in 1..Len(replies[p])
          /\ \A i \in 1..Len(replies'[p]) : replies'[p][i] = replies[p][i + 1]
      BY <1>0, <1>taken, QueueTake
    <2>3. ASSUME NEW j \in 1..Len(replies[p]), j # 1
          PROVE  j - 1 \in 1..Len(replies'[p]) /\ replies'[p][j - 1] = replies[p][j]
      <3>1. j - 1 \in 1..Len(replies'[p]) /\ j - 1 + 1 = j
        BY <1>0, <2>2, <2>3
      <3> QED BY <2>2, <3>1
    <2> QED BY <2>1, <2>2, <2>3
  <1>other. ASSUME replies[p] # <<>>, replies'[p] = Tail(replies[p]),
                   \/ requests'[p] = requests[p]
                   \/ \E x \in Request : requests'[p] = Append(requests[p], x),
                   Head(replies[p]).req.kind \notin SquadWrites \cup ChainKinds
            PROVE  Reloads(p) => Reloads(p)'
    BY <1>other, <1>taken DEF Reloads
  <1>rest. CASE RestStep(p)
    BY <1>rest, <1>same, <1>more DEF RestStep
  <1>stop. CASE StopStep(p)
    BY <1>stop, <1>empty DEF StopStep, NewViewModel
  <1>load. CASE LoadStep(p)
    BY <1>load, <1>empty DEF LoadStep
  <1>sends. CASE \/ ToolbarStep(p) \/ CreateStep(p) \/ OpenStep(p) \/ CardStep(p) \/ PitchStep(p)
    <2>1. /\ UNCHANGED <<db, deleted>> /\ replies'[p] = replies[p] /\ SameList(p)
          /\ \E x \in Request : requests'[p] = Append(requests[p], x)
      BY <1>sends DEF ToolbarStep, CreateStep, OpenStep, CardStep, PitchStep, Sends
    <2> QED BY <2>1, <1>same, <1>more
  <1>listed. CASE ListedStep(p)
    <2> DEFINE a == Head(replies[p])
    <2>1. /\ UNCHANGED <<db, deleted>> /\ replies[p] # <<>> /\ replies'[p] = Tail(replies[p])
          /\ requests'[p] = requests[p] /\ a.req.kind = "list"
          /\ SameList(p) \/ vm'[p].matchsModelList = Append(vm[p].matchsModelList, CardsOf(a.snap))
      BY <1>listed DEF ListedStep, Takes
    <2>2. Reloads(p) => Reloads(p)'
      BY <2>1, <1>other DEF SquadWrites, ChainKinds
    <2>3. a = replies[p][1] /\ 1 \in 1..Len(replies[p]) /\ a \in Reply
      BY <1>0, <2>1, QueueTake
    <2>4. /\ Seen(CardsOf(a.snap), Known)
          /\ Current(CardsOf(a.snap), db) \/ Reloads(p)'
      <3>1. /\ Seen(CardsOf(a.snap), Known)
            /\ \/ Current(CardsOf(a.snap), db)
               \/ \E j \in (1 + 1)..Len(replies[p]) : replies[p][j].req.kind \in SquadWrites
        BY <2>1, <2>3 DEF AnswersCurrent
      <3>2. ASSUME NEW j \in (1 + 1)..Len(replies[p]), replies[p][j].req.kind \in SquadWrites
            PROVE  Reloads(p)'
        <4>1. j \in 1..Len(replies[p]) /\ j # 1
          BY <1>0
        <4> QED BY <1>taken, <2>1, <3>2, <4>1 DEF Reloads
      <3> QED BY <3>1, <3>2
    <2>5. Known' = Known
      BY <2>1 DEF Known
    <2>6. CASE SameList(p)
      BY <1>same, <2>1, <2>2, <2>6
    <2>7. CASE vm'[p].matchsModelList = Append(vm[p].matchsModelList, CardsOf(a.snap))
      <3> DEFINE c == CardsOf(a.snap)
      <3>1. c \in [Matches -> Card]
        BY <2>3, CardsType DEF Reply
      <3> HIDE DEF c
      <3>2. \A i \in 1..Len(vm'[p].matchsModelList) :
               \/ i \in 1..Len(vm[p].matchsModelList) /\ vm'[p].matchsModelList[i] = vm[p].matchsModelList[i]
               \/ vm'[p].matchsModelList[i] = c
        BY <1>0, <2>7, <3>1, QueueAdd DEF c
      <3>3. Seen(c, Known) /\ (Current(c, db) \/ Reloads(p)')
        BY <2>4 DEF c
      <3>4. ASSUME NEW i \in 1..Len(vm'[p].matchsModelList)
            PROVE  /\ Seen(vm'[p].matchsModelList[i], Known)
                   /\ Current(vm'[p].matchsModelList[i], db) \/ Reloads(p)'
        BY <2>2, <3>2, <3>3 DEF ListCurrent
      <3> QED BY <2>1, <2>5, <3>4 DEF ListCurrent
    <2> QED BY <2>1, <2>6, <2>7
  <1>quiet. CASE \/ ShownStep(p) \/ IgnoredStep(p) \/ ShowStep(p)
    <2>1. /\ UNCHANGED <<db, deleted>> /\ replies[p] # <<>> /\ replies'[p] = Tail(replies[p])
          /\ \/ requests'[p] = requests[p]
             \/ \E x \in Request : requests'[p] = Append(requests[p], x)
          /\ SameList(p)
      BY <1>quiet DEF ShownStep, IgnoredStep, ShowStep, Takes
    <2>2. Head(replies[p]).req.kind \notin SquadWrites \cup ChainKinds
      BY <1>quiet DEF ShownStep, IgnoredStep, ShowStep, SquadWrites, ChainKinds
    <2> QED BY <2>1, <2>2, <1>same, <1>other
  <1>reload. CASE ReloadStep(p)
    BY <1>reload, <1>empty DEF ReloadStep
  <1>chain. CASE ChainStep(p)
    <2> DEFINE a == Head(replies[p])
    <2>1. /\ UNCHANGED <<db, deleted>> /\ replies[p] # <<>> /\ replies'[p] = Tail(replies[p]) /\ SameList(p)
      BY <1>chain DEF ChainStep, Takes
    <2>2. PICK x \in Request :
             /\ requests'[p] = Append(requests[p], x)
             /\ a.req.kind = "roster" \/ x.kind \in ChainKinds
      BY <1>chain DEF ChainStep, ChainKinds
    <2>3. CASE a.req.kind = "roster"
      BY <2>1, <2>2, <2>3, <1>same, <1>other DEF SquadWrites, ChainKinds
    <2>4. CASE x.kind \in ChainKinds
      <3>1. Len(requests[p]) + 1 \in 1..Len(requests'[p]) /\ requests'[p][Len(requests[p]) + 1] = x
        BY <1>0, <2>2, QueueAdd
      <3>2. Reloads(p)'
        BY <2>4, <3>1 DEF Reloads
      <3> QED BY <2>1, <3>2, <1>same
    <2> QED BY <2>2, <2>3, <2>4
  <1>off. ASSUME app[p] # "on", vm' = vm PROVE ListCurrent(p)'
    BY <1>off, <1>empty DEF Plain
  <1>served. ASSUME NEW snap \in Store, Serves(p, snap), app[p] = "on"
             PROVE  /\ Reloads(p) => Reloads(p)'
                    /\ Head(requests[p]).kind \in SquadWrites => Reloads(p)'
    <2> DEFINE x == Head(requests[p])
               a == [req |-> x, ok |-> TRUE, snap |-> snap]
    <2>1. /\ requests[p] # <<>> /\ requests'[p] = Tail(requests[p])
          /\ replies'[p] = Append(replies[p], a)
      BY <1>served DEF Serves
    <2>2. a \in Reply /\ a.req = x
      BY <1>served, ServedReply
    <2> HIDE DEF a
    <2>3. /\ Len(replies[p]) + 1 \in 1..Len(replies'[p]) /\ replies'[p][Len(replies[p]) + 1] = a
          /\ \A j \in 1..Len(replies[p]) : j \in 1..Len(replies'[p]) /\ replies'[p][j] = replies[p][j]
      BY <1>0, <2>1, <2>2
    <2>4. /\ x = requests[p][1] /\ Len(requests'[p]) = Len(requests[p]) - 1
          /\ \A j \in 1..Len(requests'[p]) : requests'[p][j] = requests[p][j + 1]
      BY <1>0, <2>1, QueueTake
    <2>5. ASSUME NEW j \in 1..Len(requests[p]), j # 1
          PROVE  j - 1 \in 1..Len(requests'[p]) /\ requests'[p][j - 1] = requests[p][j]
      <3>1. j - 1 \in 1..Len(requests'[p]) /\ j - 1 + 1 = j
        BY <1>0, <2>4, <2>5
      <3> QED BY <2>4, <3>1
    <2>6. x.kind \in SquadWrites \cup ChainKinds => Reloads(p)'
      BY <2>2, <2>3 DEF Reloads
    <2>7. Reloads(p) => Reloads(p)'
      <3>1. ASSUME NEW j \in 1..Len(replies[p]), replies[p][j].req.kind \in SquadWrites \cup ChainKinds
            PROVE  Reloads(p)'
        BY <2>3, <3>1 DEF Reloads
      <3>2. ASSUME NEW j \in 1..Len(requests[p]), requests[p][j].kind \in ChainKinds
            PROVE  Reloads(p)'
        <4>1. CASE j = 1
          BY <2>4, <2>6, <3>2, <4>1
        <4>2. CASE j # 1
          BY <2>5, <3>2, <4>2 DEF Reloads
        <4> QED BY <4>1, <4>2
      <3> QED BY <3>1, <3>2 DEF Reloads
    <2> QED BY <2>6, <2>7
  <1>read. CASE ReadStep(p)
    <2>1. UNCHANGED <<db, deleted, vm>> /\ Serves(p, Snapshot(db, Head(requests[p])))
      BY <1>read DEF ReadStep, Serves
    <2>2. Snapshot(db, Head(requests[p])) \in Store
      BY <1>0, <2>1, QueueTake, SnapshotType, PhoneTypes DEF Serves
    <2>3. CASE app[p] = "on"
      BY <2>1, <2>2, <2>3, <1>served, <1>same DEF SameList
    <2>4. CASE app[p] # "on"
      BY <2>1, <2>4, <1>off
    <2> QED BY <2>3, <2>4
  <1>write. CASE WriteStep(p)
    <2>1. Serves(p, EmptyStore) /\ vm' = vm
      BY <1>write DEF WriteStep, Serves
    <2>2. CASE app[p] = "on"
      <3>1. /\ Reloads(p) => Reloads(p)'
            /\ Head(requests[p]).kind \in SquadWrites => Reloads(p)'
        BY <2>1, <2>2, <1>served, EmptyStoreType
      <3>2. /\ \A c : Seen(c, Known) => Seen(c, Known')
            /\ Head(requests[p]).kind \notin SquadWrites =>
                  \A c : Seen(c, Known) /\ Current(c, db) => Current(c, db')
        BY <1>write, CurrentKept
      <3>3. ASSUME NEW i \in 1..Len(vm[p].matchsModelList)
            PROVE  /\ Seen(vm[p].matchsModelList[i], Known')
                   /\ Current(vm[p].matchsModelList[i], db') \/ Reloads(p)'
        BY <3>1, <3>2 DEF ListCurrent
      <3> QED BY <2>1, <3>3 DEF ListCurrent
    <2>3. CASE app[p] # "on"
      BY <2>1, <2>3, <1>off
    <2> QED BY <2>2, <2>3
  <1> QED
    BY <1>rest, <1>stop, <1>load, <1>sends, <1>listed, <1>quiet, <1>reload, <1>chain, <1>read, <1>write
    DEF AloneStep

-----------------------------------------------------------------------------
(* While the phone has not slipped. The calls pending after a step are those   *)
(* pending before it, from the next one on if a callback has run, and then     *)
(* the ones it sends.                                                          *)
Moves(p, off, new) ==
    \A i \in 1..Pending(requests'[p], replies'[p]) :
       \/ /\ i + off \in 1..Pending(requests[p], replies[p])
          /\ Item(requests'[p], replies'[p], i) = Item(requests[p], replies[p], i + off)
       \/ /\ i = Pending(requests'[p], replies'[p])
          /\ Item(requests'[p], replies'[p], i) \in new

LEMMA MovesSend ==
    ASSUME TypeOK, NEW p \in Devices, NEW x \in Request,
           requests'[p] = Append(requests[p], x), replies'[p] = replies[p]
    PROVE  Moves(p, 0, {x})
  <1>1. requests[p] \in Seq(Request) /\ replies[p] \in Seq(Reply)
    BY PhoneTypes
  <1>2. /\ Pending(requests'[p], replies'[p]) = Pending(requests[p], replies[p]) + 1
        /\ \A i \in 1..Pending(requests'[p], replies'[p]) :
              \/ /\ i \in 1..Pending(requests[p], replies[p])
                 /\ Item(requests'[p], replies'[p], i) = Item(requests[p], replies[p], i)
              \/ /\ i = Pending(requests[p], replies[p]) + 1
                 /\ Item(requests'[p], replies'[p], i) = x
    BY <1>1, ItemSend
  <1>3. Pending(requests[p], replies[p]) \in Nat
    BY <1>1, ItemType
  <1>4. \A i \in 1..Pending(requests'[p], replies'[p]) : i + 0 = i
    BY <1>2, <1>3
  <1> QED BY <1>2, <1>4 DEF Moves

LEMMA MovesTake ==
    ASSUME TypeOK, NEW p \in Devices, replies[p] # <<>>, replies'[p] = Tail(replies[p])
    PROVE  /\ requests'[p] = requests[p] => Moves(p, 1, {})
           /\ \A x \in Request : requests'[p] = Append(requests[p], x) => Moves(p, 1, {x})
           /\ 1 \in 1..Pending(requests[p], replies[p])
           /\ Item(requests[p], replies[p], 1) = Head(replies[p]).req
  <1> DEFINE q == requests[p]
             r == replies[p]
  <1>1. q \in Seq(Request) /\ r \in Seq(Reply) /\ Tail(r) \in Seq(Reply)
    BY PhoneTypes, QueueTake
  <1>2. /\ 1 \in 1..Pending(q, r) /\ Item(q, r, 1) = Head(r).req
        /\ \A i \in 1..Pending(q, Tail(r)) :
              i + 1 \in 1..Pending(q, r) /\ Item(q, Tail(r), i) = Item(q, r, i + 1)
    BY <1>1, ItemTake
  <1>3. requests'[p] = requests[p] => Moves(p, 1, {})
    BY <1>2 DEF Moves
  <1>4. ASSUME NEW x \in Request, requests'[p] = Append(requests[p], x)
        PROVE  Moves(p, 1, {x})
    <2>1. /\ Pending(Append(q, x), Tail(r)) = Pending(q, Tail(r)) + 1
          /\ \A i \in 1..Pending(Append(q, x), Tail(r)) :
                \/ i \in 1..Pending(q, Tail(r)) /\ Item(Append(q, x), Tail(r), i) = Item(q, Tail(r), i)
                \/ i = Pending(q, Tail(r)) + 1 /\ Item(Append(q, x), Tail(r), i) = x
      BY <1>1, ItemSend
    <2> QED BY <1>2, <1>4, <2>1 DEF Moves
  <1> QED BY <1>2, <1>3, <1>4

LEMMA MovesServe ==
    ASSUME TypeOK, NEW p \in Devices, NEW snap \in Store, Serves(p, snap), app[p] = "on"
    PROVE  /\ Moves(p, 0, {})
           /\ Len(replies[p]) + 1 \in 1..Pending(requests[p], replies[p])
           /\ Item(requests[p], replies[p], Len(replies[p]) + 1) = Head(requests[p])
  <1> DEFINE a == [req |-> Head(requests[p]), ok |-> TRUE, snap |-> snap]
  <1>1. requests[p] \in Seq(Request) /\ replies[p] \in Seq(Reply)
    BY PhoneTypes
  <1>2. /\ requests[p] # <<>> /\ requests'[p] = Tail(requests[p]) /\ replies'[p] = Append(replies[p], a)
    BY DEF Serves
  <1>3. a \in Reply /\ a.req = Head(requests[p])
    BY ServedReply
  <1> HIDE DEF a
  <1>4. /\ Pending(requests'[p], replies'[p]) = Pending(requests[p], replies[p])
        /\ \A i \in 1..Pending(requests[p], replies[p]) :
              Item(requests'[p], replies'[p], i) = Item(requests[p], replies[p], i)
    BY <1>1, <1>2, <1>3, ItemServe
  <1>5. Pending(requests[p], replies[p]) \in Nat
    BY <1>1, ItemType
  <1>6. \A i \in 1..Pending(requests[p], replies[p]) : i + 0 = i
    BY <1>5
  <1>7. Moves(p, 0, {})
    BY <1>4, <1>6 DEF Moves
  <1>8. 1 \in 1..Len(requests[p]) /\ Head(requests[p]) = requests[p][1]
    BY <1>1, <1>2, QueueTake
  <1> QED BY <1>1, <1>7, <1>8, ItemType

(* No two calls clash when the new one clashes with none of those that stay.   *)
LEMMA MovesNoClash ==
    ASSUME TypeOK, TypeOK', NEW p \in Devices, NoClash(p), NEW off \in {0, 1}, NEW new, Moves(p, off, new),
           app'[p] # "on" => requests'[p] = <<>>,
           \A x \in new : \A k \in (1 + off)..Pending(requests[p], replies[p]) :
              ~Clash(x, Item(requests[p], replies[p], k))
    PROVE  NoClash(p)'
  <1> DEFINE n == Pending(requests[p], replies[p])
             m == Pending(requests'[p], replies'[p])
             I(i) == Item(requests[p], replies[p], i)
             J(i) == Item(requests'[p], replies'[p], i)
  <1>0. n \in Nat /\ m \in Nat
    <2>1. /\ requests[p] \in Seq(Request) /\ replies[p] \in Seq(Reply)
          /\ requests'[p] \in Seq(Request) /\ replies'[p] \in Seq(Reply)
      BY DEF TypeOK
    <2> QED BY <2>1, ItemType
  <1>1. \A x, y : Clash(x, y) <=> Clash(y, x)
    BY DEF Clash
  <1>2. \A i, j \in 1..n : i # j => ~Clash(I(i), I(j))
    BY DEF NoClash
  <1>3. \A i \in 1..m : (i + off \in 1..n /\ J(i) = I(i + off)) \/ (i = m /\ J(i) \in new)
    BY DEF Moves
  <1>4. \A x \in new : \A k \in (1 + off)..n : ~Clash(x, I(k))
    OBVIOUS
  <1> HIDE DEF n, m, I, J
  <1>5. ASSUME NEW i \in 1..m, NEW j \in 1..m, i # j PROVE ~Clash(J(i), J(j))
    <2>1. CASE i + off \in 1..n /\ J(i) = I(i + off) /\ j + off \in 1..n /\ J(j) = I(j + off)
      <3>1. i + off # j + off
        BY <1>0, <1>5
      <3> QED BY <1>2, <2>1, <3>1
    <2>2. CASE i + off \in 1..n /\ J(i) = I(i + off) /\ j = m /\ J(j) \in new
      <3>1. i + off \in (1 + off)..n
        BY <1>0, <2>2
      <3> QED BY <1>1, <1>4, <2>2, <3>1
    <2>3. CASE j + off \in 1..n /\ J(j) = I(j + off) /\ i = m /\ J(i) \in new
      <3>1. j + off \in (1 + off)..n
        BY <1>0, <2>3
      <3> QED BY <1>4, <2>3, <3>1
    <2> QED BY <1>3, <1>5, <2>1, <2>2, <2>3
  <1> QED BY <1>5 DEF NoClash, m, J

(* Where a detail screen stays, and so do the matches, the calls stay right.   *)
LEMMA MovesThere ==
    ASSUME TypeOK, TypeOK', NEW p \in Devices, DetailThere(p), NEW off \in {0, 1}, NEW new, Moves(p, off, new),
           \A m \in Matches : db[m].info => db'[m].info,
           \A x \in new : x.kind \in DetailCalls => x.match \in Matches /\ db'[x.match].info,
           screen'[p] \in Matches =>
              screen'[p] = screen[p] /\ \A x \in new : x.kind \in DetailCalls /\ x.match = screen[p]
    PROVE  DetailThere(p)'
  <1> DEFINE n == Pending(requests[p], replies[p])
             m == Pending(requests'[p], replies'[p])
             I(i) == Item(requests[p], replies[p], i)
             J(i) == Item(requests'[p], replies'[p], i)
  <1>1. /\ \A i \in 1..n : I(i).kind \in DetailCalls => db[I(i).match].info
        /\ screen[p] \in Matches =>
              /\ db[screen[p]].info
              /\ \A i \in 1..n : I(i).kind \in DetailCalls /\ I(i).match = screen[p]
    BY DEF DetailThere
  <1>2. \A i \in 1..m : (i + off \in 1..n /\ J(i) = I(i + off)) \/ (i = m /\ J(i) \in new)
    BY DEF Moves
  <1>3. \A i \in 1..n : I(i).kind \in DetailCalls => I(i).match \in Matches
    <2>1. \A i \in 1..n : I(i) \in Request
      BY PhoneTypes, ItemType
    <2> HIDE DEF I
    <2> QED BY <2>1 DEF Request, DetailCalls
  <1> HIDE DEF n, m, I, J
  <1>4. \A i \in 1..m : J(i).kind \in DetailCalls => db'[J(i).match].info
    BY <1>1, <1>2, <1>3
  <1>5. screen'[p] \in Matches =>
              /\ db'[screen'[p]].info
              /\ \A i \in 1..m : J(i).kind \in DetailCalls /\ J(i).match = screen'[p]
    BY <1>1, <1>2
  <1> QED BY <1>4, <1>5 DEF DetailThere, m, J

(* The steps of leaveMatches that are under way stay under way.                *)
LEMMA LeavingKept ==
    ASSUME TypeOK, TypeOK', NEW p \in Devices, NEW m \in Matches, NEW s \in Slots, Leaving(p, m, s),
           db'[m].Positions[s] = db[m].Positions[s],
           \A i \in 1..Len(requests[p]) :
              \/ \E j \in 1..Len(requests'[p]) : requests'[p][j] = requests[p][i]
              \/ ~(requests[p][i].match = m /\ requests[p][i].kind \in {"area", "areaRemove"}),
           \A i \in 1..Len(replies[p]) :
              \/ \E j \in 1..Len(replies'[p]) : replies'[p][j] = replies[p][i]
              \/ ~(replies[p][i].req.match = m /\ replies[p][i].req.kind \in {"leave", "area"})
    PROVE  Leaving(p, m, s)'
  <1> DEFINE u == db[m].Positions[s]
  <1>1. ASSUME NEW i \in 1..Len(replies[p]), Finds(replies[p][i], m, s, u)
        PROVE  \E j \in 1..Len(replies'[p]) : Finds(replies'[p][j], m, s, u)
    <2>1. replies[p][i].req.match = m /\ replies[p][i].req.kind \in {"leave", "area"}
      BY <1>1 DEF Finds
    <2>2. PICK j \in 1..Len(replies'[p]) : replies'[p][j] = replies[p][i]
      BY <2>1
    <2> QED BY <1>1, <2>2
  <1>2. ASSUME NEW i \in 1..Len(requests[p]), Clears(requests[p][i], m, s, u)
        PROVE  \E j \in 1..Len(requests'[p]) : Clears(requests'[p][j], m, s, u)
    <2>1. requests[p][i].match = m /\ requests[p][i].kind \in {"area", "areaRemove"}
      BY <1>2 DEF Clears
    <2>2. PICK j \in 1..Len(requests'[p]) : requests'[p][j] = requests[p][i]
      BY <2>1
    <2> QED BY <1>2, <2>2
  <1> QED BY <1>1, <1>2 DEF Leaving

(* A call that is sent at the end of the queue.                                *)
LEMMA CalmSend ==
    ASSUME TypeOK, TypeOK', NEW p \in Devices, Calm(p), NEW x \in Request, Sends(p, x),
           \A k \in 1..Pending(requests[p], replies[p]) : ~Clash(x, Item(requests[p], replies[p], k)),
           x.kind = "place" => /\ x.user \in db[x.match].players
                               /\ \A s \in Slots : db[x.match].Positions[s] # x.user,
           DetailThere(p)'
    PROVE  Calm(p)'
  <1>0. /\ requests[p] \in Seq(Request) /\ replies[p] \in Seq(Reply) /\ Len(requests[p]) \in Nat
        /\ requests'[p] = Append(requests[p], x) /\ replies'[p] = replies[p] /\ db' = db /\ app'[p] = "on"
    BY PhoneTypes DEF Sends
  <1>1. NoClash(p)'
    <2>1. Moves(p, 0, {x})
      BY <1>0, MovesSend
    <2>2. \A y \in {x} : \A k \in (1 + 0)..Pending(requests[p], replies[p]) :
             ~Clash(y, Item(requests[p], replies[p], k))
      OBVIOUS
    <2>3. NoClash(p)
      BY DEF Calm
    <2> QED BY <1>0, <2>1, <2>2, <2>3, MovesNoClash
  <1>2. /\ Len(requests'[p]) = Len(requests[p]) + 1
        /\ \A i \in 1..Len(requests'[p]) :
              \/ i \in 1..Len(requests[p]) /\ requests'[p][i] = requests[p][i]
              \/ i = Len(requests[p]) + 1 /\ requests'[p][i] = x
    BY <1>0, QueueAdd
  <1>3. requests'[p] # <<>>
    <2>1. Len(<<>>) = 0
      OBVIOUS
    <2>2. Len(requests'[p]) # 0
      BY <1>0, <1>2
    <2> QED BY <2>1, <2>2
  <1>4. DetailCurrent(p)'
    BY <1>3 DEF DetailCurrent
  <1>5. PlaceReady(p)'
    <2>1. PlaceReady(p)
      BY DEF Calm
    <2> QED BY <1>0, <1>2, <2>1 DEF PlaceReady
  <1>6. AreaCurrent(p)' /\ OnePlaceEach'
    BY <1>0 DEF Calm, AreaCurrent, OnePlaceEach
  <1>7. PitchInSquad(p)'
    <2>1. ASSUME NEW m \in Matches, NEW s \in Slots, Leaving(p, m, s) PROVE Leaving(p, m, s)'
      <3>1. \A i \in 1..Len(requests[p]) : \E j \in 1..Len(requests'[p]) : requests'[p][j] = requests[p][i]
        <4>1. \A i \in 1..Len(requests[p]) : i \in 1..Len(requests'[p]) /\ i # Len(requests[p]) + 1
          BY <1>0, <1>2
        <4> QED BY <1>2, <4>1
      <3> QED BY <1>0, <2>1, <3>1, LeavingKept
    <2> QED BY <1>0, <2>1 DEF Calm, PitchInSquad
  <1> QED BY <1>1, <1>4, <1>5, <1>6, <1>7 DEF Calm

(* A callback, and the calls it sends in turn.                                 *)
LEMMA CalmTake ==
    ASSUME TypeOK, TypeOK', NEW p \in Devices, Calm(p), Takes(p), NEW new,
           \/ requests'[p] = requests[p] /\ new = {}
           \/ \E x \in Request : requests'[p] = Append(requests[p], x) /\ new = {x},
           \A x \in new : \A k \in 2..Pending(requests[p], replies[p]) :
              ~Clash(x, Item(requests[p], replies[p], k)),
           \A x \in new : x.kind # "place",
           \A x \in new : x.kind \in DetailCalls => x.match \in Matches /\ db[x.match].info,
           screen'[p] \in Matches =>
              screen'[p] = screen[p] /\ \A x \in new : x.kind \in DetailCalls /\ x.match = screen[p],
           DetailCurrent(p)',
           LET a == Head(replies[p]) IN
           /\ a.req.kind = "leave" =>
                 \E x \in new : x.kind = "area" /\ x.match = a.req.match /\ x.user = a.req.user
           /\ a.req.kind = "area" =>
                 \A s \in Slots : a.snap[a.req.match].Positions[s] = a.req.user =>
                    \E x \in new : x.kind = "areaRemove" /\ x.match = a.req.match /\ x.slot = s
    PROVE  Calm(p)'
  <1>0. /\ requests[p] \in Seq(Request) /\ replies[p] \in Seq(Reply)
        /\ Len(requests[p]) \in Nat /\ Len(replies[p]) \in Nat
        /\ replies[p] # <<>> /\ replies'[p] = Tail(replies[p]) /\ db' = db /\ app'[p] = "on"
    BY PhoneTypes DEF Takes
  <1>1. Moves(p, 1, new)
    <2>1. CASE requests'[p] = requests[p] /\ new = {}
      BY <1>0, <2>1, MovesTake
    <2>2. ASSUME NEW x \in Request, requests'[p] = Append(requests[p], x), new = {x}
          PROVE  Moves(p, 1, new)
      BY <1>0, <2>2, MovesTake
    <2> QED BY <2>1, <2>2
  <1>2. NoClash(p)'
    <2>1. \A x \in new : \A k \in (1 + 1)..Pending(requests[p], replies[p]) :
             ~Clash(x, Item(requests[p], replies[p], k))
      OBVIOUS
    <2>2. NoClash(p)
      BY DEF Calm
    <2> QED BY <1>0, <1>1, <2>1, <2>2, MovesNoClash
  <1>3. DetailThere(p)'
    <2>1. DetailThere(p)
      BY DEF Calm
    <2>2. \A m \in Matches : db[m].info => db'[m].info
      BY <1>0
    <2>3. \A x \in new : x.kind \in DetailCalls => x.match \in Matches /\ db'[x.match].info
      BY <1>0
    <2> QED BY <1>1, <2>1, <2>2, <2>3, MovesThere
  <1> DEFINE Grows ==
         /\ \A i \in 1..Len(requests'[p]) :
               \/ i \in 1..Len(requests[p]) /\ requests'[p][i] = requests[p][i]
               \/ requests'[p][i] \in new
         /\ \A i \in 1..Len(requests[p]) : \E j \in 1..Len(requests'[p]) : requests'[p][j] = requests[p][i]
         /\ \A x \in new : \E j \in 1..Len(requests'[p]) : requests'[p][j] = x
  <1>4. Grows
    <2>1. CASE requests'[p] = requests[p] /\ new = {}
      BY <2>1
    <2>2. ASSUME NEW x \in Request, requests'[p] = Append(requests[p], x), new = {x}
          PROVE  Grows
      <3>1. /\ Len(requests'[p]) = Len(requests[p]) + 1
            /\ requests'[p][Len(requests[p]) + 1] = x
            /\ \A i \in 1..Len(requests'[p]) :
                  \/ i \in 1..Len(requests[p]) /\ requests'[p][i] = requests[p][i]
                  \/ i = Len(requests[p]) + 1 /\ requests'[p][i] = x
        BY <1>0, <2>2, QueueAdd
      <3>2. /\ Len(requests[p]) + 1 \in 1..Len(requests'[p])
            /\ \A i \in 1..Len(requests[p]) : i \in 1..Len(requests'[p]) /\ i # Len(requests[p]) + 1
        BY <1>0, <3>1
      <3> QED BY <2>2, <3>1, <3>2
    <2> QED BY <2>1, <2>2
  <1>5. /\ Head(replies[p]) = replies[p][1]
        /\ \A i \in 1..Len(replies'[p]) : i + 1 \in 1..Len(replies[p]) /\ replies'[p][i] = replies[p][i + 1]
        /\ \A i \in 1..Len(replies[p]) : i # 1 =>
              \E j \in 1..Len(replies'[p]) : replies'[p][j] = replies[p][i]
    <2>1. /\ Head(replies[p]) = replies[p][1] /\ Len(replies'[p]) = Len(replies[p]) - 1
          /\ \A i \in 1..Len(replies'[p]) : i + 1 \in 1..Len(replies[p]) /\ replies'[p][i] = replies[p][i + 1]
      BY <1>0, QueueTake
    <2>2. ASSUME NEW i \in 1..Len(replies[p]), i # 1
          PROVE  i - 1 \in 1..Len(replies'[p]) /\ replies'[p][i - 1] = replies[p][i]
      <3>1. i - 1 \in 1..Len(replies'[p]) /\ i - 1 + 1 = i
        BY <1>0, <2>1, <2>2
      <3> QED BY <2>1, <3>1
    <2> QED BY <2>1, <2>2
  <1>6. PlaceReady(p)'
    <2>1. PlaceReady(p)
      BY DEF Calm
    <2>2. ASSUME NEW i \in 1..Len(requests'[p]), requests'[p][i].kind = "place"
          PROVE  i \in 1..Len(requests[p]) /\ requests'[p][i] = requests[p][i]
      BY <1>4, <2>2
    <2> QED BY <1>0, <2>1, <2>2 DEF PlaceReady
  <1>7. AreaCurrent(p)' /\ OnePlaceEach'
    <2>1. AreaCurrent(p) /\ OnePlaceEach
      BY DEF Calm
    <2>2. AreaCurrent(p)'
      <3> SUFFICES ASSUME NEW i \in 1..Len(replies'[p]), replies'[p][i].req.kind = "area"
                   PROVE  LET a == replies'[p][i] IN
                          a.snap[a.req.match].Positions = db[a.req.match].Positions
        BY <1>0 DEF AreaCurrent
      <3>1. i + 1 \in 1..Len(replies[p]) /\ replies'[p][i] = replies[p][i + 1]
        BY <1>5
      <3> QED BY <2>1, <3>1 DEF AreaCurrent
    <2> QED BY <1>0, <2>1, <2>2 DEF OnePlaceEach
  <1>8. PitchInSquad(p)'
    <2>1. ASSUME NEW m \in Matches, NEW s \in Slots, Leaving(p, m, s) PROVE Leaving(p, m, s)'
      <3> DEFINE a == Head(replies[p])
                 u == db[m].Positions[s]
      <3>1. ASSUME NEW x \in new, Clears(x, m, s, u) PROVE Leaving(p, m, s)'
        <4>1. PICK j \in 1..Len(requests'[p]) : requests'[p][j] = x
          BY <1>4
        <4> QED BY <1>0, <3>1, <4>1 DEF Leaving
      <3>2. CASE Finds(a, m, s, u)
        <4>1. CASE a.req.kind = "leave"
          <5>1. PICK x \in new : x.kind = "area" /\ x.match = a.req.match /\ x.user = a.req.user
            BY <4>1
          <5>2. Clears(x, m, s, u)
            BY <3>2, <5>1 DEF Finds, Clears
          <5> QED BY <3>1, <5>2
        <4>2. CASE a.req.kind = "area" /\ a.snap[m].Positions[s] = u
          <5>1. a.req.match = m /\ a.req.user = u
            BY <3>2 DEF Finds
          <5>2. PICK x \in new : x.kind = "areaRemove" /\ x.match = a.req.match /\ x.slot = s
            BY <4>2, <5>1
          <5>3. Clears(x, m, s, u)
            BY <5>1, <5>2 DEF Clears
          <5> QED BY <3>1, <5>3
        <4> QED BY <3>2, <4>1, <4>2 DEF Finds
      <3>3. ASSUME NEW i \in 1..Len(replies[p]), i # 1, Finds(replies[p][i], m, s, u)
            PROVE  Leaving(p, m, s)'
        <4>1. PICK j \in 1..Len(replies'[p]) : replies'[p][j] = replies[p][i]
          BY <1>5, <3>3
        <4> QED BY <1>0, <3>3, <4>1 DEF Leaving
      <3>4. ASSUME NEW i \in 1..Len(requests[p]), Clears(requests[p][i], m, s, u)
            PROVE  Leaving(p, m, s)'
        <4>1. PICK j \in 1..Len(requests'[p]) : requests'[p][j] = requests[p][i]
          BY <1>4
        <4> QED BY <1>0, <3>4, <4>1 DEF Leaving
      <3> HIDE DEF u
      <3>5. \/ \E i \in 1..Len(replies[p]) : Finds(replies[p][i], m, s, u)
            \/ \E i \in 1..Len(requests[p]) : Clears(requests[p][i], m, s, u)
        BY <2>1 DEF Leaving, u
      <3> QED BY <1>5, <3>2, <3>3, <3>4, <3>5
    <2> QED BY <1>0, <2>1 DEF Calm, PitchInSquad
  <1> QED BY <1>2, <1>3, <1>6, <1>7, <1>8 DEF Calm

(* A phone with nothing under way.                                             *)
LEMMA NothingPending ==
    ASSUME NEW p \in Devices, Idle(p)
    PROVE  /\ Pending(requests[p], replies[p]) = 0 /\ ~Reloads(p)
           /\ \A m, s : ~Leaving(p, m, s)
  <1>1. requests[p] = <<>> /\ replies[p] = <<>>
    BY DEF Idle
  <1>2. Len(<<>>) = 0
    OBVIOUS
  <1> QED BY <1>1, <1>2 DEF Pending, Reloads, Leaving

(* What the screens show is right then.                                        *)
LEMMA ShownRight ==
    ASSUME TypeOK, NEW p \in Devices, Plain(p), ListCurrent(p), Idle(p), Calm(p)
    PROVE  /\ \A m \in Matches : (\E card \in ShownCards(p) : card.matchID = m) => db[m].info
           /\ screen[p] \in Matches =>
                 LET model == vm[p].selectedMatch IN
                 /\ model = Parsed(screen[p], db[screen[p]])
                 /\ model.matchID = screen[p]
                 /\ \A u \in vm[p].unselectedPlayer :
                       /\ u \in db[screen[p]].players
                       /\ \A s \in Slots : db[screen[p]].Positions[s] # u
  <1>1. ~Reloads(p) /\ requests[p] = <<>> /\ replies[p] = <<>>
    BY NothingPending DEF Idle
  <1>2. ASSUME NEW m \in Matches, NEW card \in ShownCards(p), card.matchID = m PROVE db[m].info
    <2>1. PICK i \in 1..Len(vm[p].matchsModelList), n \in Matches :
             card = vm[p].matchsModelList[i][n] /\ card # None
      BY <1>2 DEF ShownCards
    <2>2. card.matchID = Parsed(n, db[n]).matchID
      BY <1>1, <2>1 DEF ListCurrent, Current
    <2>3. card.matchID = IF db[n].info THEN n ELSE None
      BY <2>2 DEF Parsed
    <2> QED BY <1>2, <2>3, NoneIsNew
  <1>3. ASSUME screen[p] \in Matches
        PROVE  LET model == vm[p].selectedMatch IN
               /\ model = Parsed(screen[p], db[screen[p]])
               /\ model.matchID = screen[p]
               /\ \A u \in vm[p].unselectedPlayer :
                     /\ u \in db[screen[p]].players
                     /\ \A s \in Slots : db[screen[p]].Positions[s] # u
    <2>1. Len(replies[p]) = 0
      BY <1>1
    <2>2. vm[p].selectedMatch = Parsed(screen[p], db[screen[p]])
      BY <1>1, <1>3, <2>1 DEF Calm, DetailCurrent
    <2>3. db[screen[p]].info
      BY <1>3 DEF Calm, DetailThere
    <2>4. /\ vm[p].selectedMatch.matchID = screen[p]
          /\ vm[p].selectedMatch.players = db[screen[p]].players
          /\ vm[p].selectedMatch.Position = db[screen[p]].Positions
      BY <2>2, <2>3 DEF Parsed
    <2>5. vm[p].unselectedPlayer = Unselected(vm[p].selectedMatch)
      BY DEF Plain
    <2> QED BY <2>2, <2>4, <2>5 DEF Unselected
  <1> QED BY <1>2, <1>3

(* Gestures.                                                                   *)
LEMMA CalmUser ==
    ASSUME TypeOK, TypeOK', NEW p \in Devices, Plain(p), ListCurrent(p), slipped = {} => Calm(p), slipped' = {},
           \/ RestStep(p) \/ StopStep(p)
           \/ LoadStep(p) \/ ToolbarStep(p) \/ CreateStep(p) \/ OpenStep(p) \/ CardStep(p) \/ PitchStep(p)
    PROVE  Calm(p)'
  <1>0. /\ requests[p] \in Seq(Request) /\ replies[p] \in Seq(Reply) /\ Pending(requests[p], replies[p]) \in Nat
        /\ \A i \in 1..Pending(requests[p], replies[p]) : Item(requests[p], replies[p], i) \in Request
        /\ "list" \notin Matches /\ "create" \notin Matches
    BY PhoneTypes, ItemType, ScreensAreNew
  <1>slow. ASSUME Slips(p) PROVE Calm(p) /\ Idle(p)
    BY <1>slow DEF Slips
  <1>rest. CASE RestStep(p)
    <2>1. /\ db' = db /\ app'[p] = app[p] /\ requests'[p] = requests[p] /\ replies'[p] = replies[p]
          /\ SameDetail(p) /\ Calm(p)
          /\ screen'[p] = screen[p] \/ screen'[p] \notin Matches
      BY <1>0, <1>rest DEF RestStep
    <2>2. NoClash(p)' /\ PlaceReady(p)' /\ AreaCurrent(p)' /\ OnePlaceEach'
      BY <2>1 DEF Calm, NoClash, PlaceReady, AreaCurrent, OnePlaceEach
    <2>3. DetailThere(p)'
      BY <2>1 DEF Calm, DetailThere
    <2>4. DetailCurrent(p)'
      BY <2>1 DEF Calm, DetailCurrent, SameDetail
    <2>5. PitchInSquad(p)'
      BY <2>1 DEF Calm, PitchInSquad, Leaving
    <2> QED BY <2>2, <2>3, <2>4, <2>5 DEF Calm
  <1>stop. CASE StopStep(p)
    <2>1. db' = db /\ screen'[p] = "list" /\ replies'[p] = <<>> /\ Calm(p) /\ Idle(p)
      BY <1>slow, <1>stop DEF StopStep
    <2>2. requests'[p] = <<>>
      <3>1. PICK n \in 0..Len(requests[p]) : requests'[p] = SubSeq(requests[p], 1, n)
        BY <1>stop DEF StopStep
      <3>2. Len(requests[p]) = 0
        BY <2>1 DEF Idle
      <3>3. Len(requests'[p]) = 0 /\ requests'[p] \in Seq(Request)
        BY <1>0, <3>1, <3>2, QueuePrefix
      <3> QED BY <3>3
    <2>3. Len(<<>>) = 0
      OBVIOUS
    <2>4. Pending(requests'[p], replies'[p]) = 0
      BY <2>1, <2>2, <2>3 DEF Pending
    <2>5. NoClash(p)' /\ DetailThere(p)'
      BY <1>0, <2>1, <2>2, <2>4 DEF NoClash, DetailThere
    <2>6. DetailCurrent(p)'
      BY <1>0, <2>1 DEF DetailCurrent
    <2>7. PlaceReady(p)' /\ AreaCurrent(p)'
      BY <2>1, <2>2, <2>3 DEF PlaceReady, AreaCurrent
    <2>8. OnePlaceEach'
      BY <2>1 DEF Calm, OnePlaceEach
    <2>9. PitchInSquad(p)'
      <3>1. \A m, s : ~Leaving(p, m, s)
        BY <2>1, NothingPending
      <3> QED BY <2>1, <3>1 DEF Calm, PitchInSquad
    <2> QED BY <2>5, <2>6, <2>7, <2>8, <2>9 DEF Calm
  <1>other. CASE LoadStep(p) \/ CreateStep(p)
    <2>1. PICK x \in Request : Sends(p, x) /\ x.kind \in {"list", "create"} /\ UNCHANGED slipped
                               /\ screen'[p] \notin Matches
      BY <1>0, <1>other DEF LoadStep, CreateStep
    <2>2. Calm(p) /\ requests'[p] = Append(requests[p], x) /\ replies'[p] = replies[p] /\ db' = db
      BY <2>1 DEF Sends
    <2>3. \A y : ~Clash(x, y)
      BY <2>1 DEF Clash, Covered, ListCalls, DetailCalls
    <2>4. DetailThere(p)'
      <3>1. Moves(p, 0, {x}) /\ DetailThere(p)
        BY <2>2, MovesSend DEF Calm
      <3>2. \A y \in {x} : y.kind \notin DetailCalls
        BY <2>1 DEF DetailCalls
      <3>3. \A m \in Matches : db[m].info => db'[m].info
        BY <2>2
      <3> QED BY <2>1, <3>1, <3>2, <3>3, MovesThere
    <2> QED BY <2>1, <2>2, <2>3, <2>4, CalmSend
  <1>toolbar. CASE ToolbarStep(p)
    <2>1. PICK x \in Request : Sends(p, x) /\ x.kind \in {"detail", "plan"} /\ UNCHANGED slipped
                               /\ screen[p] \in Matches /\ screen'[p] = screen[p] /\ x.match = screen[p]
      BY <1>toolbar DEF ToolbarStep
    <2>2. Calm(p) /\ requests'[p] = Append(requests[p], x) /\ replies'[p] = replies[p] /\ db' = db
      BY <2>1 DEF Sends
    <2>3. /\ db[screen[p]].info /\ DetailThere(p)
          /\ \A i \in 1..Pending(requests[p], replies[p]) :
                Item(requests[p], replies[p], i).kind \in DetailCalls
      BY <2>1, <2>2 DEF Calm, DetailThere
    <2>4. \A y : y.kind \in DetailCalls => ~Clash(x, y)
      BY <2>1 DEF Clash, Covered, ListCalls, DetailCalls
    <2>5. DetailThere(p)'
      <3>1. Moves(p, 0, {x})
        BY <2>2, MovesSend
      <3>2. \A y \in {x} : y.kind \in DetailCalls /\ y.match = screen[p] /\ db'[y.match].info
        BY <2>1, <2>2, <2>3 DEF DetailCalls
      <3>3. \A m \in Matches : db[m].info => db'[m].info
        BY <2>2
      <3> QED BY <2>1, <2>3, <3>1, <3>2, <3>3, MovesThere
    <2> QED BY <2>1, <2>2, <2>3, <2>4, <2>5, CalmSend
  <1>first. ASSUME NEW x \in Request, Sends(p, x), Slips(p),
                   x.kind \in DetailCalls => db[x.match].info,
                   screen'[p] \in Matches => x.kind \in DetailCalls /\ x.match = screen'[p],
                   x.kind = "place" => /\ x.user \in db[x.match].players
                                       /\ \A s \in Slots : db[x.match].Positions[s] # x.user
            PROVE  Calm(p)'
    <2>1. Calm(p) /\ Pending(requests[p], replies[p]) = 0
      BY <1>first, <1>slow, NothingPending
    <2>2. requests'[p] = Append(requests[p], x) /\ replies'[p] = replies[p] /\ db' = db
      BY <1>first DEF Sends
    <2>3. Moves(p, 0, {x})
      BY <2>2, MovesSend
    <2>4. \A i \in 1..Pending(requests'[p], replies'[p]) : Item(requests'[p], replies'[p], i) = x
      BY <2>1, <2>3 DEF Moves
    <2>5. DetailThere(p)'
      BY <1>first, <2>2, <2>4 DEF DetailThere
    <2> QED BY <1>first, <2>1, <2>5, CalmSend
  <1>open. CASE OpenStep(p)
    <2>1. PICK x \in Request : /\ Sends(p, x) /\ x.kind = "detail" /\ Slips(p) /\ screen'[p] = x.match
                               /\ \E card \in ShownCards(p) : card.matchID = x.match
      BY <1>open DEF OpenStep
    <2>2. x.match \in Matches
      BY <2>1 DEF Request
    <2>3. db[x.match].info
      BY <1>slow, <2>1, <2>2, ShownRight
    <2> QED BY <1>first, <2>1, <2>3 DEF DetailCalls
  <1>card. CASE CardStep(p)
    <2>1. PICK x \in Request : /\ Sends(p, x) /\ x.kind \in {"roster", "leave", "delete"} /\ Slips(p)
                               /\ screen'[p] = "list"
      BY <1>card DEF CardStep
    <2> QED BY <1>0, <1>first, <2>1 DEF DetailCalls
  <1>pitch. CASE PitchStep(p)
    <2>1. PICK x \in Request :
             /\ Sends(p, x) /\ x.kind \in {"place", "vacate", "comment"} /\ Slips(p)
             /\ screen[p] \in Matches /\ screen'[p] = screen[p]
             /\ x.match \in {screen[p], vm[p].selectedMatch.matchID}
             /\ x.kind = "place" => x.user \in vm[p].unselectedPlayer
      BY <1>pitch DEF PitchStep
    <2>2. Calm(p) /\ Idle(p)
      BY <1>slow, <2>1
    <2>3. /\ x.match = screen[p] /\ db[screen[p]].info
          /\ \A u \in vm[p].unselectedPlayer :
                /\ u \in db[screen[p]].players
                /\ \A s \in Slots : db[screen[p]].Positions[s] # u
      BY <2>1, <2>2, ShownRight DEF Calm, DetailThere
    <2> QED BY <1>first, <2>1, <2>3 DEF DetailCalls
  <1> QED BY <1>rest, <1>stop, <1>other, <1>toolbar, <1>open, <1>card, <1>pitch

(* Callbacks.                                                                  *)
LEMMA CalmCallback ==
    ASSUME TypeOK, TypeOK', NEW p \in Devices, slipped = {} => Calm(p), slipped' = {},
           \/ ListedStep(p) \/ ShownStep(p) \/ IgnoredStep(p)
           \/ ReloadStep(p) \/ ChainStep(p) \/ ShowStep(p)
    PROVE  Calm(p)'
  <1> DEFINE q == requests[p]
             r == replies[p]
             a == Head(replies[p])
  <1>0. Takes(p) /\ Calm(p) /\ db' = db /\ r # <<>> /\ replies'[p] = Tail(r)
    BY Zenon DEF ListedStep, ShownStep, IgnoredStep, ReloadStep, ChainStep, ShowStep, Takes
  <1>1. /\ q \in Seq(Request) /\ r \in Seq(Reply) /\ Len(q) \in Nat /\ Len(r) \in Nat
        /\ Pending(q, r) \in Nat /\ a \in Reply /\ a.req \in Request
        /\ "list" \notin Matches /\ "create" \notin Matches
    <2>1. q \in Seq(Request) /\ r \in Seq(Reply)
      BY PhoneTypes
    <2>2. a \in Reply
      BY <1>0, <2>1, QueueTake
    <2>3. a.req \in Request
      BY <2>2 DEF Reply
    <2> QED BY <2>1, <2>2, <2>3, ItemType, ScreensAreNew
  <1>2. /\ a = r[1] /\ 1 \in 1..Len(r) /\ Len(Tail(r)) = Len(r) - 1
        /\ \A i \in 1..Len(Tail(r)) : i + 1 \in 1..Len(r) /\ Tail(r)[i] = r[i + 1]
    BY <1>0, <1>1, QueueTake
  <1>3. 1 \in 1..Pending(q, r) /\ Item(q, r, 1) = a.req
    BY <1>0, MovesTake
  <1>4. \A k \in 2..Pending(q, r) : ~Clash(a.req, Item(q, r, k))
    <2>1. \A k \in 2..Pending(q, r) : k \in 1..Pending(q, r) /\ k # 1
      BY <1>1
    <2> QED BY <1>0, <1>3, <2>1 DEF Calm, NoClash
  <1>5. /\ a.req.kind \in DetailCalls => db[a.req.match].info
        /\ screen[p] \in Matches => a.req.kind \in DetailCalls /\ a.req.match = screen[p] /\ db[screen[p]].info
    BY <1>0, <1>3 DEF Calm, DetailThere
  <1>6. ASSUME screen'[p] \notin Matches \/ requests'[p] # <<>> PROVE DetailCurrent(p)'
    BY <1>6 DEF DetailCurrent
  <1>7. ASSUME NEW x \in Request, requests'[p] = Append(q, x) PROVE requests'[p] # <<>>
    <2>1. Len(requests'[p]) = Len(q) + 1
      BY <1>1, <1>7, QueueAdd
    <2>2. Len(<<>>) = 0
      OBVIOUS
    <2>3. Len(requests'[p]) # 0
      BY <1>1, <2>1
    <2> QED BY <2>2, <2>3
  <1> HIDE DEF a
  <1>quiet. ASSUME requests'[p] = q, DetailCurrent(p)', screen'[p] = screen[p],
                   a.req.kind \notin {"leave", "area"}
            PROVE  Calm(p)'
    <2> DEFINE new == {}
    <2>1. /\ \A x \in new : \A k \in 2..Pending(requests[p], replies[p]) :
                ~Clash(x, Item(requests[p], replies[p], k))
          /\ \A x \in new : x.kind # "place"
          /\ \A x \in new : x.kind \in DetailCalls => x.match \in Matches /\ db[x.match].info
          /\ \A x \in new : x.kind \in DetailCalls /\ x.match = screen[p]
      OBVIOUS
    <2>2. requests'[p] = requests[p] /\ new = {}
      BY <1>quiet
    <2> HIDE DEF new
    <2> QED BY <1>0, <1>quiet, <2>1, <2>2, CalmTake DEF a
  <1>listed. CASE ListedStep(p) \/ IgnoredStep(p)
    <2>1. requests'[p] = q /\ screen'[p] = screen[p] /\ a.req.kind \in {"list", "roster", "create"}
      BY <1>listed DEF ListedStep, IgnoredStep, a
    <2>2. screen'[p] \notin Matches
      BY <1>5, <2>1 DEF DetailCalls
    <2> QED BY <1>6, <1>quiet, <2>1, <2>2
  <1>shown. CASE ShownStep(p)
    <2>1. /\ requests'[p] = q /\ screen'[p] = screen[p] /\ a.req.kind = "detail"
          /\ Exists(a.snap[a.req.match]) =>
                vm'[p].selectedMatch = Parsed(a.req.match, a.snap[a.req.match])
      BY <1>shown DEF ShownStep, a
    <2>2. DetailCurrent(p)'
      <3> SUFFICES ASSUME screen[p] \in Matches, q = <<>>,
                          \A i \in 1..Len(Tail(r)) : Tail(r)[i].req.kind = "detail"
                   PROVE  IF Tail(r) = <<>>
                          THEN vm'[p].selectedMatch = Parsed(screen[p], db[screen[p]])
                          ELSE Tail(r)[Len(Tail(r))].snap[screen[p]] = db[screen[p]]
        BY <1>0, <2>1 DEF DetailCurrent
      <3> DEFINE t == Tail(r)
      <3>0. t \in Seq(Reply) /\ Len(t) \in Nat /\ Len(t) + 1 = Len(r)
        <4>1. t \in Seq(Reply) /\ Len(t) = Len(r) - 1
          BY <1>0, <1>1, QueueTake
        <4> HIDE DEF t
        <4> QED BY <1>1, <4>1
      <3>1. \A i \in 1..Len(r) : r[i].req.kind = "detail"
        <4>1. ASSUME NEW i \in 1..Len(r), i # 1 PROVE r[i].req.kind = "detail"
          <5>1. i - 1 \in 1..Len(Tail(r)) /\ i - 1 + 1 = i
            BY <1>1, <1>2, <4>1
          <5> QED BY <1>2, <5>1
        <4> QED BY <1>2, <2>1, <4>1
      <3>2. r[Len(r)].snap[screen[p]] = db[screen[p]]
        BY <1>0, <3>1 DEF Calm, DetailCurrent
      <3>5. \A i \in 1..Len(t) : t[i] = r[i + 1]
        BY <1>2
      <3> HIDE DEF t
      <3>3. CASE t = <<>>
        <4>1. Len(r) = 1
          <5>1. Len(<<>>) = 0
            OBVIOUS
          <5> QED BY <1>1, <3>0, <3>3, <5>1
        <4>2. a.snap[screen[p]] = db[screen[p]] /\ a.req.match = screen[p] /\ db[screen[p]].info
          BY <1>2, <1>5, <3>2, <4>1
        <4>3. Exists(a.snap[a.req.match])
          BY <4>2 DEF Exists, EmptyNode
        <4> QED BY <2>1, <3>3, <4>2, <4>3 DEF t
      <3>4. CASE t # <<>>
        <4>1. 1 \in 1..Len(t)
          BY <3>0, <3>4, QueueTake
        <4>2. Len(t) \in 1..Len(t)
          BY <3>0, <4>1
        <4>3. t[Len(t)] = r[Len(r)]
          BY <3>0, <3>5, <4>2
        <4> QED BY <3>2, <3>4, <4>3 DEF t
      <3> QED BY <3>3, <3>4
    <2> QED BY <1>quiet, <2>1, <2>2
  <1>sent. ASSUME NEW x \in Request, requests'[p] = Append(q, x), x.kind # "place",
                  \A k \in 2..Pending(q, r) : ~Clash(x, Item(q, r, k)),
                  x.kind \in DetailCalls => x.match \in Matches /\ db[x.match].info,
                  screen'[p] \in Matches => screen'[p] = screen[p] /\ x.kind \in DetailCalls /\ x.match = screen[p],
                  a.req.kind = "leave" => x.kind = "area" /\ x.match = a.req.match /\ x.user = a.req.user,
                  a.req.kind = "area" =>
                     \A s \in Slots : a.snap[a.req.match].Positions[s] = a.req.user =>
                        x.kind = "areaRemove" /\ x.match = a.req.match /\ x.slot = s
           PROVE  Calm(p)'
    <2> DEFINE new == {x}
    <2>1. /\ \A y \in new : \A k \in 2..Pending(requests[p], replies[p]) :
                ~Clash(y, Item(requests[p], replies[p], k))
          /\ \A y \in new : y.kind # "place"
          /\ \A y \in new : y.kind \in DetailCalls => y.match \in Matches /\ db[y.match].info
          /\ screen'[p] \in Matches =>
                screen'[p] = screen[p] /\ \A y \in new : y.kind \in DetailCalls /\ y.match = screen[p]
      BY <1>sent
    <2>2. /\ a.req.kind = "leave" =>
                 \E y \in new : y.kind = "area" /\ y.match = a.req.match /\ y.user = a.req.user
          /\ a.req.kind = "area" =>
                 \A s \in Slots : a.snap[a.req.match].Positions[s] = a.req.user =>
                    \E y \in new : y.kind = "areaRemove" /\ y.match = a.req.match /\ y.slot = s
      BY <1>sent
    <2>3. \E y \in Request : requests'[p] = Append(requests[p], y) /\ new = {y}
      BY <1>sent
    <2>4. DetailCurrent(p)'
      BY <1>6, <1>7, <1>sent
    <2> HIDE DEF new
    <2> QED BY <1>0, <2>1, <2>2, <2>3, <2>4, CalmTake DEF a
  <1>reload. CASE ReloadStep(p)
    <2>1. /\ a.req.kind \in {"join", "area", "areaRemove", "delete", "create"}
          /\ a.req.kind = "area" => \A s \in Slots : a.snap[a.req.match].Positions[s] # a.req.user
          /\ screen'[p] \in {screen[p], "list"}
      BY Zenon, <1>reload DEF ReloadStep, a
    <2>2. PICK x \in Request : x.kind = "list" /\ requests'[p] = Append(q, x)
      BY Zenon, <1>reload DEF ReloadStep
    <2>3. screen'[p] \notin Matches
      BY <1>1, <1>5, <2>1 DEF DetailCalls
    <2>4. x.kind \notin DetailCalls /\ \A y : ~Clash(x, y)
      BY <2>2 DEF Clash, Covered, ListCalls, DetailCalls
    <2> QED BY <1>sent, <2>1, <2>2, <2>3, <2>4
  <1>chain. CASE ChainStep(p)
    <2>1. PICK x \in Request :
             /\ requests'[p] = Append(q, x) /\ x.match = a.req.match
             /\ \/ a.req.kind = "roster" /\ x.kind = "join"
                \/ a.req.kind = "leave" /\ x.kind = "area" /\ x.user = a.req.user
                \/ /\ a.req.kind = "area" /\ x.kind = "areaRemove"
                   /\ a.snap[a.req.match].Positions[x.slot] = a.req.user
      BY Zenon, <1>chain DEF ChainStep, a
    <2>2. screen'[p] = screen[p]
      BY Zenon, <1>chain DEF ChainStep
    <2>3. screen'[p] \notin Matches /\ x.kind \notin DetailCalls
      BY <1>5, <2>1, <2>2 DEF DetailCalls
    <2>4. \A k \in 2..Pending(q, r) : ~Clash(x, Item(q, r, k))
      <3>1. x.kind \in ListCalls /\ a.req.kind \in ListCalls
        BY <2>1 DEF ListCalls
      <3>2. \A y : Clash(x, y) => Clash(a.req, y)
        BY <3>1 DEF Clash, Covered
      <3> QED BY <1>4, <3>2
    <2>5. ASSUME a.req.kind = "area", NEW s \in Slots, a.snap[a.req.match].Positions[s] = a.req.user
          PROVE  x.kind = "areaRemove" /\ x.match = a.req.match /\ x.slot = s
      <3>1. /\ x.kind = "areaRemove" /\ x.match = a.req.match
            /\ a.snap[a.req.match].Positions[x.slot] = a.req.user
        BY SMTT(30), <2>1, <2>5
      <3>2. a.snap[a.req.match].Positions = db[a.req.match].Positions
        BY <1>0, <1>2, <2>5 DEF Calm, AreaCurrent
      <3>3. x.slot \in Slots /\ a.req.match \in Matches /\ a.req.user \in Users
        BY <1>1, <2>5, <3>1 DEF Request
      <3>4. db[a.req.match].Positions[s] = db[a.req.match].Positions[x.slot]
            /\ db[a.req.match].Positions[s] # None
        BY <2>5, <3>1, <3>2, <3>3, NoneIsNew
      <3>5. s = x.slot
        BY <1>0, <3>3, <3>4 DEF Calm, OnePlaceEach
      <3> QED BY <3>1, <3>5
    <2>6. x.kind # "place" /\ (a.req.kind = "leave" => x.kind = "area" /\ x.user = a.req.user)
      BY <2>1
    <2> QED BY <1>sent, <2>1, <2>3, <2>4, <2>5, <2>6
  <1>show. CASE ShowStep(p)
    <2>1. a.req.kind \in {"place", "vacate", "plan", "comment"} /\ screen'[p] = screen[p]
      BY <1>show DEF ShowStep, a
    <2>2. PICK x \in Request : /\ requests'[p] = Append(q, x)
                               /\ x.kind = "detail" /\ x.match = a.req.match
      BY <1>show DEF ShowStep, a
    <2>3. \A k \in 2..Pending(q, r) : ~Clash(x, Item(q, r, k))
      <3>1. \A y : Clash(x, y) => Clash(a.req, y)
        BY <2>1, <2>2 DEF Clash, Covered, ListCalls, DetailCalls
      <3> QED BY <1>4, <3>1
    <2>4. x.match \in Matches /\ db[x.match].info /\ x.kind \in DetailCalls
      BY <1>5, <2>1, <2>2 DEF DetailCalls, Request
    <2> QED BY <1>5, <1>sent, <2>1, <2>2, <2>3, <2>4
  <1> QED BY <1>listed, <1>shown, <1>reload, <1>chain, <1>show

(* The oldest request becomes the newest answer.                               *)
LEMMA ServedQueues ==
    ASSUME TypeOK, NEW p \in Devices, NoClash(p), NEW snap \in Store, Serves(p, snap),
           NEW a, a = [req |-> Head(requests[p]), ok |-> TRUE, snap |-> snap]
    PROVE  /\ app[p] = "on" /\ app'[p] = "on" /\ a \in Reply
           /\ Head(requests[p]) \in Request /\ 1 \in 1..Len(requests[p]) /\ requests[p][1] = Head(requests[p])
           /\ Len(requests[p]) \in Nat /\ Len(replies[p]) \in Nat
           /\ \A i \in 1..Len(requests'[p]) :
                 i + 1 \in 1..Len(requests[p]) /\ requests'[p][i] = requests[p][i + 1]
           /\ \A i \in 1..Len(requests[p]) : i # 1 =>
                 \E j \in 1..Len(requests'[p]) : requests'[p][j] = requests[p][i]
           /\ \A i \in 1..Len(replies[p]) :
                 \E j \in 1..Len(replies'[p]) : replies'[p][j] = replies[p][i]
           /\ \A i \in 1..Len(replies'[p]) :
                 (i \in 1..Len(replies[p]) /\ replies'[p][i] = replies[p][i]) \/ replies'[p][i] = a
           /\ Len(replies'[p]) \in 1..Len(replies'[p]) /\ replies'[p][Len(replies'[p])] = a
           /\ replies'[p] # <<>>
  <1>1. app[p] = "on"
    BY DEF Serves, NoClash
  <1>2. /\ requests[p] # <<>> /\ requests'[p] = Tail(requests[p]) /\ replies'[p] = Append(replies[p], a)
        /\ app' = app
    BY <1>1 DEF Serves
  <1>3. requests[p] \in Seq(Request) /\ replies[p] \in Seq(Reply) /\ a \in Reply /\ Head(requests[p]) \in Request
    BY PhoneTypes, ServedReply
  <1>4. Len(requests[p]) \in Nat /\ Len(replies[p]) \in Nat
    BY <1>3
  <1>5. /\ 1 \in 1..Len(requests[p]) /\ requests[p][1] = Head(requests[p])
        /\ Len(requests'[p]) = Len(requests[p]) - 1
        /\ \A i \in 1..Len(requests'[p]) :
              i + 1 \in 1..Len(requests[p]) /\ requests'[p][i] = requests[p][i + 1]
    BY <1>2, <1>3, QueueTake
  <1>6. ASSUME NEW i \in 1..Len(requests[p]), i # 1
        PROVE  \E j \in 1..Len(requests'[p]) : requests'[p][j] = requests[p][i]
    <2>1. i - 1 \in 1..Len(requests'[p]) /\ i - 1 + 1 = i
      BY <1>4, <1>5, <1>6
    <2> QED BY <1>5, <2>1
  <1>7. /\ Len(replies'[p]) = Len(replies[p]) + 1 /\ replies'[p][Len(replies[p]) + 1] = a
        /\ \A i \in 1..Len(replies'[p]) :
              \/ i \in 1..Len(replies[p]) /\ replies'[p][i] = replies[p][i]
              \/ i = Len(replies[p]) + 1 /\ replies'[p][i] = a
    BY <1>2, <1>3, QueueAdd
  <1>8. /\ Len(replies'[p]) \in 1..Len(replies'[p]) /\ Len(replies'[p]) # 0
        /\ \A i \in 1..Len(replies[p]) : i \in 1..Len(replies'[p]) /\ i # Len(replies[p]) + 1
    BY <1>4, <1>7
  <1>9. \A i \in 1..Len(replies[p]) : \E j \in 1..Len(replies'[p]) : replies'[p][j] = replies[p][i]
    BY <1>7, <1>8
  <1>10. replies'[p] # <<>>
    <2>1. Len(<<>>) = 0
      OBVIOUS
    <2> QED BY <1>8, <2>1
  <1> QED BY <1>1, <1>2, <1>3, <1>4, <1>5, <1>6, <1>7, <1>8, <1>9, <1>10

(* What the chain of leaveMatches still has to do, when a request is served.    *)
LEMMA LeavingServed ==
    ASSUME TypeOK, NEW p \in Devices, NoClash(p), NEW snap \in Store, Serves(p, snap),
           NEW m \in Matches, NEW s \in Slots, db'[m].Positions[s] = db[m].Positions[s],
           Leaving(p, m, s),
           LET x == Head(requests[p]) IN
           /\ ~(x.kind = "areaRemove" /\ x.match = m /\ x.slot = s)
           /\ x.kind = "area" /\ x.match = m => snap[m].Positions[s] = db[m].Positions[s]
    PROVE  Leaving(p, m, s)'
  <1> DEFINE x == Head(requests[p])
             a == [req |-> x, ok |-> TRUE, snap |-> snap]
             u == db[m].Positions[s]
  <1>0. a.req = x /\ a.snap = snap
    OBVIOUS
  <1> HIDE DEF a
  <1>1. /\ requests[p][1] = x
        /\ \A i \in 1..Len(requests[p]) : i # 1 =>
              \E j \in 1..Len(requests'[p]) : requests'[p][j] = requests[p][i]
        /\ \A i \in 1..Len(replies[p]) :
              \E j \in 1..Len(replies'[p]) : replies'[p][j] = replies[p][i]
        /\ Len(replies'[p]) \in 1..Len(replies'[p]) /\ replies'[p][Len(replies'[p])] = a
    <2>1. a = [req |-> Head(requests[p]), ok |-> TRUE, snap |-> snap]
      BY DEF a
    <2> QED BY SMTT(30), <2>1, ServedQueues
  <1>2. ASSUME NEW i \in 1..Len(replies[p]), Finds(replies[p][i], m, s, u)
        PROVE  Leaving(p, m, s)'
    <2>1. PICK j \in 1..Len(replies'[p]) : replies'[p][j] = replies[p][i]
      BY <1>1
    <2> QED BY <1>2, <2>1 DEF Leaving
  <1>3. ASSUME NEW i \in 1..Len(requests[p]), i # 1, Clears(requests[p][i], m, s, u)
        PROVE  Leaving(p, m, s)'
    <2>1. PICK j \in 1..Len(requests'[p]) : requests'[p][j] = requests[p][i]
      BY <1>1, <1>3
    <2> QED BY <1>3, <2>1 DEF Leaving
  <1>4. CASE Clears(x, m, s, u)
    <2>1. Finds(a, m, s, u)
      BY <1>0, <1>4 DEF Finds, Clears
    <2> QED BY <1>1, <2>1 DEF Leaving
  <1> HIDE DEF u, x
  <1>5. \/ \E i \in 1..Len(replies[p]) : Finds(replies[p][i], m, s, u)
        \/ \E i \in 1..Len(requests[p]) : Clears(requests[p][i], m, s, u)
    BY DEF Leaving, u
  <1> QED BY <1>1, <1>2, <1>3, <1>4, <1>5

(* A read is served.                                                           *)
LEMMA CalmRead ==
    ASSUME TypeOK, TypeOK', NEW p \in Devices, Calm(p), ReadStep(p)
    PROVE  Calm(p)'
  <1> DEFINE x == Head(requests[p])
             a == [req |-> x, ok |-> TRUE, snap |-> Snapshot(db, x)]
  <1>0. /\ Serves(p, Snapshot(db, x)) /\ x.kind \in ReadKinds /\ db' = db /\ screen' = screen
        /\ NoClash(p) /\ DetailThere(p)
    BY DEF ReadStep, Serves, Calm
  <1>1. x \in Request /\ Snapshot(db, x) \in Store
    BY <1>0, PhoneTypes, QueueTake, SnapshotType DEF Serves
  <1>2. /\ app[p] = "on" /\ app'[p] = "on"
        /\ \A i \in 1..Len(requests'[p]) :
              i + 1 \in 1..Len(requests[p]) /\ requests'[p][i] = requests[p][i + 1]
        /\ \A i \in 1..Len(replies'[p]) :
              (i \in 1..Len(replies[p]) /\ replies'[p][i] = replies[p][i]) \/ replies'[p][i] = a
        /\ Len(replies'[p]) \in 1..Len(replies'[p]) /\ replies'[p][Len(replies'[p])] = a
        /\ replies'[p] # <<>>
    BY <1>0, <1>1, ServedQueues
  <1>3. /\ Moves(p, 0, {}) /\ Len(replies[p]) + 1 \in 1..Pending(requests[p], replies[p])
        /\ Item(requests[p], replies[p], Len(replies[p]) + 1) = x
    BY <1>0, <1>1, <1>2, MovesServe
  <1>4. NoClash(p)' /\ DetailThere(p)'
    <2>1. \A m \in Matches : db[m].info => db'[m].info
      BY <1>0
    <2>2. NoClash(p)'
      BY <1>0, <1>2, <1>3, MovesNoClash
    <2>3. DetailThere(p)'
      BY <1>0, <1>3, <2>1, MovesThere
    <2> QED BY <2>2, <2>3
  <1>5. \A m \in Matches : m = x.match /\ x.kind \in {"area", "detail"} => a.snap[m] = db[m]
    BY DEF Snapshot
  <1>6. a.req = x
    OBVIOUS
  <1> HIDE DEF a
  <1>7. DetailCurrent(p)'
    <2> SUFFICES ASSUME screen[p] \in Matches, \A i \in 1..Len(replies'[p]) : replies'[p][i].req.kind = "detail"
                 PROVE  replies'[p][Len(replies'[p])].snap[screen[p]] = db[screen[p]]
      BY <1>0, <1>2 DEF DetailCurrent
    <2>1. x.kind = "detail"
      BY <1>2, <1>6
    <2>2. x.match = screen[p]
      BY <1>0, <1>3 DEF DetailThere
    <2> QED BY <1>2, <1>5, <2>1, <2>2
  <1>8. PlaceReady(p)' /\ OnePlaceEach'
    <2>1. PlaceReady(p) /\ OnePlaceEach
      BY DEF Calm
    <2> QED BY <1>0, <1>2, <2>1 DEF PlaceReady, OnePlaceEach
  <1>9. AreaCurrent(p)'
    <2> SUFFICES ASSUME NEW i \in 1..Len(replies'[p]), replies'[p][i].req.kind = "area"
                 PROVE  LET b == replies'[p][i] IN b.snap[b.req.match].Positions = db[b.req.match].Positions
      BY <1>0 DEF AreaCurrent
    <2>1. CASE replies'[p][i] = a
      BY <1>1, <1>5, <1>6, <2>1 DEF Request
    <2>2. CASE i \in 1..Len(replies[p]) /\ replies'[p][i] = replies[p][i]
      BY <2>2 DEF Calm, AreaCurrent
    <2> QED BY <1>2, <2>1, <2>2
  <1>10. PitchInSquad(p)'
    <2>1. ASSUME NEW m \in Matches, NEW s \in Slots, Leaving(p, m, s) PROVE Leaving(p, m, s)'
      <3>1. /\ x.kind # "areaRemove"
            /\ x.kind = "area" /\ x.match = m => Snapshot(db, x)[m].Positions[s] = db[m].Positions[s]
        BY <1>0, <1>5 DEF ReadKinds, a
      <3> QED BY <1>0, <1>1, <2>1, <3>1, LeavingServed
    <2> QED BY <1>0, <2>1 DEF Calm, PitchInSquad
  <1> QED BY <1>4, <1>7, <1>8, <1>9, <1>10 DEF Calm

(* A write is served. What waits for it to be answered is about other matches, *)
(* or about other parts of its match.                                          *)
LEMMA CalmWrite ==
    ASSUME TypeOK, TypeOK', GhostInv, NEW p \in Devices, Births(p), Calm(p), WriteStep(p)
    PROVE  Calm(p)'
  <1> DEFINE x == Head(requests[p])
             a == [req |-> x, ok |-> TRUE, snap |-> EmptyStore]
             I(i) == Item(requests[p], replies[p], i)
             n == Pending(requests[p], replies[p])
             k == Len(replies[p]) + 1
  <1>0. /\ Serves(p, EmptyStore) /\ x.kind \in WriteKinds /\ screen' = screen
        /\ NoClash(p) /\ DetailThere(p) /\ EmptyStore \in Store
    BY EmptyStoreType DEF WriteStep, Serves, Calm
  <1>1. /\ x \in Request /\ x.match \in Matches
        /\ \A m \in Matches : m # x.match => db'[m] = db[m]
        /\ db'[x.match] = Rewritten(db[x.match], x)
    BY WriteAlone
  <1>2. /\ app[p] = "on" /\ app'[p] = "on"
        /\ 1 \in 1..Len(requests[p]) /\ requests[p][1] = x
        /\ Len(requests[p]) \in Nat /\ Len(replies[p]) \in Nat
        /\ \A i \in 1..Len(requests'[p]) :
              i + 1 \in 1..Len(requests[p]) /\ requests'[p][i] = requests[p][i + 1]
        /\ \A i \in 1..Len(replies'[p]) :
              (i \in 1..Len(replies[p]) /\ replies'[p][i] = replies[p][i]) \/ replies'[p][i] = a
        /\ Len(replies'[p]) \in 1..Len(replies'[p]) /\ replies'[p][Len(replies'[p])] = a
        /\ replies'[p] # <<>>
    BY <1>0, ServedQueues
  <1>3. Moves(p, 0, {}) /\ k \in 1..n /\ I(k) = x
    BY <1>0, <1>2, MovesServe
  <1>4. a.req = x
    OBVIOUS
  <1>5. db[x.match] \in Node
    BY <1>1, PhoneTypes DEF Store
  <1>6. x.kind = "create" => x.match \notin Known
    BY SMTT(30), <1>2 DEF Births
  <1>parts. LET o == db[x.match] w == db'[x.match] IN
            /\ x.kind \notin {"create", "delete"} => w.info = o.info
            /\ x.kind \notin {"join", "leave", "create", "delete"} => w.players = o.players
            /\ x.kind \notin {"place", "vacate", "areaRemove", "create", "delete"} => w.Positions = o.Positions
            /\ x.kind = "join" => w.players = o.players \cup {x.user}
            /\ x.kind = "leave" => w.players = o.players \ {x.user}
            /\ x.kind = "place" => w.Positions = [o.Positions EXCEPT ![x.slot] = x.user]
            /\ x.kind \in {"vacate", "areaRemove"} => w.Positions = [o.Positions EXCEPT ![x.slot] = None]
            /\ x.kind = "create" => w.info
            /\ x.kind \in {"create", "delete"} => \A s \in Slots : w.Positions[s] = None
    <2> DEFINE y == x
               o == db[x.match]
               w == db'[x.match]
    <2>1. y \in Request /\ o \in Node /\ w = Rewritten(o, y)
      BY <1>1, <1>5
    <2> HIDE DEF y, o, w
    <2>2. /\ y.kind \notin {"create", "delete"} => w.info = o.info
          /\ y.kind \notin {"join", "leave", "create", "delete"} => w.players = o.players
          /\ y.kind \notin {"place", "vacate", "areaRemove", "create", "delete"} => w.Positions = o.Positions
          /\ y.kind = "join" => w.players = o.players \cup {y.user}
          /\ y.kind = "leave" => w.players = o.players \ {y.user}
          /\ y.kind = "place" => w.Positions = [o.Positions EXCEPT ![y.slot] = y.user]
          /\ y.kind \in {"vacate", "areaRemove"} => w.Positions = [o.Positions EXCEPT ![y.slot] = None]
          /\ y.kind = "create" => w.info
          /\ y.kind \in {"create", "delete"} => \A s \in Slots : w.Positions[s] = None
      BY <2>1, RewrittenParts
    <2> QED BY <2>2 DEF y, o, w
  <1>7. \A i \in 1..n : i # k => ~Clash(x, I(i))
    BY <1>0, <1>3 DEF NoClash
  <1>8. /\ \A i \in 1..Len(replies[p]) : i \in 1..n /\ I(i) = replies[p][i].req /\ i # k
        /\ \A i \in 1..Len(requests[p]) :
              Len(replies[p]) + i \in 1..n /\ I(Len(replies[p]) + i) = requests[p][i]
    <2>1. requests[p] \in Seq(Request) /\ replies[p] \in Seq(Reply)
      BY PhoneTypes
    <2>2. \A i \in 1..Len(replies[p]) : i # k
      BY <1>2
    <2> QED BY <2>1, <2>2, ItemType
  <1> HIDE DEF a, I, n
  <1>9. NoClash(p)'
    BY <1>0, <1>2, <1>3, MovesNoClash
  <1>10. DetailThere(p)'
    <2>1. CASE x.kind = "delete"
      <3>1. \A i \in 1..n : I(i).kind \notin DetailCalls
        <4>1. x.kind \in ListCalls /\ x.kind \notin DetailCalls
          BY <2>1 DEF ListCalls, DetailCalls
        <4> QED BY <1>3, <1>7, <4>1 DEF Clash
      <3>2. screen[p] \notin Matches
        BY <1>0, <1>3, <3>1 DEF DetailThere, n, I
      <3>3. \A i \in 1..Pending(requests'[p], replies'[p]) :
               Item(requests'[p], replies'[p], i).kind \notin DetailCalls
        BY <1>3, <3>1 DEF Moves, I, n
      <3> QED BY <1>0, <3>2, <3>3 DEF DetailThere
    <2>2. CASE x.kind # "delete"
      <3>1. \A m \in Matches : db[m].info => db'[m].info
        BY <1>1, <1>parts, <2>2
      <3> QED BY SMTT(30), <1>0, <1>3, <3>1, MovesThere
    <2> QED BY <2>1, <2>2
  <1>11. DetailCurrent(p)'
    <2>1. replies'[p][Len(replies'[p])].req.kind # "detail"
      BY <1>0, <1>2, <1>4 DEF WriteKinds
    <2> QED BY <1>2, <2>1 DEF DetailCurrent
  <1>12. PlaceReady(p)'
    <2> SUFFICES ASSUME NEW i \in 1..Len(requests'[p]), requests'[p][i].kind = "place"
                 PROVE  LET r == requests'[p][i] IN
                        /\ r.user \in db'[r.match].players
                        /\ \A s \in Slots : db'[r.match].Positions[s] # r.user
      BY DEF PlaceReady
    <2> DEFINE r == requests'[p][i]
    <2>1. i + 1 \in 1..Len(requests[p]) /\ r = requests[p][i + 1]
      BY <1>2
    <2>2. Len(replies[p]) + (i + 1) \in 1..n /\ I(Len(replies[p]) + (i + 1)) = r
      BY <1>8, <2>1
    <2>3. Len(replies[p]) + (i + 1) # k
      <3>1. i \in Nat /\ i # 0 /\ Len(replies[p]) \in Nat
        BY <1>2
      <3> HIDE DEF r
      <3> QED BY <3>1
    <2>4. ~Clash(x, r)
      BY <1>7, <2>2, <2>3
    <2>5. x.kind \in {"plan", "create"}
      BY <1>0, <2>4 DEF Clash, Covered, ListCalls, WriteKinds
    <2>6. r.match \in Matches /\ db[r.match].info
      <3>1. r \in Request
        BY <2>1, PhoneTypes
      <3> HIDE DEF r
      <3>2. r.kind \in DetailCalls /\ r.match \in Matches
        BY <3>1 DEF DetailCalls, Request, r
      <3> QED BY <1>0, <2>2, <3>2 DEF DetailThere, I, n
    <2>7. r.user \in db[r.match].players /\ \A s \in Slots : db[r.match].Positions[s] # r.user
      BY <2>1 DEF Calm, PlaceReady
    <2>8. db'[r.match].players = db[r.match].players /\ db'[r.match].Positions = db[r.match].Positions
      <3>1. CASE r.match # x.match
        BY <1>1, <2>6, <3>1
      <3>2. CASE r.match = x.match
        <4>1. x.kind = "plan"
          BY <1>6, <2>5, <2>6, <3>2 DEF Known
        <4> QED BY <1>parts, <3>2, <4>1
      <3> QED BY <3>1, <3>2
    <2> QED BY <2>7, <2>8
  <1>13. AreaCurrent(p)'
    <2> SUFFICES ASSUME NEW i \in 1..Len(replies'[p]), replies'[p][i].req.kind = "area"
                 PROVE  LET b == replies'[p][i] IN b.snap[b.req.match].Positions = db'[b.req.match].Positions
      BY DEF AreaCurrent
    <2> DEFINE b == replies[p][i]
    <2>1. replies'[p][i] # a
      BY <1>0, <1>4 DEF WriteKinds
    <2>2. i \in 1..Len(replies[p]) /\ replies'[p][i] = b
      BY <1>2, <2>1
    <2>3. ~Clash(x, b.req) /\ b.req.kind = "area"
      BY <1>7, <1>8, <2>2
    <2>4. x.kind = "create"
      BY <1>0, <2>3 DEF Clash, Covered, ListCalls, DetailCalls, WriteKinds
    <2>5. b.req.match \in Known
      <3>1. replies[p] \in Seq(KnownReplies)
        BY DEF GhostInv, KnownPhones
      <3>2. b \in KnownReplies
        BY <2>2, <3>1
      <3> HIDE DEF b
      <3> QED BY <2>3, <3>2 DEF KnownReplies, KnownRequests
    <2>6. b.req.match # x.match /\ b.req.match \in Matches
      BY <1>6, <2>4, <2>5 DEF Known
    <2>7. b.snap[b.req.match].Positions = db[b.req.match].Positions
      BY <2>2, <2>3 DEF Calm, AreaCurrent
    <2> QED BY <1>1, <2>2, <2>6, <2>7
  <1> DEFINE m0 == x.match
             P == db[m0].Positions
  <1>elsewhere. \A m \in Matches : m # m0 =>
                   db'[m].Positions = db[m].Positions /\ db'[m].players = db[m].players
    BY <1>1
  <1>slots. /\ P \in [Slots -> Users \cup {None}]
            /\ x.kind \in {"place", "vacate", "areaRemove"} => x.slot \in Slots
    BY <1>1, <1>5 DEF Node, Request
  <1>kept. x.kind \in {"join", "leave", "plan", "comment"} => db'[m0].Positions = P
    BY <1>parts
  <1>placed. x.kind = "place" => db'[m0].Positions = [P EXCEPT ![x.slot] = x.user]
    BY <1>parts
  <1>freed. x.kind \in {"vacate", "areaRemove"} => db'[m0].Positions = [P EXCEPT ![x.slot] = None]
    BY <1>parts
  <1>emptied. x.kind \in {"create", "delete"} => \A s \in Slots : db'[m0].Positions[s] = None
    BY <1>parts
  <1>left. x.kind = "leave" => db'[m0].players = db[m0].players \ {x.user}
    BY <1>parts
  <1>stayed. x.kind \in {"join", "place", "vacate", "areaRemove", "plan", "comment"} =>
                db[m0].players \subseteq db'[m0].players
    BY <1>parts
  <1>15. x.kind = "place" => x.user \in db[m0].players /\ \A s \in Slots : P[s] # x.user
    BY <1>2 DEF Calm, PlaceReady
  <1>16. x.kind \in {"join", "leave", "plan", "comment", "place", "vacate", "areaRemove", "create", "delete"}
    BY <1>0 DEF WriteKinds
  <1>17. OnePlaceEach'
    <2> SUFFICES ASSUME NEW m \in Matches, NEW s \in Slots, NEW t \in Slots,
                        db'[m].Positions[s] = db'[m].Positions[t], s # t
                 PROVE  db'[m].Positions[s] = None
      BY DEF OnePlaceEach
    <2>1. db[m].Positions[s] = db[m].Positions[t] => db[m].Positions[s] = None
      BY DEF Calm, OnePlaceEach
    <2>2. CASE m # m0
      BY <1>elsewhere, <2>1, <2>2
    <2>3. CASE m = m0 /\ x.kind \in {"join", "leave", "plan", "comment"}
      BY <1>kept, <2>1, <2>3
    <2>4. CASE m = m0 /\ x.kind = "place"
      BY <1>slots, <1>placed, <1>15, <2>1, <2>4
    <2>5. CASE m = m0 /\ x.kind \in {"vacate", "areaRemove"}
      BY <1>slots, <1>freed, <2>1, <2>5
    <2>6. CASE m = m0 /\ x.kind \in {"create", "delete"}
      BY <1>emptied, <2>6
    <2> QED BY <1>16, <2>2, <2>3, <2>4, <2>5, <2>6
  <1>18. PitchInSquad(p)'
    <2> SUFFICES ASSUME NEW m \in Matches, NEW s \in Slots
                 PROVE  db'[m].Positions[s] \in db'[m].players \cup {None} \/ Leaving(p, m, s)'
      BY DEF PitchInSquad
    <2>1. db[m].Positions[s] \in db[m].players \cup {None} \/ Leaving(p, m, s)
      BY DEF Calm, PitchInSquad
    <2>2. ASSUME db'[m].Positions[s] = db[m].Positions[s], Leaving(p, m, s),
                 ~(x.kind = "areaRemove" /\ m = m0 /\ x.slot = s)
          PROVE  Leaving(p, m, s)'
      <3>1. x.kind # "area"
        BY <1>16
      <3> QED BY <1>0, <2>2, <3>1, LeavingServed
    <2>3. CASE m # m0
      BY <1>elsewhere, <2>1, <2>2, <2>3
    <2>4. CASE m = m0 /\ x.kind \in {"join", "plan", "comment"}
      BY <1>kept, <1>stayed, <2>1, <2>2, <2>4
    <2>5. CASE m = m0 /\ x.kind = "leave"
      <3>1. CASE db[m].Positions[s] = x.user
        <4>1. Finds(a, m, s, db'[m].Positions[s])
          BY <1>4, <1>kept, <2>5, <3>1 DEF Finds
        <4> QED BY <1>2, <4>1 DEF Leaving
      <3>2. CASE db[m].Positions[s] # x.user
        BY <1>kept, <1>left, <2>1, <2>2, <2>5, <3>2
      <3> QED BY <3>1, <3>2
    <2>6. CASE m = m0 /\ x.kind = "place" /\ x.slot = s
      BY <1>slots, <1>placed, <1>stayed, <1>15, <2>6
    <2>7. CASE m = m0 /\ x.kind \in {"vacate", "areaRemove"} /\ x.slot = s
      BY <1>slots, <1>freed, <2>7
    <2>8. CASE m = m0 /\ x.kind \in {"place", "vacate", "areaRemove"} /\ x.slot # s
      <3>1. db'[m].Positions[s] = db[m].Positions[s]
        BY <1>slots, <1>placed, <1>freed, <2>8
      <3> QED BY <1>stayed, <2>1, <2>2, <2>8, <3>1
    <2>9. CASE m = m0 /\ x.kind \in {"create", "delete"}
      BY <1>emptied, <2>9
    <2> QED BY <1>16, <2>3, <2>4, <2>5, <2>6, <2>7, <2>8, <2>9
  <1> QED BY <1>9, <1>10, <1>11, <1>12, <1>13, <1>17, <1>18 DEF Calm

LEMMA CalmStep ==
    ASSUME TypeOK, TypeOK', GhostInv, NEW p \in Devices, Plain(p), Births(p), ListCurrent(p),
           slipped = {} => Calm(p), AloneStep(p)
    PROVE  slipped' = {} => Calm(p)'
  <1> SUFFICES ASSUME slipped' = {} PROVE Calm(p)'
    OBVIOUS
  <1>1. CASE ReadStep(p) \/ WriteStep(p)
    <2>1. Calm(p)
      BY <1>1 DEF ReadStep, WriteStep, Serves
    <2> QED BY <1>1, <2>1, CalmRead, CalmWrite
  <1> QED BY <1>1, CalmUser, CalmCallback DEF AloneStep

LEMMA AloneInit ==
    ASSUME TypeOK, NEW p \in Devices, Init
    PROVE  Plain(p) /\ Births(p) /\ AnswersCurrent(p) /\ ListCurrent(p) /\ Calm(p)
  <1>0. /\ requests[p] = <<>> /\ replies[p] = <<>> /\ Len(<<>>) = 0
        /\ app[p] = "off" /\ screen[p] = "list" /\ vm[p] = NewViewModel
        /\ "list" \notin Matches
    BY ScreensAreNew DEF Init
  <1>1. Idle(p)
    BY <1>0 DEF Idle
  <1>2. Plain(p)
    <2>1. /\ NewViewModel.matchsModelList = <<>> /\ NewViewModel.selectedMatch = EmptyModel
          /\ NewViewModel.unselectedPlayer = {}
      BY DEF NewViewModel
    <2>2. Unselected(EmptyModel) = {}
      BY DEF Unselected, EmptyModel, Parsed, EmptyNode
    <2> QED BY <1>0, <2>1, <2>2 DEF Plain
  <1>3. Births(p)
    <2>1. \A m \in Matches \ minted : m \notin Known
      BY DEF Init, Known, EmptyNode
    <2> QED BY <1>0, <2>1 DEF Births
  <1>4. AnswersCurrent(p) /\ ListCurrent(p)
    BY <1>0 DEF AnswersCurrent, ListCurrent, NewViewModel
  <1>5. Pending(requests[p], replies[p]) = 0
    BY <1>1, NothingPending
  <1>6. NoClash(p) /\ DetailThere(p) /\ DetailCurrent(p) /\ PlaceReady(p) /\ AreaCurrent(p)
    BY <1>0, <1>5 DEF NoClash, DetailThere, DetailCurrent, PlaceReady, AreaCurrent
  <1>7. \A m \in Matches, s \in Slots : db[m].Positions[s] = None
    BY DEF Init, CreatedNode, EmptyNode
  <1>8. OnePlaceEach /\ PitchInSquad(p)
    BY <1>7 DEF OnePlaceEach, PitchInSquad
  <1> QED BY <1>2, <1>3, <1>4, <1>6, <1>8 DEF Calm

LEMMA AloneNext ==
    ASSUME NEW p, Devices = {p}, Faults = {}, AloneInv(p), [Next]_vars
    PROVE  AloneInv(p)'
  <1>0. /\ p \in Devices /\ TypeOK /\ GhostInv /\ Plain(p) /\ Births(p) /\ AnswersCurrent(p) /\ ListCurrent(p)
        /\ slipped = {} => Calm(p)
    BY DEF AloneInv
  <1>1. TypeOK' /\ GhostInv'
    BY <1>0, TypeStep, GhostStep
  <1>2. AloneStep(p)
    BY <1>0, NextAlone
  <1>3. Plain(p)' /\ Births(p)' /\ AnswersCurrent(p)' /\ ListCurrent(p)'
    BY <1>0, <1>2, PlainStep, BirthsStep, AnswersStep, ListCurrentStep
  <1>4. slipped' = {} => Calm(p)'
    BY <1>0, <1>1, <1>2, CalmStep
  <1> QED BY <1>1, <1>3, <1>4 DEF AloneInv

(* What the invariant says of the pitch and of the screens.                    *)
LEMMA AloneMeans ==
    ASSUME NEW p, Devices = {p}, AloneInv(p)
    PROVE  PitchAgrees /\ DetailFreshWhenIdle /\ ListFreshWhenIdle
  <1>0. /\ p \in Devices /\ TypeOK /\ Plain(p) /\ ListCurrent(p)
        /\ slipped = {} => Calm(p)
        /\ slipped \subseteq Devices
    BY DEF AloneInv, TypeOK
  <1>1. OnePlaceUnlessSlipped
    BY <1>0 DEF OnePlaceUnlessSlipped, Calm, OnePlaceEach
  <1>2. PitchWithinSquadWhenIdle
    <2> SUFFICES ASSUME slipped = {}, Idle(p), NEW m \in Matches, NEW s \in Slots
                 PROVE  db[m].Positions[s] \in db[m].players \cup {None}
      BY <1>0 DEF PitchWithinSquadWhenIdle
    <2>1. ~Leaving(p, m, s)
      BY <1>0, NothingPending
    <2> QED BY <1>0, <2>1 DEF Calm, PitchInSquad
  <1>3. DetailFreshWhenIdle
    <2> SUFFICES ASSUME p \notin slipped, Idle(p), screen[p] \in Matches
                 PROVE  vm[p].selectedMatch = Parsed(screen[p], db[screen[p]])
      BY DEF DetailFreshWhenIdle, OnDetail
    <2>1. Calm(p)
      BY <1>0
    <2> QED BY <1>0, <2>1, ShownRight
  <1>4. ListFreshWhenIdle
    <2> DEFINE list == vm[p].matchsModelList
    <2> SUFFICES ASSUME NEW m \in Matches, Idle(p), list # <<>>, list[Len(list)][m] # None
                 PROVE  /\ list[Len(list)][m].players = db[m].players
                        /\ list[Len(list)][m].matchID = Parsed(m, db[m]).matchID
      BY DEF ListFreshWhenIdle
    <2>1. ~Reloads(p)
      BY <1>0, NothingPending
    <2>2. list \in Seq([Matches -> Card])
      BY <1>0, PhoneTypes
    <2>3. Len(list) \in 1..Len(list)
      <3> HIDE DEF list
      <3>1. 1 \in 1..Len(list) /\ Len(list) \in Nat
        BY <2>2, QueueTake
      <3> QED BY <3>1
    <2>4. Current(list[Len(list)], db)
      BY <1>0, <2>1, <2>3 DEF ListCurrent
    <2> QED BY <2>4 DEF Current
  <1> QED BY <1>1, <1>2, <1>3, <1>4 DEF PitchAgrees

(* With one phone and no failures: a player has one place on the pitch unless   *)
(* the phone was tapped under its overlay while a call was under way, and once  *)
(* everything is answered nobody is on the pitch who is not in the squad        *)
(* (setPlayerPositionWithMatch, the chain of leaveMatches), however gestures,   *)
(* calls and callbacks interleave and whatever the players, matches and places. *)
THEOREM PitchAgreesAlone ==
    ASSUME NEW p, Devices = {p}, Faults = {}
    PROVE  Spec => []PitchAgrees
  <1>1. TypeOK /\ Init => AloneInv(p)
    BY AloneInit, GhostInit DEF AloneInv
  <1>2. AloneInv(p) /\ [Next]_vars => AloneInv(p)'
    BY AloneNext
  <1>3. AloneInv(p) => PitchAgrees
    BY AloneMeans
  <1> QED BY <1>1, <1>2, <1>3, TypeCorrect, PTL DEF Spec

(* In the same setting, once everything is answered the detail screen of a      *)
(* phone that was not tapped under its overlay shows the match as the database  *)
(* has it, the cards of the list show the squads as they are, and the list has  *)
(* every match once unless its loads overlapped (getAllMatchs and               *)
(* getMatchWithMatchID, after every call that changes what they show).          *)
THEOREM ScreensAgreeAlone ==
    ASSUME NEW p, Devices = {p}, Faults = {}
    PROVE  Spec => []ScreensAgree
  <1>1. TypeOK /\ Init => AloneInv(p)
    BY AloneInit, GhostInit DEF AloneInv
  <1>2. AloneInv(p) /\ [Next]_vars => AloneInv(p)'
    BY AloneNext
  <1>3. AloneInv(p) /\ OneCopyUnlessOverlapped => ScreensAgree
    BY AloneMeans DEF ScreensAgree
  <1> QED BY <1>1, <1>2, <1>3, TypeCorrect, OneCopyOfTheList, PTL DEF Spec

=============================================================================
