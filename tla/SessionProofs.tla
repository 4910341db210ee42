--------------------------- MODULE SessionProofs ----------------------------
(***************************************************************************)
(* Types, the profile on the screen, the passwords, what is written and    *)
(* what the screens show at rest, for any accounts, texts and bounds and   *)
(* through every fault.                                                    *)
(*                                                                         *)
(* None of these is inductive.  A form's answer is put into the form of    *)
(* its visit, so visits must be known while the app runs (VisitsKnown).    *)
(* The profile is the user's own because isLoggedIn separates the calls:   *)
(* while it is FALSE at most one call is under way, of a sign-in or a      *)
(* registration, and while it is TRUE none of these is, so that            *)
(* Auth.currentUser stays put under every read of a profile (Own).  And a  *)
(* password is checked in the form, sent much later from what the form has *)
(* then, and set later still (Checked).                                    *)
(*                                                                         *)
(* At rest, isLoggedIn is right because between the answer that changes    *)
(* Auth.currentUser and the callback that tells the view model nothing     *)
(* else is under way (Flag).  Each loading flag has its call (LoadingEnds).*)
(* A profile is complete because an account without one has the call or    *)
(* the answer that will write it (Stored), and the picture on the screen   *)
(* is right because a profile that was read too early is followed by the   *)
(* answer of the write it missed (AnswersFit, ScreenFits).                 *)
(***************************************************************************)
EXTENDS Session, SequenceTheorems, TLAPS

(* The calls that are under way, and how many.                              *)
Calls == {requests[i] : i \in 1..Len(requests)} \cup
         {replies[i].req : i \in 1..Len(replies)}

Pending == Len(requests) + Len(replies)

(* A killed app has no screens and runs no callbacks.                       *)
QuietWhenOff ==
    app = "off" => /\ replies = <<>> /\ base.userModel = None
                   /\ pushed = "root" /\ ~picking

FormKinds == {"reauthenticate", "updatePassword", "setName"}

VisitsKnown ==
    app = "on" => \A c \in Calls : c.kind \in FormKinds => c.visit \in 1..Len(forms)

SessionTypes == TypeOK /\ QuietWhenOff /\ VisitsKnown

LoginKinds == {"signIn", "createUser", "setUser"}

Own ==
    /\ picking \/ pushed # "root" => base.isLoggedIn
    /\ app = "on" /\ ~base.isLoggedIn =>
          /\ base.userModel = None
          /\ Pending <= 1
          /\ \A c \in Calls : c.kind \in LoginKinds
    /\ app = "on" /\ base.isLoggedIn =>
          \A c \in Calls : /\ c.kind \notin LoginKinds
                           /\ c.kind = "getUser" => c.account = current
    /\ base.userModel # None => base.userModel.uuid \in {current, None}

OwnInv == ~slipped /\ ~revoked => Own

Checked ==
    /\ \A a \in Accounts : password[a] # None => Length[password[a]] = 6
    /\ \A c \in Calls : c.kind \in {"createUser", "updatePassword"} => Length[c.text] = 6
    /\ app = "on" => \A c \in Calls :
          c.kind = "reauthenticate" => Length[forms[c.visit].newPassword] = 6

CheckedInv == ~typedOver => Checked

SessionInv == SessionTypes /\ OwnInv /\ CheckedInv

-----------------------------------------------------------------------------
(* What the actions do to the calls under way.                              *)

(* A call is made.                                                          *)
LEMMA CallMade ==
    ASSUME TypeOK, NEW r \in Request, requests' = Append(requests, r), UNCHANGED replies
    PROVE  /\ requests' \in Seq(Request) /\ replies' \in Seq(Reply)
           /\ Calls' = Calls \cup {r} /\ Pending' = Pending + 1
  <1>1. requests \in Seq(Request) /\ replies \in Seq(Reply)
    BY DEF TypeOK
  <1>2. /\ requests' \in Seq(Request) /\ Len(requests') = Len(requests) + 1
        /\ \A i \in 1..Len(requests) : requests'[i] = requests[i]
        /\ requests'[Len(requests) + 1] = r
    BY <1>1
  <1>3. Len(requests) \in Nat /\ Len(replies) \in Nat
    BY <1>1
  <1>4. {requests'[i] : i \in 1..Len(requests')} =
        {requests[i] : i \in 1..Len(requests)} \cup {r}
    <2>1. 1..Len(requests') = 1..Len(requests) \cup {Len(requests) + 1}
      BY <1>2, <1>3
    <2> QED BY <1>2, <2>1
  <1> QED BY <1>1, <1>2, <1>3, <1>4 DEF Calls, Pending

(* The first answer.                                                        *)
LEMMA FirstAnswer ==
    ASSUME TypeOK, replies # <<>>
    PROVE  Head(replies) \in Reply /\ Head(replies).req \in Calls
  <1>1. replies \in Seq(Reply) /\ Len(replies) >= 1 /\ Head(replies) = replies[1]
    BY DEF TypeOK
  <1>2. 1 \in 1..Len(replies)
    BY <1>1
  <1> QED BY <1>1, <1>2 DEF Calls

(* Its callback runs and makes no call ...                                  *)
LEMMA CallbackRuns ==
    ASSUME TypeOK, replies # <<>>, replies' = Tail(replies), UNCHANGED requests
    PROVE  /\ requests' \in Seq(Request) /\ replies' \in Seq(Reply)
           /\ Calls' \subseteq Calls /\ Pending' = Pending - 1
  <1>1. requests \in Seq(Request) /\ replies \in Seq(Reply)
    BY DEF TypeOK
  <1>2. /\ replies' \in Seq(Reply) /\ Len(replies') = Len(replies) - 1
        /\ \A i \in 1..Len(replies') : replies'[i] = replies[i + 1]
    BY <1>1
  <1>3. Len(requests) \in Nat /\ Len(replies) \in Nat /\ Len(replies) >= 1
    BY <1>1
  <1>4. \A i \in 1..Len(replies') : i + 1 \in 1..Len(replies)
    BY <1>2, <1>3
  <1> QED BY <1>1, <1>2, <1>3, <1>4 DEF Calls, Pending

(* ... or makes one.                                                        *)
LEMMA CallbackCalls ==
    ASSUME TypeOK, NEW r \in Request, replies # <<>>, replies' = Tail(replies),
           requests' = Append(requests, r)
    PROVE  /\ requests' \in Seq(Request) /\ replies' \in Seq(Reply)
           /\ Calls' \subseteq Calls \cup {r} /\ Pending' = Pending
  <1>1. requests \in Seq(Request) /\ replies \in Seq(Reply)
    BY DEF TypeOK
  <1>2. /\ replies' \in Seq(Reply) /\ Len(replies') = Len(replies) - 1
        /\ \A i \in 1..Len(replies') : replies'[i] = replies[i + 1]
    BY <1>1
  <1>3. /\ requests' \in Seq(Request) /\ Len(requests') = Len(requests) + 1
        /\ \A i \in 1..Len(requests) : requests'[i] = requests[i]
        /\ requests'[Len(requests) + 1] = r
    BY <1>1
  <1>4. Len(requests) \in Nat /\ Len(replies) \in Nat /\ Len(replies) >= 1
    BY <1>1
  <1>5. \A i \in 1..Len(replies') : i + 1 \in 1..Len(replies)
    BY <1>2, <1>4
  <1>6. 1..Len(requests') = 1..Len(requests) \cup {Len(requests) + 1}
    BY <1>3, <1>4
  <1>7. {replies'[i].req : i \in 1..Len(replies')} \subseteq Calls
    BY <1>2, <1>5 DEF Calls
  <1>8. {requests'[i] : i \in 1..Len(requests')} \subseteq Calls \cup {r}
    BY <1>3, <1>6 DEF Calls
  <1> QED BY <1>2, <1>3, <1>4, <1>7, <1>8 DEF Calls, Pending

(* A call leaves the sequence of requests.                                  *)
LEMMA CallTaken ==
    ASSUME TypeOK, NEW i \in 1..Len(requests)
    PROVE  /\ Without(i) \in Seq(Request) /\ Len(Without(i)) = Len(requests) - 1
           /\ \A j \in 1..Len(Without(i)) :
                 \E k \in 1..Len(requests) : Without(i)[j] = requests[k]
  <1> DEFINE n == Len(requests)
             s == SubSeq(requests, 1, i - 1)
             t == SubSeq(requests, i + 1, n)
  <1>1. requests \in Seq(Request) /\ n \in Nat /\ i \in 1..n
    BY DEF TypeOK
  <1>2. /\ s \in Seq(Request) /\ Len(s) = i - 1
        /\ \A j \in 1..(i - 1) : s[j] = requests[j]
    BY <1>1
  <1>3. /\ t \in Seq(Request) /\ Len(t) = n - i
        /\ \A j \in 1..(n - i) : t[j] = requests[i + j]
    BY <1>1
  <1>4. Without(i) = s \o t
    BY DEF Without
  <1> HIDE DEF n, s, t
  <1>5. /\ s \o t \in Seq(Request) /\ Len(s \o t) = n - 1
        /\ \A j \in 1..(n - 1) :
              (s \o t)[j] = IF j <= i - 1 THEN s[j] ELSE t[j - (i - 1)]
    <2>1. /\ s \o t \in Seq(Request) /\ Len(s \o t) = Len(s) + Len(t)
          /\ \A j \in 1..Len(s) + Len(t) :
                (s \o t)[j] = IF j <= Len(s) THEN s[j] ELSE t[j - Len(s)]
      BY <1>2, <1>3, ConcatProperties
    <2>2. Len(s) + Len(t) = n - 1
      BY <1>1, <1>2, <1>3
    <2> QED BY <1>2, <2>1, <2>2
  <1>6. ASSUME NEW j \in 1..(n - 1)
        PROVE  \E k \in 1..n : (s \o t)[j] = requests[k]
    <2>1. CASE j <= i - 1
      <3>1. j \in 1..(i - 1) /\ j \in 1..n
        BY <1>1, <2>1
      <3>2. (s \o t)[j] = requests[j]
        BY <1>2, <1>5, <2>1, <3>1
      <3> QED BY <3>1, <3>2
    <2>2. CASE ~(j <= i - 1)
      <3>1. j - (i - 1) \in 1..(n - i) /\ j + 1 \in 1..n /\ i + (j - (i - 1)) = j + 1
        BY <1>1, <2>2
      <3>2. (s \o t)[j] = requests[j + 1]
        BY <1>3, <1>5, <2>2, <3>1
      <3> QED BY <3>1, <3>2
    <2> QED BY <2>1, <2>2
  <1> QED BY <1>4, <1>5, <1>6 DEF n

(* A service answers a call, or nobody is there to be told.                 *)
LEMMA CallAnswered ==
    ASSUME TypeOK, NEW i \in 1..Len(requests), NEW ok \in BOOLEAN, NEW p \in Profile,
           requests' = Without(i), Answer(requests[i], ok, p)
    PROVE  /\ requests' \in Seq(Request) /\ replies' \in Seq(Reply)
           /\ Calls' \subseteq Calls /\ Pending' <= Pending
           /\ app = "off" => replies' = replies
  <1>1. requests \in Seq(Request) /\ replies \in Seq(Reply) /\ app \in {"off", "on"}
    BY DEF TypeOK
  <1> DEFINE e == [req |-> requests[i], ok |-> ok, profile |-> p]
  <1>2. requests[i] \in Request /\ requests[i] \in Calls
    BY <1>1 DEF Calls
  <1>3. e \in Reply /\ e.req = requests[i]
    BY <1>2 DEF Reply
  <1>4. replies' = IF app = "on" THEN Append(replies, e) ELSE replies
    BY DEF Answer
  <1> HIDE DEF e
  <1>5. /\ requests' \in Seq(Request) /\ Len(requests') = Len(requests) - 1
        /\ \A j \in 1..Len(requests') : \E k \in 1..Len(requests) : requests'[j] = requests[k]
    BY CallTaken
  <1>6. {requests'[j] : j \in 1..Len(requests')} \subseteq Calls
    BY <1>5 DEF Calls
  <1>7. Len(requests) \in Nat /\ Len(replies) \in Nat
    BY <1>1
  <1>8. CASE app = "on"
    <2>1. /\ replies' \in Seq(Reply) /\ Len(replies') = Len(replies) + 1
          /\ \A j \in 1..Len(replies) : replies'[j] = replies[j]
          /\ replies'[Len(replies) + 1] = e
      BY <1>1, <1>3, <1>4, <1>8
    <2>2. 1..Len(replies') = 1..Len(replies) \cup {Len(replies) + 1}
      BY <1>7, <2>1
    <2>3. {replies'[j].req : j \in 1..Len(replies')} \subseteq Calls
      BY <1>2, <1>3, <2>1, <2>2 DEF Calls
    <2>4. Pending' = Pending
      BY <1>5, <1>7, <2>1 DEF Pending
    <2>5. Calls' \subseteq Calls
      BY <1>6, <2>3 DEF Calls
    <2> QED BY <1>5, <1>7, <1>8, <2>1, <2>4, <2>5 DEF Pending
  <1>9. CASE app # "on"
    <2>1. replies' = replies
      BY <1>4, <1>9
    <2> QED BY <1>1, <1>5, <1>6, <1>7, <2>1 DEF Calls, Pending
  <1> QED BY <1>8, <1>9

(* A form's view model changes.                                             *)
LEMMA FormChanged ==
    ASSUME forms \in Seq(Form), NEW v \in 1..Len(forms), NEW f \in Form,
           forms' = [forms EXCEPT ![v] = f]
    PROVE  /\ forms' \in Seq(Form) /\ Len(forms') = Len(forms)
           /\ \A w \in 1..Len(forms) : forms'[w] = IF w = v THEN f ELSE forms[w]
  OBVIOUS

(* While a form is pushed there is a last visit.                            *)
LEMMA LastVisit ==
    ASSUME TypeOK, pushed # "root"
    PROVE  Len(forms) \in 1..Len(forms) /\ form \in Form
  <1>1. forms \in Seq(Form) /\ forms # <<>>
    BY DEF TypeOK
  <1>2. Len(forms) \in Nat /\ Len(forms) >= 1
    BY <1>1
  <1> QED BY <1>1, <1>2 DEF form

LEMMA RequestType ==
    ASSUME NEW a \in Accounts,
           NEW kind \in AuthKinds \cup StorageKinds \cup DatabaseKinds
    PROVE  Req(kind, a) \in Request
  BY DEF Req, Request

(* getCurrentUserData and the profile that appears.                         *)
LEMMA UserDataAsked ==
    ASSUME TypeOK, NEW b \in Base, getCurrentUserData(b, requests)
    PROVE  /\ base' \in Base /\ base'.isLoggedIn = b.isLoggedIn
           /\ base'.userModel = None
           /\ \/ requests' = requests
              \/ /\ current \in Accounts /\ Req("getUser", current) \in Request
                 /\ requests' = Append(requests, Req("getUser", current))
  <1>1. current # None => current \in Accounts
    BY DEF TypeOK
  <1>2. base' \in Base /\ base'.isLoggedIn = b.isLoggedIn /\ base'.userModel = None
    BY DEF getCurrentUserData, Base
  <1> QED BY <1>1, <1>2, RequestType DEF getCurrentUserData, DatabaseKinds

LEMMA AppearanceAsks ==
    ASSUME TypeOK, NEW b \in Base, ProfileAppears(b, requests)
    PROVE  /\ base' \in Base /\ base'.isLoggedIn = b.isLoggedIn
           /\ base'.userModel \in {None, b.userModel}
           /\ \/ requests' = requests
              \/ /\ current \in Accounts /\ Req("getUser", current) \in Request
                 /\ requests' = Append(requests, Req("getUser", current))
  BY UserDataAsked DEF ProfileAppears


-----------------------------------------------------------------------------
(* Types.                                                                   *)

(* While the app runs, visits stay known when new calls are of known ones.   *)
LEMMA VisitsStay ==
    ASSUME SessionTypes, app = "on", forms' \in Seq(Form), Len(forms') >= Len(forms),
           \A c \in Calls' \ Calls : c.kind \in FormKinds => c.visit \in 1..Len(forms)
    PROVE  VisitsKnown'
  <1>1. Len(forms) \in Nat /\ Len(forms') \in Nat
    BY DEF SessionTypes, TypeOK
  <1>2. \A v : v \in 1..Len(forms) => v \in 1..Len(forms')
    BY <1>1
  <1> QED BY <1>2 DEF SessionTypes, VisitsKnown

(* A step of the running app that changes no form and no bound.             *)
LEMMA ScreenStep ==
    ASSUME SessionTypes, app = "on", UNCHANGED <<serverVars, app, forms, faults, typedOver>>,
           base' \in Base, current' \in Accounts \cup {None},
           tab' \in {"matches", "account"}, picking' \in BOOLEAN,
           pushed' \in {"root", pushed}, taps' \in Nat,
           slipped' \in BOOLEAN, revoked' \in BOOLEAN,
           requests' \in Seq(Request), replies' \in Seq(Reply),
           \A c \in Calls' \ Calls : c.kind \notin FormKinds
    PROVE  SessionTypes'
  <1>1. TypeOK'
    BY DEF SessionTypes, TypeOK, serverVars
  <1>2. forms' \in Seq(Form) /\ Len(forms') >= Len(forms)
    <2>1. forms \in Seq(Form) /\ forms' = forms
      BY DEF SessionTypes, TypeOK
    <2>2. Len(forms) \in Nat
      BY <2>1
    <2> QED BY <2>1, <2>2
  <1>3. VisitsKnown'
    BY <1>2, VisitsStay
  <1> QED BY <1>1, <1>3 DEF SessionTypes, QuietWhenOff

(* A step of the running app that changes a form.                           *)
LEMMA FormStep ==
    ASSUME SessionTypes, app = "on", forms' \in Seq(Form), Len(forms') = Len(forms),
           UNCHANGED <<serverVars, current, app, base, pushed, picking, faults,
                       slipped, revoked>>,
           tab' \in {"matches", "account"}, taps' \in Nat, typedOver' \in BOOLEAN,
           requests' \in Seq(Request), replies' \in Seq(Reply),
           \A c \in Calls' \ Calls : c.kind \in FormKinds => c.visit \in 1..Len(forms)
    PROVE  SessionTypes'
  <1>1. TypeOK /\ forms \in Seq(Form)
    BY DEF SessionTypes, TypeOK
  <1>2. Len(forms') >= Len(forms) /\ (forms # <<>> => forms' # <<>>)
    BY <1>1
  <1>3. TypeOK'
    BY <1>1, <1>2 DEF TypeOK, serverVars
  <1>4. VisitsKnown'
    BY <1>2, VisitsStay
  <1> QED BY <1>3, <1>4 DEF SessionTypes, QuietWhenOff

(* A gesture is counted.                                                    *)
LEMMA TouchCounts ==
    ASSUME TypeOK, NEW g, Touch(g)
    PROVE  app = "on" /\ taps' \in Nat
  <1>1. taps \in Nat
    BY DEF TypeOK
  <1> QED BY <1>1 DEF Touch

LEMMA FaultCounts ==
    ASSUME TypeOK, NEW f, Fault(f)
    PROVE  faults' \in Nat
  <1>1. faults \in Nat
    BY DEF TypeOK
  <1> QED BY <1>1 DEF Fault

LEMMA SlipType ==
    ASSUME TypeOK, slipped' = (slipped \/ ~Idle)
    PROVE  slipped' \in BOOLEAN
  BY Zenon DEF TypeOK

LEMMA LaunchTypes == ASSUME SessionTypes, Launch PROVE SessionTypes'
  <1>1. TypeOK /\ app = "off" /\ app' = "on" /\ requests = <<>> /\ replies = <<>>
    BY DEF SessionTypes, QuietWhenOff, Launch
  <1>2. /\ UNCHANGED <<serverVars, current, forms, replies, taps, faults, histVars>>
        /\ tab' = "matches" /\ pushed' = "root" /\ picking' = FALSE
        /\ getCurrentUserData(NewBase, requests)
    BY DEF Launch
  <1>3. NewBase \in Base
    BY DEF NewBase, Base
  <1>4. /\ base' \in Base
        /\ \/ requests' = requests
           \/ /\ Req("getUser", current) \in Request
              /\ requests' = Append(requests, Req("getUser", current))
    BY <1>1, <1>2, <1>3, UserDataAsked
  <1>5. Calls = {}
    BY <1>1 DEF Calls
  <1>6. /\ requests' \in Seq(Request) /\ replies' \in Seq(Reply)
        /\ Calls' \subseteq {Req("getUser", current)}
    <2>1. CASE requests' = requests
      BY <1>1, <1>2, <1>5, <2>1 DEF TypeOK, Calls
    <2>2. CASE /\ Req("getUser", current) \in Request
               /\ requests' = Append(requests, Req("getUser", current))
      BY <1>1, <1>2, <1>5, <2>2, CallMade
    <2> QED BY <1>4, <2>1, <2>2
  <1>7. TypeOK'
    BY <1>1, <1>2, <1>4, <1>6 DEF TypeOK, serverVars, histVars
  <1>8. VisitsKnown'
    BY <1>6 DEF VisitsKnown, Req, FormKinds
  <1> QED BY <1>1, <1>7, <1>8 DEF SessionTypes, QuietWhenOff

(* getCurrentUserData and the profile, in a step of the running app.        *)
LEMMA ReadTypes ==
    ASSUME SessionTypes, UNCHANGED replies,
           requests' = requests \/ (/\ Req("getUser", current) \in Request
                                    /\ requests' = Append(requests, Req("getUser", current)))
    PROVE  /\ requests' \in Seq(Request) /\ replies' \in Seq(Reply)
           /\ Calls' \subseteq Calls \cup {Req("getUser", current)}
           /\ \A c \in Calls' \ Calls : c.kind \notin FormKinds
  <1>1. TypeOK
    BY DEF SessionTypes
  <1>2. /\ requests' \in Seq(Request) /\ replies' \in Seq(Reply)
        /\ Calls' \subseteq Calls \cup {Req("getUser", current)}
    <2>1. CASE requests' = requests
      BY <1>1, <2>1 DEF TypeOK, Calls
    <2>2. CASE /\ Req("getUser", current) \in Request
               /\ requests' = Append(requests, Req("getUser", current))
      BY <1>1, <2>2, CallMade
    <2> QED BY <2>1, <2>2
  <1>3. Req("getUser", current).kind \notin FormKinds
    BY DEF Req, FormKinds
  <1> QED BY <1>2, <1>3

(* The same calls are under way.                                            *)
LEMMA SameCalls ==
    ASSUME TypeOK, UNCHANGED <<requests, replies>>
    PROVE  /\ requests' \in Seq(Request) /\ replies' \in Seq(Reply)
           /\ Calls' = Calls /\ Pending' = Pending
  BY DEF TypeOK, Calls, Pending

LEMMA ToMatchesTypes == ASSUME SessionTypes, ToMatches PROVE SessionTypes'
  <1>1. TypeOK
    BY DEF SessionTypes
  <1>2. UNCHANGED <<requests, replies>>
    BY DEF ToMatches
  <1> QED BY <1>1, <1>2, SameCalls, ScreenStep DEF ToMatches, TypeOK, histVars

LEMMA ToAccountTypes == ASSUME SessionTypes, ToAccount PROVE SessionTypes'
  <1>1. TypeOK /\ base \in Base
    BY DEF SessionTypes, TypeOK
  <1>2. app = "on" /\ taps' \in Nat
    BY <1>1, TouchCounts DEF ToAccount
  <1>3. /\ UNCHANGED <<serverVars, current, app, pushed, picking, replies, faults, histVars>>
        /\ tab' = "account"
    BY DEF ToAccount
  <1>4. CASE ProfileAppears(base, requests) /\ UNCHANGED forms
    <2>1. /\ base' \in Base
          /\ \/ requests' = requests
             \/ /\ Req("getUser", current) \in Request
                /\ requests' = Append(requests, Req("getUser", current))
      BY <1>1, <1>4, AppearanceAsks
    <2> QED BY <1>1, <1>2, <1>3, <1>4, <2>1, ReadTypes, ScreenStep DEF TypeOK, histVars
  <1>5. CASE /\ pushed = "profile"
             /\ forms' = [forms EXCEPT ![Len(forms)].nameSurname = ShownName]
             /\ UNCHANGED <<base, requests>>
    <2> DEFINE f == [form EXCEPT !.nameSurname = ShownName]
    <2>1. Len(forms) \in 1..Len(forms) /\ form \in Form /\ forms \in Seq(Form)
      BY <1>1, <1>5, LastVisit DEF TypeOK
    <2>2. ShownName \in Names \cup {None}
      BY <1>1 DEF ShownName, Base, UserModel
    <2>3. f \in Form
      BY <2>1, <2>2 DEF Form
    <2>4. forms' = [forms EXCEPT ![Len(forms)] = f]
      BY <1>5 DEF form
    <2> HIDE DEF f
    <2>5. forms' \in Seq(Form) /\ Len(forms') = Len(forms)
      BY <2>1, <2>3, <2>4, FormChanged
    <2>6. requests' \in Seq(Request) /\ replies' \in Seq(Reply) /\ Calls' = Calls
      BY <1>1, <1>3, <1>5, SameCalls
    <2> QED BY <1>1, <1>2, <1>3, <1>5, <2>5, <2>6, FormStep DEF TypeOK, histVars
  <1>6. CASE UNCHANGED <<base, requests, forms>>
    BY <1>1, <1>2, <1>3, <1>6, SameCalls, ScreenStep DEF TypeOK, histVars
  <1> QED BY <1>4, <1>5, <1>6 DEF ToAccount

LEMMA ToggleTypes == ASSUME SessionTypes, ToggleRegister PROVE SessionTypes'
  <1>1. TypeOK /\ base \in Base /\ app = "on"
    BY DEF SessionTypes, TypeOK, ToggleRegister, Uncovered, AtRoot
  <1>2. base' \in Base /\ slipped' \in BOOLEAN
    BY <1>1, SlipType DEF ToggleRegister, Base
  <1>3. UNCHANGED <<requests, replies>>
    BY DEF ToggleRegister
  <1> QED BY <1>1, <1>2, <1>3, SameCalls, ScreenStep DEF ToggleRegister, TypeOK, uiVars

LEMMA DismissTypes == ASSUME SessionTypes, DismissAlert PROVE SessionTypes'
  <1>1. TypeOK /\ base \in Base /\ app = "on"
    BY DEF SessionTypes, TypeOK, DismissAlert
  <1>2. UNCHANGED <<serverVars, current, app, uiVars, requests, replies, taps, faults, histVars>>
    BY DEF DismissAlert
  <1>3. CASE base' = [base EXCEPT !.showAlert = FALSE] /\ UNCHANGED forms
    <2>1. base' \in Base
      BY <1>1, <1>3 DEF Base
    <2> QED BY <1>1, <1>2, <1>3, <2>1, SameCalls, ScreenStep DEF TypeOK, uiVars, histVars
  <1>4. CASE /\ pushed # "root" /\ UNCHANGED base
             /\ \E a \in forms[Len(forms)].alerts :
                   forms' = [forms EXCEPT ![Len(forms)].alerts = @ \ {a}]
    <2>1. PICK a : forms' = [forms EXCEPT ![Len(forms)].alerts = @ \ {a}]
      BY <1>4
    <2> DEFINE f == [form EXCEPT !.alerts = @ \ {a}]
    <2>2. Len(forms) \in 1..Len(forms) /\ form \in Form /\ forms \in Seq(Form)
      BY <1>1, <1>4, LastVisit DEF TypeOK
    <2>3. f \in Form
      BY <2>2 DEF Form
    <2>4. forms' = [forms EXCEPT ![Len(forms)] = f]
      BY <2>1 DEF form
    <2> HIDE DEF f
    <2>5. forms' \in Seq(Form) /\ Len(forms') = Len(forms)
      BY <2>2, <2>3, <2>4, FormChanged
    <2>6. requests' \in Seq(Request) /\ replies' \in Seq(Reply) /\ Calls' = Calls
      BY <1>1, <1>2, SameCalls
    <2> QED BY <1>1, <1>2, <1>4, <2>5, <2>6, FormStep DEF TypeOK, histVars, uiVars
  <1> QED BY <1>3, <1>4 DEF DismissAlert


LEMMA LoginTypes == ASSUME SessionTypes, login PROVE SessionTypes'
  <1>1. TypeOK /\ base \in Base
    BY DEF SessionTypes, TypeOK
  <1>2. app = "on" /\ taps' \in Nat /\ slipped' \in BOOLEAN
    BY <1>1, TouchCounts, SlipType DEF login, Tap
  <1>3. PICK a \in Accounts, p \in Passwords :
          requests' = Append(requests, [Req("signIn", a) EXCEPT !.text = p])
    BY DEF login
  <1> DEFINE r == [Req("signIn", a) EXCEPT !.text = p]
  <1>4. r \in Request /\ r.kind \notin FormKinds
    BY DEF Req, Request, AuthKinds, FormKinds
  <1>5. UNCHANGED replies /\ base' = [base EXCEPT !.isLoad = TRUE]
    BY DEF login
  <1> HIDE DEF r
  <1>6. /\ requests' \in Seq(Request) /\ replies' \in Seq(Reply)
        /\ Calls' = Calls \cup {r}
    BY <1>1, <1>3, <1>4, <1>5, CallMade DEF r
  <1>7. base' \in Base
    BY <1>1, <1>5 DEF Base
  <1> QED BY <1>1, <1>2, <1>4, <1>6, <1>7, ScreenStep DEF login, TypeOK, uiVars

LEMMA RegisterTypes == ASSUME SessionTypes, register PROVE SessionTypes'
  <1>1. TypeOK /\ base \in Base
    BY DEF SessionTypes, TypeOK
  <1>2. app = "on" /\ taps' \in Nat /\ slipped' \in BOOLEAN
    BY <1>1, TouchCounts, SlipType DEF register, Tap
  <1>3. PICK a \in Accounts, p \in Passwords, n \in Names :
          requests' = Append(requests, [Req("createUser", a) EXCEPT !.text = p, !.name = n])
    BY DEF register
  <1> DEFINE r == [Req("createUser", a) EXCEPT !.text = p, !.name = n]
  <1>4. r \in Request /\ r.kind \notin FormKinds
    BY DEF Req, Request, AuthKinds, FormKinds
  <1>5. UNCHANGED replies /\ base' = [base EXCEPT !.isLoad = TRUE]
    BY DEF register
  <1> HIDE DEF r
  <1>6. /\ requests' \in Seq(Request) /\ replies' \in Seq(Reply)
        /\ Calls' = Calls \cup {r}
    BY <1>1, <1>3, <1>4, <1>5, CallMade DEF r
  <1>7. base' \in Base
    BY <1>1, <1>5 DEF Base
  <1> QED BY <1>1, <1>2, <1>4, <1>6, <1>7, ScreenStep DEF register, TypeOK, uiVars

LEMMA SignOutTypes == ASSUME SessionTypes, signOut PROVE SessionTypes'
  <1>1. TypeOK /\ base \in Base
    BY DEF SessionTypes, TypeOK
  <1>2. app = "on" /\ taps' \in Nat /\ slipped' \in BOOLEAN
    BY <1>1, TouchCounts, SlipType DEF signOut, Tap
  <1>3. /\ UNCHANGED <<serverVars, app, tab, pushed, forms, requests, replies,
                       revoked, typedOver>>
        /\ \/ /\ current' = None
              /\ base' = [base EXCEPT !.userModel = None, !.isLoggedIn = FALSE]
              /\ picking' = FALSE
              /\ UNCHANGED faults
           \/ faults' = faults + 1 /\ UNCHANGED <<current, base, picking>>
    BY DEF signOut
  <1>4. requests' \in Seq(Request) /\ replies' \in Seq(Reply) /\ Calls' = Calls
    BY <1>1, <1>3, SameCalls
  <1>5. base' \in Base
    BY <1>1, <1>3 DEF Base
  <1>6. faults' \in Nat
    <2>1. faults \in Nat
      BY <1>1 DEF TypeOK
    <2> QED BY <1>3, <2>1
  <1>7. TypeOK'
    BY <1>1, <1>2, <1>3, <1>4, <1>5, <1>6 DEF TypeOK, serverVars
  <1> QED BY <1>2, <1>3, <1>4, <1>7 DEF SessionTypes, QuietWhenOff, VisitsKnown

LEMMA RefreshTypes == ASSUME SessionTypes, RefreshProfile PROVE SessionTypes'
  <1>1. TypeOK /\ base \in Base
    BY DEF SessionTypes, TypeOK
  <1>2. app = "on" /\ taps' \in Nat /\ slipped' \in BOOLEAN
    BY <1>1, TouchCounts, SlipType DEF RefreshProfile, Tap
  <1>3. /\ UNCHANGED <<serverVars, current, app, uiVars, forms, replies, faults,
                       revoked, typedOver>>
        /\ getCurrentUserData(base, requests)
    BY DEF RefreshProfile
  <1>4. /\ base' \in Base
        /\ \/ requests' = requests
           \/ /\ Req("getUser", current) \in Request
              /\ requests' = Append(requests, Req("getUser", current))
    BY <1>1, <1>3, UserDataAsked
  <1> QED BY <1>1, <1>2, <1>3, <1>4, ReadTypes, ScreenStep DEF TypeOK, uiVars

LEMMA PickTypes == ASSUME SessionTypes, PickImage PROVE SessionTypes'
  <1>1. TypeOK
    BY DEF SessionTypes
  <1>2. app = "on" /\ taps' \in Nat /\ slipped' \in BOOLEAN
    BY <1>1, TouchCounts, SlipType DEF PickImage, Tap
  <1>3. /\ UNCHANGED <<serverVars, current, app, base, tab, pushed, forms, requests,
                       replies, faults, revoked, typedOver>>
        /\ picking' = TRUE
    BY DEF PickImage
  <1> QED BY <1>1, <1>2, <1>3, SameCalls, ScreenStep DEF TypeOK

LEMMA UploadTypes == ASSUME SessionTypes, loadProfileImage PROVE SessionTypes'
  <1>1. TypeOK /\ base \in Base /\ app = "on"
    BY DEF SessionTypes, TypeOK, loadProfileImage
  <1>2. /\ UNCHANGED <<serverVars, current, app, tab, pushed, forms, replies, taps,
                       faults, histVars>>
        /\ picking' = FALSE
    BY DEF loadProfileImage
  <1>3. CASE current # None /\ base' = [base EXCEPT !.isLoad = TRUE]
             /\ requests' = Append(requests, Req("putData", current))
    <2>1. Req("putData", current) \in Request
      BY <1>1, <1>3, RequestType DEF TypeOK, StorageKinds
    <2>2. Req("putData", current).kind \notin FormKinds
      BY DEF Req, FormKinds
    <2>3. /\ requests' \in Seq(Request) /\ replies' \in Seq(Reply)
          /\ Calls' = Calls \cup {Req("putData", current)}
      BY <1>1, <1>2, <1>3, <2>1, CallMade
    <2>4. base' \in Base
      BY <1>1, <1>3 DEF Base
    <2> QED BY <1>1, <1>2, <2>2, <2>3, <2>4, ScreenStep DEF TypeOK, histVars
  <1>4. CASE base' = [base EXCEPT !.isLoad = FALSE] /\ UNCHANGED requests
    <2>1. base' \in Base
      BY <1>1, <1>4 DEF Base
    <2> QED BY <1>1, <1>2, <1>4, <2>1, SameCalls, ScreenStep DEF TypeOK, histVars
  <1> QED BY <1>3, <1>4 DEF loadProfileImage

LEMMA OpenTypes ==
    ASSUME SessionTypes, NEW f \in {"profile", "password"}, OpenForm(f)
    PROVE  SessionTypes'
  <1>1. TypeOK /\ base \in Base /\ forms \in Seq(Form)
    BY DEF SessionTypes, TypeOK
  <1>2. app = "on" /\ taps' \in Nat /\ slipped' \in BOOLEAN
    BY <1>1, TouchCounts, SlipType DEF OpenForm, Tap
  <1>3. /\ UNCHANGED <<serverVars, current, app, base, tab, picking, requests,
                       replies, faults, revoked, typedOver>>
        /\ pushed' = f /\ forms' = Append(forms, NewForm)
    BY DEF OpenForm
  <1>4. NewForm \in Form
    BY <1>1 DEF NewForm, Form, ShownName, Base, UserModel
  <1>5. forms' \in Seq(Form) /\ Len(forms') = Len(forms) + 1 /\ Len(forms) \in Nat
    BY <1>1, <1>3, <1>4
  <1>6. Len(forms') >= Len(forms) /\ forms' # <<>>
    BY <1>5
  <1>7. requests' \in Seq(Request) /\ replies' \in Seq(Reply) /\ Calls' = Calls
    BY <1>1, <1>3, SameCalls
  <1>8. TypeOK'
    BY <1>1, <1>2, <1>3, <1>5, <1>6, <1>7 DEF TypeOK, serverVars
  <1>9. VisitsKnown'
    BY <1>2, <1>5, <1>6, <1>7, VisitsStay
  <1> QED BY <1>2, <1>3, <1>8, <1>9 DEF SessionTypes, QuietWhenOff

LEMMA BackTypes == ASSUME SessionTypes, Back PROVE SessionTypes'
  <1>1. TypeOK /\ base \in Base /\ app = "on"
    BY DEF SessionTypes, TypeOK, Back
  <1>2. /\ UNCHANGED <<serverVars, current, app, tab, picking, forms, replies, taps,
                       faults, histVars>>
        /\ pushed' = "root" /\ ProfileAppears(base, requests)
    BY DEF Back
  <1>3. /\ base' \in Base
        /\ \/ requests' = requests
           \/ /\ Req("getUser", current) \in Request
              /\ requests' = Append(requests, Req("getUser", current))
    BY <1>1, <1>2, AppearanceAsks
  <1> QED BY <1>1, <1>2, <1>3, ReadTypes, ScreenStep DEF TypeOK, histVars


LEMMA TypeNameTypes == ASSUME SessionTypes, TypeName PROVE SessionTypes'
  <1>1. TypeOK /\ forms \in Seq(Form)
    BY DEF SessionTypes, TypeOK
  <1>2. /\ UNCHANGED <<serverVars, current, app, base, uiVars, requests, replies,
                       taps, faults, histVars>>
        /\ app = "on" /\ pushed # "root"
    BY DEF TypeName, OnForm
  <1>3. PICK n \in Names : forms' = [forms EXCEPT ![Len(forms)].nameSurname = n]
    BY DEF TypeName
  <1> DEFINE f == [form EXCEPT !.nameSurname = n]
  <1>4. Len(forms) \in 1..Len(forms) /\ form \in Form
    BY <1>1, <1>2, LastVisit
  <1>5. f \in Form
    BY <1>4 DEF Form
  <1>6. forms' = [forms EXCEPT ![Len(forms)] = f]
    BY <1>3 DEF form
  <1> HIDE DEF f
  <1>7. forms' \in Seq(Form) /\ Len(forms') = Len(forms)
    BY <1>1, <1>4, <1>5, <1>6, FormChanged
  <1>8. requests' \in Seq(Request) /\ replies' \in Seq(Reply) /\ Calls' = Calls
    BY <1>1, <1>2, SameCalls
  <1> QED BY <1>1, <1>2, <1>7, <1>8, FormStep DEF TypeOK, uiVars, histVars

LEMMA TypePasswordTypes == ASSUME SessionTypes, TypePassword PROVE SessionTypes'
  <1>1. TypeOK /\ forms \in Seq(Form)
    BY DEF SessionTypes, TypeOK
  <1>2. /\ UNCHANGED <<serverVars, current, app, base, uiVars, requests, replies,
                       taps, faults, slipped, revoked>>
        /\ app = "on" /\ pushed # "root"
    BY DEF TypePassword, OnForm
  <1>3. PICK p \in Passwords :
          \/ forms' = [forms EXCEPT ![Len(forms)].newPassword = p]
          \/ forms' = [forms EXCEPT ![Len(forms)].newPasswordRetry = p]
    BY DEF TypePassword
  <1>4. typedOver' \in BOOLEAN
    BY <1>1, Zenon DEF TypePassword, TypeOK
  <1>5. Len(forms) \in 1..Len(forms) /\ form \in Form
    BY <1>1, <1>2, LastVisit
  <1>6. PICK f \in Form : forms' = [forms EXCEPT ![Len(forms)] = f]
    <2>1. CASE forms' = [forms EXCEPT ![Len(forms)].newPassword = p]
      <3>1. [form EXCEPT !.newPassword = p] \in Form
        BY <1>5 DEF Form
      <3> QED BY <2>1, <3>1 DEF form
    <2>2. CASE forms' = [forms EXCEPT ![Len(forms)].newPasswordRetry = p]
      <3>1. [form EXCEPT !.newPasswordRetry = p] \in Form
        BY <1>5 DEF Form
      <3> QED BY <2>2, <3>1 DEF form
    <2> QED BY <1>3, <2>1, <2>2
  <1>7. forms' \in Seq(Form) /\ Len(forms') = Len(forms)
    BY <1>1, <1>5, <1>6, FormChanged
  <1>8. requests' \in Seq(Request) /\ replies' \in Seq(Reply) /\ Calls' = Calls
    BY <1>1, <1>2, SameCalls
  <1> QED BY <1>1, <1>2, <1>4, <1>7, <1>8, FormStep DEF TypeOK, uiVars

(* The button of a form: the call, made for the current user, is of the      *)
(* last visit.                                                               *)
LEMMA FormCallTypes ==
    ASSUME SessionTypes, app = "on", pushed # "root", taps' \in Nat, NEW r,
           FormCalls(r), current # None => r \in Request /\ r.visit = Len(forms)
    PROVE  SessionTypes'
  <1>1. TypeOK /\ forms \in Seq(Form)
    BY DEF SessionTypes, TypeOK
  <1>2. /\ UNCHANGED <<serverVars, current, app, base, uiVars, replies, faults, histVars>>
        /\ forms' = [forms EXCEPT ![Len(forms)].isLoad = TRUE]
        /\ \/ current # None /\ requests' = Append(requests, r)
           \/ UNCHANGED requests
    BY DEF FormCalls
  <1> DEFINE f == [form EXCEPT !.isLoad = TRUE]
  <1>3. Len(forms) \in 1..Len(forms) /\ form \in Form
    BY <1>1, LastVisit
  <1>4. f \in Form
    BY <1>3 DEF Form
  <1>5. forms' = [forms EXCEPT ![Len(forms)] = f]
    BY <1>2 DEF form
  <1> HIDE DEF f
  <1>6. forms' \in Seq(Form) /\ Len(forms') = Len(forms)
    BY <1>1, <1>3, <1>4, <1>5, FormChanged
  <1>7. /\ requests' \in Seq(Request) /\ replies' \in Seq(Reply)
        /\ \A c \in Calls' \ Calls : c.visit \in 1..Len(forms)
    <2>1. CASE current # None /\ requests' = Append(requests, r)
      BY <1>1, <1>2, <1>3, <2>1, CallMade
    <2>2. CASE UNCHANGED requests
      BY <1>1, <1>2, <2>2, SameCalls
    <2> QED BY <1>2, <2>1, <2>2
  <1> QED BY <1>1, <1>2, <1>6, <1>7, FormStep DEF TypeOK, uiVars, histVars

LEMMA SaveNameTypes == ASSUME SessionTypes, updatePlayerData PROVE SessionTypes'
  <1> DEFINE r == [Req("setName", current) EXCEPT !.name = form.nameSurname,
                                                  !.visit = Len(forms)]
  <1>1. TypeOK /\ app = "on" /\ pushed # "root" /\ FormCalls(r)
    BY DEF SessionTypes, updatePlayerData, OnForm
  <1>2. taps' \in Nat
    BY <1>1, TouchCounts DEF updatePlayerData
  <1>3. Len(forms) \in 1..Len(forms) /\ form \in Form
    BY <1>1, LastVisit
  <1>4. Len(forms) \in Nat /\ form.nameSurname \in Names \cup {None}
    BY <1>3 DEF Form
  <1>5. current # None => r \in Request /\ r.visit = Len(forms)
    BY <1>1, <1>4 DEF TypeOK, Req, Request, DatabaseKinds
  <1> HIDE DEF r
  <1> QED BY <1>1, <1>2, <1>5, FormCallTypes

LEMMA SavePasswordTypes == ASSUME SessionTypes, updatePassword PROVE SessionTypes'
  <1>1. PICK p \in Passwords :
          FormCalls([Req("reauthenticate", current) EXCEPT !.text = p, !.visit = Len(forms)])
    BY DEF updatePassword
  <1> DEFINE r == [Req("reauthenticate", current) EXCEPT !.text = p, !.visit = Len(forms)]
  <1>2. TypeOK /\ app = "on" /\ pushed # "root" /\ FormCalls(r)
    BY <1>1 DEF SessionTypes, updatePassword, OnForm
  <1>3. taps' \in Nat
    BY <1>2, TouchCounts DEF updatePassword
  <1>4. Len(forms) \in Nat
    BY <1>2, LastVisit
  <1>5. current # None => r \in Request /\ r.visit = Len(forms)
    BY <1>2, <1>4 DEF TypeOK, Req, Request, AuthKinds
  <1> HIDE DEF r
  <1> QED BY <1>2, <1>3, <1>5, FormCallTypes

LEMMA UserTypes == ASSUME SessionTypes, User PROVE SessionTypes'
  BY LaunchTypes, ToMatchesTypes, ToAccountTypes, ToggleTypes, DismissTypes,
     LoginTypes, RegisterTypes, SignOutTypes, RefreshTypes, PickTypes, UploadTypes,
     OpenTypes, BackTypes, TypeNameTypes, TypePasswordTypes, SaveNameTypes,
     SavePasswordTypes DEF User


-----------------------------------------------------------------------------
(* Callbacks.                                                               *)

(* What a callback may do to the calls: nothing but end its own, or make     *)
(* the call r.                                                              *)
LEMMA CallbackStep ==
    ASSUME TypeOK, replies # <<>>, replies' = Tail(replies), NEW r,
           UNCHANGED requests \/ (r \in Request /\ requests' = Append(requests, r))
    PROVE  /\ requests' \in Seq(Request) /\ replies' \in Seq(Reply)
           /\ Calls' \subseteq Calls \cup {r}
           /\ UNCHANGED requests => Calls' \subseteq Calls
  <1>1. CASE UNCHANGED requests
    BY <1>1, CallbackRuns
  <1>2. CASE r \in Request /\ requests' = Append(requests, r)
    <2>1. requests' # requests
      <3>1. requests \in Seq(Request)
        BY DEF TypeOK
      <3>2. Len(requests') = Len(requests) + 1 /\ Len(requests) \in Nat
        BY <1>2, <3>1
      <3> QED BY <3>2
    <2> QED BY <1>2, <2>1, CallbackCalls
  <1> QED BY <1>1, <1>2

(* LoggedIn, and NotLoggedIn.                                               *)
LEMMA LoggedInShape ==
    ASSUME TypeOK, LoggedIn
    PROVE  /\ base' \in Base /\ base'.isLoggedIn
           /\ base'.userModel \in {None, base.userModel}
           /\ \/ requests' = requests
              \/ /\ Req("getUser", current) \in Request
                 /\ requests' = Append(requests, Req("getUser", current))
           /\ UNCHANGED <<pushed, picking>>
  <1> DEFINE b == [base EXCEPT !.isLoad = FALSE, !.isLoggedIn = TRUE]
  <1>1. b \in Base /\ b.isLoggedIn /\ b.userModel = base.userModel
    BY DEF TypeOK, Base
  <1>2. /\ ProfileAppears(b, requests) \/ (base' = b /\ requests' = requests)
        /\ UNCHANGED <<pushed, picking>>
    BY DEF LoggedIn
  <1> HIDE DEF b
  <1>3. CASE ProfileAppears(b, requests)
    BY <1>1, <1>2, <1>3, AppearanceAsks
  <1>4. CASE base' = b /\ requests' = requests
    BY <1>1, <1>2, <1>4
  <1> QED BY <1>2, <1>3, <1>4

LEMMA NotLoggedInShape ==
    ASSUME TypeOK, NotLoggedIn
    PROVE  /\ base' \in Base /\ ~base'.isLoggedIn /\ base'.userModel = base.userModel
           /\ UNCHANGED requests /\ pushed' = "root" /\ picking' = FALSE
  BY DEF TypeOK, Base, NotLoggedIn, Refused

(* A callback that touches no form keeps the types.                          *)
LEMMA CallbackTypes ==
    ASSUME SessionTypes, app = "on", replies # <<>>, replies' = Tail(replies),
           UNCHANGED <<forms, callbackUnchanged>>, base' \in Base,
           pushed' \in {"root", pushed}, picking' \in {FALSE, picking}, NEW r,
           UNCHANGED requests \/ (r \in Request /\ requests' = Append(requests, r)),
           r.kind \notin FormKinds
    PROVE  SessionTypes'
  <1>1. TypeOK
    BY DEF SessionTypes
  <1>2. /\ requests' \in Seq(Request) /\ replies' \in Seq(Reply)
        /\ Calls' \subseteq Calls \cup {r}
    BY <1>1, CallbackStep
  <1> QED BY <1>1, <1>2, ScreenStep DEF callbackUnchanged, TypeOK, histVars

LEMMA ReadIsNoFormCall == Req("getUser", current).kind \notin FormKinds
  BY DEF Req, FormKinds

LEMMA SignInAnswerTypes ==
    ASSUME SessionTypes, OnSignIn \/ OnUserWritten
    PROVE  SessionTypes'
  <1>1. /\ TypeOK /\ app = "on" /\ replies # <<>> /\ replies' = Tail(replies)
        /\ UNCHANGED <<forms, callbackUnchanged>>
        /\ LoggedIn \/ NotLoggedIn
    BY DEF SessionTypes, OnSignIn, OnUserWritten, Answered
  <1>2. CASE LoggedIn
    BY <1>1, <1>2, LoggedInShape, ReadIsNoFormCall, CallbackTypes
  <1>3. CASE NotLoggedIn
    BY <1>1, <1>3, NotLoggedInShape, ReadIsNoFormCall, CallbackTypes
  <1> QED BY <1>1, <1>2, <1>3

LEMMA UserCreatedTypes == ASSUME SessionTypes, OnUserCreated PROVE SessionTypes'
  <1> DEFINE a == Head(replies)
             r == [Req("setUser", current) EXCEPT !.name = a.req.name]
  <1>1. /\ TypeOK /\ app = "on" /\ replies # <<>> /\ replies' = Tail(replies)
        /\ UNCHANGED <<forms, callbackUnchanged>>
    BY DEF SessionTypes, OnUserCreated, Answered
  <1>2. a \in Reply
    BY <1>1, FirstAnswer
  <1>3. r.kind \notin FormKinds
    BY DEF Req, FormKinds
  <1>4. CASE /\ current # None /\ requests' = Append(requests, r)
             /\ UNCHANGED <<base, pushed, picking>>
    <2>1. r \in Request
      BY <1>1, <1>2, <1>4 DEF TypeOK, Reply, Req, Request, DatabaseKinds
    <2>2. base' \in Base
      BY <1>1, <1>4 DEF TypeOK
    <2> HIDE DEF r, a
    <2> QED BY <1>1, <1>3, <1>4, <2>1, <2>2, CallbackTypes
  <1>5. CASE NotLoggedIn
    BY <1>1, <1>5, NotLoggedInShape, ReadIsNoFormCall, CallbackTypes
  <1> QED BY <1>4, <1>5 DEF OnUserCreated

LEMMA UserReadTypes == ASSUME SessionTypes, OnUserRead PROVE SessionTypes'
  <1> DEFINE a == Head(replies)
             u == IF a.ok /\ a.profile # EmptyProfile
                  THEN ParsedUser(a.req.account, a.profile) ELSE None
  <1>1. /\ TypeOK /\ app = "on" /\ replies # <<>> /\ replies' = Tail(replies)
        /\ UNCHANGED <<pushed, picking, forms, requests, callbackUnchanged>>
        /\ base' = [base EXCEPT !.isLoad = FALSE, !.userModel = u]
    BY DEF SessionTypes, OnUserRead, Answered
  <1>2. a \in Reply
    BY <1>1, FirstAnswer
  <1>3. u \in UserModel \cup {None}
    BY <1>2 DEF Reply, Request, Profile, ParsedUser, UserModel
  <1> HIDE DEF u
  <1>4. base' \in Base
    BY <1>1, <1>3 DEF TypeOK, Base
  <1> QED BY <1>1, <1>4, ReadIsNoFormCall, CallbackTypes

(* The two callbacks of the upload that make the next call.                  *)
LEMMA NextUploadTypes ==
    ASSUME SessionTypes, app = "on", replies # <<>>, replies' = Tail(replies),
           UNCHANGED <<pushed, picking, forms, callbackUnchanged>>,
           NEW r \in Request, r.kind \notin FormKinds, NextUpload(r)
    PROVE  SessionTypes'
  <1>1. TypeOK
    BY DEF SessionTypes
  <1>2. base' \in Base /\ (requests' = Append(requests, r) \/ UNCHANGED requests)
    BY <1>1 DEF NextUpload, TypeOK, Base
  <1> QED BY <1>2, CallbackTypes

LEMMA UploadAnswerTypes == ASSUME SessionTypes, OnUploaded PROVE SessionTypes'
  <1> DEFINE r == Req("downloadURL", Head(replies).req.account)
  <1>1. /\ TypeOK /\ app = "on" /\ replies # <<>> /\ replies' = Tail(replies)
        /\ UNCHANGED <<pushed, picking, forms, callbackUnchanged>> /\ NextUpload(r)
    BY DEF SessionTypes, OnUploaded, Answered
  <1>2. Head(replies).req.account \in Accounts
    BY <1>1, FirstAnswer DEF Reply, Request
  <1>3. r \in Request /\ r.kind \notin FormKinds
    BY <1>2 DEF Req, Request, StorageKinds, FormKinds
  <1> HIDE DEF r
  <1> QED BY <1>1, <1>3, NextUploadTypes

LEMMA AddressTypes == ASSUME SessionTypes, OnDownloadURL PROVE SessionTypes'
  <1> DEFINE a == Head(replies).req.account
             r == [Req("setPicture", a) EXCEPT !.picture = a]
  <1>1. /\ TypeOK /\ app = "on" /\ replies # <<>> /\ replies' = Tail(replies)
        /\ UNCHANGED <<pushed, picking, forms, callbackUnchanged>> /\ NextUpload(r)
    BY DEF SessionTypes, OnDownloadURL, Answered
  <1>2. a \in Accounts
    BY <1>1, FirstAnswer DEF Reply, Request
  <1>3. r \in Request /\ r.kind \notin FormKinds
    BY <1>2 DEF Req, Request, DatabaseKinds, FormKinds
  <1> HIDE DEF r, a
  <1> QED BY <1>1, <1>3, NextUploadTypes

LEMMA PictureTypes == ASSUME SessionTypes, OnPictureWritten PROVE SessionTypes'
  <1> DEFINE a == Head(replies)
             u == IF a.ok /\ base.userModel # None
                  THEN [base.userModel EXCEPT !.picture = a.req.picture]
                  ELSE base.userModel
  <1>1. /\ TypeOK /\ app = "on" /\ replies # <<>> /\ replies' = Tail(replies)
        /\ UNCHANGED <<pushed, picking, forms, requests, callbackUnchanged>>
        /\ base' = [base EXCEPT !.isLoad = FALSE, !.userModel = u]
    BY DEF SessionTypes, OnPictureWritten, Answered
  <1>2. a.req.picture \in Accounts \cup {None}
    BY <1>1, FirstAnswer DEF Reply, Request
  <1>3. base.userModel \in UserModel \cup {None}
    BY <1>1 DEF TypeOK, Base
  <1>4. u \in UserModel \cup {None}
    BY <1>2, <1>3 DEF UserModel
  <1> HIDE DEF u, a
  <1>5. base' \in Base
    BY <1>1, <1>4 DEF TypeOK, Base
  <1> QED BY <1>1, <1>5, ReadIsNoFormCall, CallbackTypes

(* The form of a visit is told.                                              *)
LEMMA FormToldShape ==
    ASSUME TypeOK, NEW v \in 1..Len(forms), NEW alert \in {"error", "success"},
           FormTold(v, alert)
    PROVE  /\ forms' \in Seq(Form) /\ Len(forms') = Len(forms)
           /\ \A w \in 1..Len(forms) : forms'[w].newPassword = forms[w].newPassword
  <1> DEFINE f == [forms[v] EXCEPT !.isLoad = FALSE, !.alerts = @ \cup {alert}]
  <1>1. forms \in Seq(Form) /\ forms[v] \in Form
    BY DEF TypeOK
  <1>2. f \in Form /\ f.newPassword = forms[v].newPassword
    BY <1>1 DEF Form
  <1>3. forms' = [forms EXCEPT ![v] = f]
    BY <1>1 DEF FormTold
  <1> HIDE DEF f
  <1>4. /\ forms' \in Seq(Form) /\ Len(forms') = Len(forms)
        /\ \A w \in 1..Len(forms) : forms'[w] = IF w = v THEN f ELSE forms[w]
    BY <1>1, <1>2, <1>3, FormChanged
  <1> QED BY <1>2, <1>4

LEMMA ReauthenticatedTypes == ASSUME SessionTypes, OnReauthenticated PROVE SessionTypes'
  <1> DEFINE a == Head(replies)
             r == [Req("updatePassword", a.req.account) EXCEPT
                     !.text = forms[a.req.visit].newPassword, !.visit = a.req.visit]
  <1>1. /\ TypeOK /\ app = "on" /\ replies # <<>> /\ replies' = Tail(replies)
        /\ UNCHANGED <<base, pushed, picking, callbackUnchanged>>
        /\ a.req.kind = "reauthenticate" /\ forms \in Seq(Form)
    BY DEF SessionTypes, OnReauthenticated, Answered, TypeOK
  <1>2. a \in Reply /\ a.req \in Calls
    BY <1>1, FirstAnswer
  <1>3. a.req.visit \in 1..Len(forms) /\ a.req.account \in Accounts
    BY <1>1, <1>2 DEF SessionTypes, VisitsKnown, FormKinds, Reply, Request
  <1>4. forms[a.req.visit].newPassword \in Passwords \cup {None} /\ a.req.visit \in Nat
    <2>1. forms[a.req.visit] \in Form /\ a.req.visit \in Nat
      BY <1>1, <1>3
    <2> HIDE DEF a
    <2> QED BY <2>1 DEF Form
  <1>5. r \in Request /\ r.visit \in 1..Len(forms)
    BY <1>3, <1>4 DEF Req, Request, AuthKinds
  <1> HIDE DEF r
  <1>6. CASE requests' = Append(requests, r) /\ UNCHANGED forms
    <2>1. /\ requests' \in Seq(Request) /\ replies' \in Seq(Reply)
          /\ Calls' \subseteq Calls \cup {r}
      BY <1>1, <1>5, <1>6, CallbackCalls
    <2> QED BY <1>1, <1>5, <1>6, <2>1, FormStep DEF TypeOK, callbackUnchanged, histVars
  <1>7. CASE FormTold(a.req.visit, "error") /\ UNCHANGED requests
    <2>1. /\ requests' \in Seq(Request) /\ replies' \in Seq(Reply)
          /\ Calls' \subseteq Calls
      BY <1>1, <1>7, CallbackRuns
    <2>2. forms' \in Seq(Form) /\ Len(forms') = Len(forms)
      BY <1>1, <1>3, <1>7, FormToldShape
    <2> QED BY <1>1, <2>1, <2>2, FormStep DEF TypeOK, callbackUnchanged, histVars
  <1> QED BY <1>6, <1>7 DEF OnReauthenticated, r

LEMMA FormWrittenTypes ==
    ASSUME SessionTypes, NEW kind \in {"updatePassword", "setName"}, OnFormWritten(kind)
    PROVE  SessionTypes'
  <1> DEFINE a == Head(replies)
  <1>1. /\ TypeOK /\ app = "on" /\ replies # <<>> /\ replies' = Tail(replies)
        /\ UNCHANGED <<base, pushed, picking, requests, callbackUnchanged>>
        /\ a.req.kind = kind
        /\ \E alert \in {"error", "success"} : FormTold(a.req.visit, alert)
    BY DEF SessionTypes, OnFormWritten, Answered
  <1>2. a \in Reply /\ a.req \in Calls
    BY <1>1, FirstAnswer
  <1>3. a.req.visit \in 1..Len(forms)
    BY <1>1, <1>2 DEF SessionTypes, VisitsKnown, FormKinds
  <1>4. /\ requests' \in Seq(Request) /\ replies' \in Seq(Reply) /\ Calls' \subseteq Calls
    BY <1>1, CallbackRuns
  <1>5. forms' \in Seq(Form) /\ Len(forms') = Len(forms)
    BY <1>1, <1>3, FormToldShape
  <1> QED BY <1>1, <1>4, <1>5, FormStep DEF TypeOK, callbackUnchanged, histVars

LEMMA AllCallbackTypes == ASSUME SessionTypes, Callback PROVE SessionTypes'
  BY SignInAnswerTypes, UserCreatedTypes, UserReadTypes, UploadAnswerTypes,
     AddressTypes, PictureTypes, ReauthenticatedTypes, FormWrittenTypes DEF Callback


-----------------------------------------------------------------------------
(* The services, faults, and the whole.                                      *)

(* A reply carries the profile of the account, and a call that is handled    *)
(* leaves profiles and passwords typed.                                      *)
LEMMA ServeShape ==
    ASSUME TypeOK, NEW i \in 1..Len(requests), NEW r, r = requests[i],
           password' = IF Accepted(r) /\ r.kind \in {"createUser", "updatePassword"}
                       THEN [password EXCEPT ![r.account] = r.text] ELSE password,
           users' = [users EXCEPT ![r.account] = Written(@, r)]
    PROVE  /\ r \in Request /\ r.account \in Accounts
           /\ users[r.account] \in Profile /\ users' \in [Accounts -> Profile]
           /\ password' \in [Accounts -> Passwords \cup {None}]
  <1>1. /\ r \in Request /\ users \in [Accounts -> Profile]
        /\ password \in [Accounts -> Passwords \cup {None}]
    BY DEF TypeOK
  <1>2. /\ r.account \in Accounts /\ r.name \in Names \cup {None}
        /\ r.picture \in Accounts \cup {None} /\ r.text \in Passwords \cup {None}
    BY <1>1 DEF Request
  <1>3. users[r.account] \in Profile
    BY <1>1, <1>2
  <1>4. Written(users[r.account], r) \in Profile
    <2>1. CASE r.kind = "setUser"
      BY <1>2, <2>1 DEF Written, Registered, Profile
    <2>2. CASE r.kind = "setPicture"
      BY <1>2, <1>3, <2>2 DEF Written, Profile
    <2>3. CASE r.kind = "setName"
      BY <1>2, <1>3, <2>3 DEF Written, Profile
    <2>4. CASE r.kind \notin {"setUser", "setPicture", "setName"}
      BY <1>3, <2>4 DEF Written
    <2> QED BY <2>1, <2>2, <2>3, <2>4
  <1>5. users' \in [Accounts -> Profile]
    BY <1>1, <1>2, <1>4
  <1>6. password' \in [Accounts -> Passwords \cup {None}]
    BY <1>1, <1>2
  <1> QED BY <1>1, <1>2, <1>3, <1>5, <1>6


LEMMA AcceptedType == \A r : Accepted(r) \in BOOLEAN
  <1> SUFFICES ASSUME NEW r PROVE Accepted(r) \in BOOLEAN
    OBVIOUS
  <1>1. CASE r.kind \in {"signIn", "reauthenticate"}
    BY <1>1 DEF Accepted
  <1>2. CASE r.kind = "createUser"
    BY <1>2 DEF Accepted
  <1>3. CASE r.kind = "updatePassword"
    BY <1>3 DEF Accepted
  <1>4. CASE r.kind \notin {"signIn", "reauthenticate", "createUser", "updatePassword"}
    BY <1>4 DEF Accepted
  <1> QED BY <1>1, <1>2, <1>3, <1>4

LEMMA ServeTypes == ASSUME SessionTypes, Serve PROVE SessionTypes'
  <1>1. TypeOK
    BY DEF SessionTypes
  <1>2. PICK i \in 1..Len(requests) :
          LET r == requests[i] IN
          /\ requests' = Without(i)
          /\ Answer(r, Accepted(r), users[r.account])
          /\ password' = IF Accepted(r) /\ r.kind \in {"createUser", "updatePassword"}
                         THEN [password EXCEPT ![r.account] = r.text] ELSE password
          /\ users' = [users EXCEPT ![r.account] = Written(@, r)]
          /\ current' = IF /\ app = "on" /\ Accepted(r)
                           /\ r.kind \in {"signIn", "createUser"}
                        THEN r.account ELSE current
          /\ UNCHANGED <<faults, serviceUnchanged>>
    BY DEF Serve
  <1> DEFINE r == requests[i]
  <1>3. /\ r \in Request /\ r.account \in Accounts
        /\ users[r.account] \in Profile /\ users' \in [Accounts -> Profile]
        /\ password' \in [Accounts -> Passwords \cup {None}]
    BY <1>1, <1>2, ServeShape
  <1>4. Accepted(r) \in BOOLEAN
    BY AcceptedType
  <1>5. /\ requests' \in Seq(Request) /\ replies' \in Seq(Reply)
        /\ Calls' \subseteq Calls /\ (app = "off" => replies' = replies)
    BY <1>1, <1>2, <1>3, <1>4, CallAnswered
  <1>6. current' \in Accounts \cup {None}
    BY <1>1, <1>2, <1>3 DEF TypeOK
  <1>7. UNCHANGED <<app, base, uiVars, forms, taps, faults, histVars>>
    BY <1>2 DEF serviceUnchanged
  <1>8. TypeOK'
    BY <1>1, <1>3, <1>5, <1>6, <1>7 DEF TypeOK, uiVars, histVars
  <1> QED BY <1>5, <1>7, <1>8 DEF SessionTypes, QuietWhenOff, VisitsKnown, uiVars

LEMMA FailTypes == ASSUME SessionTypes, Fail PROVE SessionTypes'
  <1>1. TypeOK /\ app = "on" /\ UNCHANGED <<serverVars, current, serviceUnchanged>>
    BY DEF SessionTypes, Fail
  <1>2. PICK i \in 1..Len(requests) :
          requests' = Without(i) /\ Answer(requests[i], FALSE, EmptyProfile)
    BY DEF Fail
  <1>3. EmptyProfile \in Profile
    BY DEF EmptyProfile, Profile
  <1>4. requests' \in Seq(Request) /\ replies' \in Seq(Reply) /\ Calls' \subseteq Calls
    BY <1>1, <1>2, <1>3, CallAnswered
  <1>5. faults' \in Nat
    BY <1>1, FaultCounts DEF Fail
  <1>6. TypeOK'
    BY <1>1, <1>4, <1>5 DEF TypeOK, serviceUnchanged, serverVars, uiVars, histVars
  <1> QED BY <1>1, <1>4, <1>6
          DEF SessionTypes, QuietWhenOff, VisitsKnown, serviceUnchanged

LEMMA RevokeTypes == ASSUME SessionTypes, Revoke PROVE SessionTypes'
  <1>1. /\ TypeOK /\ current' = None /\ revoked' = TRUE
        /\ UNCHANGED <<serverVars, app, base, uiVars, forms, requests, replies, taps,
                       slipped, typedOver>>
    BY DEF SessionTypes, Revoke
  <1>2. faults' \in Nat
    BY <1>1, FaultCounts DEF Revoke
  <1>3. TypeOK'
    BY <1>1, <1>2 DEF TypeOK, serverVars, uiVars
  <1> QED BY <1>1, <1>3 DEF SessionTypes, QuietWhenOff, VisitsKnown, Calls, uiVars

LEMMA QuitTypes == ASSUME SessionTypes, Quit PROVE SessionTypes'
  <1>1. /\ TypeOK /\ app' = "off" /\ base' = NewBase /\ pushed' = "root"
        /\ picking' = FALSE /\ forms' = <<>> /\ replies' = <<>>
        /\ UNCHANGED <<serverVars, current, tab, requests, taps, histVars>>
    BY DEF SessionTypes, Quit
  <1>2. faults' \in Nat
    BY <1>1, FaultCounts DEF Quit
  <1>3. base' \in Base /\ base'.userModel = None
    BY <1>1 DEF NewBase, Base
  <1>4. forms' \in Seq(Form) /\ replies' \in Seq(Reply)
    BY <1>1
  <1>5. TypeOK'
    BY <1>1, <1>2, <1>3, <1>4 DEF TypeOK, serverVars, histVars
  <1> QED BY <1>1, <1>3, <1>5 DEF SessionTypes, QuietWhenOff, VisitsKnown

LEMMA NeverLeftTypes == ASSUME SessionTypes, NeverLeft PROVE SessionTypes'
  <1>1. /\ TypeOK /\ app = "off"
        /\ UNCHANGED <<serverVars, current, app, base, uiVars, forms, replies, taps,
                       faults, histVars>>
    BY DEF SessionTypes, NeverLeft
  <1>2. requests' \in Seq(Request)
    BY <1>1, CallTaken DEF NeverLeft
  <1>3. TypeOK'
    BY <1>1, <1>2 DEF TypeOK, serverVars, uiVars, histVars
  <1> QED BY <1>1, <1>3 DEF SessionTypes, QuietWhenOff, VisitsKnown, uiVars

LEMMA StutterTypes == ASSUME SessionTypes, UNCHANGED vars PROVE SessionTypes'
  <1>1. TypeOK'
    BY DEF SessionTypes, TypeOK, vars, serverVars, uiVars, histVars
  <1> QED BY <1>1 DEF SessionTypes, QuietWhenOff, VisitsKnown, Calls, vars, uiVars

LEMMA InitTypes == Init => SessionTypes
  <1> SUFFICES ASSUME Init PROVE SessionTypes
    OBVIOUS
  <1>1. base \in Base /\ base.userModel = None
    BY DEF Init, NewBase, Base
  <1>2. Registered(FirstName) \in Profile /\ EmptyProfile \in Profile
    BY FirstType DEF Registered, EmptyProfile, Profile
  <1>3. /\ password \in [Accounts -> Passwords \cup {None}]
        /\ users \in [Accounts -> Profile]
        /\ current \in Accounts \cup {None}
    BY <1>2, FirstType DEF Init
  <1>4. /\ forms \in Seq(Form) /\ requests \in Seq(Request) /\ replies \in Seq(Reply)
        /\ taps \in Nat /\ faults \in Nat
    BY DEF Init
  <1>5. TypeOK
    BY <1>1, <1>3, <1>4, Zenon DEF Init, TypeOK
  <1> QED BY <1>1, <1>5 DEF SessionTypes, Init, QuietWhenOff, VisitsKnown

LEMMA NextTypes == SessionTypes /\ [Next]_vars => SessionTypes'
  BY UserTypes, AllCallbackTypes, ServeTypes, FailTypes, RevokeTypes, QuitTypes,
     NeverLeftTypes, StutterTypes DEF Next

(* Every variable of the account tab keeps its type: every call is made for  *)
(* an account, although any callback may find that nobody is signed in any   *)
(* more, and every form's answer belongs to a visit.                         *)
THEOREM SessionTyped == Spec => []TypeOK
  <1>1. SessionTypes => TypeOK
    BY DEF SessionTypes
  <1> QED BY InitTypes, NextTypes, <1>1, PTL DEF Spec


-----------------------------------------------------------------------------
(* Passwords.                                                                *)

(* Calls of these kinds carry a password that is to be set, or lead to one.  *)
CheckedKinds == {"createUser", "updatePassword", "reauthenticate"}

(* A step that sets no password and leaves the new passwords in the forms.   *)
LEMMA ChecksStay ==
    ASSUME SessionTypes, CheckedInv, app = "on", UNCHANGED password,
           ~typedOver' => ~typedOver,
           \A w \in 1..Len(forms) : forms'[w].newPassword = forms[w].newPassword,
           \A c \in Calls' \ Calls :
              /\ c.kind \in {"createUser", "updatePassword"} =>
                    typedOver \/ Length[c.text] = 6
              /\ c.kind = "reauthenticate" => Length[forms'[c.visit].newPassword] = 6
    PROVE  CheckedInv'
  <1> SUFFICES ASSUME ~typedOver' PROVE Checked'
    BY DEF CheckedInv
  <1>1. Checked /\ ~typedOver
    BY DEF CheckedInv
  <1>2. \A a \in Accounts : password'[a] # None => Length[password'[a]] = 6
    BY <1>1 DEF Checked
  <1>3. ASSUME NEW c \in Calls'
        PROVE  /\ c.kind \in {"createUser", "updatePassword"} => Length[c.text] = 6
               /\ c.kind = "reauthenticate" => Length[forms'[c.visit].newPassword] = 6
    <2>1. CASE c \in Calls
      <3>1. c.kind = "reauthenticate" => c.visit \in 1..Len(forms)
        BY <2>1 DEF SessionTypes, VisitsKnown, FormKinds
      <3> QED BY <1>1, <2>1, <3>1 DEF Checked
    <2>2. CASE c \notin Calls
      BY <1>1, <1>3, <2>2
    <2> QED BY <2>1, <2>2
  <1> QED BY <1>2, <1>3 DEF Checked

(* The same for a step that leaves the forms alone and makes other calls.    *)
LEMMA OtherCallsStay ==
    ASSUME SessionTypes, CheckedInv, app = "on",
           UNCHANGED <<password, forms, typedOver>>,
           \A c \in Calls' \ Calls : c.kind \notin CheckedKinds
    PROVE  CheckedInv'
  BY ChecksStay DEF CheckedKinds

LEMMA RequestKind == \A kind, a : Req(kind, a).kind = kind
  BY DEF Req

(* The calls of a profile that appears or is read again.                     *)
LEMMA ReadChecks ==
    ASSUME SessionTypes, CheckedInv, app = "on",
           UNCHANGED <<replies, password, forms, typedOver>>,
           \/ requests' = requests
           \/ /\ Req("getUser", current) \in Request
              /\ requests' = Append(requests, Req("getUser", current))
    PROVE  CheckedInv'
  <1>1. Calls' \subseteq Calls \cup {Req("getUser", current)}
    BY ReadTypes
  <1> QED BY <1>1, RequestKind, OtherCallsStay DEF CheckedKinds

(* A callback that leaves the forms alone and makes another call at most.    *)
LEMMA CallbackChecks ==
    ASSUME SessionTypes, CheckedInv, app = "on", replies # <<>>, replies' = Tail(replies),
           UNCHANGED <<forms, callbackUnchanged>>, NEW r, r.kind \notin CheckedKinds,
           UNCHANGED requests \/ (r \in Request /\ requests' = Append(requests, r))
    PROVE  CheckedInv'
  <1>1. TypeOK
    BY DEF SessionTypes
  <1>2. Calls' \subseteq Calls \cup {r}
    BY <1>1, CallbackStep
  <1> QED BY <1>2, OtherCallsStay DEF callbackUnchanged, serverVars, histVars

(* A form changes and keeps its new password.                                *)
LEMMA FieldKept ==
    ASSUME TypeOK, pushed # "root", NEW f \in Form, f.newPassword = form.newPassword,
           forms' = [forms EXCEPT ![Len(forms)] = f]
    PROVE  \A w \in 1..Len(forms) : forms'[w].newPassword = forms[w].newPassword
  <1>1. forms \in Seq(Form) /\ Len(forms) \in 1..Len(forms)
    BY LastVisit DEF TypeOK
  <1>2. \A w \in 1..Len(forms) : forms'[w] = IF w = Len(forms) THEN f ELSE forms[w]
    BY <1>1, FormChanged
  <1> QED BY <1>2 DEF form

LEMMA LaunchChecks == ASSUME SessionTypes, CheckedInv, Launch PROVE CheckedInv'
  <1>1. /\ TypeOK /\ requests = <<>> /\ replies = <<>>
        /\ UNCHANGED <<serverVars, forms, replies, histVars>>
    BY DEF SessionTypes, QuietWhenOff, Launch
  <1>2. NewBase \in Base /\ getCurrentUserData(NewBase, requests)
    BY DEF NewBase, Base, Launch
  <1>3. Calls = {} /\ Calls' \subseteq Calls \cup {Req("getUser", current)}
    BY <1>1, <1>2, UserDataAsked, ReadTypes DEF Calls
  <1> QED BY <1>1, <1>3, RequestKind DEF CheckedInv, Checked, serverVars, histVars

LEMMA ToAccountChecks == ASSUME SessionTypes, CheckedInv, ToAccount PROVE CheckedInv'
  <1>1. /\ TypeOK /\ base \in Base /\ app = "on"
        /\ UNCHANGED <<password, replies, typedOver>>
    BY DEF SessionTypes, TypeOK, ToAccount, Touch, serverVars, histVars
  <1>2. CASE ProfileAppears(base, requests) /\ UNCHANGED forms
    BY <1>1, <1>2, AppearanceAsks, ReadChecks
  <1>3. CASE /\ pushed = "profile" /\ UNCHANGED <<base, requests>>
             /\ forms' = [forms EXCEPT ![Len(forms)].nameSurname = ShownName]
    <2>1. form \in Form
      BY <1>1, <1>3, LastVisit
    <2>2. ShownName \in Names \cup {None}
      BY <1>1 DEF ShownName, Base, UserModel
    <2> DEFINE f == [form EXCEPT !.nameSurname = ShownName]
    <2>3. f \in Form /\ f.newPassword = form.newPassword
      BY <2>1, <2>2 DEF Form
    <2>4. forms' = [forms EXCEPT ![Len(forms)] = f]
      BY <1>3 DEF form
    <2> HIDE DEF f
    <2>5. \A w \in 1..Len(forms) : forms'[w].newPassword = forms[w].newPassword
      BY <1>1, <1>3, <2>3, <2>4, FieldKept
    <2> QED BY <1>1, <1>3, <2>5, SameCalls, ChecksStay
  <1>4. CASE UNCHANGED <<base, requests, forms>>
    BY <1>1, <1>4, SameCalls, OtherCallsStay
  <1> QED BY <1>2, <1>3, <1>4 DEF ToAccount

LEMMA DismissChecks == ASSUME SessionTypes, CheckedInv, DismissAlert PROVE CheckedInv'
  <1>1. /\ TypeOK /\ app = "on" /\ UNCHANGED <<password, requests, replies, typedOver>>
    BY DEF SessionTypes, DismissAlert, serverVars, histVars
  <1>2. CASE UNCHANGED forms
    BY <1>1, <1>2, SameCalls, OtherCallsStay
  <1>3. CASE /\ pushed # "root"
             /\ \E a \in forms[Len(forms)].alerts :
                   forms' = [forms EXCEPT ![Len(forms)].alerts = @ \ {a}]
    <2>1. PICK a : forms' = [forms EXCEPT ![Len(forms)].alerts = @ \ {a}]
      BY <1>3
    <2>2. form \in Form
      BY <1>1, <1>3, LastVisit
    <2> DEFINE f == [form EXCEPT !.alerts = @ \ {a}]
    <2>3. f \in Form /\ f.newPassword = form.newPassword
      BY <2>2 DEF Form
    <2>4. forms' = [forms EXCEPT ![Len(forms)] = f]
      BY <2>1 DEF form
    <2> HIDE DEF f
    <2>5. \A w \in 1..Len(forms) : forms'[w].newPassword = forms[w].newPassword
      BY <1>1, <1>3, <2>3, <2>4, FieldKept
    <2> QED BY <1>1, <2>5, SameCalls, ChecksStay
  <1> QED BY <1>2, <1>3 DEF DismissAlert

LEMMA LoginChecks == ASSUME SessionTypes, CheckedInv, login PROVE CheckedInv'
  <1>1. /\ TypeOK /\ app = "on" /\ UNCHANGED <<password, replies, forms, typedOver>>
    BY DEF SessionTypes, login, Tap, Touch, serverVars
  <1>2. PICK a \in Accounts, p \in Passwords :
          requests' = Append(requests, [Req("signIn", a) EXCEPT !.text = p])
    BY DEF login
  <1> DEFINE r == [Req("signIn", a) EXCEPT !.text = p]
  <1>3. r \in Request /\ r.kind \notin CheckedKinds
    BY DEF Req, Request, AuthKinds, CheckedKinds
  <1> HIDE DEF r
  <1>4. Calls' = Calls \cup {r}
    BY <1>1, <1>2, <1>3, CallMade DEF r
  <1> QED BY <1>1, <1>3, <1>4, OtherCallsStay

LEMMA RegisterChecks == ASSUME SessionTypes, CheckedInv, register PROVE CheckedInv'
  <1>1. /\ TypeOK /\ app = "on" /\ UNCHANGED <<password, replies, forms, typedOver>>
    BY DEF SessionTypes, register, Tap, Touch, serverVars
  <1>2. PICK a \in Accounts, p \in Passwords, n \in Names :
          /\ Length[p] = 6
          /\ requests' = Append(requests, [Req("createUser", a) EXCEPT !.text = p, !.name = n])
    BY DEF register
  <1> DEFINE r == [Req("createUser", a) EXCEPT !.text = p, !.name = n]
  <1>3. r \in Request /\ r.kind = "createUser" /\ Length[r.text] = 6
    BY <1>2 DEF Req, Request, AuthKinds
  <1> HIDE DEF r
  <1>4. Calls' = Calls \cup {r}
    BY <1>1, <1>2, <1>3, CallMade DEF r
  <1> QED BY <1>1, <1>3, <1>4, ChecksStay

(* Gestures that make no call, or read the profile, and leave the forms.     *)
LEMMA QuietChecks ==
    ASSUME SessionTypes, CheckedInv,
           ToMatches \/ ToggleRegister \/ signOut \/ PickImage \/ RefreshProfile \/ Back
    PROVE  CheckedInv'
  <1>1. TypeOK /\ base \in Base
    BY DEF SessionTypes, TypeOK
  <1>2. CASE ToMatches \/ ToggleRegister \/ signOut \/ PickImage
    <2>1. app = "on" /\ UNCHANGED <<password, forms, requests, replies, typedOver>>
      BY <1>2 DEF ToMatches, ToggleRegister, signOut, PickImage, Tap, Touch,
                  Uncovered, AtRoot, serverVars, histVars
    <2> QED BY <1>1, <2>1, SameCalls, OtherCallsStay
  <1>3. CASE RefreshProfile \/ Back
    <2>1. app = "on" /\ UNCHANGED <<password, forms, replies, typedOver>>
      BY <1>3 DEF RefreshProfile, Back, Tap, Touch, serverVars, histVars
    <2>2. getCurrentUserData(base, requests) \/ ProfileAppears(base, requests)
      BY <1>3 DEF RefreshProfile, Back
    <2> QED BY <1>1, <2>1, <2>2, UserDataAsked, AppearanceAsks, ReadChecks
  <1> QED BY <1>2, <1>3

LEMMA UploadChecks == ASSUME SessionTypes, CheckedInv, loadProfileImage PROVE CheckedInv'
  <1>1. /\ TypeOK /\ app = "on" /\ UNCHANGED <<password, replies, forms, typedOver>>
    BY DEF SessionTypes, loadProfileImage, serverVars, histVars
  <1>2. CASE current # None /\ requests' = Append(requests, Req("putData", current))
    <2>1. Req("putData", current) \in Request
      BY <1>1, <1>2, RequestType DEF TypeOK, StorageKinds
    <2>2. Calls' = Calls \cup {Req("putData", current)}
      BY <1>1, <1>2, <2>1, CallMade
    <2> QED BY <1>1, <2>2, RequestKind, OtherCallsStay DEF CheckedKinds
  <1>3. CASE UNCHANGED requests
    BY <1>1, <1>3, SameCalls, OtherCallsStay
  <1> QED BY <1>2, <1>3 DEF loadProfileImage

LEMMA OpenChecks ==
    ASSUME SessionTypes, CheckedInv, NEW f, OpenForm(f)
    PROVE  CheckedInv'
  <1>1. /\ TypeOK /\ base \in Base /\ forms \in Seq(Form) /\ app = "on"
        /\ UNCHANGED <<password, requests, replies, typedOver>>
        /\ forms' = Append(forms, NewForm)
    BY DEF SessionTypes, TypeOK, OpenForm, Tap, Touch, serverVars
  <1>2. NewForm \in Form
    BY <1>1 DEF NewForm, Form, ShownName, Base, UserModel
  <1>3. \A w \in 1..Len(forms) : forms'[w] = forms[w]
    BY <1>1, <1>2
  <1> QED BY <1>1, <1>3, SameCalls, ChecksStay

LEMMA TypeNameChecks == ASSUME SessionTypes, CheckedInv, TypeName PROVE CheckedInv'
  <1>1. /\ TypeOK /\ app = "on" /\ pushed # "root"
        /\ UNCHANGED <<password, requests, replies, typedOver>>
    BY DEF SessionTypes, TypeName, OnForm, serverVars, histVars
  <1>2. PICK n \in Names : forms' = [forms EXCEPT ![Len(forms)].nameSurname = n]
    BY DEF TypeName
  <1>3. form \in Form
    BY <1>1, LastVisit
  <1> DEFINE f == [form EXCEPT !.nameSurname = n]
  <1>4. f \in Form /\ f.newPassword = form.newPassword
    BY <1>3 DEF Form
  <1>5. forms' = [forms EXCEPT ![Len(forms)] = f]
    BY <1>2 DEF form
  <1> HIDE DEF f
  <1>6. \A w \in 1..Len(forms) : forms'[w].newPassword = forms[w].newPassword
    BY <1>1, <1>4, <1>5, FieldKept
  <1> QED BY <1>1, <1>6, SameCalls, ChecksStay

(* The new password may be typed over; unless a re-authentication is under    *)
(* way, nothing depends on it yet.                                           *)
LEMMA TypePasswordChecks == ASSUME SessionTypes, CheckedInv, TypePassword PROVE CheckedInv'
  <1>1. /\ TypeOK /\ app = "on" /\ pushed # "root"
        /\ UNCHANGED <<password, requests, replies>>
    BY DEF SessionTypes, TypePassword, OnForm, serverVars
  <1>2. PICK p \in Passwords :
          \/ /\ forms' = [forms EXCEPT ![Len(forms)].newPassword = p]
             /\ typedOver' = (typedOver \/ Outstanding("reauthenticate"))
          \/ /\ forms' = [forms EXCEPT ![Len(forms)].newPasswordRetry = p]
             /\ UNCHANGED typedOver
    BY DEF TypePassword
  <1>3. CASE typedOver' = (typedOver \/ Outstanding("reauthenticate"))
    <2>1. Outstanding("reauthenticate") <=> \E c \in Calls : c.kind = "reauthenticate"
      BY DEF Outstanding, Calls
    <2>2. ~typedOver' => Checked /\ \A c \in Calls : c.kind # "reauthenticate"
      BY <1>3, <2>1 DEF CheckedInv
    <2>3. Calls' = Calls
      BY <1>1, SameCalls
    <2> QED BY <1>1, <2>2, <2>3 DEF CheckedInv, Checked
  <1>4. CASE /\ forms' = [forms EXCEPT ![Len(forms)].newPasswordRetry = p]
             /\ UNCHANGED typedOver
    <2>1. form \in Form
      BY <1>1, LastVisit
    <2> DEFINE f == [form EXCEPT !.newPasswordRetry = p]
    <2>2. f \in Form /\ f.newPassword = form.newPassword
      BY <2>1 DEF Form
    <2>3. forms' = [forms EXCEPT ![Len(forms)] = f]
      BY <1>4 DEF form
    <2> HIDE DEF f
    <2>4. \A w \in 1..Len(forms) : forms'[w].newPassword = forms[w].newPassword
      BY <1>1, <2>2, <2>3, FieldKept
    <2> QED BY <1>1, <1>4, <2>4, SameCalls, ChecksStay
  <1> QED BY <1>2, <1>3, <1>4


(* The button of a form.                                                     *)
LEMMA FormCallChecks ==
    ASSUME SessionTypes, CheckedInv, app = "on", pushed # "root", NEW r,
           FormCalls(r), current # None => r \in Request,
           r.kind \notin {"createUser", "updatePassword"},
           r.kind = "reauthenticate" =>
              r.visit = Len(forms) /\ Length[form.newPassword] = 6
    PROVE  CheckedInv'
  <1>1. TypeOK
    BY DEF SessionTypes
  <1>2. /\ UNCHANGED <<password, replies, typedOver>>
        /\ forms' = [forms EXCEPT ![Len(forms)].isLoad = TRUE]
        /\ \/ current # None /\ requests' = Append(requests, r)
           \/ UNCHANGED requests
    BY DEF FormCalls, serverVars, histVars
  <1>3. form \in Form /\ Len(forms) \in 1..Len(forms)
    BY <1>1, LastVisit
  <1> DEFINE f == [form EXCEPT !.isLoad = TRUE]
  <1>4. f \in Form /\ f.newPassword = form.newPassword
    BY <1>3 DEF Form
  <1>5. forms' = [forms EXCEPT ![Len(forms)] = f]
    BY <1>2 DEF form
  <1> HIDE DEF f
  <1>6. \A w \in 1..Len(forms) : forms'[w].newPassword = forms[w].newPassword
    BY <1>1, <1>4, <1>5, FieldKept
  <1>7. r.kind = "reauthenticate" => Length[forms'[r.visit].newPassword] = 6
    BY <1>3, <1>6 DEF form
  <1>8. \A c \in Calls' \ Calls : c = r
    <2>1. CASE current # None /\ requests' = Append(requests, r)
      BY <1>1, <1>2, <2>1, CallMade
    <2>2. CASE UNCHANGED requests
      BY <1>1, <1>2, <2>2, SameCalls
    <2> QED BY <1>2, <2>1, <2>2
  <1> QED BY <1>2, <1>6, <1>7, <1>8, ChecksStay

LEMMA SaveNameChecks == ASSUME SessionTypes, CheckedInv, updatePlayerData PROVE CheckedInv'
  <1> DEFINE r == [Req("setName", current) EXCEPT !.name = form.nameSurname,
                                                  !.visit = Len(forms)]
  <1>1. TypeOK /\ app = "on" /\ pushed # "root" /\ FormCalls(r)
    BY DEF SessionTypes, updatePlayerData, OnForm
  <1>2. Len(forms) \in 1..Len(forms) /\ form \in Form
    BY <1>1, LastVisit
  <1>3. Len(forms) \in Nat /\ form.nameSurname \in Names \cup {None}
    BY <1>2 DEF Form
  <1>4. (current # None => r \in Request) /\ r.kind = "setName"
    BY <1>1, <1>3 DEF TypeOK, Req, Request, DatabaseKinds
  <1> HIDE DEF r
  <1> QED BY <1>1, <1>4, FormCallChecks

LEMMA SavePasswordChecks == ASSUME SessionTypes, CheckedInv, updatePassword PROVE CheckedInv'
  <1>1. PICK p \in Passwords :
          FormCalls([Req("reauthenticate", current) EXCEPT !.text = p, !.visit = Len(forms)])
    BY DEF updatePassword
  <1> DEFINE r == [Req("reauthenticate", current) EXCEPT !.text = p, !.visit = Len(forms)]
  <1>2. /\ TypeOK /\ app = "on" /\ pushed # "root" /\ FormCalls(r)
        /\ Length[form.newPassword] = 6
    BY <1>1 DEF SessionTypes, updatePassword, OnForm
  <1>3. Len(forms) \in Nat
    BY <1>2, LastVisit
  <1>4. /\ current # None => r \in Request
        /\ r.kind = "reauthenticate" /\ r.visit = Len(forms)
    BY <1>2, <1>3 DEF TypeOK, Req, Request, AuthKinds
  <1> HIDE DEF r
  <1> QED BY <1>2, <1>4, FormCallChecks

LEMMA UserChecks == ASSUME SessionTypes, CheckedInv, User PROVE CheckedInv'
  BY LaunchChecks, ToAccountChecks, DismissChecks, LoginChecks, RegisterChecks,
     QuietChecks, UploadChecks, OpenChecks, TypeNameChecks, TypePasswordChecks,
     SaveNameChecks, SavePasswordChecks DEF User

(* Callbacks that have nothing to do with passwords.                         *)
LEMMA OtherCallbackChecks ==
    ASSUME SessionTypes, CheckedInv,
           \/ OnSignIn \/ OnUserCreated \/ OnUserWritten \/ OnUserRead
           \/ OnUploaded \/ OnDownloadURL \/ OnPictureWritten
    PROVE  CheckedInv'
  <1> DEFINE a == Head(replies)
  <1>1. /\ TypeOK /\ app = "on" /\ replies # <<>> /\ replies' = Tail(replies)
        /\ UNCHANGED <<forms, callbackUnchanged>>
    BY DEF SessionTypes, Answered, OnSignIn, OnUserCreated, OnUserWritten, OnUserRead,
           OnUploaded, OnDownloadURL, OnPictureWritten
  <1>2. /\ a \in Reply /\ a.req.account \in Accounts /\ a.req.name \in Names \cup {None}
        /\ (current # None => current \in Accounts)
    BY <1>1, FirstAnswer DEF TypeOK, Reply, Request
  <1> HIDE DEF a
  <1>3. \E r : /\ r.kind \notin CheckedKinds
               /\ UNCHANGED requests \/ (r \in Request /\ requests' = Append(requests, r))
    <2>1. CASE OnSignIn \/ OnUserWritten
      <3>1. LoggedIn \/ NotLoggedIn
        BY <2>1 DEF OnSignIn, OnUserWritten
      <3>2. Req("getUser", current).kind \notin CheckedKinds
        BY DEF Req, CheckedKinds
      <3> QED BY <1>1, <3>1, <3>2, LoggedInShape, NotLoggedInShape
    <2>2. CASE OnUserCreated
      <3> DEFINE r == [Req("setUser", current) EXCEPT !.name = a.req.name]
      <3>1. r.kind \notin CheckedKinds
        BY DEF Req, CheckedKinds
      <3>2. current # None => r \in Request
        BY <1>2 DEF Req, Request, DatabaseKinds
      <3>3. (current # None /\ requests' = Append(requests, r)) \/ UNCHANGED requests
        BY <2>2 DEF OnUserCreated, NotLoggedIn, a
      <3> HIDE DEF r
      <3> QED BY <3>1, <3>2, <3>3
    <2>3. CASE OnUserRead \/ OnPictureWritten
      <3>1. Req("getUser", current).kind \notin CheckedKinds /\ UNCHANGED requests
        BY <2>3 DEF Req, CheckedKinds, OnUserRead, OnPictureWritten
      <3> QED BY <3>1
    <2>4. CASE OnUploaded
      <3> DEFINE r == Req("downloadURL", a.req.account)
      <3>1. r.kind \notin CheckedKinds /\ r \in Request
        BY <1>2 DEF Req, CheckedKinds, Request, StorageKinds
      <3>2. NextUpload(r)
        BY <2>4 DEF OnUploaded, a
      <3> HIDE DEF r
      <3> QED BY <3>1, <3>2 DEF NextUpload
    <2>5. CASE OnDownloadURL
      <3> DEFINE r == [Req("setPicture", a.req.account) EXCEPT !.picture = a.req.account]
      <3>1. r.kind \notin CheckedKinds /\ r \in Request
        BY <1>2 DEF Req, CheckedKinds, Request, DatabaseKinds
      <3>2. NextUpload(r)
        BY <2>5 DEF OnDownloadURL, a
      <3> HIDE DEF r
      <3> QED BY <3>1, <3>2 DEF NextUpload
    <2> QED BY <2>1, <2>2, <2>3, <2>4, <2>5
  <1> QED BY <1>1, <1>3, CallbackChecks

LEMMA ReauthenticatedChecks ==
    ASSUME SessionTypes, CheckedInv, OnReauthenticated
    PROVE  CheckedInv'
  <1> DEFINE a == Head(replies)
             r == [Req("updatePassword", a.req.account) EXCEPT
                     !.text = forms[a.req.visit].newPassword, !.visit = a.req.visit]
  <1>1. /\ TypeOK /\ app = "on" /\ replies # <<>> /\ replies' = Tail(replies)
        /\ UNCHANGED <<password, typedOver>>
        /\ a.req.kind = "reauthenticate" /\ forms \in Seq(Form)
    BY DEF SessionTypes, OnReauthenticated, Answered, TypeOK, callbackUnchanged,
           serverVars, histVars
  <1>2. a \in Reply /\ a.req \in Calls
    BY <1>1, FirstAnswer
  <1>3. a.req.visit \in 1..Len(forms) /\ a.req.account \in Accounts
    BY <1>1, <1>2 DEF SessionTypes, VisitsKnown, FormKinds, Reply, Request
  <1>4. typedOver \/ Length[forms[a.req.visit].newPassword] = 6
    BY <1>1, <1>2 DEF CheckedInv, Checked
  <1>5. forms[a.req.visit].newPassword \in Passwords \cup {None} /\ a.req.visit \in Nat
    <2>1. forms[a.req.visit] \in Form /\ a.req.visit \in Nat
      BY <1>1, <1>3
    <2> HIDE DEF a
    <2> QED BY <2>1 DEF Form
  <1>6. /\ r \in Request /\ r.kind = "updatePassword"
        /\ r.text = forms[a.req.visit].newPassword
    BY <1>3, <1>5 DEF Req, Request, AuthKinds
  <1> HIDE DEF r
  <1>7. CASE requests' = Append(requests, r) /\ UNCHANGED forms
    <2>1. Calls' \subseteq Calls \cup {r}
      BY <1>1, <1>6, <1>7, CallbackCalls
    <2>2. \A w \in 1..Len(forms) : forms'[w].newPassword = forms[w].newPassword
      BY <1>7
    <2> HIDE DEF a
    <2> QED BY <1>1, <1>4, <1>6, <2>1, <2>2, ChecksStay
  <1>8. CASE FormTold(a.req.visit, "error") /\ UNCHANGED requests
    <2>1. Calls' \subseteq Calls
      BY <1>1, <1>8, CallbackRuns
    <2>2. \A w \in 1..Len(forms) : forms'[w].newPassword = forms[w].newPassword
      BY <1>1, <1>3, <1>8, FormToldShape
    <2> QED BY <1>1, <2>1, <2>2, ChecksStay
  <1> QED BY <1>7, <1>8 DEF OnReauthenticated, r

LEMMA FormWrittenChecks ==
    ASSUME SessionTypes, CheckedInv, NEW kind \in {"updatePassword", "setName"},
           OnFormWritten(kind)
    PROVE  CheckedInv'
  <1> DEFINE a == Head(replies)
  <1>1. /\ TypeOK /\ app = "on" /\ replies # <<>> /\ replies' = Tail(replies)
        /\ UNCHANGED <<password, typedOver, requests>> /\ a.req.kind = kind
        /\ \E alert \in {"error", "success"} : FormTold(a.req.visit, alert)
    BY DEF SessionTypes, OnFormWritten, Answered, callbackUnchanged, serverVars, histVars
  <1>2. a.req.visit \in 1..Len(forms)
    BY <1>1, FirstAnswer DEF SessionTypes, VisitsKnown, FormKinds
  <1>3. Calls' \subseteq Calls
    BY <1>1, CallbackRuns
  <1>4. \A w \in 1..Len(forms) : forms'[w].newPassword = forms[w].newPassword
    BY <1>1, <1>2, FormToldShape
  <1> QED BY <1>1, <1>3, <1>4, ChecksStay

(* The service sets the password that an accepted call carries.              *)
LEMMA ServeChecks == ASSUME SessionTypes, CheckedInv, Serve PROVE CheckedInv'
  <1>1. PICK i \in 1..Len(requests) :
          LET r == requests[i] IN
          /\ requests' = Without(i)
          /\ Answer(r, Accepted(r), users[r.account])
          /\ password' = IF Accepted(r) /\ r.kind \in {"createUser", "updatePassword"}
                         THEN [password EXCEPT ![r.account] = r.text] ELSE password
          /\ users' = [users EXCEPT ![r.account] = Written(@, r)]
          /\ UNCHANGED <<faults, serviceUnchanged>>
    BY DEF Serve
  <1> DEFINE r == requests[i]
  <1>2. /\ TypeOK /\ r \in Calls
        /\ UNCHANGED <<app, forms, typedOver>>
    BY <1>1 DEF SessionTypes, Calls, serviceUnchanged, histVars
  <1>3. /\ password \in [Accounts -> Passwords \cup {None}]
        /\ r.account \in Accounts /\ users[r.account] \in Profile
    BY <1>1, <1>2, ServeShape DEF TypeOK
  <1>4. Accepted(r) \in BOOLEAN
    BY AcceptedType
  <1>5. Calls' \subseteq Calls
    BY <1>1, <1>2, <1>3, <1>4, CallAnswered
  <1>6. SUFFICES ASSUME ~typedOver PROVE Checked'
    BY <1>2 DEF CheckedInv
  <1>7. Checked
    BY <1>6 DEF CheckedInv
  <1>8. r.kind \in {"createUser", "updatePassword"} => Length[r.text] = 6
    BY <1>2, <1>7 DEF Checked
  <1>9. \A b \in Accounts : password'[b] # None => Length[password'[b]] = 6
    BY <1>1, <1>3, <1>7, <1>8 DEF Checked
  <1> QED BY <1>2, <1>5, <1>7, <1>9 DEF Checked

LEMMA FaultChecks ==
    ASSUME SessionTypes, CheckedInv, Fail \/ Revoke \/ Quit \/ NeverLeft
    PROVE  CheckedInv'
  <1>1. TypeOK /\ UNCHANGED <<password, typedOver>>
    BY DEF SessionTypes, Fail, Revoke, Quit, NeverLeft, serverVars, histVars,
           serviceUnchanged
  <1>2. /\ Calls' \subseteq Calls
        /\ app' = "on" => app = "on" /\ UNCHANGED forms
    <2>1. CASE Fail
      <3>1. UNCHANGED <<app, forms>>
        BY <2>1 DEF Fail, serviceUnchanged
      <3>2. EmptyProfile \in Profile
        BY DEF EmptyProfile, Profile
      <3> QED BY <1>1, <2>1, <3>1, <3>2, CallAnswered DEF Fail
    <2>2. CASE Revoke
      BY <2>2 DEF Revoke, Calls
    <2>3. CASE Quit
      BY <2>3 DEF Quit, Calls
    <2>4. CASE NeverLeft
      <3>1. PICK i \in 1..Len(requests) : requests' = Without(i)
        BY <2>4 DEF NeverLeft
      <3>2. \A j \in 1..Len(requests') : \E k \in 1..Len(requests) : requests'[j] = requests[k]
        BY <1>1, <3>1, CallTaken
      <3>3. UNCHANGED <<app, forms, replies>>
        BY <2>4 DEF NeverLeft
      <3> QED BY <3>2, <3>3 DEF Calls
    <2> QED BY <2>1, <2>2, <2>3, <2>4
  <1> QED BY <1>1, <1>2 DEF CheckedInv, Checked

LEMMA InitChecks == Init => CheckedInv
  <1> SUFFICES ASSUME Init PROVE Checked
    BY DEF CheckedInv
  <1>1. Calls = {}
    BY DEF Init, Calls
  <1> QED BY <1>1, FirstType DEF Init, Checked

(* A password is set only with the six characters the forms ask for, unless  *)
(* it was typed over while the old one was being checked: updatePassword     *)
(* tests the fields when the button is tapped and reads them again when the  *)
(* re-authentication is answered.                                            *)
THEOREM PasswordsAreChecked == Spec => []PasswordsChecked
  <1>1. SessionTypes /\ CheckedInv /\ [Next]_vars => CheckedInv'
    <2> SUFFICES ASSUME SessionTypes, CheckedInv, [Next]_vars PROVE CheckedInv'
      OBVIOUS
    <2>1. CASE Callback
      BY <2>1, OtherCallbackChecks, ReauthenticatedChecks, FormWrittenChecks DEF Callback
    <2>2. CASE UNCHANGED vars
      BY <2>2 DEF vars, serverVars, histVars, CheckedInv, Checked, Calls
    <2> QED BY <2>1, <2>2, UserChecks, ServeChecks, FaultChecks DEF Next
  <1>2. SessionTypes /\ CheckedInv => PasswordsChecked
    BY DEF CheckedInv, Checked, PasswordsChecked
  <1> QED BY InitTypes, NextTypes, InitChecks, <1>1, <1>2, PTL DEF Spec


-----------------------------------------------------------------------------
(* The profile.                                                              *)

(* A step that leaves the user, the profile and what is shown, and makes no  *)
(* call.                                                                     *)
LEMMA OwnStays ==
    ASSUME SessionTypes, OwnInv, UNCHANGED <<current, app, pushed, picking, revoked>>,
           ~slipped' => ~slipped, base'.isLoggedIn = base.isLoggedIn,
           base'.userModel = base.userModel, Calls' \subseteq Calls,
           Pending' \in Nat, Pending' <= Pending
    PROVE  OwnInv'
  <1>1. Pending \in Nat
    BY DEF SessionTypes, TypeOK, Pending
  <1> SUFFICES ASSUME ~slipped', ~revoked' PROVE Own'
    BY DEF OwnInv
  <1>2. Own
    BY DEF OwnInv
  <1>3. Pending <= 1 => Pending' <= 1
    BY <1>1
  <1> QED BY <1>2, <1>3 DEF Own

(* A step while somebody is logged in: calls other than a sign-in, for the    *)
(* user where they read the profile.                                         *)
LEMMA OwnWhileIn ==
    ASSUME OwnInv, app = "on", UNCHANGED <<current, app, revoked>>, ~slipped' => ~slipped,
           ~slipped /\ ~revoked => base.isLoggedIn,
           base'.isLoggedIn = base.isLoggedIn,
           ~slipped /\ ~revoked =>
              \/ base'.userModel \in {None, base.userModel}
              \/ base.userModel # None /\ base'.userModel.uuid = base.userModel.uuid
              \/ base'.userModel.uuid \in {current, None},
           \A c \in Calls' \ Calls : /\ c.kind \notin LoginKinds
                                     /\ c.kind = "getUser" => c.account = current
    PROVE  OwnInv'
  <1> SUFFICES ASSUME ~slipped', ~revoked' PROVE Own'
    BY DEF OwnInv
  <1>1. Own /\ base.isLoggedIn /\ base'.isLoggedIn
    BY DEF OwnInv
  <1>2. \A c \in Calls' : /\ c.kind \notin LoginKinds
                          /\ c.kind = "getUser" => c.account = current'
    BY <1>1 DEF Own
  <1>3. base'.userModel # None => base'.userModel.uuid \in {current', None}
    BY <1>1 DEF Own
  <1> QED BY <1>1, <1>2, <1>3 DEF Own

LEMMA PendingType == ASSUME TypeOK PROVE Pending \in Nat
  BY DEF TypeOK, Pending

(* A gesture on content that did not slip finds nothing under way.           *)
LEMMA NothingUnderWay ==
    ASSUME TypeOK, Idle
    PROVE  Calls = {} /\ Pending = 0
  BY DEF Idle, Calls, Pending

(* The only call under way has been answered.                                *)
LEMMA OnlyCall ==
    ASSUME TypeOK, Pending <= 1, replies # <<>>, replies' = Tail(replies)
    PROVE  requests = <<>> /\ replies' = <<>>
  <1>1. requests \in Seq(Request) /\ replies \in Seq(Reply)
    BY DEF TypeOK
  <1>2. Len(requests) \in Nat /\ Len(replies) \in Nat /\ Len(replies) >= 1
    BY <1>1
  <1>3. Len(requests) = 0 /\ Len(replies) = 1
    <2>1. Len(requests) + Len(replies) <= 1
      BY DEF Pending
    <2>2. \A m, n \in Nat : n >= 1 /\ m + n <= 1 => m = 0 /\ n = 1
      OBVIOUS
    <2> QED BY <1>2, <2>1, <2>2
  <1>4. replies' \in Seq(Reply) /\ Len(replies') = 0
    BY <1>1, <1>3
  <1> QED BY <1>1, <1>3, <1>4

LEMMA LaunchOwn == ASSUME SessionTypes, OwnInv, Launch PROVE OwnInv'
  <1>1. /\ TypeOK /\ requests = <<>> /\ replies = <<>> /\ app' = "on"
        /\ UNCHANGED <<current, replies>> /\ pushed' = "root" /\ picking' = FALSE
        /\ getCurrentUserData(NewBase, requests)
    BY DEF SessionTypes, QuietWhenOff, Launch
  <1>2. NewBase \in Base /\ (NewBase.isLoggedIn <=> current # None)
    BY DEF NewBase, Base
  <1>3. base'.isLoggedIn = NewBase.isLoggedIn /\ base'.userModel = None
    BY <1>1, <1>2, UserDataAsked
  <1>4. Calls = {} /\ Pending = 0
    BY <1>1 DEF Calls, Pending
  <1>5. CASE current # None
    <2>1. Req("getUser", current) \in Request
      BY <1>1, <1>5, RequestType DEF TypeOK, DatabaseKinds
    <2>2. requests' = Append(requests, Req("getUser", current))
      BY <1>1, <1>5 DEF getCurrentUserData
    <2>3. Calls' = {Req("getUser", current)}
      BY <1>1, <1>4, <2>1, <2>2, CallMade
    <2>4. Req("getUser", current).kind = "getUser" /\ Req("getUser", current).account = current
      BY DEF Req
    <2>5. base'.isLoggedIn
      BY <1>2, <1>3, <1>5
    <2> QED BY <1>1, <1>3, <2>3, <2>4, <2>5 DEF OwnInv, Own, LoginKinds
  <1>6. CASE current = None
    <2>1. requests' = requests
      BY <1>1, <1>6 DEF getCurrentUserData
    <2>2. Calls' = {} /\ Pending' = 0
      BY <1>1, <1>4, <2>1, SameCalls
    <2> QED BY <1>1, <1>3, <2>2 DEF OwnInv, Own
  <1> QED BY <1>5, <1>6

(* Steps of the user that change neither the profile nor the calls.          *)
LEMMA QuietOwn ==
    ASSUME SessionTypes, OwnInv,
           ToMatches \/ DismissAlert \/ TypeName \/ TypePassword \/ ToggleRegister
    PROVE  OwnInv'
  <1>1. TypeOK /\ base \in Base
    BY DEF SessionTypes, TypeOK
  <1>2. UNCHANGED <<current, app, pushed, picking, revoked, requests, replies>>
    BY DEF ToMatches, DismissAlert, TypeName, TypePassword, ToggleRegister, uiVars, histVars
  <1>3. ~slipped' => ~slipped
    BY DEF ToMatches, DismissAlert, TypeName, TypePassword, ToggleRegister, histVars
  <1>4. base'.isLoggedIn = base.isLoggedIn /\ base'.userModel = base.userModel
    <2>1. \/ base' = base
          \/ base' = [base EXCEPT !.showAlert = FALSE]
          \/ base' = [base EXCEPT !.isRegisterViewShowing = ~@]
      BY DEF ToMatches, DismissAlert, TypeName, TypePassword, ToggleRegister
    <2> QED BY <1>1, <2>1 DEF Base
  <1>5. Calls' = Calls /\ Pending' = Pending /\ Pending \in Nat
    BY <1>1, <1>2, SameCalls, PendingType
  <1> QED BY <1>2, <1>3, <1>4, <1>5, OwnStays

(* The profile is read again while somebody is logged in.                    *)
LEMMA ReadOwn ==
    ASSUME SessionTypes, OwnInv, app = "on", UNCHANGED <<current, app, revoked, replies>>,
           ~slipped' => ~slipped, ~slipped /\ ~revoked => base.isLoggedIn,
           base'.isLoggedIn = base.isLoggedIn,
           base'.userModel \in {None, base.userModel},
           \/ requests' = requests
           \/ /\ Req("getUser", current) \in Request
              /\ requests' = Append(requests, Req("getUser", current))
    PROVE  OwnInv'
  <1>1. Calls' \subseteq Calls \cup {Req("getUser", current)}
    BY ReadTypes
  <1>2. Req("getUser", current).kind = "getUser" /\ Req("getUser", current).account = current
    BY DEF Req
  <1> QED BY <1>1, <1>2, OwnWhileIn DEF LoginKinds

LEMMA ToAccountOwn == ASSUME SessionTypes, OwnInv, ToAccount PROVE OwnInv'
  <1>1. /\ TypeOK /\ base \in Base /\ app = "on"
        /\ UNCHANGED <<current, app, pushed, picking, replies, slipped, revoked>>
    BY DEF SessionTypes, TypeOK, ToAccount, Touch, histVars
  <1>2. CASE base.isLoggedIn /\ ProfileAppears(base, requests)
    BY <1>1, <1>2, AppearanceAsks, ReadOwn
  <1>3. CASE UNCHANGED <<base, requests>>
    <2>1. Calls' = Calls /\ Pending' = Pending /\ Pending \in Nat
      BY <1>1, <1>3, SameCalls, PendingType
    <2> QED BY <1>1, <1>3, <2>1, OwnStays
  <1> QED BY <1>2, <1>3 DEF ToAccount

(* login and register: the only call, made while nobody is logged in.        *)
LEMMA EnterOwn ==
    ASSUME SessionTypes, OwnInv, login \/ register
    PROVE  OwnInv'
  <1>1. /\ TypeOK /\ base \in Base /\ app = "on" /\ ~base.isLoggedIn
        /\ UNCHANGED <<current, app, pushed, picking, revoked, replies>>
        /\ slipped' = (slipped \/ ~Idle) /\ base' = [base EXCEPT !.isLoad = TRUE]
    BY DEF SessionTypes, TypeOK, login, register, Tap, Touch, uiVars
  <1>2. PICK r \in Request : r.kind \in LoginKinds /\ requests' = Append(requests, r)
    <2>1. CASE login
      <3>1. PICK a \in Accounts, p \in Passwords :
              requests' = Append(requests, [Req("signIn", a) EXCEPT !.text = p])
        BY <2>1 DEF login
      <3> DEFINE q == [Req("signIn", a) EXCEPT !.text = p]
      <3>2. q \in Request /\ q.kind \in LoginKinds
        BY DEF Req, Request, AuthKinds, LoginKinds
      <3> QED BY <3>1, <3>2
    <2>2. CASE register
      <3>1. PICK a \in Accounts, p \in Passwords, n \in Names :
              requests' = Append(requests, [Req("createUser", a) EXCEPT !.text = p, !.name = n])
        BY <2>2 DEF register
      <3> DEFINE q == [Req("createUser", a) EXCEPT !.text = p, !.name = n]
      <3>2. q \in Request /\ q.kind \in LoginKinds
        BY DEF Req, Request, AuthKinds, LoginKinds
      <3> QED BY <3>1, <3>2
    <2> QED BY <2>1, <2>2
  <1>3. base'.isLoggedIn = base.isLoggedIn /\ base'.userModel = base.userModel
    BY <1>1 DEF Base
  <1> SUFFICES ASSUME ~slipped', ~revoked' PROVE Own'
    BY DEF OwnInv
  <1>4. Own /\ Idle
    BY <1>1 DEF OwnInv
  <1>5. Calls' = {r} /\ Pending' = 1
    BY <1>1, <1>2, <1>4, CallMade, NothingUnderWay
  <1> QED BY <1>1, <1>2, <1>3, <1>4, <1>5 DEF Own

LEMMA SignOutOwn == ASSUME SessionTypes, OwnInv, signOut PROVE OwnInv'
  <1>1. /\ TypeOK /\ base \in Base /\ app = "on" /\ pushed = "root"
        /\ UNCHANGED <<app, pushed, revoked, requests, replies>>
        /\ slipped' = (slipped \/ ~Idle)
    BY DEF SessionTypes, TypeOK, signOut, Tap, Touch, Uncovered, AtRoot
  <1>2. Calls' = Calls /\ Pending' = Pending /\ Pending \in Nat
    BY <1>1, SameCalls, PendingType
  <1>3. CASE /\ current' = None /\ picking' = FALSE
             /\ base' = [base EXCEPT !.userModel = None, !.isLoggedIn = FALSE]
    <2> SUFFICES ASSUME ~slipped', ~revoked' PROVE Own'
      BY DEF OwnInv
    <2>1. Calls' = {} /\ Pending' = 0
      BY <1>1, <1>2, NothingUnderWay
    <2>2. ~base'.isLoggedIn /\ base'.userModel = None
      BY <1>1, <1>3 DEF Base
    <2> QED BY <1>1, <1>3, <2>1, <2>2 DEF Own
  <1>4. CASE UNCHANGED <<current, base, picking>>
    <2>1. ~slipped' => ~slipped
      BY <1>1, Zenon
    <2>2. base'.isLoggedIn = base.isLoggedIn /\ base'.userModel = base.userModel
      BY <1>4
    <2> QED BY <1>1, <1>2, <1>4, <2>1, <2>2, OwnStays
  <1> QED BY <1>3, <1>4 DEF signOut

(* Gestures on the profile.                                                  *)
LEMMA ProfileOwn ==
    ASSUME SessionTypes, OwnInv,
           \/ RefreshProfile \/ PickImage \/ Back
           \/ \E f \in {"profile", "password"} : OpenForm(f)
    PROVE  OwnInv'
  <1>1. /\ TypeOK /\ base \in Base /\ app = "on"
        /\ UNCHANGED <<current, app, revoked, replies>> /\ (~slipped' => ~slipped)
    BY DEF SessionTypes, TypeOK, RefreshProfile, PickImage, Back, OpenForm, Tap, Touch, histVars
  <1>2. CASE RefreshProfile
    <2>1. base.isLoggedIn /\ getCurrentUserData(base, requests)
      BY <1>2 DEF RefreshProfile
    <2> QED BY <1>1, <2>1, UserDataAsked, ReadOwn
  <1>3. CASE Back
    <2>1. pushed # "root" /\ ProfileAppears(base, requests)
      BY <1>3 DEF Back
    <2>2. ~slipped /\ ~revoked => base.isLoggedIn
      BY <2>1 DEF OwnInv, Own
    <2> QED BY <1>1, <2>1, <2>2, AppearanceAsks, ReadOwn
  <1>4. CASE PickImage \/ \E f \in {"profile", "password"} : OpenForm(f)
    <2>1. base.isLoggedIn /\ UNCHANGED <<base, requests>>
      BY <1>4 DEF PickImage, OpenForm
    <2> QED BY <1>1, <2>1, ReadOwn
  <1> QED BY <1>2, <1>3, <1>4

LEMMA UploadOwn == ASSUME SessionTypes, OwnInv, loadProfileImage PROVE OwnInv'
  <1>1. /\ TypeOK /\ base \in Base /\ app = "on" /\ picking
        /\ UNCHANGED <<current, app, slipped, revoked, replies>>
        /\ base'.isLoggedIn = base.isLoggedIn /\ base'.userModel = base.userModel
    BY DEF SessionTypes, TypeOK, loadProfileImage, histVars, Base
  <1>2. ~slipped /\ ~revoked => base.isLoggedIn
    BY <1>1 DEF OwnInv, Own
  <1>3. \A c \in Calls' \ Calls : c.kind = "putData"
    <2>1. CASE current # None /\ requests' = Append(requests, Req("putData", current))
      <3>1. Req("putData", current) \in Request
        BY <1>1, <2>1, RequestType DEF TypeOK, StorageKinds
      <3> QED BY <1>1, <2>1, <3>1, CallMade, RequestKind
    <2>2. CASE UNCHANGED requests
      BY <1>1, <2>2, SameCalls
    <2> QED BY <2>1, <2>2 DEF loadProfileImage
  <1> QED BY <1>1, <1>2, <1>3, OwnWhileIn DEF LoginKinds

LEMMA SaveOwn ==
    ASSUME SessionTypes, OwnInv, updatePlayerData \/ updatePassword
    PROVE  OwnInv'
  <1>1. /\ TypeOK /\ app = "on" /\ pushed # "root"
        /\ UNCHANGED <<current, app, base, slipped, revoked, replies>>
    BY DEF SessionTypes, updatePlayerData, updatePassword, OnForm, FormCalls, histVars
  <1>2. ~slipped /\ ~revoked => base.isLoggedIn
    BY <1>1 DEF OwnInv, Own
  <1>3. Len(forms) \in Nat /\ form \in Form
    BY <1>1, LastVisit
  <1>4. \E r : /\ r.kind \in FormKinds /\ FormCalls(r)
               /\ current # None => r \in Request
    <2>1. CASE updatePlayerData
      <3> DEFINE r == [Req("setName", current) EXCEPT !.name = form.nameSurname,
                                                      !.visit = Len(forms)]
      <3>1. form.nameSurname \in Names \cup {None}
        BY <1>3 DEF Form
      <3>2. r.kind \in FormKinds /\ (current # None => r \in Request)
        BY <1>1, <1>3, <3>1 DEF TypeOK, Req, Request, DatabaseKinds, FormKinds
      <3>3. FormCalls(r)
        BY <2>1 DEF updatePlayerData
      <3> HIDE DEF r
      <3> QED BY <3>2, <3>3
    <2>2. CASE updatePassword
      <3>1. PICK p \in Passwords :
              FormCalls([Req("reauthenticate", current) EXCEPT !.text = p, !.visit = Len(forms)])
        BY <2>2 DEF updatePassword
      <3> DEFINE r == [Req("reauthenticate", current) EXCEPT !.text = p, !.visit = Len(forms)]
      <3>2. r.kind \in FormKinds /\ (current # None => r \in Request)
        BY <1>1, <1>3 DEF TypeOK, Req, Request, AuthKinds, FormKinds
      <3>3. FormCalls(r)
        BY <3>1
      <3> HIDE DEF r
      <3> QED BY <3>2, <3>3
    <2> QED BY <2>1, <2>2
  <1>5. \A c \in Calls' \ Calls : c.kind \in FormKinds
    <2>1. PICK r : /\ r.kind \in FormKinds /\ FormCalls(r)
                   /\ current # None => r \in Request
      BY <1>4
    <2>2. CASE current # None /\ requests' = Append(requests, r)
      BY <1>1, <2>1, <2>2, CallMade
    <2>3. CASE UNCHANGED requests
      BY <1>1, <2>3, SameCalls
    <2> QED BY <2>1, <2>2, <2>3 DEF FormCalls
  <1> QED BY <1>1, <1>2, <1>5, OwnWhileIn DEF LoginKinds, FormKinds

LEMMA UserOwn == ASSUME SessionTypes, OwnInv, User PROVE OwnInv'
  BY LaunchOwn, QuietOwn, ToAccountOwn, EnterOwn, SignOutOwn, ProfileOwn, UploadOwn,
     SaveOwn DEF User


(* A sign-in or a registration ends.                                         *)
LEMMA EnteredOwn ==
    ASSUME SessionTypes, OwnInv, OnSignIn \/ OnUserWritten \/ OnUserCreated
    PROVE  OwnInv'
  <1> DEFINE a == Head(replies)
             r == [Req("setUser", current) EXCEPT !.name = a.req.name]
  <1>1. /\ TypeOK /\ app = "on" /\ replies # <<>> /\ replies' = Tail(replies)
        /\ UNCHANGED <<current, app, slipped, revoked>> /\ a.req.kind \in LoginKinds
    BY DEF SessionTypes, Answered, OnSignIn, OnUserWritten, OnUserCreated,
           callbackUnchanged, histVars, LoginKinds
  <1>2. a \in Reply /\ a.req \in Calls
    BY <1>1, FirstAnswer
  <1> SUFFICES ASSUME ~slipped', ~revoked' PROVE Own'
    BY DEF OwnInv
  <1>3. Own /\ ~base.isLoggedIn
    BY <1>1, <1>2 DEF OwnInv, Own
  <1>4. base.userModel = None /\ Pending <= 1 /\ pushed = "root" /\ ~picking
    BY <1>1, <1>3 DEF Own
  <1>5. requests = <<>> /\ replies' = <<>>
    BY <1>1, <1>4, OnlyCall
  <1>6. CASE LoggedIn
    <2>1. /\ base'.isLoggedIn /\ base'.userModel = None
          /\ \/ requests' = requests
             \/ /\ Req("getUser", current) \in Request
                /\ requests' = Append(requests, Req("getUser", current))
      BY <1>1, <1>4, <1>6, LoggedInShape
    <2>2. Calls' \subseteq {Req("getUser", current)}
      <3>1. CASE requests' = requests
        BY <1>5, <3>1 DEF Calls
      <3>2. CASE requests' = Append(requests, Req("getUser", current))
        <4>1. requests' = <<Req("getUser", current)>>
          BY <1>5, <3>2
        <4> QED BY <1>5, <4>1 DEF Calls
      <3> QED BY <2>1, <3>1, <3>2
    <2>3. Req("getUser", current).kind = "getUser" /\ Req("getUser", current).account = current
      BY DEF Req
    <2> QED BY <1>1, <2>1, <2>2, <2>3 DEF Own, LoginKinds
  <1>7. CASE NotLoggedIn
    <2>1. /\ ~base'.isLoggedIn /\ base'.userModel = None
          /\ requests' = requests /\ pushed' = "root" /\ picking' = FALSE
      BY <1>1, <1>4, <1>7, NotLoggedInShape
    <2>2. Calls' = {} /\ Pending' = 0
      BY <1>5, <2>1 DEF Calls, Pending
    <2> QED BY <2>1, <2>2 DEF Own
  <1>8. CASE requests' = Append(requests, r) /\ UNCHANGED <<base, pushed, picking>>
    <2>1. r.kind \in LoginKinds
      BY DEF Req, LoginKinds
    <2> HIDE DEF r
    <2>2. requests' = <<r>>
      BY <1>5, <1>8
    <2>3. Calls' = {r} /\ Pending' = 1
      BY <1>5, <2>2 DEF Calls, Pending
    <2> QED BY <1>3, <1>4, <1>8, <2>1, <2>3 DEF Own
  <1> QED BY <1>6, <1>7, <1>8 DEF OnSignIn, OnUserWritten, OnUserCreated

(* Every other callback finds somebody logged in.                            *)
LEMMA AnswerFindsUser ==
    ASSUME SessionTypes, OwnInv, app = "on", replies # <<>>,
           Head(replies).req.kind \notin LoginKinds
    PROVE  ~slipped /\ ~revoked => base.isLoggedIn
  <1>1. Head(replies).req \in Calls
    BY FirstAnswer DEF SessionTypes
  <1> QED BY <1>1 DEF OwnInv, Own

LEMMA UserReadOwn == ASSUME SessionTypes, OwnInv, OnUserRead PROVE OwnInv'
  <1> DEFINE a == Head(replies)
             u == IF a.ok /\ a.profile # EmptyProfile
                  THEN ParsedUser(a.req.account, a.profile) ELSE None
  <1>1. /\ TypeOK /\ base \in Base /\ app = "on"
        /\ replies # <<>> /\ replies' = Tail(replies)
        /\ UNCHANGED <<current, app, slipped, revoked, requests>>
        /\ a.req.kind = "getUser"
        /\ base' = [base EXCEPT !.isLoad = FALSE, !.userModel = u]
    BY DEF SessionTypes, TypeOK, OnUserRead, Answered, callbackUnchanged, histVars
  <1>2. ~slipped /\ ~revoked => base.isLoggedIn
    BY <1>1, AnswerFindsUser DEF LoginKinds
  <1>3. ~slipped /\ ~revoked => a.req.account = current
    BY <1>1, <1>2, FirstAnswer DEF OwnInv, Own
  <1>4. u = None \/ u.uuid \in {a.req.account, None}
    BY DEF ParsedUser
  <1>5. base'.isLoggedIn = base.isLoggedIn /\ base'.userModel = u
    BY <1>1 DEF Base
  <1>6. Calls' \subseteq Calls
    BY <1>1, CallbackRuns
  <1> HIDE DEF u, a
  <1> QED BY <1>1, <1>2, <1>3, <1>4, <1>5, <1>6, OwnWhileIn

LEMMA PictureOwn == ASSUME SessionTypes, OwnInv, OnPictureWritten PROVE OwnInv'
  <1> DEFINE a == Head(replies)
             u == IF a.ok /\ base.userModel # None
                  THEN [base.userModel EXCEPT !.picture = a.req.picture]
                  ELSE base.userModel
  <1>1. /\ TypeOK /\ base \in Base /\ app = "on"
        /\ replies # <<>> /\ replies' = Tail(replies)
        /\ UNCHANGED <<current, app, slipped, revoked, requests>>
        /\ a.req.kind = "setPicture"
        /\ base' = [base EXCEPT !.isLoad = FALSE, !.userModel = u]
    BY DEF SessionTypes, TypeOK, OnPictureWritten, Answered, callbackUnchanged, histVars
  <1>2. ~slipped /\ ~revoked => base.isLoggedIn
    BY <1>1, AnswerFindsUser DEF LoginKinds
  <1>3. base.userModel \in UserModel \cup {None}
    BY <1>1 DEF Base
  <1>4. u = base.userModel \/ (base.userModel # None /\ u.uuid = base.userModel.uuid)
    BY <1>3 DEF UserModel
  <1>5. base'.isLoggedIn = base.isLoggedIn /\ base'.userModel = u
    BY <1>1 DEF Base
  <1>6. Calls' \subseteq Calls
    BY <1>1, CallbackRuns
  <1> HIDE DEF u, a
  <1> QED BY <1>1, <1>2, <1>4, <1>5, <1>6, OwnWhileIn

(* Callbacks that leave the profile and make another call at most.           *)
LEMMA OtherCallbackOwn ==
    ASSUME SessionTypes, OwnInv,
           \/ OnUploaded \/ OnDownloadURL \/ OnReauthenticated
           \/ OnFormWritten("updatePassword") \/ OnFormWritten("setName")
    PROVE  OwnInv'
  <1> DEFINE a == Head(replies)
  <1>1. /\ TypeOK /\ base \in Base /\ app = "on"
        /\ replies # <<>> /\ replies' = Tail(replies)
        /\ UNCHANGED <<current, app, slipped, revoked>> /\ a.req.kind \notin LoginKinds
    BY DEF SessionTypes, TypeOK, OnUploaded, OnDownloadURL, OnReauthenticated,
           OnFormWritten, Answered, callbackUnchanged, histVars, LoginKinds
  <1>2. ~slipped /\ ~revoked => base.isLoggedIn
    BY <1>1, AnswerFindsUser
  <1>3. base'.isLoggedIn = base.isLoggedIn /\ base'.userModel = base.userModel
    <2>1. base' = base \/ base' = [base EXCEPT !.isLoad = FALSE]
      BY DEF OnUploaded, OnDownloadURL, NextUpload, OnReauthenticated, OnFormWritten
    <2> QED BY <1>1, <2>1 DEF Base
  <1>4. a \in Reply /\ a.req \in Calls /\ a.req.account \in Accounts
    BY <1>1, FirstAnswer DEF Reply, Request
  <1>5. \E r : /\ r.kind \in {"downloadURL", "setPicture", "updatePassword"}
               /\ UNCHANGED requests \/ (r \in Request /\ requests' = Append(requests, r))
    <2>1. CASE OnUploaded
      <3> DEFINE r == Req("downloadURL", a.req.account)
      <3>1. r.kind = "downloadURL" /\ r \in Request
        BY <1>4 DEF Req, Request, StorageKinds
      <3>2. NextUpload(r)
        BY <2>1 DEF OnUploaded
      <3> HIDE DEF r
      <3> QED BY <3>1, <3>2 DEF NextUpload
    <2>2. CASE OnDownloadURL
      <3> DEFINE r == [Req("setPicture", a.req.account) EXCEPT !.picture = a.req.account]
      <3>1. r.kind = "setPicture" /\ r \in Request
        BY <1>4 DEF Req, Request, DatabaseKinds
      <3>2. NextUpload(r)
        BY <2>2 DEF OnDownloadURL
      <3> HIDE DEF r
      <3> QED BY <3>1, <3>2 DEF NextUpload
    <2>3. CASE OnReauthenticated
      <3> DEFINE r == [Req("updatePassword", a.req.account) EXCEPT
                         !.text = forms[a.req.visit].newPassword, !.visit = a.req.visit]
      <3>1. a.req.kind = "reauthenticate"
        BY <2>3 DEF OnReauthenticated, Answered
      <3>2. a.req.visit \in 1..Len(forms) /\ forms \in Seq(Form)
        BY <1>1, <1>4, <3>1 DEF SessionTypes, VisitsKnown, FormKinds, TypeOK
      <3>3. forms[a.req.visit] \in Form /\ a.req.visit \in Nat
        BY <3>2
      <3>4. (requests' = Append(requests, r)) \/ UNCHANGED requests
        BY <2>3 DEF OnReauthenticated
      <3> HIDE DEF a
      <3>5. forms[a.req.visit].newPassword \in Passwords \cup {None}
        BY <3>3 DEF Form
      <3>6. r.kind = "updatePassword" /\ r \in Request
        BY <1>4, <3>3, <3>5 DEF Req, Request, AuthKinds
      <3> HIDE DEF r
      <3> QED BY <3>4, <3>6
    <2>4. CASE UNCHANGED requests
      <3>1. Req("downloadURL", a.req.account).kind = "downloadURL"
        BY DEF Req
      <3> QED BY <2>4, <3>1
    <2> QED BY <2>1, <2>2, <2>3, <2>4 DEF OnFormWritten
  <1>6. \A c \in Calls' \ Calls : c.kind \in {"downloadURL", "setPicture", "updatePassword"}
    <2>1. PICK r : /\ r.kind \in {"downloadURL", "setPicture", "updatePassword"}
                   /\ UNCHANGED requests \/ (r \in Request /\ requests' = Append(requests, r))
      BY <1>5
    <2> QED BY <1>1, <2>1, CallbackStep
  <1> QED BY <1>1, <1>2, <1>3, <1>6, OwnWhileIn DEF LoginKinds

(* Auth.currentUser changes under a sign-in only, and no profile is there    *)
(* while that is under way.                                                  *)
LEMMA ServeOwn == ASSUME SessionTypes, OwnInv, Serve PROVE OwnInv'
  <1>1. PICK i \in 1..Len(requests) :
          LET r == requests[i] IN
          /\ requests' = Without(i)
          /\ Answer(r, Accepted(r), users[r.account])
          /\ password' = IF Accepted(r) /\ r.kind \in {"createUser", "updatePassword"}
                         THEN [password EXCEPT ![r.account] = r.text] ELSE password
          /\ users' = [users EXCEPT ![r.account] = Written(@, r)]
          /\ current' = IF /\ app = "on" /\ Accepted(r)
                           /\ r.kind \in {"signIn", "createUser"}
                        THEN r.account ELSE current
          /\ UNCHANGED <<faults, serviceUnchanged>>
    BY DEF Serve
  <1> DEFINE r == requests[i]
  <1>2. /\ TypeOK /\ r \in Calls
        /\ UNCHANGED <<app, base, pushed, picking, slipped, revoked>>
    BY <1>1 DEF SessionTypes, Calls, serviceUnchanged, uiVars, histVars
  <1>3. r.account \in Accounts /\ users[r.account] \in Profile
    BY <1>1, <1>2, ServeShape
  <1>4. Accepted(r) \in BOOLEAN
    BY AcceptedType
  <1>5. /\ Calls' \subseteq Calls /\ Pending' <= Pending
        /\ requests' \in Seq(Request) /\ replies' \in Seq(Reply)
    BY <1>1, <1>2, <1>3, <1>4, CallAnswered
  <1>6. Pending' \in Nat
    BY <1>5 DEF Pending
  <1>7. CASE current' = current
    BY <1>2, <1>5, <1>6, <1>7, OwnStays
  <1>8. CASE app = "on" /\ r.kind \in {"signIn", "createUser"}
    <2> SUFFICES ASSUME ~slipped', ~revoked' PROVE Own'
      BY DEF OwnInv
    <2>1. Own
      BY <1>2 DEF OwnInv
    <2>2. ~base.isLoggedIn
      BY <1>2, <1>8, <2>1 DEF Own, LoginKinds
    <2>3. Pending <= 1 => Pending' <= 1
      BY <1>2, <1>5, <1>6, PendingType
    <2> QED BY <1>2, <1>5, <1>8, <2>1, <2>2, <2>3 DEF Own
  <1> QED BY <1>1, <1>7, <1>8

LEMMA FaultOwn ==
    ASSUME SessionTypes, OwnInv, Fail \/ Revoke \/ Quit \/ NeverLeft
    PROVE  OwnInv'
  <1>1. TypeOK
    BY DEF SessionTypes
  <1>2. CASE Fail
    <2>1. UNCHANGED <<current, app, base, pushed, picking, slipped, revoked>>
      BY <1>2 DEF Fail, serviceUnchanged, uiVars, histVars
    <2>2. EmptyProfile \in Profile
      BY DEF EmptyProfile, Profile
    <2>3. /\ Calls' \subseteq Calls /\ Pending' <= Pending
          /\ requests' \in Seq(Request) /\ replies' \in Seq(Reply)
      BY <1>1, <1>2, <2>2, CallAnswered DEF Fail
    <2>4. Pending' \in Nat
      BY <2>3 DEF Pending
    <2> QED BY <2>1, <2>3, <2>4, OwnStays
  <1>3. CASE Revoke
    BY <1>3 DEF Revoke, OwnInv
  <1>4. CASE Quit
    <2>1. /\ app' = "off" /\ base' = NewBase /\ pushed' = "root" /\ picking' = FALSE
      BY <1>4 DEF Quit
    <2>2. base'.userModel = None
      BY <2>1 DEF NewBase
    <2> QED BY <2>1, <2>2 DEF OwnInv, Own
  <1>5. CASE NeverLeft
    <2>1. app = "off" /\ UNCHANGED <<current, app, base, pushed, picking, slipped, revoked>>
      BY <1>5 DEF NeverLeft, uiVars, histVars
    <2> QED BY <2>1 DEF OwnInv, Own
  <1> QED BY <1>2, <1>3, <1>4, <1>5

LEMMA InitOwn == Init => OwnInv
  <1> SUFFICES ASSUME Init PROVE Own
    BY DEF OwnInv
  <1>1. base.userModel = None
    BY DEF Init, NewBase
  <1> QED BY <1>1 DEF Init, Own

LEMMA OwnStep == SessionTypes /\ OwnInv /\ [Next]_vars => OwnInv'
  <1> SUFFICES ASSUME SessionTypes, OwnInv, [Next]_vars PROVE OwnInv'
    OBVIOUS
  <1>1. CASE Callback
    BY <1>1, EnteredOwn, UserReadOwn, PictureOwn, OtherCallbackOwn DEF Callback
  <1>2. CASE UNCHANGED vars
    BY <1>2 DEF vars, uiVars, histVars, OwnInv, Own, Calls, Pending
  <1> QED BY <1>1, <1>2, UserOwn, ServeOwn, FaultOwn DEF Next

(* The profile the screens work with is the signed-in user's, however        *)
(* sign-ins, sign-outs, registrations, reads, uploads, failures and restarts *)
(* interleave, as long as the content below the loading view is not used     *)
(* during a call and the library does not sign the user out by itself.       *)
THEOREM ProfileStaysOwn == Spec => []ProfileIsOwn
  <1>1. SessionTypes /\ OwnInv => ProfileIsOwn
    BY DEF OwnInv, Own, ProfileIsOwn
  <1> QED BY InitTypes, NextTypes, InitOwn, OwnStep, <1>1, PTL DEF Spec

-----------------------------------------------------------------------------
(* What is written, and what the screens show at rest.                       *)

(* The calls a gesture makes.                                                *)
UserCall(r) ==
    \/ current # None /\ r \in {Req("getUser", current), Req("putData", current)}
    \/ \E a \in Accounts, p \in Passwords : r = [Req("signIn", a) EXCEPT !.text = p]
    \/ \E a \in Accounts, p \in Passwords, n \in Names :
          r = [Req("createUser", a) EXCEPT !.text = p, !.name = n]
    \/ /\ current # None /\ pushed = "profile"
       /\ r = [Req("setName", current) EXCEPT !.name = form.nameSurname, !.visit = Len(forms)]
    \/ /\ current # None /\ pushed = "password"
       /\ \E p \in Passwords :
             r = [Req("reauthenticate", current) EXCEPT !.text = p, !.visit = Len(forms)]

(* The calls a callback makes, of the answer a.                              *)
CallbackCall(a, r) ==
    /\ a.ok
    /\ \/ /\ a.req.kind \in {"signIn", "setUser"} /\ current # None
          /\ r = Req("getUser", current)
       \/ /\ a.req.kind = "createUser" /\ current # None
          /\ r = [Req("setUser", current) EXCEPT !.name = a.req.name]
       \/ /\ a.req.kind = "putData"
          /\ r = Req("downloadURL", a.req.account)
       \/ /\ a.req.kind = "downloadURL"
          /\ r = [Req("setPicture", a.req.account) EXCEPT !.picture = a.req.account]
       \/ /\ a.req.kind = "reauthenticate"
          /\ r = [Req("updatePassword", a.req.account) EXCEPT
                    !.text = forms[a.req.visit].newPassword, !.visit = a.req.visit]

(* getCurrentUserData asks for the profile of whoever is signed in.          *)
LEMMA ReadAsks ==
    ASSUME NEW b, getCurrentUserData(b, requests) \/ ProfileAppears(b, requests)
    PROVE  \/ requests' = requests
           \/ current # None /\ requests' = Append(requests, Req("getUser", current))
  BY DEF getCurrentUserData, ProfileAppears

LEMMA SlipGrows ==
    slipped' = (slipped \/ ~Idle) => (~slipped' => ~slipped)
  BY Zenon

LEMMA UserAsks ==
    ASSUME SessionTypes, User
    PROVE  /\ UNCHANGED <<replies, password, users, revoked>>
           /\ app' = "on" /\ current' \in {None, current} /\ (~slipped' => ~slipped)
           /\ \/ requests' = requests
              \/ \E r : UserCall(r) /\ requests' = Append(requests, r)
  <1>1. CASE Launch \/ RefreshProfile \/ Back \/ ToAccount
    <2>1. /\ UNCHANGED <<replies, password, users, current, revoked>>
          /\ app' = "on" /\ (~slipped' => ~slipped)
      <3>1. CASE RefreshProfile
        BY <3>1, SlipGrows DEF RefreshProfile, serverVars, Tap, Touch
      <3>2. CASE Launch \/ Back \/ ToAccount
        BY <3>2 DEF Launch, Back, ToAccount, serverVars, histVars, Touch
      <3> QED BY <1>1, <3>1, <3>2
    <2>2. \/ requests' = requests
          \/ current # None /\ requests' = Append(requests, Req("getUser", current))
      BY <1>1, ReadAsks DEF Launch, RefreshProfile, Back, ToAccount
    <2> QED BY <2>1, <2>2 DEF UserCall
  <1>2. CASE \/ ToMatches \/ ToggleRegister \/ DismissAlert \/ signOut \/ PickImage
             \/ OpenForm("profile") \/ OpenForm("password") \/ TypeName \/ TypePassword
    <2>1. CASE ToMatches \/ DismissAlert \/ TypeName \/ TypePassword
      BY <2>1 DEF ToMatches, DismissAlert, TypeName, TypePassword, serverVars, histVars, OnForm
    <2>2. CASE ToggleRegister \/ signOut \/ PickImage
      BY <2>2, SlipGrows DEF ToggleRegister, signOut, PickImage, serverVars, Tap, Touch,
                             Uncovered, AtRoot
    <2>3. CASE OpenForm("profile") \/ OpenForm("password")
      BY <2>3, SlipGrows DEF OpenForm, serverVars, Tap, Touch
    <2> QED BY <1>2, <2>1, <2>2, <2>3
  <1>3. CASE loadProfileImage
    <2>1. /\ UNCHANGED <<replies, password, users, current, revoked, slipped>> /\ app' = "on"
      BY <1>3 DEF loadProfileImage, serverVars, histVars
    <2>2. \/ requests' = requests
          \/ current # None /\ requests' = Append(requests, Req("putData", current))
      BY <1>3 DEF loadProfileImage
    <2> QED BY <2>1, <2>2 DEF UserCall
  <1>4. CASE login \/ register
    <2>1. /\ UNCHANGED <<replies, password, users, current, revoked>>
          /\ app' = "on" /\ (~slipped' => ~slipped)
      BY <1>4, SlipGrows DEF login, register, serverVars, Tap, Touch
    <2>2. \E r : UserCall(r) /\ requests' = Append(requests, r)
      BY <1>4, Zenon DEF login, register, UserCall
    <2> QED BY <2>1, <2>2
  <1>5. CASE updatePlayerData \/ updatePassword
    <2>1. PICK r : /\ FormCalls(r)
                   /\ current # None => UserCall(r)
      BY <1>5, Zenon DEF updatePlayerData, updatePassword, OnForm, UserCall
    <2>2. /\ UNCHANGED <<replies, password, users, current, revoked, slipped>> /\ app' = "on"
      BY <1>5, <2>1 DEF FormCalls, serverVars, histVars, updatePlayerData, updatePassword, OnForm
    <2> QED BY <2>1, <2>2 DEF FormCalls
  <1> QED BY <1>1, <1>2, <1>3, <1>4, <1>5 DEF User

LEMMA UserCallType ==
    ASSUME SessionTypes, NEW r, UserCall(r)
    PROVE  r \in Request
  <1>1. TypeOK /\ current \in Accounts \cup {None}
    BY DEF SessionTypes, TypeOK
  <1>2. pushed # "root" => Len(forms) \in Nat /\ form.nameSurname \in Names \cup {None}
    BY <1>1, LastVisit DEF Form
  <1>3. CASE current # None /\ r \in {Req("getUser", current), Req("putData", current)}
    BY <1>1, <1>3, RequestType DEF StorageKinds, DatabaseKinds
  <1>4. CASE \E a \in Accounts, p \in Passwords : r = [Req("signIn", a) EXCEPT !.text = p]
    BY <1>4 DEF Req, Request, AuthKinds
  <1>5. CASE \E a \in Accounts, p \in Passwords, n \in Names :
                r = [Req("createUser", a) EXCEPT !.text = p, !.name = n]
    <2>1. PICK a \in Accounts, p \in Passwords, n \in Names :
                r = [Req("createUser", a) EXCEPT !.text = p, !.name = n]
      BY <1>5
    <2> QED BY <2>1 DEF Req, Request, AuthKinds
  <1>6. CASE /\ current # None /\ pushed = "profile"
             /\ r = [Req("setName", current) EXCEPT !.name = form.nameSurname,
                                                    !.visit = Len(forms)]
    BY <1>1, <1>2, <1>6 DEF Req, Request, DatabaseKinds
  <1>7. CASE /\ current # None /\ pushed = "password"
             /\ \E p \in Passwords :
                   r = [Req("reauthenticate", current) EXCEPT !.text = p, !.visit = Len(forms)]
    BY <1>1, <1>2, <1>7 DEF Req, Request, AuthKinds
  <1> QED BY <1>3, <1>4, <1>5, <1>6, <1>7 DEF UserCall

LEMMA UserCallFields ==
    ASSUME NEW r, UserCall(r)
    PROVE  /\ r.kind \in {"getUser", "putData", "signIn", "createUser", "setName", "reauthenticate"}
           /\ r.kind \notin LoginKinds => current # None /\ r.account = current
           /\ r.kind \in {"signIn", "createUser"} => r.text \in Passwords
           /\ r.kind = "createUser" => r.name \in Names
           /\ r.kind = "setName" => pushed = "profile" /\ r.name = form.nameSurname
           /\ r.kind \in FormKinds => r.visit = Len(forms) /\ pushed # "root"
  <1> USE DEF LoginKinds, FormKinds
  <1>3. CASE current # None /\ r \in {Req("getUser", current), Req("putData", current)}
    BY <1>3 DEF Req
  <1>4. CASE \E a \in Accounts, p \in Passwords : r = [Req("signIn", a) EXCEPT !.text = p]
    <2>1. PICK a \in Accounts, p \in Passwords : r = [Req("signIn", a) EXCEPT !.text = p]
      BY <1>4
    <2> QED BY <2>1 DEF Req
  <1>5. CASE \E a \in Accounts, p \in Passwords, n \in Names :
                r = [Req("createUser", a) EXCEPT !.text = p, !.name = n]
    <2>1. PICK a \in Accounts, p \in Passwords, n \in Names :
                r = [Req("createUser", a) EXCEPT !.text = p, !.name = n]
      BY <1>5
    <2> QED BY <2>1 DEF Req
  <1>6. CASE /\ current # None /\ pushed = "profile"
             /\ r = [Req("setName", current) EXCEPT !.name = form.nameSurname,
                                                    !.visit = Len(forms)]
    BY <1>6 DEF Req
  <1>7. CASE /\ current # None /\ pushed = "password"
             /\ \E p \in Passwords :
                   r = [Req("reauthenticate", current) EXCEPT !.text = p, !.visit = Len(forms)]
    <2>1. PICK p \in Passwords :
             r = [Req("reauthenticate", current) EXCEPT !.text = p, !.visit = Len(forms)]
      BY <1>7
    <2> QED BY <1>7, <2>1 DEF Req
  <1> QED BY <1>3, <1>4, <1>5, <1>6, <1>7 DEF UserCall

LEMMA CallbackCallFields ==
    ASSUME NEW a, NEW r, CallbackCall(a, r)
    PROVE  /\ a.ok
           /\ r.kind \in {"getUser", "setUser", "downloadURL", "setPicture", "updatePassword"}
           /\ r.kind = "getUser" => /\ a.req.kind \in {"signIn", "setUser"}
                                    /\ current # None /\ r.account = current
           /\ r.kind = "setUser" => /\ a.req.kind = "createUser" /\ r.name = a.req.name
                                    /\ current # None /\ r.account = current
           /\ r.kind = "downloadURL" => a.req.kind = "putData" /\ r.account = a.req.account
           /\ r.kind = "setPicture" => /\ a.req.kind = "downloadURL"
                                       /\ r.account = a.req.account /\ r.picture = a.req.account
           /\ r.kind = "updatePassword" => /\ a.req.kind = "reauthenticate"
                                           /\ r.account = a.req.account /\ r.visit = a.req.visit
  <1>1. CASE /\ a.req.kind \in {"signIn", "setUser"} /\ current # None
             /\ r = Req("getUser", current)
    BY <1>1 DEF CallbackCall, Req
  <1>2. CASE /\ a.req.kind = "createUser" /\ current # None
             /\ r = [Req("setUser", current) EXCEPT !.name = a.req.name]
    BY <1>2 DEF CallbackCall, Req
  <1>3. CASE a.req.kind = "putData" /\ r = Req("downloadURL", a.req.account)
    BY <1>3 DEF CallbackCall, Req
  <1>4. CASE /\ a.req.kind = "downloadURL"
             /\ r = [Req("setPicture", a.req.account) EXCEPT !.picture = a.req.account]
    BY <1>4 DEF CallbackCall, Req
  <1>5. CASE /\ a.req.kind = "reauthenticate"
             /\ r = [Req("updatePassword", a.req.account) EXCEPT
                       !.text = forms[a.req.visit].newPassword, !.visit = a.req.visit]
    BY <1>5 DEF CallbackCall, Req
  <1> QED BY <1>1, <1>2, <1>3, <1>4, <1>5 DEF CallbackCall

LEMMA CallbackAsks ==
    ASSUME SessionTypes, Callback
    PROVE  /\ app = "on" /\ replies # <<>> /\ replies' = Tail(replies)
           /\ UNCHANGED <<password, users, current, app, tab, faults, slipped, revoked>>
           /\ \/ requests' = requests
              \/ \E r : CallbackCall(Head(replies), r) /\ requests' = Append(requests, r)
  <1> DEFINE a == Head(replies)
  <1>1. /\ app = "on" /\ replies # <<>> /\ replies' = Tail(replies)
        /\ UNCHANGED <<password, users, current, app, tab, faults, slipped, revoked>>
    BY DEF Callback, OnSignIn, OnUserCreated, OnUserWritten, OnUserRead, OnUploaded,
           OnDownloadURL, OnPictureWritten, OnReauthenticated, OnFormWritten, Answered,
           callbackUnchanged, serverVars, histVars
  <1>2. CASE OnSignIn \/ OnUserWritten
    <2>1. (a.ok /\ LoggedIn) \/ NotLoggedIn
      BY <1>2 DEF OnSignIn, OnUserWritten
    <2>2. a.req.kind \in {"signIn", "setUser"}
      BY <1>2 DEF OnSignIn, OnUserWritten, Answered
    <2>3. \/ requests' = requests
          \/ a.ok /\ current # None /\ requests' = Append(requests, Req("getUser", current))
      BY <2>1, ReadAsks DEF LoggedIn, NotLoggedIn
    <2> QED BY <1>1, <2>2, <2>3 DEF CallbackCall
  <1>3. CASE OnUserCreated
    BY <1>1, <1>3 DEF OnUserCreated, Answered, NotLoggedIn, CallbackCall
  <1>4. CASE OnUserRead \/ OnPictureWritten \/ OnFormWritten("updatePassword")
                        \/ OnFormWritten("setName")
    BY <1>1, <1>4 DEF OnUserRead, OnPictureWritten, OnFormWritten
  <1>5. CASE OnUploaded \/ OnDownloadURL
    BY <1>1, <1>5 DEF OnUploaded, OnDownloadURL, Answered, NextUpload, CallbackCall
  <1>6. CASE OnReauthenticated
    BY <1>1, <1>6 DEF OnReauthenticated, Answered, CallbackCall
  <1> QED BY <1>2, <1>3, <1>4, <1>5, <1>6 DEF Callback

LEMMA CallbackCallType ==
    ASSUME SessionTypes, app = "on", replies # <<>>, NEW r, CallbackCall(Head(replies), r)
    PROVE  r \in Request
  <1> DEFINE a == Head(replies)
  <1>1. TypeOK /\ current \in Accounts \cup {None} /\ forms \in Seq(Form)
    BY DEF SessionTypes, TypeOK
  <1>2. /\ a \in Reply /\ a.req \in Request /\ a.req \in Calls
        /\ a.req.account \in Accounts /\ a.req.name \in Names \cup {None} /\ a.req.visit \in Nat
    BY <1>1, FirstAnswer DEF Reply, Request
  <1>3. a.req.kind = "reauthenticate" =>
           forms[a.req.visit].newPassword \in Passwords \cup {None}
    <2>1. a.req.kind = "reauthenticate" => a.req.visit \in 1..Len(forms)
      BY <1>2 DEF SessionTypes, VisitsKnown, FormKinds
    <2>2. a.req.kind = "reauthenticate" => forms[a.req.visit] \in Form
      BY <1>1, <2>1
    <2> QED BY <2>2 DEF Form
  <1>4. CallbackCall(a, r)
    OBVIOUS
  <1> HIDE DEF a
  <1>5. CASE r = Req("getUser", current) /\ current # None
    BY <1>1, <1>5, RequestType DEF DatabaseKinds
  <1>6. CASE r = [Req("setUser", current) EXCEPT !.name = a.req.name] /\ current # None
    BY <1>1, <1>2, <1>6 DEF Req, Request, DatabaseKinds
  <1>7. CASE r = Req("downloadURL", a.req.account)
    BY <1>2, <1>7, RequestType DEF StorageKinds
  <1>8. CASE r = [Req("setPicture", a.req.account) EXCEPT !.picture = a.req.account]
    BY <1>2, <1>8 DEF Req, Request, DatabaseKinds
  <1>9. CASE /\ a.req.kind = "reauthenticate"
             /\ r = [Req("updatePassword", a.req.account) EXCEPT
                       !.text = forms[a.req.visit].newPassword, !.visit = a.req.visit]
    BY <1>2, <1>3, <1>9 DEF Req, Request, AuthKinds
  <1> QED BY <1>4, <1>5, <1>6, <1>7, <1>8, <1>9 DEF CallbackCall

(* What this does to the calls under way.                                    *)
LEMMA GestureCalls ==
    ASSUME SessionTypes, User
    PROVE  /\ Calls \subseteq Calls' /\ \A c \in Calls' \ Calls : UserCall(c)
           /\ requests' = requests => Calls' = Calls
           /\ requests' \in Seq(Request) /\ replies' \in Seq(Reply)
  <1>1. TypeOK
    BY DEF SessionTypes
  <1>2. CASE requests' = requests
    BY <1>1, <1>2, UserAsks, SameCalls
  <1>3. CASE \E r : UserCall(r) /\ requests' = Append(requests, r)
    <2>1. PICK r : UserCall(r) /\ requests' = Append(requests, r)
      BY <1>3
    <2>2. r \in Request /\ UNCHANGED replies
      BY <2>1, UserCallType, UserAsks
    <2>3. /\ Calls' = Calls \cup {r} /\ requests' \in Seq(Request) /\ replies' \in Seq(Reply)
      BY <1>1, <2>1, <2>2, CallMade
    <2>4. requests' # requests
      BY <1>1, <2>1, <2>2 DEF TypeOK
    <2> QED BY <2>1, <2>3, <2>4
  <1> QED BY <1>2, <1>3, UserAsks

LEMMA AnswersLeft ==
    ASSUME TypeOK, replies # <<>>, replies' = Tail(replies)
    PROVE  /\ replies' \in Seq(Reply) /\ Len(replies') = Len(replies) - 1
           /\ \A i \in 1..Len(replies') : i + 1 \in 1..Len(replies) /\ replies'[i] = replies[i + 1]
           /\ \A i \in 1..Len(replies) :
                 replies[i] = Head(replies) \/ \E j \in 1..Len(replies') : replies'[j] = replies[i]
  <1>1. replies \in Seq(Reply)
    BY DEF TypeOK
  <1>2. /\ replies' \in Seq(Reply) /\ Len(replies') = Len(replies) - 1
        /\ \A i \in 1..Len(replies') : replies'[i] = replies[i + 1]
        /\ Len(replies) \in Nat /\ Len(replies) >= 1 /\ Head(replies) = replies[1]
    BY <1>1
  <1>3. \A i \in 1..Len(replies') : i + 1 \in 1..Len(replies)
    BY <1>2
  <1>4. ASSUME NEW i \in 1..Len(replies), i # 1
        PROVE  i - 1 \in 1..Len(replies') /\ replies'[i - 1] = replies[i]
    BY <1>2, <1>4
  <1> QED BY <1>2, <1>3, <1>4

LEMMA AnswerCalls ==
    ASSUME SessionTypes, Callback
    PROVE  /\ Calls \subseteq Calls' \cup {Head(replies).req}
           /\ \A c \in Calls' \ Calls : CallbackCall(Head(replies), c)
           /\ requests' = requests => Calls' \subseteq Calls
           /\ requests' \in Seq(Request) /\ replies' \in Seq(Reply)
           /\ \A r : requests' = Append(requests, r) => r \in Calls'
  <1>1. TypeOK /\ replies # <<>> /\ replies' = Tail(replies) /\ app = "on"
    BY CallbackAsks DEF SessionTypes
  <1>2. {replies[i].req : i \in 1..Len(replies)} \subseteq Calls' \cup {Head(replies).req}
    BY <1>1, AnswersLeft DEF Calls
  <1>3. CASE requests' = requests
    <2>1. Calls' \subseteq Calls /\ requests' \in Seq(Request) /\ replies' \in Seq(Reply)
      BY <1>1, <1>3, CallbackRuns
    <2>2. {requests[i] : i \in 1..Len(requests)} \subseteq Calls'
      BY <1>3 DEF Calls
    <2>3. \A r : requests' # Append(requests, r)
      BY <1>1, <1>3 DEF TypeOK
    <2> QED BY <1>2, <2>1, <2>2, <2>3 DEF Calls
  <1>4. CASE \E r : CallbackCall(Head(replies), r) /\ requests' = Append(requests, r)
    <2>1. PICK r : CallbackCall(Head(replies), r) /\ requests' = Append(requests, r)
      BY <1>4
    <2>2. r \in Request
      BY <1>1, <2>1, CallbackCallType
    <2>3. Calls' \subseteq Calls \cup {r} /\ requests' \in Seq(Request) /\ replies' \in Seq(Reply)
      BY <1>1, <2>1, <2>2, CallbackCalls
    <2>4. /\ requests \in Seq(Request) /\ Len(requests) \in Nat
          /\ Len(requests') = Len(requests) + 1
          /\ \A i \in 1..Len(requests) : requests'[i] = requests[i]
          /\ requests'[Len(requests) + 1] = r
      BY <1>1, <2>1, <2>2 DEF TypeOK
    <2>5. \A i \in 1..Len(requests) : i \in 1..Len(requests')
      BY <2>4
    <2>6. {requests[i] : i \in 1..Len(requests)} \subseteq Calls'
      BY <2>4, <2>5 DEF Calls
    <2>7. r \in Calls' /\ requests' # requests
      <3>1. Len(requests) + 1 \in 1..Len(requests')
        BY <2>4
      <3> QED BY <2>4, <3>1 DEF Calls
    <2>8. \A q : requests' = Append(requests, q) => q = r
      BY <2>1, <2>4
    <2> QED BY <1>2, <2>1, <2>3, <2>6, <2>7, <2>8 DEF Calls
  <1> QED BY <1>3, <1>4, CallbackAsks

LEMMA CallsTyped == ASSUME TypeOK PROVE Calls \subseteq Request
  <1>1. requests \in Seq(Request) /\ replies \in Seq(Reply)
    BY DEF TypeOK
  <1>2. \A i \in 1..Len(requests) : requests[i] \in Request
    BY <1>1
  <1>3. \A i \in 1..Len(replies) : replies[i] \in Reply
    BY <1>1
  <1>4. \A i \in 1..Len(replies) : replies[i].req \in Request
    BY <1>3 DEF Reply
  <1> QED BY <1>2, <1>4 DEF Calls

(* Faults make no calls.                                                     *)
LEMMA FaultCalls ==
    ASSUME SessionTypes, Fail \/ Revoke \/ Quit \/ NeverLeft
    PROVE  Calls' \subseteq Calls
  <1>1. TypeOK
    BY DEF SessionTypes
  <1>2. CASE Fail
    <2>1. EmptyProfile \in Profile
      BY DEF EmptyProfile, Profile
    <2> QED BY <1>1, <1>2, <2>1, CallAnswered DEF Fail
  <1>3. CASE Revoke
    BY <1>3 DEF Revoke, Calls
  <1>4. CASE Quit
    BY <1>4 DEF Quit, Calls
  <1>5. CASE NeverLeft
    <2>1. PICK i \in 1..Len(requests) : requests' = Without(i)
      BY <1>5 DEF NeverLeft
    <2>2. UNCHANGED replies
      BY <1>5 DEF NeverLeft
    <2> QED BY <1>1, <2>1, <2>2, CallTaken DEF Calls
  <1> QED BY <1>2, <1>3, <1>4, <1>5

(* A service handles the call r, the i-th.                                   *)
Handles(i, r) ==
    /\ r = requests[i] /\ InOrder(i)
    /\ requests' = Without(i)
    /\ Answer(r, Accepted(r), users[r.account])
    /\ password' = IF Accepted(r) /\ r.kind \in {"createUser", "updatePassword"}
                   THEN [password EXCEPT ![r.account] = r.text] ELSE password
    /\ users' = [users EXCEPT ![r.account] = Written(@, r)]
    /\ current' = IF app = "on" /\ Accepted(r) /\ r.kind \in {"signIn", "createUser"}
                  THEN r.account ELSE current
    /\ UNCHANGED <<faults, serviceUnchanged>>

LEMMA ServeHandles == Serve => \E i \in 1..Len(requests) : Handles(i, requests[i])
  BY DEF Serve, Handles

(* The calls that are not handled stay where they are.                       *)
LEMMA OthersStay ==
    ASSUME TypeOK, NEW i \in 1..Len(requests), NEW k \in 1..Len(requests), k # i
    PROVE  \E j \in 1..Len(Without(i)) : Without(i)[j] = requests[k]
  <1> DEFINE n == Len(requests)
             s == SubSeq(requests, 1, i - 1)
             t == SubSeq(requests, i + 1, n)
  <1>1. requests \in Seq(Request) /\ n \in Nat /\ i \in 1..n /\ k \in 1..n /\ i # k
    BY DEF TypeOK
  <1>2. /\ s \in Seq(Request) /\ Len(s) = i - 1
        /\ \A j \in 1..(i - 1) : s[j] = requests[j]
    BY <1>1
  <1>3. /\ t \in Seq(Request) /\ Len(t) = n - i
        /\ \A j \in 1..(n - i) : t[j] = requests[i + j]
    BY <1>1
  <1>4. Without(i) = s \o t
    BY DEF Without
  <1> HIDE DEF n, s, t
  <1>5. /\ Len(s \o t) = n - 1
        /\ \A j \in 1..(n - 1) :
              (s \o t)[j] = IF j <= i - 1 THEN s[j] ELSE t[j - (i - 1)]
    <2>1. /\ s \o t \in Seq(Request) /\ Len(s \o t) = Len(s) + Len(t)
          /\ \A j \in 1..Len(s) + Len(t) :
                (s \o t)[j] = IF j <= Len(s) THEN s[j] ELSE t[j - Len(s)]
      BY <1>2, <1>3, ConcatProperties
    <2>2. Len(s) + Len(t) = n - 1
      BY <1>1, <1>2, <1>3
    <2> QED BY <1>2, <2>1, <2>2
  <1>6. CASE k < i
    <2>1. k \in 1..(n - 1) /\ k <= i - 1 /\ k \in 1..(i - 1)
      BY <1>1, <1>6
    <2> QED BY <1>2, <1>4, <1>5, <2>1
  <1>7. CASE k > i
    <2>1. /\ k - 1 \in 1..(n - 1) /\ ~(k - 1 <= i - 1)
          /\ (k - 1) - (i - 1) \in 1..(n - i) /\ i + ((k - 1) - (i - 1)) = k
      BY <1>1, <1>7
    <2>2. (s \o t)[k - 1] = requests[k]
      BY <1>3, <1>5, <2>1
    <2> QED BY <1>4, <1>5, <2>1, <2>2
  <1> QED BY <1>1, <1>6, <1>7

(* A call is answered while the app runs: all that is under way stays.        *)
LEMMA CallsStay ==
    ASSUME TypeOK, app = "on", NEW i \in 1..Len(requests), NEW ok \in BOOLEAN, NEW p \in Profile,
           requests' = Without(i), Answer(requests[i], ok, p)
    PROVE  /\ Calls' = Calls
           /\ Len(replies) \in Nat /\ Len(replies') = Len(replies) + 1
           /\ \A j \in 1..Len(replies) : replies'[j] = replies[j]
           /\ replies'[Len(replies) + 1] = [req |-> requests[i], ok |-> ok, profile |-> p]
           /\ 1..Len(replies') = 1..Len(replies) \cup {Len(replies) + 1}
  <1> DEFINE e == [req |-> requests[i], ok |-> ok, profile |-> p]
  <1>1. requests \in Seq(Request) /\ replies \in Seq(Reply) /\ requests[i] \in Request
    BY DEF TypeOK
  <1>2. e \in Reply /\ e.req = requests[i] /\ replies' = Append(replies, e)
    BY <1>1 DEF Reply, Answer
  <1> HIDE DEF e
  <1>3. /\ Len(replies) \in Nat /\ Len(replies') = Len(replies) + 1
        /\ \A j \in 1..Len(replies) : replies'[j] = replies[j]
        /\ replies'[Len(replies) + 1] = e
    BY <1>1, <1>2
  <1>4. 1..Len(replies') = 1..Len(replies) \cup {Len(replies) + 1}
    BY <1>3
  <1>5. Calls' \subseteq Calls
    BY CallAnswered
  <1>6. {replies[j].req : j \in 1..Len(replies)} \subseteq Calls'
    BY <1>3, <1>4 DEF Calls
  <1>7. requests[i] \in Calls'
    BY <1>2, <1>3, <1>4 DEF Calls
  <1>8. \A k \in 1..Len(requests) : k # i => requests[k] \in Calls'
    BY OthersStay DEF Calls
  <1>9. Calls \subseteq Calls'
    BY <1>6, <1>7, <1>8 DEF Calls
  <1> QED BY <1>3, <1>4, <1>5, <1>9 DEF e

LEMMA HandledCall ==
    ASSUME SessionTypes, NEW i \in 1..Len(requests), NEW r, Handles(i, r)
    PROVE  /\ r \in Request /\ r \in Calls /\ r.account \in Accounts /\ Accepted(r) \in BOOLEAN
           /\ users[r.account] \in Profile
           /\ Calls' \subseteq Calls /\ (app = "on" => Calls' = Calls)
           /\ UNCHANGED <<app, base, tab, pushed, picking, forms, slipped, revoked, faults>>
           /\ \A a \in Accounts : users'[a] = IF a = r.account THEN Written(users[a], r) ELSE users[a]
           /\ \A a \in Accounts : password'[a] =
                 IF a = r.account /\ Accepted(r) /\ r.kind \in {"createUser", "updatePassword"}
                 THEN r.text ELSE password[a]
  <1>1. TypeOK /\ r = requests[i]
    BY DEF SessionTypes, Handles
  <1>2. r \in Request /\ r.account \in Accounts /\ users[r.account] \in Profile
    BY <1>1, ServeShape DEF Handles
  <1>3. r \in Calls
    BY <1>1 DEF Calls
  <1>4. Accepted(r) \in BOOLEAN
    BY AcceptedType
  <1>5. Calls' \subseteq Calls
    BY <1>1, <1>2, <1>4, CallAnswered DEF Handles
  <1>6. app = "on" => Calls' = Calls
    BY <1>1, <1>2, <1>4, CallsStay DEF Handles
  <1>7. UNCHANGED <<app, base, tab, pushed, picking, forms, slipped, revoked, faults>>
    BY DEF Handles, serviceUnchanged, uiVars, histVars
  <1>8. users \in [Accounts -> Profile] /\ password \in [Accounts -> Passwords \cup {None}]
    BY <1>1 DEF TypeOK
  <1>9. \A a \in Accounts : users'[a] = IF a = r.account THEN Written(users[a], r) ELSE users[a]
    BY <1>2, <1>8 DEF Handles
  <1>10. \A a \in Accounts : password'[a] =
                 IF a = r.account /\ Accepted(r) /\ r.kind \in {"createUser", "updatePassword"}
                 THEN r.text ELSE password[a]
    BY <1>2, <1>8 DEF Handles
  <1> QED BY <1>2, <1>3, <1>4, <1>5, <1>6, <1>7, <1>9, <1>10

-----------------------------------------------------------------------------
(* Accounts. Through all faults: a picture is its account's, a profile       *)
(* belongs to an account that was created, and so do the user and the calls  *)
(* that need an account.                                                     *)
CallKept(c) ==
    /\ c.kind = "setPicture" => c.picture = c.account
    /\ c.kind \in {"signIn", "createUser"} => c.text # None
    /\ c.kind \in {"setUser", "reauthenticate", "updatePassword"} => password[c.account] # None
    /\ c.kind \in {"createUser", "setUser"} => c.name # None

Kept ==
    /\ \A a \in Accounts : /\ users[a].picture \in {a, None}
                           /\ users[a].core => password[a] # None
    /\ current # None => password[current] # None
    /\ \A c \in Calls : CallKept(c)

(* What the bounds count, and nothing is under way before the first launch.  *)
Counted == (revoked => faults > 0) /\ (app = "off" /\ faults = 0 => requests = <<>>)

LEMMA UserKept == ASSUME SessionTypes, Kept, User PROVE Kept'
  <1>1. UNCHANGED <<password, users>> /\ current' \in {None, current}
    BY UserAsks
  <1>2. ASSUME NEW c, UserCall(c) PROVE CallKept(c)
    <2>1. current # None => password[current] # None
      BY DEF Kept
    <2>2. None \notin Passwords /\ None \notin Names
      BY NoneIsNobody
    <2> QED BY <1>2, <2>1, <2>2, UserCallFields DEF CallKept, LoginKinds
  <1>3. \A c \in Calls' : CallKept(c)
    BY <1>2, GestureCalls DEF Kept
  <1>4. \A c : CallKept(c) => CallKept(c)'
    BY <1>1 DEF CallKept
  <1> QED BY <1>1, <1>3, <1>4 DEF Kept

LEMMA CallbackKept == ASSUME SessionTypes, Kept, Callback PROVE Kept'
  <1> DEFINE a == Head(replies)
  <1>1. UNCHANGED <<password, users, current>> /\ replies # <<>> /\ TypeOK
    BY CallbackAsks DEF SessionTypes
  <1>2. CallKept(a.req) /\ a.req \in Calls
    BY <1>1, FirstAnswer DEF Kept
  <1> HIDE DEF a
  <1>3. ASSUME NEW c, CallbackCall(a, c) PROVE CallKept(c)
    <2>1. current # None => password[current] # None
      BY DEF Kept
    <2> QED BY <1>2, <1>3, <2>1, CallbackCallFields DEF CallKept
  <1>4. \A c \in Calls' : CallKept(c)
    BY <1>3, AnswerCalls DEF Kept, a
  <1>5. \A c : CallKept(c) => CallKept(c)'
    BY <1>1 DEF CallKept
  <1> QED BY <1>1, <1>4, <1>5 DEF Kept

(* Passwords are not taken away.                                             *)
LEMMA PasswordsStay ==
    ASSUME SessionTypes, Kept, NEW i \in 1..Len(requests), NEW r, Handles(i, r)
    PROVE  \A a \in Accounts : password[a] # None => password'[a] # None
  <1>1. r \in Request /\ r \in Calls
    BY HandledCall
  <1>2. r.kind = "createUser" => r.text # None
    BY <1>1 DEF Kept, CallKept
  <1>3. Accepted(r) /\ r.kind = "updatePassword" => r.text # None
    BY LengthType DEF Accepted
  <1> QED BY <1>2, <1>3, HandledCall

LEMMA ServeKept == ASSUME SessionTypes, Kept, Serve PROVE Kept'
  <1>1. PICK i \in 1..Len(requests) : Handles(i, requests[i])
    BY ServeHandles
  <1> DEFINE r == requests[i]
  <1>2. Handles(i, r)
    BY <1>1
  <1> HIDE DEF r
  <1>3. /\ r \in Request /\ r.account \in Accounts /\ CallKept(r) /\ Calls' \subseteq Calls
        /\ users[r.account] \in Profile
    BY <1>2, HandledCall DEF Kept
  <1>4. \A a \in Accounts : password[a] # None => password'[a] # None
    BY <1>2, PasswordsStay
  <1>5. /\ \A a \in Accounts : users'[a] = IF a = r.account THEN Written(users[a], r) ELSE users[a]
        /\ \A a \in Accounts : password'[a] =
              IF a = r.account /\ Accepted(r) /\ r.kind \in {"createUser", "updatePassword"}
              THEN r.text ELSE password[a]
    BY <1>2, HandledCall
  <1>6. ASSUME NEW a \in Accounts
        PROVE  users'[a].picture \in {a, None} /\ (users'[a].core => password'[a] # None)
    <2>1. users[a].picture \in {a, None} /\ (users[a].core => password[a] # None)
      BY DEF Kept
    <2>2. CASE a # r.account
      BY <1>4, <1>5, <2>1, <2>2
    <2>3. CASE a = r.account
      <3>1. users'[a] = Written(users[a], r) /\ users[a] \in Profile
        BY <1>3, <1>5, <2>3
      <3>2. CASE r.kind = "setUser"
        <4>1. users'[a].picture = None
          BY <3>1, <3>2 DEF Written, Registered
        <4>2. password[a] # None
          BY <1>3, <2>3, <3>2 DEF CallKept
        <4> QED BY <1>4, <4>1, <4>2
      <3>3. CASE r.kind = "setPicture"
        <4>1. users'[a] = [users[a] EXCEPT !.picture = r.picture]
          BY <3>1, <3>3 DEF Written
        <4>2. r.picture = a
          BY <1>3, <2>3, <3>3 DEF CallKept
        <4> QED BY <1>4, <2>1, <3>1, <4>1, <4>2 DEF Profile
      <3>4. CASE r.kind = "setName"
        <4>1. users'[a] = [users[a] EXCEPT !.name = r.name]
          BY <3>1, <3>4 DEF Written
        <4> QED BY <1>4, <2>1, <3>1, <4>1 DEF Profile
      <3>5. CASE r.kind \notin {"setUser", "setPicture", "setName"}
        <4>1. users'[a] = users[a]
          BY <3>1, <3>5 DEF Written
        <4> QED BY <1>4, <2>1, <4>1
      <3> QED BY <3>2, <3>3, <3>4, <3>5
    <2> QED BY <2>2, <2>3
  <1>7. current' # None => password'[current'] # None
    <2>1. CASE current' = current
      BY <1>4, <2>1 DEF Kept, SessionTypes, TypeOK
    <2>2. CASE current' = r.account /\ Accepted(r) /\ r.kind = "createUser"
      BY <1>3, <1>5, <2>2 DEF CallKept
    <2>3. CASE current' = r.account /\ Accepted(r) /\ r.kind = "signIn"
      <3>1. password[r.account] = r.text /\ r.text # None
        BY <1>3, <2>3 DEF CallKept, Accepted
      <3> QED BY <1>3, <1>4, <2>3, <3>1
    <2> QED BY <1>2, <2>1, <2>2, <2>3 DEF Handles
  <1>8. ASSUME NEW c \in Calls' PROVE CallKept(c)'
    <2>1. CallKept(c) /\ c.account \in Accounts
      <3>1. c \in Calls /\ c \in Request
        BY <1>3, <1>8, CallsTyped DEF SessionTypes
      <3> QED BY <3>1 DEF Kept, Request
    <2> QED BY <1>4, <2>1 DEF CallKept
  <1> QED BY <1>6, <1>7, <1>8 DEF Kept

LEMMA FaultKept == ASSUME SessionTypes, Kept, Fail \/ Revoke \/ Quit \/ NeverLeft PROVE Kept'
  <1>1. UNCHANGED <<password, users>> /\ current' \in {None, current}
    BY DEF Fail, Revoke, Quit, NeverLeft, serverVars
  <1>2. Calls' \subseteq Calls
    BY FaultCalls
  <1>3. \A c : CallKept(c) => CallKept(c)'
    BY <1>1 DEF CallKept
  <1> QED BY <1>1, <1>2, <1>3 DEF Kept

LEMMA KeptInit == Init => Kept /\ Counted
  <1> SUFFICES ASSUME Init PROVE Kept /\ Counted
    OBVIOUS
  <1>1. Calls = {}
    BY DEF Init, Calls
  <1>2. FirstPassword # None
    BY FirstType, NoneIsNobody
  <1>3. \A a \in Accounts : /\ users[a].picture = None
                            /\ users[a].core => a \in Existing
                            /\ a \in Existing => password[a] = FirstPassword
    BY DEF Init, Registered, EmptyProfile
  <1>4. current \in Existing \cup {None} /\ Existing \subseteq Accounts
    BY FirstType DEF Init
  <1>5. requests = <<>> /\ ~revoked
    BY DEF Init
  <1> QED BY <1>1, <1>2, <1>3, <1>4, <1>5 DEF Kept, Counted

LEMMA KeptStep == ASSUME SessionTypes, Kept, [Next]_vars PROVE Kept'
  <1>1. CASE UNCHANGED vars
    BY <1>1 DEF vars, serverVars, Kept, CallKept, Calls
  <1> QED BY <1>1, UserKept, CallbackKept, ServeKept, FaultKept DEF Next

LEMMA CountedStep == ASSUME SessionTypes, Counted, [Next]_vars PROVE Counted'
  <1>1. faults \in Nat
    BY DEF SessionTypes, TypeOK
  <1>2. CASE User
    <2>1. UNCHANGED revoked /\ app' = "on"
      BY <1>2, UserAsks
    <2>2. faults' = faults \/ faults' = faults + 1
      BY <1>2 DEF User, Launch, ToMatches, ToAccount, ToggleRegister, DismissAlert, login,
           register, signOut, RefreshProfile, PickImage, loadProfileImage, OpenForm, Back,
           TypeName, TypePassword, updatePlayerData, updatePassword, FormCalls
    <2> QED BY <1>1, <2>1, <2>2 DEF Counted
  <1>3. CASE Callback
    BY <1>3, CallbackAsks DEF Counted
  <1>4. CASE Serve
    <2>1. UNCHANGED <<app, revoked, faults>>
      BY <1>4 DEF Serve, serviceUnchanged, histVars
    <2>2. requests # <<>>
      BY <1>4 DEF Serve
    <2> QED BY <2>1, <2>2 DEF Counted
  <1>5. CASE Fail \/ Revoke \/ Quit
    <2>1. faults' = faults + 1
      BY <1>5 DEF Fail, Revoke, Quit, Fault
    <2> QED BY <1>1, <2>1 DEF Counted
  <1>6. CASE NeverLeft
    <2>1. UNCHANGED <<app, revoked, faults>> /\ requests # <<>>
      BY <1>6 DEF NeverLeft, histVars
    <2> QED BY <2>1, <1>6 DEF Counted, NeverLeft
  <1>7. CASE UNCHANGED vars
    BY <1>7 DEF vars, histVars, Counted
  <1> QED BY <1>2, <1>3, <1>4, <1>5, <1>6, <1>7 DEF Next

-----------------------------------------------------------------------------
(* The signed-in flag. While the content is not used during a call and the   *)
(* library does not sign the user out, isLoggedIn follows Auth.currentUser,  *)
(* but for the answer of the sign-in or registration that changed it and for *)
(* a registration that stopped before its profile was written.               *)
Flag ==
    /\ base.isLoggedIn => current # None
    /\ ~base.isLoggedIn =>
          \/ current = None \/ ~users[current].core
          \/ \E i \in 1..Len(replies) :
                replies[i].ok /\ replies[i].req.kind \in {"signIn", "setUser"}
    /\ \A c \in Calls : c.kind = "setUser" => c.account = current
    /\ \A i \in 1..Len(replies) :
          replies[i].ok /\ replies[i].req.kind \in {"signIn", "createUser"} =>
             replies[i].req.account = current

FlagInv == app = "on" /\ ~slipped /\ ~revoked => Flag

(* Only a launch, a sign-out and an answer change the flag.                  *)
LEMMA FlagStays ==
    ASSUME SessionTypes, User, ~Launch
    PROVE  /\ app = "on"
           /\ ~signOut => current' = current /\ base'.isLoggedIn = base.isLoggedIn
  <1>1. base \in Base
    BY DEF SessionTypes, TypeOK
  <1>2. \A b \in Base : getCurrentUserData(b, requests) \/ ProfileAppears(b, requests)
                           => base'.isLoggedIn = b.isLoggedIn
    BY DEF getCurrentUserData, ProfileAppears, Base
  <1>3. CASE ToAccount \/ RefreshProfile \/ Back
    <2>1. app = "on" /\ current' = current
      BY <1>3 DEF ToAccount, RefreshProfile, Back, Tap, Touch
    <2>2. \/ getCurrentUserData(base, requests) \/ ProfileAppears(base, requests) \/ base' = base
      BY <1>3 DEF ToAccount, RefreshProfile, Back
    <2> QED BY <1>1, <1>2, <2>1, <2>2
  <1>4. CASE ToMatches \/ TypeName \/ TypePassword \/ PickImage
             \/ OpenForm("profile") \/ OpenForm("password")
    BY <1>4 DEF ToMatches, TypeName, TypePassword, PickImage, OpenForm, OnForm, Tap, Touch
  <1>5. CASE updatePlayerData \/ updatePassword
    BY <1>5 DEF updatePlayerData, updatePassword, FormCalls, Touch
  <1>6. CASE ToggleRegister \/ DismissAlert \/ login \/ register \/ loadProfileImage
    <2>1. app = "on" /\ current' = current
      BY <1>6 DEF ToggleRegister, DismissAlert, login, register, loadProfileImage, Tap, Touch,
                  Uncovered, AtRoot
    <2>2. \/ base' = base
          \/ base' = [base EXCEPT !.isRegisterViewShowing = ~@]
          \/ base' = [base EXCEPT !.showAlert = FALSE]
          \/ base' = [base EXCEPT !.isLoad = TRUE]
          \/ base' = [base EXCEPT !.isLoad = FALSE]
      BY <1>6 DEF ToggleRegister, DismissAlert, login, register, loadProfileImage
    <2> QED BY <1>1, <2>1, <2>2 DEF Base
  <1>7. CASE signOut
    BY <1>7 DEF signOut, Tap, Touch
  <1> QED BY <1>3, <1>4, <1>5, <1>6, <1>7 DEF User

(* A sign-out that did not slip finds nothing under way.                     *)
LEMMA SignOutFinds ==
    ASSUME SessionTypes, signOut
    PROVE  /\ ~slipped' => Idle
           /\ \/ current' = None /\ ~base'.isLoggedIn /\ base'.userModel = None
              \/ UNCHANGED <<current, base>> /\ faults' = faults + 1
  <1>1. base \in Base
    BY DEF SessionTypes, TypeOK
  <1>2. slipped' = (slipped \/ ~Idle)
    BY DEF signOut, Tap
  <1>3. ~slipped' => Idle
    BY <1>2, Zenon
  <1> QED BY <1>1, <1>3 DEF signOut, Base

LEMMA UserFlag == ASSUME SessionTypes, OwnInv, FlagInv, User PROVE FlagInv'
  <1>1. TypeOK
    BY DEF SessionTypes
  <1>2. /\ UNCHANGED <<replies, users, revoked>> /\ app' = "on" /\ (~slipped' => ~slipped)
        /\ \A c \in Calls' \ Calls : c.kind # "setUser"
    BY UserAsks, GestureCalls, UserCallFields
  <1> SUFFICES ASSUME ~slipped', ~revoked' PROVE Flag'
    BY DEF FlagInv
  <1>3. CASE Launch
    <2>1. /\ requests = <<>> /\ replies = <<>> /\ UNCHANGED current
          /\ getCurrentUserData(NewBase, requests)
      BY <1>3 DEF Launch, SessionTypes, QuietWhenOff
    <2>2. NewBase \in Base /\ (NewBase.isLoggedIn <=> current # None)
      BY DEF NewBase, Base
    <2>3. base'.isLoggedIn <=> current # None
      BY <2>1, <2>2 DEF getCurrentUserData, Base
    <2>4. Calls = {}
      BY <2>1 DEF Calls
    <2> QED BY <1>2, <2>1, <2>3, <2>4 DEF Flag
  <1>4. CASE ~Launch /\ UNCHANGED current /\ base'.isLoggedIn = base.isLoggedIn
    <2>1. Flag
      BY <1>2, <1>4, FlagStays DEF FlagInv
    <2> QED BY <1>2, <1>4, <2>1 DEF Flag
  <1>5. CASE signOut /\ current' = None /\ ~base'.isLoggedIn
    <2>1. Calls = {} /\ replies = <<>>
      BY <1>1, <1>5, SignOutFinds, NothingUnderWay DEF Idle
    <2> QED BY <1>2, <1>5, <2>1 DEF Flag
  <1> QED BY <1>3, <1>4, <1>5, FlagStays, SignOutFinds

(* An answer for a sign-in or a registration is the only call under way.     *)
LEMMA EntryAnswered ==
    ASSUME SessionTypes, OwnInv, ~slipped, ~revoked, Callback,
           Head(replies).req.kind \in LoginKinds
    PROVE  /\ ~base.isLoggedIn /\ requests = <<>> /\ replies' = <<>>
           /\ Len(replies) = 1 /\ replies[1] = Head(replies)
           /\ base.userModel = None /\ pushed = "root" /\ ~picking
  <1>1. TypeOK /\ app = "on" /\ replies # <<>> /\ replies' = Tail(replies)
    BY CallbackAsks DEF SessionTypes
  <1>2. Head(replies).req \in Calls
    BY <1>1, FirstAnswer
  <1>3. Own /\ ~base.isLoggedIn
    BY <1>1, <1>2 DEF OwnInv, Own
  <1>4. Pending <= 1 /\ base.userModel = None /\ pushed = "root" /\ ~picking
    BY <1>1, <1>3 DEF Own
  <1>5. requests = <<>> /\ replies' = <<>>
    BY <1>1, <1>4, OnlyCall
  <1>6. Len(replies) = 1 /\ replies[1] = Head(replies)
    <2>1. replies \in Seq(Reply) /\ Len(replies) \in Nat
      BY <1>1 DEF TypeOK
    <2>2. Len(replies') = Len(replies) - 1 /\ Len(replies') = 0
      BY <1>1, <1>5, AnswersLeft
    <2> QED BY <2>1, <2>2
  <1> QED BY <1>3, <1>4, <1>5, <1>6

(* The callbacks that are not of a sign-in or a registration leave the flag. *)
LEMMA CallbackFlagStays ==
    ASSUME SessionTypes, Callback, Head(replies).req.kind \notin LoginKinds
    PROVE  base'.isLoggedIn = base.isLoggedIn /\ UNCHANGED <<pushed, picking>>
  <1>1. base \in Base
    BY DEF SessionTypes, TypeOK
  <1>2. \/ OnUserRead \/ OnUploaded \/ OnDownloadURL \/ OnPictureWritten
        \/ OnReauthenticated \/ OnFormWritten("updatePassword") \/ OnFormWritten("setName")
    BY DEF Callback, LoginKinds, OnSignIn, OnUserCreated, OnUserWritten, Answered
  <1>3. CASE OnUserRead
    BY <1>1, <1>3 DEF OnUserRead, Base
  <1>4. CASE OnPictureWritten
    BY <1>1, <1>4 DEF OnPictureWritten, Base
  <1>5. CASE OnUploaded \/ OnDownloadURL
    <2>1. base' = base \/ base' = [base EXCEPT !.isLoad = FALSE]
      BY <1>5 DEF OnUploaded, OnDownloadURL, NextUpload
    <2>2. UNCHANGED <<pushed, picking>>
      BY <1>5 DEF OnUploaded, OnDownloadURL
    <2> QED BY <1>1, <2>1, <2>2 DEF Base
  <1>6. CASE OnReauthenticated \/ OnFormWritten("updatePassword") \/ OnFormWritten("setName")
    BY <1>6 DEF OnReauthenticated, OnFormWritten
  <1> QED BY <1>2, <1>3, <1>4, <1>5, <1>6

LEMMA CallbackFlag == ASSUME SessionTypes, OwnInv, FlagInv, Callback PROVE FlagInv'
  <1> DEFINE a == Head(replies)
  <1>1. /\ TypeOK /\ app = "on" /\ replies # <<>> /\ replies' = Tail(replies)
        /\ UNCHANGED <<users, current, app, slipped, revoked>>
    BY CallbackAsks DEF SessionTypes
  <1> SUFFICES ASSUME ~slipped, ~revoked PROVE Flag'
    BY <1>1 DEF FlagInv
  <1>2. Flag
    BY <1>1 DEF FlagInv
  <1>3. a.req \in Calls /\ a \in Reply /\ a.req.account \in Accounts /\ None \notin Accounts
    BY <1>1, FirstAnswer, NoneIsNobody DEF Reply, Request
  <1>4. \A c \in Calls' \ Calls : CallbackCall(a, c)
    BY AnswerCalls
  <1>5. CASE a.req.kind \in LoginKinds
    <2>1. /\ ~base.isLoggedIn /\ requests = <<>> /\ replies' = <<>>
          /\ Len(replies) = 1 /\ replies[1] = a
      BY <1>5, EntryAnswered
    <2>2. \A i \in 1..Len(replies) : replies[i] = a
      BY <2>1
    <2>3. /\ a.ok /\ a.req.kind \in {"signIn", "createUser"} => a.req.account = current
          /\ a.req.kind = "setUser" => a.req.account = current
      BY <1>2, <1>3, <2>1, <2>2 DEF Flag
    <2>4. \A c \in Calls' : c.kind = "setUser" => c.account = current'
      <3>1. ASSUME NEW c \in Calls', c.kind = "setUser" PROVE c.account = current
        BY <1>2, <1>4, <3>1, CallbackCallFields DEF Flag
      <3> QED BY <1>1, <3>1
    <2>5. \A i \in 1..Len(replies') : FALSE
      BY <2>1
    <2>6. CASE a.ok /\ LoggedIn /\ a.req.kind \in {"signIn", "setUser"}
      <3>1. current # None
        BY <1>3, <2>3, <2>6
      <3>2. base'.isLoggedIn
        BY <1>1, <2>6, LoggedInShape
      <3> QED BY <1>1, <2>4, <2>5, <3>1, <3>2 DEF Flag
    <2>7. ~(a.ok /\ a.req.kind \in {"signIn", "setUser"}) => current = None \/ ~users[current].core
      BY <1>2, <2>1, <2>2 DEF Flag
    <2>8. CASE NotLoggedIn /\ ~(a.ok /\ a.req.kind \in {"signIn", "setUser"})
      <3>1. ~base'.isLoggedIn
        BY <1>1, <2>8, NotLoggedInShape
      <3> QED BY <1>1, <2>4, <2>5, <2>7, <2>8, <3>1 DEF Flag
    <2>9. CASE UNCHANGED base /\ a.req.kind = "createUser"
      BY <1>1, <2>1, <2>4, <2>5, <2>7, <2>9 DEF Flag
    <2>10. OnSignIn \/ OnUserCreated \/ OnUserWritten
      BY <1>5 DEF Callback, LoginKinds, OnUserRead, OnUploaded, OnDownloadURL,
                  OnPictureWritten, OnReauthenticated, OnFormWritten, Answered
    <2> QED BY <2>6, <2>8, <2>9, <2>10 DEF OnSignIn, OnUserCreated, OnUserWritten, Answered
  <1>6. CASE a.req.kind \notin LoginKinds
    <2>1. base.isLoggedIn /\ base'.isLoggedIn
      BY <1>1, <1>6, AnswerFindsUser, CallbackFlagStays
    <2>2. \A c \in Calls' : c.kind = "setUser" => c.account = current'
      <3>1. ASSUME NEW c \in Calls', c.kind = "setUser" PROVE c \in Calls
        BY <1>4, <1>6, <3>1, CallbackCallFields DEF LoginKinds
      <3> QED BY <1>1, <1>2, <3>1 DEF Flag
    <2>3. \A i \in 1..Len(replies') :
             replies'[i].ok /\ replies'[i].req.kind \in {"signIn", "createUser"} =>
                replies'[i].req.account = current'
      BY <1>1, <1>2, AnswersLeft DEF Flag
    <2>4. current' # None
      BY <1>1, <1>2, <2>1 DEF Flag
    <2> QED BY <2>1, <2>2, <2>3, <2>4 DEF Flag
  <1> QED BY <1>5, <1>6

(* While nobody is logged in the call that is handled is the only one.       *)
LEMMA OnlyRequest ==
    ASSUME TypeOK, Pending <= 1, NEW i \in 1..Len(requests)
    PROVE  Len(replies) = 0 /\ Len(requests) = 1 /\ i = 1
  <1>1. Len(requests) \in Nat /\ Len(replies) \in Nat /\ Len(requests) >= 1
    BY DEF TypeOK
  <1>2. Len(requests) + Len(replies) <= 1
    BY DEF Pending
  <1>3. \A m, n \in Nat : m >= 1 /\ m + n <= 1 => m = 1 /\ n = 0
    OBVIOUS
  <1>4. Len(replies) = 0 /\ Len(requests) = 1
    BY <1>1, <1>2, <1>3
  <1> QED BY <1>4

LEMMA ServeFlag == ASSUME SessionTypes, OwnInv, Kept, FlagInv, Serve PROVE FlagInv'
  <1>1. PICK i \in 1..Len(requests) : Handles(i, requests[i])
    BY ServeHandles
  <1> DEFINE r == requests[i]
             e == [req |-> r, ok |-> Accepted(r), profile |-> users[r.account]]
  <1>2. Handles(i, r) /\ TypeOK
    BY <1>1 DEF SessionTypes
  <1>3. /\ r \in Request /\ r \in Calls /\ r.account \in Accounts /\ Accepted(r) \in BOOLEAN
        /\ users[r.account] \in Profile
        /\ UNCHANGED <<app, base, slipped, revoked>>
        /\ \A a \in Accounts : users'[a] = IF a = r.account THEN Written(users[a], r) ELSE users[a]
    BY <1>2, HandledCall
  <1> SUFFICES ASSUME app = "on", ~slipped, ~revoked PROVE Flag'
    BY <1>3 DEF FlagInv
  <1>4. Flag /\ Own
    BY DEF FlagInv, OwnInv
  <1>5. /\ Calls' = Calls /\ Len(replies) \in Nat /\ Len(replies') = Len(replies) + 1
        /\ \A j \in 1..Len(replies) : replies'[j] = replies[j]
        /\ replies'[Len(replies) + 1] = e
        /\ 1..Len(replies') = 1..Len(replies) \cup {Len(replies) + 1}
    BY <1>2, <1>3, CallsStay DEF Handles
  <1>6. current' = IF Accepted(r) /\ r.kind \in {"signIn", "createUser"}
                   THEN r.account ELSE current
    BY <1>2 DEF Handles
  <1>7. e.req = r /\ e.ok = Accepted(r)
    OBVIOUS
  <1> HIDE DEF e, r
  <1>8. CASE base.isLoggedIn
    <2>1. r.kind \notin LoginKinds
      BY <1>3, <1>4, <1>8 DEF Own
    <2>2. UNCHANGED current
      BY <1>6, <2>1 DEF LoginKinds
    <2>3. \A j \in 1..Len(replies') :
             replies'[j].ok /\ replies'[j].req.kind \in {"signIn", "createUser"} =>
                replies'[j].req.account = current'
      BY <1>4, <1>5, <1>7, <2>1, <2>2 DEF Flag, LoginKinds
    <2> QED BY <1>3, <1>4, <1>5, <1>8, <2>2, <2>3 DEF Flag
  <1>9. CASE ~base.isLoggedIn
    <2>1. Pending <= 1 /\ r.kind \in LoginKinds
      BY <1>3, <1>4, <1>9 DEF Own
    <2>2. Len(replies) = 0 /\ Len(requests) = 1 /\ i = 1
      BY <1>2, <2>1, OnlyRequest
    <2>3. Len(replies') = 1 /\ replies'[1] = e /\ 1 \in 1..Len(replies')
      BY <1>5, <2>2
    <2>4. \A j \in 1..Len(replies') : replies'[j] = e
      BY <2>3
    <2>5. Calls = {r}
      BY <2>2 DEF Calls, r
    <2>6. r.kind = "setUser" => r.account = current'
      BY <1>3, <1>4, <1>6 DEF Flag
    <2>7. \/ current' = None \/ ~users'[current'].core
          \/ e.ok /\ e.req.kind \in {"signIn", "setUser"}
      <3>1. CASE r.kind = "setUser"
        BY <1>7, <3>1 DEF Accepted
      <3>2. CASE r.kind = "createUser" /\ Accepted(r)
        <4>1. password[r.account] = None
          BY <3>2 DEF Accepted
        <4>2. ~users[r.account].core
          BY <1>3, <4>1 DEF Kept
        <4>3. users'[r.account] = users[r.account]
          BY <1>3, <3>2 DEF Written
        <4> QED BY <1>6, <3>2, <4>2, <4>3
      <3>3. CASE r.kind = "signIn" /\ Accepted(r)
        BY <1>7, <3>3
      <3>4. CASE r.kind \in {"signIn", "createUser"} /\ ~Accepted(r)
        <4>1. current = None \/ ~users[current].core
          BY <1>4, <1>9, <2>2 DEF Flag
        <4>2. \A a \in Accounts : users'[a] = users[a]
          BY <1>3, <3>4 DEF Written
        <4>3. current \in Accounts \cup {None}
          BY <1>2 DEF TypeOK
        <4> QED BY <1>6, <3>4, <4>1, <4>2, <4>3
      <3> QED BY <2>1, <3>1, <3>2, <3>3, <3>4 DEF LoginKinds
    <2>8. e.ok /\ e.req.kind \in {"signIn", "createUser"} => e.req.account = current'
      BY <1>6, <1>7
    <2> QED BY <1>3, <1>5, <1>9, <2>3, <2>4, <2>5, <2>6, <2>7, <2>8 DEF Flag
  <1> QED BY <1>8, <1>9

LEMMA FaultFlag ==
    ASSUME SessionTypes, FlagInv, Fail \/ Revoke \/ Quit \/ NeverLeft
    PROVE  FlagInv'
  <1>1. CASE Revoke \/ Quit \/ NeverLeft
    BY <1>1 DEF Revoke, Quit, NeverLeft, FlagInv
  <1>2. CASE Fail
    <2>1. UNCHANGED <<users, current, app, base, slipped, revoked>> /\ TypeOK
      BY <1>2 DEF Fail, serverVars, serviceUnchanged, histVars, SessionTypes
    <2>2. PICK i \in 1..Len(requests) :
             requests' = Without(i) /\ Answer(requests[i], FALSE, EmptyProfile) /\ app = "on"
      BY <1>2 DEF Fail
    <2>3. EmptyProfile \in Profile
      BY DEF EmptyProfile, Profile
    <2>4. /\ Calls' = Calls /\ Len(replies) \in Nat /\ Len(replies') = Len(replies) + 1
          /\ \A j \in 1..Len(replies) : replies'[j] = replies[j]
          /\ replies'[Len(replies) + 1] =
                [req |-> requests[i], ok |-> FALSE, profile |-> EmptyProfile]
          /\ 1..Len(replies') = 1..Len(replies) \cup {Len(replies) + 1}
      BY <2>1, <2>2, <2>3, CallsStay
    <2> SUFFICES ASSUME ~slipped, ~revoked PROVE Flag'
      BY <2>1 DEF FlagInv
    <2>5. Flag
      BY <2>2 DEF FlagInv
    <2>6. \A j \in 1..Len(replies') :
             replies'[j].ok => j \in 1..Len(replies) /\ replies'[j] = replies[j]
      BY <2>4
    <2>7. \A j \in 1..Len(replies) : j \in 1..Len(replies') /\ replies'[j] = replies[j]
      BY <2>4
    <2> QED BY <2>1, <2>4, <2>5, <2>6, <2>7 DEF Flag
  <1> QED BY <1>1, <1>2

LEMMA FlagStep ==
    ASSUME SessionTypes, OwnInv, Kept, FlagInv, [Next]_vars
    PROVE  FlagInv'
  <1>1. CASE UNCHANGED vars
    BY <1>1 DEF vars, serverVars, histVars, FlagInv, Flag, Calls
  <1> QED BY <1>1, UserFlag, CallbackFlag, ServeFlag, FaultFlag DEF Next

-----------------------------------------------------------------------------
(* The loading views. A flag that is on has its call under way: the one of   *)
(* the view model a call that is no form's, the one of a form a call of its  *)
(* visit.                                                                    *)
FormLoads(v) == \E c \in Calls : c.kind \in FormKinds /\ c.visit = v

LoadingEnds ==
    /\ base.isLoad => app = "on" /\ \E c \in Calls : c.kind \notin FormKinds
    /\ \A v \in 1..Len(forms) : forms[v].isLoad => slipped \/ revoked \/ FormLoads(v)
    /\ app = "off" => forms = <<>>

(* A new call is among the calls.                                            *)
LEMMA NewCall ==
    ASSUME TypeOK, NEW r \in Request, requests' = Append(requests, r)
    PROVE  r \in Calls'
  <1>1. requests \in Seq(Request)
    BY DEF TypeOK
  <1>2. Len(requests) + 1 \in 1..Len(requests') /\ requests'[Len(requests) + 1] = r
    BY <1>1
  <1> QED BY <1>2 DEF Calls

(* The loading view is laid over the screen for a call.                      *)
LEMMA ReadLoads ==
    ASSUME SessionTypes, NEW b \in Base,
           getCurrentUserData(b, requests) \/ ProfileAppears(b, requests)
    PROVE  base'.isLoad => b.isLoad \/ \E c \in Calls' : c.kind \notin FormKinds
  <1>1. TypeOK
    BY DEF SessionTypes
  <1> DEFINE r == Req("getUser", current)
  <1>2. \/ base' = b
        \/ ~base'.isLoad
        \/ current # None /\ requests' = Append(requests, r)
    BY DEF getCurrentUserData, ProfileAppears, Base
  <1>3. current # None => r \in Request
    BY <1>1, RequestType DEF TypeOK, DatabaseKinds
  <1>4. r.kind \notin FormKinds
    BY ReadIsNoFormCall
  <1> HIDE DEF r
  <1> QED BY <1>1, <1>2, <1>3, <1>4, NewCall

LEMMA UserLoads ==
    ASSUME SessionTypes, User
    PROVE  base'.isLoad => base.isLoad \/ \E c \in Calls' : c.kind \notin FormKinds
  <1>1. TypeOK /\ base \in Base
    BY DEF SessionTypes, TypeOK
  <1>2. CASE Launch
    <2>1. NewBase \in Base /\ ~NewBase.isLoad
      BY DEF NewBase, Base
    <2>2. getCurrentUserData(NewBase, requests)
      BY <1>2 DEF Launch
    <2> QED BY <2>1, <2>2, ReadLoads
  <1>3. CASE ToAccount \/ RefreshProfile \/ Back
    <2>1. \/ getCurrentUserData(base, requests) \/ ProfileAppears(base, requests) \/ base' = base
      BY <1>3 DEF ToAccount, RefreshProfile, Back
    <2> QED BY <1>1, <2>1, ReadLoads
  <1>4. CASE \/ ToMatches \/ TypeName \/ TypePassword \/ PickImage
             \/ OpenForm("profile") \/ OpenForm("password")
             \/ updatePlayerData \/ updatePassword
    BY <1>4 DEF ToMatches, TypeName, TypePassword, PickImage, OpenForm, updatePlayerData,
                updatePassword, FormCalls
  <1>5. CASE ToggleRegister \/ DismissAlert \/ signOut
    <2>1. \/ base' = base
          \/ base' = [base EXCEPT !.isRegisterViewShowing = ~@]
          \/ base' = [base EXCEPT !.showAlert = FALSE]
          \/ base' = [base EXCEPT !.userModel = None, !.isLoggedIn = FALSE]
      BY <1>5 DEF ToggleRegister, DismissAlert, signOut
    <2> QED BY <1>1, <2>1 DEF Base
  <1>6. CASE login
    <2>1. PICK a \in Accounts, p \in Passwords :
             requests' = Append(requests, [Req("signIn", a) EXCEPT !.text = p])
      BY <1>6 DEF login
    <2> DEFINE r == [Req("signIn", a) EXCEPT !.text = p]
    <2>2. r \in Request /\ r.kind \notin FormKinds
      BY DEF Req, Request, AuthKinds, FormKinds
    <2>3. requests' = Append(requests, r)
      BY <2>1
    <2> HIDE DEF r
    <2> QED BY <1>1, <2>2, <2>3, NewCall
  <1>7. CASE register
    <2>1. PICK a \in Accounts, p \in Passwords, n \in Names :
             requests' = Append(requests, [Req("createUser", a) EXCEPT !.text = p, !.name = n])
      BY <1>7 DEF register
    <2> DEFINE r == [Req("createUser", a) EXCEPT !.text = p, !.name = n]
    <2>2. r \in Request /\ r.kind \notin FormKinds
      BY DEF Req, Request, AuthKinds, FormKinds
    <2>3. requests' = Append(requests, r)
      BY <2>1
    <2> HIDE DEF r
    <2> QED BY <1>1, <2>2, <2>3, NewCall
  <1>8. CASE loadProfileImage
    <2> DEFINE r == Req("putData", current)
    <2>1. current # None => r \in Request
      BY <1>1, RequestType DEF TypeOK, StorageKinds
    <2>2. r.kind \notin FormKinds
      BY DEF Req, FormKinds
    <2>3. \/ base' = [base EXCEPT !.isLoad = FALSE]
          \/ current # None /\ requests' = Append(requests, r)
      BY <1>8 DEF loadProfileImage
    <2> HIDE DEF r
    <2>4. CASE base' = [base EXCEPT !.isLoad = FALSE]
      BY <1>1, <2>4 DEF Base
    <2> QED BY <1>1, <2>1, <2>2, <2>3, <2>4, NewCall
  <1> QED BY <1>2, <1>3, <1>4, <1>5, <1>6, <1>7, <1>8 DEF User

(* The flag of the view model goes out with the answer it is on for, unless  *)
(* the callback makes the next call.                                         *)
LEMMA CallbackLoads ==
    ASSUME SessionTypes, Callback
    PROVE  \/ ~base'.isLoad
           \/ Head(replies).req.kind \in FormKinds /\ UNCHANGED base
           \/ \E c \in Calls' : c.kind \notin FormKinds
  <1> DEFINE a == Head(replies)
  <1>1. TypeOK /\ base \in Base /\ replies # <<>> /\ app = "on"
    BY CallbackAsks DEF SessionTypes, TypeOK
  <1>2. ASSUME NEW r, requests' = Append(requests, r), r.kind \notin FormKinds
        PROVE  \E c \in Calls' : c.kind \notin FormKinds
    BY <1>2, AnswerCalls
  <1>3. CASE OnSignIn \/ OnUserWritten
    <2>1. LoggedIn \/ NotLoggedIn
      BY <1>3 DEF OnSignIn, OnUserWritten
    <2>2. CASE NotLoggedIn
      BY <1>1, <2>2 DEF NotLoggedIn, Refused, Base
    <2>3. CASE LoggedIn
      <3> DEFINE b == [base EXCEPT !.isLoad = FALSE, !.isLoggedIn = TRUE]
      <3>1. b \in Base /\ ~b.isLoad
        BY <1>1 DEF Base
      <3>2. ProfileAppears(b, requests) \/ base' = b
        BY <2>3 DEF LoggedIn
      <3> HIDE DEF b
      <3> QED BY <3>1, <3>2, ReadLoads
    <2> QED BY <2>1, <2>2, <2>3
  <1>4. CASE OnUserCreated
    <2>1. CASE NotLoggedIn
      BY <1>1, <2>1 DEF NotLoggedIn, Refused, Base
    <2>2. CASE requests' = Append(requests, [Req("setUser", current) EXCEPT !.name = a.req.name])
      <3>1. [Req("setUser", current) EXCEPT !.name = a.req.name].kind \notin FormKinds
        BY DEF Req, FormKinds
      <3> QED BY <1>2, <2>2, <3>1
    <2> QED BY <1>4, <2>1, <2>2 DEF OnUserCreated
  <1>5. CASE OnUserRead
    BY <1>1, <1>5 DEF OnUserRead, Base
  <1>6. CASE OnPictureWritten
    BY <1>1, <1>6 DEF OnPictureWritten, Base
  <1>7. CASE OnUploaded \/ OnDownloadURL
    <2>1. \/ base' = [base EXCEPT !.isLoad = FALSE]
          \/ requests' = Append(requests, Req("downloadURL", a.req.account))
          \/ requests' = Append(requests,
                [Req("setPicture", a.req.account) EXCEPT !.picture = a.req.account])
      BY <1>7 DEF OnUploaded, OnDownloadURL, NextUpload
    <2>2. /\ Req("downloadURL", a.req.account).kind \notin FormKinds
          /\ [Req("setPicture", a.req.account) EXCEPT !.picture = a.req.account].kind
                \notin FormKinds
      BY DEF Req, FormKinds
    <2>3. CASE base' = [base EXCEPT !.isLoad = FALSE]
      BY <1>1, <2>3 DEF Base
    <2> QED BY <1>2, <2>1, <2>2, <2>3
  <1>8. CASE OnReauthenticated \/ OnFormWritten("updatePassword") \/ OnFormWritten("setName")
    BY <1>8 DEF OnReauthenticated, OnFormWritten, Answered, FormKinds
  <1> QED BY <1>3, <1>4, <1>5, <1>6, <1>7, <1>8 DEF Callback

(* What a gesture does to the forms: the last one changes, or a new one is    *)
(* pushed.                                                                   *)
LEMMA FormGestures ==
    ASSUME SessionTypes, User
    PROVE  \/ UNCHANGED forms
           \/ forms' = Append(forms, NewForm) /\ (OpenForm("profile") \/ OpenForm("password"))
           \/ /\ pushed # "root" /\ pushed' = pushed
              /\ \E f \in Form :
                    /\ forms' = [forms EXCEPT ![Len(forms)] = f]
                    /\ f.isLoad = form.isLoad \/ updatePlayerData \/ updatePassword
                    /\ \/ f.nameSurname = form.nameSurname
                       \/ f.nameSurname \in Names
                       \/ f.nameSurname = ShownName /\ UNCHANGED base /\ pushed = "profile"
  <1>1. TypeOK /\ base \in Base
    BY DEF SessionTypes, TypeOK
  <1>2. pushed # "root" => form \in Form
    BY <1>1, LastVisit
  <1>3. CASE \/ Launch \/ ToMatches \/ ToggleRegister \/ login \/ register \/ signOut
             \/ RefreshProfile \/ PickImage \/ loadProfileImage \/ Back
    BY <1>3 DEF Launch, ToMatches, ToggleRegister, login, register, signOut, RefreshProfile,
                PickImage, loadProfileImage, Back
  <1>4. CASE OpenForm("profile") \/ OpenForm("password")
    BY <1>4 DEF OpenForm
  <1>5. CASE ToAccount
    <2>1. CASE /\ pushed = "profile"
               /\ forms' = [forms EXCEPT ![Len(forms)].nameSurname = ShownName]
               /\ UNCHANGED <<base, pushed>>
      <3> DEFINE f == [form EXCEPT !.nameSurname = ShownName]
      <3>1. ShownName \in Names \cup {None}
        BY <1>1 DEF ShownName, Base, UserModel
      <3>2. f \in Form /\ f.isLoad = form.isLoad /\ f.nameSurname = ShownName
        BY <1>2, <2>1, <3>1 DEF Form
      <3>3. forms' = [forms EXCEPT ![Len(forms)] = f]
        BY <2>1 DEF form
      <3> HIDE DEF f
      <3> QED BY <2>1, <3>2, <3>3
    <2> QED BY <1>5, <2>1 DEF ToAccount
  <1>6. CASE DismissAlert /\ ~UNCHANGED forms
    <2>1. pushed # "root" /\ pushed' = pushed
      BY <1>6 DEF DismissAlert, uiVars
    <2>2. PICK a : forms' = [forms EXCEPT ![Len(forms)].alerts = @ \ {a}]
      BY <1>6 DEF DismissAlert
    <2> DEFINE f == [form EXCEPT !.alerts = @ \ {a}]
    <2>3. f \in Form /\ f.isLoad = form.isLoad /\ f.nameSurname = form.nameSurname
      BY <1>2, <2>1 DEF Form
    <2>4. forms' = [forms EXCEPT ![Len(forms)] = f]
      BY <2>2 DEF form
    <2> HIDE DEF f
    <2> QED BY <2>1, <2>3, <2>4
  <1>7. CASE TypeName
    <2>1. pushed # "root" /\ pushed' = pushed
      BY <1>7 DEF TypeName, OnForm, uiVars
    <2>2. PICK n \in Names : forms' = [forms EXCEPT ![Len(forms)].nameSurname = n]
      BY <1>7 DEF TypeName
    <2> DEFINE f == [form EXCEPT !.nameSurname = n]
    <2>3. f \in Form /\ f.isLoad = form.isLoad /\ f.nameSurname \in Names
      BY <1>2, <2>1 DEF Form
    <2>4. forms' = [forms EXCEPT ![Len(forms)] = f]
      BY <2>2 DEF form
    <2> HIDE DEF f
    <2> QED BY <2>1, <2>3, <2>4
  <1>8. CASE TypePassword
    <2>1. pushed # "root" /\ pushed' = pushed
      BY <1>8 DEF TypePassword, OnForm, uiVars
    <2>2. PICK p \in Passwords :
             \/ forms' = [forms EXCEPT ![Len(forms)].newPassword = p]
             \/ forms' = [forms EXCEPT ![Len(forms)].newPasswordRetry = p]
      BY <1>8 DEF TypePassword
    <2> DEFINE f == [form EXCEPT !.newPassword = p]
               g == [form EXCEPT !.newPasswordRetry = p]
    <2>3. f \in Form /\ f.isLoad = form.isLoad /\ f.nameSurname = form.nameSurname
      BY <1>2, <2>1 DEF Form
    <2>4. g \in Form /\ g.isLoad = form.isLoad /\ g.nameSurname = form.nameSurname
      BY <1>2, <2>1 DEF Form
    <2>5. forms' = [forms EXCEPT ![Len(forms)] = f] \/ forms' = [forms EXCEPT ![Len(forms)] = g]
      BY <2>2 DEF form
    <2> HIDE DEF f, g
    <2> QED BY <2>1, <2>3, <2>4, <2>5
  <1>9. CASE updatePlayerData \/ updatePassword
    <2>1. pushed # "root" /\ pushed' = pushed /\ forms' = [forms EXCEPT ![Len(forms)].isLoad = TRUE]
      BY <1>9 DEF updatePlayerData, updatePassword, OnForm, FormCalls, uiVars
    <2> DEFINE f == [form EXCEPT !.isLoad = TRUE]
    <2>2. f \in Form /\ f.nameSurname = form.nameSurname
      BY <1>2, <2>1 DEF Form
    <2>3. forms' = [forms EXCEPT ![Len(forms)] = f]
      BY <2>1 DEF form
    <2> HIDE DEF f
    <2> QED BY <1>9, <2>1, <2>2, <2>3
  <1> QED BY <1>3, <1>4, <1>5, <1>6, <1>7, <1>8, <1>9 DEF User

(* The button of a form finds a user, and makes a call of this visit.        *)
LEMMA ButtonCalls ==
    ASSUME SessionTypes, OwnInv, FlagInv, updatePlayerData \/ updatePassword
    PROVE  slipped \/ revoked \/ FormLoads(Len(forms))'
  <1>1. TypeOK /\ app = "on" /\ pushed # "root" /\ current \in Accounts \cup {None}
    BY DEF SessionTypes, TypeOK, updatePlayerData, updatePassword, OnForm
  <1>2. Len(forms) \in Nat /\ form.nameSurname \in Names \cup {None} /\ UNCHANGED Len(forms)
    <2>1. Len(forms) \in 1..Len(forms) /\ form \in Form
      BY <1>1, LastVisit
    <2>2. forms' = [forms EXCEPT ![Len(forms)].isLoad = TRUE]
      BY DEF updatePlayerData, updatePassword, FormCalls
    <2>3. forms \in Seq(Form)
      BY <1>1 DEF TypeOK
    <2> QED BY <2>1, <2>2, <2>3 DEF Form
  <1> SUFFICES ASSUME ~slipped, ~revoked PROVE FormLoads(Len(forms))'
    OBVIOUS
  <1>3. current # None
    <2>1. base.isLoggedIn
      BY <1>1 DEF OwnInv, Own
    <2> QED BY <1>1, <2>1 DEF FlagInv, Flag
  <1>4. PICK r : /\ FormCalls(r) /\ r.kind \in FormKinds /\ r.visit = Len(forms)
                 /\ r \in Request
    <2>1. CASE updatePlayerData
      <3> DEFINE r == [Req("setName", current) EXCEPT !.name = form.nameSurname,
                                                      !.visit = Len(forms)]
      <3>1. r \in Request /\ r.kind \in FormKinds /\ r.visit = Len(forms)
        BY <1>1, <1>2, <1>3 DEF Req, Request, DatabaseKinds, FormKinds
      <3>2. FormCalls(r)
        BY <2>1 DEF updatePlayerData
      <3> HIDE DEF r
      <3> QED BY <3>1, <3>2
    <2>2. CASE updatePassword
      <3>1. PICK p \in Passwords :
               FormCalls([Req("reauthenticate", current) EXCEPT !.text = p, !.visit = Len(forms)])
        BY <2>2 DEF updatePassword
      <3> DEFINE r == [Req("reauthenticate", current) EXCEPT !.text = p, !.visit = Len(forms)]
      <3>2. r \in Request /\ r.kind \in FormKinds /\ r.visit = Len(forms)
        BY <1>1, <1>2, <1>3 DEF Req, Request, AuthKinds, FormKinds
      <3>3. FormCalls(r)
        BY <3>1
      <3> HIDE DEF r
      <3> QED BY <3>2, <3>3
    <2> QED BY <2>1, <2>2
  <1>5. requests' = Append(requests, r)
    BY <1>3, <1>4 DEF FormCalls
  <1>6. r \in Calls'
    BY <1>1, <1>4, <1>5, NewCall
  <1> QED BY <1>2, <1>4, <1>6 DEF FormLoads

LEMMA UserEnds ==
    ASSUME SessionTypes, OwnInv, FlagInv, LoadingEnds, User
    PROVE  LoadingEnds'
  <1>1. /\ app' = "on" /\ UNCHANGED revoked /\ (~slipped' => ~slipped) /\ Calls \subseteq Calls'
        /\ TypeOK /\ forms \in Seq(Form)
    BY UserAsks, GestureCalls DEF SessionTypes, TypeOK
  <1>2. base'.isLoad => \E c \in Calls' : c.kind \notin FormKinds
    BY <1>1, UserLoads DEF LoadingEnds
  <1>3. \A v \in 1..Len(forms) : forms[v].isLoad => slipped' \/ revoked' \/ FormLoads(v)'
    BY <1>1 DEF LoadingEnds, FormLoads
  <1>4. ASSUME NEW v \in 1..Len(forms'), forms'[v].isLoad
        PROVE  slipped' \/ revoked' \/ FormLoads(v)'
    <2>1. CASE UNCHANGED forms
      BY <1>3, <1>4, <2>1
    <2>2. CASE forms' = Append(forms, NewForm)
      <3>1. NewForm.isLoad = FALSE
        BY DEF NewForm
      <3>2. v \in 1..Len(forms) /\ forms'[v] = forms[v]
        BY <1>1, <1>4, <2>2, <3>1
      <3> QED BY <1>3, <1>4, <3>2
    <2>3. CASE /\ pushed # "root"
               /\ \E f \in Form :
                     /\ forms' = [forms EXCEPT ![Len(forms)] = f]
                     /\ f.isLoad = form.isLoad \/ updatePlayerData \/ updatePassword
      <3>1. PICK f \in Form :
               /\ forms' = [forms EXCEPT ![Len(forms)] = f]
               /\ f.isLoad = form.isLoad \/ updatePlayerData \/ updatePassword
        BY <2>3
      <3>2. Len(forms) \in 1..Len(forms) /\ form = forms[Len(forms)]
        BY <1>1, <2>3, LastVisit DEF form
      <3>3. /\ Len(forms') = Len(forms)
            /\ \A w \in 1..Len(forms) : forms'[w] = IF w = Len(forms) THEN f ELSE forms[w]
        BY <1>1, <3>1, <3>2, FormChanged
      <3>4. CASE v # Len(forms) \/ f.isLoad = form.isLoad
        BY <1>3, <1>4, <3>2, <3>3, <3>4
      <3>5. CASE v = Len(forms) /\ (updatePlayerData \/ updatePassword)
        <4>1. slipped \/ revoked \/ FormLoads(Len(forms))'
          BY <3>5, ButtonCalls
        <4>2. FormLoads(Len(forms))' => FormLoads(v)'
          BY <3>3, <3>5 DEF FormLoads
        <4> QED BY <1>1, <4>1, <4>2
      <3> QED BY <3>1, <3>4, <3>5
    <2> QED BY <2>1, <2>2, <2>3, FormGestures
  <1> QED BY <1>1, <1>2, <1>4 DEF LoadingEnds

LEMMA CallbackEnds ==
    ASSUME SessionTypes, LoadingEnds, Callback
    PROVE  LoadingEnds'
  <1> DEFINE a == Head(replies)
  <1>1. /\ TypeOK /\ forms \in Seq(Form) /\ app = "on" /\ replies # <<>>
        /\ UNCHANGED <<app, slipped, revoked>>
        /\ Calls \subseteq Calls' \cup {a.req}
    BY CallbackAsks, AnswerCalls DEF SessionTypes, TypeOK
  <1>2. base'.isLoad => \E c \in Calls' : c.kind \notin FormKinds
    <2>1. CASE a.req.kind \in FormKinds /\ UNCHANGED base
      BY <1>1, <2>1 DEF LoadingEnds
    <2> QED BY <2>1, CallbackLoads
  <1>3. ASSUME NEW v \in 1..Len(forms'), forms'[v].isLoad
        PROVE  slipped' \/ revoked' \/ FormLoads(v)'
    <2>1. CASE UNCHANGED forms /\ a.req.kind \notin FormKinds
      BY <1>1, <1>3, <2>1 DEF LoadingEnds, FormLoads
    <2>2. CASE OnReauthenticated /\ a.ok
      <3> DEFINE r == [Req("updatePassword", a.req.account) EXCEPT
                         !.text = forms[a.req.visit].newPassword, !.visit = a.req.visit]
      <3>1. UNCHANGED forms /\ requests' = Append(requests, r)
        BY <2>2 DEF OnReauthenticated
      <3>2. r.kind \in FormKinds /\ r.visit = a.req.visit
        BY DEF Req, FormKinds
      <3> HIDE DEF r
      <3>3. r \in Calls'
        BY <3>1, AnswerCalls
      <3> QED BY <1>1, <1>3, <3>1, <3>2, <3>3 DEF LoadingEnds, FormLoads
    <2>3. CASE /\ a.req.kind \in FormKinds
               /\ \E alert \in {"error", "success"} : FormTold(a.req.visit, alert)
      <3>1. PICK alert \in {"error", "success"} : FormTold(a.req.visit, alert)
        BY <2>3
      <3> DEFINE w == a.req.visit
                 f == [forms[w] EXCEPT !.isLoad = FALSE, !.alerts = @ \cup {alert}]
      <3>2. w \in 1..Len(forms)
        BY <1>1, <2>3, FirstAnswer DEF SessionTypes, VisitsKnown
      <3>3. forms[w] \in Form
        BY <1>1, <3>2
      <3>4. f \in Form /\ ~f.isLoad
        BY <3>3 DEF Form
      <3>5. forms' = [forms EXCEPT ![w] = f]
        BY <1>1, <3>1, <3>2 DEF FormTold
      <3> HIDE DEF f
      <3>6. /\ Len(forms') = Len(forms)
            /\ \A x \in 1..Len(forms) : forms'[x] = IF x = w THEN f ELSE forms[x]
        BY <1>1, <3>2, <3>4, <3>5, FormChanged
      <3>7. v \in 1..Len(forms) /\ v # w /\ forms[v].isLoad
        BY <1>3, <3>4, <3>6
      <3> QED BY <1>1, <3>7 DEF LoadingEnds, FormLoads
    <2>4. CASE \/ OnSignIn \/ OnUserCreated \/ OnUserWritten \/ OnUserRead
               \/ OnUploaded \/ OnDownloadURL \/ OnPictureWritten
      BY <2>1, <2>4 DEF OnSignIn, OnUserCreated, OnUserWritten, OnUserRead, OnUploaded,
                        OnDownloadURL, OnPictureWritten, Answered, FormKinds
    <2>5. CASE \/ OnReauthenticated \/ OnFormWritten("updatePassword") \/ OnFormWritten("setName")
      BY <2>2, <2>3, <2>5 DEF OnReauthenticated, OnFormWritten, Answered, FormKinds
    <2> QED BY <2>4, <2>5 DEF Callback
  <1> QED BY <1>1, <1>2, <1>3 DEF LoadingEnds

LEMMA ServiceEnds ==
    ASSUME SessionTypes, LoadingEnds, Serve \/ Fail \/ Revoke \/ Quit \/ NeverLeft
    PROVE  LoadingEnds'
  <1>1. TypeOK
    BY DEF SessionTypes
  <1>2. CASE UNCHANGED <<app, base, forms, slipped, revoked>> /\ (app = "on" => Calls' = Calls)
    BY <1>1, <1>2 DEF LoadingEnds, FormLoads, TypeOK
  <1>3. CASE Serve
    <2>1. PICK i \in 1..Len(requests) : Handles(i, requests[i])
      BY <1>3, ServeHandles
    <2> QED BY <1>2, <2>1, HandledCall
  <1>4. CASE Fail
    <2>1. UNCHANGED <<app, base, forms, slipped, revoked>>
      BY <1>4 DEF Fail, serviceUnchanged, histVars
    <2>2. EmptyProfile \in Profile
      BY DEF EmptyProfile, Profile
    <2>3. app = "on" => Calls' = Calls
      BY <1>1, <1>4, <2>2, CallsStay DEF Fail
    <2> QED BY <1>2, <2>1, <2>3
  <1>5. CASE Revoke
    BY <1>5 DEF Revoke, LoadingEnds, FormLoads, Calls
  <1>6. CASE Quit
    <2>1. app' = "off" /\ base' = NewBase /\ forms' = <<>>
      BY <1>6 DEF Quit
    <2>2. ~base'.isLoad
      BY <2>1 DEF NewBase
    <2> QED BY <2>1, <2>2 DEF LoadingEnds
  <1>7. CASE NeverLeft
    BY <1>2, <1>7 DEF NeverLeft, histVars
  <1> QED BY <1>3, <1>4, <1>5, <1>6, <1>7

LEMMA EndsInit == Init => LoadingEnds
  <1> SUFFICES ASSUME Init PROVE LoadingEnds
    OBVIOUS
  <1>1. ~base.isLoad
    BY DEF Init, NewBase
  <1> QED BY <1>1 DEF Init, LoadingEnds

LEMMA EndsStep ==
    ASSUME SessionTypes, OwnInv, FlagInv, LoadingEnds, [Next]_vars
    PROVE  LoadingEnds'
  <1>1. CASE UNCHANGED vars
    BY <1>1 DEF vars, histVars, LoadingEnds, FormLoads, Calls
  <1> QED BY <1>1, UserEnds, CallbackEnds, ServiceEnds DEF Next

-----------------------------------------------------------------------------
(* A phone without faults whose content is not used during a call. Each      *)
(* account has its profile or is being registered.                           *)
Stored ==
    /\ \A a \in Accounts : password[a] # None =>
          \/ users[a].core
          \/ \E i \in 1..Len(requests) : requests[i].kind = "setUser" /\ requests[i].account = a
          \/ \E i \in 1..Len(replies) : /\ replies[i].req.kind = "createUser" /\ replies[i].ok
                                        /\ replies[i].req.account = a
    /\ \A a \in Accounts : users[a] = EmptyProfile \/ (users[a].core /\ users[a].name # None)

(* Calls are made for the user who is still signed in.                       *)
CallsFit ==
    \A c \in Calls : /\ c.kind \notin LoginKinds => c.account = current
                     /\ c.kind = "setName" => c.name # None

PictureComes == \E j \in 1..Len(replies) : replies[j].req.kind = "setPicture"

(* A profile that was read has the picture of the tree, or the answer to the *)
(* write that changed it comes later.                                        *)
AnswersFit ==
    \A i \in 1..Len(replies) :
       /\ replies[i].req.kind \in DatabaseKinds => replies[i].ok
       /\ replies[i].req.kind = "getUser" =>
             /\ replies[i].profile.core /\ replies[i].profile.name # None
             /\ \/ replies[i].profile.picture = users[current].picture
                \/ \E j \in 1..Len(replies) : j > i /\ replies[j].req.kind = "setPicture"
       /\ replies[i].req.kind = "setPicture" => users[current].picture = current

(* The profile on the screen, its absence, and the form opened from it.      *)
ScreenFits ==
    /\ base.userModel # None =>
          /\ base.userModel.uuid = current /\ base.userModel.name # None
          /\ base.userModel.picture = users[current].picture \/ PictureComes
    /\ app = "on" /\ base.isLoggedIn /\ base.userModel = None =>
          pushed = "root" /\ (tab = "matches" \/ \E c \in Calls : c.kind = "getUser")
    /\ pushed = "profile" => form.nameSurname # None

Clean == Stored /\ CallsFit /\ AnswersFit /\ ScreenFits

CleanInv == ~slipped /\ faults = 0 => Clean

ScreenInv ==
    SessionTypes /\ OwnInv /\ Kept /\ Counted /\ FlagInv /\ LoadingEnds /\ CleanInv

(* What holds before a step after which no fault and no slip has happened.   *)
LEMMA StillClean ==
    ASSUME ScreenInv, ~slipped, faults = 0
    PROVE  /\ TypeOK /\ ~revoked /\ Own /\ Clean /\ (app = "on" => Flag)
           /\ app = "off" => requests = <<>> /\ replies = <<>> /\ Calls = {}
  <1>1. ~revoked /\ (app = "off" => requests = <<>> /\ replies = <<>>)
    BY DEF ScreenInv, Counted, SessionTypes, QuietWhenOff
  <1>2. app = "off" => Calls = {}
    BY <1>1 DEF Calls
  <1> QED BY <1>1, <1>2 DEF ScreenInv, SessionTypes, OwnInv, CleanInv, FlagInv

(* Without a sign-in or a registration under way every account has its       *)
(* profile, and so has the user.                                             *)
LEMMA ProfilesWhole ==
    ASSUME ScreenInv, Clean, \A c \in Calls : c.kind \notin LoginKinds
    PROVE  /\ \A a \in Accounts : password[a] # None => users[a].core /\ users[a].name # None
           /\ current # None => users[current].core /\ users[current].name # None
  <1>1. \A i \in 1..Len(requests) : requests[i].kind # "setUser"
    BY DEF Calls, LoginKinds
  <1>2. \A i \in 1..Len(replies) : replies[i].req.kind # "createUser"
    BY DEF Calls, LoginKinds
  <1>3. \A a \in Accounts : password[a] # None => users[a].core
    BY <1>1, <1>2 DEF Clean, Stored
  <1>4. \A a \in Accounts : users[a].core => users[a].name # None
    BY DEF Clean, Stored, EmptyProfile
  <1>5. current # None => password[current] # None /\ current \in Accounts
    BY DEF ScreenInv, Kept, SessionTypes, TypeOK
  <1> QED BY <1>3, <1>4, <1>5

(* Gestures. The profile leaves the screen only for a new one.               *)
LEMMA UserScreen ==
    ASSUME SessionTypes, User, ~Launch, ~signOut
    PROVE  /\ \/ base'.userModel = base.userModel
              \/ base'.userModel = None /\ pushed' = "root"
                 /\ (current # None => requests' = Append(requests, Req("getUser", current)))
           /\ pushed' \in {pushed, "root"} \/ OpenForm("profile") \/ OpenForm("password")
           /\ tab' \in {tab, "matches"} \/ ToAccount
  <1>1. base \in Base
    BY DEF SessionTypes, TypeOK
  <1>2. \A b \in Base : getCurrentUserData(b, requests) \/ ProfileAppears(b, requests) =>
           \/ base'.userModel = b.userModel
           \/ base'.userModel = None
              /\ (current # None => requests' = Append(requests, Req("getUser", current)))
    BY DEF getCurrentUserData, ProfileAppears, Base
  <1>3. CASE ToAccount
    <2>1. pushed' = pushed
      BY <1>3 DEF ToAccount
    <2>2. (pushed = "root" /\ ProfileAppears(base, requests)) \/ base' = base
      BY <1>3 DEF ToAccount
    <2> QED BY <1>1, <1>2, <1>3, <2>1, <2>2
  <1>4. CASE RefreshProfile
    <2>1. pushed' = "root" /\ tab' = tab /\ getCurrentUserData(base, requests)
      BY <1>4 DEF RefreshProfile, uiVars, Tap, Uncovered, AtRoot
    <2> QED BY <1>1, <1>2, <2>1
  <1>5. CASE Back
    <2>1. pushed' = "root" /\ tab' = tab /\ ProfileAppears(base, requests)
      BY <1>5 DEF Back
    <2> QED BY <1>1, <1>2, <2>1
  <1>6. CASE \/ ToMatches \/ TypeName \/ TypePassword \/ PickImage
             \/ updatePlayerData \/ updatePassword
    BY <1>6 DEF ToMatches, TypeName, TypePassword, PickImage, updatePlayerData, updatePassword,
                FormCalls, uiVars
  <1>7. CASE OpenForm("profile") \/ OpenForm("password")
    BY <1>7 DEF OpenForm
  <1>8. CASE ToggleRegister \/ DismissAlert \/ login \/ register \/ loadProfileImage
    <2>1. pushed' = pushed /\ tab' = tab
      BY <1>8 DEF ToggleRegister, DismissAlert, login, register, loadProfileImage, uiVars
    <2>2. \/ base' = base
          \/ base' = [base EXCEPT !.isRegisterViewShowing = ~@]
          \/ base' = [base EXCEPT !.showAlert = FALSE]
          \/ base' = [base EXCEPT !.isLoad = TRUE]
          \/ base' = [base EXCEPT !.isLoad = FALSE]
      BY <1>8 DEF ToggleRegister, DismissAlert, login, register, loadProfileImage
    <2> QED BY <1>1, <2>1, <2>2 DEF Base
  <1> QED BY <1>3, <1>4, <1>5, <1>6, <1>7, <1>8 DEF User

(* A form is opened over a profile that has been read.                       *)
LEMMA OpenFinds ==
    ASSUME ScreenInv, faults = 0, ~slipped', ~slipped, NEW f, OpenForm(f)
    PROVE  base.userModel # None /\ base.userModel.name # None
  <1>1. /\ app = "on" /\ tab = "account" /\ base.isLoggedIn
    BY DEF OpenForm, Tap, Touch, Uncovered, AtRoot
  <1>2. slipped' = (slipped \/ ~Idle)
    BY DEF OpenForm, Tap
  <1>3. Idle
    BY <1>2, Zenon
  <1>4. Calls = {} /\ ScreenFits
    BY <1>3, StillClean, NothingUnderWay DEF Clean
  <1> QED BY <1>1, <1>4 DEF ScreenFits

(* The new calls of a gesture fit, and the ones under way stay.              *)
LEMMA UserStored ==
    ASSUME ScreenInv, faults = 0, ~slipped, User
    PROVE  Stored'
  <1>1. TypeOK /\ Stored /\ SessionTypes
    BY StillClean DEF Clean, ScreenInv
  <1>2. UNCHANGED <<replies, password, users>>
    BY <1>1, UserAsks
  <1>3. \A i \in 1..Len(requests) : i \in 1..Len(requests') /\ requests'[i] = requests[i]
    <2>1. requests \in Seq(Request)
      BY <1>1 DEF TypeOK
    <2>2. CASE \E r : UserCall(r) /\ requests' = Append(requests, r)
      <3>1. PICK r : UserCall(r) /\ requests' = Append(requests, r)
        BY <2>2
      <3>2. r \in Request
        BY <1>1, <3>1, UserCallType
      <3> QED BY <2>1, <3>1, <3>2
    <2> QED BY <1>1, <2>1, <2>2, UserAsks
  <1> QED BY <1>1, <1>2, <1>3 DEF Stored

LEMMA UserClean == ASSUME ScreenInv, User PROVE CleanInv'
  <1>1. /\ SessionTypes /\ TypeOK /\ faults \in Nat
        /\ UNCHANGED <<replies, users>> /\ app' = "on" /\ (~slipped' => ~slipped)
    BY UserAsks DEF ScreenInv, SessionTypes, TypeOK
  <1>2. faults' = faults \/ faults' = faults + 1
    BY DEF User, Launch, ToMatches, ToAccount, ToggleRegister, DismissAlert, login,
           register, signOut, RefreshProfile, PickImage, loadProfileImage, OpenForm, Back,
           TypeName, TypePassword, updatePlayerData, updatePassword, FormCalls
  <1> SUFFICES ASSUME ~slipped', faults' = 0 PROVE Clean'
    BY DEF CleanInv
  <1>3. faults = 0 /\ ~slipped
    BY <1>1, <1>2
  <1>4. /\ Own /\ Clean /\ (app = "on" => Flag) /\ ~revoked
        /\ app = "off" => requests = <<>> /\ replies = <<>> /\ Calls = {}
    BY <1>3, StillClean
  <1>5. Stored'
    BY <1>3, UserStored
  <1>6. /\ Calls \subseteq Calls'
        /\ \A c \in Calls' \ Calls :
              /\ c.kind \notin LoginKinds => current # None /\ c.account = current
              /\ c.kind = "setName" => pushed = "profile" /\ c.name = form.nameSurname
    BY <1>1, GestureCalls, UserCallFields
  <1>7. \A c \in Calls' \ Calls : c.kind = "setName" => c.name # None
    BY <1>4, <1>6 DEF Clean, ScreenFits
  <1>8. CASE Launch
    <2>1. /\ requests = <<>> /\ replies = <<>> /\ UNCHANGED current /\ Calls = {}
          /\ pushed' = "root" /\ tab' = "matches"
          /\ getCurrentUserData(NewBase, requests)
      BY <1>4, <1>8 DEF Launch
    <2>2. NewBase \in Base
      BY DEF NewBase, Base
    <2>3. base'.userModel = None
      BY <2>1, <2>2 DEF getCurrentUserData, Base
    <2>4. CallsFit'
      BY <1>6, <1>7, <2>1 DEF CallsFit
    <2>5. AnswersFit' /\ ScreenFits'
      BY <1>1, <2>1, <2>3 DEF AnswersFit, ScreenFits
    <2> QED BY <1>5, <2>4, <2>5 DEF Clean
  <1>9. CASE signOut
    <2>1. /\ current' = None /\ ~base'.isLoggedIn /\ base'.userModel = None /\ Idle
      BY <1>1, <1>3, <1>9, SignOutFinds
    <2>2. pushed' = "root"
      BY <1>9 DEF signOut, Tap, Uncovered, AtRoot
    <2>3. Calls = {} /\ replies = <<>>
      BY <1>1, <2>1, NothingUnderWay DEF Idle
    <2>4. Calls' = {}
      BY <1>1, <1>9, <2>3, GestureCalls DEF signOut
    <2>5. CallsFit' /\ AnswersFit' /\ ScreenFits'
      BY <1>1, <2>1, <2>2, <2>3, <2>4 DEF CallsFit, AnswersFit, ScreenFits
    <2> QED BY <1>5, <2>5 DEF Clean
  <1>10. CASE ~Launch /\ ~signOut
    <2>1. app = "on" /\ current' = current /\ base'.isLoggedIn = base.isLoggedIn /\ Flag
      BY <1>1, <1>4, <1>10, FlagStays
    <2>2. CallsFit'
      BY <1>4, <1>6, <1>7, <2>1 DEF Clean, CallsFit
    <2>3. AnswersFit'
      BY <1>1, <1>4, <2>1 DEF Clean, AnswersFit
    <2>4. /\ \/ base'.userModel = base.userModel
             \/ base'.userModel = None /\ pushed' = "root"
                /\ (current # None => requests' = Append(requests, Req("getUser", current)))
          /\ pushed' \in {pushed, "root"} \/ OpenForm("profile") \/ OpenForm("password")
          /\ tab' \in {tab, "matches"} \/ ToAccount
      BY <1>1, <1>10, UserScreen
    <2>5. base'.userModel # None =>
             /\ base'.userModel.uuid = current' /\ base'.userModel.name # None
             /\ base'.userModel.picture = users'[current'].picture \/ PictureComes'
      BY <1>1, <1>4, <2>1, <2>4 DEF Clean, ScreenFits, PictureComes
    <2>6. current # None /\ requests' = Append(requests, Req("getUser", current))
             => \E c \in Calls' : c.kind = "getUser"
      <3>1. current # None => Req("getUser", current) \in Request
        BY <1>1, RequestType DEF TypeOK, DatabaseKinds
      <3>2. Req("getUser", current).kind = "getUser"
        BY DEF Req
      <3> QED BY <1>1, <3>1, <3>2, NewCall
    <2>7. ASSUME base'.isLoggedIn, base'.userModel = None
          PROVE  pushed' = "root" /\ (tab' = "matches" \/ \E c \in Calls' : c.kind = "getUser")
      <3>1. current # None /\ base.isLoggedIn
        BY <2>1, <2>7 DEF Flag
      <3>2. CASE pushed' = "root" /\ requests' = Append(requests, Req("getUser", current))
        BY <2>6, <3>1, <3>2
      <3>3. CASE base.userModel = None
        <4>1. pushed = "root" /\ (tab = "matches" \/ \E c \in Calls : c.kind = "getUser")
          BY <1>4, <2>1, <3>1, <3>3 DEF Clean, ScreenFits
        <4>2. pushed' = "root"
          BY <1>3, <2>4, <3>3, <4>1, OpenFinds
        <4>3. CASE ToAccount
          <5>1. ProfileAppears(base, requests)
            BY <3>1, <4>1, <4>3 DEF ToAccount
          <5>2. requests' = Append(requests, Req("getUser", current))
            BY <3>1, <3>3, <5>1 DEF ProfileAppears, getCurrentUserData
          <5> QED BY <3>2, <4>2, <5>2
        <4>4. CASE tab' \in {tab, "matches"}
          BY <1>6, <4>1, <4>2, <4>4
        <4> QED BY <2>4, <4>3, <4>4
      <3> QED BY <2>4, <2>7, <3>1, <3>2, <3>3
    <2>8. ASSUME pushed' = "profile" PROVE form'.nameSurname # None
      <3>1. forms \in Seq(Form) /\ None \notin Names
        BY <1>1, NoneIsNobody DEF TypeOK
      <3>2. CASE OpenForm("profile")
        <4>1. forms' = Append(forms, NewForm) /\ base.userModel # None /\ base.userModel.name # None
          BY <1>3, <3>2, OpenFinds DEF OpenForm
        <4>2. NewForm.nameSurname # None
          BY <4>1 DEF NewForm, ShownName
        <4>3. form' = NewForm
          BY <3>1, <4>1 DEF form
        <4> QED BY <4>2, <4>3
      <3>3. CASE ~OpenForm("profile")
        <4>1. ~OpenForm("password")
          BY <2>8 DEF OpenForm
        <4>2. pushed = "profile"
          BY <2>4, <2>8, <3>3, <4>1
        <4>3. form.nameSurname # None /\ base.userModel # None /\ base.userModel.name # None
          BY <1>4, <2>1, <4>2 DEF Clean, ScreenFits, Own
        <4>4. CASE UNCHANGED forms
          BY <4>3, <4>4 DEF form
        <4>5. CASE \E f \in Form :
                      /\ forms' = [forms EXCEPT ![Len(forms)] = f]
                      /\ \/ f.nameSurname = form.nameSurname
                         \/ f.nameSurname \in Names
                         \/ f.nameSurname = ShownName
          <5>1. PICK f \in Form :
                      /\ forms' = [forms EXCEPT ![Len(forms)] = f]
                      /\ \/ f.nameSurname = form.nameSurname
                         \/ f.nameSurname \in Names
                         \/ f.nameSurname = ShownName
            BY <4>5
          <5>2. Len(forms) \in 1..Len(forms)
            BY <1>1, <4>2, LastVisit
          <5>3. form' = f
            BY <3>1, <5>1, <5>2, FormChanged DEF form
          <5> QED BY <3>1, <4>3, <5>1, <5>3 DEF ShownName
        <4> QED BY <1>1, <3>3, <4>1, <4>4, <4>5, FormGestures
      <3> QED BY <3>2, <3>3
    <2>9. ScreenFits'
      BY <2>5, <2>7, <2>8 DEF ScreenFits
    <2> QED BY <1>5, <2>2, <2>3, <2>9 DEF Clean
  <1> QED BY <1>8, <1>9, <1>10

(* The answer of a sign-in or a registration: the profile is asked for, or   *)
(* written.                                                                  *)
LEMMA EntryClean ==
    ASSUME ScreenInv, faults = 0, ~slipped, Callback, Head(replies).req.kind \in LoginKinds
    PROVE  Clean'
  <1> DEFINE a == Head(replies)
  <1>1. /\ TypeOK /\ SessionTypes /\ app = "on" /\ replies # <<>> /\ ~revoked
        /\ UNCHANGED <<password, users, current, app, tab>> /\ Own /\ Clean /\ Flag
        /\ OwnInv
    BY StillClean, CallbackAsks DEF ScreenInv
  <1>2. /\ ~base.isLoggedIn /\ requests = <<>> /\ replies' = <<>>
        /\ Len(replies) = 1 /\ replies[1] = a
        /\ base.userModel = None /\ pushed = "root"
    BY <1>1, EntryAnswered
  <1>3. /\ a.req \in Calls /\ a.req.account \in Accounts /\ None \notin Accounts
        /\ \A i \in 1..Len(replies) : replies[i] = a
    BY <1>1, <1>2, FirstAnswer, NoneIsNobody DEF Reply, Request
  <1>4. OnSignIn \/ OnUserCreated \/ OnUserWritten
    BY DEF Callback, LoginKinds, OnUserRead, OnUploaded, OnDownloadURL, OnPictureWritten,
           OnReauthenticated, OnFormWritten, Answered
  <1>5. \A c \in Calls' : CallbackCall(a, c)
    <2>1. {requests[i] : i \in 1..Len(requests)} = {} /\ {replies'[i].req : i \in 1..Len(replies')} = {}
      BY <1>2
    <2>2. CASE requests' = requests
      BY <2>1, <2>2 DEF Calls
    <2>3. CASE \E r : CallbackCall(a, r) /\ requests' = Append(requests, r)
      <3>1. PICK r : CallbackCall(a, r) /\ requests' = Append(requests, r)
        BY <2>3
      <3>2. requests' = <<r>>
        BY <1>2, <3>1
      <3>3. Calls' = {r}
        BY <1>2, <3>2 DEF Calls
      <3> QED BY <3>1, <3>3
    <2> QED BY <1>1, <2>2, <2>3, CallbackAsks
  <1>6. CallsFit'
    <2>1. ASSUME NEW c \in Calls'
          PROVE  (c.kind \notin LoginKinds => c.account = current) /\ c.kind # "setName"
      BY <1>5, CallbackCallFields DEF LoginKinds
    <2> QED BY <1>1, <2>1 DEF CallsFit
  <1>7. AnswersFit'
    BY <1>2 DEF AnswersFit
  <1>8. Stored'
    <2>1. \A b \in Accounts : users'[b] = EmptyProfile \/ (users'[b].core /\ users'[b].name # None)
      BY <1>1 DEF Clean, Stored
    <2>2. ASSUME NEW b \in Accounts, password'[b] # None, ~users'[b].core
          PROVE  \E i \in 1..Len(requests') : requests'[i].kind = "setUser" /\ requests'[i].account = b
      <3>1. a.req.kind = "createUser" /\ a.ok /\ a.req.account = b
        BY <1>1, <1>2, <1>3, <2>2 DEF Clean, Stored
      <3>2. current = b
        BY <1>1, <1>2, <1>3, <3>1 DEF Flag
      <3> DEFINE r == [Req("setUser", current) EXCEPT !.name = a.req.name]
      <3>3. requests' = Append(requests, r)
        BY <1>3, <1>4, <3>1, <3>2 DEF OnSignIn, OnUserCreated, OnUserWritten, Answered
      <3>4. r.kind = "setUser" /\ r.account = b
        BY <3>2 DEF Req
      <3> HIDE DEF r
      <3>5. requests' = <<r>>
        BY <1>2, <3>3
      <3> QED BY <3>4, <3>5
    <2> QED BY <2>1, <2>2 DEF Stored
  <1>9. ScreenFits'
    <2>1. CASE NotLoggedIn
      BY <1>1, <1>2, <2>1, NotLoggedInShape DEF ScreenFits
    <2>2. CASE UNCHANGED <<base, pushed>>
      BY <1>1, <1>2, <2>2 DEF ScreenFits
    <2>3. CASE LoggedIn /\ a.ok /\ a.req.kind \in {"signIn", "setUser"}
      <3> DEFINE b == [base EXCEPT !.isLoad = FALSE, !.isLoggedIn = TRUE]
      <3>1. b \in Base /\ b.userModel = None
        BY <1>1, <1>2 DEF TypeOK, Base
      <3>2. base'.userModel = None /\ pushed' = "root"
        BY <1>1, <1>2, <2>3, LoggedInShape
      <3>3. current # None
        BY <1>1, <1>2, <1>3, <2>3 DEF Flag
      <3>4. CASE tab = "matches"
        BY <1>1, <3>2, <3>4 DEF ScreenFits
      <3>5. CASE tab = "account"
        <4>1. ProfileAppears(b, requests)
          BY <1>1, <1>2, <2>3, <3>5 DEF LoggedIn, AtRoot
        <4> HIDE DEF b
        <4>2. requests' = Append(requests, Req("getUser", current))
          BY <3>1, <3>3, <4>1 DEF ProfileAppears, getCurrentUserData
        <4>3. Req("getUser", current) \in Calls' /\ Req("getUser", current).kind = "getUser"
          BY <1>1, <4>2, AnswerCalls DEF Req
        <4> QED BY <3>2, <4>3 DEF ScreenFits
      <3> QED BY <1>1, <3>4, <3>5 DEF TypeOK
    <2> QED BY <1>4, <2>1, <2>2, <2>3 DEF OnSignIn, OnUserCreated, OnUserWritten, Answered
  <1> QED BY <1>6, <1>7, <1>8, <1>9 DEF Clean

(* Answers keep their order.                                                 *)
LEMMA AnswersShift ==
    ASSUME TypeOK, AnswersFit, replies # <<>>, replies' = Tail(replies), UNCHANGED <<users, current>>
    PROVE  AnswersFit'
  <1>1. /\ Len(replies') = Len(replies) - 1 /\ Len(replies) \in Nat
        /\ \A i \in 1..Len(replies') : i + 1 \in 1..Len(replies) /\ replies'[i] = replies[i + 1]
    BY AnswersLeft DEF TypeOK
  <1>2. ASSUME NEW i \in 1..Len(replies'), NEW j \in 1..Len(replies), j > i + 1
        PROVE  j - 1 \in 1..Len(replies') /\ j - 1 > i /\ replies'[j - 1] = replies[j]
    <2>1. j - 1 \in 1..Len(replies') /\ j - 1 > i /\ (j - 1) + 1 = j
      BY <1>1, <1>2
    <2> QED BY <1>1, <2>1
  <1>3. ASSUME NEW i \in 1..Len(replies')
        PROVE  /\ replies'[i].req.kind \in DatabaseKinds => replies'[i].ok
               /\ replies'[i].req.kind = "getUser" =>
                     /\ replies'[i].profile.core /\ replies'[i].profile.name # None
                     /\ \/ replies'[i].profile.picture = users'[current'].picture
                        \/ \E j \in 1..Len(replies') : j > i /\ replies'[j].req.kind = "setPicture"
               /\ replies'[i].req.kind = "setPicture" => users'[current'].picture = current'
    <2>1. i + 1 \in 1..Len(replies) /\ replies'[i] = replies[i + 1]
      BY <1>1
    <2>2. (\E j \in 1..Len(replies) : j > i + 1 /\ replies[j].req.kind = "setPicture") =>
             \E j \in 1..Len(replies') : j > i /\ replies'[j].req.kind = "setPicture"
      BY <1>2
    <2> QED BY <2>1, <2>2 DEF AnswersFit
  <1> QED BY <1>3 DEF AnswersFit

LEMMA PictureStillComes ==
    ASSUME TypeOK, replies # <<>>, replies' = Tail(replies), PictureComes,
           Head(replies).req.kind # "setPicture"
    PROVE  PictureComes'
  BY AnswersLeft DEF PictureComes

(* A form keeps its name when its call is answered.                          *)
LEMMA CallbackForms ==
    ASSUME SessionTypes, Callback, pushed # "root"
    PROVE  form'.nameSurname = form.nameSurname
  <1> DEFINE a == Head(replies)
  <1>1. TypeOK /\ forms \in Seq(Form) /\ app = "on" /\ replies # <<>>
    BY CallbackAsks DEF SessionTypes, TypeOK
  <1>2. CASE UNCHANGED forms
    BY <1>2 DEF form
  <1>3. CASE /\ a.req.kind \in FormKinds
             /\ \E alert \in {"error", "success"} : FormTold(a.req.visit, alert)
    <2>1. PICK alert \in {"error", "success"} : FormTold(a.req.visit, alert)
      BY <1>3
    <2> DEFINE w == a.req.visit
               f == [forms[w] EXCEPT !.isLoad = FALSE, !.alerts = @ \cup {alert}]
    <2>2. w \in 1..Len(forms)
      BY <1>1, <1>3, FirstAnswer DEF SessionTypes, VisitsKnown
    <2>3. forms[w] \in Form
      BY <1>1, <2>2
    <2>4. f \in Form /\ f.nameSurname = forms[w].nameSurname
      BY <2>3 DEF Form
    <2>5. forms' = [forms EXCEPT ![w] = f]
      BY <1>1, <2>1, <2>2 DEF FormTold
    <2> HIDE DEF f
    <2>6. /\ Len(forms') = Len(forms)
          /\ \A x \in 1..Len(forms) : forms'[x] = IF x = w THEN f ELSE forms[x]
      BY <1>1, <2>2, <2>4, <2>5, FormChanged
    <2>7. Len(forms) \in 1..Len(forms)
      BY <1>1, LastVisit
    <2> QED BY <2>4, <2>6, <2>7 DEF form
  <1>4. CASE \/ OnSignIn \/ OnUserCreated \/ OnUserWritten \/ OnUserRead
             \/ OnUploaded \/ OnDownloadURL \/ OnPictureWritten
    BY <1>2, <1>4 DEF OnSignIn, OnUserCreated, OnUserWritten, OnUserRead, OnUploaded,
                      OnDownloadURL, OnPictureWritten
  <1>5. CASE \/ OnReauthenticated \/ OnFormWritten("updatePassword") \/ OnFormWritten("setName")
    BY <1>2, <1>3, <1>5 DEF OnReauthenticated, OnFormWritten, Answered, FormKinds
  <1> QED BY <1>4, <1>5 DEF Callback

(* The other answers.                                                        *)
LEMMA AnswerClean ==
    ASSUME ScreenInv, faults = 0, ~slipped, Callback, Head(replies).req.kind \notin LoginKinds
    PROVE  Clean'
  <1> DEFINE a == Head(replies)
  <1>1. /\ TypeOK /\ SessionTypes /\ app = "on" /\ replies # <<>> /\ replies' = Tail(replies)
        /\ UNCHANGED <<password, users, current, app, tab>> /\ Own /\ Clean /\ Flag /\ ~revoked
        /\ OwnInv /\ base \in Base
    BY StillClean, CallbackAsks DEF ScreenInv, TypeOK
  <1>2. /\ base.isLoggedIn /\ base'.isLoggedIn /\ UNCHANGED pushed
    BY <1>1, AnswerFindsUser, CallbackFlagStays
  <1>3. \A c \in Calls : c.kind \notin LoginKinds
    BY <1>1, <1>2 DEF Own
  <1>4. /\ a \in Reply /\ a.req \in Calls /\ a.req.account = current /\ a = replies[1]
        /\ 1 \in 1..Len(replies)
    <2>1. a \in Reply /\ a.req \in Calls
      BY <1>1, FirstAnswer
    <2>2. a = replies[1] /\ 1 \in 1..Len(replies)
      BY <1>1 DEF TypeOK
    <2> QED BY <1>1, <1>3, <2>1, <2>2 DEF Clean, CallsFit
  <1>5. /\ Calls \subseteq Calls' \cup {a.req}
        /\ \A c \in Calls' \ Calls : CallbackCall(a, c)
    BY <1>1, AnswerCalls
  <1>6. Stored'
    <2>1. \A b \in Accounts : password[b] # None => users[b].core
      BY <1>1, <1>3, ProfilesWhole
    <2> QED BY <1>1, <2>1 DEF Clean, Stored
  <1>7. CallsFit'
    <2>1. ASSUME NEW c \in Calls' \ Calls
          PROVE  c.account = current /\ c.kind # "setName"
      <3>1. CallbackCall(a, c) /\ a.req.kind \notin {"signIn", "setUser", "createUser"}
        BY <1>5, <2>1 DEF LoginKinds
      <3> HIDE DEF a
      <3> QED BY <1>4, <3>1, CallbackCallFields
    <2> QED BY <1>1, <2>1 DEF Clean, CallsFit
  <1>8. AnswersFit'
    BY <1>1, AnswersShift DEF Clean
  <1>9. ScreenFits /\ AnswersFit
    BY <1>1 DEF Clean
  <1>10. pushed' = "profile" => form'.nameSurname # None
    BY <1>1, <1>2, <1>9, CallbackForms DEF ScreenFits
  <1>11. CASE OnUserRead
    <2>1. /\ a.ok /\ a.profile.core /\ a.profile.name # None
          /\ \/ a.profile.picture = users[current].picture
             \/ \E j \in 1..Len(replies) : j > 1 /\ replies[j].req.kind = "setPicture"
      BY <1>4, <1>9, <1>11 DEF AnswersFit, OnUserRead, Answered, DatabaseKinds
    <2>2. a.profile # EmptyProfile
      BY <2>1 DEF EmptyProfile
    <2> DEFINE u == ParsedUser(a.req.account, a.profile)
    <2>3. base'.userModel = u
      <3>1. base' = [base EXCEPT !.isLoad = FALSE, !.userModel = u]
        BY <1>11, <2>1, <2>2 DEF OnUserRead
      <3> HIDE DEF u
      <3> QED BY <1>1, <3>1 DEF Base
    <2>4. u.uuid = current /\ u.name # None /\ u.picture = a.profile.picture
      BY <1>4, <2>1 DEF ParsedUser
    <2>5. u # None
      <3>1. a.req.account \in Accounts /\ a.profile \in Profile
        BY <1>4 DEF Reply, Request
      <3>2. u \in UserModel
        BY <3>1 DEF ParsedUser, UserModel, Profile
      <3> QED BY <3>2, NilIsNoUser
    <2>6. (\E j \in 1..Len(replies) : j > 1 /\ replies[j].req.kind = "setPicture")
             => PictureComes'
      <3>1. a.req.kind # "setPicture"
        BY <1>11 DEF OnUserRead, Answered
      <3> QED BY <1>1, <3>1, PictureStillComes DEF PictureComes
    <2> HIDE DEF u
    <2> QED BY <1>1, <1>6, <1>7, <1>8, <1>10, <2>1, <2>3, <2>4, <2>5, <2>6 DEF Clean, ScreenFits
  <1>12. CASE OnPictureWritten
    <2>1. /\ a.req.kind = "setPicture" /\ a.ok /\ users[current].picture = current
          /\ a.req.picture = current
      <3>1. a.req.kind = "setPicture"
        BY <1>12 DEF OnPictureWritten, Answered
      <3>2. a.ok /\ users[current].picture = current
        BY <1>4, <1>9, <3>1 DEF AnswersFit, DatabaseKinds
      <3>3. a.req.picture = a.req.account
        BY <1>4, <3>1 DEF ScreenInv, Kept, CallKept
      <3> QED BY <1>4, <3>1, <3>2, <3>3
    <2>3. (\E c \in Calls : c.kind = "getUser") => \E d \in Calls' : d.kind = "getUser"
      BY <1>5, <2>1
    <2>4. CASE base.userModel = None
      <3>1. base'.userModel = None
        BY <1>1, <1>12, <2>4 DEF OnPictureWritten, Base
      <3> QED BY <1>1, <1>2, <1>6, <1>7, <1>8, <1>9, <1>10, <2>3, <2>4, <3>1 DEF Clean, ScreenFits
    <2>5. CASE base.userModel # None
      <3> DEFINE u == [base.userModel EXCEPT !.picture = a.req.picture]
      <3>1. base.userModel \in UserModel
        BY <1>1, <2>5 DEF Base
      <3>2. base' = [base EXCEPT !.isLoad = FALSE, !.userModel = u]
        BY <1>12, <2>1, <2>5 DEF OnPictureWritten
      <3>3. /\ u.uuid = base.userModel.uuid /\ u.name = base.userModel.name
            /\ u.picture = current
        BY <2>1, <3>1 DEF UserModel
      <3> HIDE DEF u
      <3>4. base'.userModel = u
        BY <1>1, <3>2 DEF Base
      <3>5. u # None
        <4>1. a.req.picture \in Accounts \cup {None}
          BY <1>4 DEF Reply, Request
        <4>2. u \in UserModel
          BY <3>1, <4>1 DEF u, UserModel
        <4> QED BY <4>2, NilIsNoUser
      <3> QED BY <1>1, <1>6, <1>7, <1>8, <1>9, <1>10, <2>1, <2>5, <3>3, <3>4, <3>5 DEF Clean, ScreenFits
    <2> QED BY <2>4, <2>5
  <1>13. CASE ~OnUserRead /\ ~OnPictureWritten
    <2>1. \/ OnUploaded \/ OnDownloadURL
          \/ OnReauthenticated \/ OnFormWritten("updatePassword") \/ OnFormWritten("setName")
      BY <1>13 DEF Callback, LoginKinds, OnSignIn, OnUserCreated, OnUserWritten, Answered
    <2>2. a.req.kind \notin {"getUser", "setPicture"}
      BY <2>1 DEF OnUploaded, OnDownloadURL, OnReauthenticated, OnFormWritten, Answered
    <2>3. base'.userModel = base.userModel
      <3>1. base' = base \/ base' = [base EXCEPT !.isLoad = FALSE]
        BY <2>1 DEF OnUploaded, OnDownloadURL, NextUpload, OnReauthenticated, OnFormWritten
      <3> QED BY <1>1, <3>1 DEF Base
    <2>4. (\E c \in Calls : c.kind = "getUser") => \E d \in Calls' : d.kind = "getUser"
      BY <1>5, <2>2
    <2>5. PictureComes => PictureComes'
      BY <1>1, <2>2, PictureStillComes
    <2> QED BY <1>1, <1>2, <1>6, <1>7, <1>8, <1>9, <1>10, <2>3, <2>4, <2>5 DEF Clean, ScreenFits
  <1> QED BY <1>11, <1>12, <1>13

(* The services, while somebody is logged in: every call is for the user.    *)
LEMMA ServeCleanIn ==
    ASSUME ScreenInv, faults = 0, ~slipped, base.isLoggedIn, app = "on",
           NEW i \in 1..Len(requests), NEW r, Handles(i, r)
    PROVE  Clean'
  <1> DEFINE e == [req |-> r, ok |-> Accepted(r), profile |-> users[r.account]]
             n == Len(replies)
  <1>1. /\ TypeOK /\ SessionTypes /\ Own /\ Clean /\ Flag /\ Kept /\ r = requests[i]
    BY StillClean DEF ScreenInv, Handles
  <1>2. /\ r \in Request /\ r \in Calls /\ r.account \in Accounts /\ Accepted(r) \in BOOLEAN
        /\ users[r.account] \in Profile /\ Calls' = Calls
        /\ UNCHANGED <<app, base, tab, pushed, forms>>
        /\ \A a \in Accounts : users'[a] = IF a = r.account THEN Written(users[a], r) ELSE users[a]
        /\ \A a \in Accounts : password'[a] =
              IF a = r.account /\ Accepted(r) /\ r.kind \in {"createUser", "updatePassword"}
              THEN r.text ELSE password[a]
    BY <1>1, HandledCall
  <1>3. \A c \in Calls : c.kind \notin LoginKinds
    BY <1>1 DEF Own
  <1>4. /\ r.kind \notin LoginKinds /\ r.account = current /\ current' = current
        /\ current # None /\ current \in Accounts
    BY <1>1, <1>2, <1>3 DEF Clean, CallsFit, Handles, LoginKinds, Flag
  <1>5. /\ n \in Nat /\ Len(replies') = n + 1
        /\ \A j \in 1..n : replies'[j] = replies[j]
        /\ replies'[n + 1] = e
        /\ 1..Len(replies') = 1..n \cup {n + 1}
    BY <1>1, <1>2, CallsStay DEF Handles
  <1>6. e.req = r /\ e.ok = Accepted(r) /\ e.profile = users[current]
    BY <1>4
  <1>7. /\ \A a \in Accounts : password[a] # None => users[a].core /\ users[a].name # None
        /\ users[current].core /\ users[current].name # None
    BY <1>1, <1>3, <1>4, ProfilesWhole
  <1> HIDE DEF e, n
  <1>8. /\ users'[current].core /\ users'[current].name # None
        /\ r.kind = "setPicture" => users'[current].picture = current
        /\ r.kind # "setPicture" => users'[current].picture = users[current].picture
    <2>1. users'[current] = Written(users[current], r) /\ users[current] \in Profile
      BY <1>2, <1>4
    <2>2. CASE r.kind = "setPicture"
      <3>1. r.picture = current
        BY <1>1, <1>2, <1>4, <2>2 DEF Kept, CallKept
      <3>2. users'[current] = [users[current] EXCEPT !.picture = r.picture]
        BY <2>1, <2>2 DEF Written
      <3> QED BY <1>7, <2>1, <2>2, <3>1, <3>2 DEF Profile
    <2>3. CASE r.kind = "setName"
      <3>1. r.name # None
        BY <1>1, <1>2, <2>3 DEF Clean, CallsFit
      <3>2. users'[current] = [users[current] EXCEPT !.name = r.name]
        BY <2>1, <2>3 DEF Written
      <3> QED BY <1>7, <2>1, <2>3, <3>1, <3>2 DEF Profile
    <2>4. CASE r.kind \notin {"setUser", "setPicture", "setName"}
      <3>1. users'[current] = users[current]
        BY <2>1, <2>4 DEF Written
      <3> QED BY <1>7, <2>4, <3>1
    <2> QED BY <1>4, <2>2, <2>3, <2>4 DEF LoginKinds
  <1>9. \A a \in Accounts : a # current => users'[a] = users[a]
    BY <1>2, <1>4
  <1>10. Stored'
    <2>1. \A a \in Accounts : password'[a] # None => password[a] # None
      <3>1. r.kind = "updatePassword" => password[r.account] # None
        BY <1>1, <1>2 DEF Kept, CallKept
      <3> QED BY <1>2, <1>4, <3>1 DEF LoginKinds
    <2>2. \A a \in Accounts : password'[a] # None => users'[a].core
      BY <1>7, <1>8, <1>9, <2>1
    <2>3. \A a \in Accounts : users'[a] = EmptyProfile \/ (users'[a].core /\ users'[a].name # None)
      BY <1>1, <1>8, <1>9 DEF Clean, Stored
    <2> QED BY <2>2, <2>3 DEF Stored
  <1>11. CallsFit'
    BY <1>1, <1>2, <1>4 DEF Clean, CallsFit
  <1>12. r.kind = "setPicture" => replies'[n + 1].req.kind = "setPicture"
    BY <1>5, <1>6
  <1>13. AnswersFit'
    <2>1. ASSUME NEW j \in 1..n
          PROVE  /\ replies'[j].req.kind \in DatabaseKinds => replies'[j].ok
                 /\ replies'[j].req.kind = "getUser" =>
                       /\ replies'[j].profile.core /\ replies'[j].profile.name # None
                       /\ \/ replies'[j].profile.picture = users'[current'].picture
                          \/ \E k \in 1..Len(replies') : k > j /\ replies'[k].req.kind = "setPicture"
                 /\ replies'[j].req.kind = "setPicture" => users'[current'].picture = current'
      <3>1. replies'[j] = replies[j] /\ j \in 1..Len(replies) /\ AnswersFit
        BY <1>1, <1>5 DEF Clean, n
      <3>2. CASE r.kind = "setPicture"
        <4>1. n + 1 > j /\ n + 1 \in 1..Len(replies')
          BY <1>5
        <4> QED BY <1>4, <1>8, <1>12, <3>1, <3>2, <4>1 DEF AnswersFit
      <3>3. CASE r.kind # "setPicture"
        <4>1. \A k \in 1..Len(replies) : k \in 1..Len(replies') /\ replies'[k] = replies[k]
          BY <1>5 DEF n
        <4> QED BY <1>4, <1>8, <3>1, <3>3, <4>1 DEF AnswersFit
      <3> QED BY <3>2, <3>3
    <2>2. /\ e.req.kind \in DatabaseKinds => e.ok
          /\ e.req.kind = "getUser" =>
                /\ e.profile.core /\ e.profile.name # None
                /\ e.profile.picture = users'[current'].picture
          /\ e.req.kind = "setPicture" => users'[current'].picture = current'
      <3>1. r.kind \in DatabaseKinds => Accepted(r)
        BY DEF Accepted, DatabaseKinds
      <3> QED BY <1>4, <1>6, <1>7, <1>8, <3>1
    <2> QED BY <1>5, <2>1, <2>2 DEF AnswersFit
  <1>14. PictureComes => PictureComes'
    BY <1>5 DEF PictureComes, n
  <1>15. r.kind = "setPicture" => PictureComes'
    BY <1>5, <1>12 DEF PictureComes
  <1>16. ScreenFits'
    BY <1>1, <1>2, <1>4, <1>8, <1>14, <1>15 DEF Clean, ScreenFits, form
  <1> QED BY <1>10, <1>11, <1>13, <1>16 DEF Clean

(* And while nobody is: the call is of a sign-in or a registration.          *)
LEMMA ServeCleanOut ==
    ASSUME ScreenInv, faults = 0, ~slipped, ~base.isLoggedIn, app = "on",
           NEW i \in 1..Len(requests), NEW r, Handles(i, r)
    PROVE  Clean'
  <1> DEFINE e == [req |-> r, ok |-> Accepted(r), profile |-> users[r.account]]
  <1>1. /\ TypeOK /\ SessionTypes /\ Own /\ Clean /\ Flag /\ Kept /\ r = requests[i]
    BY StillClean DEF ScreenInv, Handles
  <1>2. /\ r \in Request /\ r \in Calls /\ r.account \in Accounts /\ Accepted(r) \in BOOLEAN
        /\ users[r.account] \in Profile /\ Calls' = Calls
        /\ UNCHANGED <<app, base, tab, pushed, forms>>
        /\ \A a \in Accounts : users'[a] = IF a = r.account THEN Written(users[a], r) ELSE users[a]
        /\ \A a \in Accounts : password'[a] =
              IF a = r.account /\ Accepted(r) /\ r.kind \in {"createUser", "updatePassword"}
              THEN r.text ELSE password[a]
    BY <1>1, HandledCall
  <1>3. /\ Pending <= 1 /\ r.kind \in LoginKinds /\ base.userModel = None /\ pushed = "root"
        /\ \A c \in Calls : c.kind \in LoginKinds
    BY <1>1, <1>2 DEF Own, TypeOK
  <1>4. Len(replies) = 0 /\ Len(requests) = 1 /\ i = 1
    BY <1>1, <1>3, OnlyRequest
  <1>5. Len(replies') = 1 /\ replies'[1] = e /\ 1 \in 1..Len(replies')
    BY <1>1, <1>2, <1>4, CallsStay DEF Handles
  <1>6. (\A j \in 1..Len(replies') : replies'[j] = e) /\ e.req = r /\ e.ok = Accepted(r)
    BY <1>5
  <1> HIDE DEF e
  <1>7. \A a \in Accounts : r.kind # "setUser" \/ a # r.account => users'[a] = users[a]
    BY <1>2, <1>3 DEF Written, LoginKinds
  <1>8. r.kind = "setUser" => users'[r.account].core /\ users'[r.account].name # None
    <2>1. r.kind = "setUser" => r.name # None
      BY <1>1, <1>2 DEF Kept, CallKept
    <2> QED BY <1>2, <2>1 DEF Written, Registered
  <1>9. Stored'
    <2>1. \A a \in Accounts : users'[a] = EmptyProfile \/ (users'[a].core /\ users'[a].name # None)
      BY <1>1, <1>7, <1>8 DEF Clean, Stored
    <2>2. ASSUME NEW a \in Accounts, password'[a] # None, ~users'[a].core
          PROVE  \E j \in 1..Len(replies') :
                    /\ replies'[j].req.kind = "createUser" /\ replies'[j].ok
                    /\ replies'[j].req.account = a
      <3>1. CASE a = r.account /\ r.kind = "createUser" /\ Accepted(r)
        BY <1>5, <1>6, <3>1
      <3>2. CASE ~(a = r.account /\ r.kind = "createUser" /\ Accepted(r))
        <4>1. password[a] # None /\ ~users[a].core /\ ~(r.kind = "setUser" /\ r.account = a)
          BY <1>2, <1>3, <1>7, <1>8, <2>2, <3>2 DEF LoginKinds
        <4>2. \A j \in 1..Len(requests) : requests[j] = r
          BY <1>1, <1>4
        <4> QED BY <1>1, <1>4, <4>1, <4>2 DEF Clean, Stored
      <3> QED BY <3>1, <3>2
    <2> QED BY <2>1, <2>2 DEF Stored
  <1>10. CallsFit'
    BY <1>2, <1>3 DEF CallsFit, LoginKinds
  <1>11. AnswersFit'
    <2>1. r.kind = "setUser" => Accepted(r)
      BY DEF Accepted
    <2>2. r.kind \in {"signIn", "createUser", "setUser"}
      BY <1>3 DEF LoginKinds
    <2> QED BY <1>6, <2>1, <2>2 DEF AnswersFit, DatabaseKinds
  <1>12. ScreenFits'
    BY <1>2, <1>3 DEF ScreenFits
  <1> QED BY <1>9, <1>10, <1>11, <1>12 DEF Clean

LEMMA CleanStep == ASSUME ScreenInv, [Next]_vars PROVE CleanInv'
  <1>1. /\ SessionTypes /\ faults \in Nat /\ app \in {"off", "on"} /\ base.isLoggedIn \in BOOLEAN
    BY DEF ScreenInv, SessionTypes, TypeOK, Base
  <1>2. CASE Callback
    <2>1. UNCHANGED <<faults, slipped>>
      BY <1>1, <1>2, CallbackAsks
    <2> QED BY <1>2, <2>1, EntryClean, AnswerClean DEF CleanInv
  <1>3. CASE Serve
    <2>1. UNCHANGED <<faults, slipped>>
      BY <1>3 DEF Serve, serviceUnchanged, histVars
    <2>2. PICK i \in 1..Len(requests) : Handles(i, requests[i])
      BY <1>3, ServeHandles
    <2>3. ~slipped /\ faults = 0 => app = "on"
      BY <1>1, <2>2, StillClean
    <2> QED BY <2>1, <2>2, <2>3, ServeCleanIn, ServeCleanOut DEF CleanInv
  <1>4. CASE Fail \/ Revoke \/ Quit
    <2>1. faults' = faults + 1
      BY <1>4 DEF Fail, Revoke, Quit, Fault
    <2> QED BY <1>1, <2>1 DEF CleanInv
  <1>5. CASE NeverLeft
    <2>1. app = "off" /\ UNCHANGED <<faults, slipped>> /\ requests # <<>>
      BY <1>5 DEF NeverLeft, histVars
    <2> QED BY <2>1, StillClean DEF CleanInv
  <1>6. CASE UNCHANGED vars
    <2>1. UNCHANGED <<password, users, current, app, base, tab, pushed, forms, requests,
                      replies, faults, slipped>>
      BY <1>6 DEF vars, serverVars, uiVars, histVars
    <2>2. Calls' = Calls /\ form' = form /\ PictureComes' = PictureComes
      BY <2>1 DEF Calls, form, PictureComes
    <2>3. (Stored => Stored') /\ (AnswersFit => AnswersFit')
      BY <2>1 DEF Stored, AnswersFit
    <2>4. (CallsFit => CallsFit') /\ (ScreenFits => ScreenFits')
      BY <2>1, <2>2 DEF CallsFit, ScreenFits
    <2> QED BY <2>1, <2>3, <2>4 DEF ScreenInv, CleanInv, Clean
  <1> QED BY <1>2, <1>3, <1>4, <1>5, <1>6, UserClean DEF Next

LEMMA CleanInit == Init => FlagInv /\ CleanInv
  <1> SUFFICES ASSUME Init PROVE FlagInv /\ Clean
    BY DEF CleanInv
  <1>1. requests = <<>> /\ replies = <<>> /\ app = "off" /\ pushed = "root"
    BY DEF Init
  <1>2. base.userModel = None
    BY DEF Init, NewBase
  <1>3. Calls = {}
    BY <1>1 DEF Calls
  <1>4. FirstName # None
    BY FirstType, NoneIsNobody
  <1>5. Stored
    BY <1>4 DEF Init, Stored, Registered
  <1> QED BY <1>1, <1>2, <1>3, <1>5 DEF FlagInv, Clean, CallsFit, AnswersFit, ScreenFits

LEMMA ScreenInduction == Spec => []ScreenInv
  <1>1. Init => ScreenInv
    BY InitTypes, InitOwn, KeptInit, EndsInit, CleanInit DEF ScreenInv
  <1>2. ScreenInv /\ [Next]_vars => ScreenInv'
    <2> SUFFICES ASSUME ScreenInv, [Next]_vars PROVE ScreenInv'
      OBVIOUS
    <2>1. SessionTypes /\ OwnInv /\ Kept /\ Counted /\ FlagInv /\ LoadingEnds
      BY DEF ScreenInv
    <2> QED BY <2>1, NextTypes, OwnStep, KeptStep, CountedStep, FlagStep, EndsStep, CleanStep
            DEF ScreenInv
  <1> QED BY <1>1, <1>2, PTL DEF Spec

(* What is written stays with the account it was made for. Through every     *)
(* failure, restart and sign-out a picture is the one of its account         *)
(* (loadProfileImage); and as long as nothing fails and the content below    *)
(* the loading view is left alone, no name is lost by saving a form          *)
(* (updatePlayerData) and every registration that has ended left a complete  *)
(* profile (register).                                                       *)
THEOREM WritesStay == Spec => []WritesKept
  <1>1. ScreenInv => WritesKept
    <2> SUFFICES ASSUME ScreenInv PROVE WritesKept
      OBVIOUS
    <2>1. UploadStaysWithAccount
      BY DEF ScreenInv, Kept, UploadStaysWithAccount
    <2>2. NamesSurvive
      BY StillClean DEF Clean, Stored, EmptyProfile, NamesSurvive
    <2>3. RegistrationCompletes
      BY StillClean DEF Clean, Stored, Idle, RegistrationCompletes
    <2> QED BY <2>1, <2>2, <2>3 DEF WritesKept
  <1> QED BY <1>1, ScreenInduction, PTL

(* Once nothing is under way, isLoggedIn says whether somebody is signed in, *)
(* the picture on the screen is the one of the tree, and no loading view is  *)
(* left, in whatever order the calls of sign-in, registration, profile,      *)
(* upload and forms were answered (login, signOut, getCurrentUserData,       *)
(* loadProfileImage, updatePlayerData, updatePassword).                      *)
THEOREM ScreensRightAtRest == Spec => []ScreenWhenIdle
  <1>1. ScreenInv => ScreenWhenIdle
    <2> SUFFICES ASSUME ScreenInv PROVE ScreenWhenIdle
      OBVIOUS
    <2>1. LoginFlagWhenIdle
      <3> SUFFICES ASSUME app = "on", Idle, ~slipped, ~revoked
                   PROVE  /\ base.isLoggedIn => current # None
                          /\ current # None => base.isLoggedIn \/ ~users[current].core
        BY DEF LoginFlagWhenIdle
      <3>1. Flag /\ replies = <<>>
        BY DEF ScreenInv, FlagInv, Idle
      <3> QED BY <3>1 DEF Flag
    <2>2. PictureFreshWhenIdle
      <3> SUFFICES ASSUME Idle, ~slipped, faults = 0, base.userModel # None
                   PROVE  base.userModel.picture = users[base.userModel.uuid].picture
        BY DEF PictureFreshWhenIdle
      <3>1. Clean /\ replies = <<>>
        BY StillClean DEF Idle
      <3> QED BY <3>1 DEF Clean, ScreenFits, PictureComes
    <2>3. OverlayEndsWithWork
      <3> SUFFICES ASSUME Idle
                   PROVE  /\ ~base.isLoad
                          /\ \A v \in 1..Len(forms) : forms[v].isLoad => revoked \/ slipped
        BY DEF OverlayEndsWithWork
      <3>1. Calls = {} /\ LoadingEnds
        BY NothingUnderWay DEF ScreenInv, SessionTypes
      <3> QED BY <3>1 DEF LoadingEnds, FormLoads
    <2> QED BY <2>1, <2>2, <2>3 DEF ScreenWhenIdle
  <1> QED BY <1>1, ScreenInduction, PTL

=============================================================================
