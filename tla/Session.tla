------------------------------- MODULE Session -------------------------------
(***************************************************************************)
(* The account side of one phone: BaseViewModel with the screens of the    *)
(* account tab (SignInView, RegisterView, ProfileView) and the two forms   *)
(* pushed from the profile (UpdateProfileView, UpdatePasswordView).        *)
(*                                                                         *)
(* Three services answer: authentication, the Users tree of the database,  *)
(* and the picture storage. Calls of the database are handled in the order *)
(* they were sent, the others in any order. Auth.currentUser changes when  *)
(* a sign-in is answered, which is before the callback of the sign-in has  *)
(* told the view model.                                                    *)
(***************************************************************************)
EXTENDS Naturals, Sequences

CONSTANTS
    Accounts,       \* accounts, each with its e-mail address and uid
    Passwords,      \* what is typed into password fields
    Names,          \* what is typed into name fields
    None,           \* nil, and the empty string
    Length,         \* number of characters of a password or name
    Existing,       \* accounts registered at the start, with profile
    FirstPassword,  \* their password
    FirstName,      \* and their name
    Gestures,       \* what the user does in the run
    Budget,         \* bound: gestures
    Faults,         \* kinds of faults in the run
    MaxFaults       \* bound: faults in the run

Texts == Passwords \cup Names \cup {None}

ASSUME LengthType == Length \in [Texts -> Nat] /\ Length[None] = 0
(* An account that exists came from the register form, which asks for six     *)
(* characters.                                                                *)
ASSUME FirstType == /\ Existing \subseteq Accounts
                    /\ FirstPassword \in Passwords /\ Length[FirstPassword] = 6
                    /\ FirstName \in Names
ASSUME SessionBounds == Budget \in Nat /\ MaxFaults \in Nat
ASSUME NoneIsNobody == None \notin Accounts \cup Passwords \cup Names

VARIABLES
    password,       \* at the authentication service; None: not registered
    users,          \* the Users tree
    current,        \* Auth.currentUser, which survives the app
    app,            \* "off" or "on"
    base,           \* BaseViewModel
    tab,            \* selection: the match tab or the account tab
    pushed,         \* what lies over the profile: "root" for nothing
    picking,        \* a picture has been chosen and is still being read
    forms,          \* view models of the forms, one for each visit
    requests,       \* calls that have not been handled
    replies,        \* answers whose callback has not run
    taps, faults,   \* what the bounds count
    (* History: written, never read by a guard.                            *)
    slipped,        \* content was used while a call was under way
    revoked,        \* the library has signed the user out by itself
    typedOver       \* a new password was typed during the re-authentication

histVars == <<slipped, revoked, typedOver>>
serverVars == <<password, users>>
uiVars == <<tab, pushed, picking>>
vars == <<serverVars, current, app, base, uiVars, forms, requests, replies,
          taps, faults, histVars>>

-----------------------------------------------------------------------------
(* A child of Users. core stands for the fields only register writes (email, *)
(* uuid, rate, authority), name for the fields the profile form writes, and  *)
(* a picture is the account below whose storage path it was put; None is the *)
(* picture every profile starts with.                                        *)
Profile == [core   : BOOLEAN,
            name   : Names \cup {None},
            picture: Accounts \cup {None}]

EmptyProfile == [core |-> FALSE, name |-> None, picture |-> None]

Registered(name) == [core |-> TRUE, name |-> name, picture |-> None]

UserModel == [uuid   : Accounts \cup {None},
              name   : Names \cup {None},
              picture: Accounts \cup {None}]

(* nil is not a profile.                                                     *)
ASSUME NilIsNoUser == None \notin UserModel

(* UserModel(dictionary:): a missing uuid is read as "".                     *)
ParsedUser(a, p) == [uuid    |-> IF p.core THEN a ELSE None,
                     name    |-> p.name,
                     picture |-> p.picture]

Base == [isLoggedIn           : BOOLEAN,
         isRegisterViewShowing: BOOLEAN,
         isLoad               : BOOLEAN,
         userModel            : UserModel \cup {None},
         showAlert            : BOOLEAN]

(* init: somebody is logged in when the library still has a user.            *)
NewBase == [isLoggedIn            |-> current # None,
            isRegisterViewShowing |-> FALSE,
            isLoad                |-> FALSE,
            userModel             |-> None,
            showAlert             |-> FALSE]

Form == [isLoad          : BOOLEAN,
         alerts          : SUBSET {"error", "success"},
         nameSurname     : Names \cup {None},
         newPassword     : Passwords \cup {None},
         newPasswordRetry: Passwords \cup {None}]

(* The name field is filled from the profile when the form appears.          *)
ShownName == IF base.userModel = None THEN None ELSE base.userModel.name

NewForm == [isLoad |-> FALSE, alerts |-> {}, nameSurname |-> ShownName,
            newPassword |-> None, newPasswordRetry |-> None]

AuthKinds == {"signIn", "createUser", "reauthenticate", "updatePassword"}
StorageKinds == {"putData", "downloadURL"}
DatabaseKinds == {"getUser", "setUser", "setPicture", "setName"}

Request == [kind   : AuthKinds \cup StorageKinds \cup DatabaseKinds,
            account: Accounts,
            text   : Passwords \cup {None},
            name   : Names \cup {None},
            picture: Accounts \cup {None},
            visit  : Nat]

Req(kind, a) == [kind |-> kind, account |-> a, text |-> None, name |-> None,
                 picture |-> None, visit |-> 0]

Reply == [req: Request, ok: BOOLEAN, profile: Profile]

Idle == requests = <<>> /\ replies = <<>>

Outstanding(kind) ==
    \/ \E i \in 1..Len(requests) : requests[i].kind = kind
    \/ \E i \in 1..Len(replies) : replies[i].req.kind = kind

-----------------------------------------------------------------------------
(* Parts of actions.                                                         *)
Touch(g) == /\ app = "on"
            /\ g \in Gestures
            /\ taps < Budget
            /\ taps' = taps + 1

AtRoot == app = "on" /\ tab = "account" /\ pushed = "root"

(* AccountView lays the loading view and the alert over whichever screen it   *)
(* shows.                                                                    *)
Uncovered == AtRoot /\ ~base.isLoad /\ ~base.showAlert

Tap(g) == Touch(g) /\ Uncovered /\ slipped' = (slipped \/ ~Idle)

(* getCurrentUserData on the view model b, with the calls q before it.       *)
getCurrentUserData(b, q) ==
    \/ /\ current # None
       /\ base' = [b EXCEPT !.isLoad = TRUE, !.userModel = None]
       /\ requests' = Append(q, Req("getUser", current))
    \/ /\ current = None
       /\ base' = [b EXCEPT !.isLoad = FALSE, !.userModel = None]
       /\ requests' = q

(* ProfileView.onAppear: load the profile unless it is there and it is the    *)
(* user's own.                                                               *)
ProfileAppears(b, q) ==
    IF current # None /\ (b.userModel = None \/ b.userModel.uuid # current)
    THEN getCurrentUserData(b, q)
    ELSE base' = b /\ requests' = q

(* The error branch of sign-in and registration, in the view model.          *)
Refused(b) == [b EXCEPT !.isLoad = FALSE, !.isLoggedIn = FALSE,
                        !.showAlert = TRUE]

-----------------------------------------------------------------------------
(* Launch and navigation.                                                    *)

(* BaseView and its view model are made and MatchsView appears.              *)
Launch ==
    /\ app = "off"
    /\ requests = <<>>
    /\ app' = "on"
    /\ tab' = "matches" /\ pushed' = "root" /\ picking' = FALSE
    /\ getCurrentUserData(NewBase, requests)
    /\ UNCHANGED <<serverVars, current, forms, replies, taps, faults, histVars>>

ToMatches ==
    /\ app = "on"
    /\ tab = "account"
    /\ tab' = "matches"
    /\ UNCHANGED <<serverVars, current, app, base, pushed, picking, forms,
                   requests, replies, taps, faults, histVars>>

(* What the account tab shows appears again: the profile, or a form, which    *)
(* fills in its name again.                                                  *)
ToAccount ==
    /\ Touch("tab")
    /\ tab = "matches"
    /\ tab' = "account"
    /\ \/ /\ pushed = "root" /\ base.isLoggedIn
          /\ ProfileAppears(base, requests)
          /\ UNCHANGED forms
       \/ /\ pushed = "profile"
          /\ forms' = [forms EXCEPT ![Len(forms)].nameSurname = ShownName]
          /\ UNCHANGED <<base, requests>>
       \/ /\ pushed = "password" \/ (pushed = "root" /\ ~base.isLoggedIn)
          /\ UNCHANGED <<base, requests, forms>>
    /\ UNCHANGED <<serverVars, current, app, pushed, picking, replies, faults,
                   histVars>>

(* "Kayıt Ol" and "Giriş Yap" below the two screens.                         *)
ToggleRegister ==
    /\ Uncovered
    /\ ~base.isLoggedIn
    /\ base' = [base EXCEPT !.isRegisterViewShowing = ~@]
    /\ slipped' = (slipped \/ ~Idle)
    /\ UNCHANGED <<serverVars, current, app, uiVars, forms, requests, replies,
                   taps, faults, revoked, typedOver>>

DismissAlert ==
    /\ app = "on"
    /\ \/ /\ tab = "matches" \/ pushed = "root"
          /\ base.showAlert
          /\ base' = [base EXCEPT !.showAlert = FALSE]
          /\ UNCHANGED forms
       \/ /\ tab = "account" /\ pushed # "root"
          /\ \E a \in forms[Len(forms)].alerts :
                forms' = [forms EXCEPT ![Len(forms)].alerts = @ \ {a}]
          /\ UNCHANGED base
    /\ UNCHANGED <<serverVars, current, app, uiVars, requests, replies, taps,
                   faults, histVars>>

-----------------------------------------------------------------------------
(* Sign-in and registration.                                                 *)
login ==
    /\ Tap("login")
    /\ ~base.isLoggedIn /\ ~base.isRegisterViewShowing
    /\ \E a \in Accounts, p \in Passwords :
          /\ Length[p] >= 6
          /\ requests' = Append(requests, [Req("signIn", a) EXCEPT !.text = p])
    /\ base' = [base EXCEPT !.isLoad = TRUE]
    /\ UNCHANGED <<serverVars, current, app, uiVars, forms, replies, faults,
                   revoked, typedOver>>

register ==
    /\ Tap("register")
    /\ ~base.isLoggedIn /\ base.isRegisterViewShowing
    /\ \E a \in Accounts, p \in Passwords, n \in Names :
          /\ Length[n] # 3
          /\ Length[p] = 6
          /\ requests' = Append(requests, [Req("createUser", a)
                                             EXCEPT !.text = p, !.name = n])
    /\ base' = [base EXCEPT !.isLoad = TRUE]
    /\ UNCHANGED <<serverVars, current, app, uiVars, forms, replies, faults,
                   revoked, typedOver>>

(* Mutant: the profile stays.                                                *)
signOutKeepsProfile ==
    /\ Tap("signOut")
    /\ base.isLoggedIn
    /\ current' = None
    /\ base' = [base EXCEPT !.isLoggedIn = FALSE]
    /\ picking' = FALSE
    /\ UNCHANGED <<serverVars, app, tab, pushed, forms, requests, replies,
                   faults, revoked, typedOver>>

(* signOut; when the library cannot forget the user nothing happens.         *)
signOut ==
    /\ Tap("signOut")
    /\ base.isLoggedIn
    /\ \/ /\ current' = None
          /\ base' = [base EXCEPT !.userModel = None, !.isLoggedIn = FALSE]
          /\ picking' = FALSE
          /\ UNCHANGED faults
       \/ /\ "keychain" \in Faults /\ faults < MaxFaults
          /\ faults' = faults + 1
          /\ UNCHANGED <<current, base, picking>>
    /\ UNCHANGED <<serverVars, app, tab, pushed, forms, requests, replies,
                   revoked, typedOver>>

-----------------------------------------------------------------------------
(* ProfileView.                                                              *)
RefreshProfile ==
    /\ Tap("refresh")
    /\ base.isLoggedIn
    /\ getCurrentUserData(base, requests)
    /\ UNCHANGED <<serverVars, current, app, uiVars, forms, replies, faults,
                   revoked, typedOver>>

(* The picture is picked; it reaches the screen when the picker has read it.  *)
PickImage ==
    /\ Tap("picture")
    /\ base.isLoggedIn
    /\ picking' = TRUE
    /\ UNCHANGED <<serverVars, current, app, base, tab, pushed, forms, requests,
                   replies, faults, revoked, typedOver>>

loadProfileImage ==
    /\ app = "on"
    /\ picking
    /\ picking' = FALSE
    /\ \/ /\ current # None
          /\ base' = [base EXCEPT !.isLoad = TRUE]
          /\ requests' = Append(requests, Req("putData", current))
       \/ /\ current = None
          /\ base' = [base EXCEPT !.isLoad = FALSE]
          /\ UNCHANGED requests
    /\ UNCHANGED <<serverVars, current, app, tab, pushed, forms, replies, taps,
                   faults, histVars>>

OpenForm(f) ==
    /\ Tap(f)
    /\ base.isLoggedIn
    /\ pushed' = f
    /\ forms' = Append(forms, NewForm)
    /\ UNCHANGED <<serverVars, current, app, base, tab, picking, requests,
                   replies, faults, revoked, typedOver>>

(* Back to the profile, which appears again.                                 *)
Back ==
    /\ app = "on" /\ tab = "account" /\ pushed # "root"
    /\ pushed' = "root"
    /\ ProfileAppears(base, requests)
    /\ UNCHANGED <<serverVars, current, app, tab, picking, forms, replies, taps,
                   faults, histVars>>

-----------------------------------------------------------------------------
(* The forms. A field that has the keyboard keeps it when the loading view    *)
(* appears, and the button lies over the loading view.                       *)
OnForm(f) == app = "on" /\ tab = "account" /\ pushed = f

form == forms[Len(forms)]

TypeName ==
    /\ OnForm("profile")
    /\ \E n \in Names :
          forms' = [forms EXCEPT ![Len(forms)].nameSurname = n]
    /\ UNCHANGED <<serverVars, current, app, base, uiVars, requests, replies,
                   taps, faults, histVars>>

TypePassword ==
    /\ OnForm("password")
    /\ \E p \in Passwords :
          \/ /\ forms' = [forms EXCEPT ![Len(forms)].newPassword = p]
             /\ typedOver' = (typedOver \/ Outstanding("reauthenticate"))
          \/ /\ forms' = [forms EXCEPT ![Len(forms)].newPasswordRetry = p]
             /\ UNCHANGED typedOver
    /\ UNCHANGED <<serverVars, current, app, base, uiVars, requests, replies,
                   taps, faults, slipped, revoked>>

(* The call of a form: its loading flag is set whether or not there is a user  *)
(* to make the call for.                                                     *)
FormCalls(r) ==
    /\ forms' = [forms EXCEPT ![Len(forms)].isLoad = TRUE]
    /\ \/ current # None /\ requests' = Append(requests, r)
       \/ current = None /\ UNCHANGED requests
    /\ UNCHANGED <<serverVars, current, app, base, uiVars, replies, faults,
                   histVars>>

updatePlayerData ==
    /\ Touch("save")
    /\ OnForm("profile")
    /\ Length[form.nameSurname] # 3
    /\ FormCalls([Req("setName", current) EXCEPT !.name = form.nameSurname,
                                                 !.visit = Len(forms)])

(* Mutant: the new password is not checked.                                  *)
updatePasswordUnchecked ==
    /\ Touch("save")
    /\ OnForm("password")
    /\ \E p \in Passwords :
          FormCalls([Req("reauthenticate", current) EXCEPT
                        !.text = p, !.visit = Len(forms)])

(* updatePassword: all three fields have six characters.                     *)
updatePassword ==
    /\ Touch("save")
    /\ OnForm("password")
    /\ Length[form.newPassword] = 6 /\ Length[form.newPasswordRetry] = 6
    /\ \E p \in Passwords :
          /\ Length[p] = 6
          /\ FormCalls([Req("reauthenticate", current) EXCEPT
                           !.text = p, !.visit = Len(forms)])

-----------------------------------------------------------------------------
(* Callbacks, in the order of the answers.                                   *)
Answered(kind) == /\ app = "on"
                  /\ replies # <<>>
                  /\ Head(replies).req.kind = kind
                  /\ replies' = Tail(replies)

callbackUnchanged == <<serverVars, current, app, tab, taps, faults, histVars>>

(* The view model learns that somebody is logged in: the profile takes the    *)
(* place of the sign-in screen and appears.                                  *)
LoggedIn ==
    LET b == [base EXCEPT !.isLoad = FALSE, !.isLoggedIn = TRUE] IN
    /\ IF AtRoot /\ ~base.isLoggedIn THEN ProfileAppears(b, requests)
                                     ELSE base' = b /\ UNCHANGED requests
    /\ UNCHANGED <<pushed, picking>>

(* The error branch of sign-in and registration: the profile goes, with what   *)
(* lies over it.                                                             *)
NotLoggedIn == /\ base' = Refused(base)
               /\ pushed' = "root" /\ picking' = FALSE
               /\ UNCHANGED requests

OnSignIn ==
    /\ Answered("signIn")
    /\ \/ Head(replies).ok /\ LoggedIn
       \/ ~Head(replies).ok /\ NotLoggedIn
    /\ UNCHANGED <<forms, callbackUnchanged>>

(* Mutant: nobody asks whether there is a user.                              *)
OnUserCreatedUnchecked ==
    LET a == Head(replies) IN
    /\ Answered("createUser")
    /\ \/ /\ a.ok
          /\ requests' = Append(requests, [Req("setUser", current)
                                             EXCEPT !.name = a.req.name])
          /\ UNCHANGED <<base, pushed, picking>>
       \/ ~a.ok /\ NotLoggedIn
    /\ UNCHANGED <<forms, callbackUnchanged>>

(* The account is created; the profile goes below whoever is signed in now.   *)
OnUserCreated ==
    LET a == Head(replies) IN
    /\ Answered("createUser")
    /\ \/ /\ a.ok /\ current # None
          /\ requests' = Append(requests, [Req("setUser", current)
                                             EXCEPT !.name = a.req.name])
          /\ UNCHANGED <<base, pushed, picking>>
       \/ (~a.ok \/ current = None) /\ NotLoggedIn
    /\ UNCHANGED <<forms, callbackUnchanged>>

OnUserWritten ==
    /\ Answered("setUser")
    /\ \/ Head(replies).ok /\ LoggedIn
       \/ ~Head(replies).ok /\ NotLoggedIn
    /\ UNCHANGED <<forms, callbackUnchanged>>

(* getCurrentUserData answered: no profile and a failed read are both nil.     *)
OnUserRead ==
    LET a == Head(replies) IN
    /\ Answered("getUser")
    /\ base' = [base EXCEPT !.isLoad = FALSE,
                            !.userModel = IF a.ok /\ a.profile # EmptyProfile
                                          THEN ParsedUser(a.req.account, a.profile)
                                          ELSE None]
    /\ UNCHANGED <<pushed, picking, forms, requests, callbackUnchanged>>

(* loadProfileImage: the upload, then its address, then the profile, all for   *)
(* the account that was signed in at the start.                              *)
NextUpload(r) ==
    \/ /\ Head(replies).ok
       /\ requests' = Append(requests, r)
       /\ UNCHANGED base
    \/ /\ ~Head(replies).ok
       /\ base' = [base EXCEPT !.isLoad = FALSE]
       /\ UNCHANGED requests

OnUploaded ==
    LET a == Head(replies).req.account IN
    /\ Answered("putData")
    /\ NextUpload(Req("downloadURL", a))
    /\ UNCHANGED <<pushed, picking, forms, callbackUnchanged>>

(* Mutant: the account is asked for again when the address is there.          *)
OnDownloadURLForCurrent ==
    LET a == Head(replies).req.account IN
    /\ Answered("downloadURL")
    /\ NextUpload([Req("setPicture", IF current = None THEN a ELSE current)
                     EXCEPT !.picture = a])
    /\ UNCHANGED <<pushed, picking, forms, callbackUnchanged>>

OnDownloadURL ==
    LET a == Head(replies).req.account IN
    /\ Answered("downloadURL")
    /\ NextUpload([Req("setPicture", a) EXCEPT !.picture = a])
    /\ UNCHANGED <<pushed, picking, forms, callbackUnchanged>>

(* Mutant: the profile on the screen keeps its picture.                      *)
OnPictureWrittenUnseen ==
    /\ Answered("setPicture")
    /\ base' = [base EXCEPT !.isLoad = FALSE]
    /\ UNCHANGED <<pushed, picking, forms, requests, callbackUnchanged>>

OnPictureWritten ==
    LET a == Head(replies) IN
    /\ Answered("setPicture")
    /\ base' = [base EXCEPT !.isLoad = FALSE,
                            !.userModel = IF a.ok /\ @ # None
                                          THEN [@ EXCEPT !.picture = a.req.picture]
                                          ELSE @]
    /\ UNCHANGED <<pushed, picking, forms, requests, callbackUnchanged>>

(* A form's call has ended, with the alert that says how.                     *)
FormTold(v, alert) ==
    forms' = [forms EXCEPT ![v].isLoad = FALSE, ![v].alerts = @ \cup {alert}]

(* The new password is read now, and not when the button was tapped.           *)
OnReauthenticated ==
    LET a == Head(replies) IN
    /\ Answered("reauthenticate")
    /\ \/ /\ a.ok
          /\ requests' = Append(requests,
                [Req("updatePassword", a.req.account) EXCEPT
                    !.text = forms[a.req.visit].newPassword,
                    !.visit = a.req.visit])
          /\ UNCHANGED forms
       \/ ~a.ok /\ FormTold(a.req.visit, "error") /\ UNCHANGED requests
    /\ UNCHANGED <<base, pushed, picking, callbackUnchanged>>

OnFormWritten(kind) ==
    LET a == Head(replies) IN
    /\ Answered(kind)
    /\ FormTold(a.req.visit, IF a.ok THEN "success" ELSE "error")
    /\ UNCHANGED <<base, pushed, picking, requests, callbackUnchanged>>

Callback ==
    \/ OnSignIn \/ OnUserCreated \/ OnUserWritten \/ OnUserRead
    \/ OnUploaded \/ OnDownloadURL \/ OnPictureWritten
    \/ OnReauthenticated \/ OnFormWritten("updatePassword")
    \/ OnFormWritten("setName")

-----------------------------------------------------------------------------
(* The services: external, as the app's calls meet them.                      *)
Without(i) == SubSeq(requests, 1, i - 1) \o SubSeq(requests, i + 1, Len(requests))

Answer(r, ok, profile) ==
    replies' = IF app = "on"
               THEN Append(replies, [req |-> r, ok |-> ok, profile |-> profile])
               ELSE replies

InOrder(i) == requests[i].kind \in DatabaseKinds =>
                 \A j \in 1..(i - 1) : requests[j].kind \notin DatabaseKinds

(* What the authentication service refuses.                                  *)
Accepted(r) ==
    CASE r.kind \in {"signIn", "reauthenticate"} -> password[r.account] = r.text
      [] r.kind = "createUser" -> password[r.account] = None
      [] r.kind = "updatePassword" -> Length[r.text] >= 6
      [] OTHER -> TRUE

Written(p, r) ==
    CASE r.kind = "setUser"    -> Registered(r.name)
      [] r.kind = "setPicture" -> [p EXCEPT !.picture = r.picture]
      [] r.kind = "setName"    -> [p EXCEPT !.name = r.name]
      [] OTHER                 -> p

serviceUnchanged == <<app, base, uiVars, forms, taps, histVars>>

(* A call is handled and takes effect. The library makes the account of a      *)
(* sign-in the current one as soon as the answer is there.                    *)
Serve ==
    \E i \in 1..Len(requests) :
       LET r == requests[i] IN
       /\ InOrder(i)
       /\ requests' = Without(i)
       /\ Answer(r, Accepted(r), users[r.account])
       /\ password' = IF Accepted(r) /\ r.kind \in {"createUser", "updatePassword"}
                      THEN [password EXCEPT ![r.account] = r.text] ELSE password
       /\ users' = [users EXCEPT ![r.account] = Written(@, r)]
       /\ current' = IF /\ app = "on" /\ Accepted(r)
                        /\ r.kind \in {"signIn", "createUser"}
                     THEN r.account ELSE current
       /\ UNCHANGED <<faults, serviceUnchanged>>

Fault(f) == f \in Faults /\ faults < MaxFaults /\ faults' = faults + 1

(* A call fails without effect; a read may fail before its turn.               *)
Fail ==
    /\ Fault("fail")
    /\ app = "on"
    /\ \E i \in 1..Len(requests) :
          /\ InOrder(i) \/ requests[i].kind = "getUser"
          /\ requests' = Without(i)
          /\ Answer(requests[i], FALSE, EmptyProfile)
    /\ UNCHANGED <<serverVars, current, serviceUnchanged>>

(* The token of the user is no longer valid and the library signs him out       *)
(* without a word to the view model.                                          *)
Revoke ==
    /\ Fault("revoke")
    /\ current # None
    /\ current' = None
    /\ revoked' = TRUE
    /\ UNCHANGED <<serverVars, app, base, uiVars, forms, requests, replies, taps,
                   slipped, typedOver>>

(* The app is killed; calls that have left the phone may still take effect.     *)
Quit ==
    /\ Fault("quit")
    /\ app = "on"
    /\ app' = "off"
    /\ base' = NewBase
    /\ pushed' = "root" /\ picking' = FALSE
    /\ forms' = <<>> /\ replies' = <<>>
    /\ UNCHANGED <<serverVars, current, tab, requests, taps, histVars>>

NeverLeft ==
    /\ app = "off"
    /\ \E i \in 1..Len(requests) : requests' = Without(i)
    /\ UNCHANGED <<serverVars, current, app, base, uiVars, forms, replies, taps,
                   faults, histVars>>

-----------------------------------------------------------------------------
Init == /\ password = [a \in Accounts |->
                         IF a \in Existing THEN FirstPassword ELSE None]
        /\ users = [a \in Accounts |->
                      IF a \in Existing THEN Registered(FirstName) ELSE EmptyProfile]
        /\ current \in Existing \cup {None}
        /\ app = "off"
        /\ base = NewBase
        /\ tab = "matches" /\ pushed = "root" /\ picking = FALSE
        /\ forms = <<>> /\ requests = <<>> /\ replies = <<>>
        /\ taps = 0 /\ faults = 0
        /\ slipped = FALSE /\ revoked = FALSE /\ typedOver = FALSE

User ==
    \/ Launch \/ ToMatches \/ ToAccount \/ ToggleRegister \/ DismissAlert
    \/ login \/ register \/ signOut \/ RefreshProfile
    \/ PickImage \/ loadProfileImage
    \/ OpenForm("profile") \/ OpenForm("password") \/ Back
    \/ TypeName \/ TypePassword \/ updatePlayerData \/ updatePassword

Next == User \/ Callback \/ Serve \/ Fail \/ Revoke \/ Quit \/ NeverLeft

Spec == Init /\ [][Next]_vars

-----------------------------------------------------------------------------
(* Every variable has its type; every call is made for an account.              *)
TypeOK ==
    /\ password \in [Accounts -> Passwords \cup {None}]
    /\ users \in [Accounts -> Profile]
    /\ current \in Accounts \cup {None}
    /\ app \in {"off", "on"}
    /\ base \in Base
    /\ tab \in {"matches", "account"}
    /\ pushed \in {"root", "profile", "password"}
    /\ pushed # "root" => forms # <<>>
    /\ picking \in BOOLEAN
    /\ forms \in Seq(Form)
    /\ requests \in Seq(Request) /\ replies \in Seq(Reply)
    /\ taps \in Nat /\ faults \in Nat
    /\ slipped \in BOOLEAN /\ revoked \in BOOLEAN /\ typedOver \in BOOLEAN

(* The profile the screens work with (whose name goes into squads, whose         *)
(* authority shows the admin's buttons) is the signed-in user's. It is somebody   *)
(* else's only after content was used during a call (a sign-out whose profile     *)
(* load is still to be answered) or after the library signed the user out.        *)
ProfileIsOwn ==
    base.userModel # None =>
      base.userModel.uuid \in {current, None} \/ slipped \/ revoked

(* Once nothing is under way, isLoggedIn says whether somebody is signed in.     *)
(* The exception is a registration that stopped after the account was created.    *)
LoginFlagWhenIdle ==
    app = "on" /\ Idle /\ ~slipped /\ ~revoked =>
      /\ base.isLoggedIn => current # None
      /\ current # None => base.isLoggedIn \/ ~users[current].core

(* loadProfileImage takes three calls; whoever is signed in by then, the          *)
(* picture goes to the profile of the account that chose it.                     *)
UploadStaysWithAccount ==
    \A a \in Accounts : users[a].picture \in {a, None}

(* Registration creates the account and then writes its profile. Without a         *)
(* failure and with nothing under way, every account has its profile.             *)
RegistrationCompletes ==
    Idle /\ ~slipped /\ faults = 0 =>
      \A a \in Accounts : password[a] # None => users[a].core

(* The profile form saves what it shows, also what the user did not type. A name   *)
(* is lost only when the form was opened without a profile.                       *)
NamesSurvive ==
    ~slipped /\ faults = 0 =>
      \A a \in Accounts : users[a].core => users[a].name # None

(* A new picture is put into the profile on the screen by hand, not by a reload,    *)
(* in whatever order the upload and a refresh are answered.                       *)
PictureFreshWhenIdle ==
    Idle /\ ~slipped /\ faults = 0 /\ base.userModel # None =>
      base.userModel.picture = users[base.userModel.uuid].picture

(* One loading flag serves sign-in, profile and upload: it is never left on when    *)
(* nothing is under way. A form's flag is, when it was used with nobody signed in:  *)
(* the library signed the user out, or two sign-ins overlapped and the second was   *)
(* answered after a sign-out.                                                      *)
OverlayEndsWithWork ==
    Idle => /\ ~base.isLoad
            /\ \A v \in 1..Len(forms) : forms[v].isLoad => revoked \/ slipped

(* The forms take passwords of six characters. Another one is set only when it      *)
(* was typed over the checked one during the re-authentication.                    *)
PasswordsChecked ==
    \A a \in Accounts : password[a] # None => Length[password[a]] = 6 \/ typedOver

(* What is written stays with the account it was made for: a picture goes   *)
(* to the account that chose it, a name is not lost by saving a form that   *)
(* was opened without a profile, and a registration without failure leaves  *)
(* a complete profile (loadProfileImage, updatePlayerData, register).       *)
WritesKept == UploadStaysWithAccount /\ NamesSurvive /\ RegistrationCompletes

(* Once nothing is under way the signed-in flag and the picture on the      *)
(* screen are right, and no loading view is left (login, signOut,           *)
(* getCurrentUserData, loadProfileImage and the forms).                     *)
ScreenWhenIdle == LoginFlagWhenIdle /\ PictureFreshWhenIdle /\ OverlayEndsWithWork

-----------------------------------------------------------------------------
(* "Şifreler eşleşmiyor !": a password is changed only to one that was typed the     *)
(* same twice.                                                                     *)
PasswordTypedTwice ==
    [][LET a == Head(replies) IN
       /\ replies # <<>> /\ replies' = Tail(replies)
       /\ a.req.kind = "reauthenticate" /\ a.ok
       => forms[a.req.visit].newPassword = forms[a.req.visit].newPasswordRetry]_vars

=============================================================================
