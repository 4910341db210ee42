----------------------------- MODULE MCAnswers -----------------------------
(* Calls of the app and their answers, for TLC: the match screens of two   *)
(* phones, signing in, and the list of players. A behaviour is about one of *)
(* them, part; the list of the others does not start, and their variables  *)
(* stay Idle, so that the state spaces add up.                             *)
EXTENDS Players

CONSTANTS p1, p2, ali, veli, m1, s1, ann, bob, six, sixer, burak, None

VARIABLES
    part,   \* what a behaviour is about
    db, minted, played, app, screen, vm, form, requests, replies, taps,
    faults, deleted, raced, overlapped, slipped, password, users, current,
    base, tab, pushed, picking, forms, revoked, typedOver

Owners == p1 :> ali @@ p2 :> veli
TwoEach == p1 :> 2 @@ p2 :> 2
Lengths == six :> 6 @@ sixer :> 6 @@ burak :> 5 @@ None :> 0

Board == INSTANCE MatchBoard WITH
    Users <- {ali, veli}, Matches <- {m1}, Slots <- {s1}, Devices <- {p1, p2},
    Owner <- Owners, Admins <- {ali}, Capacity <- 1, Existing <- {m1},
    Ending <- {}, Gestures <- {"join", "leave", "refresh"}, Budget <- TwoEach,
    Faults <- {"fail", "quit"}, MaxFaults <- 1
SignIn == INSTANCE Session WITH
    Accounts <- {ann, bob}, Passwords <- {six, sixer}, Names <- {burak},
    Length <- Lengths, Existing <- {ann}, FirstPassword <- six,
    FirstName <- burak, Gestures <- {"tab", "login", "register", "signOut"},
    Budget <- 4, Faults <- {"fail", "quit"}, MaxFaults <- 1

-----------------------------------------------------------------------------
(* The variables by the modules that have them, and their value where a     *)
(* behaviour is not about one of these.                                     *)
Idle == <<>>

matchBoardVars == <<db, minted, played, screen, vm, form, deleted, raced,
                   overlapped>>
MatchBoardIdle ==
    /\ db = Idle /\ minted = Idle /\ played = Idle /\ screen = Idle
    /\ vm = Idle /\ form = Idle /\ deleted = Idle /\ raced = Idle
    /\ overlapped = Idle

(* MatchBoard, Session                                                      *)
sharedVars == <<app, requests, replies, taps, faults, slipped>>
SharedIdle ==
    /\ app = Idle /\ requests = Idle /\ replies = Idle /\ taps = Idle
    /\ faults = Idle /\ slipped = Idle

sessionVars == <<password, users, current, base, tab, pushed, picking, forms,
                revoked, typedOver>>
SessionIdle ==
    /\ password = Idle /\ users = Idle /\ current = Idle /\ base = Idle
    /\ tab = Idle /\ pushed = Idle /\ picking = Idle /\ forms = Idle
    /\ revoked = Idle /\ typedOver = Idle

NoProfiles == profiles = [u \in Users |-> "none"]

MCInit ==
    /\ Init
    /\ \/ part = "board" /\ Board!Init /\ SessionIdle /\ NoProfiles
       \/ part = "signin" /\ SignIn!Init /\ MatchBoardIdle /\ NoProfiles
       \/ part = "players" /\ MatchBoardIdle /\ SharedIdle /\ SessionIdle

MCNext ==
    /\ UNCHANGED part
    /\ \/ /\ part = "board" /\ Board!Next
          /\ UNCHANGED <<sessionVars, vars>>
       \/ /\ part = "signin" /\ SignIn!Next
          /\ UNCHANGED <<matchBoardVars, vars>>
       \/ /\ part = "players" /\ Next
          /\ UNCHANGED <<matchBoardVars, sharedVars, sessionVars>>

mcVars == <<part, matchBoardVars, sharedVars, sessionVars, vars>>

MCSpec == MCInit /\ [][MCNext]_mcVars

-----------------------------------------------------------------------------
(* The services answer and the main queue of each phone runs what is        *)
(* dispatched to it; nothing is assumed of users and faults. As a behaviour *)
(* is about one part, one condition can speak for each of them.             *)
InBoard(step) ==
    /\ part = "board" /\ step
    /\ UNCHANGED <<part, sessionVars, vars>>
InSignIn(step) ==
    /\ part = "signin" /\ step
    /\ UNCHANGED <<part, matchBoardVars, vars>>

FairSpec ==
    /\ MCSpec
    /\ WF_mcVars(InBoard(Board!Serve(p1)) \/ InSignIn(SignIn!Serve))
    /\ WF_mcVars(InBoard(Board!Callback(p1)) \/ InSignIn(SignIn!Callback))
    /\ WF_mcVars(InBoard(Board!Serve(p2)))
    /\ WF_mcVars(InBoard(Board!Callback(p2)))

-----------------------------------------------------------------------------
(* Every chain of calls that a gesture on a match screen starts comes to an *)
(* end (MatchsViewModel: callbacks that call the next function).            *)
EveryCallSettles ==
    \A d \in {p1, p2} : part = "board" /\ ~Board!Idle(d) ~> (part = "board" => Board!Idle(d))

(* Every join ends with the player in the squad or with an alert            *)
(* (joinMatches), and every sign-in with the user signed in or with an      *)
(* alert (BaseViewModel.login), unless the app is gone.                     *)
CallsAnswered ==
    /\ \A d \in {p1, p2} :
          part = "board" /\ (\E i \in 1..Len(requests[d]) : requests[d][i].kind = "roster")
          ~> (part = "board" => Owners[d] \in db[m1].players \/ vm[d].showAlert \/ app[d] # "on")
    /\ part = "signin" /\ (\E i \in 1..Len(requests) : requests[i].kind = "signIn")
       ~> (part = "signin" => base.isLoggedIn \/ base.showAlert \/ app = "off")
=============================================================================
