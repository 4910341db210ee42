----------------------------- MODULE MatchBoard -----------------------------
(***************************************************************************)
(* Phones running the match screens (MatchsView, MatchDetailView,          *)
(* CommentsView, CreateMatchView over MatchsViewModel and                  *)
(* CreateMatchViewModel) against one shared database.                      *)
(*                                                                         *)
(* Every call of the view model sends a request and returns; the rest of   *)
(* the operation runs in the callback, on the main queue, when the answer  *)
(* comes. A phone's requests are handled in the order they were sent, and  *)
(* its callbacks run in the order of the answers; requests of different    *)
(* phones interleave freely. Between a request and its callback the user   *)
(* may still use whatever the loading overlay does not cover.              *)
(***************************************************************************)
EXTENDS MatchStore, Sequences

CONSTANTS
    Devices,        \* phones
    Owner,          \* the account signed in on each phone, for the whole run
    Admins,         \* accounts whose authority is "admin"
    Capacity,       \* players a squad may have (14)
    Existing,       \* matches in the database at the start
    Ending,         \* matches whose finishDate may pass during the run
    Gestures,       \* what users do in the run
    Budget,         \* bound: gestures per phone
    Faults,         \* kinds of faults in the run
    MaxFaults       \* bound: faults in the run

ASSUME OwnerType == Owner \in [Devices -> Users]
ASSUME CapacityType == Capacity \in Nat \ {0}
ASSUME ExistingType == Existing \subseteq Matches
ASSUME BoundsType == Budget \in [Devices -> Nat] /\ MaxFaults \in Nat
ASSUME ScreensAreNew == {"list", "create"} \cap Matches = {}

VARIABLES
    db,             \* the Matchs tree
    minted,         \* match ids UUID() has produced so far
    played,         \* matches whose finishDate has passed
    app,            \* "off", "on" or "crashed", for each phone
    screen,         \* "list", "create", or the match a MatchDetailView shows
    vm,             \* MatchsViewModel of each phone
    form,           \* CreateMatchViewModel of each phone's current visit
    requests,       \* sent by the phone, not yet handled by the server
    replies,        \* answers whose callback has not run
    taps, faults,   \* what the bounds count
    (* History: written, never read by a guard.                            *)
    deleted,        \* matches some deletion of which reached the server
    raced,          \* matches two phones were joining at once
    overlapped,     \* phones whose newest list load started during another
    slipped         \* phones used under the overlay with a request in flight

histVars == <<deleted, raced, overlapped, slipped>>
netHist  == <<deleted, raced, overlapped>>
vars == <<db, minted, played, app, screen, vm, form, requests, replies,
          taps, faults, histVars>>

-----------------------------------------------------------------------------
(* State of the view models.                                                *)
ViewModel == [isLoad          : BOOLEAN,
              matchsModelList : Seq([Matches -> Card]),
              selectedMatch   : MatchsModel,
              unselectedPlayer: SUBSET Users,
              showAlert       : BOOLEAN]

NewViewModel == [isLoad           |-> FALSE,
                 matchsModelList  |-> <<>>,
                 selectedMatch    |-> EmptyModel,
                 unselectedPlayer |-> {},
                 showAlert        |-> FALSE]

Form == [visit: Nat, isLoad: BOOLEAN, showAlert: BOOLEAN]

Reply == [req: Request, ok: BOOLEAN, snap: Store]

Outstanding(d, kind) ==
    \/ \E i \in 1..Len(requests[d]) : requests[d][i].kind = kind
    \/ \E i \in 1..Len(replies[d]) : replies[d][i].req.kind = kind

Idle(d) == requests[d] = <<>> /\ replies[d] = <<>>

isAdmin(d) == Owner[d] \in Admins

-----------------------------------------------------------------------------
(* Parts of actions.                                                        *)

(* The user does g on phone d.                                              *)
Touch(d, g) == /\ app[d] = "on"
               /\ g \in Gestures
               /\ taps[d] < Budget[d]
               /\ taps' = [taps EXCEPT ![d] = @ + 1]

(* The content of the list and of the detail screen lies under the loading  *)
(* overlay and under the alert; bars and tabs do not.                       *)
Uncovered(d) == ~vm[d].isLoad /\ ~vm[d].showAlert

(* A gesture on that content. The overlay is there to keep it from happening   *)
(* while a request is under way; where it does not, the phone has slipped.    *)
Tap(d, g) == /\ Touch(d, g)
             /\ Uncovered(d)
             /\ slipped' = IF Idle(d) THEN slipped ELSE slipped \cup {d}

OnDetail(d) == screen[d] \in Matches

Send(d, r) == requests' = [requests EXCEPT ![d] = Append(@, r)]

(* self.isLoad = true, then the call. *)
Loading(v) == [v EXCEPT !.isLoad = TRUE]

(* Mutant: the alert is shown and the loading flag forgotten.               *)
AlertedStillLoading(v) == [v EXCEPT !.showAlert = TRUE]

(* The error branch most callbacks share.                                   *)
Alerted(v) == [v EXCEPT !.isLoad = FALSE, !.showAlert = TRUE]

(* Mutant: the old list is kept until the new one comes.                    *)
getAllMatchsKeepsList(v) == Loading(v)

(* getAllMatchs: the old list is dropped at once, the new one comes later.   *)
getAllMatchs(v) == [v EXCEPT !.isLoad = TRUE, !.matchsModelList = <<>>]

NotesListLoad(d) ==
    overlapped' = IF Outstanding(d, "list") THEN overlapped \cup {d}
                                            ELSE overlapped \ {d}

(* child("") raises an exception nobody catches, and a user may kill the     *)
(* app at any time: the view models are gone, some of the unsent requests    *)
(* are too, and no callback of this launch ever runs.                        *)
Stops(d, how) ==
    /\ app' = [app EXCEPT ![d] = how]
    /\ screen' = [screen EXCEPT ![d] = "list"]
    /\ vm' = [vm EXCEPT ![d] = NewViewModel]
    /\ form' = [form EXCEPT ![d] =
                   [@ EXCEPT !.isLoad = FALSE, !.showAlert = FALSE]]
    /\ \E n \in 0..Len(requests[d]) :
          requests' = [requests EXCEPT ![d] = SubSeq(@, 1, n)]
    /\ replies' = [replies EXCEPT ![d] = <<>>]

-----------------------------------------------------------------------------
(* Launch and navigation.                                                   *)

(* MatchsView appears for the first time. The requests of an earlier launch *)
(* are over by then.                                                        *)
Launch(d) ==
    /\ app[d] # "on"
    /\ Idle(d)
    /\ app' = [app EXCEPT ![d] = "on"]
    /\ vm' = [vm EXCEPT ![d] = getAllMatchs(NewViewModel)]
    /\ Send(d, Req("list", None))
    /\ NotesListLoad(d)
    /\ UNCHANGED <<db, minted, played, screen, form, replies, taps, faults,
                   deleted, raced, slipped>>

(* The refresh button of the navigation bar.                                *)
Refresh(d) ==
    /\ Touch(d, "refresh")
    /\ screen[d] = "list"
    /\ vm' = [vm EXCEPT ![d] = getAllMatchs(@)]
    /\ Send(d, Req("list", None))
    /\ NotesListLoad(d)
    /\ UNCHANGED <<db, minted, played, app, screen, form, replies, faults,
                   deleted, raced, slipped>>

(* The cards on the list screen, a card for each copy on it.                *)
ShownCards(d) ==
    {vm[d].matchsModelList[i][m] :
        i \in 1..Len(vm[d].matchsModelList), m \in Matches} \ {None}

(* A card is opened: MatchDetailView appears and loads its match. A card     *)
(* without matchID asks for child("").                                      *)
OpenDetail(d) ==
    /\ Tap(d, "open")
    /\ screen[d] = "list"
    /\ \E card \in ShownCards(d) :
          \/ /\ card.matchID # None
             /\ screen' = [screen EXCEPT ![d] = card.matchID]
             /\ vm' = [vm EXCEPT ![d] = Loading(@)]
             /\ Send(d, Req("detail", card.matchID))
             /\ UNCHANGED <<app, form, replies>>
          \/ card.matchID = None /\ Stops(d, "crashed")
    /\ UNCHANGED <<db, minted, played, faults, netHist>>

(* The detail screen appears again, after another tab was shown.            *)
Reappear(d) ==
    /\ Touch(d, "reappear")
    /\ OnDetail(d)
    /\ vm' = [vm EXCEPT ![d] = Loading(@)]
    /\ Send(d, Req("detail", screen[d]))
    /\ UNCHANGED <<db, minted, played, app, screen, form, replies, faults,
                   histVars>>

(* The back button of the navigation bar.                                   *)
Back(d) ==
    /\ app[d] = "on"
    /\ screen[d] # "list"
    /\ screen' = [screen EXCEPT ![d] = "list"]
    /\ UNCHANGED <<db, minted, played, app, vm, form, requests, replies, taps,
                   faults, histVars>>

DismissAlert(d) ==
    /\ app[d] = "on"
    /\ \/ /\ screen[d] # "create"
          /\ vm[d].showAlert
          /\ vm' = [vm EXCEPT ![d].showAlert = FALSE]
          /\ UNCHANGED form
       \/ /\ screen[d] = "create"
          /\ form[d].showAlert
          /\ form' = [form EXCEPT ![d].showAlert = FALSE]
          /\ UNCHANGED vm
    /\ UNCHANGED <<db, minted, played, app, screen, requests, replies, taps,
                   faults, histVars>>

-----------------------------------------------------------------------------
(* Calls made from a card of the list. A match without info has finishDate 0, *)
(* which has passed.                                                        *)
CanStillJoin(card) == card.matchID # None /\ card.matchID \notin played

currentUserIsJoined(d, card) == Owner[d] \in card.players

(* joinMatches: first read the squad.                                       *)
joinMatches(d) ==
    /\ Tap(d, "join")
    /\ screen[d] = "list"
    /\ \E card \in ShownCards(d) :
          /\ CanStillJoin(card)
          /\ ~currentUserIsJoined(d, card)
          /\ Send(d, Req("roster", card.matchID))
    /\ vm' = [vm EXCEPT ![d] = Loading(@)]
    /\ UNCHANGED <<db, minted, played, app, screen, form, replies, faults,
                   netHist>>

(* leaveMatches: first take the user off the squad.                         *)
leaveMatches(d) ==
    /\ Tap(d, "leave")
    /\ screen[d] = "list"
    /\ \E card \in ShownCards(d) :
          /\ CanStillJoin(card)
          /\ currentUserIsJoined(d, card)
          /\ Send(d, [Req("leave", card.matchID) EXCEPT !.user = Owner[d]])
    /\ vm' = [vm EXCEPT ![d] = Loading(@)]
    /\ UNCHANGED <<db, minted, played, app, screen, form, replies, faults,
                   netHist>>

(* deleteMatches, from the bin on an admin's card.                          *)
deleteMatches(d) ==
    /\ Tap(d, "delete")
    /\ isAdmin(d)
    /\ screen[d] = "list"
    /\ \E card \in ShownCards(d) :
          \/ /\ card.matchID # None
             /\ vm' = [vm EXCEPT ![d] = Loading(@)]
             /\ Send(d, Req("delete", card.matchID))
             /\ UNCHANGED <<app, screen, form, replies>>
          \/ card.matchID = None /\ Stops(d, "crashed")
    /\ UNCHANGED <<db, minted, played, faults, netHist>>

-----------------------------------------------------------------------------
(* Calls made from the detail screen. The pitch, the bench and the comments  *)
(* show selectedMatch, which need not be the match the screen was opened for. *)

(* The menu of a player on the bench offers the places not taken.           *)
setPlayerPositionWithMatch(d) ==
    /\ Tap(d, "place")
    /\ isAdmin(d)
    /\ OnDetail(d)
    /\ \E u \in vm[d].unselectedPlayer, s \in Slots :
          /\ ~isActivePosition(vm[d].selectedMatch, s)
          /\ \/ /\ vm[d].selectedMatch.matchID # None
                /\ vm' = [vm EXCEPT ![d] = Loading(@)]
                /\ Send(d, [Req("place", vm[d].selectedMatch.matchID)
                              EXCEPT !.slot = s, !.user = u])
                /\ UNCHANGED <<app, screen, form, replies>>
             \/ vm[d].selectedMatch.matchID = None /\ Stops(d, "crashed")
    /\ UNCHANGED <<db, minted, played, faults, netHist>>

(* An admin taps a player on the pitch.                                     *)
deletePlayerPositionWithMatch(d) ==
    /\ Tap(d, "vacate")
    /\ isAdmin(d)
    /\ OnDetail(d)
    /\ \E s \in Slots :
          /\ isActivePosition(vm[d].selectedMatch, s)
          /\ Send(d, [Req("vacate", screen[d]) EXCEPT !.slot = s])
    /\ vm' = [vm EXCEPT ![d] = Loading(@)]
    /\ UNCHANGED <<db, minted, played, app, screen, form, replies, faults,
                   netHist>>

(* The seal in the toolbar, which no overlay covers.                        *)
setIsPlanningCompleteForMatch(d) ==
    /\ Touch(d, "plan")
    /\ isAdmin(d)
    /\ OnDetail(d)
    /\ Send(d, [Req("plan", screen[d]) EXCEPT !.plan =
                  IF vm[d].selectedMatch.isPlanningComplete THEN "no" ELSE "yes"])
    /\ vm' = [vm EXCEPT ![d] = Loading(@)]
    /\ UNCHANGED <<db, minted, played, app, screen, form, replies, faults,
                   histVars>>

(* addComment writes below selectedMatch.                                   *)
addComment(d) ==
    /\ Tap(d, "comment")
    /\ OnDetail(d)
    /\ \/ /\ vm[d].selectedMatch.matchID # None
          /\ vm' = [vm EXCEPT ![d] = Loading(@)]
          /\ Send(d, [Req("comment", vm[d].selectedMatch.matchID)
                        EXCEPT !.about = screen[d]])
          /\ UNCHANGED <<app, screen, form, replies>>
       \/ vm[d].selectedMatch.matchID = None /\ Stops(d, "crashed")
    /\ UNCHANGED <<db, minted, played, faults, netHist>>

-----------------------------------------------------------------------------
(* CreateMatchView.                                                         *)
OpenCreate(d) ==
    /\ Touch(d, "create")
    /\ isAdmin(d)
    /\ screen[d] = "list"
    /\ screen' = [screen EXCEPT ![d] = "create"]
    /\ form' = [form EXCEPT ![d] = [visit |-> @.visit + 1, isLoad |-> FALSE,
                                    showAlert |-> FALSE]]
    /\ UNCHANGED <<db, minted, played, app, vm, requests, replies, faults,
                   histVars>>

(* createMatch, with the form filled in. The button lies over the loading    *)
(* overlay and can be tapped again while the first creation is under way.    *)
createMatch(d) ==
    /\ Touch(d, "create")
    /\ screen[d] = "create"
    /\ \E m \in Matches \ minted :
          /\ minted' = minted \cup {m}
          /\ Send(d, [Req("create", m) EXCEPT !.visit = form[d].visit])
    /\ form' = [form EXCEPT ![d].isLoad = TRUE]
    /\ UNCHANGED <<db, played, app, screen, vm, replies, faults, histVars>>

-----------------------------------------------------------------------------
(* Callbacks. Each takes the oldest answer of its phone; the calls it makes  *)
(* in turn are part of it.                                                  *)
Answered(d, kind) == /\ app[d] = "on"
                     /\ replies[d] # <<>>
                     /\ Head(replies[d]).req.kind = kind
                     /\ replies' = [replies EXCEPT ![d] = Tail(@)]

(* The callback calls getAllMatchs, having set the rest of vm to v.          *)
ThenAllMatchs(d, v) == /\ vm' = [vm EXCEPT ![d] = getAllMatchs(v)]
                       /\ Send(d, Req("list", None))
                       /\ NotesListLoad(d)

ThenAlert(d) == /\ vm' = [vm EXCEPT ![d] = Alerted(@)]
                /\ UNCHANGED <<requests, overlapped>>

callbackUnchanged == <<db, minted, played, app, taps, faults, deleted, raced,
                       slipped>>

Listed(v, store) == [v EXCEPT !.isLoad = FALSE,
                              !.matchsModelList = Append(@, CardsOf(store))]

(* The answer's matches are added to what the list holds by now. An answer   *)
(* without matches leaves everything as it is, the loading flag included.    *)
OnAllMatchs(d) ==
    LET a == Head(replies[d]) IN
    /\ Answered(d, "list")
    /\ \/ /\ a.ok /\ \E m \in Matches : Exists(a.snap[m])
          /\ vm' = [vm EXCEPT ![d] = Listed(@, a.snap)]
       \/ /\ a.ok /\ \A m \in Matches : ~Exists(a.snap[m])
          /\ UNCHANGED vm
       \/ /\ ~a.ok
          /\ vm' = [vm EXCEPT ![d] =
                      [Alerted(@) EXCEPT !.matchsModelList = <<>>]]
    /\ UNCHANGED <<requests, overlapped, screen, form, callbackUnchanged>>

(* Mutant: the squad is full only above its capacity.                       *)
OnRosterOffByOne(d) ==
    LET a == Head(replies[d])
        count == Cardinality(a.snap[a.req.match].players) IN
    /\ Answered(d, "roster")
    /\ \/ /\ a.ok /\ count > Capacity
          /\ vm' = [vm EXCEPT ![d].showAlert = TRUE]
          /\ UNCHANGED <<requests, overlapped>>
       \/ /\ a.ok /\ count <= Capacity
          /\ Send(d, [Req("join", a.req.match) EXCEPT !.user = Owner[d]])
          /\ UNCHANGED <<vm, overlapped>>
       \/ ~a.ok /\ ThenAlert(d)
    /\ UNCHANGED <<screen, form, callbackUnchanged>>

(* Mutant: nobody is told that the squad is full.                           *)
OnRosterFullSilently(d) ==
    LET a == Head(replies[d])
        count == Cardinality(a.snap[a.req.match].players) IN
    /\ Answered(d, "roster")
    /\ \/ /\ a.ok /\ count # Capacity
          /\ Send(d, [Req("join", a.req.match) EXCEPT !.user = Owner[d]])
          /\ UNCHANGED <<vm, overlapped>>
       \/ a.ok /\ count = Capacity /\ UNCHANGED <<vm, requests, overlapped>>
       \/ ~a.ok /\ ThenAlert(d)
    /\ UNCHANGED <<screen, form, callbackUnchanged>>

(* joinMatches, the squad read: it is full when its size is Capacity, and    *)
(* then the loading flag stays set behind the alert.                        *)
OnRoster(d) ==
    LET a == Head(replies[d])
        count == Cardinality(a.snap[a.req.match].players) IN
    /\ Answered(d, "roster")
    /\ \/ /\ a.ok /\ count = Capacity
          /\ vm' = [vm EXCEPT ![d].showAlert = TRUE]
          /\ UNCHANGED <<requests, overlapped>>
       \/ /\ a.ok /\ count # Capacity
          /\ Send(d, [Req("join", a.req.match) EXCEPT !.user = Owner[d]])
          /\ UNCHANGED <<vm, overlapped>>
       \/ ~a.ok /\ ThenAlert(d)
    /\ UNCHANGED <<screen, form, callbackUnchanged>>

(* Mutant: a refused join is written again without reading the squad.        *)
OnJoinedRetries(d) ==
    LET a == Head(replies[d]) IN
    /\ Answered(d, "join")
    /\ \/ a.ok /\ ThenAllMatchs(d, vm[d])
       \/ ~a.ok /\ Send(d, a.req) /\ UNCHANGED <<vm, overlapped>>
    /\ UNCHANGED <<screen, form, callbackUnchanged>>

(* joinMatches, the player written or refused: reload the list either way.   *)
OnJoined(d) ==
    LET a == Head(replies[d]) IN
    /\ Answered(d, "join")
    /\ ThenAllMatchs(d, [vm[d] EXCEPT !.showAlert = IF a.ok THEN @ ELSE TRUE])
    /\ UNCHANGED <<screen, form, callbackUnchanged>>

(* Mutant: the pitch is not looked at.                                      *)
OnLeftSkipsPitch(d) ==
    LET a == Head(replies[d]) IN
    /\ Answered(d, "leave")
    /\ \/ a.ok /\ ThenAllMatchs(d, vm[d])
       \/ ~a.ok /\ ThenAlert(d)
    /\ UNCHANGED <<screen, form, callbackUnchanged>>

(* Mutant: the pitch is searched without saying for whom.                   *)
OnLeftForgetsUser(d) ==
    LET a == Head(replies[d]) IN
    /\ Answered(d, "leave")
    /\ \/ /\ a.ok
          /\ vm' = [vm EXCEPT ![d] = Loading(@)]
          /\ Send(d, Req("area", a.req.match))
          /\ UNCHANGED overlapped
       \/ ~a.ok /\ ThenAlert(d)
    /\ UNCHANGED <<screen, form, callbackUnchanged>>

(* leaveMatches, off the squad: isUserInFootballArea looks at the pitch.     *)
OnLeft(d) ==
    LET a == Head(replies[d]) IN
    /\ Answered(d, "leave")
    /\ \/ /\ a.ok
          /\ vm' = [vm EXCEPT ![d] = Loading(@)]
          /\ Send(d, [Req("area", a.req.match) EXCEPT !.user = a.req.user])
          /\ UNCHANGED overlapped
       \/ ~a.ok /\ ThenAlert(d)
    /\ UNCHANGED <<screen, form, callbackUnchanged>>

(* Mutant: a player who is not on the pitch is looked for again.             *)
OnAreaSearchesAgain(d) ==
    LET a == Head(replies[d]) IN
    /\ Answered(d, "area")
    /\ Send(d, a.req)
    /\ UNCHANGED <<vm, overlapped, screen, form, callbackUnchanged>>

(* isUserInFootballArea: the first place found with the user (a dictionary    *)
(* has no order) is given to deletePlayerForFootballArea.                    *)
OnArea(d) ==
    LET a == Head(replies[d])
        places == {s \in Slots : a.snap[a.req.match].Positions[s] = a.req.user}
    IN
    /\ Answered(d, "area")
    /\ \/ /\ a.ok
          /\ vm' = [vm EXCEPT ![d] = Loading(@)]
          /\ \E s \in places :
                Send(d, [Req("areaRemove", a.req.match) EXCEPT !.slot = s])
          /\ UNCHANGED overlapped
       \/ a.ok /\ places = {} /\ ThenAllMatchs(d, vm[d])
       \/ ~a.ok /\ ThenAlert(d)
    /\ UNCHANGED <<screen, form, callbackUnchanged>>

(* deletePlayerForFootballArea answered.                                    *)
OnAreaRemoved(d) ==
    LET a == Head(replies[d]) IN
    /\ Answered(d, "areaRemove")
    /\ \/ a.ok /\ ThenAllMatchs(d, vm[d])
       \/ ~a.ok /\ ThenAlert(d)
    /\ UNCHANGED <<screen, form, callbackUnchanged>>

(* deleteMatches answered.                                                  *)
OnDeleted(d) ==
    LET a == Head(replies[d]) IN
    /\ Answered(d, "delete")
    /\ \/ a.ok /\ ThenAllMatchs(d, vm[d])
       \/ ~a.ok /\ ThenAlert(d)
    /\ UNCHANGED <<screen, form, callbackUnchanged>>

(* setPlayerPositionWithMatch and deletePlayerPositionWithMatch answered:    *)
(* they start the reload and then clear the loading flag it has set.         *)
OnPositionWritten(d) ==
    LET a == Head(replies[d]) IN
    /\ \E kind \in {"place", "vacate"} : Answered(d, kind)
    /\ \/ /\ a.ok
          /\ Send(d, Req("detail", a.req.match))
          /\ vm' = [vm EXCEPT ![d].isLoad = FALSE]
          /\ UNCHANGED overlapped
       \/ ~a.ok /\ ThenAlert(d)
    /\ UNCHANGED <<screen, form, callbackUnchanged>>

(* Mutant: a match that is gone leaves the loading flag set.                *)
OnMatchGoneStillLoading(d) ==
    LET a == Head(replies[d])
        node == a.snap[a.req.match]
        model == Parsed(a.req.match, node) IN
    /\ Answered(d, "detail")
    /\ \/ /\ a.ok /\ Exists(node)
          /\ vm' = [vm EXCEPT ![d] =
                      [@ EXCEPT !.isLoad = FALSE,
                                !.selectedMatch = model,
                                !.unselectedPlayer = Unselected(model)]]
          /\ UNCHANGED <<requests, overlapped>>
       \/ a.ok /\ ~Exists(node) /\ UNCHANGED <<vm, requests, overlapped>>
       \/ ~a.ok /\ ThenAlert(d)
    /\ UNCHANGED <<screen, form, callbackUnchanged>>

(* getMatchWithMatchID answered: a match that is gone leaves selectedMatch   *)
(* as it was.                                                               *)
OnMatch(d) ==
    LET a == Head(replies[d])
        node == a.snap[a.req.match]
        model == Parsed(a.req.match, node) IN
    /\ Answered(d, "detail")
    /\ \/ /\ a.ok /\ Exists(node)
          /\ vm' = [vm EXCEPT ![d] =
                      [@ EXCEPT !.isLoad = FALSE,
                                !.selectedMatch = model,
                                !.unselectedPlayer = Unselected(model)]]
          /\ UNCHANGED <<requests, overlapped>>
       \/ /\ a.ok /\ ~Exists(node)
          /\ vm' = [vm EXCEPT ![d].isLoad = FALSE]
          /\ UNCHANGED <<requests, overlapped>>
       \/ ~a.ok /\ ThenAlert(d)
    /\ UNCHANGED <<screen, form, callbackUnchanged>>

(* Mutant: the match is not loaded again.                                   *)
OnPlannedNoReload(d) ==
    /\ Answered(d, "plan")
    /\ vm' = [vm EXCEPT ![d].isLoad = FALSE]
    /\ UNCHANGED <<requests, overlapped, screen, form, callbackUnchanged>>

(* setIsPlanningCompleteForMatch answered.                                  *)
OnPlanned(d) ==
    LET a == Head(replies[d]) IN
    /\ Answered(d, "plan")
    /\ \/ /\ a.ok
          /\ vm' = [vm EXCEPT ![d] = Loading(@)]
          /\ Send(d, Req("detail", a.req.match))
          /\ UNCHANGED overlapped
       \/ ~a.ok /\ ThenAlert(d)
    /\ UNCHANGED <<screen, form, callbackUnchanged>>

(* addComment answered.                                                     *)
OnCommented(d) ==
    LET a == Head(replies[d]) IN
    /\ Answered(d, "comment")
    /\ \/ /\ a.ok
          /\ vm' = [vm EXCEPT ![d] = Loading(@)]
          /\ Send(d, Req("detail", a.req.match))
          /\ UNCHANGED overlapped
       \/ ~a.ok /\ ThenAlert(d)
    /\ UNCHANGED <<screen, form, callbackUnchanged>>

(* createMatch answered. The form closes and the list is reloaded only when  *)
(* the visit that sent it is still on the screen.                            *)
OnCreated(d) ==
    LET a == Head(replies[d])
        live == screen[d] = "create" /\ form[d].visit = a.req.visit IN
    /\ Answered(d, "create")
    /\ \/ /\ live /\ a.ok
          /\ screen' = [screen EXCEPT ![d] = "list"]
          /\ form' = [form EXCEPT ![d].isLoad = FALSE]
          /\ ThenAllMatchs(d, vm[d])
       \/ /\ live /\ ~a.ok
          /\ form' = [form EXCEPT ![d] =
                         [@ EXCEPT !.isLoad = FALSE, !.showAlert = TRUE]]
          /\ UNCHANGED <<screen, vm, requests, overlapped>>
       \/ ~live /\ UNCHANGED <<screen, form, vm, requests, overlapped>>
    /\ UNCHANGED callbackUnchanged

Callback(d) ==
    \/ OnAllMatchs(d) \/ OnRoster(d) \/ OnJoined(d) \/ OnLeft(d) \/ OnArea(d)
    \/ OnAreaRemoved(d) \/ OnDeleted(d) \/ OnPositionWritten(d) \/ OnMatch(d)
    \/ OnPlanned(d) \/ OnCommented(d) \/ OnCreated(d)

-----------------------------------------------------------------------------
(* The database and the connection to it: external, as the app's calls of    *)
(* getData, setValue and removeValue meet it.                                *)
Answer(d, r, ok, snap) ==
    replies' = IF app[d] = "on"
               THEN [replies EXCEPT ![d] =
                        Append(@, [req |-> r, ok |-> ok, snap |-> snap])]
               ELSE replies

(* Phone d has found room in the squad of m and will write its player.       *)
Joining(d, m) ==
    \/ \E i \in 1..Len(requests[d]) :
          requests[d][i].kind = "join" /\ requests[d][i].match = m
    \/ \E i \in 1..Len(replies[d]) :
          LET a == replies[d][i] IN
          /\ a.req.kind = "roster" /\ a.req.match = m /\ a.ok
          /\ Cardinality(a.snap[m].players) # Capacity

serverUnchanged == <<minted, played, app, screen, vm, form, taps, overlapped,
                     slipped>>

ServeRead(d) ==
    LET r == Head(requests[d]) IN
    /\ requests[d] # <<>>
    /\ r.kind \in ReadKinds
    /\ requests' = [requests EXCEPT ![d] = Tail(@)]
    /\ Answer(d, r, TRUE, Snapshot(db, r))
    /\ raced' = IF r.kind = "roster" /\ \E e \in Devices \ {d} : Joining(e, r.match)
                THEN raced \cup {r.match} ELSE raced
    /\ UNCHANGED <<db, faults, deleted, serverUnchanged>>

(* The head of d's queue is a write, and it takes effect.                    *)
Commit(d) ==
    LET r == Head(requests[d]) IN
    /\ requests[d] # <<>>
    /\ r.kind \in WriteKinds
    /\ db' = Applied(db, r)
    /\ deleted' = IF r.kind = "delete" THEN deleted \cup {r.match} ELSE deleted
    /\ UNCHANGED <<raced, serverUnchanged>>

ServeWrite(d) ==
    /\ Commit(d)
    /\ requests' = [requests EXCEPT ![d] = Tail(@)]
    /\ Answer(d, Head(requests[d]), TRUE, EmptyStore)
    /\ UNCHANGED faults

(* A queue without its i-th element, and with the i-th and the next exchanged. *)
Without(q, i) == SubSeq(q, 1, i - 1) \o SubSeq(q, i + 1, Len(q))

Swapped(q, i) == [q EXCEPT ![i] = q[i + 1], ![i + 1] = q[i]]

Fault(f) == f \in Faults /\ faults < MaxFaults /\ faults' = faults + 1

(* A read that finds no connection fails after a delay, whatever is still    *)
(* waiting before it.                                                       *)
FailRead(d) ==
    /\ Fault("fail")
    /\ \E i \in 1..Len(requests[d]) :
          /\ requests[d][i].kind \in ReadKinds
          /\ requests' = [requests EXCEPT ![d] = Without(@, i)]
          /\ Answer(d, requests[d][i], FALSE, EmptyStore)
    /\ UNCHANGED <<db, deleted, raced, serverUnchanged>>

(* The server refuses a write.                                              *)
FailWrite(d) ==
    /\ Fault("fail")
    /\ requests[d] # <<>>
    /\ Head(requests[d]).kind \in WriteKinds
    /\ requests' = [requests EXCEPT ![d] = Tail(@)]
    /\ Answer(d, Head(requests[d]), FALSE, EmptyStore)
    /\ UNCHANGED <<db, deleted, raced, serverUnchanged>>

(* A read that was sent before the connection broke is not sent again.       *)
LoseRead(d) ==
    /\ Fault("lose")
    /\ \E i \in 1..Len(requests[d]) :
          /\ requests[d][i].kind \in ReadKinds
          /\ requests' = [requests EXCEPT ![d] = Without(@, i)]
    /\ UNCHANGED <<db, replies, deleted, raced, serverUnchanged>>

(* A new connection sends the writes that wait before the reads that wait:    *)
(* a write overtakes the read before it.                                     *)
Overtake(d) ==
    /\ Fault("reorder")
    /\ \E i \in 1..(Len(requests[d]) - 1) :
          /\ requests[d][i].kind \in ReadKinds
          /\ requests[d][i + 1].kind \in WriteKinds
          /\ requests' = [requests EXCEPT ![d] = Swapped(@, i)]
    /\ UNCHANGED <<db, replies, deleted, raced, serverUnchanged>>

(* A write whose acknowledgement is lost with the connection stays           *)
(* outstanding and is sent again.                                           *)
Resend(d) == Fault("resend") /\ Commit(d) /\ UNCHANGED <<requests, replies>>

(* The app is killed.                                                       *)
Quit(d) == /\ Fault("quit")
           /\ app[d] = "on"
           /\ Stops(d, "off")
           /\ UNCHANGED <<db, minted, played, taps, histVars>>

(* The finish time of a match passes.                                       *)
MatchEnds(m) ==
    /\ m \in Ending \ played
    /\ played' = played \cup {m}
    /\ UNCHANGED <<db, minted, app, screen, vm, form, requests, replies, taps,
                   faults, histVars>>

-----------------------------------------------------------------------------
Init == /\ db = [m \in Matches |->
                   IF m \in Existing THEN CreatedNode ELSE EmptyNode]
        /\ minted = Existing
        /\ played = {}
        /\ app = [d \in Devices |-> "off"]
        /\ screen = [d \in Devices |-> "list"]
        /\ vm = [d \in Devices |-> NewViewModel]
        /\ form = [d \in Devices |-> [visit |-> 0, isLoad |-> FALSE,
                                      showAlert |-> FALSE]]
        /\ requests = [d \in Devices |-> <<>>]
        /\ replies = [d \in Devices |-> <<>>]
        /\ taps = [d \in Devices |-> 0]
        /\ faults = 0
        /\ deleted = {} /\ raced = {} /\ overlapped = {} /\ slipped = {}

User(d) ==
    \/ Launch(d) \/ Refresh(d) \/ OpenDetail(d) \/ Reappear(d) \/ Back(d)
    \/ DismissAlert(d) \/ joinMatches(d) \/ leaveMatches(d) \/ deleteMatches(d)
    \/ setPlayerPositionWithMatch(d) \/ deletePlayerPositionWithMatch(d)
    \/ setIsPlanningCompleteForMatch(d) \/ addComment(d)
    \/ OpenCreate(d) \/ createMatch(d)

Serve(d) == ServeRead(d) \/ ServeWrite(d)

Failure(d) == \/ FailRead(d) \/ FailWrite(d) \/ LoseRead(d) \/ Overtake(d)
              \/ Resend(d) \/ Quit(d)

Next == \/ \E d \in Devices : User(d) \/ Callback(d) \/ Serve(d) \/ Failure(d)
        \/ \E m \in Matches : MatchEnds(m)

Spec == Init /\ [][Next]_vars

-----------------------------------------------------------------------------
(* Every variable has its type; a request that is under way has a path       *)
(* without empty components.                                                 *)
TypeOK ==
    /\ db \in Store
    /\ minted \subseteq Matches /\ played \subseteq Matches
    /\ app \in [Devices -> {"off", "on", "crashed"}]
    /\ screen \in [Devices -> Matches \cup {"list", "create"}]
    /\ vm \in [Devices -> ViewModel]
    /\ form \in [Devices -> Form]
    /\ requests \in [Devices -> Seq(Request)]
    /\ replies \in [Devices -> Seq(Reply)]
    /\ taps \in [Devices -> Nat] /\ faults \in Nat
    /\ deleted \subseteq Matches /\ raced \subseteq Matches
    /\ overlapped \subseteq Devices /\ slipped \subseteq Devices

(* joinMatches reads the squad and writes the player in two steps. Unless     *)
(* some phone read the squad of m while another one, having found room, had   *)
(* yet to write, the squad of m never exceeds its capacity, whatever          *)
(* leaves, deletions, resent writes, failures and restarts happen between.    *)
CapacityUnlessRaced ==
    \A m \in Matches \ raced : Cardinality(db[m].players) <= Capacity

(* A phone only ever writes its own user into a squad.                        *)
JoinsOwnUser ==
    \A d \in Devices : \A i \in 1..Len(requests[d]) :
        requests[d][i].kind = "join" => requests[d][i].user = Owner[d]

(* At most one phone is joining the match, and its player fits.               *)
PromiseFits(m) ==
    /\ Cardinality(db[m].players) <= Capacity
    /\ \A d \in Devices :
          Joining(d, m) => Cardinality(db[m].players \cup {Owner[d]}) <= Capacity
    /\ \A d, e \in Devices : Joining(d, m) /\ Joining(e, m) => d = e

(* Why the squad keeps its capacity: a phone that has found room in joinMatches *)
(* and has not written yet holds a promise of one more player, and in a match  *)
(* that was not raced there is at most one such promise and it still fits,     *)
(* whatever deletions, resent writes and restarts happen before it is kept.    *)
SquadInv == JoinsOwnUser /\ \A m \in Matches \ raced : PromiseFits(m)

(* getAllMatchs empties the list when it starts and appends when it is        *)
(* answered. The list screen shows a match twice only when its newest load    *)
(* began before an older one was answered.                                   *)
OneCopyUnlessOverlapped ==
    \A d \in Devices \ overlapped : Len(vm[d].matchsModelList) <= 1

(* Every write goes to a match the phone has read, so a match without its      *)
(* own fields (an empty matchID, finishDate 0) is one that was deleted while   *)
(* a write to one of its children was still to come.                          *)
GhostOnlyAfterDelete ==
    \A m \in Matches : Exists(db[m]) /\ ~db[m].info => m \in deleted

(* With one admin phone, a player holds two places only when the menu of the    *)
(* bench was used before the reload of an earlier change was answered.         *)
OnePlaceUnlessSlipped ==
    slipped = {} =>
      \A m \in Matches : \A s, t \in Slots :
         db[m].Positions[s] = db[m].Positions[t] => s = t \/ db[m].Positions[s] = None

(* leaveMatches takes the user off the squad, looks for a place on the pitch   *)
(* and clears it. With one phone and no failure, once everything is answered   *)
(* nobody stands on the pitch who is not in the squad.                        *)
PitchWithinSquadWhenIdle ==
    slipped = {} /\ (\A d \in Devices : Idle(d)) =>
      \A m \in Matches, s \in Slots :
         db[m].Positions[s] \in db[m].players \cup {None}

(* With one phone and no failure, a detail screen with nothing under way       *)
(* shows the match it was opened for as the database has it.                  *)
DetailFreshWhenIdle ==
    \A d \in Devices \ slipped :
      Idle(d) /\ OnDetail(d) /\ Exists(db[screen[d]]) =>
        vm[d].selectedMatch = Parsed(screen[d], db[screen[d]])

(* With one phone and no failure, the cards of the newest load show the        *)
(* squads as the database has them once nothing is under way.                 *)
ListFreshWhenIdle ==
    \A d \in Devices : \A m \in Matches :
        LET list == vm[d].matchsModelList IN
        Idle(d) /\ list # <<>> =>
           LET card == list[Len(list)][m] IN
           card # None => /\ card.players = db[m].players
                          /\ card.matchID = Parsed(m, db[m]).matchID

(* A player has one place, unless the phone was tapped while it was busy,   *)
(* and nobody is on the pitch outside the squad once nothing is under way   *)
(* (setPlayerPositionWithMatch, leaveMatches).                              *)
PitchAgrees == OnePlaceUnlessSlipped /\ PitchWithinSquadWhenIdle

(* Once nothing is under way both screens show what the database holds, and *)
(* the list has every match once, unless its loads overlapped (getAllMatchs *)
(* and getMatchWithMatchID, after each operation).                          *)
ScreensAgree == DetailFreshWhenIdle /\ ListFreshWhenIdle /\ OneCopyUnlessOverlapped

(* The callback that ends a phone's last piece of work also ends its loading    *)
(* overlay. The two callbacks that do not: joinMatches finding the squad full,  *)
(* and getAllMatchs finding no match at all. (An abandoned creation is          *)
(* answered by nobody.)                                                        *)
SpinnerEndsWithWork ==
    [][\A d \in Devices :
         LET a == Head(replies[d]) IN
         /\ replies[d] # <<>> /\ Idle(d)' /\ app'[d] = "on"
         /\ a.req.kind # "create"
         /\ ~(a.req.kind = "roster" /\ a.ok
                /\ Cardinality(a.snap[a.req.match].players) = Capacity)
         /\ ~(a.req.kind = "list" /\ a.ok /\ a.snap = EmptyStore)
         => ~vm'[d].isLoad]_vars

-----------------------------------------------------------------------------
(* What the program says of itself and the model refutes.                      *)

(* "Bu maçın kadrosu tamamlandı !": a squad that has its fourteen players takes *)
(* no more.                                                                    *)
SquadNeverExceedsCapacity ==
    \A m \in Matches : Cardinality(db[m].players) <= Capacity

(* isActivePosition "menu butonlarından dolan pozisyonları çıkartır": the menu   *)
(* of a player on the bench leaves out the places that are filled.              *)
MenuOffersOnlyFreePlaces ==
    \A d \in Devices : \A s \in Slots :
       LET model == vm[d].selectedMatch IN
       /\ app[d] = "on" /\ isAdmin(d) /\ OnDetail(d) /\ Uncovered(d)
       /\ model.matchID # None /\ vm[d].unselectedPlayer # {}
       /\ ~isActivePosition(model, s)
       => db[model.matchID].Positions[s] = None

(* "Must be a non-empty string": child() is never given an empty path.          *)
NoEmptyChild == \A d \in Devices : app[d] # "crashed"

=============================================================================
