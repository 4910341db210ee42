------------------------------- MODULE Players ------------------------------
(***************************************************************************)
(* The player list: PlayersViewModel and PlayersView of one phone, with    *)
(* the profiles under Users, which other phones write at any time.         *)
(*                                                                         *)
(* The refresh button is in the navigation bar, over the loading view and  *)
(* the alert, so a load can be started while another one is under way.     *)
(***************************************************************************)
EXTENDS Integers, FiniteSets, SequencesExt

CONSTANTS
    Users,          \* accounts
    MaxLoads,       \* bound: loads in a behaviour
    MaxWrites       \* bound: profiles written by others

(* There are finitely many accounts, and none has the identity that a       *)
(* profile without uuid is read with.                                       *)
ASSUME PlayersConstants ==
    /\ IsFiniteSet(Users) /\ "" \notin Users
    /\ MaxLoads \in Nat /\ MaxWrites \in Nat

VARIABLES
    profiles,   \* Users in the database: none, whole, or bare (without uuid)
    view,       \* isLoad, showAlert, userModelList and didAppear
    calls,      \* loads under way, in the order they were sent
    ghosts,     \* overlapped: two loads were under way at once; lost: a load
                \* was never answered; empty: an answer had no profile;
                \* last: the users of the last answer
    loads, writes

vars == <<profiles, view, calls, ghosts, loads, writes>>

Init ==
    /\ profiles \in [Users -> {"none", "whole", "bare"}]
    /\ view = [isLoad |-> FALSE, showAlert |-> FALSE, userModelList |-> <<>>, didAppear |-> FALSE]
    /\ calls = <<>>
    /\ ghosts = [overlapped |-> FALSE, lost |-> FALSE, empty |-> FALSE, last |-> {}]
    /\ loads = 0 /\ writes = 0

(* What the view model is after getAllPlayers was called.                   *)
Loading(v) == [v EXCEPT !.isLoad = TRUE, !.userModelList = <<>>]

(* getAllPlayers, up to the read.                                           *)
getAllPlayers(v) ==
    /\ loads < MaxLoads /\ loads' = loads + 1
    /\ view' = Loading(v)
    /\ calls' = Append(calls, [served |-> FALSE, children |-> <<>>])
    /\ ghosts' = [ghosts EXCEPT !.overlapped = @ \/ calls # <<>>]

(* PlayersView.onAppear: the first time, and only if nothing is listed.     *)
Appear ==
    /\ ~view.didAppear
    /\ getAllPlayers([view EXCEPT !.didAppear = TRUE])
    /\ UNCHANGED <<profiles, writes>>

Refresh ==
    /\ view.didAppear
    /\ getAllPlayers(view)
    /\ UNCHANGED <<profiles, writes>>

DismissAlert ==
    /\ view.showAlert
    /\ view' = [view EXCEPT !.showAlert = FALSE]
    /\ UNCHANGED <<profiles, calls, ghosts, loads, writes>>

(* Somebody registers, or saves a form over no profile.                     *)
WriteProfile ==
    /\ writes < MaxWrites /\ writes' = writes + 1
    /\ \E u \in Users, p \in {"whole", "bare"} :
        profiles[u] = "none" /\ profiles' = [profiles EXCEPT ![u] = p]
    /\ UNCHANGED <<view, calls, ghosts, loads>>

(* The database answers the reads of one phone in order, with the children  *)
(* in some order.                                                           *)
Serve(i) ==
    /\ ~calls[i].served /\ \A j \in 1..(i - 1) : calls[j].served
    /\ \E s \in SetToSeqs({u \in Users : profiles[u] # "none"}) :
        calls' = [calls EXCEPT ![i] = [served |-> TRUE, children |-> s]]
    /\ UNCHANGED <<profiles, view, ghosts, loads, writes>>

(* The callback: each child is appended and ends the loading.               *)
(* Mutant: each child takes the place of the one before it.                 *)
ListedLast(v, children) ==
    IF children = <<>> THEN v ELSE [v EXCEPT !.userModelList = <<Last(children)>>, !.isLoad = FALSE]

Listed(v, children) ==
    [v EXCEPT !.userModelList = @ \o children,
              !.isLoad = IF children # <<>> THEN FALSE ELSE @]

OnPlayers ==
    /\ calls # <<>> /\ calls[1].served
    /\ view' = Listed(view, calls[1].children)
    /\ calls' = Tail(calls)
    /\ ghosts' = [ghosts EXCEPT !.last = ToSet(calls[1].children), !.empty = @ \/ calls[1].children = <<>>]
    /\ UNCHANGED <<profiles, loads, writes>>

(* A read without a connection fails after three seconds.                   *)
Refused(v) == [v EXCEPT !.isLoad = FALSE, !.userModelList = <<>>, !.showAlert = TRUE]

Fail(i) ==
    /\ ~calls[i].served
    /\ view' = Refused(view)
    /\ calls' = RemoveAt(calls, i)
    /\ ghosts' = [ghosts EXCEPT !.last = {}]
    /\ UNCHANGED <<profiles, loads, writes>>

(* The connection breaks with the read sent: nobody answers it.             *)
Lose(i) ==
    /\ ~calls[i].served
    /\ calls' = RemoveAt(calls, i)
    /\ ghosts' = [ghosts EXCEPT !.lost = TRUE]
    /\ UNCHANGED <<profiles, view, loads, writes>>

Next ==
    \/ Appear \/ Refresh \/ DismissAlert \/ WriteProfile \/ OnPlayers
    \/ \E i \in 1..Len(calls) : Serve(i) \/ Fail(i) \/ Lose(i)

Spec == Init /\ [][Next]_vars

-----------------------------------------------------------------------------
TypeOK ==
    /\ profiles \in [Users -> {"none", "whole", "bare"}]
    /\ view.isLoad \in BOOLEAN /\ view.showAlert \in BOOLEAN /\ view.didAppear \in BOOLEAN
    /\ ToSet(view.userModelList) \subseteq {u \in Users : profiles[u] # "none"}
    /\ Len(calls) <= loads /\ (view.didAppear <=> loads > 0)

(* What ForEach tells the cards apart by.                                   *)
uuid(u) == IF profiles[u] = "whole" THEN u ELSE ""

(* No two cards have the same identity, unless two loads were under way at  *)
(* once or two accounts have a profile without uuid.                        *)
CardsToldApart ==
    \A i, j \in 1..Len(view.userModelList) :
        LET a == view.userModelList[i]  b == view.userModelList[j]
        IN  i # j /\ uuid(a) = uuid(b) =>
                ghosts.overlapped \/ (a # b /\ profiles[a] = "bare" /\ profiles[b] = "bare")

(* When nothing is under way the list has just the players of the last      *)
(* answer, whatever answers, failures and refreshes came before, unless     *)
(* loads overlapped or a load was lost.                                     *)
ListIsLastAnswer ==
    calls = <<>> /\ ~ghosts.overlapped /\ ~ghosts.lost => ToSet(view.userModelList) = ghosts.last

(* The loading view stays only while a load is under way, or if a load was  *)
(* lost, or if the database had no profile at all.                          *)
SpinnerEndsWithWork ==
    view.isLoad /\ calls = <<>> => ghosts.lost \/ ghosts.empty

(* The list of players (PlayersViewModel, PlayersView): what it promises    *)
(* through answers, failures, lost reads and the changes of other phones.   *)
PlayersRight == TypeOK /\ CardsToldApart /\ ListIsLastAnswer /\ SpinnerEndsWithWork

=============================================================================
