----------------------------- MODULE MatchStore -----------------------------
(***************************************************************************)
(* The "Matchs" tree of the Realtime Database and the two ways the app     *)
(* touches it: the writes it sends (setValue / removeValue on a path) and  *)
(* the MatchsModel it builds from a snapshot it reads back.                *)
(*                                                                         *)
(* A node of the tree is kept field by field, because the app writes it    *)
(* field by field: a write to one child of a match that has been removed   *)
(* brings the match back with that child alone.                            *)
(***************************************************************************)
EXTENDS Naturals, FiniteSets

CONSTANTS
    Users,      \* account ids (uuid)
    Matches,    \* match ids (the key and the matchID field, one UUID)
    Slots,      \* PlayerPosition: the places on the pitch
    None        \* nil, and the empty string a missing field is read as

ASSUME UsersFinite == IsFiniteSet(Users)
ASSUME NoneIsNew == None \notin Users \cup Matches \cup Slots

-----------------------------------------------------------------------------
(* One child of Matchs. info stands for the fields createMatch writes       *)
(* together (matchID, dates, area, message); planning for isPlanningComplete *)
(* with "unset" for a missing key. A comment is reduced to the match whose   *)
(* screen it was written on, which is all that tells two comments apart.     *)
Node == [info     : BOOLEAN,
         planning : {"unset", "no", "yes"},
         players  : SUBSET Users,
         Positions: [Slots -> Users \cup {None}],
         Comments : SUBSET Matches]

EmptyNode == [info      |-> FALSE,
              planning  |-> "unset",
              players   |-> {},
              Positions |-> [s \in Slots |-> None],
              Comments  |-> {}]

(* The database drops a node that has no value left below it.               *)
Exists(n) == n # EmptyNode

Store == [Matches -> Node]

EmptyStore == [m \in Matches |-> EmptyNode]

(* The parameters createMatch writes.                                       *)
CreatedNode == [EmptyNode EXCEPT !.info = TRUE, !.planning = "no"]

-----------------------------------------------------------------------------
(* MatchsModel: what init(dictionary:) makes of a node.                     *)
MatchsModel == [matchID            : Matches \cup {None},
                isPlanningComplete : BOOLEAN,
                players            : SUBSET Users,
                Position           : [Slots -> Users \cup {None}],
                comments           : SUBSET Matches]

(* A missing matchID is read as "", a missing isPlanningComplete as false.   *)
Parsed(m, n) == [matchID            |-> IF n.info THEN m ELSE None,
                 isPlanningComplete |-> n.planning = "yes",
                 players            |-> n.players,
                 Position           |-> n.Positions,
                 comments           |-> n.Comments]

(* MatchsModel(dictionary: [:]), the initial selectedMatch.                  *)
EmptyModel == Parsed(None, EmptyNode)

Card == MatchsModel \cup {None}

(* The cards one answer of getAllMatchs appends: one for each child.         *)
CardsOf(store) == [m \in Matches |->
                     IF Exists(store[m]) THEN Parsed(m, store[m]) ELSE None]

(* unselectedPlayer: the players without a place on the pitch.               *)
Unselected(model) ==
    {u \in model.players : \A s \in Slots : model.Position[s] # u}

(* isActivePosition and isUserInThisPosition: the place is taken.            *)
isActivePosition(model, s) == model.Position[s] # None

-----------------------------------------------------------------------------
(* Requests. kind names the call and the callback that takes its answer;    *)
(* the other fields are the path and the value it writes.                   *)
ReadKinds  == {"list", "roster", "area", "detail"}

WriteKinds == {"join", "leave", "areaRemove", "delete", "place", "vacate",
               "plan", "comment", "create"}

RawRequest == [kind : ReadKinds \cup WriteKinds,
               match: Matches \cup {None},
               slot : Slots \cup {None},
               user : Users \cup {None},
               plan : {"unset", "no", "yes"},
               about: Matches \cup {None},
               visit: Nat]

(* A request carries what its path and its value need: child("") has not     *)
(* been reached.                                                            *)
Request ==
    {r \in RawRequest :
        /\ r.kind # "list" => r.match \in Matches
        /\ r.kind \in {"join", "leave", "area", "place"} => r.user \in Users
        /\ r.kind \in {"place", "vacate", "areaRemove"} => r.slot \in Slots
        /\ r.kind = "comment" => r.about \in Matches}

Req(kind, m) == [kind |-> kind, match |-> m, slot |-> None, user |-> None,
                 plan |-> "unset", about |-> None, visit |-> 0]

(* Mutant: the planning flag is written over the match, not below it.         *)
RewrittenPlanOverMatch(n, r) ==
    CASE r.kind = "join"    -> [n EXCEPT !.players = @ \cup {r.user}]
      [] r.kind = "leave"   -> [n EXCEPT !.players = @ \ {r.user}]
      [] r.kind = "place"   -> [n EXCEPT !.Positions[r.slot] = r.user]
      [] r.kind \in {"vacate", "areaRemove"}
                            -> [n EXCEPT !.Positions[r.slot] = None]
      [] r.kind = "plan"    -> [EmptyNode EXCEPT !.planning = r.plan]
      [] r.kind = "comment" -> [n EXCEPT !.Comments = @ \cup {r.about}]
      [] r.kind = "create"  -> CreatedNode
      [] r.kind = "delete"  -> EmptyNode
      [] OTHER              -> n

(* The node a write leaves at its match.                                     *)
Rewritten(n, r) ==
    CASE r.kind = "join"    -> [n EXCEPT !.players = @ \cup {r.user}]
      [] r.kind = "leave"   -> [n EXCEPT !.players = @ \ {r.user}]
      [] r.kind = "place"   -> [n EXCEPT !.Positions[r.slot] = r.user]
      [] r.kind \in {"vacate", "areaRemove"}
                            -> [n EXCEPT !.Positions[r.slot] = None]
      [] r.kind = "plan"    -> [n EXCEPT !.planning = r.plan]
      [] r.kind = "comment" -> [n EXCEPT !.Comments = @ \cup {r.about}]
      [] r.kind = "create"  -> CreatedNode
      [] r.kind = "delete"  -> EmptyNode
      [] OTHER              -> n

Applied(store, r) ==
    [store EXCEPT ![r.match] = Rewritten(@, r)]

(* What a read returns: the children of its path and nothing else.           *)
Snapshot(store, r) ==
    [m \in Matches |->
        CASE r.kind = "list" -> store[m]
          [] r.kind \in {"area", "detail"} /\ m = r.match -> store[m]
          [] r.kind = "roster" /\ m = r.match
                -> [EmptyNode EXCEPT !.players = store[m].players]
          [] OTHER -> EmptyNode]

=============================================================================
