---------------------------- MODULE MCMatchBoard ----------------------------
(* Small instances of MatchBoard for TLC.                                   *)
EXTENDS MatchBoard, TLC

CONSTANTS p1, p2, ali, veli, m1, m2, s1, s2

(* One phone, whose user is the admin.                                      *)
OwnerSolo == p1 :> ali
BudgetSolo == p1 :> 5

(* Two phones: an admin's and a player's.                                   *)
OwnerDuo == p1 :> ali @@ p2 :> veli
BudgetDuo == p1 :> 2 @@ p2 :> 2

=============================================================================
