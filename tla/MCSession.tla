------------------------------ MODULE MCSession ------------------------------
(* Small instances of Session for TLC.                                       *)
EXTENDS Session

CONSTANTS ann, bob, six, sixer, long, burak, abc

(* six and sixer have the six characters the forms ask for, long has eight,   *)
(* abc has the three no name may have.                                        *)
MCLength == [t \in Texts |-> CASE t \in {six, sixer} -> 6
                               [] t = long           -> 8
                               [] t = burak          -> 5
                               [] t = abc            -> 3
                               [] OTHER              -> 0]

=============================================================================
