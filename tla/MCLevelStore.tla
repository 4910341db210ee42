---------------------------- MODULE MCLevelStore ----------------------------
(* A small instance of LevelStore for TLC: one table with two keys; then    *)
(* the first is written again and the second deleted.                       *)
EXTENDS LevelStore

OneTable == <<{[key |-> 1, seq |-> 1, del |-> FALSE],
               [key |-> 2, seq |-> 2, del |-> FALSE]}>>

PutFirstDeleteSecond == {<<[key |-> 1, del |-> FALSE]>>,
                         <<[key |-> 2, del |-> TRUE]>>}

=============================================================================
