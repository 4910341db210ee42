---------------------------- MODULE DurableStore ----------------------------
(***************************************************************************)
(* What LevelDB promises of crashes (include/leveldb/options.h): a write   *)
(* with sync survives everything, any other write survives a crash of the  *)
(* process; a crash of the machine may lose writes that nothing has made   *)
(* durable yet. Opening the database again changes nothing.                *)
(***************************************************************************)
EXTENDS FiniteSets

CONSTANT Writes

VARIABLES
    contents,   \* the writes that a reader sees, or will see after the next Open
    durable,    \* those that a crash of the machine cannot take away
    promised,   \* writes with sync that were answered
    doubtful    \* writes that were reported as failed and may still show up

storeVars == <<contents, durable, promised, doubtful>>

Init == contents = {} /\ durable = {} /\ promised = {} /\ doubtful = {}

Put(w) ==
    /\ contents' = contents \cup {w}
    /\ UNCHANGED <<durable, promised, doubtful>>

(* A sync may make earlier writes durable with its own.                     *)
PutSync(w) ==
    /\ contents' = contents \cup {w}
    /\ durable' \in {durable \cup {w} \cup S : S \in SUBSET contents}
    /\ promised' = promised \cup {w}
    /\ UNCHANGED doubtful

(* A write that could not be synced: nobody sees it, but its record is in   *)
(* the log.                                                                 *)
PutFails(w) ==
    /\ doubtful' = doubtful \cup {w}
    /\ UNCHANGED <<contents, durable, promised>>

(* A flush makes more of the contents durable.                              *)
Harden ==
    /\ durable' \in {durable \cup S : S \in SUBSET contents}
    /\ UNCHANGED <<contents, promised, doubtful>>

ProcessCrash ==
    /\ contents' = contents \cup doubtful
    /\ doubtful' = {}
    /\ UNCHANGED <<durable, promised>>

MachineCrash ==
    /\ contents' \in {durable \cup S : S \in SUBSET (contents \cup doubtful)}
    /\ durable' = contents' /\ doubtful' = {}
    /\ UNCHANGED promised

Next ==
    \/ \E w \in Writes \ (contents \cup doubtful) : Put(w) \/ PutSync(w) \/ PutFails(w)
    \/ Harden \/ ProcessCrash \/ MachineCrash

Spec == Init /\ [][Next]_storeVars
=============================================================================
