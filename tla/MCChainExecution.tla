-------------------------- MODULE MCChainExecution --------------------------
(* Instances of ChainExecution for TLC.                                    *)
EXTENDS ChainExecution

CONSTANT SetCounts   \* how many parameter sets a local task may have

MCTasks ==
    {t \in [kind : {"local", "outside"}, ignoreError : BOOLEAN, runAs : BOOLEAN,
            sets : SetCounts \cup {0}] :
        IF t.kind = "local" THEN t.sets \in SetCounts ELSE t.sets = 0 /\ ~t.runAs}
=============================================================================
