---------------------------- MODULE MCScheduler ----------------------------
(* Instances of Scheduler for TLC.                                         *)
EXTENDS Scheduler, TLC

CONSTANTS x, n, i          \* an exclusive, a normal and an interval chain
CONSTANTS w1, w2, v1       \* two cron workers, one interval worker

MCOneInstance  == [c \in Chains |-> 1]
MCTwoInstances == [c \in Chains |-> 2]

\* Cron workers run the same code on the same channel.
MCSymmetry == Permutations(CronWorkers)
=============================================================================
