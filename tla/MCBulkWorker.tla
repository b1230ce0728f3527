---------------------------- MODULE MCBulkWorker ----------------------------
(* Instances of BulkWorker for TLC. *)
EXTENDS BulkWorker, TLC

CONSTANTS j1, j2, w1, w2

OneJob     == {j1}
TwoJobs    == {j1, j2}
OneWorker  == {w1}
TwoWorkers == {w1, w2}

InOrder    == [j \in Jobs |-> IF j = j1 THEN 0 ELSE 1]
SameSecond == [j \in Jobs |-> 0]
=============================================================================
