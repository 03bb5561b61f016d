---------------------------- MODULE MCTaskQueue -----------------------------
(* Instances of TaskQueue for TLC: Worker and Worker2 on the queue of      *)
(* NewTask, and Consumer, run twice, on that of DelayQueue.                *)
EXTENDS TaskQueue, TLC

CONSTANTS w1, w2

TwoWorkers == {w1, w2}

Lesson2 == [tasks |-> 2, delayed |-> FALSE, autoAck |-> FALSE,
            prefetch |-> w1 :> 3 @@ w2 :> 1]
DelayQueue == [tasks |-> 2, delayed |-> TRUE, autoAck |-> TRUE,
               prefetch |-> w1 :> 1 @@ w2 :> 1]
BothPrograms == {Lesson2, DelayQueue}
=============================================================================
