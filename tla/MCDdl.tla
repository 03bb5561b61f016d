------------------------------- MODULE MCDdl -------------------------------
(* Instances of Ddl for TLC: overlapping rounds of a small listener, and   *)
(* one round of a larger pool.                                             *)
EXTENDS Ddl

CONSTANTS e1, e2

TwoRounds == {e1, e2}
LoopPairOrTrio == {0, 2, 3}

OneRound == {e1}
LoopOrPair == {0, 2}

\* Three threads, or three classes, in one round only; and three classes not for two threads.
SmallInit == Init /\ (classCount = 3 => threads # 2)

SmallNext ==
    \E ev \in Events :
        \/ /\ ev = e2 => threads < 3 /\ classCount < 3
           /\ \E hasParent \in BOOLEAN : OnApplicationEvent(ev, hasParent)
        \/ HandlerStep(ev)
        \/ \E t \in Workers : WorkerStep(ev, t)

SmallFairSpec == SmallInit /\ [][SmallNext]_vars /\ Fairness
=============================================================================
