---------------------------- MODULE MCLazyCaches ----------------------------
(* Instances of LazyCaches for TLC: two threads that look up two classes,  *)
(* of which GuzzContext knows one, in two maps; three threads that call    *)
(* getDbConfig; and three that call getInstance.                           *)
EXTENDS LazyCaches

CONSTANTS t1, t2, t3, k1, k2

ThreeThreads == {t1, t2, t3}
TwoKeys == {k1, k2}
OneKnown == {k1}
Tables == {"table"}
LookUps == [t \in ThreeThreads |-> IF t = t3 THEN {} ELSE {"lookup"}]
Configs == [t \in ThreeThreads |-> {"getDbConfig"}]
Filters == [t \in ThreeThreads |-> {"getInstance"}]
OneOfThem == {LookUps, Configs, Filters}
=============================================================================
