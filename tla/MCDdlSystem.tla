---------------------------- MODULE MCDdlSystem ----------------------------
(* An instance of DdlSystem for TLC: the loop, or a pair of pool threads,  *)
(* on two tables or twice on one.                                          *)
EXTENDS DdlSystem

CONSTANTS e1, user, order, id

OneRound == {e1}
LoopOrPair == {1, 2}

TwoTables == {user, order}
OneColumn == {id}

Keyed == [dialect |-> "mysql", columns |-> {id}, pk |-> id, pkProp |-> TRUE,
          indexed |-> {id}, untranslatable |-> {}]
KeyedOnly == {Keyed}

\* Of two tables the second is absent at first, as is a table that no class is mapped to.
SmallInit ==
    LET listed == {classes[p] : p \in 0 .. classCount - 1} IN
    /\ SystemInit
    /\ \A p \in Positions : p >= classCount => classes[p] = user
    /\ \A e \in Entities \ listed : table[e] = Util!NoTable
    /\ Cardinality(listed) = 2 => table[classes[1]] = Util!NoTable

SmallFairSpec == SmallInit /\ [][SystemNext]_systemVars /\ SystemFairness
=============================================================================
