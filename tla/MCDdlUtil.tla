----------------------------- MODULE MCDdlUtil -----------------------------
(* Instances of DdlUtil for TLC: two threads on one table, whatever state  *)
(* an earlier version or an interrupted process left the table in.         *)
EXTENDS DdlUtil

CONSTANTS c1, c2, user, id, name

TwoCallers == {c1, c2}
OneEntity == {user}
TwoColumns == {id, name}

\* An entity with its key and one more column.
Plain(dialect) ==
    [dialect |-> dialect, columns |-> {id, name}, pk |-> id, pkProp |-> TRUE,
     indexed |-> {id, name}, untranslatable |-> {}]

MySqlMappings ==
    {Plain("mysql"), [Plain("mysql") EXCEPT !.untranslatable = {name}]}
OracleMappings == {Plain("oracle")}
AllMappings == MySqlMappings \cup OracleMappings \cup
    {[Plain("mysql") EXCEPT !.columns = {id}], [Plain("mysql") EXCEPT !.pkProp = FALSE]}
=============================================================================
