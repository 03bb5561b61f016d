--------------------------- MODULE DdlUtilProofs ---------------------------
(* Theorems about DdlUtil, for any threads, entities, mappings, tables     *)
(* found, pool size and bound on the faults.  A call writes only its own   *)
(* state and lets tables grow, so the invariant of a call is shown twice:  *)
(* under the steps of the others (OthersStep) and under its own.           *)
EXTENDS DdlUtil, FiniteSetTheorems, TLAPS

\* A call that takes a free connection holds one more.
LEMMA Takes ==
    ASSUME TypeOK, PoolInv, NEW c \in Callers, ~holding[c], GetConnection(c)
    PROVE  PoolInv' /\ free' \in 0 .. PoolSize /\ Lost' = Lost
<1> DEFINE n == Cardinality(Holders)
<1>1. Holders' = Holders \cup {c} /\ c \notin Holders
  BY DEF Holders, GetConnection, TypeOK
<1>2. IsFiniteSet(Holders') /\ Cardinality(Holders') = n + 1
  BY <1>1, FS_AddElement DEF PoolInv
<1>3. n \in Nat
  BY FS_CardinalityType DEF PoolInv
<1>4. PoolSize \in Nat /\ free \in 0 .. PoolSize /\ free > 0 /\ free' = free - 1
  BY DdlUtilAssumption DEF TypeOK, GetConnection
<1>5. free + n <= PoolSize
  BY DEF PoolInv
<1> QED
  BY <1>2, <1>3, <1>4, <1>5, SMT DEF PoolInv, Lost

\* A call that closes its connection gives back what it held.
LEMMA Gives ==
    ASSUME TypeOK, PoolInv, NEW c \in Callers, holding[c], CloseConnection(c)
    PROVE  PoolInv' /\ free' \in 0 .. PoolSize /\ Lost' = Lost
<1> DEFINE n == Cardinality(Holders)
<1>1. Holders' = Holders \ {c} /\ c \in Holders
  BY DEF Holders, CloseConnection, TypeOK
<1>2. IsFiniteSet(Holders') /\ Cardinality(Holders') = n - 1
  BY <1>1, FS_RemoveElement DEF PoolInv
<1>3. n \in Nat /\ Cardinality(Holders') \in Nat
  BY <1>2, FS_CardinalityType DEF PoolInv
<1>4. PoolSize \in Nat /\ free \in 0 .. PoolSize /\ free' = free + 1
  BY DdlUtilAssumption DEF TypeOK, CloseConnection
<1>5. free + n <= PoolSize
  BY DEF PoolInv
<1> QED
  BY <1>2, <1>3, <1>4, <1>5, SMT DEF PoolInv, Lost

\* A call that ends without closing its connection loses it.
LEMMA Loses ==
    ASSUME TypeOK, PoolInv, NEW c \in Callers, holding[c],
           holding' = [holding EXCEPT ![c] = FALSE], free' = free
    PROVE  PoolInv' /\ free' \in 0 .. PoolSize
<1> DEFINE n == Cardinality(Holders)
<1>1. Holders' = Holders \ {c} /\ c \in Holders
  BY DEF Holders, TypeOK
<1>2. IsFiniteSet(Holders') /\ Cardinality(Holders') = n - 1
  BY <1>1, FS_RemoveElement DEF PoolInv
<1>3. n \in Nat /\ Cardinality(Holders') \in Nat
  BY <1>2, FS_CardinalityType DEF PoolInv
<1>4. PoolSize \in Nat /\ free \in 0 .. PoolSize
  BY DdlUtilAssumption DEF TypeOK
<1>5. free + n <= PoolSize
  BY DEF PoolInv
<1> QED
  BY <1>2, <1>3, <1>4, <1>5, SMT DEF PoolInv

\* No other step changes what the pool holds and what the calls hold.
LEMMA Keeps ==
    ASSUME TypeOK, PoolInv, holding' = holding, free' = free
    PROVE  PoolInv' /\ free' \in 0 .. PoolSize /\ Lost' = Lost
BY DEF TypeOK, PoolInv, Holders, Lost

\* Every step of a call keeps the pool consistent, and unless it is the metadata that
\* throws no connection is lost.
LEMMA PoolStep ==
    ASSUME TypeOK, PoolInv, NEW c \in Callers, PhaseInv(c), CallStep(c)
    PROVE  /\ PoolInv' /\ free' \in 0 .. PoolSize
           /\ Lost' = Lost \/ MetadataThrows(c)
<1> DEFINE Goal == PoolInv' /\ free' \in 0 .. PoolSize /\ Lost' = Lost
<1>1. CASE ConnectForMetadata(c)
  <2>1. ~holding[c] /\ GetConnection(c)
    BY <1>1 DEF ConnectForMetadata, PhaseInv, Reading
  <2> QED
    BY <2>1, Takes
<1>2. CASE MetadataThrows(c)
  <2>1. holding[c] /\ holding' = [holding EXCEPT ![c] = FALSE] /\ free' = free
    BY <1>2 DEF MetadataThrows, PhaseInv
  <2> QED
    BY <1>2, <2>1, Loses
<1>3. CASE TableMissing(c) \/ InitIndexedColumns(c)
  <2>1. holding[c] /\ CloseConnection(c)
    BY <1>3 DEF TableMissing, InitIndexedColumns, PhaseInv, Reading
  <2> QED
    BY <2>1, Gives
<1>4. CASE ConnectForSql(c)
  BY <1>4, Takes DEF ConnectForSql
<1>5. CASE ExecuteStatement(c) \/ StatementFails(c)
  <2>1. holding[c] /\ CloseAfterLast(c)
    BY <1>5 DEF ExecuteStatement, StatementFails
  <2>2. CloseConnection(c) \/ UNCHANGED <<free, holding>>
    BY <2>1 DEF CloseAfterLast
  <2> QED
    BY <2>1, <2>2, Gives, Keeps
<1>6. CASE ConnectFails(c) \/ SqlWithoutConnection(c) \/ TableFound(c) \/ InitColumns(c)
           \/ InitPkColumns(c)
  <2>1. free' = free /\ holding' = holding
    BY <1>6 DEF ConnectFails, SqlWithoutConnection, NoConnection, TableFound, InitColumns,
         InitPkColumns
  <2> QED
    BY <2>1, Keeps
<1>7. CASE \/ CreateTable(c) \/ CreateTableThrows(c) \/ AddColumnThrows(c) \/ ColumnsDone(c)
           \/ AddPrimaryKey(c) \/ IndexThrows(c) \/ CheckEntityReturns(c)
           \/ \E column \in Names :
                 CreateIndex(c, column) \/ AddColumn(c, column) \/ AddIndex(c, column)
  <2>1. Aside
    BY <1>7 DEF CreateTable, CreateTableThrows, AddColumnThrows, ColumnsDone, AddPrimaryKey,
         IndexThrows, CheckEntityReturns, CreateIndex, AddColumn, AddIndex
  <2>2. free' = free /\ holding' = holding
    BY <2>1 DEF Aside
  <2> QED
    BY <2>2, Keeps
<1> QED
  BY <1>1, <1>2, <1>3, <1>4, <1>5, <1>6, <1>7 DEF CallStep


\* What a failing JDBC call writes.
LEMMA FaultTypes ==
    ASSUME TypeOK, NEW c \in Callers, Fault(c) \/ NoConnection(c)
    PROVE  faults' \in 0 .. MaxFaults /\ hurt' \in [Callers -> BOOLEAN] /\ hurt' = [hurt EXCEPT ![c] = TRUE]
<1>1. MaxFaults \in Nat /\ faults \in 0 .. MaxFaults /\ hurt \in [Callers -> BOOLEAN]
  BY DdlUtilAssumption DEF TypeOK
<1>2. hurt' = [hurt EXCEPT ![c] = TRUE] /\ (faults' = faults \/ (faults < MaxFaults /\ faults' = faults + 1))
  BY DEF Fault, NoConnection
<1>3. faults' \in 0 .. MaxFaults
  BY <1>1, <1>2, SMT
<1> QED
  BY <1>1, <1>2, <1>3

\* The SQL of the translator is made of statements, and so is what is left of it.
LEMMA SqlTypes ==
    ASSUME TypeOK, NEW c \in Callers
    PROVE  /\ \A x \in Names : /\ GetAddColumnSql(x) \in Seq(Statements)
                               /\ GetAddIndexSql(x) \in Seq(Statements)
           /\ GetCreateTableSql(mapping[entity[c]]) \in Seq(Statements)
           /\ GetAddPrimaryKeySql(mapping[entity[c]]) \in Seq(Statements)
           /\ <<>> \in Seq(Statements)
           /\ Executing(c) => Tail(stmts[c]) \in Seq(Statements)
<1> DEFINE m == mapping[entity[c]]
<1>1. m.pk \in Names
  BY DEF TypeOK, Mapping
<1>2. \A x \in Names : /\ Stmt("column", x) \in Statements /\ Stmt("index", x) \in Statements
                       /\ Stmt("create", x) \in Statements /\ Stmt("primaryKey", x) \in Statements
                       /\ Stmt("disable", x) \in Statements /\ Stmt("enable", x) \in Statements
  BY DEF Stmt, Statements
<1>3. stmts[c] \in Seq(Statements)
  BY DEF TypeOK
<1>4. Executing(c) => Tail(stmts[c]) \in Seq(Statements)
  BY <1>3 DEF Executing
<1>5. \A x \in Names : /\ GetAddColumnSql(x) \in Seq(Statements)
                       /\ GetAddIndexSql(x) \in Seq(Statements)
  BY <1>2 DEF GetAddColumnSql, GetAddIndexSql
<1>6. GetCreateTableSql(m) \in Seq(Statements)
  BY <1>1, <1>2 DEF GetCreateTableSql
<1>7. /\ <<Stmt("disable", m.pk)>> \in Seq(Statements) /\ <<Stmt("enable", m.pk)>> \in Seq(Statements)
      /\ <<Stmt("primaryKey", m.pk)>> \in Seq(Statements) /\ GetAddIndexSql(m.pk) \in Seq(Statements)
  BY <1>1, <1>2, <1>5
<1>8. <<Stmt("disable", m.pk)>> \o GetAddIndexSql(m.pk) \o <<Stmt("enable", m.pk)>> \in Seq(Statements)
  BY <1>7
<1>9. GetAddPrimaryKeySql(m) \in Seq(Statements)
  BY <1>7, <1>8 DEF GetAddPrimaryKeySql
<1> QED
  BY <1>4, <1>5, <1>6, <1>9

\* A statement executed makes a table of a table.
LEMMA EffectTypes ==
    ASSUME NEW s \in Statements, NEW m \in Mapping, NEW t \in Table
    PROVE  Executed(s, m, t) \in Table
BY DEF Executed, Applies, Effect, Statements, Mapping, Table

\* What executeSql is given is a sequence of statements.
LEMMA SubmitTypes ==
    ASSUME TypeOK, NEW c \in Callers, NEW sql \in Seq(Statements), Submit(c, sql)
    PROVE  stmts' \in [Callers -> Seq(Statements)]
BY DEF TypeOK, Submit

\* Every step of a call keeps the types.
LEMMA TypeStep ==
    ASSUME TypeOK, free' \in 0 .. PoolSize, NEW c \in Callers, CallStep(c)
    PROVE  TypeOK'
<1> USE DEF TypeOK, PCs, Ended, Reading, Table, NoTable, vars, db, began, call, Goto, EndCall,
     Aside, InPhase, GetConnection, CloseConnection, CloseAfterLast
<1>1. CASE ConnectForMetadata(c)
  BY <1>1 DEF ConnectForMetadata
<1>2. CASE ConnectFails(c)
  <2>1. faults' \in 0 .. MaxFaults /\ hurt' \in [Callers -> BOOLEAN] /\ UNCHANGED <<free, holding>>
    BY <1>2, FaultTypes DEF ConnectFails, NoConnection
  <2> QED
    BY <1>2, <2>1 DEF ConnectFails
<1>3. CASE MetadataThrows(c)
  BY <1>3, FaultTypes DEF MetadataThrows
<1>4. CASE TableMissing(c)
  BY <1>4 DEF TableMissing
<1>5. CASE TableFound(c)
  <2>1. meta[c] \in Table /\ meta' = [meta EXCEPT ![c] = [meta[c] EXCEPT !.exists = TRUE]]
    BY <1>5 DEF TableFound
  <2>2. meta' \in [Callers -> Table]
    BY <2>1
  <2> QED
    BY <1>5, <2>2 DEF TableFound
<1>6. CASE InitColumns(c)
  <2>1. /\ meta[c] \in Table /\ table[entity[c]] \in Table
        /\ meta' = [meta EXCEPT ![c] = [meta[c] EXCEPT !.columns = table[entity[c]].columns]]
    BY <1>6 DEF InitColumns
  <2>2. meta' \in [Callers -> Table]
    BY <2>1
  <2> QED
    BY <1>6, <2>2 DEF InitColumns
<1>7. CASE InitPkColumns(c)
  <2>1. /\ meta[c] \in Table /\ table[entity[c]].pk \in BOOLEAN
        /\ \/ meta' = [meta EXCEPT ![c] = [meta[c] EXCEPT !.pk = table[entity[c]].pk]]
           \/ meta' = meta
    BY <1>7 DEF InitPkColumns
  <2>2. meta' \in [Callers -> Table]
    <3>1. [meta[c] EXCEPT !.pk = table[entity[c]].pk] \in Table
      BY <2>1
    <3> QED
      BY <2>1, <3>1
  <2>3. faults' \in 0 .. MaxFaults /\ hurt' \in [Callers -> BOOLEAN]
    BY <1>7, FaultTypes DEF InitPkColumns
  <2> QED
    BY <1>7, <2>2, <2>3 DEF InitPkColumns
<1>8. CASE InitIndexedColumns(c)
  <2> DEFINE e == entity[c]
  <2>1. /\ meta[c] \in Table /\ table[e] \in Table /\ mapping[e] \in Mapping
        /\ meta' = [meta EXCEPT ![c] = [meta[c] EXCEPT !.indexed = IndexInfo(mapping[e], table[e])]]
    BY <1>8 DEF InitIndexedColumns
  <2>2. IndexInfo(mapping[e], table[e]) \in SUBSET Names /\ mapping[e].columns \in SUBSET Names
    BY <2>1 DEF IndexInfo, Mapping
  <2>a. [meta[c] EXCEPT !.indexed = IndexInfo(mapping[e], table[e])] \in Table
    BY <2>1, <2>2
  <2>b. todo' = [todo EXCEPT ![c] = mapping[e].columns \ meta[c].columns]
    BY <1>8 DEF InitIndexedColumns
  <2>3. meta' \in [Callers -> Table] /\ todo' \in [Callers -> SUBSET Names]
    BY <2>1, <2>2, <2>a, <2>b
  <2>4. free' \in 0 .. PoolSize /\ holding' \in [Callers -> BOOLEAN] /\ pc' \in [Callers -> PCs]
    BY <1>8 DEF InitIndexedColumns
  <2> QED
    BY <1>8, <2>3, <2>4 DEF InitIndexedColumns
<1>9. CASE ConnectForSql(c)
  BY <1>9 DEF ConnectForSql
<1>10. CASE SqlWithoutConnection(c)
  <2>1. faults' \in 0 .. MaxFaults /\ hurt' \in [Callers -> BOOLEAN] /\ UNCHANGED <<free, holding>>
    BY <1>10, FaultTypes DEF SqlWithoutConnection, NoConnection
  <2>2. stmts' \in [Callers -> Seq(Statements)]
    BY <1>10, SqlTypes, SubmitTypes DEF SqlWithoutConnection
  <2> QED
    BY <1>10, <2>1, <2>2 DEF SqlWithoutConnection
<1>11. CASE ExecuteStatement(c)
  <2> DEFINE e == entity[c]
  <2>1. Tail(stmts[c]) \in Seq(Statements) /\ stmts[c] \in Seq(Statements)
    BY <1>11, SqlTypes DEF ExecuteStatement
  <2>2. Head(stmts[c]) \in Statements
    BY <1>11, <2>1 DEF ExecuteStatement
  <2>3. Executed(Head(stmts[c]), mapping[e], table[e]) \in Table
    BY <2>2, EffectTypes
  <2>4. stmts' \in [Callers -> Seq(Statements)]
    BY <1>11, <2>1, SubmitTypes DEF ExecuteStatement
  <2>5. table' \in [Entities -> Table] /\ holding' \in [Callers -> BOOLEAN]
    BY <1>11, <2>3 DEF ExecuteStatement
  <2> QED
    BY <1>11, <2>4, <2>5 DEF ExecuteStatement
<1>12. CASE StatementFails(c)
  <2>1. Tail(stmts[c]) \in Seq(Statements)
    BY <1>12, SqlTypes DEF StatementFails
  <2>2. stmts' \in [Callers -> Seq(Statements)]
    BY <1>12, <2>1, SubmitTypes DEF StatementFails
  <2> QED
    BY <1>12, <2>2, FaultTypes DEF StatementFails
<1>13. CASE CreateTable(c)
  <2>1. stmts' \in [Callers -> Seq(Statements)]
    BY <1>13, SqlTypes, SubmitTypes DEF CreateTable
  <2>2. mapping[entity[c]].indexed \in SUBSET Names
    BY DEF Mapping
  <2> QED
    BY <1>13, <2>1, <2>2 DEF CreateTable
<1>14. CASE CreateTableThrows(c)
  BY <1>14 DEF CreateTableThrows
<1>15. CASE AddColumnThrows(c)
  BY <1>15 DEF AddColumnThrows
<1>16. CASE ColumnsDone(c)
  BY <1>16 DEF ColumnsDone
<1>17. CASE AddPrimaryKey(c)
  <2>1. stmts' \in [Callers -> Seq(Statements)]
    BY <1>17, SqlTypes, SubmitTypes DEF AddPrimaryKey
  <2>2. mapping[entity[c]].indexed \in SUBSET Names
    BY DEF Mapping
  <2> QED
    BY <1>17, <2>1, <2>2 DEF AddPrimaryKey
<1>18. CASE IndexThrows(c)
  BY <1>18 DEF IndexThrows
<1>19. CASE CheckEntityReturns(c)
  BY <1>19 DEF CheckEntityReturns
<1>20. ASSUME NEW column \in Names, CreateIndex(c, column) PROVE TypeOK'
  <2>1. stmts' \in [Callers -> Seq(Statements)]
    BY <1>20, SqlTypes, SubmitTypes DEF CreateIndex
  <2> QED
    BY <1>20, <2>1 DEF CreateIndex
<1>21. ASSUME NEW column \in Names, AddColumn(c, column) PROVE TypeOK'
  <2>1. stmts' \in [Callers -> Seq(Statements)]
    BY <1>21, SqlTypes, SubmitTypes DEF AddColumn
  <2> QED
    BY <1>21, <2>1 DEF AddColumn
<1>22. ASSUME NEW column \in Names, AddIndex(c, column) PROVE TypeOK'
  <2>1. stmts' \in [Callers -> Seq(Statements)]
    BY <1>22, SqlTypes, SubmitTypes DEF AddIndex
  <2> QED
    BY <1>22, <2>1 DEF AddIndex
<1> QED
  BY <1>1, <1>2, <1>3, <1>4, <1>5, <1>6, <1>7, <1>8, <1>9, <1>10, <1>11, <1>12, <1>13, <1>14,
       <1>15, <1>16, <1>17, <1>18, <1>19, <1>20, <1>21, <1>22 DEF CallStep
-----------------------------------------------------------------------------
(* A step of one call, seen by the others: their own state is the same,    *)
(* and the tables only grow.                                               *)

Same(d) ==
    /\ pc'[d] = pc[d] /\ entity'[d] = entity[d] /\ meta'[d] = meta[d] /\ todo'[d] = todo[d]
    /\ stmts'[d] = stmts[d] /\ holding'[d] = holding[d] /\ hurt'[d] = hurt[d]
    /\ upToDate'[d] = upToDate[d]

Grows(e) ==
    /\ mapping' = mapping
    /\ table[e].exists => table'[e].exists
    /\ table[e].columns \subseteq table'[e].columns
    /\ table[e].indexed \subseteq table'[e].indexed
    /\ table[e].pk => table'[e].pk
    /\ ~table[e].exists /\ table'[e].exists =>
          mapping[e].columns \subseteq table'[e].columns /\ table'[e].pk
    /\ table[e] = NoTable /\ ~table'[e].exists => table'[e] = NoTable

\* What a call does to its own state it does not do to that of another.
LEMMA Frame ==
    ASSUME TypeOK, NEW c \in Callers, CallStep(c), NEW d \in Callers, d # c
    PROVE  Same(d)
<1> USE DEF TypeOK, Same, vars, db, began, call, Goto, EndCall, Submit, Aside, InPhase,
     Executing, GetConnection, NoConnection, Fault, CloseConnection, CloseAfterLast
<1>1. CASE ConnectForMetadata(c) \/ ConnectFails(c) \/ MetadataThrows(c)
           \/ TableMissing(c) \/ TableFound(c) \/ InitColumns(c) \/ InitPkColumns(c)
           \/ InitIndexedColumns(c)
  BY <1>1 DEF ConnectForMetadata, ConnectFails, MetadataThrows, TableMissing, TableFound,
       InitColumns,
         InitPkColumns, InitIndexedColumns
<1>2. CASE ConnectForSql(c) \/ SqlWithoutConnection(c) \/ ExecuteStatement(c)
           \/ StatementFails(c)
  BY <1>2 DEF ConnectForSql, SqlWithoutConnection, ExecuteStatement, StatementFails
<1>3. CASE \/ CreateTable(c) \/ CreateTableThrows(c) \/ AddColumnThrows(c)
           \/ ColumnsDone(c) \/ AddPrimaryKey(c) \/ IndexThrows(c) \/ CheckEntityReturns(c)
           \/ \E column \in Names : CreateIndex(c, column) \/ AddColumn(c, column) \/ AddIndex(c, column)
  BY <1>3 DEF CreateTable, CreateTableThrows, AddColumnThrows, ColumnsDone, AddPrimaryKey,
         IndexThrows, CheckEntityReturns, CreateIndex, AddColumn, AddIndex
<1> QED
  BY <1>1, <1>2, <1>3 DEF CallStep

\* Only a running call steps, and it goes on for the same entity.
LEMMA Running ==
    ASSUME NEW c \in Callers, PhaseInv(c), CallStep(c)
    PROVE  pc[c] \notin Ended /\ entity' = entity
<1>1. Executing(c) => pc[c] \notin Ended
  BY DEF PhaseInv, Ended
<1>2. CASE ConnectForSql(c) \/ SqlWithoutConnection(c) \/ ExecuteStatement(c) \/ StatementFails(c)
  BY <1>1, <1>2 DEF ConnectForSql, SqlWithoutConnection, ExecuteStatement, StatementFails, db,
       began
<1>3. CASE \/ ConnectForMetadata(c) \/ ConnectFails(c) \/ MetadataThrows(c) \/ TableMissing(c)
           \/ TableFound(c) \/ InitColumns(c) \/ InitPkColumns(c) \/ InitIndexedColumns(c)
  BY <1>3 DEF ConnectForMetadata, ConnectFails, MetadataThrows, TableMissing, TableFound,
       InitColumns, InitPkColumns, InitIndexedColumns, Ended, Reading, call, began
<1>4. CASE \/ CreateTable(c) \/ CreateTableThrows(c) \/ AddColumnThrows(c) \/ ColumnsDone(c)
           \/ AddPrimaryKey(c) \/ IndexThrows(c) \/ CheckEntityReturns(c)
           \/ \E column \in Names :
                 CreateIndex(c, column) \/ AddColumn(c, column) \/ AddIndex(c, column)
  BY <1>4 DEF CreateTable, CreateTableThrows, AddColumnThrows, ColumnsDone, AddPrimaryKey,
       IndexThrows, CheckEntityReturns, CreateIndex, AddColumn, AddIndex, InPhase, Aside, Ended,
       began
<1> QED
  BY <1>2, <1>3, <1>4 DEF CallStep

\* A statement lets a table grow.
LEMMA EffectGrows ==
    ASSUME NEW s \in Statements, NEW m \in Mapping, NEW t \in Table, ~t.exists => t = NoTable,
           NEW u, u = Executed(s, m, t)
    PROVE  /\ t.exists => u.exists
           /\ t.columns \subseteq u.columns /\ t.indexed \subseteq u.indexed
           /\ t.pk => u.pk
           /\ ~t.exists /\ u.exists => m.columns \subseteq u.columns /\ u.pk
           /\ t = NoTable /\ ~u.exists => u = NoTable
<1> USE DEF Executed, Applies, Effect, Statements, Mapping, Table
<1>1. CASE ~Applies(s, m, t)
  BY <1>1
<1>2. CASE Applies(s, m, t) /\ s.kind = "create"
  <2>1. u = [exists |-> TRUE, columns |-> m.columns, pk |-> TRUE, indexed |-> {}]
    BY <1>2
  <2>2. ~t.exists /\ t.columns = {} /\ t.indexed = {} /\ ~t.pk
    BY <1>2 DEF NoTable
  <2> QED
    BY <2>1, <2>2
<1>3. CASE Applies(s, m, t) /\ s.kind = "column"
  BY <1>3
<1>4. CASE Applies(s, m, t) /\ s.kind = "primaryKey"
  BY <1>4
<1>5. CASE Applies(s, m, t) /\ s.kind = "index"
  BY <1>5
<1> QED
  BY <1>1, <1>2, <1>3, <1>4, <1>5

\* What a statement is for, it does when its table and its column are there.
LEMMA EffectDone ==
    ASSUME NEW x \in Names, NEW m \in Mapping, NEW t \in Table
    PROVE  /\ m.pkProp => Executed(Stmt("create", x), m, t).exists
           /\ t.exists => x \in Executed(Stmt("column", x), m, t).columns
           /\ t.exists /\ x \in t.columns => x \in Executed(Stmt("index", x), m, t).indexed
           /\ t.exists /\ x \in t.columns => Executed(Stmt("primaryKey", x), m, t).pk
BY DEF Executed, Applies, Effect, Stmt, Mapping, Table

\* A step of a call lets every table grow.
LEMMA TableStep ==
    ASSUME TypeOK, TableInv, NEW c \in Callers, CallStep(c), NEW e \in Entities
    PROVE  Grows(e)
<1>1. CASE ExecuteStatement(c)
  <2> DEFINE f == entity[c] s == Head(stmts[c]) u == Executed(s, mapping[f], table[f])
  <2>1. stmts[c] \in Seq(Statements) /\ stmts[c] # <<>>
    BY <1>1 DEF ExecuteStatement, Executing, TypeOK
  <2>2. s \in Statements
    BY <2>1
  <2>3. mapping' = mapping /\ table' = [table EXCEPT ![f] = u]
    BY <1>1 DEF ExecuteStatement
  <2>4. /\ f \in Entities /\ mapping[f] \in Mapping /\ table[f] \in Table /\ table[e] \in Table
        /\ table \in [Entities -> Table] /\ (~table[f].exists => table[f] = NoTable)
    BY DEF TypeOK, TableInv
  <2>5. CASE e = f
    <3>1. table'[e] = u
      BY <2>3, <2>4, <2>5
    <3> QED
      BY <2>2, <2>3, <2>4, <2>5, <3>1, EffectGrows DEF Grows
  <2>6. CASE e # f
    <3>1. table'[e] = table[e]
      BY <2>3, <2>4, <2>6
    <3> QED
      BY <2>3, <3>1 DEF Grows
  <2> QED
    BY <2>5, <2>6
<1>2. CASE ~ExecuteStatement(c)
  <2>1. mapping' = mapping /\ table' = table
    BY <1>2 DEF CallStep, ConnectForMetadata, ConnectFails, MetadataThrows, TableMissing,
         TableFound, InitColumns, InitPkColumns, InitIndexedColumns, ConnectForSql,
         SqlWithoutConnection, ExecuteStatement, StatementFails, CreateTable,
         CreateTableThrows, AddColumnThrows, ColumnsDone, AddPrimaryKey, IndexThrows,
         CheckEntityReturns, CreateIndex, AddColumn, AddIndex, vars, db, began, call, Goto,
         EndCall, Submit, Aside, InPhase, Executing, GetConnection, NoConnection, Fault,
         CloseConnection, CloseAfterLast
  <2> QED
    BY <2>1 DEF Grows
<1> QED
  BY <1>1, <1>2

-----------------------------------------------------------------------------
(* The statements a call still has to execute.                             *)

\* They are the same while the call does nothing with its SQL.
LEMMA SamePending ==
    ASSUME NEW c \in Callers, stmts'[c] = stmts[c]
    PROVE  \A kind : Pending(c, kind)' = Pending(c, kind)
BY DEF Pending

\* What is pending is about columns, and there is none of it without SQL.
LEMMA PendingNames ==
    ASSUME NEW c \in Callers
    PROVE  /\ \A kind : Pending(c, kind) \subseteq Names /\ Pending(c, kind)' \subseteq Names
           /\ ~Executing(c) => \A kind : Pending(c, kind) = {}
BY DEF Pending, Executing

\* What an addition submits.
LEMMA NewPending ==
    ASSUME TypeOK, NEW c \in Callers, NEW kind0, NEW x0 \in Names, Submit(c, <<Stmt(kind0, x0)>>)
    PROVE  \A kind : Pending(c, kind)' = IF kind = kind0 THEN {x0} ELSE {}
<1>1. stmts'[c] = <<Stmt(kind0, x0)>>
  BY DEF TypeOK, Submit
<1>2. DOMAIN stmts'[c] = {1} /\ stmts'[c][1] = Stmt(kind0, x0)
  BY <1>1
<1> QED
  BY <1>2 DEF Pending, Stmt

\* Nothing submitted, nothing pending.
LEMMA NonePending ==
    ASSUME TypeOK, NEW c \in Callers, Submit(c, <<>>)
    PROVE  \A kind : Pending(c, kind)' = {}
<1>1. stmts'[c] = <<>>
  BY DEF TypeOK, Submit
<1> QED
  BY <1>1 DEF Pending

\* On Oracle the key's statements are an index on it and two that are not SQL.
LEMMA KeyPending ==
    ASSUME TypeOK, NEW c \in Callers, NEW m \in Mapping, Submit(c, GetAddPrimaryKeySql(m))
    PROVE  /\ m.dialect = "oracle" => Pending(c, "index")' = {m.pk} /\ Pending(c, "primaryKey")' = {}
           /\ m.dialect = "mysql" => Pending(c, "index")' = {} /\ Pending(c, "primaryKey")' = {m.pk}
           /\ stmts'[c] # <<>>
<1>1. m.pk \in Names /\ m.dialect \in {"mysql", "oracle"}
  BY DEF Mapping
<1>2. stmts'[c] = GetAddPrimaryKeySql(m)
  BY DEF TypeOK, Submit
<1>3. CASE m.dialect = "mysql"
  <2>1. Submit(c, <<Stmt("primaryKey", m.pk)>>)
    BY <1>3 DEF GetAddPrimaryKeySql
  <2>2. stmts'[c] # <<>>
    BY <1>2, <1>3 DEF GetAddPrimaryKeySql
  <2> QED
    BY <1>1, <1>3, <2>1, <2>2, NewPending
<1>4. CASE m.dialect = "oracle"
  <2> DEFINE d == <<Stmt("disable", m.pk)>>
             i == <<Stmt("index", m.pk)>>
             n == <<Stmt("enable", m.pk)>>
  <2>1. stmts'[c] = (d \o i) \o n
    BY <1>2, <1>4 DEF GetAddPrimaryKeySql, GetAddIndexSql
  <2>2. d \in Seq(Statements) /\ i \in Seq(Statements) /\ n \in Seq(Statements)
    BY <1>1 DEF Stmt, Statements
  <2>3. /\ d \o i \in Seq(Statements) /\ Len(d \o i) = 2
        /\ (d \o i)[1] = Stmt("disable", m.pk) /\ (d \o i)[2] = Stmt("index", m.pk)
    BY <2>2
  <2>4. /\ stmts'[c] \in Seq(Statements) /\ Len(stmts'[c]) = 3
        /\ stmts'[c][1] = Stmt("disable", m.pk) /\ stmts'[c][2] = Stmt("index", m.pk)
        /\ stmts'[c][3] = Stmt("enable", m.pk)
    BY <2>1, <2>2, <2>3
  <2>5. DOMAIN stmts'[c] = {1, 2, 3} /\ stmts'[c] # <<>>
    BY <2>4
  <2> QED
    BY <1>1, <1>4, <2>4, <2>5 DEF Pending, Stmt
<1> QED
  BY <1>1, <1>3, <1>4

\* One statement executed: it or a later one was the one pending.
LEMMA TailPending ==
    ASSUME TypeOK, NEW c \in Callers, Executing(c), Submit(c, Tail(stmts[c]))
    PROVE  /\ \A kind : \A x \in Names :
                 x \in Pending(c, kind) <=> Head(stmts[c]) = Stmt(kind, x) \/ x \in Pending(c, kind)'
           /\ \A kind : Pending(c, kind)' \subseteq Pending(c, kind)
<1> DEFINE s == stmts[c]
<1>1. s \in Seq(Statements) /\ s # <<>> /\ stmts'[c] = Tail(s)
  BY DEF TypeOK, Submit, Executing
<1>2. Len(s) \in Nat /\ Len(s) >= 1 /\ DOMAIN s = 1 .. Len(s) /\ Head(s) = s[1]
  BY <1>1
<1>3. DOMAIN Tail(s) = 1 .. (Len(s) - 1) /\ \A i \in DOMAIN Tail(s) : Tail(s)[i] = s[i + 1]
  BY <1>1
<1>4. ASSUME NEW kind, NEW x \in Names
      PROVE  (\E i \in DOMAIN s : s[i] = Stmt(kind, x)) <=>
                Head(s) = Stmt(kind, x) \/ \E i \in DOMAIN Tail(s) : Tail(s)[i] = Stmt(kind, x)
  <2>1. \A i \in DOMAIN s : i = 1 \/ i - 1 \in DOMAIN Tail(s)
    BY <1>2, <1>3
  <2>2. \A i \in DOMAIN Tail(s) : i + 1 \in DOMAIN s
    BY <1>2, <1>3
  <2>3. ASSUME NEW i \in DOMAIN s, s[i] = Stmt(kind, x), i # 1
        PROVE  i - 1 \in DOMAIN Tail(s) /\ Tail(s)[i - 1] = Stmt(kind, x)
    BY <1>2, <1>3, <2>1, <2>3
  <2>4. 1 \in DOMAIN s
    BY <1>2
  <2> HIDE DEF s
  <2> QED
    BY <1>2, <1>3, <2>2, <2>3, <2>4
<1>5. \A kind : \A x \in Names :
         x \in Pending(c, kind) <=> Head(s) = Stmt(kind, x) \/ x \in Pending(c, kind)'
  BY <1>1, <1>4 DEF Pending
<1>6. \A kind : Pending(c, kind)' \subseteq Names
  BY DEF Pending
<1> QED
  BY <1>5, <1>6

-----------------------------------------------------------------------------
(* The invariant of a call, under the steps of the others.                 *)

\* A call's invariant survives what the others do: its own state is the same, and what it
\* relies on in its table only grows.
LEMMA OthersStep ==
    ASSUME TypeOK, TypeOK', NEW d \in Callers, CallInv(d), Same(d), Grows(entity[d])
    PROVE  CallInv(d)'
<1> DEFINE e == entity[d] m == mapping[e] t == table[e] u == table'[e]
<1>1. /\ pc'[d] = pc[d] /\ entity'[d] = e /\ meta'[d] = meta[d] /\ todo'[d] = todo[d]
      /\ stmts'[d] = stmts[d] /\ holding'[d] = holding[d] /\ hurt'[d] = hurt[d]
      /\ upToDate'[d] = upToDate[d] /\ mapping' = mapping
  BY DEF Same, Grows
<1>2. /\ t.exists => u.exists
      /\ t.columns \subseteq u.columns /\ t.indexed \subseteq u.indexed
      /\ t.pk => u.pk
      /\ ~t.exists /\ u.exists => m.columns \subseteq u.columns /\ u.pk
  BY DEF Grows
<1>3. \A kind : Pending(d, kind)' = Pending(d, kind)
  BY <1>1, SamePending
<1>4. IndexInfo(m, t) \subseteq IndexInfo(m, u)
  BY <1>2 DEF IndexInfo
<1>5. HasColumnsAndIndexes(e) => HasColumnsAndIndexes(e)'
  BY <1>1, <1>2, <1>4 DEF HasColumnsAndIndexes
<1>6. Executing(d)' <=> Executing(d)
  BY <1>1 DEF Executing
<1>7. PhaseInv(d)'
  BY <1>1, <1>6 DEF CallInv, PhaseInv
<1>8. MetaInv(d)'
  BY <1>1, <1>2, <1>4 DEF CallInv, MetaInv
<1>9. StmtInv(d)'
  BY <1>1, <1>3 DEF CallInv, StmtInv
<1>10. CreateInv(d)'
  BY <1>1, <1>2, <1>3, <1>4 DEF CallInv, CreateInv
<1>11. AddInv(d)'
  BY <1>1, <1>2, <1>3, <1>4 DEF CallInv, AddInv
<1>12. Conforms(d)'
  BY <1>1, <1>2, <1>5 DEF CallInv, Conforms
<1>13. Quiet(d)'
  BY <1>1, <1>2, <1>5, <1>6 DEF CallInv, Quiet
<1> QED
  BY <1>7, <1>8, <1>9, <1>10, <1>11, <1>12, <1>13 DEF CallInv

-----------------------------------------------------------------------------
(* The invariant of a call, under its own steps.                           *)

\* What follows a statement that is not the last.
LEMMA TailNonempty ==
    ASSUME NEW S, NEW s \in Seq(S), s # <<>>, Len(s) # 1
    PROVE  Tail(s) # <<>>
<1>1. Len(s) \in Nat /\ Len(s) # 0
  OBVIOUS
<1>2. Len(Tail(s)) = Len(s) - 1
  BY <1>1
<1>3. Len(Tail(s)) # 0
  BY <1>1, <1>2
<1>4. Len(<<>>) = 0
  OBVIOUS
<1> QED
  BY <1>3, <1>4

\* A call holds a connection exactly where it reads metadata or executes SQL.
LEMMA PhaseStep ==
    ASSUME TypeOK, NEW c \in Callers, PhaseInv(c), CallStep(c)
    PROVE  PhaseInv(c)'
<1> USE DEF TypeOK, PhaseInv, Reading, Ended, vars, db, began, call, Goto, EndCall, Submit,
     Aside, InPhase, Executing, GetConnection, NoConnection, Fault, CloseConnection
<1>1. CASE ConnectForMetadata(c)
  BY <1>1 DEF ConnectForMetadata
<1>2. CASE ConnectFails(c)
  BY <1>2 DEF ConnectFails
<1>3. CASE MetadataThrows(c)
  BY <1>3 DEF MetadataThrows
<1>4. CASE TableMissing(c)
  BY <1>4 DEF TableMissing
<1>5. CASE TableFound(c)
  BY <1>5 DEF TableFound
<1>6. CASE InitColumns(c)
  BY <1>6 DEF InitColumns
<1>7. CASE InitPkColumns(c)
  BY <1>7 DEF InitPkColumns
<1>8. CASE InitIndexedColumns(c)
  BY <1>8 DEF InitIndexedColumns
<1>9. CASE ConnectForSql(c)
  BY <1>9 DEF ConnectForSql
<1>10. CASE SqlWithoutConnection(c)
  BY <1>10 DEF SqlWithoutConnection
<1>11. CASE ExecuteStatement(c)
  <2>1. stmts[c] \in Seq(Statements) /\ stmts[c] # <<>> /\ stmts'[c] = Tail(stmts[c])
    BY <1>11 DEF ExecuteStatement
  <2>2. Len(stmts[c]) # 1 => stmts'[c] # <<>>
    BY <2>1, TailNonempty
  <2>3. holding'[c] => Len(stmts[c]) # 1
    BY <1>11 DEF ExecuteStatement, CloseAfterLast
  <2> QED
    BY <1>11, <2>2, <2>3 DEF ExecuteStatement
<1>12. CASE StatementFails(c)
  <2>1. stmts[c] \in Seq(Statements) /\ stmts[c] # <<>> /\ stmts'[c] = Tail(stmts[c])
    BY <1>12 DEF StatementFails
  <2>2. Len(stmts[c]) # 1 => stmts'[c] # <<>>
    BY <2>1, TailNonempty
  <2>3. holding'[c] => Len(stmts[c]) # 1
    BY <1>12 DEF StatementFails, CloseAfterLast
  <2> QED
    BY <1>12, <2>2, <2>3 DEF StatementFails
<1>13. CASE CreateTable(c)
  BY <1>13 DEF CreateTable
<1>14. CASE CreateTableThrows(c)
  BY <1>14 DEF CreateTableThrows
<1>15. CASE AddColumnThrows(c)
  BY <1>15 DEF AddColumnThrows
<1>16. CASE ColumnsDone(c)
  BY <1>16 DEF ColumnsDone
<1>17. CASE AddPrimaryKey(c)
  BY <1>17 DEF AddPrimaryKey
<1>18. CASE IndexThrows(c)
  BY <1>18 DEF IndexThrows
<1>19. CASE CheckEntityReturns(c)
  BY <1>19 DEF CheckEntityReturns
<1>20. ASSUME NEW column \in Names, CreateIndex(c, column) PROVE PhaseInv(c)'
  BY <1>20 DEF CreateIndex
<1>21. ASSUME NEW column \in Names, AddColumn(c, column) PROVE PhaseInv(c)'
  BY <1>21 DEF AddColumn
<1>22. ASSUME NEW column \in Names, AddIndex(c, column) PROVE PhaseInv(c)'
  BY <1>22 DEF AddIndex
<1> QED
  BY <1>1, <1>2, <1>3, <1>4, <1>5, <1>6, <1>7, <1>8, <1>9, <1>10, <1>11, <1>12, <1>13, <1>14,
       <1>15, <1>16, <1>17, <1>18, <1>19, <1>20, <1>21, <1>22 DEF CallStep

\* What a call has read of its table, it reads from the table, which only grows.
LEMMA MetaStep ==
    ASSUME TypeOK, TableInv, NEW c \in Callers, PhaseInv(c), MetaInv(c), CallStep(c)
    PROVE  MetaInv(c)'
<1> USE DEF TypeOK, PhaseInv, MetaInv, Reading, Ended, Table, NoTable, IndexInfo, vars, db,
     began, call, Goto, EndCall, Submit, Aside, InPhase, Executing, GetConnection,
     NoConnection, Fault, CloseConnection
<1>1. CASE ConnectForMetadata(c)
  BY <1>1 DEF ConnectForMetadata
<1>2. CASE ConnectFails(c)
  BY <1>2 DEF ConnectFails
<1>3. CASE MetadataThrows(c)
  BY <1>3 DEF MetadataThrows
<1>4. CASE TableMissing(c)
  BY <1>4 DEF TableMissing
<1>5. CASE TableFound(c)
  BY <1>5 DEF TableFound
<1>6. CASE InitColumns(c)
  BY <1>6 DEF InitColumns
<1>7. CASE InitPkColumns(c)
  <2>1. table' = table /\ mapping' = mapping /\ entity' = entity /\ pc'[c] = "getIndexInfo"
    BY <1>7 DEF InitPkColumns
  <2>2. \/ meta'[c] = [meta[c] EXCEPT !.pk = table[entity[c]].pk]
        \/ meta'[c] = meta[c]
    BY <1>7 DEF InitPkColumns
  <2>3. pc[c] = "getPrimaryKeys" /\ meta[c] \in Table
    BY <1>7 DEF InitPkColumns
  <2> QED
    BY <2>1, <2>2, <2>3
<1>8. CASE InitIndexedColumns(c)
  BY <1>8 DEF InitIndexedColumns
<1>9. CASE ConnectForSql(c)
  BY <1>9 DEF ConnectForSql
<1>10. CASE SqlWithoutConnection(c)
  BY <1>10 DEF SqlWithoutConnection
<1>11. CASE ExecuteStatement(c)
  <2>1. Grows(entity[c])
    BY <1>11, TableStep DEF CallStep
  <2>2. pc' = pc /\ meta' = meta /\ entity' = entity /\ mapping' = mapping
    BY <1>11 DEF ExecuteStatement
  <2> QED
    BY <1>11, <2>1, <2>2 DEF Grows
<1>12. CASE StatementFails(c)
  BY <1>12 DEF StatementFails
<1>13. CASE CreateTable(c)
  BY <1>13 DEF CreateTable
<1>14. CASE CreateTableThrows(c)
  BY <1>14 DEF CreateTableThrows
<1>15. CASE AddColumnThrows(c)
  BY <1>15 DEF AddColumnThrows
<1>16. CASE ColumnsDone(c)
  BY <1>16 DEF ColumnsDone
<1>17. CASE AddPrimaryKey(c)
  BY <1>17 DEF AddPrimaryKey
<1>18. CASE IndexThrows(c)
  BY <1>18 DEF IndexThrows
<1>19. CASE CheckEntityReturns(c)
  BY <1>19 DEF CheckEntityReturns
<1>20. ASSUME NEW column \in Names, CreateIndex(c, column) PROVE MetaInv(c)'
  BY <1>20 DEF CreateIndex
<1>21. ASSUME NEW column \in Names, AddColumn(c, column) PROVE MetaInv(c)'
  BY <1>21 DEF AddColumn
<1>22. ASSUME NEW column \in Names, AddIndex(c, column) PROVE MetaInv(c)'
  BY <1>22 DEF AddIndex
<1> QED
  BY <1>1, <1>2, <1>3, <1>4, <1>5, <1>6, <1>7, <1>8, <1>9, <1>10, <1>11, <1>12, <1>13, <1>14,
       <1>15, <1>16, <1>17, <1>18, <1>19, <1>20, <1>21, <1>22 DEF CallStep

\* The statements a call submits are about columns of its mapping.
LEMMA StmtStep ==
    ASSUME TypeOK, TableInv, NEW c \in Callers, StmtInv(c), CallStep(c)
    PROVE  StmtInv(c)'
<1> USE DEF TypeOK, StmtInv, db, began, call, Aside
<1>1. CASE ConnectForMetadata(c) \/ ConnectFails(c) \/ MetadataThrows(c)
           \/ TableMissing(c) \/ TableFound(c) \/ InitColumns(c) \/ InitPkColumns(c)
           \/ InitIndexedColumns(c) \/ ConnectForSql(c) \/ CreateTableThrows(c)
           \/ AddColumnThrows(c) \/ ColumnsDone(c) \/ IndexThrows(c)
           \/ CheckEntityReturns(c)
  <2>1. stmts' = stmts /\ UNCHANGED <<mapping, entity>>
    BY <1>1 DEF ConnectForMetadata, ConnectFails, MetadataThrows, TableMissing, TableFound,
         InitColumns,
         InitPkColumns, InitIndexedColumns, ConnectForSql, CreateTableThrows,
         AddColumnThrows, ColumnsDone, IndexThrows, CheckEntityReturns
  <2>2. \A kind : Pending(c, kind)' = Pending(c, kind)
    BY <2>1, SamePending
  <2> QED
    BY <2>1, <2>2
<1>2. CASE SqlWithoutConnection(c)
  <2>1. \A kind : Pending(c, kind)' = {}
    BY <1>2, NonePending DEF SqlWithoutConnection
  <2> QED
    BY <1>2, <2>1 DEF SqlWithoutConnection
<1>3. CASE ExecuteStatement(c)
  <2>0. Executing(c) /\ Submit(c, Tail(stmts[c]))
    BY <1>3 DEF ExecuteStatement
  <2>1. \A kind : Pending(c, kind)' \subseteq Pending(c, kind)
    BY <2>0, TailPending
  <2> QED
    BY <1>3, <2>1 DEF ExecuteStatement
<1>4. CASE StatementFails(c)
  <2>0. Executing(c) /\ Submit(c, Tail(stmts[c]))
    BY <1>4 DEF StatementFails
  <2>1. \A kind : Pending(c, kind)' \subseteq Pending(c, kind)
    BY <2>0, TailPending
  <2> QED
    BY <1>4, <2>1 DEF StatementFails
<1>5. CASE CreateTable(c)
  <2>1. Submit(c, <<Stmt("create", mapping[entity[c]].pk)>>) /\ mapping[entity[c]].pk \in Names
    BY <1>5 DEF CreateTable, GetCreateTableSql, Mapping
  <2>2. \A kind : Pending(c, kind)' = IF kind = "create" THEN {mapping[entity[c]].pk} ELSE {}
    BY <2>1, NewPending
  <2> QED
    BY <1>5, <2>2 DEF CreateTable
<1>6. CASE AddPrimaryKey(c)
  <2> DEFINE m == mapping[entity[c]]
  <2>0. m \in Mapping /\ m.pk \in m.columns
    BY DdlUtilAssumption DEF TableInv
  <2>1. CASE meta[c].pk
    <3>1. Submit(c, <<>>)
      BY <1>6, <2>1 DEF AddPrimaryKey
    <3>2. \A kind : Pending(c, kind)' = {}
      BY <3>1, NonePending
    <3> QED
      BY <1>6, <2>1, <3>2 DEF AddPrimaryKey
  <2>2. CASE ~meta[c].pk
    <3>1. Submit(c, GetAddPrimaryKeySql(m))
      BY <1>6, <2>2 DEF AddPrimaryKey
    <3>2. /\ m.dialect = "oracle" => Pending(c, "index")' = {m.pk} /\ Pending(c, "primaryKey")' = {}
          /\ m.dialect = "mysql" => Pending(c, "index")' = {} /\ Pending(c, "primaryKey")' = {m.pk}
      BY <2>0, <3>1, KeyPending
    <3>3. m.dialect \in {"mysql", "oracle"}
      BY <2>0 DEF Mapping
    <3> QED
      BY <1>6, <2>0, <2>2, <3>2, <3>3 DEF AddPrimaryKey
  <2> QED
    BY <2>1, <2>2
<1>7. ASSUME NEW column \in Names, CreateIndex(c, column) PROVE StmtInv(c)'
  <2>1. Submit(c, <<Stmt("index", column)>>)
    BY <1>7 DEF CreateIndex, GetAddIndexSql, GetAddColumnSql
  <2>2. \A kind : Pending(c, kind)' = IF kind = "index" THEN {column} ELSE {}
    BY <2>1, NewPending
  <2>3. /\ Pending(c, "index")' = {column} /\ Pending(c, "column")' = {}
        /\ Pending(c, "primaryKey")' = {} /\ Pending(c, "create")' = {}
    BY <2>2
  <2> QED
    BY <1>7, <2>3 DEF CreateIndex
<1>8. ASSUME NEW column \in Names, AddColumn(c, column) PROVE StmtInv(c)'
  <2>1. Submit(c, <<Stmt("column", column)>>)
    BY <1>8 DEF AddColumn, GetAddIndexSql, GetAddColumnSql
  <2>2. \A kind : Pending(c, kind)' = IF kind = "column" THEN {column} ELSE {}
    BY <2>1, NewPending
  <2>3. /\ Pending(c, "index")' = {} /\ Pending(c, "column")' = {column}
        /\ Pending(c, "primaryKey")' = {} /\ Pending(c, "create")' = {}
    BY <2>2
  <2> QED
    BY <1>8, <2>3 DEF AddColumn
<1>9. ASSUME NEW column \in Names, AddIndex(c, column) PROVE StmtInv(c)'
  <2>1. CASE column \in meta[c].indexed
    <3>1. Submit(c, <<>>)
      BY <1>9, <2>1 DEF AddIndex
    <3>2. \A kind : Pending(c, kind)' = {}
      BY <3>1, NonePending
    <3> QED
      BY <1>9, <2>1, <3>2 DEF AddIndex
  <2>2. CASE column \notin meta[c].indexed
    <3>1. Submit(c, <<Stmt("index", column)>>)
      BY <1>9, <2>2 DEF AddIndex, GetAddIndexSql
    <3>2. \A kind : Pending(c, kind)' = IF kind = "index" THEN {column} ELSE {}
      BY <3>1, NewPending
    <3> QED
      BY <1>9, <2>2, <3>2 DEF AddIndex
  <2> QED
    BY <2>1, <2>2
<1> QED
  BY <1>1, <1>2, <1>3, <1>4, <1>5, <1>6, <1>7, <1>8, <1>9 DEF CallStep

\* In a call that creates its table: the table is there or about to be created, and every index
\* of the mapping is there, pending or still to be visited.
LEMMA CreateStep ==
    ASSUME TypeOK, TableInv, NEW c \in Callers, PhaseInv(c), MetaInv(c), StmtInv(c), CreateInv(c), CallStep(c)
    PROVE  CreateInv(c)'
<1> USE DEF TypeOK, PhaseInv, StmtInv, CreateInv, Ended, Reading, Goto, EndCall, InPhase, db,
     began, call, Aside
<1>0. ~Executing(c) => \A kind : Pending(c, kind) = {}
  BY PendingNames
<1>1. CASE ConnectForMetadata(c)
  <2>1. \A kind : Pending(c, kind)' = Pending(c, kind)
    BY <1>1, SamePending DEF ConnectForMetadata
  <2> QED
    BY <1>1, <2>1 DEF ConnectForMetadata
<1>2. CASE ConnectFails(c)
  <2>1. \A kind : Pending(c, kind)' = Pending(c, kind)
    BY <1>2, SamePending DEF ConnectFails
  <2> QED
    BY <1>2, <2>1 DEF ConnectFails
<1>3. CASE MetadataThrows(c)
  <2>1. \A kind : Pending(c, kind)' = Pending(c, kind)
    BY <1>3, SamePending DEF MetadataThrows
  <2> QED
    BY <1>3, <2>1 DEF MetadataThrows
<1>4. CASE TableMissing(c)
  <2>1. \A kind : Pending(c, kind)' = Pending(c, kind)
    BY <1>4, SamePending DEF TableMissing
  <2> QED
    BY <1>4, <2>1 DEF TableMissing
<1>5. CASE TableFound(c)
  <2>1. \A kind : Pending(c, kind)' = Pending(c, kind)
    BY <1>5, SamePending DEF TableFound
  <2> QED
    BY <1>5, <2>1 DEF TableFound
<1>6. CASE InitColumns(c)
  <2>1. \A kind : Pending(c, kind)' = Pending(c, kind)
    BY <1>6, SamePending DEF InitColumns
  <2> QED
    BY <1>6, <2>1 DEF InitColumns
<1>7. CASE InitPkColumns(c)
  <2>1. \A kind : Pending(c, kind)' = Pending(c, kind)
    BY <1>7, SamePending DEF InitPkColumns
  <2> QED
    BY <1>7, <2>1 DEF InitPkColumns
<1>8. CASE InitIndexedColumns(c)
  <2>1. \A kind : Pending(c, kind)' = Pending(c, kind)
    BY <1>8, SamePending DEF InitIndexedColumns
  <2> QED
    BY <1>8, <2>1 DEF InitIndexedColumns
<1>9. CASE ConnectForSql(c)
  <2>1. \A kind : Pending(c, kind)' = Pending(c, kind)
    BY <1>9, SamePending DEF ConnectForSql, GetConnection
  <2> QED
    BY <1>9, <2>1 DEF ConnectForSql, GetConnection
<1>10. CASE SqlWithoutConnection(c)
  <2>1. hurt'[c] = TRUE
    BY <1>10 DEF SqlWithoutConnection, NoConnection, Fault
  <2> QED
    BY <1>10, <2>1 DEF SqlWithoutConnection
<1>11. CASE ExecuteStatement(c)
  <2> DEFINE e == entity[c] m == mapping[e] t == table[e] u == table'[e] s == Head(stmts[c])
  <2>1. /\ Executing(c) /\ Submit(c, Tail(stmts[c])) /\ u = Executed(s, m, t)
        /\ UNCHANGED <<mapping, pc, entity, meta, todo, hurt>>
    BY <1>11 DEF ExecuteStatement
  <2>2. /\ t.exists => u.exists
        /\ t.columns \subseteq u.columns /\ t.indexed \subseteq u.indexed
        /\ t.pk => u.pk
        /\ ~t.exists /\ u.exists => m.columns \subseteq u.columns /\ u.pk
    BY <1>11, <2>1, TableStep DEF CallStep, Grows
  <2>3. \A kind : \A x \in Names :
            x \in Pending(c, kind) <=> s = Stmt(kind, x) \/ x \in Pending(c, kind)'
    BY <2>1, TailPending
  <2>4. m \in Mapping /\ t \in Table /\ m.columns \subseteq Names /\ m.indexed \subseteq Names
    BY DEF Mapping
  <2>5. IndexInfo(m, t) \subseteq IndexInfo(m, u) /\ u.indexed \subseteq IndexInfo(m, u)
    BY <2>2 DEF IndexInfo
  <2>6. \A kind : Pending(c, kind) \subseteq Names /\ Pending(c, kind)' \subseteq Names
    BY PendingNames
  <2>7. pc[c] \in {"create", "createIndexes"} /\ u.exists => m.columns \subseteq u.columns /\ u.pk
    BY <2>2
  <2>8. ASSUME pc[c] = "createIndexes", ~hurt[c], m.pkProp
        PROVE  /\ u.exists \/ Pending(c, "create")' # {}
               /\ Pending(c, "create")' # {} => Pending(c, "index")' = {}
               /\ m.indexed \subseteq todo[c] \cup Pending(c, "index")' \cup IndexInfo(m, u)
    <3>1. u.exists \/ Pending(c, "create")' # {}
      <4>1. CASE t.exists
        BY <2>2, <4>1
      <4>2. CASE ~t.exists
        <5>1. PICK x \in Names : x \in Pending(c, "create")
          BY <2>6, <2>8, <4>2
        <5>2. s = Stmt("create", x) => u.exists
          BY <2>1, <2>4, <2>8, EffectDone
        <5> QED
          BY <2>3, <5>1, <5>2
      <4> QED
        BY <4>1, <4>2
    <3>2. Pending(c, "create")' # {} => Pending(c, "index")' = {}
      BY <2>3, <2>6, <2>8
    <3>3. ASSUME NEW x \in m.indexed, x \notin todo[c], x \notin IndexInfo(m, t)
          PROVE  x \in Pending(c, "index")' \cup IndexInfo(m, u)
      <4>1. x \in Pending(c, "index") /\ x \in Names
        BY <2>4, <2>8, <3>3
      <4>2. t.exists /\ x \in t.columns
        BY <2>8, <4>1
      <4>3. s = Stmt("index", x) => x \in u.indexed
        BY <2>1, <2>4, <4>1, <4>2, EffectDone
      <4> QED
        BY <2>3, <2>5, <4>1, <4>3
    <3> QED
      BY <2>5, <2>8, <3>1, <3>2, <3>3
  <2> QED
    BY <2>1, <2>7, <2>8
<1>12. CASE StatementFails(c)
  <2>1. hurt'[c] = TRUE
    BY <1>12 DEF StatementFails, Fault
  <2> QED
    BY <1>12, <2>1 DEF StatementFails
<1>13. CASE CreateTable(c)
  <2>1. Submit(c, <<Stmt("create", mapping[entity[c]].pk)>>) /\ mapping[entity[c]].pk \in Names
    BY <1>13 DEF CreateTable, GetCreateTableSql, Mapping
  <2>2. \A kind : Pending(c, kind)' = IF kind = "create" THEN {mapping[entity[c]].pk} ELSE {}
    BY <2>1, NewPending
  <2> QED
    BY <1>13, <2>2 DEF CreateTable
<1>14. CASE CreateTableThrows(c)
  <2>1. \A kind : Pending(c, kind)' = Pending(c, kind)
    BY <1>14, SamePending DEF CreateTableThrows
  <2> QED
    BY <1>14, <2>1 DEF CreateTableThrows
<1>15. CASE AddColumnThrows(c)
  <2>1. \A kind : Pending(c, kind)' = Pending(c, kind)
    BY <1>15, SamePending DEF AddColumnThrows
  <2> QED
    BY <1>15, <2>1 DEF AddColumnThrows
<1>16. CASE ColumnsDone(c)
  <2>1. \A kind : Pending(c, kind)' = Pending(c, kind)
    BY <1>16, SamePending DEF ColumnsDone
  <2> QED
    BY <1>16, <2>1 DEF ColumnsDone
<1>17. CASE AddPrimaryKey(c)
  <2> DEFINE m == mapping[entity[c]]
  <2>0. m \in Mapping /\ m.pk \in m.columns
    BY DdlUtilAssumption DEF TableInv
  <2>1. CASE meta[c].pk
    <3>1. Submit(c, <<>>)
      BY <1>17, <2>1 DEF AddPrimaryKey
    <3>2. \A kind : Pending(c, kind)' = {}
      BY <3>1, NonePending
    <3> QED
      BY <1>17, <2>1, <3>2 DEF AddPrimaryKey
  <2>2. CASE ~meta[c].pk
    <3>1. Submit(c, GetAddPrimaryKeySql(m))
      BY <1>17, <2>2 DEF AddPrimaryKey
    <3>2. /\ m.dialect = "oracle" => Pending(c, "index")' = {m.pk} /\ Pending(c, "primaryKey")' = {}
          /\ m.dialect = "mysql" => Pending(c, "index")' = {} /\ Pending(c, "primaryKey")' = {m.pk}
      BY <2>0, <3>1, KeyPending
    <3>3. m.dialect \in {"mysql", "oracle"}
      BY <2>0 DEF Mapping
    <3> QED
      BY <1>17, <2>0, <2>2, <3>2, <3>3 DEF AddPrimaryKey
  <2> QED
    BY <2>1, <2>2
<1>18. CASE IndexThrows(c)
  <2>1. \A kind : Pending(c, kind)' = Pending(c, kind)
    BY <1>18, SamePending DEF IndexThrows
  <2> QED
    BY <1>18, <2>1 DEF IndexThrows
<1>19. CASE CheckEntityReturns(c)
  <2>1. \A kind : Pending(c, kind)' = Pending(c, kind)
    BY <1>19, SamePending DEF CheckEntityReturns
  <2> QED
    BY <1>19, <2>1 DEF CheckEntityReturns
<1>20. ASSUME NEW column \in Names, CreateIndex(c, column) PROVE CreateInv(c)'
  <2> DEFINE e == entity[c] m == mapping[e] t == table[e]
  <2>1. Submit(c, <<Stmt("index", column)>>)
    BY <1>20 DEF CreateIndex, GetAddIndexSql
  <2>2. \A kind : Pending(c, kind)' = IF kind = "index" THEN {column} ELSE {}
    BY <2>1, NewPending
  <2>3. Pending(c, "index")' = {column} /\ Pending(c, "create")' = {}
    BY <2>2
  <2>4. Pending(c, "index") = {} /\ Pending(c, "create") = {}
    BY <1>20, <1>0 DEF CreateIndex
  <2>5. /\ todo'[c] = todo[c] \ {column} /\ pc' = pc /\ mapping' = mapping /\ table' = table
        /\ entity' = entity /\ hurt' = hurt
    BY <1>20 DEF CreateIndex
  <2>6. ASSUME pc[c] = "createIndexes", ~hurt[c], m.pkProp
        PROVE  t.exists /\ m.indexed \subseteq todo'[c] \cup {column} \cup IndexInfo(m, t)
    BY <2>4, <2>5, <2>6
  <2> QED
    BY <2>3, <2>5, <2>6
<1>21. ASSUME NEW column \in Names, AddColumn(c, column) PROVE CreateInv(c)'
  <2>1. Submit(c, <<Stmt("column", column)>>)
    BY <1>21 DEF AddColumn, GetAddIndexSql, GetAddColumnSql
  <2>2. \A kind : Pending(c, kind)' = IF kind = "column" THEN {column} ELSE {}
    BY <2>1, NewPending
  <2>3. /\ Pending(c, "index")' = {} /\ Pending(c, "column")' = {column}
        /\ Pending(c, "primaryKey")' = {} /\ Pending(c, "create")' = {}
    BY <2>2
  <2> QED
    BY <1>21, <2>3 DEF AddColumn
<1>22. ASSUME NEW column \in Names, AddIndex(c, column) PROVE CreateInv(c)'
  <2>1. CASE column \in meta[c].indexed
    <3>1. Submit(c, <<>>)
      BY <1>22, <2>1 DEF AddIndex
    <3>2. \A kind : Pending(c, kind)' = {}
      BY <3>1, NonePending
    <3> QED
      BY <1>22, <2>1, <3>2 DEF AddIndex
  <2>2. CASE column \notin meta[c].indexed
    <3>1. Submit(c, <<Stmt("index", column)>>)
      BY <1>22, <2>2 DEF AddIndex, GetAddIndexSql
    <3>2. \A kind : Pending(c, kind)' = IF kind = "index" THEN {column} ELSE {}
      BY <3>1, NewPending
    <3> QED
      BY <1>22, <2>2, <3>2 DEF AddIndex
  <2> QED
    BY <2>1, <2>2
<1> QED
  BY <1>1, <1>2, <1>3, <1>4, <1>5, <1>6, <1>7, <1>8, <1>9, <1>10, <1>11, <1>12, <1>13, <1>14,
       <1>15, <1>16, <1>17, <1>18, <1>19, <1>20, <1>21, <1>22 DEF CallStep

\* In a call that adds to its table: every column, the key and every index of the mapping is
\* there, pending or still to be visited.
LEMMA AddStep ==
    ASSUME TypeOK, TableInv, NEW c \in Callers, PhaseInv(c), MetaInv(c), StmtInv(c), AddInv(c), CallStep(c)
    PROVE  AddInv(c)'
<1> USE DEF TypeOK, PhaseInv, MetaInv, StmtInv, AddInv, Ended, Reading, Goto, EndCall, InPhase,
     db, began, call, Aside
<1>0. ~Executing(c) => \A kind : Pending(c, kind) = {}
  BY PendingNames
<1>1. CASE ConnectForMetadata(c)
  <2>1. \A kind : Pending(c, kind)' = Pending(c, kind)
    BY <1>1, SamePending DEF ConnectForMetadata
  <2> QED
    BY <1>1, <2>1 DEF ConnectForMetadata
<1>2. CASE ConnectFails(c)
  <2>1. \A kind : Pending(c, kind)' = Pending(c, kind)
    BY <1>2, SamePending DEF ConnectFails
  <2> QED
    BY <1>2, <2>1 DEF ConnectFails
<1>3. CASE MetadataThrows(c)
  <2>1. \A kind : Pending(c, kind)' = Pending(c, kind)
    BY <1>3, SamePending DEF MetadataThrows
  <2> QED
    BY <1>3, <2>1 DEF MetadataThrows
<1>4. CASE TableMissing(c)
  <2>1. \A kind : Pending(c, kind)' = Pending(c, kind)
    BY <1>4, SamePending DEF TableMissing
  <2> QED
    BY <1>4, <2>1 DEF TableMissing
<1>5. CASE TableFound(c)
  <2>1. \A kind : Pending(c, kind)' = Pending(c, kind)
    BY <1>5, SamePending DEF TableFound
  <2> QED
    BY <1>5, <2>1 DEF TableFound
<1>6. CASE InitColumns(c)
  <2>1. \A kind : Pending(c, kind)' = Pending(c, kind)
    BY <1>6, SamePending DEF InitColumns
  <2> QED
    BY <1>6, <2>1 DEF InitColumns
<1>7. CASE InitPkColumns(c)
  <2>1. \A kind : Pending(c, kind)' = Pending(c, kind)
    BY <1>7, SamePending DEF InitPkColumns
  <2> QED
    BY <1>7, <2>1 DEF InitPkColumns
<1>8. CASE InitIndexedColumns(c)
  <2>1. \A kind : Pending(c, kind)' = Pending(c, kind)
    BY <1>8, SamePending DEF InitIndexedColumns
  <2> QED
    BY <1>8, <2>1 DEF InitIndexedColumns
<1>9. CASE ConnectForSql(c)
  <2>1. \A kind : Pending(c, kind)' = Pending(c, kind)
    BY <1>9, SamePending DEF ConnectForSql, GetConnection
  <2> QED
    BY <1>9, <2>1 DEF ConnectForSql, GetConnection
<1>10. CASE SqlWithoutConnection(c)
  <2>1. hurt'[c] = TRUE
    BY <1>10 DEF SqlWithoutConnection, NoConnection, Fault
  <2> QED
    BY <1>10, <2>1 DEF SqlWithoutConnection
<1>11. CASE ExecuteStatement(c)
  <2> DEFINE e == entity[c] m == mapping[e] t == table[e] u == table'[e] s == Head(stmts[c])
  <2>1. /\ Executing(c) /\ Submit(c, Tail(stmts[c])) /\ u = Executed(s, m, t)
        /\ UNCHANGED <<mapping, pc, entity, meta, todo, hurt>>
    BY <1>11 DEF ExecuteStatement
  <2>2. /\ t.exists => u.exists
        /\ t.columns \subseteq u.columns /\ t.indexed \subseteq u.indexed
        /\ t.pk => u.pk
        /\ ~t.exists /\ u.exists => m.columns \subseteq u.columns /\ u.pk
    BY <1>11, <2>1, TableStep DEF CallStep, Grows
  <2>3. \A kind : \A x \in Names :
            x \in Pending(c, kind) <=> s = Stmt(kind, x) \/ x \in Pending(c, kind)'
    BY <2>1, TailPending
  <2>4. m \in Mapping /\ t \in Table /\ m.columns \subseteq Names /\ m.indexed \subseteq Names
    BY DEF Mapping
  <2>5. IndexInfo(m, t) \subseteq IndexInfo(m, u) /\ u.indexed \subseteq IndexInfo(m, u)
    BY <2>2 DEF IndexInfo
  <2>6. \A kind : Pending(c, kind) \subseteq Names /\ Pending(c, kind)' \subseteq Names
    BY PendingNames
  <2>7. ASSUME pc[c] = "addColumns", ~hurt[c]
        PROVE  m.columns \subseteq u.columns \cup todo[c] \cup Pending(c, "column")'
    <3>1. ASSUME NEW x \in m.columns, x \notin t.columns, x \notin todo[c]
          PROVE  x \in u.columns \cup Pending(c, "column")'
      <4>1. x \in Pending(c, "column") /\ x \in Names
        BY <2>4, <2>7, <3>1
      <4>2. s = Stmt("column", x) => x \in u.columns
        BY <2>1, <2>4, <2>7, <4>1, EffectDone
      <4> QED
        BY <2>3, <4>1, <4>2
    <3> QED
      BY <2>2, <3>1
  <2>8. ASSUME pc[c] = "addIndexes", ~hurt[c]
        PROVE  /\ m.dialect = "mysql" => u.pk \/ Pending(c, "primaryKey")' # {}
               /\ m.indexed \subseteq todo[c] \cup Pending(c, "index")' \cup IndexInfo(m, u)
    <3>0. m.columns \subseteq t.columns /\ t.exists /\ m.pk \in m.columns
      BY <2>8, DdlUtilAssumption DEF TableInv
    <3>1. ASSUME m.dialect = "mysql", ~t.pk
          PROVE  u.pk \/ Pending(c, "primaryKey")' # {}
      <4>1. PICK x \in Names : x \in Pending(c, "primaryKey")
        BY <2>6, <2>8, <3>1
      <4>2. x = m.pk /\ x \in t.columns
        BY <3>0, <4>1
      <4>3. s = Stmt("primaryKey", x) => u.pk
        BY <2>1, <2>4, <3>0, <4>2, EffectDone
      <4> QED
        BY <2>3, <4>1, <4>3
    <3>2. ASSUME NEW x \in m.indexed, x \notin todo[c], x \notin IndexInfo(m, t)
          PROVE  x \in Pending(c, "index")' \cup IndexInfo(m, u)
      <4>1. x \in Pending(c, "index") /\ x \in Names
        BY <2>4, <2>8, <3>2
      <4>2. x \in t.columns
        BY <3>0, <4>1
      <4>3. s = Stmt("index", x) => x \in u.indexed
        BY <2>1, <2>4, <3>0, <4>1, <4>2, EffectDone
      <4> QED
        BY <2>3, <2>5, <4>1, <4>3
    <3> QED
      BY <2>2, <2>5, <3>1, <3>2
  <2>9. pc[c] \in {"addPrimaryKey", "addIndexes"} /\ ~hurt[c] => m.columns \subseteq u.columns
    BY <2>2
  <2> QED
    BY <2>1, <2>7, <2>8, <2>9
<1>12. CASE StatementFails(c)
  <2>1. hurt'[c] = TRUE
    BY <1>12 DEF StatementFails, Fault
  <2> QED
    BY <1>12, <2>1 DEF StatementFails
<1>13. CASE CreateTable(c)
  <2>1. Submit(c, <<Stmt("create", mapping[entity[c]].pk)>>) /\ mapping[entity[c]].pk \in Names
    BY <1>13 DEF CreateTable, GetCreateTableSql, Mapping
  <2>2. \A kind : Pending(c, kind)' = IF kind = "create" THEN {mapping[entity[c]].pk} ELSE {}
    BY <2>1, NewPending
  <2> QED
    BY <1>13, <2>2 DEF CreateTable
<1>14. CASE CreateTableThrows(c)
  <2>1. \A kind : Pending(c, kind)' = Pending(c, kind)
    BY <1>14, SamePending DEF CreateTableThrows
  <2> QED
    BY <1>14, <2>1 DEF CreateTableThrows
<1>15. CASE AddColumnThrows(c)
  <2>1. \A kind : Pending(c, kind)' = Pending(c, kind)
    BY <1>15, SamePending DEF AddColumnThrows
  <2> QED
    BY <1>15, <2>1 DEF AddColumnThrows
<1>16. CASE ColumnsDone(c)
  <2> DEFINE e == entity[c] m == mapping[e] t == table[e]
  <2>1. /\ UNCHANGED <<mapping, table, entity, hurt>> /\ ~Executing(c) /\ todo[c] = {}
        /\ pc[c] = "addColumns" /\ pc'[c] = "addPrimaryKey"
    BY <1>16 DEF ColumnsDone
  <2>2. Pending(c, "column") = {}
    BY <2>1, <1>0
  <2>3. ~hurt[c] => m.columns \subseteq t.columns
    BY <2>1, <2>2
  <2> QED
    BY <2>1, <2>3
<1>17. CASE AddPrimaryKey(c)
  <2> DEFINE m == mapping[entity[c]]
  <2>0. m \in Mapping /\ m.pk \in m.columns
    BY DdlUtilAssumption DEF TableInv
  <2>1. CASE meta[c].pk
    <3>1. Submit(c, <<>>)
      BY <1>17, <2>1 DEF AddPrimaryKey
    <3>2. \A kind : Pending(c, kind)' = {}
      BY <3>1, NonePending
    <3> QED
      BY <1>17, <2>1, <3>2 DEF AddPrimaryKey
  <2>2. CASE ~meta[c].pk
    <3>1. Submit(c, GetAddPrimaryKeySql(m))
      BY <1>17, <2>2 DEF AddPrimaryKey
    <3>2. /\ m.dialect = "oracle" => Pending(c, "index")' = {m.pk} /\ Pending(c, "primaryKey")' = {}
          /\ m.dialect = "mysql" => Pending(c, "index")' = {} /\ Pending(c, "primaryKey")' = {m.pk}
      BY <2>0, <3>1, KeyPending
    <3>3. m.dialect \in {"mysql", "oracle"}
      BY <2>0 DEF Mapping
    <3> QED
      BY <1>17, <2>0, <2>2, <3>2, <3>3 DEF AddPrimaryKey
  <2> QED
    BY <2>1, <2>2
<1>18. CASE IndexThrows(c)
  <2>1. \A kind : Pending(c, kind)' = Pending(c, kind)
    BY <1>18, SamePending DEF IndexThrows
  <2> QED
    BY <1>18, <2>1 DEF IndexThrows
<1>19. CASE CheckEntityReturns(c)
  <2>1. \A kind : Pending(c, kind)' = Pending(c, kind)
    BY <1>19, SamePending DEF CheckEntityReturns
  <2> QED
    BY <1>19, <2>1 DEF CheckEntityReturns
<1>20. ASSUME NEW column \in Names, CreateIndex(c, column) PROVE AddInv(c)'
  <2>1. Submit(c, <<Stmt("index", column)>>)
    BY <1>20 DEF CreateIndex, GetAddIndexSql, GetAddColumnSql
  <2>2. \A kind : Pending(c, kind)' = IF kind = "index" THEN {column} ELSE {}
    BY <2>1, NewPending
  <2>3. /\ Pending(c, "index")' = {column} /\ Pending(c, "column")' = {}
        /\ Pending(c, "primaryKey")' = {} /\ Pending(c, "create")' = {}
    BY <2>2
  <2> QED
    BY <1>20, <2>3 DEF CreateIndex
<1>21. ASSUME NEW column \in Names, AddColumn(c, column) PROVE AddInv(c)'
  <2> DEFINE e == entity[c] m == mapping[e] t == table[e]
  <2>1. /\ UNCHANGED <<mapping, table, entity, hurt, pc>> /\ ~Executing(c)
        /\ pc[c] = "addColumns" /\ todo'[c] = todo[c] \ {column}
        /\ Submit(c, <<Stmt("column", column)>>)
    BY <1>21 DEF AddColumn, GetAddColumnSql
  <2>2. Pending(c, "column") = {} /\ Pending(c, "column")' = {column}
    BY <2>1, <1>0, NewPending
  <2>3. ~hurt[c] => m.columns \subseteq t.columns \cup todo'[c] \cup Pending(c, "column")'
    BY <2>1, <2>2
  <2> QED
    BY <2>1, <2>3
<1>22. ASSUME NEW column \in Names, AddIndex(c, column) PROVE AddInv(c)'
  <2> DEFINE e == entity[c] m == mapping[e] t == table[e]
  <2>1. /\ UNCHANGED <<mapping, table, entity, hurt, pc>> /\ ~Executing(c)
        /\ pc[c] = "addIndexes" /\ todo'[c] = todo[c] \ {column}
    BY <1>22 DEF AddIndex
  <2>2. Pending(c, "index") = {} /\ Pending(c, "primaryKey") = {}
    BY <2>1, <1>0
  <2>3. column \in Pending(c, "index")' \cup IndexInfo(m, t)
    <3>1. CASE column \in meta[c].indexed
      BY <3>1
    <3>2. CASE column \notin meta[c].indexed
      <4>1. Submit(c, <<Stmt("index", column)>>)
        BY <1>22, <3>2 DEF AddIndex, GetAddIndexSql
      <4> QED
        BY <4>1, NewPending
    <3> QED
      BY <3>1, <3>2
  <2>4. ~hurt[c] => /\ m.columns \subseteq t.columns
                    /\ m.dialect = "mysql" => t.pk
                    /\ m.indexed \subseteq todo'[c] \cup Pending(c, "index")' \cup IndexInfo(m, t)
    BY <2>1, <2>2, <2>3
  <2> QED
    BY <2>1, <2>4
<1> QED
  BY <1>1, <1>2, <1>3, <1>4, <1>5, <1>6, <1>7, <1>8, <1>9, <1>10, <1>11, <1>12, <1>13, <1>14,
       <1>15, <1>16, <1>17, <1>18, <1>19, <1>20, <1>21, <1>22 DEF CallStep

\* A call that returns has nothing left to visit or to execute.
LEMMA ConformsStep ==
    ASSUME TypeOK, NEW c \in Callers, PhaseInv(c), MetaInv(c), StmtInv(c), CreateInv(c), AddInv(c), CallStep(c)
    PROVE  Conforms(c)'
<1> USE DEF TypeOK, PhaseInv, Conforms, Ended, Reading, Goto, EndCall, InPhase, db, began,
     call, Aside
<1>1. CASE ConnectForMetadata(c) \/ ConnectFails(c) \/ MetadataThrows(c)
           \/ TableMissing(c) \/ TableFound(c) \/ InitColumns(c) \/ InitPkColumns(c)
           \/ InitIndexedColumns(c) \/ CreateTable(c) \/ CreateTableThrows(c)
           \/ AddColumnThrows(c) \/ ColumnsDone(c) \/ AddPrimaryKey(c) \/ IndexThrows(c)
  <2>1. pc'[c] # "returned"
    BY <1>1 DEF ConnectForMetadata, ConnectFails, MetadataThrows, TableMissing, TableFound,
         InitColumns,
         InitPkColumns, InitIndexedColumns, CreateTable, CreateTableThrows, AddColumnThrows,
         ColumnsDone, AddPrimaryKey, IndexThrows
  <2> QED
    BY <2>1
<1>2. CASE \/ ConnectForSql(c) \/ SqlWithoutConnection(c) \/ ExecuteStatement(c)
           \/ StatementFails(c)
           \/ \E column \in Names : CreateIndex(c, column) \/ AddColumn(c, column) \/ AddIndex(c, column)
  <2>1. pc' = pc /\ pc[c] # "returned"
    BY <1>2 DEF ConnectForSql, SqlWithoutConnection, ExecuteStatement, StatementFails,
         CreateIndex,
         AddColumn, AddIndex
  <2> QED
    BY <2>1
<1>3. CASE CheckEntityReturns(c)
  <2> DEFINE e == entity[c] m == mapping[e] t == table[e]
  <2>1. /\ UNCHANGED <<db, entity, hurt>> /\ ~Executing(c) /\ todo[c] = {}
        /\ pc[c] = "createIndexes" \/ pc[c] = "addIndexes"
    BY <1>3 DEF CheckEntityReturns
  <2>2. \A kind : Pending(c, kind) = {}
    BY <2>1, PendingNames
  <2>3. ASSUME ~hurt[c], m.pkProp
        PROVE  /\ t.exists /\ m.columns \subseteq t.columns /\ m.indexed \subseteq IndexInfo(m, t)
               /\ m.dialect = "mysql" => t.pk
    <3>1. CASE pc[c] = "createIndexes"
      BY <2>1, <2>2, <2>3, <3>1 DEF CreateInv
    <3>2. CASE pc[c] = "addIndexes"
      BY <2>1, <2>2, <2>3, <3>2 DEF AddInv, MetaInv
    <3> QED
      BY <2>1, <3>1, <3>2
  <2>4. ~hurt[c] /\ m.pkProp => HasColumnsAndIndexes(e) /\ (m.dialect = "mysql" => t.pk)
    BY <2>3 DEF HasColumnsAndIndexes
  <2>5. HasColumnsAndIndexes(e)' <=> HasColumnsAndIndexes(e)
    BY <2>1 DEF HasColumnsAndIndexes
  <2> QED
    BY <2>1, <2>4, <2>5
<1> QED
  BY <1>1, <1>2, <1>3 DEF CallStep

\* A call on a table that was up to date finds nothing to add.
LEMMA QuietStep ==
    ASSUME TypeOK, NEW c \in Callers, PhaseInv(c), MetaInv(c), StmtInv(c), Quiet(c), CallStep(c)
    PROVE  Quiet(c)'
<1> USE DEF TypeOK, PhaseInv, Ended, Reading, db, began, call, Aside
<1>1. CASE ConnectForMetadata(c)
  <2> DEFINE e == entity[c] m == mapping[e] t == table[e]
  <2> SUFFICES ASSUME upToDate'[c], ~hurt'[c] PROVE Quiet(c)'
    BY DEF Quiet
  <2>1. /\ UNCHANGED <<mapping, table, entity, upToDate, hurt>> /\ pc[c] = "connect"
        /\ pc'[c] = "getTables" /\ stmts' = stmts
    BY <1>1 DEF ConnectForMetadata, Goto, InPhase, GetConnection, CloseConnection
  <2>2. HasColumnsAndIndexes(e) /\ t.pk /\ ~Executing(c)
    BY <2>1 DEF Quiet
  <2>3. HasColumnsAndIndexes(e)'
    BY <2>1, <2>2 DEF HasColumnsAndIndexes
  <2> QED
    BY <2>1, <2>2, <2>3 DEF Quiet, Executing
<1>2. CASE ConnectFails(c) \/ MetadataThrows(c) \/ CreateTableThrows(c)
           \/ AddColumnThrows(c) \/ IndexThrows(c) \/ CheckEntityReturns(c)
  <2>1. pc'[c] \in Ended
    BY <1>2 DEF ConnectFails, MetadataThrows, CreateTableThrows, AddColumnThrows, IndexThrows,
         CheckEntityReturns, EndCall, Goto
  <2> QED
    BY <2>1 DEF Quiet
<1>3. CASE TableMissing(c)
  <2> DEFINE e == entity[c] m == mapping[e] t == table[e]
  <2> SUFFICES ASSUME upToDate'[c], ~hurt'[c] PROVE Quiet(c)'
    BY DEF Quiet
  <2>1. /\ UNCHANGED <<entity, upToDate, hurt>> /\ pc[c] = "getTables" /\ ~t.exists
    BY <1>3 DEF TableMissing
  <2>2. HasColumnsAndIndexes(e)
    BY <2>1 DEF Quiet
  <2> QED
    BY <2>1, <2>2 DEF HasColumnsAndIndexes
<1>4. CASE TableFound(c)
  <2> DEFINE e == entity[c] m == mapping[e] t == table[e]
  <2> SUFFICES ASSUME upToDate'[c], ~hurt'[c] PROVE Quiet(c)'
    BY DEF Quiet
  <2>1. /\ UNCHANGED <<mapping, table, entity, upToDate, hurt>> /\ pc[c] = "getTables"
        /\ pc'[c] = "getColumns" /\ stmts' = stmts
    BY <1>4 DEF TableFound, Goto, InPhase, GetConnection, CloseConnection
  <2>2. HasColumnsAndIndexes(e) /\ t.pk /\ ~Executing(c)
    BY <2>1 DEF Quiet
  <2>3. HasColumnsAndIndexes(e)'
    BY <2>1, <2>2 DEF HasColumnsAndIndexes
  <2> QED
    BY <2>1, <2>2, <2>3 DEF Quiet, Executing
<1>5. CASE InitColumns(c)
  <2> DEFINE e == entity[c] m == mapping[e] t == table[e]
  <2> SUFFICES ASSUME upToDate'[c], ~hurt'[c] PROVE Quiet(c)'
    BY DEF Quiet
  <2>1. /\ UNCHANGED <<mapping, table, entity, upToDate, hurt>> /\ pc[c] = "getColumns"
        /\ pc'[c] = "getPrimaryKeys" /\ stmts' = stmts
        /\ meta'[c].columns = t.columns
    BY <1>5 DEF InitColumns, Table, Goto, InPhase, GetConnection, CloseConnection
  <2>2. HasColumnsAndIndexes(e) /\ t.pk /\ ~Executing(c) /\ m.columns \subseteq t.columns
    BY <2>1 DEF Quiet, HasColumnsAndIndexes
  <2>3. HasColumnsAndIndexes(e)'
    BY <2>1, <2>2 DEF HasColumnsAndIndexes
  <2> QED
    BY <2>1, <2>2, <2>3 DEF Quiet, Executing
<1>6. CASE InitPkColumns(c)
  <2> DEFINE e == entity[c] m == mapping[e] t == table[e]
  <2> SUFFICES ASSUME upToDate'[c], ~hurt'[c] PROVE Quiet(c)'
    BY DEF Quiet
  <2>0. /\ meta'[c] = [meta[c] EXCEPT !.pk = t.pk] \/ hurt'[c]
        /\ upToDate'[c] = upToDate[c] /\ hurt'[c] \in BOOLEAN /\ (~hurt'[c] => ~hurt[c])
        /\ UNCHANGED <<mapping, table, entity, stmts>>
        /\ pc[c] = "getPrimaryKeys" /\ pc'[c] = "getIndexInfo"
    BY <1>6 DEF InitPkColumns, Goto, Fault
  <2>1. meta'[c].pk = t.pk /\ meta'[c].columns = meta[c].columns
    <3>1. meta[c] \in Table
      OBVIOUS
    <3> QED
      BY <2>0, <3>1 DEF Table
  <2>2. HasColumnsAndIndexes(e) /\ t.pk /\ ~Executing(c) /\ m.columns \subseteq meta[c].columns
    BY <2>0 DEF Quiet
  <2>3. HasColumnsAndIndexes(e)'
    BY <2>0, <2>2 DEF HasColumnsAndIndexes
  <2> QED
    BY <2>0, <2>1, <2>2, <2>3 DEF Quiet, Executing
<1>7. CASE InitIndexedColumns(c)
  <2> DEFINE e == entity[c] m == mapping[e] t == table[e]
  <2> SUFFICES ASSUME upToDate'[c], ~hurt'[c] PROVE Quiet(c)'
    BY DEF Quiet
  <2>0. /\ meta'[c] = [meta[c] EXCEPT !.indexed = IndexInfo(m, t)]
        /\ todo'[c] = m.columns \ meta[c].columns
        /\ UNCHANGED <<mapping, table, entity, stmts, upToDate, hurt>>
        /\ pc[c] = "getIndexInfo" /\ pc'[c] = "addColumns"
    BY <1>7 DEF InitIndexedColumns, Goto
  <2>1. meta'[c].indexed = IndexInfo(m, t) /\ meta'[c].pk = meta[c].pk
    <3>1. meta[c] \in Table
      OBVIOUS
    <3> QED
      BY <2>0, <3>1 DEF Table
  <2>2. /\ HasColumnsAndIndexes(e) /\ t.pk /\ ~Executing(c) /\ m.columns \subseteq meta[c].columns
        /\ meta[c].pk /\ m.indexed \subseteq IndexInfo(m, t)
    BY <2>0 DEF Quiet, HasColumnsAndIndexes
  <2>3. HasColumnsAndIndexes(e)'
    BY <2>0, <2>2 DEF HasColumnsAndIndexes
  <2> QED
    BY <2>0, <2>1, <2>2, <2>3 DEF Quiet, Executing
<1>8. CASE ConnectForSql(c) \/ SqlWithoutConnection(c) \/ ExecuteStatement(c)
           \/ StatementFails(c) \/ CreateTable(c)
  <2>1. /\ Executing(c) \/ pc[c] = "create"
        /\ pc[c] \notin Ended /\ upToDate'[c] = upToDate[c] /\ (~hurt'[c] => ~hurt[c])
    BY <1>8 DEF ConnectForSql, SqlWithoutConnection, ExecuteStatement, StatementFails,
         CreateTable,
         InPhase, GetConnection, NoConnection, Fault
  <2>2. ~(upToDate'[c] /\ ~hurt'[c])
    BY <2>1 DEF Quiet
  <2> QED
    BY <2>2 DEF Quiet
<1>9. CASE ColumnsDone(c)
  <2> DEFINE e == entity[c] m == mapping[e] t == table[e]
  <2> SUFFICES ASSUME upToDate'[c], ~hurt'[c] PROVE Quiet(c)'
    BY DEF Quiet
  <2>1. /\ UNCHANGED <<mapping, table, entity, upToDate, hurt>> /\ pc[c] = "addColumns"
        /\ pc'[c] = "addPrimaryKey" /\ UNCHANGED <<stmts, meta>>
    BY <1>9 DEF ColumnsDone, Goto, InPhase, GetConnection, CloseConnection
  <2>2. HasColumnsAndIndexes(e) /\ t.pk /\ ~Executing(c) /\ meta[c].pk /\ m.indexed \subseteq meta[c].indexed
    BY <2>1 DEF Quiet
  <2>3. HasColumnsAndIndexes(e)'
    BY <2>1, <2>2 DEF HasColumnsAndIndexes
  <2> QED
    BY <2>1, <2>2, <2>3 DEF Quiet, Executing
<1>10. CASE AddPrimaryKey(c)
  <2> DEFINE e == entity[c] m == mapping[e] t == table[e]
  <2> SUFFICES ASSUME upToDate'[c], ~hurt'[c] PROVE Quiet(c)'
    BY DEF Quiet
  <2>1. /\ UNCHANGED <<mapping, table, entity, upToDate, hurt>> /\ pc[c] = "addPrimaryKey"
        /\ pc'[c] = "addIndexes" /\ meta' = meta /\ todo'[c] = m.indexed
        /\ (meta[c].pk => stmts'[c] = <<>>)
    BY <1>10 DEF AddPrimaryKey, Submit, Goto, InPhase, GetConnection, CloseConnection
  <2>2. HasColumnsAndIndexes(e) /\ t.pk /\ ~Executing(c) /\ meta[c].pk /\ m.indexed \subseteq meta[c].indexed
    BY <2>1 DEF Quiet
  <2>3. HasColumnsAndIndexes(e)'
    BY <2>1, <2>2 DEF HasColumnsAndIndexes
  <2> QED
    BY <2>1, <2>2, <2>3 DEF Quiet, Executing
<1>11. ASSUME NEW column \in Names, CreateIndex(c, column) PROVE Quiet(c)'
  <2>1. pc[c] = "createIndexes" /\ upToDate'[c] = upToDate[c] /\ hurt' = hurt
    BY <1>11 DEF CreateIndex, InPhase
  <2>2. ~(upToDate'[c] /\ ~hurt'[c])
    BY <2>1 DEF Quiet
  <2> QED
    BY <2>2 DEF Quiet
<1>12. ASSUME NEW column \in Names, AddColumn(c, column) PROVE Quiet(c)'
  <2> DEFINE e == entity[c] m == mapping[e] t == table[e]
  <2> SUFFICES ASSUME upToDate'[c], ~hurt'[c] PROVE Quiet(c)'
    BY DEF Quiet
  <2>1. /\ upToDate'[c] = upToDate[c] /\ hurt' = hurt
        /\ pc[c] = "addColumns" /\ todo[c] # {}
    BY <1>12 DEF AddColumn, InPhase
  <2> QED
    BY <2>1 DEF Quiet
<1>13. ASSUME NEW column \in Names, AddIndex(c, column) PROVE Quiet(c)'
  <2> DEFINE e == entity[c] m == mapping[e] t == table[e]
  <2> SUFFICES ASSUME upToDate'[c], ~hurt'[c] PROVE Quiet(c)'
    BY DEF Quiet
  <2>1. /\ UNCHANGED <<mapping, table, entity, upToDate, hurt>> /\ pc[c] = "addIndexes"
        /\ pc'[c] = "addIndexes" /\ meta' = meta /\ todo'[c] \subseteq todo[c]
        /\ column \in todo[c] /\ (column \in meta[c].indexed => stmts'[c] = <<>>)
    BY <1>13 DEF AddIndex, Submit, Goto, InPhase, GetConnection, CloseConnection
  <2>2. HasColumnsAndIndexes(e) /\ t.pk /\ ~Executing(c) /\ meta[c].pk /\ m.indexed \subseteq meta[c].indexed
        /\ todo[c] \subseteq m.indexed
    BY <2>1 DEF Quiet
  <2>3. HasColumnsAndIndexes(e)'
    BY <2>1, <2>2 DEF HasColumnsAndIndexes
  <2> QED
    BY <2>1, <2>2, <2>3 DEF Quiet, Executing
<1> QED
  BY <1>1, <1>2, <1>3, <1>4, <1>5, <1>6, <1>7, <1>8, <1>9, <1>10, <1>11, <1>12,
       <1>13 DEF CallStep

-----------------------------------------------------------------------------
(* The inductive invariant.                                                *)

\* The invariant holds at first.
LEMMA InitInv ==
    ASSUME Init
    PROVE  IInv
<1>1. TypeOK
  <2>1. PoolSize \in Nat /\ MaxFaults \in Nat /\ Mappings \subseteq Mapping /\ Entities # {}
    BY DdlUtilAssumption
  <2>2. (CHOOSE e \in Entities : TRUE) \in Entities
    BY <2>1
  <2>3. <<>> \in Seq(Statements) /\ NoTable \in Table
    BY DEF NoTable, Table
  <2>4. free \in 0 .. PoolSize /\ faults \in 0 .. MaxFaults
    BY <2>1 DEF Init
  <2>5. mapping \in [Entities -> Mapping] /\ table \in [Entities -> Table]
    BY <2>1 DEF Init
  <2> QED
    BY <2>2, <2>3, <2>4, <2>5 DEF Init, TypeOK, PCs, Ended
<1>2. PoolInv
  <2>1. Holders = {} /\ free = PoolSize
    BY DEF Init, Holders
  <2> QED
    BY <2>1, FS_EmptySet, DdlUtilAssumption DEF PoolInv
<1>3. TableInv
  BY DEF Init, TableInv
<1>4. ASSUME NEW c \in Callers PROVE CallInv(c)
  <2>1. pc[c] = "idle" /\ meta[c] = NoTable /\ ~Executing(c) /\ ~holding[c]
    BY DEF Init, Executing
  <2>2. \A kind : Pending(c, kind) = {}
    BY <2>1, PendingNames
  <2> QED
    BY <2>1, <2>2 DEF CallInv, PhaseInv, MetaInv, StmtInv, CreateInv, AddInv, Conforms, Quiet,
         Ended, Reading, NoTable
<1> QED
  BY <1>1, <1>2, <1>3, <1>4 DEF IInv

\* A step of a running call.
LEMMA CallStepInv ==
    ASSUME IInv, NEW c \in Callers, CallStep(c)
    PROVE  IInv'
<1>1. TypeOK /\ PoolInv /\ TableInv /\ CallInv(c)
  BY DEF IInv
<1>2. PoolInv' /\ free' \in 0 .. PoolSize
  BY <1>1, PoolStep DEF CallInv
<1>3. TypeOK'
  BY <1>1, <1>2, TypeStep
<1>4. \A e \in Entities : Grows(e)
  BY <1>1, TableStep
<1>5. TableInv'
  BY <1>1, <1>4 DEF TableInv, Grows
<1>6. CallInv(c)'
  BY <1>1, PhaseStep, MetaStep, StmtStep, CreateStep, AddStep, ConformsStep,
       QuietStep DEF CallInv
<1>7. ASSUME NEW d \in Callers, d # c PROVE CallInv(d)'
  <2>1. CallInv(d) /\ Same(d) /\ entity[d] \in Entities
    BY <1>1, <1>7, Frame DEF IInv, TypeOK
  <2> QED
    BY <1>1, <1>3, <1>4, <2>1, OthersStep
<1> QED
  BY <1>2, <1>3, <1>5, <1>6, <1>7 DEF IInv

\* A call of checkEntity begins.
LEMMA CheckEntityInv ==
    ASSUME IInv, NEW c \in Callers, NEW e \in Entities, CheckEntity(c, e)
    PROVE  IInv' /\ Lost' = Lost
<1>1. TypeOK /\ PoolInv /\ TableInv /\ CallInv(c)
  BY DEF IInv
<1>2. UNCHANGED <<mapping, table, free, faults, meta, todo, stmts, holding>>
  BY DEF CheckEntity, db
<1>3. /\ pc' = [pc EXCEPT ![c] = "connect"] /\ entity' = [entity EXCEPT ![c] = e]
      /\ upToDate' = [upToDate EXCEPT ![c] = HasColumnsAndIndexes(e) /\ table[e].pk]
      /\ hurt' = [hurt EXCEPT ![c] = FALSE] /\ pc[c] \in Ended
  BY DEF CheckEntity, Goto
<1>4. PoolInv' /\ free' \in 0 .. PoolSize /\ Lost' = Lost
  BY <1>1, <1>2, Keeps
<1>5. (HasColumnsAndIndexes(e) /\ table[e].pk) \in BOOLEAN
  BY <1>1 DEF TypeOK, Table, HasColumnsAndIndexes
<1>6. TypeOK'
  BY <1>1, <1>2, <1>3, <1>4, <1>5 DEF TypeOK, PCs
<1>7. TableInv'
  BY <1>1, <1>2 DEF TableInv
<1>8. CallInv(c)'
  <2>1. /\ pc'[c] = "connect" /\ entity'[c] = e /\ ~hurt'[c] /\ meta'[c] = meta[c]
        /\ upToDate'[c] = (HasColumnsAndIndexes(e) /\ table[e].pk)
        /\ stmts'[c] = stmts[c] /\ holding'[c] = holding[c]
    BY <1>1, <1>2, <1>3 DEF TypeOK
  <2>2. ~Executing(c) /\ ~holding[c] /\ meta[c] = NoTable
    BY <1>1, <1>3 DEF CallInv, PhaseInv, Ended, Reading
  <2>3. \A kind : Pending(c, kind)' = {}
    BY <2>1, <2>2, PendingNames, SamePending
  <2>4. ~Executing(c)'
    BY <2>1, <2>2 DEF Executing
  <2>5. HasColumnsAndIndexes(e)' <=> HasColumnsAndIndexes(e)
    BY <1>2 DEF HasColumnsAndIndexes
  <2>6. PhaseInv(c)' /\ MetaInv(c)'
    BY <2>1, <2>2, <2>4 DEF PhaseInv, MetaInv, Ended, Reading, NoTable
  <2>7. StmtInv(c)' /\ CreateInv(c)' /\ AddInv(c)' /\ Conforms(c)'
    BY <2>1, <2>3 DEF StmtInv, CreateInv, AddInv, Conforms
  <2>8. Quiet(c)'
    BY <1>2, <2>1, <2>4, <2>5 DEF Quiet
  <2> QED
    BY <2>6, <2>7, <2>8 DEF CallInv
<1>9. ASSUME NEW d \in Callers, d # c PROVE CallInv(d)'
  <2>1. Same(d)
    BY <1>1, <1>2, <1>3, <1>9 DEF Same, TypeOK
  <2>2. Grows(entity[d]) /\ CallInv(d)
    BY <1>2 DEF Grows, IInv
  <2> QED
    BY <1>1, <1>6, <2>1, <2>2, OthersStep
<1> QED
  BY <1>4, <1>6, <1>7, <1>8, <1>9 DEF IInv

\* The process dies: what its calls had in hand is gone, and the pool is new.
LEMMA CrashInv ==
    ASSUME IInv, Crash
    PROVE  IInv' /\ ~(Lost' > Lost)
<1>1. TypeOK /\ PoolInv /\ TableInv
  BY DEF IInv
<1>2. /\ UNCHANGED <<mapping, table, faults, entity, upToDate, hurt>>
      /\ free' = PoolSize
      /\ pc' = [c \in Callers |-> "idle"] /\ meta' = [c \in Callers |-> NoTable]
      /\ todo' = [c \in Callers |-> {}] /\ stmts' = [c \in Callers |-> <<>>]
      /\ holding' = [c \in Callers |-> FALSE]
  BY DEF Crash, db, began
<1>3. Holders' = {} /\ PoolSize \in Nat
  BY <1>2, DdlUtilAssumption DEF Holders
<1>4. IsFiniteSet(Holders') /\ Cardinality(Holders') = 0
  BY <1>3, FS_EmptySet
<1>5. PoolInv' /\ free' \in 0 .. PoolSize
  BY <1>2, <1>3, <1>4 DEF PoolInv
<1>6. ~(Lost' > Lost)
  <2>1. Cardinality(Holders) \in Nat /\ free \in 0 .. PoolSize /\ free + Cardinality(Holders) <= PoolSize
    BY <1>1, FS_CardinalityType DEF PoolInv, TypeOK
  <2> QED
    BY <1>2, <1>3, <1>4, <2>1 DEF Lost
<1>7. <<>> \in Seq(Statements) /\ NoTable \in Table
  BY DEF NoTable, Table
<1>8. TypeOK'
  BY <1>1, <1>2, <1>5, <1>7 DEF TypeOK, PCs, Ended
<1>9. TableInv'
  BY <1>1, <1>2 DEF TableInv
<1>10. ASSUME NEW c \in Callers PROVE CallInv(c)'
  <2>1. pc'[c] = "idle" /\ meta'[c] = NoTable /\ stmts'[c] = <<>> /\ ~holding'[c]
    BY <1>2
  <2>2. ~Executing(c)' /\ \A kind : Pending(c, kind)' = {}
    BY <2>1 DEF Executing, Pending
  <2> QED
    BY <2>1, <2>2 DEF CallInv, PhaseInv, MetaInv, StmtInv, CreateInv, AddInv, Conforms, Quiet,
         Ended, Reading, NoTable
<1> QED
  BY <1>5, <1>6, <1>8, <1>9, <1>10 DEF IInv

\* A step that changes nothing.
LEMMA StutterInv ==
    ASSUME IInv, UNCHANGED vars
    PROVE  IInv' /\ Lost' = Lost
<1>1. TypeOK /\ PoolInv /\ TableInv
  BY DEF IInv
<1>2. UNCHANGED <<mapping, table, free, faults, pc, entity, meta, todo, stmts, holding, hurt, upToDate>>
  BY DEF vars, db, call, began
<1>3. TypeOK'
  BY <1>1, <1>2 DEF TypeOK
<1>4. PoolInv' /\ Lost' = Lost
  BY <1>1, <1>2, Keeps
<1>5. TableInv'
  BY <1>1, <1>2 DEF TableInv
<1>6. ASSUME NEW d \in Callers PROVE CallInv(d)'
  <2>1. Same(d) /\ Grows(entity[d]) /\ CallInv(d)
    BY <1>2 DEF Same, Grows, IInv
  <2> QED
    BY <1>1, <1>3, <2>1, OthersStep
<1> QED
  BY <1>3, <1>4, <1>5, <1>6 DEF IInv

\* The invariant of checkEntity holds whatever the calls, the mappings, the tables found,
\* the size of the pool and the faults: what has been read of a table is still true, and
\* what the mapping asks for is there, still to be visited or about to be executed
\* (DdlUtil.java:154-207).
THEOREM Inductive == Spec => []IInv
<1>1. ASSUME IInv, [Next]_vars PROVE IInv'
  BY <1>1, CallStepInv, CheckEntityInv, CrashInv, StutterInv DEF Next
<1> QED
  BY InitInv, <1>1, PTL DEF Spec

\* Type correctness; with it, that the pool never holds more connections than it was
\* given (DdlUtil.java:97-116, 139-152).
THEOREM TypeCorrect == Spec => []TypeOK
<1>1. IInv => TypeOK
  BY DEF IInv
<1> QED
  BY <1>1, Inductive, PTL

\* A checkEntity that returns without a failure of its own leaves a table that conforms
\* (DdlUtil.java:154-207).
THEOREM ReturnedCorrect == Spec => []ReturnedMeansConforms
<1>1. IInv => ReturnedMeansConforms
  BY DEF IInv, CallInv, Conforms, ReturnedMeansConforms
<1> QED
  BY <1>1, Inductive, PTL

\* A call on a table that is up to date executes no SQL (DdlUtil.java:184, 193, 201).
THEOREM QuietCorrect == Spec => []UpToDateIsQuiet
<1>1. IInv => UpToDateIsQuiet
  BY DEF IInv, CallInv, Quiet, UpToDateIsQuiet
<1> QED
  BY <1>1, Inductive, PTL

\* Only metadata queries that throw lose a connection (DdlUtil.java:147-149).
THEOREM LostCorrect == Spec => LostOnlyByMetadata
<1> DEFINE A == Lost' > Lost => \E c \in Callers : pc[c] \in Reading /\ pc'[c] = "threw"
<1>1. ASSUME IInv, [Next]_vars PROVE [A]_vars
  <2>0. TypeOK /\ PoolInv /\ Lost \in Int
    <3>1. TypeOK /\ PoolInv
      BY <1>1 DEF IInv
    <3>2. Cardinality(Holders) \in Nat /\ free \in Int /\ PoolSize \in Nat
      BY <3>1, FS_CardinalityType, DdlUtilAssumption DEF PoolInv, TypeOK
    <3> QED
      BY <3>1, <3>2 DEF Lost
  <2>1. ASSUME NEW c \in Callers, CallStep(c) PROVE A
    <3>1. Lost' = Lost \/ MetadataThrows(c)
      BY <1>1, <2>1, PoolStep DEF IInv, CallInv
    <3>2. CASE Lost' = Lost
      BY <2>0, <3>2
    <3>3. CASE MetadataThrows(c)
      <4>1. pc[c] \in Reading /\ pc' = [pc EXCEPT ![c] = "threw"]
        BY <3>3 DEF MetadataThrows, EndCall, Goto
      <4>2. pc'[c] = "threw"
        BY <2>0, <4>1 DEF TypeOK
      <4> QED
        BY <4>1, <4>2
    <3> QED
      BY <3>1, <3>2, <3>3
  <2>2. ASSUME NEW c \in Callers, NEW e \in Entities, CheckEntity(c, e) PROVE A
    BY <1>1, <2>0, <2>2, CheckEntityInv
  <2>3. CASE Crash
    BY <1>1, <2>3, CrashInv
  <2> QED
    BY <1>1, <2>1, <2>2, <2>3 DEF Next
<1> QED
  BY <1>1, Inductive, PTL DEF Spec, LostOnlyByMetadata

\* No call and no crash ever takes anything from a table, and a table comes into being with
\* all columns of its mapping and its key (DdlUtil.java:161, 184-206).
THEOREM TablesOnlyGrow == Spec => [][\A e \in Entities : Grows(e)]_vars
<1>1. ASSUME IInv, [Next]_vars PROVE [\A e \in Entities : Grows(e)]_vars
  <2>1. ASSUME NEW c \in Callers, CallStep(c) PROVE \A e \in Entities : Grows(e)
    BY <1>1, <2>1, TableStep DEF IInv
  <2>2. ASSUME mapping' = mapping, table' = table PROVE \A e \in Entities : Grows(e)
    BY <2>2 DEF Grows
  <2>3. ASSUME NEW c \in Callers, NEW e \in Entities, CheckEntity(c, e)
        PROVE  mapping' = mapping /\ table' = table
    BY <2>3 DEF CheckEntity, db
  <2>4. CASE Crash
    BY <2>2, <2>4 DEF Crash, db
  <2> QED
    BY <1>1, <2>1, <2>2, <2>3, <2>4 DEF Next
<1> QED
  BY <1>1, Inductive, PTL DEF Spec
=============================================================================
