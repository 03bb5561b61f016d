------------------------------ MODULE DdlUtil ------------------------------
(***************************************************************************)
(* DdlUtil.checkEntity: brings the table of an entity class up to date.    *)
(* It reads the table's metadata once, over a connection of its own, then  *)
(* creates the table, or adds what the metadata lacks: columns, primary    *)
(* key, indexes.  Each addition takes a connection, executes its SQL and   *)
(* swallows what fails.  Calls of several threads, on the same table or on *)
(* others, interleave between any two JDBC calls.                          *)
(*                                                                         *)
(* The database and the connection pool are external: a table is a set of  *)
(* columns, a primary key or none, and the columns that have an index; a   *)
(* statement takes effect atomically, or fails and changes nothing.        *)
(***************************************************************************)
EXTENDS Integers, FiniteSets, Sequences

CONSTANTS Callers,   \* the threads that call checkEntity
          Entities,  \* the entity classes, one table each
          Names,     \* column names
          Mappings,  \* the object-relational mappings an entity may have
          PoolSize,  \* connections of the data source
          MaxFaults  \* bound on the JDBC calls that fail for a reason of their own

Mapping == [dialect : {"mysql", "oracle"},
            columns : SUBSET Names,         \* getColumnsForInsert()
            pk : Names,                     \* the column of the @Id field
            pkProp : BOOLEAN,               \* the @Id field is named like its column
            indexed : SUBSET Names,         \* the @Index fields
            untranslatable : SUBSET Names]  \* columns of a type or default not supported

\* getColumnsForInsert() holds the key's column with the others.
ASSUME DdlUtilAssumption ==
    /\ PoolSize \in Nat \ {0} /\ MaxFaults \in Nat
    /\ Entities # {}
    /\ Mappings \subseteq {m \in Mapping : m.pk \in m.columns}

Table == [exists : BOOLEAN, columns : SUBSET Names, pk : BOOLEAN, indexed : SUBSET Names]
NoTable == [exists |-> FALSE, columns |-> {}, pk |-> FALSE, indexed |-> {}]

VARIABLES
    mapping,  \* mapping[e]: the mapping of entity e
    table,    \* table[e]: its table, as the database has it
    free,     \* connections in the pool
    faults,   \* JDBC failures so far
    pc,       \* pc[c]: where the call of c stands
    entity,   \* entity[c]: the class it checks
    meta,     \* meta[c]: tableMetadata, as far as it has been read
    todo,     \* todo[c]: what the loop at hand has still to visit
    stmts,    \* stmts[c]: the SQL given to executeSql and not yet executed
    holding,  \* holding[c]: c holds a connection
    hurt,     \* hurt[c]: a JDBC call of this checkEntity has failed (history)
    upToDate  \* upToDate[c]: the table had all of the mapping when the call began (history)

db == <<mapping, table>>
began == <<entity, upToDate>>
call == <<began, meta, todo, stmts, hurt>>
vars == <<db, free, faults, pc, call, holding>>

Ended == {"idle", "returned", "threw"}
Reading == {"getTables", "getColumns", "getPrimaryKeys", "getIndexInfo"}
PCs == Ended \cup Reading \cup
    {"connect", "create", "createIndexes", "addColumns", "addPrimaryKey", "addIndexes"}

\* executeSql is at work: its SQL is executed while pc stays in the phase that gave it.
Executing(c) == stmts[c] # <<>>

Init ==
    /\ mapping \in [Entities -> Mappings]
    /\ table \in [Entities -> {t \in Table : t = NoTable \/ (t.exists /\ t.indexed \subseteq t.columns)}]
    /\ \A e \in Entities : table[e].pk => mapping[e].pk \in table[e].columns
    /\ free = PoolSize
    /\ faults = 0
    /\ pc = [c \in Callers |-> "idle"]
    /\ entity = [c \in Callers |-> CHOOSE e \in Entities : TRUE]
    /\ meta = [c \in Callers |-> NoTable]
    /\ todo = [c \in Callers |-> {}]
    /\ stmts = [c \in Callers |-> <<>>]
    /\ holding = [c \in Callers |-> FALSE]
    /\ hurt = [c \in Callers |-> FALSE]
    /\ upToDate = [c \in Callers |-> FALSE]

-----------------------------------------------------------------------------
(* The database: what a statement needs to succeed, and what it does.      *)

Applies(s, m, t) ==
    CASE s.kind = "create"     -> ~t.exists /\ m.pkProp
      [] s.kind = "column"     -> t.exists /\ s.column \notin t.columns
      [] s.kind = "primaryKey" -> t.exists /\ ~t.pk /\ s.column \in t.columns
      [] s.kind = "index"      -> t.exists /\ s.column \in t.columns \ t.indexed
      [] OTHER                 -> FALSE

Effect(s, m, t) ==
    CASE s.kind = "create"     -> [exists |-> TRUE, columns |-> m.columns, pk |-> TRUE,
                                   indexed |-> {}]
      [] s.kind = "column"     -> [t EXCEPT !.columns = @ \cup {s.column}]
      [] s.kind = "primaryKey" -> [t EXCEPT !.pk = TRUE]
      [] s.kind = "index"      -> [t EXCEPT !.indexed = @ \cup {s.column}]

Executed(s, m, t) == IF Applies(s, m, t) THEN Effect(s, m, t) ELSE t

\* DatabaseMetaData reports the index behind a primary key with the others.
IndexInfo(m, t) == t.indexed \cup IF t.pk THEN {m.pk} ELSE {}

\* The table has the part of the mapping that checkEntity brings about on either dialect.
HasColumnsAndIndexes(e) ==
    LET m == mapping[e] t == table[e] IN
    /\ t.exists
    /\ m.columns \subseteq t.columns
    /\ m.indexed \subseteq IndexInfo(m, t)

-----------------------------------------------------------------------------
(* DialectTranslator.                                                      *)

Stmt(kind, column) == [kind |-> kind, column |-> column]

GetCreateTableSql(m) == <<Stmt("create", m.pk)>>
GetAddColumnSql(column) == <<Stmt("column", column)>>
GetAddIndexSql(column) == <<Stmt("index", column)>>

\* On Oracle the "add constraint" text is built and dropped: what is executed is the
\* bare word " disable", a unique index, and "enable primary key".
GetAddPrimaryKeySql(m) ==
    IF m.dialect = "oracle"
    THEN <<Stmt("disable", m.pk)>> \o GetAddIndexSql(m.pk) \o <<Stmt("enable", m.pk)>>
    ELSE <<Stmt("primaryKey", m.pk)>>

-----------------------------------------------------------------------------
(* Connections.                                                            *)

\* getConnection takes one of the pool ...
GetConnection(c) ==
    /\ free > 0
    /\ free' = free - 1
    /\ holding' = [holding EXCEPT ![c] = TRUE]
    /\ UNCHANGED <<faults, hurt>>

\* ... or answers null: the pool is empty for too long, or the database refuses.
Fault(c) ==
    /\ faults < MaxFaults
    /\ faults' = faults + 1
    /\ hurt' = [hurt EXCEPT ![c] = TRUE]

\* A NoConnection that closes a connection it never had.
MutNoConnection(c) ==
    /\ Fault(c)
    /\ free' = free + 1
    /\ UNCHANGED holding
NoConnection(c) ==
    /\ \/ Fault(c)
       \/ (free = 0 /\ hurt' = [hurt EXCEPT ![c] = TRUE] /\ UNCHANGED faults)
    /\ UNCHANGED <<free, holding>>

CloseConnection(c) ==
    /\ holding' = [holding EXCEPT ![c] = FALSE]
    /\ free' = free + 1

Goto(c, to) == pc' = [pc EXCEPT ![c] = to]

\* The call is over, and its local variables with it.
EndCall(c, how) ==
    /\ Goto(c, how)
    /\ meta' = [meta EXCEPT ![c] = NoTable]
    /\ todo' = [todo EXCEPT ![c] = {}]

-----------------------------------------------------------------------------
(* getTableMetadata: the four queries of Database and Table.               *)

CheckEntity(c, e) ==
    /\ pc[c] \in Ended
    /\ Goto(c, "connect")
    /\ entity' = [entity EXCEPT ![c] = e]
    /\ upToDate' = [upToDate EXCEPT ![c] = HasColumnsAndIndexes(e) /\ table[e].pk]
    /\ hurt' = [hurt EXCEPT ![c] = FALSE]
    /\ UNCHANGED <<db, free, faults, meta, todo, stmts, holding>>

ConnectForMetadata(c) ==
    /\ pc[c] = "connect"
    /\ GetConnection(c)
    /\ Goto(c, "getTables")
    /\ UNCHANGED <<db, began, meta, todo, stmts>>

\* new Database(null) runs into a NullPointerException.
ConnectFails(c) ==
    /\ pc[c] = "connect"
    /\ NoConnection(c)
    /\ EndCall(c, "threw")
    /\ UNCHANGED <<db, began, stmts>>

\* A TableMissing that returns before the close.
MutTableMissing(c) ==
    /\ pc[c] = "getTables"
    /\ ~table[entity[c]].exists
    /\ holding' = [holding EXCEPT ![c] = FALSE]
    /\ Goto(c, "create")
    /\ UNCHANGED <<db, free, faults, call>>

\* No such table: the connection is closed, and checkEntity creates the table.
TableMissing(c) ==
    /\ pc[c] = "getTables"
    /\ ~table[entity[c]].exists
    /\ CloseConnection(c)
    /\ Goto(c, "create")
    /\ UNCHANGED <<db, faults, call>>

TableFound(c) ==
    /\ pc[c] = "getTables"
    /\ table[entity[c]].exists
    /\ meta' = [meta EXCEPT ![c].exists = TRUE]
    /\ Goto(c, "getColumns")
    /\ UNCHANGED <<db, free, faults, began, todo, stmts, holding, hurt>>

InitColumns(c) ==
    /\ pc[c] = "getColumns"
    /\ meta' = [meta EXCEPT ![c].columns = table[entity[c]].columns]
    /\ Goto(c, "getPrimaryKeys")
    /\ UNCHANGED <<db, free, faults, began, todo, stmts, holding, hurt>>

\* A failure of getPrimaryKeys is swallowed: the table looks as if it had no key.
InitPkColumns(c) ==
    /\ pc[c] = "getPrimaryKeys"
    /\ \/ /\ meta' = [meta EXCEPT ![c].pk = table[entity[c]].pk]
          /\ UNCHANGED <<faults, hurt>>
       \/ (Fault(c) /\ UNCHANGED meta)
    /\ Goto(c, "getIndexInfo")
    /\ UNCHANGED <<db, free, began, todo, stmts, holding>>

\* The last query; then the connection is closed and the loop over the columns starts.
InitIndexedColumns(c) ==
    LET e == entity[c] IN
    /\ pc[c] = "getIndexInfo"
    /\ meta' = [meta EXCEPT ![c].indexed = IndexInfo(mapping[e], table[e])]
    /\ CloseConnection(c)
    /\ todo' = [todo EXCEPT ![c] = mapping[e].columns \ meta[c].columns]
    /\ Goto(c, "addColumns")
    /\ UNCHANGED <<db, faults, began, stmts, hurt>>

\* A DdlException of Database leaves getTableMetadata before its close: the
\* connection is neither in the pool nor with a running call any more.
MetadataThrows(c) ==
    /\ pc[c] \in Reading \ {"getPrimaryKeys"}
    /\ Fault(c)
    /\ holding' = [holding EXCEPT ![c] = FALSE]
    /\ EndCall(c, "threw")
    /\ UNCHANGED <<db, free, began, stmts>>

-----------------------------------------------------------------------------
(* executeSql.                                                             *)

\* The phase at hand gives executeSql its statements.
Submit(c, sql) == stmts' = [stmts EXCEPT ![c] = sql]

ConnectForSql(c) ==
    /\ Executing(c) /\ ~holding[c]
    /\ GetConnection(c)
    /\ UNCHANGED <<db, pc, began, meta, todo, stmts>>

\* connection.createStatement() on null: caught, logged, the statements are dropped.
SqlWithoutConnection(c) ==
    /\ Executing(c) /\ ~holding[c]
    /\ NoConnection(c)
    /\ Submit(c, <<>>)
    /\ UNCHANGED <<db, pc, began, meta, todo>>

CloseAfterLast(c) ==
    IF Len(stmts[c]) = 1 THEN CloseConnection(c) ELSE UNCHANGED <<free, holding>>

ExecuteStatement(c) ==
    LET e == entity[c] IN
    /\ Executing(c) /\ holding[c]
    /\ table' = [table EXCEPT ![e] = Executed(Head(stmts[c]), mapping[e], table[e])]
    /\ Submit(c, Tail(stmts[c]))
    /\ CloseAfterLast(c)
    /\ UNCHANGED <<mapping, faults, pc, began, meta, todo, hurt>>

\* A statement the database refuses for a reason of its own: logged, the next one runs.
StatementFails(c) ==
    /\ Executing(c) /\ holding[c]
    /\ Fault(c)
    /\ Submit(c, Tail(stmts[c]))
    /\ CloseAfterLast(c)
    /\ UNCHANGED <<db, pc, began, meta, todo>>

-----------------------------------------------------------------------------
(* checkEntity, after the metadata.                                        *)

InPhase(c, phase) == pc[c] = phase /\ ~Executing(c)
Aside == UNCHANGED <<db, free, faults, began, holding, hurt>>

\* A CreateTable that returns without the loop over the indexes.
MutCreateTable(c) ==
    LET m == mapping[entity[c]] IN
    /\ InPhase(c, "create")
    /\ m.columns \cap m.untranslatable = {}
    /\ Submit(c, GetCreateTableSql(m))
    /\ Goto(c, "createIndexes")
    /\ UNCHANGED <<meta, todo>>
    /\ Aside

\* An unsupported column fails the translation of the whole statement.
CreateTable(c) ==
    LET m == mapping[entity[c]] IN
    /\ InPhase(c, "create")
    /\ m.columns \cap m.untranslatable = {}
    /\ Submit(c, GetCreateTableSql(m))
    /\ todo' = [todo EXCEPT ![c] = m.indexed]
    /\ Goto(c, "createIndexes")
    /\ UNCHANGED meta
    /\ Aside

CreateTableThrows(c) ==
    /\ InPhase(c, "create")
    /\ LET m == mapping[entity[c]] IN m.columns \cap m.untranslatable # {}
    /\ EndCall(c, "threw")
    /\ UNCHANGED stmts
    /\ Aside

\* One index of a new table; an @Index field that is no column throws.
CreateIndex(c, column) ==
    /\ InPhase(c, "createIndexes")
    /\ column \in todo[c] \cap mapping[entity[c]].columns
    /\ todo' = [todo EXCEPT ![c] = @ \ {column}]
    /\ Submit(c, GetAddIndexSql(column))
    /\ UNCHANGED <<pc, meta>>
    /\ Aside

AddColumn(c, column) ==
    /\ InPhase(c, "addColumns")
    /\ column \in todo[c] \ mapping[entity[c]].untranslatable
    /\ todo' = [todo EXCEPT ![c] = @ \ {column}]
    /\ Submit(c, GetAddColumnSql(column))
    /\ UNCHANGED <<pc, meta>>
    /\ Aside

AddColumnThrows(c) ==
    /\ InPhase(c, "addColumns")
    /\ todo[c] \cap mapping[entity[c]].untranslatable # {}
    /\ EndCall(c, "threw")
    /\ UNCHANGED stmts
    /\ Aside

ColumnsDone(c) ==
    /\ InPhase(c, "addColumns")
    /\ todo[c] = {}
    /\ Goto(c, "addPrimaryKey")
    /\ UNCHANGED <<meta, todo, stmts>>
    /\ Aside

\* The primary key, when the metadata shows none; then the loop over the indexes.
AddPrimaryKey(c) ==
    LET m == mapping[entity[c]] IN
    /\ InPhase(c, "addPrimaryKey")
    /\ Submit(c, IF meta[c].pk THEN <<>> ELSE GetAddPrimaryKeySql(m))
    /\ todo' = [todo EXCEPT ![c] = m.indexed]
    /\ Goto(c, "addIndexes")
    /\ UNCHANGED meta
    /\ Aside

\* An AddIndex that does not look at the metadata.
MutAddIndex(c, column) ==
    /\ InPhase(c, "addIndexes")
    /\ column \in todo[c] \cap mapping[entity[c]].columns
    /\ todo' = [todo EXCEPT ![c] = @ \ {column}]
    /\ Submit(c, GetAddIndexSql(column))
    /\ UNCHANGED <<pc, meta>>
    /\ Aside

AddIndex(c, column) ==
    /\ InPhase(c, "addIndexes")
    /\ column \in todo[c] \cap mapping[entity[c]].columns
    /\ todo' = [todo EXCEPT ![c] = @ \ {column}]
    /\ Submit(c, IF column \in meta[c].indexed THEN <<>> ELSE GetAddIndexSql(column))
    /\ UNCHANGED <<pc, meta>>
    /\ Aside

\* getColumnNameForSQL finds no column for an @Index field.
IndexThrows(c) ==
    /\ InPhase(c, "createIndexes") \/ InPhase(c, "addIndexes")
    /\ todo[c] \ mapping[entity[c]].columns # {}
    /\ EndCall(c, "threw")
    /\ UNCHANGED stmts
    /\ Aside

CheckEntityReturns(c) ==
    /\ InPhase(c, "createIndexes") \/ InPhase(c, "addIndexes")
    /\ todo[c] = {}
    /\ EndCall(c, "returned")
    /\ UNCHANGED stmts
    /\ Aside

-----------------------------------------------------------------------------
CallStep(c) ==
    \/ ConnectForMetadata(c) \/ ConnectFails(c) \/ MetadataThrows(c)
    \/ TableMissing(c) \/ TableFound(c)
    \/ InitColumns(c) \/ InitPkColumns(c) \/ InitIndexedColumns(c)
    \/ ConnectForSql(c) \/ SqlWithoutConnection(c)
    \/ ExecuteStatement(c) \/ StatementFails(c)
    \/ CreateTable(c) \/ CreateTableThrows(c)
    \/ AddColumnThrows(c) \/ ColumnsDone(c) \/ AddPrimaryKey(c)
    \/ IndexThrows(c) \/ CheckEntityReturns(c)
    \/ \E column \in Names :
          CreateIndex(c, column) \/ AddColumn(c, column) \/ AddIndex(c, column)

\* The process dies between any two JDBC calls: its calls and its pool are gone, the
\* database keeps what has been executed.
Crash ==
    /\ \E c \in Callers : pc[c] \notin Ended
    /\ free' = PoolSize
    /\ pc' = [c \in Callers |-> "idle"]
    /\ meta' = [c \in Callers |-> NoTable]
    /\ todo' = [c \in Callers |-> {}]
    /\ stmts' = [c \in Callers |-> <<>>]
    /\ holding' = [c \in Callers |-> FALSE]
    /\ UNCHANGED <<db, faults, began, hurt>>

Next ==
    \/ \E c \in Callers : CallStep(c) \/ \E e \in Entities : CheckEntity(c, e)
    \/ Crash

Spec == Init /\ [][Next]_vars

-----------------------------------------------------------------------------
(* Properties.                                                             *)

Statements == [kind : {"create", "column", "primaryKey", "index", "disable", "enable"},
               column : Names]

\* Type correctness of the database, the pool and the calls.
TypeOK ==
    /\ mapping \in [Entities -> Mapping]
    /\ table \in [Entities -> Table]
    /\ free \in 0 .. PoolSize
    /\ faults \in 0 .. MaxFaults
    /\ pc \in [Callers -> PCs]
    /\ entity \in [Callers -> Entities]
    /\ meta \in [Callers -> Table]
    /\ todo \in [Callers -> SUBSET Names]
    /\ stmts \in [Callers -> Seq(Statements)]
    /\ holding \in [Callers -> BOOLEAN]
    /\ hurt \in [Callers -> BOOLEAN]
    /\ upToDate \in [Callers -> BOOLEAN]

\* A checkEntity that returns and met no JDBC failure of its own leaves the table with
\* every column and index of the mapping and, on MySQL, its primary key: whatever other
\* threads or earlier, interrupted processes did to the table meanwhile
\* (DdlUtil.java:154-207).
ReturnedMeansConforms ==
    \A c \in Callers :
        LET e == entity[c] IN
        (pc[c] = "returned" /\ ~hurt[c] /\ mapping[e].pkProp) =>
            /\ HasColumnsAndIndexes(e)
            /\ mapping[e].dialect = "mysql" => table[e].pk

\* A restart leaves an up-to-date schema alone: a call on a table that had, when the
\* call began, all of its mapping executes no SQL, unless a metadata query failed,
\* whatever other calls do meanwhile (DdlUtil.java:184, 193, 201).
UpToDateIsQuiet ==
    \A c \in Callers :
        (pc[c] \notin Ended /\ upToDate[c] /\ ~hurt[c]) => ~Executing(c)

Holders == {c \in Callers : holding[c]}
Lost == PoolSize - free - Cardinality(Holders)

\* A connection leaves the pool for good only when the metadata queries throw
\* (DdlUtil.java:147-149): every other way out of executeSql or getTableMetadata closes it.
LostOnlyByMetadata ==
    [][Lost' > Lost => \E c \in Callers : pc[c] \in Reading /\ pc'[c] = "threw"]_vars

\* What the log of DdlUtil.java:195 says it does: a table without a primary key has one
\* when the call that met no failure returns.
PrimaryKeyAdded ==
    \A c \in Callers :
        (pc[c] = "returned" /\ ~hurt[c] /\ mapping[entity[c]].pkProp) => table[entity[c]].pk

-----------------------------------------------------------------------------
(* Why they hold.  A table only grows, and comes into being with all       *)
(* columns and its key; what a call has read of it is still true.  What    *)
(* the mapping asks for is there, or still to be visited, or about to be   *)
(* executed.                                                               *)

Pending(c, kind) == {x \in Names : \E i \in DOMAIN stmts[c] : stmts[c][i] = Stmt(kind, x)}

PoolInv == IsFiniteSet(Holders) /\ free + Cardinality(Holders) <= PoolSize

\* Where a call holds a connection, executes SQL, or has read nothing yet.
PhaseInv(c) ==
    /\ pc[c] \in Reading => holding[c]
    /\ holding[c] => pc[c] \in Reading \/ Executing(c)
    /\ Executing(c) => pc[c] \in {"createIndexes", "addColumns", "addIndexes"}
    /\ pc[c] \in Ended \cup {"connect", "getTables", "create", "createIndexes"} =>
          meta[c] = NoTable

MetaInv(c) ==
    LET e == entity[c] t == table[e] IN
    /\ pc[c] \in {"getColumns", "getPrimaryKeys", "getIndexInfo", "addColumns", "addPrimaryKey",
                  "addIndexes"} => t.exists
    /\ meta[c].columns \subseteq t.columns
    /\ meta[c].pk => t.pk
    /\ meta[c].indexed \subseteq IndexInfo(mapping[e], t)

\* The statements are about columns of the mapping.
StmtInv(c) ==
    LET m == mapping[entity[c]] IN
    /\ Pending(c, "index") \subseteq m.columns
    /\ Pending(c, "primaryKey") \subseteq {m.pk}

CreateInv(c) ==
    LET e == entity[c] m == mapping[e] t == table[e] IN
    /\ pc[c] \in {"create", "createIndexes"} /\ t.exists => m.columns \subseteq t.columns /\ t.pk
    /\ pc[c] = "createIndexes" /\ ~hurt[c] /\ m.pkProp =>
          /\ t.exists \/ Pending(c, "create") # {}
          /\ Pending(c, "create") # {} => Pending(c, "index") = {}
          /\ m.indexed \subseteq todo[c] \cup Pending(c, "index") \cup IndexInfo(m, t)

AddInv(c) ==
    LET e == entity[c] m == mapping[e] t == table[e] IN
    ~hurt[c] =>
        /\ pc[c] = "addColumns" => m.columns \subseteq t.columns \cup todo[c] \cup Pending(c, "column")
        /\ pc[c] \in {"addPrimaryKey", "addIndexes"} => m.columns \subseteq t.columns
        /\ pc[c] = "addIndexes" =>
              /\ m.dialect = "mysql" => t.pk \/ Pending(c, "primaryKey") # {}
              /\ m.indexed \subseteq todo[c] \cup Pending(c, "index") \cup IndexInfo(m, t)

Conforms(c) ==
    LET e == entity[c] IN
    (pc[c] = "returned" /\ ~hurt[c] /\ mapping[e].pkProp) =>
        /\ HasColumnsAndIndexes(e)
        /\ mapping[e].dialect = "mysql" => table[e].pk

Quiet(c) ==
    LET e == entity[c] m == mapping[e] IN
    (pc[c] \notin Ended /\ upToDate[c] /\ ~hurt[c]) =>
        /\ HasColumnsAndIndexes(e) /\ table[e].pk
        /\ pc[c] \notin {"create", "createIndexes"} /\ ~Executing(c)
        /\ pc[c] \in {"getPrimaryKeys", "getIndexInfo"} => m.columns \subseteq meta[c].columns
        /\ pc[c] \in {"getIndexInfo", "addColumns", "addPrimaryKey", "addIndexes"} => meta[c].pk
        /\ pc[c] \in {"addColumns", "addPrimaryKey", "addIndexes"} => m.indexed \subseteq meta[c].indexed
        /\ pc[c] = "addColumns" => todo[c] = {}
        /\ pc[c] = "addIndexes" => todo[c] \subseteq m.indexed

CallInv(c) ==
    /\ PhaseInv(c) /\ MetaInv(c) /\ StmtInv(c)
    /\ CreateInv(c) /\ AddInv(c) /\ Conforms(c) /\ Quiet(c)

TableInv == \A e \in Entities :
    /\ mapping[e] \in Mappings
    /\ ~table[e].exists => table[e] = NoTable

\* Between any two JDBC calls, whatever the other callers did: what a call has read is
\* true, and nothing that the mapping asks for has been passed over (DdlUtil.java:154-207).
IInv == TypeOK /\ PoolInv /\ TableInv /\ \A c \in Callers : CallInv(c)
=============================================================================
