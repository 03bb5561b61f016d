-------------------------- MODULE DdlSystemProofs --------------------------
(* The composition of Ddl and DdlUtil takes no step that Ddl alone would   *)
(* not take: what is proved of the listener with an abstract checkEntity   *)
(* holds of the listener with the real one.                                *)
EXTENDS DdlSystem, DdlProofs

\* A step of the composed system is a step of the listener, or leaves all of its state
\* alone (a step inside checkEntity).
LEMMA SystemStep == SystemNext => [Next]_vars
<1> SUFFICES ASSUME SystemNext PROVE [Next]_vars
    OBVIOUS
<1>1. PICK ev \in Events :
        \/ \E hasParent \in BOOLEAN : OnApplicationEvent(ev, hasParent) /\ Aside
        \/ HandlerThread(ev)
        \/ \E t \in Workers : PoolThread(ev, t)
    BY DEF SystemNext
<1>2. CASE \E hasParent \in BOOLEAN : OnApplicationEvent(ev, hasParent) /\ Aside
    BY <1>2 DEF Next
<1>3. CASE HandlerThread(ev)
    <2>1. CASE HandlerChecks(ev)
        <3>1. HandlerStep(ev)
            BY <2>1 DEF HandlerChecks, HandlerStep
        <3> QED
            BY <3>1 DEF Next
    <2>2. CASE InCall(ev, 0)
        BY <2>2 DEF InCall
    <2>3. CASE HandlerMoves(ev) /\ Aside
        <3>1. HandlerStep(ev)
            BY <2>3 DEF HandlerMoves, HandlerStep
        <3> QED
            BY <3>1 DEF Next
    <2> QED
        BY <1>3, <2>1, <2>2, <2>3 DEF HandlerThread
<1>4. CASE \E t \in Workers : PoolThread(ev, t)
    <2>1. PICK t \in Workers : PoolThread(ev, t)
        BY <1>4
    <2>2. CASE WorkerChecks(ev, t)
        <3>1. WorkerStep(ev, t)
            BY <2>2 DEF WorkerChecks, WorkerStep
        <3> QED
            BY <3>1 DEF Next
    <2>3. CASE InCall(ev, t)
        BY <2>3 DEF InCall
    <2>4. CASE WorkerMoves(ev, t) /\ Aside
        <3>1. WorkerStep(ev, t)
            BY <2>4 DEF WorkerMoves, WorkerStep
        <3> QED
            BY <3>1 DEF Next
    <2> QED
        BY <2>1, <2>2, <2>3, <2>4 DEF PoolThread
<1> QED
    BY <1>1, <1>2, <1>3, <1>4

\* The composed system is an implementation of the listener's specification
\* (Ddl.java:58 and 79 call the checkEntity of DdlUtil.java:154-207).
THEOREM SystemImplementsListener == SystemSpec => Spec
<1>1. SystemInit => Init
    BY DEF SystemInit
<1>2. [SystemNext]_systemVars => [Next]_vars
    BY SystemStep DEF systemVars
<1> QED
    BY <1>1, <1>2, PTL DEF SystemSpec, Spec

\* In the composed system too, a finish event is published only when the call of
\* checkEntity for every scanned class has returned (Ddl.java:60, 88-90).
THEOREM SystemFinishCorrect == SystemSpec => []FinishMeansChecked
BY SystemImplementsListener, FinishCorrect, PTL

\* In the composed system too, a thread that dies of an exception leaves no class
\* unvisited when another thread of its pool runs to its end (Ddl.java:81).
THEOREM SystemNothingSkipped == SystemSpec => []NothingLeftBehind
BY SystemImplementsListener, NothingSkipped, PTL

-----------------------------------------------------------------------------
(* What is proved of checkEntity holds in the composition, too.            *)

Checks == INSTANCE DdlUtilProofs

\* What the proofs of DdlUtil assume of its constants.
LEMMA ChecksAssumption == Checks!DdlUtilAssumption
BY DdlSystemAssumption DEF Util!DdlUtilAssumption, Checks!DdlUtilAssumption, Util!Mapping,
     Checks!Mapping

\* The two instances of DdlUtil are the same.
LEMMA SameModule ==
    /\ \A c \in Callers : Util!CallStep(c) <=> Checks!CallStep(c)
    /\ \A c \in Callers, e \in Entities : Util!CheckEntity(c, e) <=> Checks!CheckEntity(c, e)
    /\ \A e \in Entities : Util!HasColumnsAndIndexes(e) <=> Checks!HasColumnsAndIndexes(e)
    /\ Util!Ended = Checks!Ended
    /\ Util!Init => Checks!Init
<1>1. ASSUME NEW c \in Callers PROVE Util!CallStep(c) <=> Checks!CallStep(c)
  BY DEF Util!ConnectForMetadata, Util!ConnectFails, Util!MetadataThrows,
     Util!TableMissing, Util!TableFound, Util!InitColumns, Util!InitPkColumns,
     Util!InitIndexedColumns, Util!ConnectForSql, Util!SqlWithoutConnection,
     Util!ExecuteStatement, Util!StatementFails, Util!CreateTable, Util!CreateTableThrows,
     Util!AddColumnThrows, Util!ColumnsDone, Util!AddPrimaryKey, Util!IndexThrows,
     Util!CheckEntityReturns, Util!CreateIndex, Util!AddColumn, Util!AddIndex,
     Util!CallStep, Util!db, Util!began, Util!call, Util!Goto, Util!EndCall, Util!Submit,
     Util!Aside, Util!InPhase, Util!Executing, Util!GetConnection, Util!NoConnection,
     Util!Fault, Util!CloseConnection, Util!CloseAfterLast, Util!Reading, Util!Ended,
     Util!NoTable, Util!IndexInfo, Util!Executed, Util!Applies, Util!Effect,
     Util!GetCreateTableSql, Util!GetAddColumnSql, Util!GetAddIndexSql,
     Util!GetAddPrimaryKeySql, Util!Stmt, Checks!ConnectForMetadata, Checks!ConnectFails,
     Checks!MetadataThrows, Checks!TableMissing, Checks!TableFound, Checks!InitColumns,
     Checks!InitPkColumns, Checks!InitIndexedColumns, Checks!ConnectForSql,
     Checks!SqlWithoutConnection, Checks!ExecuteStatement, Checks!StatementFails,
     Checks!CreateTable, Checks!CreateTableThrows, Checks!AddColumnThrows,
     Checks!ColumnsDone, Checks!AddPrimaryKey, Checks!IndexThrows,
     Checks!CheckEntityReturns, Checks!CreateIndex, Checks!AddColumn, Checks!AddIndex,
     Checks!CallStep, Checks!db, Checks!began, Checks!call, Checks!Goto, Checks!EndCall,
     Checks!Submit, Checks!Aside, Checks!InPhase, Checks!Executing, Checks!GetConnection,
     Checks!NoConnection, Checks!Fault, Checks!CloseConnection, Checks!CloseAfterLast,
     Checks!Reading, Checks!Ended, Checks!NoTable, Checks!IndexInfo, Checks!Executed,
     Checks!Applies, Checks!Effect, Checks!GetCreateTableSql, Checks!GetAddColumnSql,
     Checks!GetAddIndexSql, Checks!GetAddPrimaryKeySql, Checks!Stmt
<1>2. ASSUME NEW c \in Callers, NEW e \in Entities
      PROVE  Util!CheckEntity(c, e) <=> Checks!CheckEntity(c, e)
  BY DEF Util!CheckEntity, Util!Goto, Util!Ended, Util!HasColumnsAndIndexes,
     Util!IndexInfo, Util!db, Checks!CheckEntity, Checks!Goto, Checks!Ended,
     Checks!HasColumnsAndIndexes, Checks!IndexInfo, Checks!db
<1>3. ASSUME NEW e \in Entities
      PROVE  Util!HasColumnsAndIndexes(e) <=> Checks!HasColumnsAndIndexes(e)
  BY DEF Util!HasColumnsAndIndexes, Util!IndexInfo, Checks!HasColumnsAndIndexes,
     Checks!IndexInfo
<1>4. Util!Ended = Checks!Ended
  BY DEF Util!Ended, Checks!Ended
<1>5. Util!Init => Checks!Init
  BY DEF Util!Init, Checks!Init, Util!NoTable, Checks!NoTable, Util!Table, Checks!Table
<1> QED
  BY <1>1, <1>2, <1>3, <1>4, <1>5

\* The threads of a round are callers of checkEntity, and its own thread is not of the pool.
LEMMA ThreadNames ==
    ASSUME TypeOK
    PROVE  /\ Workers \subseteq ThreadIds /\ 0 \notin ThreadIds
           /\ \A ev \in Events : <<ev, 0>> \in Callers /\ \A t \in ThreadIds : <<ev, t>> \in Callers
<1>1. threads \in ThreadSettings
  BY DEF TypeOK
<1>2. Workers \subseteq ThreadIds
  BY <1>1 DEF Workers, ThreadIds
<1>3. 0 \notin ThreadIds
  BY DdlAssumption DEF ThreadIds
<1> QED
  BY <1>2, <1>3 DEF Callers

\* The class a thread checks, or is about to check, is one of the list.
LEMMA InList ==
    ASSUME IInv, NEW ev \in Events
    PROVE  /\ handler[ev] = "iterating" /\ cursor[ev] < classCount => cursor[ev] \in Positions
           /\ handler[ev] = "checking" => cursor[ev] \in 0 .. classCount - 1
           /\ Get(entityIndex[ev]) < classCount => Get(entityIndex[ev]) \in Positions
           /\ \A t \in Workers : worker[ev][t] = "checking" =>
                 /\ index[ev][t] \in 0 .. classCount - 1
                 /\ status[ev][index[ev][t]] = "checking"
           /\ handler[ev] = "checking" => status[ev][cursor[ev]] = "checking"
           /\ 0 .. classCount - 1 \subseteq Positions
<1>1. /\ classCount \in Nat /\ classCount <= MaxClasses /\ MaxClasses \in Nat
      /\ cursor[ev] \in Nat /\ entityIndex[ev] \in Counter
  BY DdlAssumption DEF IInv, TypeOK
<1>2. Get(entityIndex[ev]) \in Nat
  BY <1>1, GetType
<1>3. 0 .. classCount - 1 \subseteq Positions
  BY <1>1 DEF Positions
<1>4. CASE threads <= 1
  <2>1. LoopInv(ev)
    BY <1>4 DEF IInv
  <2> QED
    BY <1>1, <1>2, <1>3, <2>1 DEF LoopInv, Positions
<1>5. CASE ~(threads <= 1)
  <2>1. PoolInv(ev)
    BY <1>5 DEF IInv
  <2>2. handler[ev] # "checking" /\ handler[ev] # "iterating"
    BY <2>1 DEF PoolInv
  <2>3. ASSUME NEW t \in Workers, worker[ev][t] = "checking"
        PROVE  index[ev][t] \in 0 .. classCount - 1 /\ status[ev][index[ev][t]] = "checking"
    BY <1>3, <2>1, <2>3 DEF PoolInv, ClaimInv, Holds
  <2> QED
    BY <1>1, <1>2, <1>3, <2>2, <2>3 DEF Positions
<1> QED
  BY <1>4, <1>5

RoundOf(ev) ==
    \/ \E hasParent \in BOOLEAN : OnApplicationEvent(ev, hasParent) /\ Aside
    \/ HandlerThread(ev)
    \/ \E t \in Workers : PoolThread(ev, t)

\* To checkEntity a step of the composition is a step of one call, the begin of one, or
\* nothing.
LEMMA UtilStep ==
    ASSUME IInv, SystemInv, NEW ev \in Events, RoundOf(ev)
    PROVE  \/ \E c \in Callers : Checks!CallStep(c)
           \/ \E c \in Callers, e \in Entities : Checks!CheckEntity(c, e)
           \/ UNCHANGED utilVars
<1>0. TypeOK /\ classes \in [Positions -> Entities]
  BY DEF IInv, SystemInv
<1>1. ASSUME NEW t \in Workers \cup {0}, InCall(ev, t)
      PROVE  \E c \in Callers : Checks!CallStep(c)
  <2>1. <<ev, t>> \in Callers /\ Util!CallStep(<<ev, t>>)
    BY <1>0, <1>1, ThreadNames DEF InCall
  <2> QED
    BY <2>1, SameModule
<1>2. ASSUME NEW t \in Workers \cup {0}, NEW p \in Positions, Enter(ev, t, p)
      PROVE  \E c \in Callers, e \in Entities : Checks!CheckEntity(c, e)
  <2>1. <<ev, t>> \in Callers /\ classes[p] \in Entities /\ Util!CheckEntity(<<ev, t>>, classes[p])
    BY <1>0, <1>2, ThreadNames DEF Enter
  <2> QED
    BY <2>1, SameModule
<1>3. CASE HandlerThread(ev)
  <2>1. ASSUME IterateNext(ev), Enter(ev, 0, cursor[ev])
        PROVE  \E c \in Callers, e \in Entities : Checks!CheckEntity(c, e)
    BY <1>2, <2>1, InList DEF IterateNext
  <2> QED
    BY <1>1, <1>3, <2>1 DEF HandlerThread, HandlerChecks, Leave, Aside
<1>4. ASSUME NEW t \in Workers, PoolThread(ev, t)
      PROVE  \/ \E c \in Callers : Checks!CallStep(c)
             \/ \E c \in Callers, e \in Entities : Checks!CheckEntity(c, e)
             \/ UNCHANGED utilVars
  <2>1. ASSUME Claim(ev, t), Enter(ev, t, Get(entityIndex[ev]))
        PROVE  \E c \in Callers, e \in Entities : Checks!CheckEntity(c, e)
    BY <1>2, <2>1, InList DEF Claim
  <2> QED
    BY <1>1, <1>4, <2>1 DEF PoolThread, WorkerChecks, Leave, Aside
<1> QED
  BY <1>3, <1>4 DEF RoundOf, Aside

\* What conforms goes on conforming.
LEMMA ConformsOn ==
    ASSUME Checks!IInv, NEW e \in Entities, TableConforms(e),
           \/ \E c \in Callers : Checks!CallStep(c)
           \/ \E c \in Callers, f \in Entities : Checks!CheckEntity(c, f)
           \/ UNCHANGED utilVars
    PROVE  TableConforms(e)'
<1>1. Checks!TypeOK /\ Checks!TableInv
  BY DEF Checks!IInv
<1>2. CASE \E c \in Callers : Checks!CallStep(c)
  <2>1. Checks!Grows(e)
    BY <1>1, <1>2, ChecksAssumption, Checks!TableStep
  <2> QED
    BY <2>1 DEF Checks!Grows, TableConforms, Util!HasColumnsAndIndexes, Util!IndexInfo
<1>3. CASE UNCHANGED utilVars \/ \E c \in Callers, f \in Entities : Checks!CheckEntity(c, f)
  <2>1. mapping' = mapping /\ table' = table
    BY <1>3 DEF utilVars, Checks!CheckEntity, Checks!db
  <2> QED
    BY <2>1 DEF TableConforms, Util!HasColumnsAndIndexes, Util!IndexInfo
<1> QED
  BY <1>2, <1>3

\* A step of a round leaves the threads of the others where they are, in the listener and
\* in checkEntity.
LEMMA RoundBeside ==
    ASSUME IInv, Checks!IInv, NEW ev \in Events, RoundOf(ev), NEW other \in Events \ {ev}
    PROVE  /\ handler'[other] = handler[other] /\ cursor'[other] = cursor[other]
           /\ worker'[other] = worker[other] /\ index'[other] = index[other]
           /\ status'[other] = status[other] /\ Workers' = Workers /\ classes' = classes
           /\ \A t \in ThreadIds \cup {0} :
                 pc'[<<other, t>>] = pc[<<other, t>>] /\ entity'[<<other, t>>] = entity[<<other, t>>]
           /\ other \notin impaired' => other \notin impaired
<1>0. TypeOK /\ Checks!TypeOK
  BY DEF IInv, Checks!IInv
<1>1. RoundStep(ev) \/ UNCHANGED vars
  BY DEF RoundOf, RoundStep, HandlerThread, HandlerChecks, HandlerMoves, InCall, HandlerStep,
       PoolThread, WorkerChecks, WorkerMoves, WorkerStep
<1>2. /\ handler'[other] = handler[other] /\ cursor'[other] = cursor[other]
      /\ worker'[other] = worker[other] /\ index'[other] = index[other]
      /\ status'[other] = status[other] /\ Workers' = Workers
  BY <1>0, <1>1, StepBeside DEF Beside, vars, config, pool, Workers
<1>3. classes' = classes /\ (other \notin impaired' => other \notin impaired)
  BY DEF RoundOf, HandlerThread, HandlerChecks, HandlerMoves, InCall, PoolThread, WorkerChecks,
       WorkerMoves, Enter, Leave, Aside
<1>4. ASSUME NEW t \in ThreadIds \cup {0}
      PROVE  pc'[<<other, t>>] = pc[<<other, t>>] /\ entity'[<<other, t>>] = entity[<<other, t>>]
  <2>0. <<other, t>> \in Callers
    BY DEF Callers
  <2>1. ASSUME NEW u \in Workers \cup {0}, InCall(ev, u)
        PROVE  pc'[<<other, t>>] = pc[<<other, t>>] /\ entity'[<<other, t>>] = entity[<<other, t>>]
    <3>1. <<ev, u>> \in Callers /\ Checks!CallStep(<<ev, u>>) /\ <<other, t>> # <<ev, u>>
      BY <1>0, <2>1, ThreadNames, SameModule DEF InCall
    <3>2. Checks!Same(<<other, t>>)
      BY <1>0, <2>0, <3>1, ChecksAssumption, Checks!Frame
    <3> QED
      BY <3>2 DEF Checks!Same
  <2>2. ASSUME NEW u \in Workers \cup {0}, NEW p, Enter(ev, u, p)
        PROVE  pc'[<<other, t>>] = pc[<<other, t>>] /\ entity'[<<other, t>>] = entity[<<other, t>>]
    <3>1. /\ pc' = [pc EXCEPT ![<<ev, u>>] = "connect"]
          /\ entity' = [entity EXCEPT ![<<ev, u>>] = classes[p]]
          /\ <<other, t>> # <<ev, u>>
      BY <2>2 DEF Enter, Util!CheckEntity, Util!Goto
    <3> QED
      BY <1>0, <2>0, <3>1 DEF Checks!TypeOK
  <2>3. \/ pc' = pc /\ entity' = entity
        \/ \E u \in Workers \cup {0} : InCall(ev, u) \/ \E p : Enter(ev, u, p)
    BY DEF RoundOf, HandlerThread, HandlerChecks, HandlerMoves, PoolThread, WorkerChecks,
         WorkerMoves, Leave, Aside, utilVars
  <2> QED
    BY <2>1, <2>2, <2>3
<1> QED
  BY <1>2, <1>3, <1>4

\* Threads enter checkEntity when they check a class, and check it until they leave.
LEMMA ThreadStep ==
    ASSUME IInv, Checks!IInv, SystemInv, NEW ev \in Events, RoundOf(ev)
    PROVE  ThreadInv(ev)'
<1>0. /\ TypeOK /\ Checks!TypeOK /\ ThreadInv(ev)
      /\ Workers \subseteq ThreadIds /\ 0 \notin ThreadIds
      /\ \A t \in ThreadIds \cup {0} : <<ev, t>> \in Callers
  BY ThreadNames DEF IInv, Checks!IInv, SystemInv
<1>a. ev \in Events /\ pc \in [Callers -> Checks!PCs] /\ entity \in [Callers -> Entities]
  BY <1>0 DEF Checks!TypeOK
<1>b. /\ handler \in [Events -> HandlerStates] /\ cursor \in [Events -> Nat]
      /\ worker \in [Events -> [Workers -> WorkerStates]]
      /\ index \in [Events -> [Workers -> Counter]]
  BY <1>0 DEF TypeOK
<1> USE <1>0, <1>a, <1>b DEF ThreadInv
\* The steps outside checkEntity are not taken by a thread that checks.
<1>1. ASSUME UNCHANGED <<pc, entity, classes>>, Workers' = Workers,
             handler[ev] # "checking" => handler'[ev] # "checking",
             handler[ev] = "checking" => handler'[ev] = "checking" /\ cursor'[ev] = cursor[ev],
             \A t \in Workers : worker[ev][t] # "checking" => worker'[ev][t] # "checking",
             \A t \in Workers : worker[ev][t] = "checking" =>
                worker'[ev][t] = "checking" /\ index'[ev][t] = index[ev][t]
      PROVE  ThreadInv(ev)'
  BY <1>1
<1>2. CASE \E hasParent \in BOOLEAN : OnApplicationEvent(ev, hasParent) /\ Aside
  BY <1>1, <1>2 DEF OnApplicationEvent, Aside, utilVars, config, pool, Workers
<1>3. ASSUME IterateFinishes(ev) \/ StartReturns(ev), Aside PROVE ThreadInv(ev)'
  BY <1>1, <1>3 DEF IterateFinishes, StartReturns, Aside, utilVars, config, pool, Workers
<1>4. ASSUME StartThread(ev), Aside PROVE ThreadInv(ev)'
  <2>0. /\ handler' = handler /\ index' = index /\ Workers' = Workers
        /\ UNCHANGED <<pc, entity, classes>> /\ handler[ev] = "starting"
        /\ worker' = [worker EXCEPT ![ev][cursor[ev] + 1] = "claiming"]
    BY <1>4 DEF StartThread, Aside, utilVars, config, Workers
  <2>1. ~(threads <= 1)
    BY <2>0 DEF IInv, LoopInv
  <2>2. PoolInv(ev)
    BY <2>1 DEF IInv
  <2>3. \A t \in Workers : worker[ev][t] = "checking" => t # cursor[ev] + 1
    <3>1. ASSUME NEW t \in Workers, t = cursor[ev] + 1 PROVE worker[ev][t] = "new"
      <4>1. t > cursor[ev]
        BY <3>1
      <4> QED
        BY <2>2, <4>1 DEF PoolInv
    <3> QED
      BY <3>1
  <2>4. \A t \in Workers : worker'[ev][t] = IF t = cursor[ev] + 1 THEN "claiming" ELSE worker[ev][t]
    BY <2>0
  <2> QED
    BY <1>1, <2>0, <2>3, <2>4
<1>5. ASSUME NEW t \in Workers, LeaveLoop(ev, t) \/ CountFinished(ev, t) \/ Publish(ev, t), Aside
      PROVE  ThreadInv(ev)'
  <2>1. /\ worker[ev][t] # "checking" /\ handler' = handler /\ cursor' = cursor
        /\ Workers' = Workers /\ UNCHANGED <<pc, entity, classes>>
    BY <1>5 DEF LeaveLoop, CountFinished, Publish, Aside, utilVars, config, Workers
  <2>2. /\ worker'[ev][t] # "checking"
        /\ \A u \in Workers \ {t} : worker'[ev][u] = worker[ev][u] /\ index'[ev][u] = index[ev][u]
    BY <1>5 DEF LeaveLoop, CountFinished, Publish
  <2> QED
    BY <1>1, <2>1, <2>2
\* Inside checkEntity a thread stays with its entity.
<1>6. ASSUME NEW t \in Workers \cup {0}, InCall(ev, t) PROVE ThreadInv(ev)'
  <2>1. /\ UNCHANGED <<handler, cursor, worker, index, classes>> /\ Workers' = Workers
        /\ Checks!CallStep(<<ev, t>>) /\ <<ev, t>> \in Callers
    BY <1>6, SameModule DEF InCall, vars, config, pool, Workers
  <2>2. pc[<<ev, t>>] \notin Util!Ended /\ entity' = entity
    BY <2>1, ChecksAssumption, Checks!Running, SameModule DEF Checks!IInv, Checks!CallInv
  <2>3. ASSUME NEW u \in ThreadIds \cup {0}, u # t PROVE pc'[<<ev, u>>] = pc[<<ev, u>>]
    <3>1. Checks!Same(<<ev, u>>)
      BY <2>1, <2>3, ChecksAssumption, Checks!Frame
    <3> QED
      BY <3>1 DEF Checks!Same
  <2> QED
    BY <2>1, <2>2, <2>3
<1>7. ASSUME NEW t \in Workers \cup {0}, NEW p, Enter(ev, t, p)
      PROVE  /\ classes' = classes /\ entity'[<<ev, t>>] = classes[p]
             /\ \A u \in ThreadIds \cup {0} : u # t =>
                   pc'[<<ev, u>>] = pc[<<ev, u>>] /\ entity'[<<ev, u>>] = entity[<<ev, u>>]
  <2>1. /\ pc' = [pc EXCEPT ![<<ev, t>>] = "connect"] /\ classes' = classes
        /\ entity' = [entity EXCEPT ![<<ev, t>>] = classes[p]]
    BY <1>7 DEF Enter, Util!CheckEntity, Util!Goto
  <2>2. \A u \in ThreadIds \cup {0} : u # t => <<ev, u>> # <<ev, t>>
    OBVIOUS
  <2> QED
    BY <2>1, <2>2
<1>8. ASSUME IterateNext(ev), Enter(ev, 0, cursor[ev]) PROVE ThreadInv(ev)'
  <2>1. /\ handler'[ev] = "checking" /\ cursor' = cursor /\ worker' = worker /\ index' = index
        /\ Workers' = Workers
    BY <1>8 DEF IterateNext, config, pool, Workers
  <2>2. /\ classes' = classes /\ entity'[<<ev, 0>>] = classes[cursor[ev]]
        /\ \A u \in ThreadIds : pc'[<<ev, u>>] = pc[<<ev, u>>] /\ entity'[<<ev, u>>] = entity[<<ev, u>>]
    BY <1>7, <1>8
  <2> QED
    BY <2>1, <2>2
<1>9. ASSUME NEW t \in Workers, Claim(ev, t), Enter(ev, t, Get(entityIndex[ev]))
      PROVE  ThreadInv(ev)'
  <2> DEFINE got == Get(entityIndex[ev])
  <2>1. /\ worker' = [worker EXCEPT ![ev][t] = "checking"] /\ index' = [index EXCEPT ![ev][t] = got]
        /\ handler' = handler /\ cursor' = cursor /\ Workers' = Workers
    BY <1>9 DEF Claim, config, Workers
  <2>2. /\ classes' = classes /\ entity'[<<ev, t>>] = classes[got]
        /\ \A u \in ThreadIds \cup {0} : u # t =>
              pc'[<<ev, u>>] = pc[<<ev, u>>] /\ entity'[<<ev, u>>] = entity[<<ev, u>>]
    BY <1>7, <1>9
  <2>3. /\ worker'[ev][t] = "checking" /\ index'[ev][t] = got
        /\ \A u \in Workers \ {t} : worker'[ev][u] = worker[ev][u] /\ index'[ev][u] = index[ev][u]
    BY <2>1
  <2> HIDE DEF got
  <2>4. t # 0 /\ t \in ThreadIds /\ pc'[<<ev, 0>>] = pc[<<ev, 0>>] /\ entity'[<<ev, 0>>] = entity[<<ev, 0>>]
    BY <2>2
  <2>5. /\ pc'[<<ev, 0>>] \notin Util!Ended => handler'[ev] = "checking"
        /\ handler'[ev] = "checking" => entity'[<<ev, 0>>] = classes'[cursor'[ev]]
    BY <2>1, <2>2, <2>4
  <2>6. ASSUME NEW u \in ThreadIds, pc'[<<ev, u>>] \notin Util!Ended
        PROVE  u \in Workers /\ worker'[ev][u] = "checking"
    BY <2>2, <2>3, <2>6
  <2>7. ASSUME NEW u \in Workers, worker'[ev][u] = "checking"
        PROVE  entity'[<<ev, u>>] = classes'[index'[ev][u]]
    BY <2>2, <2>3, <2>7
  <2> QED
    BY <2>1, <2>5, <2>6, <2>7, SameModule DEF Util!Ended
<1>10. ASSUME NEW t \in Workers \cup {0}, NEW how \in {"returned", "threw"}, Leave(ev, t, how)
       PROVE  UNCHANGED <<pc, entity, classes>> /\ pc[<<ev, t>>] \in Util!Ended
  BY <1>10 DEF Leave, utilVars, Util!Ended
<1>11. ASSUME \/ IterateReturns(ev) /\ Leave(ev, 0, "returned")
              \/ IterateThrows(ev) /\ Leave(ev, 0, "threw")
       PROVE  ThreadInv(ev)'
  <2>1. handler'[ev] # "checking" /\ worker' = worker /\ index' = index /\ Workers' = Workers
    BY <1>11 DEF IterateReturns, IterateThrows, config, pool, Workers
  <2> QED
    BY <1>10, <1>11, <2>1
<1>12. ASSUME NEW t \in Workers,
              \/ CheckReturns(ev, t) /\ Leave(ev, t, "returned")
              \/ CheckThrows(ev, t) /\ Leave(ev, t, "threw")
       PROVE  ThreadInv(ev)'
  <2>0. /\ handler' = handler /\ cursor' = cursor /\ Workers' = Workers /\ index' = index
        /\ \/ worker' = [worker EXCEPT ![ev][t] = "claiming"]
           \/ worker' = [worker EXCEPT ![ev][t] = "threw"]
    BY <1>12 DEF CheckReturns, CheckThrows, config, Workers
  <2>1. /\ handler' = handler /\ cursor' = cursor /\ Workers' = Workers /\ index' = index
        /\ worker'[ev][t] # "checking"
        /\ \A u \in Workers \ {t} : worker'[ev][u] = worker[ev][u]
    BY <2>0
  <2> QED
    BY <1>10, <1>12, <2>1
<1> HIDE DEF ThreadInv
<1>13. CASE HandlerThread(ev)
  <2>1. CASE HandlerChecks(ev)
    BY <2>1, <1>8, <1>11 DEF HandlerChecks
  <2>2. CASE InCall(ev, 0)
    BY <2>2, <1>6
  <2>3. CASE HandlerMoves(ev) /\ Aside
    BY <2>3, <1>3, <1>4 DEF HandlerMoves
  <2> QED
    BY <1>13, <2>1, <2>2, <2>3 DEF HandlerThread
<1>14. ASSUME NEW t \in Workers, PoolThread(ev, t) PROVE ThreadInv(ev)'
  <2>1. CASE WorkerChecks(ev, t)
    BY <2>1, <1>9, <1>12 DEF WorkerChecks
  <2>2. CASE InCall(ev, t)
    BY <2>2, <1>6
  <2>3. CASE WorkerMoves(ev, t) /\ Aside
    BY <2>3, <1>5 DEF WorkerMoves
  <2> QED
    BY <1>14, <2>1, <2>2, <2>3 DEF PoolThread
<1> QED
  BY <1>2, <1>13, <1>14 DEF RoundOf

\* The table of the class at position p goes on conforming.
LEMMA PositionOn ==
    ASSUME NEW p \in Positions, classes \in [Positions -> Entities], classes' = classes,
           \A e \in Entities : TableConforms(e) => TableConforms(e)', TableConforms(classes[p])
    PROVE  TableConforms(classes[p])'
<1>1. PICK e \in Entities : e = classes[p]
  OBVIOUS
<1>2. TableConforms(e)
  BY <1>1 DEF TableConforms, Util!HasColumnsAndIndexes, Util!IndexInfo
<1>3. TableConforms(e)'
  BY <1>2
<1>4. e = classes'[p]
  BY <1>1
<1> QED
  BY <1>3, <1>4 DEF TableConforms, Util!HasColumnsAndIndexes, Util!IndexInfo

\* A class is checked when its call has returned, and what a call leaves behind stays.
LEMMA CheckedStep ==
    ASSUME IInv, Checks!IInv, SystemInv, NEW ev \in Events, RoundOf(ev)
    PROVE  CheckedInv(ev)'
<1>0. /\ TypeOK /\ ThreadInv(ev) /\ CheckedInv(ev)
      /\ classes \in [Positions -> Entities] /\ status \in [Events -> [Positions -> Status]]
  BY DEF IInv, TypeOK, SystemInv
<1>1. classes' = classes /\ (ev \notin impaired' => ev \notin impaired)
  BY DEF RoundOf, HandlerThread, HandlerChecks, HandlerMoves, InCall, PoolThread, WorkerChecks,
       WorkerMoves, Enter, Leave, Aside
<1>2. \A e \in Entities : TableConforms(e) => TableConforms(e)'
  BY UtilStep, ConformsOn
\* It is enough to look at what the step has made a checked class.
<1>3. ASSUME \A p \in Positions : status'[ev][p] = "checked" /\ status[ev][p] # "checked"
                /\ ev \notin impaired' => TableConforms(classes[p])
      PROVE  CheckedInv(ev)'
  <2> SUFFICES ASSUME NEW p \in Positions, status'[ev][p] = "checked", ev \notin impaired'
               PROVE  TableConforms(classes[p])'
    BY DEF CheckedInv, Positions
  <2>1. TableConforms(classes[p])
    BY <1>0, <1>1, <1>3 DEF CheckedInv
  <2> QED
    BY <1>0, <1>1, <1>2, <2>1, PositionOn
<1>4. ASSUME \A p \in Positions : status'[ev][p] = "checked" => status[ev][p] = "checked"
      PROVE  CheckedInv(ev)'
  BY <1>3, <1>4
\* The call that has returned for the class at position p.
<1>5. ASSUME NEW t \in Workers \cup {0}, Leave(ev, t, "returned"), NEW p \in Positions,
             entity[<<ev, t>>] = classes[p], ev \notin impaired'
      PROVE  TableConforms(classes[p])
  <2>1. pc[<<ev, t>>] = "returned" /\ ~hurt[<<ev, t>>]
    BY <1>5 DEF Leave
  <2>2. <<ev, t>> \in Callers
    BY <1>0, ThreadNames
  <2>3. Checks!Conforms(<<ev, t>>)
    BY <2>2 DEF Checks!IInv, Checks!CallInv
  <2>4. classes[p] \in Entities
    BY <1>0
  <2> QED
    BY <1>5, <2>1, <2>3, <2>4, SameModule DEF Checks!Conforms, TableConforms
<1>6. CASE HandlerThread(ev)
  <2>1. CASE IterateReturns(ev) /\ Leave(ev, 0, "returned")
    <3>1. /\ cursor[ev] \in Positions /\ entity[<<ev, 0>>] = classes[cursor[ev]]
          /\ status' = [status EXCEPT ![ev][cursor[ev]] = "checked"]
      BY <1>0, <2>1, InList DEF IterateReturns, ThreadInv
    <3>2. \A p \in Positions : p # cursor[ev] => status'[ev][p] = status[ev][p]
      BY <1>0, <3>1
    <3> QED
      BY <1>3, <1>5, <2>1, <3>1, <3>2
  <2>2. CASE IterateNext(ev) \/ IterateThrows(ev)
    <3>1. \/ status' = [status EXCEPT ![ev][cursor[ev]] = "checking"]
          \/ status' = [status EXCEPT ![ev][cursor[ev]] = "threw"]
      BY <2>2 DEF IterateNext, IterateThrows
    <3> QED
      BY <1>0, <1>4, <3>1
  <2>3. CASE InCall(ev, 0) \/ HandlerMoves(ev)
    <3>1. status' = status
      BY <2>3 DEF InCall, vars, HandlerMoves, IterateFinishes, StartThread, StartReturns
    <3> QED
      BY <1>4, <3>1
  <2> QED
    BY <1>6, <2>1, <2>2, <2>3 DEF HandlerThread, HandlerChecks
<1>7. ASSUME NEW t \in Workers, PoolThread(ev, t) PROVE CheckedInv(ev)'
  <2>1. CASE CheckReturns(ev, t) /\ Leave(ev, t, "returned")
    <3>0. index[ev][t] \in Positions
      BY <2>1, InList DEF CheckReturns
    <3>1. /\ entity[<<ev, t>>] = classes[index[ev][t]]
          /\ status' = [status EXCEPT ![ev][index[ev][t]] = "checked"]
      BY <1>0, <2>1 DEF CheckReturns, ThreadInv
    <3>2. \A p \in Positions : p # index[ev][t] => status'[ev][p] = status[ev][p]
      BY <1>0, <3>1
    <3> QED
      BY <1>3, <1>5, <2>1, <3>0, <3>1, <3>2
  <2>2. CASE Claim(ev, t) \/ CheckThrows(ev, t)
    <3>1. \/ status' = [status EXCEPT ![ev][Get(entityIndex[ev])] = "checking"]
          \/ status' = [status EXCEPT ![ev][index[ev][t]] = "threw"]
      BY <2>2 DEF Claim, CheckThrows
    <3> QED
      BY <1>0, <1>4, <3>1
  <2>3. CASE InCall(ev, t) \/ WorkerMoves(ev, t)
    <3>1. status' = status
      BY <2>3 DEF InCall, vars, WorkerMoves, LeaveLoop, CountFinished, Publish
    <3> QED
      BY <1>4, <3>1
  <2> QED
    BY <1>7, <2>1, <2>2, <2>3 DEF PoolThread, WorkerChecks
<1>8. CASE \E hasParent \in BOOLEAN : OnApplicationEvent(ev, hasParent)
  <2>1. status' = status
    BY <1>8 DEF OnApplicationEvent
  <2> QED
    BY <1>4, <2>1
<1> QED
  BY <1>6, <1>7, <1>8 DEF RoundOf

\* The invariant of the composition.
LEMMA SystemInvStep ==
    ASSUME IInv, Checks!IInv, SystemInv, [SystemNext]_systemVars
    PROVE  SystemInv'
<1>1. ASSUME NEW ev \in Events, RoundOf(ev) PROVE SystemInv'
  <2>1. classes \in [Positions -> Entities] /\ classes' = classes
    BY <1>1 DEF SystemInv, RoundOf, HandlerThread, HandlerChecks, HandlerMoves, InCall, PoolThread,
         WorkerChecks, WorkerMoves, Enter, Leave, Aside
  <2>2. ThreadInv(ev)' /\ CheckedInv(ev)'
    BY <1>1, ThreadStep, CheckedStep
  <2>3. ASSUME NEW other \in Events \ {ev} PROVE ThreadInv(other)' /\ CheckedInv(other)'
    <3>1. ThreadInv(other) /\ CheckedInv(other)
      BY DEF SystemInv
    <3>2. /\ handler'[other] = handler[other] /\ cursor'[other] = cursor[other]
          /\ worker'[other] = worker[other] /\ index'[other] = index[other]
          /\ status'[other] = status[other] /\ Workers' = Workers
          /\ \A t \in ThreadIds \cup {0} :
                pc'[<<other, t>>] = pc[<<other, t>>] /\ entity'[<<other, t>>] = entity[<<other, t>>]
          /\ other \notin impaired' => other \notin impaired
      BY <1>1, <2>3, RoundBeside
    <3>3. Workers \subseteq ThreadIds
      BY ThreadNames DEF IInv
    <3>4. ThreadInv(other)'
      BY <2>1, <3>1, <3>2, <3>3 DEF ThreadInv, Util!Ended
    <3>5. \A e \in Entities : TableConforms(e) => TableConforms(e)'
      BY <1>1, UtilStep, ConformsOn
    <3>6. ASSUME NEW p \in Positions, status'[other][p] = "checked", other \notin impaired'
          PROVE  TableConforms(classes[p])'
      <4>1. TableConforms(classes[p])
        BY <3>1, <3>2, <3>6 DEF CheckedInv
      <4> QED
        BY <2>1, <3>5, <4>1, PositionOn
    <3> QED
      BY <3>4, <3>6 DEF CheckedInv, Positions
  <2> QED
    BY <2>1, <2>2, <2>3 DEF SystemInv, Positions
<1>2. CASE UNCHANGED systemVars
  BY <1>2 DEF systemVars, vars, config, pool, utilVars, SystemInv, ThreadInv, CheckedInv, Workers,
       TableConforms, Util!HasColumnsAndIndexes, Util!IndexInfo
<1> QED
  BY <1>1, <1>2 DEF SystemNext, RoundOf

\* It holds of the listeners and the schema updater as they are created.
LEMMA SystemInvInit ==
    ASSUME SystemInit
    PROVE  SystemInv /\ Checks!IInv
<1>1. Checks!IInv
  BY ChecksAssumption, SameModule, Checks!InitInv DEF SystemInit
<1>2. classes \in [Positions -> Entities]
  BY DEF SystemInit
<1>3. ASSUME NEW ev \in Events PROVE ThreadInv(ev) /\ CheckedInv(ev)
  <2>1. TypeOK
    BY DdlAssumption DEF SystemInit, Init, TypeOK, Status, HandlerStates, WorkerStates, Counter,
         FirstIndex
  <2>2. \A t \in ThreadIds \cup {0} : pc[<<ev, t>>] = "idle"
    BY DEF SystemInit, Util!Init, Callers
  <2>3. /\ handler[ev] = "idle" /\ \A t \in Workers : worker[ev][t] = "new"
        /\ \A p \in Positions : status[ev][p] = "unchecked"
    BY DEF SystemInit, Init
  <2> QED
    BY <2>2, <2>3 DEF ThreadInv, CheckedInv, Util!Ended
<1> QED
  BY <1>1, <1>2, <1>3 DEF SystemInv

\* A step that leaves checkEntity alone keeps what is proved of it.
LEMMA StutterChecks ==
    ASSUME Checks!IInv, UNCHANGED utilVars
    PROVE  Checks!IInv'
<1>1. UNCHANGED Checks!vars
  BY DEF utilVars, Checks!vars, Checks!db, Checks!call, Checks!began
<1> QED
  BY <1>1, ChecksAssumption, Checks!StutterInv

\* The rounds with all their threads use checkEntity as DdlUtil allows: what is proved of
\* any callers of checkEntity holds of them (Ddl.java:58, 79).
THEOREM SystemImplementsCheckEntity == SystemSpec => []Checks!IInv /\ []SystemInv
<1>1. SystemInit => SystemInv /\ Checks!IInv
  BY SystemInvInit
<1>2. ASSUME IInv, Checks!IInv, SystemInv, [SystemNext]_systemVars
      PROVE  Checks!IInv' /\ SystemInv'
  <2>1. SystemInv'
    BY <1>2, SystemInvStep
  <2>2. ASSUME NEW ev \in Events, RoundOf(ev) PROVE Checks!IInv'
    <3>1. CASE \E c \in Callers : Checks!CallStep(c)
      BY <1>2, <3>1, ChecksAssumption, Checks!CallStepInv
    <3>2. CASE \E c \in Callers, e \in Entities : Checks!CheckEntity(c, e)
      BY <1>2, <3>2, ChecksAssumption, Checks!CheckEntityInv
    <3>3. CASE UNCHANGED utilVars
      BY <1>2, <3>3, StutterChecks
    <3> QED
      BY <1>2, <2>2, <3>1, <3>2, <3>3, UtilStep
  <2>3. CASE UNCHANGED systemVars
    <3>1. UNCHANGED utilVars
      BY <2>3 DEF systemVars
    <3> QED
      BY <1>2, <2>1, <3>1, StutterChecks
  <2> QED
    BY <1>2, <2>1, <2>2, <2>3 DEF SystemNext, RoundOf
<1> QED
  BY <1>1, <1>2, SystemImplementsListener, Inductive, PTL DEF SystemSpec

\* A DdlFinishEvent means that the table of every class conforms to its mapping, if no JDBC
\* call of the round failed (Ddl.java:60, 88-90 and DdlUtil.java:154-207).
THEOREM FinishConforms == SystemSpec => []FinishMeansConforms
<1>1. IInv /\ SystemInv => FinishMeansConforms
  <2> SUFFICES ASSUME IInv, SystemInv, NEW ev \in Events, NEW p \in 0 .. classCount - 1,
                      finished[ev] > 0, ev \notin impaired
               PROVE  TableConforms(classes[p])
    BY DEF FinishMeansConforms
  <2>1. status[ev][p] = "checked"
    BY CheckedWhenFinished
  <2>2. p \in Positions
    BY InList
  <2> QED
    BY <2>1, <2>2 DEF SystemInv, CheckedInv
<1> QED
  BY <1>1, SystemImplementsCheckEntity, SystemImplementsListener, Inductive, PTL

\* A DdlFinishEvent means that no thread of the round is inside checkEntity or holds a
\* connection (Ddl.java:60, 88-90).
THEOREM FinishQuiet == SystemSpec => []FinishMeansQuiet
<1>1. IInv /\ Checks!IInv /\ SystemInv => FinishMeansQuiet
  <2> SUFFICES ASSUME IInv, Checks!IInv, SystemInv, NEW ev \in Events, finished[ev] > 0,
                      NEW t \in ThreadIds \cup {0}
               PROVE  pc[<<ev, t>>] \in Util!Ended /\ ~holding[<<ev, t>>]
    BY DEF FinishMeansQuiet
  <2>1. \A p \in 0 .. classCount - 1 : status[ev][p] = "checked"
    BY CheckedWhenFinished
  <2>2. pc[<<ev, t>>] \in Util!Ended
    <3>1. handler[ev] # "checking"
      <4>1. "checking" # "checked"
        OBVIOUS
      <4> QED
        BY <2>1, <4>1, InList
    <3>2. \A u \in Workers : worker[ev][u] # "checking"
      <4>1. ASSUME NEW u \in Workers, worker[ev][u] = "checking" PROVE FALSE
        <5>1. index[ev][u] \in 0 .. classCount - 1 /\ status[ev][index[ev][u]] = "checking"
          BY <4>1, InList
        <5> QED
          BY <2>1, <5>1
      <4> QED
        BY <4>1
    <3>3. ThreadInv(ev)
      BY DEF SystemInv
    <3> QED
      BY <3>1, <3>2, <3>3 DEF ThreadInv
  <2>3. Checks!PhaseInv(<<ev, t>>)
    BY DEF Checks!IInv, Checks!CallInv, Callers
  <2> QED
    BY <2>2, <2>3 DEF Checks!PhaseInv, Checks!Reading, Util!Ended
<1> QED
  BY <1>1, SystemImplementsCheckEntity, SystemImplementsListener, Inductive, PTL
=============================================================================
