----------------------------- MODULE DdlSystem -----------------------------
(***************************************************************************)
(* The Ddl listener with the real checkEntity: Ddl composed with DdlUtil.  *)
(* What Ddl takes as one check is here a call of DdlUtil.checkEntity by    *)
(* the same thread, and the threads of a round, and of overlapping rounds, *)
(* share the database and the pool of connections.                         *)
(*                                                                         *)
(* The list of classes may name a class twice: packagesToScan is scanned   *)
(* package by package with its subpackages and nothing removes duplicates. *)
(***************************************************************************)
EXTENDS Ddl

CONSTANTS Entities, Names, Mappings, PoolSize, MaxFaults

VARIABLES
    classes,                                  \* classes.get(p), the same in every round
    mapping, table, free, faults,             \* the database and the pool (DdlUtil)
    pc, entity, meta, todo, stmts, holding, hurt, upToDate,  \* the calls of checkEntity (DdlUtil)
    impaired  \* the rounds in which a call met a JDBC failure (history)

\* Thread 0 of a round is the one that delivers the event.
Callers == Events \X (ThreadIds \cup {0})

Util == INSTANCE DdlUtil

ASSUME DdlSystemAssumption == Util!DdlUtilAssumption

utilVars ==
    <<mapping, table, free, faults, pc, entity, meta, todo, stmts, holding, hurt,
      upToDate>>
systemVars == <<vars, classes, utilVars, impaired>>

SystemInit ==
    /\ Init
    /\ classes \in [Positions -> Entities]
    /\ Util!Init
    /\ impaired = {}

-----------------------------------------------------------------------------
\* The loop or the pool thread calls checkEntity for the class it has got ...
Enter(ev, t, p) ==
    /\ Util!CheckEntity(<<ev, t>>, classes[p])
    /\ UNCHANGED <<classes, impaired>>

\* ... and goes on when that call has returned or thrown.
Leave(ev, t, how) ==
    /\ pc[<<ev, t>>] = how
    /\ impaired' = IF hurt[<<ev, t>>] THEN impaired \cup {ev} ELSE impaired
    /\ UNCHANGED <<classes, utilVars>>

\* A loop that does not wait for the call to return.
MutHandlerChecks(ev) ==
    \/ IterateNext(ev) /\ Enter(ev, 0, cursor[ev])
    \/ IterateReturns(ev) /\ UNCHANGED <<classes, utilVars, impaired>>
    \/ IterateThrows(ev) /\ Leave(ev, 0, "threw")

HandlerChecks(ev) ==
    \/ IterateNext(ev) /\ Enter(ev, 0, cursor[ev])
    \/ IterateReturns(ev) /\ Leave(ev, 0, "returned")
    \/ IterateThrows(ev) /\ Leave(ev, 0, "threw")

WorkerChecks(ev, t) ==
    \/ Claim(ev, t) /\ Enter(ev, t, Get(entityIndex[ev]))
    \/ CheckReturns(ev, t) /\ Leave(ev, t, "returned")
    \/ CheckThrows(ev, t) /\ Leave(ev, t, "threw")

HandlerMoves(ev) == IterateFinishes(ev) \/ StartThread(ev) \/ StartReturns(ev)
WorkerMoves(ev, t) == LeaveLoop(ev, t) \/ CountFinished(ev, t) \/ Publish(ev, t)

Aside == UNCHANGED <<classes, utilVars, impaired>>

\* A step of the body of checkEntity.
InCall(ev, t) ==
    /\ Util!CallStep(<<ev, t>>)
    /\ UNCHANGED <<vars, classes, impaired>>

HandlerThread(ev) ==
    \/ HandlerChecks(ev)
    \/ InCall(ev, 0)
    \/ HandlerMoves(ev) /\ Aside

PoolThread(ev, t) ==
    \/ WorkerChecks(ev, t)
    \/ InCall(ev, t)
    \/ WorkerMoves(ev, t) /\ Aside

SystemNext ==
    \E ev \in Events :
        \/ \E hasParent \in BOOLEAN : OnApplicationEvent(ev, hasParent) /\ Aside
        \/ HandlerThread(ev)
        \/ \E t \in Workers : PoolThread(ev, t)

SystemSpec == SystemInit /\ [][SystemNext]_systemVars

\* Every thread keeps running, inside checkEntity and outside.
SystemFairness ==
    \A ev \in Events :
        /\ WF_systemVars(HandlerThread(ev))
        /\ \A t \in ThreadIds : WF_systemVars(t \in Workers /\ PoolThread(ev, t))

-----------------------------------------------------------------------------
(* Properties.                                                             *)

TableConforms(e) ==
    mapping[e].pkProp =>
        /\ Util!HasColumnsAndIndexes(e)
        /\ mapping[e].dialect = "mysql" => table[e].pk

\* What a DdlFinishEvent is worth end to end: if no JDBC call of the round failed, the
\* table of every scanned class has the columns, the indexes and (on MySQL) the primary
\* key of its mapping, whatever the other round and the other threads do
\* (Ddl.java:60, 88-90 and DdlUtil.java:154-207).
FinishMeansConforms ==
    \A ev \in Events : \A p \in 0 .. classCount - 1 :
        (finished[ev] > 0 /\ ev \notin impaired) => TableConforms(classes[p])

\* A DdlFinishEvent says that nobody works any more: no thread of the round is inside
\* checkEntity, and none holds a connection.
FinishMeansQuiet ==
    \A ev \in Events : finished[ev] > 0 =>
        \A t \in ThreadIds \cup {0} :
            pc[<<ev, t>>] \in Util!Ended /\ ~holding[<<ev, t>>]

\* Every round that starts working ends, though its threads share a pool of connections
\* smaller than their number, and though failures of the metadata queries drain that
\* pool: its finish event is published, unless one of its calls threw.
SystemRoundEnds ==
    \A ev \in Events :
        handler[ev] \in {"iterating", "starting"}
            ~> (finished[ev] = 1 \/ \E p \in Positions : status[ev][p] = "threw")

-----------------------------------------------------------------------------
(* Why the first two hold.  Only a thread that checks a class is inside    *)
(* checkEntity, for the entity of that class; and what was checked without *)
(* a failure conforms ever after, since tables only grow.                  *)

ThreadInv(ev) ==
    /\ pc[<<ev, 0>>] \notin Util!Ended => handler[ev] = "checking"
    /\ handler[ev] = "checking" => entity[<<ev, 0>>] = classes[cursor[ev]]
    /\ \A t \in ThreadIds : pc[<<ev, t>>] \notin Util!Ended =>
          t \in Workers /\ worker[ev][t] = "checking"
    /\ \A t \in Workers : worker[ev][t] = "checking" => entity[<<ev, t>>] = classes[index[ev][t]]

CheckedInv(ev) ==
    \A p \in Positions : status[ev][p] = "checked" /\ ev \notin impaired => TableConforms(classes[p])

\* Of every round, whoever else works on the same tables (Ddl.java:56-60, 72-91).
SystemInv ==
    /\ classes \in [Positions -> Entities]
    /\ \A ev \in Events : ThreadInv(ev) /\ CheckedInv(ev)
=============================================================================
