-------------------------------- MODULE Ddl --------------------------------
(***************************************************************************)
(* The Spring listener cn.studease.guzz.Ddl: on a ContextRefreshedEvent it *)
(* scans for entity classes and has DdlUtil.checkEntity bring the table of *)
(* each up to date, in the thread of the event (threads <= 1) or in a pool *)
(* of `threads` threads that share two counters.  When the work is done it *)
(* publishes a DdlFinishEvent.                                             *)
(*                                                                         *)
(* checkEntity is one step here that returns or throws: DdlUtil models its *)
(* body, DdlSystem composes the two.                                       *)
(***************************************************************************)
EXTENDS Integers, FiniteSets

CONSTANTS Events,         \* the ContextRefreshedEvents delivered to the listener
          MaxClasses,     \* bound on the number of entity classes scanned
          ThreadSettings  \* the values the bean property `threads` may be given

ASSUME DdlAssumption ==
    /\ MaxClasses \in Nat
    /\ ThreadSettings \subseteq Int

VARIABLES
    threads,     \* Ddl.threads, set before the context is refreshed
    scanning,    \* Ddl.enabled and packagesToScan has text
    classCount,  \* classes.size(): what the scan of the packages finds
    handler,     \* handler[ev]: where onApplicationEvent(ev) stands
    cursor,      \* cursor[ev]: its loop variable, over classes or threads
    entityIndex, \* entityIndex[ev].index
    threadIndex, \* threadIndex[ev].index
    worker,      \* worker[ev][t]: where the run() of thread t stands
    index,       \* index[ev][t]: the local variable of run()
    status,      \* status[ev][p]: the check of classes.get(p) in this round
    finished     \* finished[ev]: DdlFinishEvents published for ev

config == <<threads, scanning, classCount>>
pool == <<entityIndex, threadIndex, worker, index>>
vars == <<config, handler, cursor, pool, status, finished>>

Positions == 0 .. MaxClasses - 1
Status == {"unchecked", "checking", "checked", "threw"}
Workers == 1 .. threads
HandlerStates ==
    {"idle", "ignored", "iterating", "checking", "starting", "returned", "threw"}
WorkerStates == {"new", "claiming", "checking", "counting", "publishing", "done", "threw"}

-----------------------------------------------------------------------------
(* The inner class Index: a counter whose synchronized get() increments,   *)
(* then reads.                                                             *)

\* A counter that starts at 0, as if get() read before it increments.
MutFirstIndex == 0

\* private int index = -1, so that the first get() is 0.
FirstIndex == -1
Counter == Nat \cup {FirstIndex}

Get(counter) == counter + 1

Init ==
    /\ threads \in ThreadSettings
    /\ scanning \in BOOLEAN
    /\ classCount \in 0 .. MaxClasses
    /\ handler = [ev \in Events |-> "idle"]
    /\ cursor = [ev \in Events |-> 0]
    /\ entityIndex = [ev \in Events |-> FirstIndex]
    /\ threadIndex = [ev \in Events |-> FirstIndex]
    /\ worker = [ev \in Events |-> [t \in Workers |-> "new"]]
    /\ index = [ev \in Events |-> [t \in Workers |-> FirstIndex]]
    /\ status = [ev \in Events |-> [p \in Positions |-> "unchecked"]]
    /\ finished = [ev \in Events |-> 0]

-----------------------------------------------------------------------------
(* The thread that delivers the event.                                     *)

\* The refresh of a root context (no parent) is ignored, and so is any refresh
\* when the bean is disabled or has no package to scan.
OnApplicationEvent(ev, hasParent) ==
    /\ handler[ev] = "idle"
    /\ handler' = [handler EXCEPT ![ev] =
                     IF ~hasParent \/ ~scanning THEN "ignored"
                     ELSE IF threads <= 1 THEN "iterating" ELSE "starting"]
    /\ UNCHANGED <<config, cursor, pool, status, finished>>

\* The sequential loop enters checkEntity for its next class...
IterateNext(ev) ==
    /\ handler[ev] = "iterating"
    /\ cursor[ev] < classCount
    /\ handler' = [handler EXCEPT ![ev] = "checking"]
    /\ status' = [status EXCEPT ![ev][cursor[ev]] = "checking"]
    /\ UNCHANGED <<config, cursor, pool, finished>>

\* ... which returns ...
IterateReturns(ev) ==
    /\ handler[ev] = "checking"
    /\ handler' = [handler EXCEPT ![ev] = "iterating"]
    /\ cursor' = [cursor EXCEPT ![ev] = cursor[ev] + 1]
    /\ status' = [status EXCEPT ![ev][cursor[ev]] = "checked"]
    /\ UNCHANGED <<config, pool, finished>>

\* ... or throws, out of the loop and of onApplicationEvent.
IterateThrows(ev) ==
    /\ handler[ev] = "checking"
    /\ handler' = [handler EXCEPT ![ev] = "threw"]
    /\ status' = [status EXCEPT ![ev][cursor[ev]] = "threw"]
    /\ UNCHANGED <<config, cursor, pool, finished>>

IterateFinishes(ev) ==
    /\ handler[ev] = "iterating"
    /\ cursor[ev] >= classCount
    /\ handler' = [handler EXCEPT ![ev] = "returned"]
    /\ finished' = [finished EXCEPT ![ev] = finished[ev] + 1]
    /\ UNCHANGED <<config, cursor, pool, status>>

\* new Thread(...).start() for the next thread.  Those started already run.
StartThread(ev) ==
    /\ handler[ev] = "starting"
    /\ cursor[ev] < threads
    /\ cursor' = [cursor EXCEPT ![ev] = cursor[ev] + 1]
    /\ worker' = [worker EXCEPT ![ev][cursor[ev] + 1] = "claiming"]
    /\ UNCHANGED <<config, handler, entityIndex, threadIndex, index, status, finished>>

StartReturns(ev) ==
    /\ handler[ev] = "starting"
    /\ cursor[ev] >= threads
    /\ handler' = [handler EXCEPT ![ev] = "returned"]
    /\ UNCHANGED <<config, cursor, pool, status, finished>>

-----------------------------------------------------------------------------
(* The run() of pool thread t.                                             *)

\* Claim with an unsynchronized get(): a racing thread may undo the increment.
MutClaim(ev, t) ==
    LET got == Get(entityIndex[ev]) IN
    /\ worker[ev][t] = "claiming"
    /\ got < classCount
    /\ \E left \in {entityIndex[ev], got} :
           entityIndex' = [entityIndex EXCEPT ![ev] = left]
    /\ index' = [index EXCEPT ![ev][t] = got]
    /\ worker' = [worker EXCEPT ![ev][t] = "checking"]
    /\ status' = [status EXCEPT ![ev][got] = "checking"]
    /\ UNCHANGED <<config, handler, cursor, threadIndex, finished>>

\* index = entityIndex.get() < classCount: the thread enters checkEntity ...
Claim(ev, t) ==
    LET got == Get(entityIndex[ev]) IN
    /\ worker[ev][t] = "claiming"
    /\ got < classCount
    /\ entityIndex' = [entityIndex EXCEPT ![ev] = got]
    /\ index' = [index EXCEPT ![ev][t] = got]
    /\ worker' = [worker EXCEPT ![ev][t] = "checking"]
    /\ status' = [status EXCEPT ![ev][got] = "checking"]
    /\ UNCHANGED <<config, handler, cursor, threadIndex, finished>>

\* ... or the list is used up, and the thread leaves the loop.
LeaveLoop(ev, t) ==
    LET got == Get(entityIndex[ev]) IN
    /\ worker[ev][t] = "claiming"
    /\ got >= classCount
    /\ entityIndex' = [entityIndex EXCEPT ![ev] = got]
    /\ index' = [index EXCEPT ![ev][t] = got]
    /\ worker' = [worker EXCEPT ![ev][t] = "counting"]
    /\ UNCHANGED <<config, handler, cursor, threadIndex, status, finished>>

CheckReturns(ev, t) ==
    /\ worker[ev][t] = "checking"
    /\ worker' = [worker EXCEPT ![ev][t] = "claiming"]
    /\ status' = [status EXCEPT ![ev][index[ev][t]] = "checked"]
    /\ UNCHANGED <<config, handler, cursor, entityIndex, threadIndex, index, finished>>

\* A thread that survives the exception and goes on.
MutCheckThrows(ev, t) ==
    /\ worker[ev][t] = "checking"
    /\ worker' = [worker EXCEPT ![ev][t] = "claiming"]
    /\ status' = [status EXCEPT ![ev][index[ev][t]] = "threw"]
    /\ UNCHANGED <<config, handler, cursor, entityIndex, threadIndex, index, finished>>

\* Nothing catches an exception of checkEntity: the thread ends uncounted.
CheckThrows(ev, t) ==
    /\ worker[ev][t] = "checking"
    /\ worker' = [worker EXCEPT ![ev][t] = "threw"]
    /\ status' = [status EXCEPT ![ev][index[ev][t]] = "threw"]
    /\ UNCHANGED <<config, handler, cursor, entityIndex, threadIndex, index, finished>>

\* The finished threads counted without the + 1.
MutActiveThread(ev) == threads - Get(threadIndex[ev])

\* activeThread = threads - finishedThread, finishedThread = threadIndex.get() + 1
ActiveThread(ev) == threads - (Get(threadIndex[ev]) + 1)

\* A CountFinished that counts down the field itself.
MutCountFinished(ev, t) ==
    /\ worker[ev][t] = "counting"
    /\ threads' = threads - 1
    /\ worker' = [worker EXCEPT ![ev][t] = IF threads = 1 THEN "publishing" ELSE "done"]
    /\ UNCHANGED <<scanning, classCount, handler, cursor, entityIndex, threadIndex, index,
                   status, finished>>

CountFinished(ev, t) ==
    /\ worker[ev][t] = "counting"
    /\ threadIndex' = [threadIndex EXCEPT ![ev] = Get(threadIndex[ev])]
    /\ worker' = [worker EXCEPT ![ev][t] =
                    IF ActiveThread(ev) = 0 THEN "publishing" ELSE "done"]
    /\ UNCHANGED <<config, handler, cursor, entityIndex, index, status, finished>>

Publish(ev, t) ==
    /\ worker[ev][t] = "publishing"
    /\ worker' = [worker EXCEPT ![ev][t] = "done"]
    /\ finished' = [finished EXCEPT ![ev] = finished[ev] + 1]
    /\ UNCHANGED <<config, handler, cursor, entityIndex, threadIndex, index, status>>

-----------------------------------------------------------------------------
HandlerStep(ev) ==
    \/ IterateNext(ev) \/ IterateReturns(ev) \/ IterateThrows(ev)
    \/ IterateFinishes(ev) \/ StartThread(ev) \/ StartReturns(ev)

WorkerStep(ev, t) ==
    \/ Claim(ev, t) \/ LeaveLoop(ev, t) \/ CheckReturns(ev, t) \/ CheckThrows(ev, t)
    \/ CountFinished(ev, t) \/ Publish(ev, t)

Next ==
    \E ev \in Events :
        \/ \E hasParent \in BOOLEAN : OnApplicationEvent(ev, hasParent)
        \/ HandlerStep(ev)
        \/ \E t \in Workers : WorkerStep(ev, t)

Spec == Init /\ [][Next]_vars

\* The JVM runs every runnable thread, and the JDBC calls of checkEntity end.
\* Nothing promises that the container ever refreshes a context.
ThreadIds == UNION {1 .. n : n \in ThreadSettings}
Fairness ==
    \A ev \in Events :
        /\ WF_vars(HandlerStep(ev))
        /\ \A t \in ThreadIds : WF_vars(t \in Workers /\ WorkerStep(ev, t))

FairSpec == Spec /\ Fairness

-----------------------------------------------------------------------------
(* Properties.                                                             *)

\* Type correctness of the listener's fields and of its threads' local variables.
TypeOK ==
    /\ threads \in ThreadSettings
    /\ scanning \in BOOLEAN
    /\ classCount \in 0 .. MaxClasses
    /\ handler \in [Events -> HandlerStates]
    /\ cursor \in [Events -> Nat]
    /\ entityIndex \in [Events -> Counter]
    /\ threadIndex \in [Events -> Counter]
    /\ worker \in [Events -> [Workers -> WorkerStates]]
    /\ index \in [Events -> [Workers -> Counter]]
    /\ status \in [Events -> [Positions -> Status]]
    /\ finished \in [Events -> Nat]

\* A DdlFinishEvent (Ddl.java:60 and 89) is published only once every class of
\* the scanned list has been checked, by whichever thread, without an exception.
FinishMeansChecked ==
    \A ev \in Events :
        finished[ev] > 0 => \A p \in 0 .. classCount - 1 : status[ev][p] = "checked"

Ended == {"done", "threw"}
\* A thread that dies of an exception takes only its own class with it: once the
\* pool of a round has stopped and one of its threads ran to its end (Ddl.java:81),
\* no class of the list was skipped.
NothingLeftBehind ==
    \A ev \in Events :
        /\ \A t \in Workers : worker[ev][t] \in Ended
        /\ \E t \in Workers : worker[ev][t] = "done"
        => \A p \in 0 .. classCount - 1 : status[ev][p] \in {"checked", "threw"}

\* The two ways of working, loop and pool, implement the promise of DdlPromise: each
\* class is taken at most once in a round, and one finish event, after the last.
Promise == INSTANCE DdlPromise
ImplementsPromise == Promise!PromiseSpec

\* A round that starts working ends: its finish event is published, unless one of
\* the checks threw (Ddl.java:53-93).
RoundEnds ==
    \A ev \in Events :
        handler[ev] \in {"iterating", "starting"}
            ~> (finished[ev] = 1 \/ \E p \in Positions : status[ev][p] = "threw")

\* What the log line of Ddl.java:85 says: the number a thread reports as the
\* remaining active threads is that of the other threads that have not ended.
RemainingThreadsLog ==
    [][\A ev \in Events : \A t \in Workers :
          CountFinished(ev, t) =>
              ActiveThread(ev) = Cardinality({u \in Workers \ {t} :
                                    worker[ev][u] \notin Ended \cup {"publishing"}})]_vars

-----------------------------------------------------------------------------
(* Why the properties hold.  The loop has checked what lies below its      *)
(* cursor; the pool has claimed what lies up to entityIndex, each class is *)
(* held by the one thread whose index it is, and threadIndex counts the    *)
(* threads that ran to their end: all of them, when the last one publishes.*)

LoopInv(ev) ==
    /\ handler[ev] # "starting"
    /\ \A t \in Workers : worker[ev][t] = "new"
    /\ cursor[ev] <= classCount
    /\ handler[ev] \in {"idle", "ignored"} => cursor[ev] = 0
    /\ handler[ev] \in {"checking", "threw"} => cursor[ev] < classCount
    /\ handler[ev] = "returned" => cursor[ev] = classCount
    /\ finished[ev] = IF handler[ev] = "returned" THEN 1 ELSE 0
    /\ \A p \in Positions : p < cursor[ev] => status[ev][p] = "checked"
    /\ \A p \in Positions : p > cursor[ev] => status[ev][p] = "unchecked"
    /\ \A p \in Positions : p = cursor[ev] =>
          status[ev][p] = IF handler[ev] \in {"checking", "threw"}
                          THEN handler[ev] ELSE "unchecked"

Holds(ev, t, p) == worker[ev][t] = "checking" /\ index[ev][t] = p

ClaimInv(ev) ==
    /\ \A p \in Positions : p > entityIndex[ev] => status[ev][p] = "unchecked"
    /\ \A p \in 0 .. classCount - 1 : p <= entityIndex[ev] => status[ev][p] # "unchecked"
    /\ \A p \in Positions : \A t \in Workers :
          Holds(ev, t, p) => status[ev][p] = "checking"
    /\ \A t \in Workers : worker[ev][t] = "checking" =>
          index[ev][t] \in 0 .. classCount - 1 /\ index[ev][t] <= entityIndex[ev]
    /\ \A p \in Positions : \A t, u \in Workers : Holds(ev, t, p) /\ Holds(ev, u, p) => t = u
    /\ \A p \in Positions : status[ev][p] = "checking" => \E t \in Workers : Holds(ev, t, p)
    /\ \A p \in Positions : status[ev][p] = "threw" =>
          \E t \in Workers : worker[ev][t] = "threw"

Counted(ev) == {t \in Workers : worker[ev][t] \in {"publishing", "done"}}

CountInv(ev) ==
    /\ \A t \in Workers : worker[ev][t] \in {"counting", "publishing", "done"} =>
          entityIndex[ev] >= classCount
    /\ threadIndex[ev] + 1 = Cardinality(Counted(ev))
    /\ \A t \in Workers : worker[ev][t] = "publishing" =>
          threadIndex[ev] + 1 = threads /\ finished[ev] = 0
    /\ \A t, u \in Workers : worker[ev][t] = "publishing" /\ worker[ev][u] = "publishing" => t = u
    /\ finished[ev] \in {0, 1}
    /\ finished[ev] = 1 => threadIndex[ev] + 1 = threads

PoolInv(ev) ==
    /\ handler[ev] \in {"idle", "ignored", "starting", "returned"}
    /\ handler[ev] \in {"idle", "ignored"} => cursor[ev] = 0
    /\ \A t \in Workers : t > cursor[ev] => worker[ev][t] = "new"
    /\ ClaimInv(ev)
    /\ CountInv(ev)

IInv ==
    /\ TypeOK
    /\ \A ev \in Events : IF threads <= 1 THEN LoopInv(ev) ELSE PoolInv(ev)
=============================================================================
