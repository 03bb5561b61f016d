----------------------------- MODULE DdlProofs -----------------------------
(***************************************************************************)
(* Proofs about the Ddl listener, for any number of refresh events, entity *)
(* classes and configured threads.                                         *)
(***************************************************************************)
EXTENDS Ddl, TLAPS, FiniteSetTheorems

-----------------------------------------------------------------------------
(* Type correctness.                                                       *)

\* Updating a cell of a two-level table with a value of its type keeps the type.
LEMMA UpdateType ==
    ASSUME NEW S, NEW T, NEW R, NEW f \in [S -> [T -> R]], NEW a \in S, NEW b, NEW v \in R
    PROVE  [f EXCEPT ![a][b] = v] \in [S -> [T -> R]]
OBVIOUS

\* What the synchronized get() of the inner class Index returns: a number that
\* serves as an index, one more than the last.
LEMMA GetType ==
    ASSUME NEW c \in Counter
    PROVE  Get(c) \in Nat /\ Get(c) \in Counter /\ Get(c) = c + 1
BY DEF Get, Counter, FirstIndex

\* The listener's fields and its threads' local variables keep their types
\* (Ddl.java:18-94 and the inner class Index).
THEOREM TypeCorrect == Spec => []TypeOK
<1>1. Init => TypeOK
  BY DdlAssumption DEF Init, TypeOK, Status, HandlerStates, WorkerStates, Counter, FirstIndex
<1>2. TypeOK /\ [Next]_vars => TypeOK'
  <2> SUFFICES ASSUME TypeOK, [Next]_vars PROVE TypeOK'
    OBVIOUS
  <2>1. ASSUME NEW ev \in Events, NEW hasParent \in BOOLEAN, OnApplicationEvent(ev, hasParent) PROVE TypeOK'
    BY <2>1 DEF TypeOK, config, pool, OnApplicationEvent, HandlerStates, Workers
  <2>2. ASSUME NEW ev \in Events, IterateNext(ev) PROVE TypeOK'
    <3>1. status' \in [Events -> [Positions -> Status]]
      BY <2>2 DEF TypeOK, IterateNext, Status
    <3> QED BY <2>2, <3>1 DEF TypeOK, config, pool, IterateNext, HandlerStates, Workers
  <2>3. ASSUME NEW ev \in Events, IterateReturns(ev) PROVE TypeOK'
    <3>1. status' \in [Events -> [Positions -> Status]]
      BY <2>3 DEF TypeOK, IterateReturns, Status
    <3> QED BY <2>3, <3>1 DEF TypeOK, config, pool, IterateReturns, HandlerStates, Workers
  <2>4. ASSUME NEW ev \in Events, IterateThrows(ev) PROVE TypeOK'
    <3>1. status' \in [Events -> [Positions -> Status]]
      BY <2>4 DEF TypeOK, IterateThrows, Status
    <3> QED BY <2>4, <3>1 DEF TypeOK, config, pool, IterateThrows, HandlerStates, Workers
  <2>5. ASSUME NEW ev \in Events, IterateFinishes(ev) PROVE TypeOK'
    BY <2>5 DEF TypeOK, config, pool, IterateFinishes, HandlerStates, Workers
  <2>6. ASSUME NEW ev \in Events, StartThread(ev) PROVE TypeOK'
    <3>1. worker' \in [Events -> [Workers -> WorkerStates]]
      BY <2>6 DEF TypeOK, StartThread, WorkerStates
    <3> QED BY <2>6, <3>1 DEF TypeOK, config, pool, StartThread, Workers
  <2>7. ASSUME NEW ev \in Events, StartReturns(ev) PROVE TypeOK'
    BY <2>7 DEF TypeOK, config, pool, StartReturns, HandlerStates, Workers
  <2>8. ASSUME NEW ev \in Events, NEW t \in Workers, Claim(ev, t) PROVE TypeOK'
    <3>1. worker' \in [Events -> [Workers -> WorkerStates]]
      BY <2>8 DEF TypeOK, Claim, WorkerStates
    <3>2. status' \in [Events -> [Positions -> Status]]
      BY <2>8 DEF TypeOK, Claim, Status
    <3>3. Get(entityIndex[ev]) \in Counter
      BY GetType DEF TypeOK
    <3>4. entityIndex' \in [Events -> Counter]
      BY <2>8, <3>3 DEF TypeOK, Claim
    <3>5. index' \in [Events -> [Workers -> Counter]]
      <4>1. index \in [Events -> [Workers -> Counter]]
        BY DEF TypeOK
      <4>2. index' = [index EXCEPT ![ev][t] = Get(entityIndex[ev])]
        BY <2>8 DEF Claim
      <4> QED BY <3>3, <4>1, <4>2, UpdateType
    <3> QED BY <2>8, <3>1, <3>2, <3>4, <3>5 DEF TypeOK, config, pool, Claim, Workers
  <2>9. ASSUME NEW ev \in Events, NEW t \in Workers, LeaveLoop(ev, t) PROVE TypeOK'
    <3>1. worker' \in [Events -> [Workers -> WorkerStates]]
      BY <2>9 DEF TypeOK, LeaveLoop, WorkerStates
    <3>2. status' \in [Events -> [Positions -> Status]]
      BY <2>9 DEF TypeOK, LeaveLoop, Status
    <3>3. Get(entityIndex[ev]) \in Counter
      BY GetType DEF TypeOK
    <3>4. entityIndex' \in [Events -> Counter]
      BY <2>9, <3>3 DEF TypeOK, LeaveLoop
    <3>5. index' \in [Events -> [Workers -> Counter]]
      <4>1. index \in [Events -> [Workers -> Counter]]
        BY DEF TypeOK
      <4>2. index' = [index EXCEPT ![ev][t] = Get(entityIndex[ev])]
        BY <2>9 DEF LeaveLoop
      <4> QED BY <3>3, <4>1, <4>2, UpdateType
    <3> QED BY <2>9, <3>1, <3>2, <3>4, <3>5 DEF TypeOK, config, pool, LeaveLoop, Workers
  <2>10. ASSUME NEW ev \in Events, NEW t \in Workers, CheckReturns(ev, t) PROVE TypeOK'
    <3>1. worker' \in [Events -> [Workers -> WorkerStates]]
      BY <2>10 DEF TypeOK, CheckReturns, WorkerStates
    <3>2. status' \in [Events -> [Positions -> Status]]
      BY <2>10 DEF TypeOK, CheckReturns, Status
    <3> QED BY <2>10, <3>1, <3>2 DEF TypeOK, config, pool, CheckReturns, Workers
  <2>11. ASSUME NEW ev \in Events, NEW t \in Workers, CheckThrows(ev, t) PROVE TypeOK'
    <3>1. worker' \in [Events -> [Workers -> WorkerStates]]
      BY <2>11 DEF TypeOK, CheckThrows, WorkerStates
    <3>2. status' \in [Events -> [Positions -> Status]]
      BY <2>11 DEF TypeOK, CheckThrows, Status
    <3> QED BY <2>11, <3>1, <3>2 DEF TypeOK, config, pool, CheckThrows, Workers
  <2>12. ASSUME NEW ev \in Events, NEW t \in Workers, CountFinished(ev, t) PROVE TypeOK'
    <3>1. worker' \in [Events -> [Workers -> WorkerStates]]
      BY <2>12 DEF TypeOK, CountFinished, WorkerStates
    <3>2. threadIndex' \in [Events -> Counter]
      BY <2>12, GetType DEF TypeOK, CountFinished
    <3> QED BY <2>12, <3>1, <3>2 DEF TypeOK, config, pool, CountFinished, Workers
  <2>13. ASSUME NEW ev \in Events, NEW t \in Workers, Publish(ev, t) PROVE TypeOK'
    <3>1. worker' \in [Events -> [Workers -> WorkerStates]]
      BY <2>13 DEF TypeOK, Publish, WorkerStates
    <3> QED BY <2>13, <3>1 DEF TypeOK, config, pool, Publish, Workers
  <2>14. CASE UNCHANGED vars
    BY <2>14 DEF TypeOK, config, pool, vars, Workers
  <2> QED
    BY <2>1, <2>2, <2>3, <2>4, <2>5, <2>6, <2>7, <2>8, <2>9, <2>10, <2>11, <2>12, <2>13, <2>14
    DEF Next, HandlerStep, WorkerStep
<1> QED
  BY <1>1, <1>2, PTL DEF Spec

-----------------------------------------------------------------------------
(* The inductive invariant.                                                *)

\* A step of one round leaves the invariant of every other round alone.
LEMMA OtherRound ==
    ASSUME NEW ev \in Events,
           threads' = threads, classCount' = classCount,
           handler'[ev] = handler[ev], cursor'[ev] = cursor[ev],
           entityIndex'[ev] = entityIndex[ev], threadIndex'[ev] = threadIndex[ev],
           worker'[ev] = worker[ev], index'[ev] = index[ev],
           status'[ev] = status[ev], finished'[ev] = finished[ev]
    PROVE  /\ LoopInv(ev) => LoopInv(ev)'
           /\ PoolInv(ev) => PoolInv(ev)'
<1>1. Workers' = Workers
  BY DEF Workers
<1>2. LoopInv(ev) => LoopInv(ev)'
  BY <1>1 DEF LoopInv
<1>3. Counted(ev)' = Counted(ev)
  BY <1>1 DEF Counted
<1>4. ClaimInv(ev) => ClaimInv(ev)'
  BY <1>1 DEF ClaimInv, Holds
<1>5. CountInv(ev) => CountInv(ev)'
  BY <1>1, <1>3 DEF CountInv
<1> QED
  BY <1>1, <1>2, <1>4, <1>5 DEF PoolInv

\* The steps of the sequential loop.
LEMMA LoopStep ==
    ASSUME TypeOK, NEW ev \in Events, LoopInv(ev),
           \/ \E hasParent \in BOOLEAN : threads <= 1 /\ OnApplicationEvent(ev, hasParent)
           \/ HandlerStep(ev)
           \/ \E t \in Workers : WorkerStep(ev, t)
    PROVE  LoopInv(ev)'
<1> USE DEF config, pool
<1>0. /\ ev \in DOMAIN handler /\ ev \in DOMAIN cursor /\ ev \in DOMAIN status
      /\ ev \in DOMAIN finished /\ classCount \in Nat /\ cursor[ev] \in Nat
      /\ classCount <= MaxClasses
      /\ DOMAIN status[ev] = Positions
  BY DdlAssumption DEF TypeOK
<1>1. ASSUME NEW hasParent \in BOOLEAN, threads <= 1, OnApplicationEvent(ev, hasParent)
      PROVE LoopInv(ev)'
  BY <1>0, <1>1 DEF LoopInv, OnApplicationEvent, Workers
<1>2. CASE IterateNext(ev)
  <2>1. \A p \in Positions : status'[ev][p] = IF p = cursor[ev] THEN "checking" ELSE status[ev][p]
    BY <1>0, <1>2 DEF IterateNext
  <2> QED BY <1>0, <1>2, <2>1 DEF LoopInv, IterateNext, Workers, Positions
<1>3. CASE IterateReturns(ev)
  <2>1. \A p \in Positions : status'[ev][p] = IF p = cursor[ev] THEN "checked" ELSE status[ev][p]
    BY <1>0, <1>3 DEF IterateReturns
  <2> QED BY <1>0, <1>3, <2>1 DEF LoopInv, IterateReturns, Workers, Positions
<1>4. CASE IterateThrows(ev)
  <2>1. \A p \in Positions : status'[ev][p] = IF p = cursor[ev] THEN "threw" ELSE status[ev][p]
    BY <1>0, <1>4 DEF IterateThrows
  <2> QED BY <1>0, <1>4, <2>1 DEF LoopInv, IterateThrows, Workers, Positions
<1>5. CASE IterateFinishes(ev)
  BY <1>0, <1>5 DEF LoopInv, IterateFinishes, Workers
<1>6. CASE StartThread(ev) \/ StartReturns(ev)
  BY <1>6 DEF LoopInv, StartThread, StartReturns
<1>7. ASSUME NEW t \in Workers, WorkerStep(ev, t) PROVE LoopInv(ev)'
  BY <1>7 DEF LoopInv, WorkerStep, Claim, LeaveLoop, CheckReturns, CheckThrows,
              CountFinished, Publish
<1> QED
  BY <1>1, <1>2, <1>3, <1>4, <1>5, <1>6, <1>7 DEF HandlerStep

\* Once threadIndex has counted as many threads as the pool has, every thread of the
\* pool is one of them.
LEMMA AllCounted ==
    ASSUME TypeOK, threads > 1, NEW ev \in Events, CountInv(ev), threadIndex[ev] + 1 = threads
    PROVE  Counted(ev) = Workers
<1>1. threads \in Int
  BY DdlAssumption DEF TypeOK
<1>2. IsFiniteSet(Workers) /\ Cardinality(Workers) = threads
  BY <1>1, FS_Interval DEF Workers
<1>3. Counted(ev) \in SUBSET Workers
  BY DEF Counted
<1>4. Cardinality(Counted(ev)) = threads
  BY DEF CountInv
<1> QED
  BY <1>2, <1>3, <1>4, FS_Subset

\* The steps of a pool in which no thread is counted: they keep the count.
LEMMA CountFrame ==
    ASSUME NEW ev \in Events, CountInv(ev), Workers' = Workers, threads' = threads,
           classCount' = classCount, threadIndex' = threadIndex, finished' = finished,
           NEW t \in Workers, NEW to \in WorkerStates \ {"publishing", "done"},
           worker[ev][t] \notin {"publishing", "done"},
           \A u \in Workers : worker'[ev][u] = IF u = t THEN to ELSE worker[ev][u],
           entityIndex[ev] \in Int, entityIndex'[ev] \in Int, classCount \in Int,
           entityIndex'[ev] >= entityIndex[ev],
           to = "counting" => entityIndex'[ev] >= classCount
    PROVE  CountInv(ev)'
<1>1. Counted(ev)' = Counted(ev)
  BY DEF Counted
<1> QED
  BY <1>1 DEF CountInv

\* What TypeOK says of the round ev, in the form in which the steps use it.
LEMMA RoundTypes ==
    ASSUME TypeOK, NEW ev \in Events
    PROVE  /\ ev \in DOMAIN handler /\ ev \in DOMAIN cursor /\ ev \in DOMAIN status
           /\ ev \in DOMAIN worker /\ ev \in DOMAIN index /\ ev \in DOMAIN entityIndex
           /\ ev \in DOMAIN threadIndex /\ ev \in DOMAIN finished
           /\ classCount \in Nat /\ classCount <= MaxClasses /\ MaxClasses \in Nat
           /\ threads \in Int /\ cursor[ev] \in Nat /\ finished[ev] \in Nat
           /\ entityIndex[ev] \in Counter /\ threadIndex[ev] \in Counter
           /\ entityIndex[ev] \in Int /\ threadIndex[ev] \in Int
           /\ DOMAIN status[ev] = Positions /\ DOMAIN worker[ev] = Workers
           /\ DOMAIN index[ev] = Workers
           /\ \A t \in Workers : index[ev][t] \in Int
<1>1. entityIndex[ev] \in Counter /\ threadIndex[ev] \in Counter
  BY DEF TypeOK
<1>2. \A t \in Workers : index[ev][t] \in Counter
  BY DEF TypeOK
<1>3. Counter \subseteq Int
  BY DEF Counter, FirstIndex
<1>4. classCount \in Nat /\ classCount <= MaxClasses /\ MaxClasses \in Nat /\ threads \in Int
  BY DdlAssumption DEF TypeOK
<1>5. /\ ev \in DOMAIN handler /\ ev \in DOMAIN cursor /\ ev \in DOMAIN status
      /\ ev \in DOMAIN worker /\ ev \in DOMAIN index /\ ev \in DOMAIN entityIndex
      /\ ev \in DOMAIN threadIndex /\ ev \in DOMAIN finished
      /\ cursor[ev] \in Nat /\ finished[ev] \in Nat
  BY DEF TypeOK
<1>6. DOMAIN status[ev] = Positions /\ DOMAIN worker[ev] = Workers /\ DOMAIN index[ev] = Workers
  BY DEF TypeOK
<1> QED
  BY <1>1, <1>2, <1>3, <1>4, <1>5, <1>6

\* The steps of the thread pool and of the thread that starts it.
LEMMA PoolStep ==
    ASSUME TypeOK, NEW ev \in Events, threads > 1, PoolInv(ev),
           \/ \E hasParent \in BOOLEAN : OnApplicationEvent(ev, hasParent)
           \/ HandlerStep(ev)
           \/ \E t \in Workers : WorkerStep(ev, t)
    PROVE  PoolInv(ev)'
<1> USE DEF config, pool
<1>0. ClaimInv(ev) /\ CountInv(ev)
  BY DEF PoolInv
<1>1. ASSUME NEW hasParent \in BOOLEAN, OnApplicationEvent(ev, hasParent)
      PROVE PoolInv(ev)'
  <2>1. Workers' = Workers /\ ClaimInv(ev)' /\ CountInv(ev)'
    <3>1. Workers' = Workers /\ Counted(ev)' = Counted(ev)
      BY <1>1 DEF OnApplicationEvent, Workers, Counted
    <3> QED BY <1>0, <1>1, <3>1 DEF OnApplicationEvent, ClaimInv, CountInv, Holds
  <2> QED BY <1>1, <2>1, RoundTypes DEF OnApplicationEvent, PoolInv
<1>2. CASE IterateNext(ev) \/ IterateReturns(ev) \/ IterateThrows(ev) \/ IterateFinishes(ev)
  BY <1>2 DEF PoolInv, IterateNext, IterateReturns, IterateThrows, IterateFinishes
<1>3. CASE StartThread(ev)
  <2> DEFINE t == cursor[ev] + 1
  <2>1. Workers' = Workers /\ t \in Workers
    BY <1>3, RoundTypes DEF StartThread, Workers
  <2>2. \A u \in Workers : worker'[ev][u] = IF u = t THEN "claiming" ELSE worker[ev][u]
    BY <1>3, <2>1, RoundTypes DEF StartThread
  <2>3. worker[ev][t] = "new"
    BY <2>1, RoundTypes DEF PoolInv
  <2>4. CountInv(ev)'
    <3> HIDE DEF t
    <3>1. /\ threads' = threads /\ classCount' = classCount /\ threadIndex' = threadIndex
          /\ finished' = finished /\ entityIndex' = entityIndex
      BY <1>3 DEF StartThread
    <3> QED BY <1>0, <2>1, <2>2, <2>3, <3>1, RoundTypes, CountFrame DEF WorkerStates
  <2>5. ClaimInv(ev)'
    <3> HIDE DEF t
    <3>1. \A u \in Workers : \A p : Holds(ev, u, p)' <=> Holds(ev, u, p)
      BY <1>3, <2>1, <2>2, <2>3 DEF StartThread, Holds
    <3> QED BY <1>0, <1>3, <2>1, <2>2, <2>3, <3>1 DEF StartThread, ClaimInv
  <2>6. \A u \in Workers : u > cursor'[ev] => worker'[ev][u] = "new"
    BY <1>3, <2>2, RoundTypes DEF PoolInv, StartThread, Workers
  <2> QED BY <1>3, <2>1, <2>4, <2>5, <2>6 DEF PoolInv, StartThread
<1>4. CASE StartReturns(ev)
  <2>1. Workers' = Workers /\ ClaimInv(ev)' /\ CountInv(ev)'
    <3>1. Workers' = Workers /\ Counted(ev)' = Counted(ev)
      BY <1>4 DEF StartReturns, Workers, Counted
    <3> QED BY <1>0, <1>4, <3>1 DEF StartReturns, ClaimInv, CountInv, Holds
  <2> QED BY <1>4, <2>1, RoundTypes DEF StartReturns, PoolInv
<1>5. ASSUME NEW t \in Workers, Claim(ev, t) PROVE PoolInv(ev)'
  <2> DEFINE got == Get(entityIndex[ev])
  <2>1. Workers' = Workers /\ got \in Nat /\ got = entityIndex[ev] + 1 /\ got < classCount
    BY <1>5, RoundTypes, GetType DEF Claim, Workers
  <2>2. got \in Positions /\ entityIndex'[ev] = got
    BY <1>5, <2>1, RoundTypes DEF Claim, Positions
  <2>3. \A u \in Workers : worker'[ev][u] = IF u = t THEN "checking" ELSE worker[ev][u]
    BY <1>5, RoundTypes DEF Claim
  <2>4. \A u \in Workers : index'[ev][u] = IF u = t THEN got ELSE index[ev][u]
    BY <1>5, RoundTypes DEF Claim
  <2>5. \A p \in Positions : status'[ev][p] = IF p = got THEN "checking" ELSE status[ev][p]
    BY <1>5, <2>2, RoundTypes DEF Claim
  <2>6. worker[ev][t] = "claiming"
    BY <1>5 DEF Claim
  <2>7. /\ threads' = threads /\ classCount' = classCount /\ threadIndex' = threadIndex
        /\ finished' = finished /\ handler' = handler /\ cursor' = cursor
    BY <1>5 DEF Claim
  <2> HIDE DEF got
  <2>8. CountInv(ev)'
    BY <1>0, <2>1, <2>2, <2>3, <2>6, <2>7, RoundTypes, CountFrame DEF WorkerStates
  <2>9. status[ev][got] = "unchecked"
    BY <1>0, <2>1, <2>2, RoundTypes DEF ClaimInv
  <2>10. \A u \in Workers, p \in Positions :
           Holds(ev, u, p)' <=> Holds(ev, u, p) \/ (u = t /\ p = got)
    BY <2>3, <2>4, <2>6 DEF Holds
  <2>11. ClaimInv(ev)'
    <3>1. \A p \in Positions : p > entityIndex'[ev] => status'[ev][p] = "unchecked"
      <4> SUFFICES ASSUME NEW p \in Positions, p > got PROVE status'[ev][p] = "unchecked"
        BY <2>2
      <4>1. p > entityIndex[ev] /\ p # got
        BY <2>1, RoundTypes DEF Positions
      <4> QED BY <1>0, <2>5, <4>1 DEF ClaimInv
    <3>2. \A p \in 0 .. classCount - 1 : p <= entityIndex'[ev] => status'[ev][p] # "unchecked"
      <4> SUFFICES ASSUME NEW p \in 0 .. classCount - 1, p <= got PROVE status'[ev][p] # "unchecked"
        BY <2>2
      <4>1. p \in Positions /\ (p = got \/ p <= entityIndex[ev])
        BY <2>1, RoundTypes DEF Positions
      <4> QED BY <1>0, <2>5, <4>1 DEF ClaimInv
    <3>3. \A p \in Positions : \A u \in Workers : Holds(ev, u, p)' => status'[ev][p] = "checking"
      BY <1>0, <2>5, <2>9, <2>10 DEF ClaimInv
    <3>4. \A u \in Workers : worker'[ev][u] = "checking" =>
             index'[ev][u] \in 0 .. classCount - 1 /\ index'[ev][u] <= entityIndex'[ev]
      BY <1>0, <2>1, <2>2, <2>3, <2>4, RoundTypes DEF ClaimInv
    <3>5. \A p \in Positions : \A u, v \in Workers : Holds(ev, u, p)' /\ Holds(ev, v, p)' => u = v
      BY <1>0, <2>9, <2>10 DEF ClaimInv
    <3>6. \A p \in Positions : status'[ev][p] = "checking" => \E u \in Workers : Holds(ev, u, p)'
      BY <1>0, <2>5, <2>10 DEF ClaimInv
    <3>7. \A p \in Positions : status'[ev][p] = "threw" =>
            \E u \in Workers : worker'[ev][u] = "threw"
      BY <1>0, <2>3, <2>5, <2>6 DEF ClaimInv
    <3> QED BY <2>1, <2>7, <3>1, <3>2, <3>3, <3>4, <3>5, <3>6, <3>7 DEF ClaimInv
  <2> QED BY <2>1, <2>3, <2>6, <2>7, <2>8, <2>11 DEF PoolInv
<1>6. ASSUME NEW t \in Workers, LeaveLoop(ev, t) PROVE PoolInv(ev)'
  <2> DEFINE got == Get(entityIndex[ev])
  <2>1. Workers' = Workers /\ got \in Nat /\ got = entityIndex[ev] + 1 /\ got >= classCount
    BY <1>6, RoundTypes, GetType DEF LeaveLoop, Workers
  <2>2. entityIndex'[ev] = got
    BY <1>6, RoundTypes DEF LeaveLoop
  <2>3. \A u \in Workers : worker'[ev][u] = IF u = t THEN "counting" ELSE worker[ev][u]
    BY <1>6, RoundTypes DEF LeaveLoop
  <2>4. \A u \in Workers : index'[ev][u] = IF u = t THEN got ELSE index[ev][u]
    BY <1>6, RoundTypes DEF LeaveLoop
  <2>5. worker[ev][t] = "claiming"
    BY <1>6 DEF LeaveLoop
  <2>6. /\ threads' = threads /\ classCount' = classCount /\ threadIndex' = threadIndex
        /\ finished' = finished /\ handler' = handler /\ cursor' = cursor /\ status' = status
    BY <1>6 DEF LeaveLoop
  <2> HIDE DEF got
  <2>7. CountInv(ev)'
    BY <1>0, <2>1, <2>2, <2>3, <2>5, <2>6, RoundTypes, CountFrame DEF WorkerStates
  <2>8. \A u \in Workers, p \in Positions : Holds(ev, u, p)' <=> Holds(ev, u, p)
    BY <2>3, <2>4, <2>5 DEF Holds
  <2>9. ClaimInv(ev)'
    <3>1. \A p \in Positions : p > entityIndex'[ev] => status'[ev][p] = "unchecked"
      BY <1>0, <2>1, <2>2, <2>6, RoundTypes DEF ClaimInv, Positions
    <3>2. \A p \in 0 .. classCount - 1 : p <= entityIndex'[ev] => status'[ev][p] # "unchecked"
      BY <1>0, <2>1, <2>2, <2>6, RoundTypes DEF ClaimInv
    <3>3. \A u \in Workers : worker'[ev][u] = "checking" =>
             index'[ev][u] \in 0 .. classCount - 1 /\ index'[ev][u] <= entityIndex'[ev]
      BY <1>0, <2>1, <2>2, <2>3, <2>4, RoundTypes DEF ClaimInv
    <3>4. \A p \in Positions : status'[ev][p] = "threw" =>
            \E u \in Workers : worker'[ev][u] = "threw"
      BY <1>0, <2>3, <2>5, <2>6 DEF ClaimInv
    <3> QED BY <1>0, <2>1, <2>6, <2>8, <3>1, <3>2, <3>3, <3>4 DEF ClaimInv
  <2> QED BY <2>1, <2>3, <2>5, <2>6, <2>7, <2>9 DEF PoolInv
<1>7. ASSUME NEW t \in Workers, NEW to \in {"claiming", "threw"}, NEW result \in {"checked", "threw"},
             to = "threw" <=> result = "threw",
             worker[ev][t] = "checking",
             \A u \in Workers : worker'[ev][u] = IF u = t THEN to ELSE worker[ev][u],
             \A p \in Positions :
               status'[ev][p] = IF p = index[ev][t] THEN result ELSE status[ev][p],
             UNCHANGED <<config, handler, cursor, entityIndex, threadIndex, index, finished>>
      PROVE PoolInv(ev)'
  <2>1. Workers' = Workers
    BY <1>7 DEF Workers
  <2>2. CountInv(ev)'
    BY <1>0, <1>7, <2>1, RoundTypes, CountFrame DEF WorkerStates
  <2> DEFINE p0 == index[ev][t]
  <2>3. p0 \in Positions /\ p0 \in 0 .. classCount - 1 /\ Holds(ev, t, p0)
    BY <1>0, <1>7, RoundTypes DEF ClaimInv, Positions, Holds
  <2>4. \A u \in Workers, p \in Positions : Holds(ev, u, p)' <=> Holds(ev, u, p) /\ p # p0
    BY <1>0, <1>7, <2>3 DEF Holds, ClaimInv
  <2>5. \A u \in Workers : worker[ev][u] = "threw" => worker'[ev][u] = "threw"
    BY <1>7
  <2>6. ClaimInv(ev)'
    <3>1. \A p \in Positions : p > entityIndex[ev] => status'[ev][p] = "unchecked"
      BY <1>0, <1>7, RoundTypes DEF ClaimInv, Positions
    <3>2. \A p \in 0 .. classCount - 1 : p <= entityIndex[ev] => status'[ev][p] # "unchecked"
      BY <1>0, <1>7, RoundTypes DEF ClaimInv, Positions
    <3>3. \A p \in Positions : \A u \in Workers : Holds(ev, u, p)' => status'[ev][p] = "checking"
      BY <1>0, <1>7, <2>4 DEF ClaimInv
    <3>4. \A u \in Workers : worker'[ev][u] = "checking" =>
             index[ev][u] \in 0 .. classCount - 1 /\ index[ev][u] <= entityIndex[ev]
      BY <1>0, <1>7 DEF ClaimInv
    <3>5. \A p \in Positions : \A u, v \in Workers : Holds(ev, u, p)' /\ Holds(ev, v, p)' => u = v
      BY <1>0, <2>4 DEF ClaimInv
    <3>6. \A p \in Positions : status'[ev][p] = "checking" => \E u \in Workers : Holds(ev, u, p)'
      BY <1>0, <1>7, <2>4 DEF ClaimInv
    <3>7. \A p \in Positions : status'[ev][p] = "threw" =>
            \E u \in Workers : worker'[ev][u] = "threw"
      BY <1>0, <1>7, <2>5 DEF ClaimInv
    <3> QED BY <1>7, <2>1, <3>1, <3>2, <3>3, <3>4, <3>5, <3>6, <3>7 DEF ClaimInv
  <2> QED BY <1>7, <2>1, <2>2, <2>6 DEF PoolInv
<1>8. ASSUME NEW t \in Workers, CheckReturns(ev, t) PROVE PoolInv(ev)'
  <2>1. \A u \in Workers : worker'[ev][u] = IF u = t THEN "claiming" ELSE worker[ev][u]
    BY <1>8, RoundTypes DEF CheckReturns
  <2>2. \A p \in Positions : status'[ev][p] = IF p = index[ev][t] THEN "checked" ELSE status[ev][p]
    BY <1>8, RoundTypes DEF CheckReturns
  <2> QED BY <1>7, <1>8, <2>1, <2>2 DEF CheckReturns
<1>9. ASSUME NEW t \in Workers, CheckThrows(ev, t) PROVE PoolInv(ev)'
  <2>1. \A u \in Workers : worker'[ev][u] = IF u = t THEN "threw" ELSE worker[ev][u]
    BY <1>9, RoundTypes DEF CheckThrows
  <2>2. \A p \in Positions : status'[ev][p] = IF p = index[ev][t] THEN "threw" ELSE status[ev][p]
    BY <1>9, RoundTypes DEF CheckThrows
  <2> QED BY <1>7, <1>9, <2>1, <2>2 DEF CheckThrows
<1>10. ASSUME NEW t \in Workers, CountFinished(ev, t) PROVE PoolInv(ev)'
  <2> DEFINE to == IF ActiveThread(ev) = 0 THEN "publishing" ELSE "done"
  <2>1. /\ Workers' = Workers /\ worker[ev][t] = "counting"
        /\ threadIndex'[ev] = threadIndex[ev] + 1
        /\ to = "publishing" <=> threadIndex[ev] + 2 = threads
    BY <1>10, RoundTypes, GetType DEF CountFinished, Workers, ActiveThread
  <2>2. \A u \in Workers : worker'[ev][u] = IF u = t THEN to ELSE worker[ev][u]
    BY <1>10, RoundTypes DEF CountFinished
  <2>3. /\ threads' = threads /\ classCount' = classCount /\ entityIndex' = entityIndex
        /\ finished' = finished /\ handler' = handler /\ cursor' = cursor
        /\ status' = status /\ index' = index
    BY <1>10 DEF CountFinished
  <2>4. to \in {"publishing", "done"}
    OBVIOUS
  <2> HIDE DEF to
  <2>5. t \notin Counted(ev) /\ Counted(ev)' = Counted(ev) \cup {t}
    BY <2>1, <2>2, <2>4 DEF Counted
  <2>6. Cardinality(Counted(ev)') = Cardinality(Counted(ev)) + 1
    <3>1. IsFiniteSet(Workers)
      BY RoundTypes, FS_Interval DEF Workers
    <3>2. IsFiniteSet(Counted(ev))
      BY <3>1, FS_Subset DEF Counted
    <3> QED BY <2>5, <3>2, FS_AddElement
  <2>7. threadIndex[ev] + 1 # threads
    BY <1>0, <2>5, AllCounted
  <2>8. CountInv(ev)'
    <3>1. finished[ev] = 0 /\ \A u \in Workers : worker[ev][u] # "publishing"
      BY <1>0, <2>7 DEF CountInv
    <3>2. threadIndex[ev] + 1 = Cardinality(Counted(ev)) /\ entityIndex[ev] >= classCount
      BY <1>0, <2>1 DEF CountInv
    <3>3. threadIndex'[ev] + 1 = Cardinality(Counted(ev)')
      BY <2>1, <2>6, <3>2, RoundTypes
    <3>4. \A u \in Workers : worker'[ev][u] = "publishing" => u = t /\ threadIndex'[ev] + 1 = threads
      BY <2>1, <2>2, <3>1, RoundTypes
    <3> QED BY <1>0, <2>1, <2>2, <2>3, <2>4, <3>1, <3>2, <3>3, <3>4 DEF CountInv
  <2>9. ClaimInv(ev)'
    <3>1. \A u \in Workers, p \in Positions : Holds(ev, u, p)' <=> Holds(ev, u, p)
      BY <2>1, <2>2, <2>3, <2>4 DEF Holds
    <3>2. \A u \in Workers : worker[ev][u] = "threw" => worker'[ev][u] = "threw"
      BY <2>1, <2>2
    <3>3. \A u \in Workers : worker'[ev][u] = "checking" => worker[ev][u] = "checking"
      BY <2>2, <2>4
    <3> QED BY <1>0, <2>1, <2>3, <3>1, <3>2, <3>3 DEF ClaimInv
  <2> QED BY <2>1, <2>2, <2>3, <2>8, <2>9 DEF PoolInv
<1>11. ASSUME NEW t \in Workers, Publish(ev, t) PROVE PoolInv(ev)'
  <2>1. Workers' = Workers /\ worker[ev][t] = "publishing" /\ finished'[ev] = finished[ev] + 1
    BY <1>11, RoundTypes DEF Publish, Workers
  <2>2. \A u \in Workers : worker'[ev][u] = IF u = t THEN "done" ELSE worker[ev][u]
    BY <1>11, RoundTypes DEF Publish
  <2>3. /\ threads' = threads /\ classCount' = classCount /\ entityIndex' = entityIndex
        /\ threadIndex' = threadIndex /\ handler' = handler /\ cursor' = cursor
        /\ status' = status /\ index' = index
    BY <1>11 DEF Publish
  <2>4. Counted(ev)' = Counted(ev)
    BY <2>1, <2>2 DEF Counted
  <2>5. CountInv(ev)'
    <3>1. finished[ev] = 0 /\ threadIndex[ev] + 1 = threads
      BY <1>0, <2>1 DEF CountInv
    <3>2. \A u \in Workers : worker'[ev][u] # "publishing"
      BY <1>0, <2>1, <2>2 DEF CountInv
    <3>3. finished'[ev] = 1
      BY <2>1, <3>1
    <3> QED BY <1>0, <2>1, <2>2, <2>3, <2>4, <3>1, <3>2, <3>3 DEF CountInv
  <2>6. ClaimInv(ev)'
    <3>1. \A u \in Workers, p \in Positions : Holds(ev, u, p)' <=> Holds(ev, u, p)
      BY <2>1, <2>2, <2>3 DEF Holds
    <3>2. \A u \in Workers : worker[ev][u] = "threw" => worker'[ev][u] = "threw"
      BY <2>1, <2>2
    <3>3. \A u \in Workers : worker'[ev][u] = "checking" => worker[ev][u] = "checking"
      BY <2>2
    <3> QED BY <1>0, <2>1, <2>3, <3>1, <3>2, <3>3 DEF ClaimInv
  <2> QED BY <2>1, <2>2, <2>3, <2>5, <2>6 DEF PoolInv
<1> QED
  BY <1>1, <1>2, <1>3, <1>4, <1>5, <1>6, <1>8, <1>9, <1>10, <1>11 DEF HandlerStep, WorkerStep

\* What a step of the round ev leaves as it is: the configuration, and every other round.
Beside(ev) ==
    /\ threads' = threads /\ classCount' = classCount
    /\ \A other \in Events \ {ev} :
          /\ handler'[other] = handler[other] /\ cursor'[other] = cursor[other]
          /\ entityIndex'[other] = entityIndex[other] /\ threadIndex'[other] = threadIndex[other]
          /\ worker'[other] = worker[other] /\ index'[other] = index[other]
          /\ status'[other] = status[other] /\ finished'[other] = finished[other]

RoundStep(ev) ==
    \/ \E hasParent \in BOOLEAN : OnApplicationEvent(ev, hasParent)
    \/ HandlerStep(ev)
    \/ \E t \in Workers : WorkerStep(ev, t)

\* A step of one round keeps the invariant of another.
LEMMA StepBeside ==
    ASSUME TypeOK, NEW ev \in Events, RoundStep(ev)
    PROVE  Beside(ev)
<1> USE DEF config, pool, Beside, TypeOK
<1>1. ASSUME NEW hasParent \in BOOLEAN, OnApplicationEvent(ev, hasParent) PROVE Beside(ev)
  BY <1>1 DEF OnApplicationEvent
<1>2. CASE IterateNext(ev)
  BY <1>2 DEF IterateNext
<1>3. CASE IterateReturns(ev)
  BY <1>3 DEF IterateReturns
<1>4. CASE IterateThrows(ev)
  BY <1>4 DEF IterateThrows
<1>5. CASE IterateFinishes(ev)
  BY <1>5 DEF IterateFinishes
<1>6. CASE StartThread(ev)
  BY <1>6 DEF StartThread
<1>7. CASE StartReturns(ev)
  BY <1>7 DEF StartReturns
<1>8. ASSUME NEW t \in Workers, Claim(ev, t) PROVE Beside(ev)
  BY <1>8 DEF Claim
<1>9. ASSUME NEW t \in Workers, LeaveLoop(ev, t) PROVE Beside(ev)
  BY <1>9 DEF LeaveLoop
<1>10. ASSUME NEW t \in Workers, CheckReturns(ev, t) PROVE Beside(ev)
  BY <1>10 DEF CheckReturns
<1>11. ASSUME NEW t \in Workers, CheckThrows(ev, t) PROVE Beside(ev)
  BY <1>11 DEF CheckThrows
<1>12. ASSUME NEW t \in Workers, CountFinished(ev, t) PROVE Beside(ev)
  BY <1>12 DEF CountFinished
<1>13. ASSUME NEW t \in Workers, Publish(ev, t) PROVE Beside(ev)
  BY <1>13 DEF Publish
<1> QED
  BY <1>1, <1>2, <1>3, <1>4, <1>5, <1>6, <1>7, <1>8, <1>9, <1>10, <1>11, <1>12, <1>13
  DEF RoundStep, HandlerStep, WorkerStep

\* The inductive invariant of the listener: what each round knows of its classes, of
\* the threads that hold them and of the threads it has counted out.
THEOREM Inductive == Spec => []IInv
<1>1. Init => IInv
  <2> SUFFICES ASSUME Init PROVE IInv
    OBVIOUS
  <2>1. TypeOK
    BY DdlAssumption DEF Init, TypeOK, Status, HandlerStates, WorkerStates, Counter, FirstIndex
  <2>2. ASSUME NEW ev \in Events PROVE LoopInv(ev)
    BY <2>2 DEF Init, LoopInv, Positions
  <2>3. ASSUME NEW ev \in Events PROVE PoolInv(ev)
    <3>1. Counted(ev) = {}
      BY DEF Init, Counted
    <3>2. Cardinality(Counted(ev)) = 0
      BY <3>1, FS_EmptySet
    <3>3. ClaimInv(ev)
      BY DEF Init, ClaimInv, Holds, FirstIndex
    <3>4. CountInv(ev)
      BY <3>2 DEF Init, CountInv, FirstIndex
    <3> QED BY <3>3, <3>4 DEF Init, PoolInv
  <2> QED BY <2>1, <2>2, <2>3 DEF IInv
<1>2. TypeOK' /\ IInv /\ [Next]_vars => IInv'
  <2> SUFFICES ASSUME TypeOK', IInv, [Next]_vars PROVE IInv'
    OBVIOUS
  <2>1. TypeOK
    BY DEF IInv
  <2>2. ASSUME NEW ev \in Events, RoundStep(ev) PROVE IInv'
    <3>1. Beside(ev)
      BY <2>1, <2>2, StepBeside
    <3>2. threads \in Int
      BY <2>1, DdlAssumption DEF TypeOK
    <3>3. ASSUME NEW other \in Events \ {ev}
          PROVE  (LoopInv(other) => LoopInv(other)') /\ (PoolInv(other) => PoolInv(other)')
      BY <3>1, OtherRound DEF Beside
    <3>4. ASSUME threads <= 1 PROVE LoopInv(ev)'
      BY <2>1, <2>2, <3>4, LoopStep DEF IInv, RoundStep
    <3>5. ASSUME threads > 1 PROVE PoolInv(ev)'
      BY <2>1, <2>2, <3>2, <3>5, PoolStep DEF IInv, RoundStep
    <3> QED BY <3>1, <3>2, <3>3, <3>4, <3>5 DEF IInv, Beside
  <2>3. CASE UNCHANGED vars
    <3>1. ASSUME NEW ev \in Events
          PROVE  (LoopInv(ev) => LoopInv(ev)') /\ (PoolInv(ev) => PoolInv(ev)')
      BY <2>3, OtherRound DEF vars, config, pool
    <3> QED BY <2>3, <3>1 DEF IInv, vars, config
  <2> QED BY <2>2, <2>3 DEF Next, RoundStep
<1> QED
  BY <1>1, <1>2, TypeCorrect, PTL DEF Spec

-----------------------------------------------------------------------------
(* What follows from it.                                                   *)

\* Every class of the list has been checked when a round is about to publish or has
\* published its finish event.
LEMMA CheckedWhenFinished ==
    ASSUME IInv, NEW ev \in Events,
           \/ finished[ev] > 0
           \/ threads > 1 /\ \E t \in Workers : worker[ev][t] = "publishing"
           \/ threads <= 1 /\ handler[ev] = "iterating" /\ cursor[ev] >= classCount
    PROVE  \A p \in 0 .. classCount - 1 : status[ev][p] = "checked"
<1>1. TypeOK
  BY DEF IInv
<1>2. CASE threads <= 1
  <2>1. LoopInv(ev)
    BY <1>2 DEF IInv
  <2>2. cursor[ev] = classCount
    BY <1>1, <1>2, <2>1, RoundTypes DEF LoopInv
  <2> QED BY <1>1, <2>1, <2>2, RoundTypes DEF LoopInv, Positions
<1>3. CASE ~(threads <= 1)
  <2>1. threads > 1
    BY <1>1, <1>3, RoundTypes
  <2>2. ClaimInv(ev) /\ CountInv(ev)
    BY <1>3 DEF IInv, PoolInv
  <2>3. threadIndex[ev] + 1 = threads
    BY <1>3, <2>1, <2>2 DEF CountInv
  <2>4. Counted(ev) = Workers
    BY <1>1, <2>1, <2>2, <2>3, AllCounted
  <2>5. 1 \in Workers
    BY <1>1, <2>1, RoundTypes DEF Workers
  <2>6. \A t \in Workers : worker[ev][t] \in {"publishing", "done"}
    BY <2>4 DEF Counted
  <2>7. entityIndex[ev] >= classCount
    BY <2>2, <2>5, <2>6 DEF CountInv
  <2> SUFFICES ASSUME NEW p \in 0 .. classCount - 1 PROVE status[ev][p] = "checked"
    OBVIOUS
  <2>8. p \in Positions /\ p <= entityIndex[ev]
    BY <1>1, <2>7, RoundTypes DEF Positions
  <2>9. status[ev][p] \notin {"unchecked", "checking", "threw"}
    BY <2>2, <2>6, <2>8 DEF ClaimInv, Holds
  <2>10. status[ev][p] \in Status
    BY <1>1, <2>8 DEF TypeOK
  <2> QED BY <2>9, <2>10 DEF Status
<1> QED
  BY <1>2, <1>3

\* A DdlFinishEvent is published only once every class of the scanned list has been
\* checked without an exception (Ddl.java:60, 88-90).
THEOREM FinishCorrect == Spec => []FinishMeansChecked
<1>1. IInv => FinishMeansChecked
  BY CheckedWhenFinished DEF FinishMeansChecked
<1> QED
  BY <1>1, Inductive, PTL

\* A pool that has stopped with one of its threads at the end of its run() has skipped
\* no class, whatever the other threads died of (Ddl.java:74-81).
THEOREM NothingSkipped == Spec => []NothingLeftBehind
<1>1. IInv => NothingLeftBehind
  <2> SUFFICES ASSUME IInv, NEW ev \in Events,
                      \A t \in Workers : worker[ev][t] \in Ended,
                      NEW u \in Workers, worker[ev][u] = "done",
                      NEW p \in 0 .. classCount - 1
               PROVE  status[ev][p] \in {"checked", "threw"}
    BY DEF NothingLeftBehind
  <2>1. TypeOK
    BY DEF IInv
  <2>2. ClaimInv(ev) /\ CountInv(ev)
    <3>1. ~ LoopInv(ev)
      BY DEF LoopInv
    <3> QED BY <3>1 DEF IInv, PoolInv
  <2>3. entityIndex[ev] >= classCount
    BY <2>2 DEF CountInv
  <2>4. p \in Positions /\ p <= entityIndex[ev]
    BY <2>1, <2>3, RoundTypes DEF Positions
  <2>5. status[ev][p] \notin {"unchecked", "checking"}
    BY <2>2, <2>4 DEF ClaimInv, Holds, Ended
  <2>6. status[ev][p] \in Status
    BY <2>1, <2>4 DEF TypeOK
  <2> QED BY <2>5, <2>6 DEF Status
<1> QED
  BY <1>1, Inductive, PTL

-----------------------------------------------------------------------------
(* Loop and pool implement the promise: every step of the listener is a    *)
(* step of DdlPromise, or changes nothing of it.                           *)

\* Every step of the listener is one of the promise, or a stutter.
LEMMA StepPromise ==
    ASSUME IInv, NEW ev \in Events, RoundStep(ev)
    PROVE  Promise!PromiseNext \/ UNCHANGED Promise!promiseVars
<1> USE DEF config, pool
<1>0. TypeOK /\ (threads <= 1 => LoopInv(ev)) /\ (~(threads <= 1) => PoolInv(ev))
  BY DEF IInv
<1>1. ASSUME NEW p \in Positions, p < classCount,
             NEW from, NEW to, status[ev][p] = from,
             status' = [status EXCEPT ![ev][p] = to],
             <<from, to>> \in {<<"unchecked", "checking">>, <<"checking", "checked">>,
                              <<"checking", "threw">>},
             UNCHANGED <<classCount, finished>>
      PROVE  Promise!PromiseNext
  <2>1. Promise!Moves(ev, p, from, to)
    BY <1>1 DEF Promise!Moves
  <2>2. Promise!Begin(ev, p) \/ Promise!End(ev, p)
    BY <1>1, <2>1 DEF Promise!Begin, Promise!End
  <2> QED BY <2>2 DEF Promise!PromiseNext, Promise!Positions, Positions
<1>2. ASSUME finished[ev] = 0, \A p \in 0 .. classCount - 1 : status[ev][p] = "checked",
             finished' = [finished EXCEPT ![ev] = finished[ev] + 1],
             UNCHANGED <<classCount, status>>
      PROVE  Promise!PromiseNext
  <2>1. Promise!Announce(ev)
    BY <1>2 DEF Promise!Announce
  <2> QED BY <2>1 DEF Promise!PromiseNext
<1>3. ASSUME handler[ev] \in {"iterating", "checking"}
      PROVE  /\ threads <= 1 /\ LoopInv(ev)
             /\ cursor[ev] < classCount => cursor[ev] \in Positions
  BY <1>0, <1>3, RoundTypes DEF PoolInv, Positions
<1>4. ASSUME NEW t \in Workers, worker[ev][t] # "new"
      PROVE  threads > 1 /\ ClaimInv(ev) /\ CountInv(ev)
  BY <1>0, <1>4, RoundTypes DEF LoopInv, PoolInv
<1>5. CASE IterateNext(ev)
  <2>1. cursor[ev] \in Positions /\ status[ev][cursor[ev]] = "unchecked"
    BY <1>3, <1>5 DEF IterateNext, LoopInv
  <2> QED BY <1>1, <1>5, <2>1 DEF IterateNext
<1>6. CASE IterateReturns(ev)
  <2>1. /\ cursor[ev] \in Positions /\ cursor[ev] < classCount
        /\ status[ev][cursor[ev]] = "checking"
    BY <1>3, <1>6 DEF IterateReturns, LoopInv
  <2> QED BY <1>1, <1>6, <2>1 DEF IterateReturns
<1>7. CASE IterateThrows(ev)
  <2>1. /\ cursor[ev] \in Positions /\ cursor[ev] < classCount
        /\ status[ev][cursor[ev]] = "checking"
    BY <1>3, <1>7 DEF IterateThrows, LoopInv
  <2> QED BY <1>1, <1>7, <2>1 DEF IterateThrows
<1>8. CASE IterateFinishes(ev)
  <2>1. finished[ev] = 0
    BY <1>3, <1>8 DEF IterateFinishes, LoopInv
  <2>2. \A p \in 0 .. classCount - 1 : status[ev][p] = "checked"
    BY <1>3, <1>8, CheckedWhenFinished DEF IterateFinishes
  <2> QED BY <1>2, <1>8, <2>1, <2>2 DEF IterateFinishes
<1>9. CASE StartThread(ev) \/ StartReturns(ev)
  BY <1>9 DEF StartThread, StartReturns, Promise!promiseVars
<1>10. ASSUME NEW hasParent \in BOOLEAN, OnApplicationEvent(ev, hasParent)
       PROVE UNCHANGED Promise!promiseVars
  BY <1>10 DEF OnApplicationEvent, Promise!promiseVars
<1>11. ASSUME NEW t \in Workers, Claim(ev, t) PROVE Promise!PromiseNext
  <2> DEFINE got == Get(entityIndex[ev])
  <2>1. got \in Nat /\ got = entityIndex[ev] + 1 /\ got < classCount
    BY <1>0, <1>11, RoundTypes, GetType DEF Claim
  <2>2. got \in Positions /\ got > entityIndex[ev]
    BY <1>0, <2>1, RoundTypes DEF Positions
  <2>3. status[ev][got] = "unchecked"
    BY <1>4, <1>11, <2>2 DEF Claim, ClaimInv
  <2>4. /\ status' = [status EXCEPT ![ev][got] = "checking"]
        /\ UNCHANGED <<classCount, finished>>
    BY <1>11 DEF Claim
  <2> HIDE DEF got
  <2> QED BY <1>1, <2>1, <2>2, <2>3, <2>4
<1>12. ASSUME NEW t \in Workers, worker[ev][t] = "checking"
       PROVE  /\ index[ev][t] \in Positions /\ index[ev][t] < classCount
              /\ status[ev][index[ev][t]] = "checking"
  <2>1. index[ev][t] \in Positions /\ index[ev][t] < classCount
    BY <1>0, <1>4, <1>12, RoundTypes DEF ClaimInv, Positions
  <2> QED BY <1>4, <1>12, <2>1 DEF ClaimInv, Holds
<1>13. ASSUME NEW t \in Workers, CheckReturns(ev, t) PROVE Promise!PromiseNext
  BY <1>1, <1>12, <1>13 DEF CheckReturns
<1>14. ASSUME NEW t \in Workers, CheckThrows(ev, t) PROVE Promise!PromiseNext
  BY <1>1, <1>12, <1>14 DEF CheckThrows
<1>15. ASSUME NEW t \in Workers, LeaveLoop(ev, t) \/ CountFinished(ev, t)
       PROVE UNCHANGED Promise!promiseVars
  BY <1>15 DEF LeaveLoop, CountFinished, Promise!promiseVars
<1>16. ASSUME NEW t \in Workers, Publish(ev, t) PROVE Promise!PromiseNext
  <2>1. worker[ev][t] = "publishing" /\ threads > 1
    BY <1>4, <1>16 DEF Publish
  <2>2. finished[ev] = 0
    BY <1>4, <2>1 DEF CountInv
  <2>3. \A p \in 0 .. classCount - 1 : status[ev][p] = "checked"
    BY <2>1, CheckedWhenFinished
  <2> QED BY <1>2, <1>16, <2>2, <2>3 DEF Publish
<1> QED
  BY <1>5, <1>6, <1>7, <1>8, <1>9, <1>10, <1>11, <1>13, <1>14, <1>15, <1>16
  DEF RoundStep, HandlerStep, WorkerStep

\* The sequential loop and the pool alike take every class at most once in a round and
\* publish one finish event, after the last check (Ddl.java:53-93).
THEOREM Refinement == Spec => ImplementsPromise
<1>1. Init => Promise!PromiseInit
  BY DEF Init, Promise!PromiseInit, Promise!Positions, Positions
<1>2. IInv /\ [Next]_vars => [Promise!PromiseNext]_(Promise!promiseVars)
  <2>1. ASSUME IInv, Next PROVE Promise!PromiseNext \/ UNCHANGED Promise!promiseVars
    <3>1. PICK ev \in Events : RoundStep(ev)
      BY <2>1 DEF Next, RoundStep
    <3> QED BY <2>1, <3>1, StepPromise
  <2>2. UNCHANGED vars => UNCHANGED Promise!promiseVars
    BY DEF vars, config, Promise!promiseVars
  <2> QED BY <2>1, <2>2
<1> QED
  BY <1>1, <1>2, Inductive, PTL DEF Spec, ImplementsPromise, Promise!PromiseSpec
=============================================================================
