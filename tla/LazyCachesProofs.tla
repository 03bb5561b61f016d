-------------------------- MODULE LazyCachesProofs --------------------------
(***************************************************************************)
(* Proofs about LazyCaches: what an undisturbed lookup returns, that       *)
(* nothing is computed twice without a race, that the Properties are       *)
(* loaded by somebody and that the filter is single without a race, for    *)
(* any number of threads, maps and keys.                                   *)
(***************************************************************************)
EXTENDS LazyCaches, TLAPS

\* Each action keeps the types.
LEMMA TypeStep ==
    ASSUME TypeOK, PutInv, ConfigInv, [Next]_vars
    PROVE  TypeOK'
<1> USE LazyCachesAssumption DEF TypeOK, PutInv, ConfigInv, Goto, Maps, Properties
<1>1. CASE ContextReady
  BY <1>1 DEF ContextReady, maps, lookup, config, filter, marks, Putting, InLookup
<1>2. ASSUME NEW t \in Threads, Begin(t) \/ MapStep(t) \/ FieldStep(t)
      PROVE  TypeOK'
  <2>1. CASE LookUp(t)
    BY <2>1 DEF LookUp, maps, lookup, config, filter, marks, Putting, InLookup
  <2>2. CASE GetDbConfig(t)
    BY <2>2 DEF GetDbConfig, maps, lookup, config, filter, marks, Putting, InLookup
  <2>3. CASE GetInstance(t)
    BY <2>3 DEF GetInstance, maps, lookup, config, filter, marks, Putting, InLookup
  <2>4. CASE ContainsKey(t)
    BY <2>4 DEF ContainsKey, maps, lookup, config, filter, marks, Putting, InLookup
  <2>5. CASE AskBusiness(t)
    BY <2>5 DEF AskBusiness, maps, lookup, config, filter, marks, Putting, InLookup
  <2>6. CASE AskContext(t)
    BY <2>6 DEF AskContext, maps, lookup, config, filter, marks, Putting, InLookup
  <2>7. CASE NoContext(t)
    BY <2>7 DEF NoContext, Ends, maps, lookup, config, filter, marks, Putting, InLookup
  <2>8. CASE PutBegins(t)
    BY <2>8 DEF PutBegins, maps, lookup, config, filter, marks, Putting, InLookup
  <2>9. CASE PutEnds(t)
    BY <2>9 DEF PutEnds, maps, lookup, config, filter, marks, Putting, InLookup
  <2>10. CASE Get(t)
    BY <2>10 DEF Get, Ends, maps, lookup, config, filter, marks, Putting, InLookup
  <2>11. CASE GetBusiness(t)
    <3>1. CASE Ends(t)
      BY <2>11, <3>1 DEF GetBusiness, Ends, maps, config, filter, InLookup
    <3>2. CASE ~Ends(t)
      BY <2>11, <3>2 DEF GetBusiness, maps, config, filter, InLookup
    <3> QED
      BY <3>1, <3>2
  <2>12. CASE Loops(t)
    BY <2>12 DEF Loops, maps, lookup, config, filter, marks, Putting, InLookup
  <2>13. CASE NewProperties(t)
    BY <2>13 DEF NewProperties, maps, lookup, config, filter, marks, Putting, InLookup
  <2>14. CASE LoadBegins(t)
    BY <2>14 DEF LoadBegins, maps, lookup, config, filter, marks, Putting, InLookup
  <2>15. CASE LoadEnds(t)
    BY <2>15 DEF LoadEnds, maps, lookup, config, filter, marks, Putting, InLookup
  <2>16. CASE LoadThrows(t)
    BY <2>16 DEF LoadThrows, maps, lookup, config, filter, marks, Putting, InLookup
  <2>17. CASE Catch(t)
    BY <2>17 DEF Catch, maps, lookup, config, filter, marks, Putting, InLookup
  <2>18. CASE Build(t)
    BY <2>18 DEF Build, maps, lookup, config, filter, marks, Putting, InLookup
  <2>19. CASE BuildThrows(t)
    BY <2>19 DEF BuildThrows, maps, lookup, config, filter, marks, Putting, InLookup
  <2>20. CASE Return(t)
    BY <2>20 DEF Return, maps, lookup, config, filter, marks, Putting, InLookup
  <2> QED
    BY <1>2, <2>1, <2>2, <2>3, <2>4, <2>5, <2>6, <2>7, <2>8, <2>9, <2>10,
       <2>11, <2>12, <2>13, <2>14, <2>15, <2>16, <2>17, <2>18, <2>19, <2>20 DEF Begin, MapStep, FieldStep
<1>3. CASE UNCHANGED vars
  BY <1>3 DEF vars, maps, lookup, config, filter, marks, Putting, InLookup
<1> QED
  BY <1>1, <1>2, <1>3 DEF Next

\* Who puts excuses the others; what is found undisturbed was there.
LEMMA LookupStep ==
    ASSUME TypeOK, LookupInv, [Next]_vars
    PROVE  LookupInv'
<1> USE LazyCachesAssumption DEF TypeOK, LookupInv, Undisturbed, InLookup, Goto, Maps
<1>1. CASE ContextReady
  BY <1>1 DEF ContextReady, maps, lookup, config, filter, marks, Putting, Hits
<1>2. ASSUME NEW t \in Threads, Begin(t) \/ MapStep(t) \/ FieldStep(t)
      PROVE  LookupInv'
  <2>1. CASE LookUp(t)
    <3>1. PICK k \in Keys, m \in Maps :
             /\ key' = [key EXCEPT ![t] = k]
             /\ target' = [target EXCEPT ![t] = m]
             /\ at' = [at EXCEPT ![t] = m]
             /\ excused' = [excused EXCEPT ![t] = Putting(m) \cup Putting(Business) # {}]
      BY <2>1 DEF LookUp
    <3>2. cached' = cached /\ stage' = [stage EXCEPT ![t] = "containsKey"]
      BY <2>1 DEF LookUp, maps
    <3>3. Undisturbed(t)'
      BY <3>1, <3>2 DEF Putting
    <3>4. ASSUME NEW v \in Threads \ {t} PROVE Undisturbed(v)'
      BY <3>1, <3>2, <3>4
    <3> QED
      BY <3>3, <3>4
  <2>2. CASE GetDbConfig(t)
    BY <2>2 DEF GetDbConfig, maps, lookup, config, filter, marks, Putting, Hits
  <2>3. CASE GetInstance(t)
    BY <2>3 DEF GetInstance, maps, lookup, config, filter, marks, Putting, Hits
  <2>4. CASE ContainsKey(t)
    <3>1. PICK hit \in Hits(t, at[t], key[t]) :
             stage' = [stage EXCEPT ![t] = IF hit THEN "get" ELSE "run"]
      BY <2>4 DEF ContainsKey
    <3>2. UNCHANGED <<cached, key, target, at, excused>>
      BY <2>4 DEF ContainsKey, maps, lookup, marks
    <3>3. ~excused[t] => hit = (key[t] \in cached[at[t]])
      BY <2>4, <3>1 DEF ContainsKey, Hits, Putting
    <3>4. Undisturbed(t)'
      <4>1. CASE excused[t]
        BY <3>1, <3>2, <4>1
      <4>2. CASE ~excused[t] /\ key[t] \in cached[at[t]]
        <5>1. stage' = [stage EXCEPT ![t] = "get"]
          BY <3>1, <3>3, <4>2
        <5> QED
          BY <2>4, <3>2, <4>2, <5>1 DEF ContainsKey
      <4>3. CASE ~excused[t] /\ key[t] \notin cached[at[t]]
        <5>1. stage' = [stage EXCEPT ![t] = "run"]
          BY <3>1, <3>3, <4>3
        <5> QED
          BY <2>4, <3>2, <4>3, <5>1 DEF ContainsKey
      <4> QED
        BY <4>1, <4>2, <4>3
    <3>5. ASSUME NEW v \in Threads \ {t} PROVE Undisturbed(v)'
      BY <3>1, <3>2, <3>5
    <3> QED
      BY <3>4, <3>5
  <2>5. CASE AskBusiness(t)
    BY <2>5 DEF AskBusiness, maps, lookup, config, filter, marks, Putting, Hits
  <2>6. CASE AskContext(t)
    BY <2>6 DEF AskContext, maps, lookup, config, filter, marks, Putting, Hits
  <2>7. CASE NoContext(t)
    BY <2>7 DEF NoContext, Ends, maps, lookup, config, filter, marks, Putting, Hits
  <2>8. CASE PutBegins(t)
    BY <2>8 DEF PutBegins, maps, lookup, config, filter, marks, Putting, Hits
  <2>9. CASE PutEnds(t)
    BY <2>9 DEF PutEnds, maps, lookup, config, filter, marks, Putting, Hits
  <2>10. CASE Get(t)
    BY <2>10 DEF Get, Ends, maps, lookup, config, filter, marks, Putting, Hits
  <2>11. CASE GetBusiness(t)
    BY <2>11 DEF GetBusiness, Ends, maps, lookup, config, filter, marks, Putting, Hits
  <2>12. CASE Loops(t)
    BY <2>12 DEF Loops, maps, lookup, config, filter, marks, Putting, Hits
  <2>13. CASE NewProperties(t)
    BY <2>13 DEF NewProperties, maps, lookup, config, filter, marks, Putting, Hits
  <2>14. CASE LoadBegins(t)
    BY <2>14 DEF LoadBegins, maps, lookup, config, filter, marks, Putting, Hits
  <2>15. CASE LoadEnds(t)
    BY <2>15 DEF LoadEnds, maps, lookup, config, filter, marks, Putting, Hits
  <2>16. CASE LoadThrows(t)
    BY <2>16 DEF LoadThrows, maps, lookup, config, filter, marks, Putting, Hits
  <2>17. CASE Catch(t)
    BY <2>17 DEF Catch, maps, lookup, config, filter, marks, Putting, Hits
  <2>18. CASE Build(t)
    BY <2>18 DEF Build, maps, lookup, config, filter, marks, Putting, Hits
  <2>19. CASE BuildThrows(t)
    BY <2>19 DEF BuildThrows, maps, lookup, config, filter, marks, Putting, Hits
  <2>20. CASE Return(t)
    BY <2>20 DEF Return, maps, lookup, config, filter, marks, Putting, Hits
  <2> QED
    BY <1>2, <2>1, <2>2, <2>3, <2>4, <2>5, <2>6, <2>7, <2>8, <2>9, <2>10,
       <2>11, <2>12, <2>13, <2>14, <2>15, <2>16, <2>17, <2>18, <2>19, <2>20 DEF Begin, MapStep, FieldStep
<1>3. CASE UNCHANGED vars
  BY <1>3 DEF vars, maps, lookup, config, filter, marks, Putting, Hits
<1> QED
  BY <1>1, <1>2, <1>3 DEF Next

\* A key is lost only where two puts cross.
LEMMA PutStep ==
    ASSUME TypeOK, PutInv, [Next]_vars
    PROVE  PutInv'
<1> USE LazyCachesAssumption DEF TypeOK, PutInv, InLookup, Goto, Maps
<1>1. CASE ContextReady
  BY <1>1 DEF ContextReady, maps, lookup, config, filter, marks, Putting
<1>2. ASSUME NEW t \in Threads, Begin(t) \/ MapStep(t) \/ FieldStep(t)
      PROVE  PutInv'
  <2>1. CASE LookUp(t)
    BY <2>1 DEF LookUp, maps, lookup, config, filter, marks, Putting
  <2>2. CASE GetDbConfig(t)
    BY <2>2 DEF GetDbConfig, maps, lookup, config, filter, marks, Putting
  <2>3. CASE GetInstance(t)
    BY <2>3 DEF GetInstance, maps, lookup, config, filter, marks, Putting
  <2>4. CASE ContainsKey(t)
    BY <2>4 DEF ContainsKey, maps, lookup, config, filter, marks, Putting
  <2>5. CASE AskBusiness(t)
    BY <2>5 DEF AskBusiness, maps, lookup, config, filter, marks, Putting
  <2>6. CASE AskContext(t)
    BY <2>6 DEF AskContext, maps, lookup, config, filter, marks, Putting
  <2>7. CASE NoContext(t)
    BY <2>7 DEF NoContext, Ends, maps, lookup, config, filter, marks, Putting
  <2>8. CASE PutBegins(t)
    BY <2>8 DEF PutBegins, maps, lookup, config, filter, marks, Putting
  <2>9. CASE PutEnds(t)
    BY <2>9 DEF PutEnds, maps, lookup, config, filter, marks, Putting
  <2>10. CASE Get(t)
    BY <2>10 DEF Get, Ends, maps, lookup, config, filter, marks, Putting
  <2>11. CASE GetBusiness(t)
    BY <2>11 DEF GetBusiness, Ends, maps, lookup, config, filter, marks, Putting
  <2>12. CASE Loops(t)
    BY <2>12 DEF Loops, maps, lookup, config, filter, marks, Putting
  <2>13. CASE NewProperties(t)
    BY <2>13 DEF NewProperties, maps, lookup, config, filter, marks, Putting
  <2>14. CASE LoadBegins(t)
    BY <2>14 DEF LoadBegins, maps, lookup, config, filter, marks, Putting
  <2>15. CASE LoadEnds(t)
    BY <2>15 DEF LoadEnds, maps, lookup, config, filter, marks, Putting
  <2>16. CASE LoadThrows(t)
    BY <2>16 DEF LoadThrows, maps, lookup, config, filter, marks, Putting
  <2>17. CASE Catch(t)
    BY <2>17 DEF Catch, maps, lookup, config, filter, marks, Putting
  <2>18. CASE Build(t)
    BY <2>18 DEF Build, maps, lookup, config, filter, marks, Putting
  <2>19. CASE BuildThrows(t)
    BY <2>19 DEF BuildThrows, maps, lookup, config, filter, marks, Putting
  <2>20. CASE Return(t)
    BY <2>20 DEF Return, maps, lookup, config, filter, marks, Putting
  <2> QED
    BY <1>2, <2>1, <2>2, <2>3, <2>4, <2>5, <2>6, <2>7, <2>8, <2>9, <2>10,
       <2>11, <2>12, <2>13, <2>14, <2>15, <2>16, <2>17, <2>18, <2>19, <2>20 DEF Begin, MapStep, FieldStep
<1>3. CASE UNCHANGED vars
  BY <1>3 DEF vars, maps, lookup, config, filter, marks, Putting
<1> QED
  BY <1>1, <1>2, <1>3 DEF Next

\* The thread that assigned the field last loads what it holds.
LEMMA ConfigStep ==
    ASSUME TypeOK, ConfigInv, EmptyOnlyWhileLoading, [Next]_vars
    PROVE  ConfigInv' /\ EmptyOnlyWhileLoading'
<1> USE LazyCachesAssumption DEF TypeOK, ConfigInv, EmptyOnlyWhileLoading, IsLoading, InLookup, Goto, Properties
<1>1. CASE ContextReady
  BY <1>1 DEF ContextReady, maps, lookup, config, filter, marks, Putting
<1>2. ASSUME NEW t \in Threads, Begin(t) \/ MapStep(t) \/ FieldStep(t)
      PROVE  ConfigInv' /\ EmptyOnlyWhileLoading'
  <2>1. CASE LookUp(t)
    BY <2>1 DEF LookUp, maps, lookup, config, filter, marks, Putting
  <2>2. CASE GetDbConfig(t)
    BY <2>2 DEF GetDbConfig, maps, lookup, config, filter, marks, Putting
  <2>3. CASE GetInstance(t)
    BY <2>3 DEF GetInstance, maps, lookup, config, filter, marks, Putting
  <2>4. CASE ContainsKey(t)
    BY <2>4 DEF ContainsKey, maps, lookup, config, filter, marks, Putting
  <2>5. CASE AskBusiness(t)
    BY <2>5 DEF AskBusiness, maps, lookup, config, filter, marks, Putting
  <2>6. CASE AskContext(t)
    BY <2>6 DEF AskContext, maps, lookup, config, filter, marks, Putting
  <2>7. CASE NoContext(t)
    BY <2>7 DEF NoContext, Ends, maps, lookup, config, filter, marks, Putting
  <2>8. CASE PutBegins(t)
    BY <2>8 DEF PutBegins, maps, lookup, config, filter, marks, Putting
  <2>9. CASE PutEnds(t)
    BY <2>9 DEF PutEnds, maps, lookup, config, filter, marks, Putting
  <2>10. CASE Get(t)
    BY <2>10 DEF Get, Ends, maps, lookup, config, filter, marks, Putting
  <2>11. CASE GetBusiness(t)
    BY <2>11 DEF GetBusiness, Ends, maps, lookup, config, filter, marks, Putting
  <2>12. CASE Loops(t)
    BY <2>12 DEF Loops, maps, lookup, config, filter, marks, Putting
  <2>13. CASE NewProperties(t)
    BY <2>13 DEF NewProperties, maps, lookup, config, filter, marks, Putting
  <2>14. CASE LoadBegins(t)
    BY <2>14 DEF LoadBegins, maps, lookup, config, filter, marks, Putting
  <2>15. CASE LoadEnds(t)
    BY <2>15 DEF LoadEnds, maps, lookup, config, filter, marks, Putting
  <2>16. CASE LoadThrows(t)
    BY <2>16 DEF LoadThrows, maps, lookup, config, filter, marks, Putting
  <2>17. CASE Catch(t)
    BY <2>17 DEF Catch, maps, lookup, config, filter, marks, Putting
  <2>18. CASE Build(t)
    BY <2>18 DEF Build, maps, lookup, config, filter, marks, Putting
  <2>19. CASE BuildThrows(t)
    BY <2>19 DEF BuildThrows, maps, lookup, config, filter, marks, Putting
  <2>20. CASE Return(t)
    BY <2>20 DEF Return, maps, lookup, config, filter, marks, Putting
  <2> QED
    BY <1>2, <2>1, <2>2, <2>3, <2>4, <2>5, <2>6, <2>7, <2>8, <2>9, <2>10,
       <2>11, <2>12, <2>13, <2>14, <2>15, <2>16, <2>17, <2>18, <2>19, <2>20 DEF Begin, MapStep, FieldStep
<1>3. CASE UNCHANGED vars
  BY <1>3 DEF vars, maps, lookup, config, filter, marks, Putting
<1> QED
  BY <1>1, <1>2, <1>3 DEF Next

\* Of first calls that do not meet, one builds the filter.
LEMMA FilterStep ==
    ASSUME TypeOK, FilterInv, SingletonWithoutRace, [Next]_vars
    PROVE  FilterInv' /\ SingletonWithoutRace'
<1> USE LazyCachesAssumption DEF TypeOK, FilterInv, SingletonWithoutRace, InLookup, Goto
<1>1. CASE ContextReady
  BY <1>1 DEF ContextReady, maps, lookup, config, filter, marks, Putting
<1>2. ASSUME NEW t \in Threads, Begin(t) \/ MapStep(t) \/ FieldStep(t)
      PROVE  FilterInv' /\ SingletonWithoutRace'
  <2>1. CASE LookUp(t)
    BY <2>1 DEF LookUp, maps, lookup, config, filter, marks, Putting
  <2>2. CASE GetDbConfig(t)
    BY <2>2 DEF GetDbConfig, maps, lookup, config, filter, marks, Putting
  <2>3. CASE GetInstance(t)
    BY <2>3 DEF GetInstance, maps, lookup, config, filter, marks, Putting
  <2>4. CASE ContainsKey(t)
    BY <2>4 DEF ContainsKey, maps, lookup, config, filter, marks, Putting
  <2>5. CASE AskBusiness(t)
    BY <2>5 DEF AskBusiness, maps, lookup, config, filter, marks, Putting
  <2>6. CASE AskContext(t)
    BY <2>6 DEF AskContext, maps, lookup, config, filter, marks, Putting
  <2>7. CASE NoContext(t)
    BY <2>7 DEF NoContext, Ends, maps, lookup, config, filter, marks, Putting
  <2>8. CASE PutBegins(t)
    BY <2>8 DEF PutBegins, maps, lookup, config, filter, marks, Putting
  <2>9. CASE PutEnds(t)
    BY <2>9 DEF PutEnds, maps, lookup, config, filter, marks, Putting
  <2>10. CASE Get(t)
    BY <2>10 DEF Get, Ends, maps, lookup, config, filter, marks, Putting
  <2>11. CASE GetBusiness(t)
    BY <2>11 DEF GetBusiness, Ends, maps, lookup, config, filter, marks, Putting
  <2>12. CASE Loops(t)
    BY <2>12 DEF Loops, maps, lookup, config, filter, marks, Putting
  <2>13. CASE NewProperties(t)
    BY <2>13 DEF NewProperties, maps, lookup, config, filter, marks, Putting
  <2>14. CASE LoadBegins(t)
    BY <2>14 DEF LoadBegins, maps, lookup, config, filter, marks, Putting
  <2>15. CASE LoadEnds(t)
    BY <2>15 DEF LoadEnds, maps, lookup, config, filter, marks, Putting
  <2>16. CASE LoadThrows(t)
    BY <2>16 DEF LoadThrows, maps, lookup, config, filter, marks, Putting
  <2>17. CASE Catch(t)
    BY <2>17 DEF Catch, maps, lookup, config, filter, marks, Putting
  <2>18. CASE Build(t)
    BY <2>18 DEF Build, maps, lookup, config, filter, marks, Putting
  <2>19. CASE BuildThrows(t)
    BY <2>19 DEF BuildThrows, maps, lookup, config, filter, marks, Putting
  <2>20. CASE Return(t)
    BY <2>20 DEF Return, maps, lookup, config, filter, marks, Putting
  <2> QED
    BY <1>2, <2>1, <2>2, <2>3, <2>4, <2>5, <2>6, <2>7, <2>8, <2>9, <2>10,
       <2>11, <2>12, <2>13, <2>14, <2>15, <2>16, <2>17, <2>18, <2>19, <2>20 DEF Begin, MapStep, FieldStep
<1>3. CASE UNCHANGED vars
  BY <1>3 DEF vars, maps, lookup, config, filter, marks, Putting
<1> QED
  BY <1>1, <1>2, <1>3 DEF Next

\* The invariant is inductive.
THEOREM Inductive == Spec => []IInv
<1>1. Init => IInv
  BY LazyCachesAssumption
     DEF Init, IInv, TypeOK, LookupInv, Undisturbed, PutInv, ConfigInv, FilterInv, InLookup,
         EmptyOnlyWhileLoading, SingletonWithoutRace, Maps
<1>2. IInv /\ [Next]_vars => IInv'
  BY TypeStep, LookupStep, PutStep, ConfigStep, FilterStep DEF IInv
<1> QED
  BY <1>1, <1>2, PTL DEF Spec

\* Every reachable state has its type.
THEOREM TypeCorrect == Spec => []TypeOK
BY Inductive, PTL DEF IInv

\* Nothing that was put is computed again without a race (DdlUtil.java:30-33).
THEOREM ComputedOnceCorrect == Spec => []ComputedOnce
<1>1. IInv => ComputedOnce
  BY DEF IInv, TypeOK, LookupInv, Undisturbed, PutInv, InLookup, ComputedOnce
<1> QED
  BY <1>1, Inductive, PTL

\* Properties that are not loaded are being loaded, or loading has failed
\* (GuzzUtil.java:22-33).
THEOREM ConfigCorrect == Spec => []EmptyOnlyWhileLoading
BY Inductive, PTL DEF IInv

\* There is one filter unless two first calls met (SensitivewordFilter.java:39-44).
THEOREM SingletonCorrect == Spec => []SingletonWithoutRace
BY Inductive, PTL DEF IInv

\* The step in which an undisturbed lookup ends returns its value.
LEMMA LoneStep ==
    ASSUME TypeOK, LookupInv, [Next]_vars, NEW v \in Threads,
           InLookup(v), stage'[v] = "idle", key[v] \in Known, ~excused[v], ready
    PROVE  answer'[v] = key[v]
<1> USE LazyCachesAssumption DEF TypeOK, LookupInv, Undisturbed, InLookup, Goto
<1>1. CASE ContextReady
  BY <1>1 DEF ContextReady, maps, lookup, config, filter, marks, Putting, Hits
<1>2. ASSUME NEW t \in Threads, Begin(t) \/ MapStep(t) \/ FieldStep(t)
      PROVE  answer'[v] = key[v]
  <2>1. CASE LookUp(t)
    BY <2>1 DEF LookUp, maps, lookup, config, filter, marks, Putting, Hits
  <2>2. CASE GetDbConfig(t)
    BY <2>2 DEF GetDbConfig, maps, lookup, config, filter, marks, Putting, Hits
  <2>3. CASE GetInstance(t)
    BY <2>3 DEF GetInstance, maps, lookup, config, filter, marks, Putting, Hits
  <2>4. CASE ContainsKey(t)
    BY <2>4 DEF ContainsKey, maps, lookup, config, filter, marks, Putting, Hits
  <2>5. CASE AskBusiness(t)
    BY <2>5 DEF AskBusiness, maps, lookup, config, filter, marks, Putting, Hits
  <2>6. CASE AskContext(t)
    BY <2>6 DEF AskContext, maps, lookup, config, filter, marks, Putting, Hits
  <2>7. CASE NoContext(t)
    BY <2>7 DEF NoContext, Ends, maps, lookup, config, filter, marks, Putting, Hits
  <2>8. CASE PutBegins(t)
    BY <2>8 DEF PutBegins, maps, lookup, config, filter, marks, Putting, Hits
  <2>9. CASE PutEnds(t)
    BY <2>9 DEF PutEnds, maps, lookup, config, filter, marks, Putting, Hits
  <2>10. CASE Get(t)
    <3>1. v = t
      <4>1. stage' = [stage EXCEPT ![t] = "idle"]
        BY <2>10 DEF Get, Ends
      <4> QED
        BY <4>1
    <3>2. Hits(t, at[t], key[t]) = {TRUE}
      BY <2>10, <3>1 DEF Get, Hits, Putting
    <3>3. answer' = [answer EXCEPT ![t] = key[t]]
      BY <2>10, <3>1, <3>2 DEF Get
    <3> QED
      BY <3>1, <3>3
  <2>11. CASE GetBusiness(t)
    <3>1. v = t
      <4>1. PICK s : stage' = [stage EXCEPT ![t] = s]
        BY <2>11 DEF GetBusiness, Ends
      <4> QED
        BY <4>1
    <3>2. Hits(t, at[t], key[t]) = {TRUE}
      BY <2>11, <3>1 DEF GetBusiness, Hits, Putting
    <3>3. stage'[t] = "put"
      BY <2>11, <3>1, <3>2 DEF GetBusiness
    <3> QED
      BY <3>1, <3>3
  <2>12. CASE Loops(t)
    BY <2>12 DEF Loops, maps, lookup, config, filter, marks, Putting, Hits
  <2>13. CASE NewProperties(t)
    BY <2>13 DEF NewProperties, maps, lookup, config, filter, marks, Putting, Hits
  <2>14. CASE LoadBegins(t)
    BY <2>14 DEF LoadBegins, maps, lookup, config, filter, marks, Putting, Hits
  <2>15. CASE LoadEnds(t)
    BY <2>15 DEF LoadEnds, maps, lookup, config, filter, marks, Putting, Hits
  <2>16. CASE LoadThrows(t)
    BY <2>16 DEF LoadThrows, maps, lookup, config, filter, marks, Putting, Hits
  <2>17. CASE Catch(t)
    BY <2>17 DEF Catch, maps, lookup, config, filter, marks, Putting, Hits
  <2>18. CASE Build(t)
    BY <2>18 DEF Build, maps, lookup, config, filter, marks, Putting, Hits
  <2>19. CASE BuildThrows(t)
    BY <2>19 DEF BuildThrows, maps, lookup, config, filter, marks, Putting, Hits
  <2>20. CASE Return(t)
    BY <2>20 DEF Return, maps, lookup, config, filter, marks, Putting, Hits
  <2> QED
    BY <1>2, <2>1, <2>2, <2>3, <2>4, <2>5, <2>6, <2>7, <2>8, <2>9, <2>10,
       <2>11, <2>12, <2>13, <2>14, <2>15, <2>16, <2>17, <2>18, <2>19, <2>20 DEF Begin, MapStep, FieldStep
<1>3. CASE UNCHANGED vars
  BY <1>3 DEF vars, maps, lookup, config, filter, marks, Putting, Hits
<1> QED
  BY <1>1, <1>2, <1>3 DEF Next

\* A lookup of a known class that no other thread disturbs returns its value
\* (CollectionUtil.java:35-40).
THEOREM LoneLookupCorrect == Spec => LoneLookupAnswers
<1>1. IInv /\ [Next]_vars =>
         [\A t \in Threads :
             InLookup(t) /\ stage'[t] = "idle" /\ key[t] \in Known =>
                 excused[t] \/ ~ready \/ answer'[t] = key[t]]_vars
  BY LoneStep DEF IInv
<1> QED
  BY <1>1, Inductive, PTL DEF Spec, LoneLookupAnswers
=============================================================================
