----------------------------- MODULE LazyCaches -----------------------------
(***************************************************************************)
(* What is computed when it is first asked for, and shared by all threads  *)
(* without a lock: the maps of DdlUtil, which CollectionUtil.getFromMap    *)
(* fills, GuzzUtil.getDbConfig and SensitivewordFilter.getInstance.        *)
(*                                                                         *)
(* A key stands for a class name with a table condition.  What is cached   *)
(* under a key depends on the class alone, so that a map is the set of its *)
(* keys.  java.util.HashMap (of Java 7) is external: it is correct as long *)
(* as nobody puts; during a put the others may miss any key or see the new *)
(* one; two puts at a time may lose keys and tie a bucket into a ring, in  *)
(* which whoever comes across it goes round for ever.                      *)
(***************************************************************************)
EXTENDS FiniteSets

CONSTANTS Threads,
          Keys,
          Known,    \* those of a class that GuzzContext has a Business for
          Derived,  \* the maps of tables, dialects and database groups
          Work,     \* what each thread calls: a choice of functions to subsets of Calls
          None

Business == "business"
Maps == Derived \cup {Business}
Calls == {"lookup", "getDbConfig", "getInstance"}

\* guzz.properties is read into the Properties of line 25; line 29 makes empty ones.
Properties == Threads \X {"load", "catch"}

ASSUME LazyCachesAssumption ==
    /\ Business \notin Derived
    /\ Known \subseteq Keys
    /\ None \notin Threads \cup Keys \cup Properties
    /\ Work \subseteq [Threads -> SUBSET Calls]

VARIABLES
    work,       \* the one of Work
    ready,      \* whether the application context has its GuzzContext
    cached,     \* per map, the keys in it
    ring,       \* the maps with a bucket that is a ring
    dbConfig,   \* GuzzUtil.dbConfig: the Properties by the thread that made it, and where
    loaded,     \* the Properties that are loaded
    inst,       \* SensitivewordFilter.inst: the filter by the thread that built it
    stage,      \* per thread, where it is in its call
    key,        \* what it looks up
    target,     \* in which of the maps
    at,         \* the map that it is working on: getTable and the others ask getBusiness
    receiver,   \* the Properties that it loads
    answer,     \* what its last call returned: a key for its value, or None for null
    excused,    \* whether others have put into its maps meanwhile (history)
    filled,     \* <<map, key>>: what has been put (history)
    crossed,    \* the maps that have seen two puts at a time (history)
    failed,     \* whether loading guzz.properties has failed (history)
    built,      \* the threads that built a filter (history)
    together    \* whether two threads have been in their first getInstance (history)

maps == <<cached, ring>>
lookup == <<key, target, at>>
config == <<dbConfig, loaded, receiver>>
filter == <<inst, built, together>>
marks == <<excused, filled, crossed>>
vars == <<work, ready, maps, stage, lookup, answer, config, filter, marks, failed>>

Init ==
    /\ work \in Work
    /\ ready \in BOOLEAN
    /\ cached = [m \in Maps |-> {}]
    /\ ring = {}
    /\ dbConfig = None
    /\ loaded = {}
    /\ inst = None
    /\ stage = [t \in Threads |-> "idle"]
    /\ key = [t \in Threads |-> None]
    /\ target = [t \in Threads |-> Business]
    /\ at = [t \in Threads |-> Business]
    /\ receiver = [t \in Threads |-> None]
    /\ answer = [t \in Threads |-> None]
    /\ excused = [t \in Threads |-> FALSE]
    /\ filled = {}
    /\ crossed = {}
    /\ failed = FALSE
    /\ built = {}
    /\ together = FALSE

Goto(t, s) == stage' = [stage EXCEPT ![t] = s]

\* The application context comes up.
ContextReady ==
    /\ ~ready
    /\ ready' = TRUE
    /\ UNCHANGED <<work, maps, stage, lookup, answer, config, filter, marks, failed>>

-----------------------------------------------------------------------------
(* getBusiness, getTable, getDialect, getDbGroup over getFromMap.          *)

\* "crossing" is a put that has met another one.
InLookup(t) == stage[t] \in {"containsKey", "run", "put", "putting", "crossing", "get"}

Putting(m) == {t \in Threads : stage[t] \in {"putting", "crossing"} /\ at[t] = m}

\* What containsKey and get may find of k in m.
Hits(t, m, k) ==
    LET others == Putting(m) \ {t} IN
    {k \in cached[m]}
        \cup {FALSE : u \in others}
        \cup {TRUE : u \in {v \in others : key[v] = k}}

Ends(t) ==
    /\ stage' = [stage EXCEPT ![t] = "idle"]
    /\ key' = [key EXCEPT ![t] = None]
    /\ at' = [at EXCEPT ![t] = Business]
    /\ target' = [target EXCEPT ![t] = Business]
    /\ excused' = [excused EXCEPT ![t] = FALSE]

LookUp(t) ==
    /\ "lookup" \in work[t]
    /\ stage[t] = "idle"
    /\ \E k \in Keys, m \in Maps :
          /\ key' = [key EXCEPT ![t] = k]
          /\ target' = [target EXCEPT ![t] = m]
          /\ at' = [at EXCEPT ![t] = m]
          /\ excused' = [excused EXCEPT ![t] = Putting(m) \cup Putting(Business) # {}]
    /\ answer' = [answer EXCEPT ![t] = None]
    /\ Goto(t, "containsKey")
    /\ UNCHANGED <<work, ready, maps, config, filter, filled, crossed, failed>>

\* A lookup that computes what it has already.
MutContainsKey(t) ==
    /\ stage[t] = "containsKey"
    /\ Goto(t, "run")
    /\ UNCHANGED <<work, ready, maps, lookup, answer, config, filter, marks, failed>>

ContainsKey(t) ==
    /\ stage[t] = "containsKey"
    /\ \E hit \in Hits(t, at[t], key[t]) : Goto(t, IF hit THEN "get" ELSE "run")
    /\ UNCHANGED <<work, ready, maps, lookup, answer, config, filter, marks, failed>>

\* A callback of a table that looks up the table.
MutAskBusiness(t) ==
    /\ stage[t] = "run"
    /\ at[t] # Business
    /\ Goto(t, "containsKey")
    /\ UNCHANGED <<work, ready, maps, lookup, answer, config, filter, marks, failed>>

\* The callbacks of the other maps ask getBusiness.
AskBusiness(t) ==
    /\ stage[t] = "run"
    /\ at[t] # Business
    /\ at' = [at EXCEPT ![t] = Business]
    /\ Goto(t, "containsKey")
    /\ UNCHANGED <<work, ready, maps, key, target, answer, config, filter, marks, failed>>

\* GuzzContext.getBusiness, null for a class that is not known.
AskContext(t) ==
    /\ stage[t] = "run"
    /\ at[t] = Business
    /\ ready
    /\ Goto(t, "put")
    /\ UNCHANGED <<work, ready, maps, lookup, answer, config, filter, marks, failed>>

\* Without a context getBean is null: nothing is put.
NoContext(t) ==
    /\ stage[t] = "run"
    /\ at[t] = Business
    /\ ~ready
    /\ Ends(t)
    /\ UNCHANGED <<work, ready, maps, answer, config, filter, filled, crossed, failed>>

PutBegins(t) ==
    LET m == at[t]
        others == Putting(m)
    IN /\ stage[t] = "put"
       /\ stage' = [u \in Threads |->
                      CASE u = t -> IF others = {} THEN "putting" ELSE "crossing"
                        [] u \in others -> "crossing"
                        [] OTHER -> stage[u]]
       /\ crossed' = IF others = {} THEN crossed ELSE crossed \cup {m}
       /\ excused' = [u \in Threads |->
                         \/ excused[u]
                         \/ u = t /\ others # {}
                         \/ u # t /\ InLookup(u) /\ m \in {target[u], Business}]
       /\ UNCHANGED <<work, ready, maps, lookup, answer, config, filter, filled, failed>>

\* A put that is forgotten.
MutPutEnds(t) ==
    /\ stage[t] \in {"putting", "crossing"}
    /\ filled' = filled \cup {<<at[t], key[t]>>}
    /\ Goto(t, "get")
    /\ UNCHANGED <<work, ready, maps, lookup, answer, config, filter, excused, crossed, failed>>

PutEnds(t) ==
    LET m == at[t]
        all == cached[m] \cup {key[t]}
    IN /\ \/ /\ stage[t] = "putting"
             /\ cached' = [cached EXCEPT ![m] = all]
             /\ UNCHANGED ring
          \/ /\ stage[t] = "crossing"
             /\ \E kept \in SUBSET all : cached' = [cached EXCEPT ![m] = kept]
             /\ ring' \in {ring, ring \cup {m}}
       /\ filled' = filled \cup {<<m, key[t]>>}
       /\ Goto(t, "get")
       /\ UNCHANGED <<work, ready, lookup, answer, config, filter, excused, crossed, failed>>

\* Whatever it does with a map, a thread may run into the ring.
Loops(t) ==
    /\ stage[t] \in {"containsKey", "put", "get"}
    /\ at[t] \in ring
    /\ Goto(t, "looping")
    /\ UNCHANGED <<work, ready, maps, lookup, answer, config, filter, marks, failed>>

\* What getFromMap returns is the answer of the call, or of the callback within it.
Get(t) ==
    /\ stage[t] = "get"
    /\ at[t] = target[t]
    /\ \E hit \in Hits(t, at[t], key[t]) :
          answer' = [answer EXCEPT ![t] =
                        IF hit /\ (at[t] = Business => key[t] \in Known) THEN key[t] ELSE None]
    /\ Ends(t)
    /\ UNCHANGED <<work, ready, maps, config, filter, filled, crossed, failed>>

\* getBusiness(clazz1).getTable() on null throws.
GetBusiness(t) ==
    /\ stage[t] = "get"
    /\ at[t] # target[t]
    /\ \E hit \in Hits(t, at[t], key[t]) :
          IF hit /\ key[t] \in Known
          THEN /\ at' = [at EXCEPT ![t] = target[t]]
               /\ Goto(t, "put")
               /\ UNCHANGED <<key, target, excused>>
          ELSE Ends(t)
    /\ UNCHANGED <<work, ready, maps, answer, config, filter, filled, crossed, failed>>

-----------------------------------------------------------------------------
(* GuzzUtil.getDbConfig.                                                   *)

GetDbConfig(t) ==
    /\ "getDbConfig" \in work[t]
    /\ stage[t] = "idle"
    /\ Goto(t, IF dbConfig = None THEN "new" ELSE "return")
    /\ UNCHANGED <<work, ready, maps, lookup, answer, config, filter, marks, failed>>

\* A field that is not assigned.
MutNewProperties(t) ==
    /\ stage[t] = "new"
    /\ Goto(t, "load")
    /\ UNCHANGED <<work, ready, maps, lookup, answer, config, filter, marks, failed>>

\* The field is assigned before anything is loaded.
NewProperties(t) ==
    /\ stage[t] = "new"
    /\ dbConfig' = <<t, "load">>
    /\ Goto(t, "load")
    /\ UNCHANGED <<work, ready, maps, lookup, answer, loaded, receiver, filter, marks, failed>>

\* load is called on what the field holds by now, maybe the Properties of another thread.
LoadBegins(t) ==
    /\ stage[t] = "load"
    /\ receiver' = [receiver EXCEPT ![t] = dbConfig]
    /\ Goto(t, "loading")
    /\ UNCHANGED <<work, ready, maps, lookup, answer, dbConfig, loaded, filter, marks, failed>>

\* A finally in the place of the catch.
MutLoadEnds(t) ==
    /\ stage[t] = "loading"
    /\ loaded' = loaded \cup {receiver[t]}
    /\ receiver' = [receiver EXCEPT ![t] = None]
    /\ Goto(t, "catch")
    /\ UNCHANGED <<work, ready, maps, lookup, answer, dbConfig, filter, marks, failed>>

LoadEnds(t) ==
    /\ stage[t] = "loading"
    /\ loaded' = loaded \cup {receiver[t]}
    /\ receiver' = [receiver EXCEPT ![t] = None]
    /\ Goto(t, "return")
    /\ UNCHANGED <<work, ready, maps, lookup, answer, dbConfig, filter, marks, failed>>

LoadThrows(t) ==
    /\ stage[t] = "loading"
    /\ failed' = TRUE
    /\ receiver' = [receiver EXCEPT ![t] = None]
    /\ Goto(t, "catch")
    /\ UNCHANGED <<work, ready, maps, lookup, answer, dbConfig, loaded, filter, marks>>

Catch(t) ==
    /\ stage[t] = "catch"
    /\ dbConfig' = <<t, "catch">>
    /\ Goto(t, "return")
    /\ UNCHANGED <<work, ready, maps, lookup, answer, loaded, receiver, filter, marks, failed>>

\* The fields are read once more.
Return(t) ==
    /\ stage[t] \in {"return", "given"}
    /\ Goto(t, "idle")
    /\ UNCHANGED <<work, ready, maps, lookup, answer, config, filter, marks, failed>>

-----------------------------------------------------------------------------
(* SensitivewordFilter.getInstance.                                        *)

\* A getInstance that does not look whether there is one.
MutGetInstance(t) ==
    /\ "getInstance" \in work[t]
    /\ stage[t] = "idle"
    /\ Goto(t, "build")
    /\ together' = (together \/ \E u \in Threads : stage[u] = "build")
    /\ UNCHANGED <<work, ready, maps, lookup, answer, config, inst, built, marks, failed>>

GetInstance(t) ==
    /\ "getInstance" \in work[t]
    /\ stage[t] = "idle"
    /\ Goto(t, IF inst = None THEN "build" ELSE "given")
    /\ together' = (together \/ (inst = None /\ \E u \in Threads : stage[u] = "build"))
    /\ UNCHANGED <<work, ready, maps, lookup, answer, config, inst, built, marks, failed>>

\* The constructor reads the words, and the field is assigned.
Build(t) ==
    /\ stage[t] = "build"
    /\ inst' = t
    /\ built' = built \cup {t}
    /\ Goto(t, "given")
    /\ UNCHANGED <<work, ready, maps, lookup, answer, config, together, marks, failed>>

\* Without its file the constructor throws.
BuildThrows(t) ==
    /\ stage[t] = "build"
    /\ Goto(t, "idle")
    /\ UNCHANGED <<work, ready, maps, lookup, answer, config, filter, marks, failed>>

-----------------------------------------------------------------------------
Begin(t) == LookUp(t) \/ GetDbConfig(t) \/ GetInstance(t)

MapStep(t) ==
    \/ ContainsKey(t) \/ AskBusiness(t) \/ AskContext(t) \/ NoContext(t)
    \/ PutBegins(t) \/ PutEnds(t) \/ Get(t) \/ GetBusiness(t) \/ Loops(t)

FieldStep(t) ==
    \/ NewProperties(t) \/ LoadBegins(t) \/ LoadEnds(t) \/ LoadThrows(t) \/ Catch(t)
    \/ Build(t) \/ BuildThrows(t) \/ Return(t)

Next == ContextReady \/ \E t \in Threads : Begin(t) \/ MapStep(t) \/ FieldStep(t)

Spec == Init /\ [][Next]_vars

\* A thread that is in a call goes on; nobody has to call.
FairSpec == Spec /\ \A t \in Threads : WF_vars(MapStep(t) \/ FieldStep(t))

-----------------------------------------------------------------------------
(* Properties.                                                             *)

\* Type correctness; a thread works in the map it was asked for or, within a callback,
\* in that of the Business objects.
TypeOK ==
    /\ work \in Work
    /\ ready \in BOOLEAN /\ failed \in BOOLEAN /\ together \in BOOLEAN
    /\ cached \in [Maps -> SUBSET Keys]
    /\ ring \subseteq crossed /\ crossed \subseteq Maps
    /\ dbConfig \in Properties \cup {None}
    /\ loaded \subseteq Properties
    /\ inst \in Threads \cup {None}
    /\ stage \in [Threads -> {"idle", "containsKey", "run", "put", "putting", "crossing",
                              "get", "looping", "new", "load", "loading", "catch", "build",
                              "return", "given"}]
    /\ key \in [Threads -> Keys \cup {None}]
    /\ target \in [Threads -> Maps]
    /\ at \in [Threads -> Maps]
    /\ receiver \in [Threads -> Properties \cup {None}]
    /\ answer \in [Threads -> Keys \cup {None}]
    /\ excused \in [Threads -> BOOLEAN]
    /\ filled \subseteq Maps \X Keys
    /\ built \subseteq Threads
    /\ \A t \in Threads :
          /\ at[t] \in {target[t], Business}
          /\ InLookup(t) => key[t] \in Keys
          /\ stage[t] = "loading" => receiver[t] \in Properties

\* A lookup of a class that is known returns its value, not null and no exception,
\* if no other thread puts into its maps meanwhile and the context is there
\* (CollectionUtil.java:35-40), whatever earlier races have lost.
LoneLookupAnswers ==
    [][\A t \in Threads :
          InLookup(t) /\ stage'[t] = "idle" /\ key[t] \in Known =>
              excused[t] \/ ~ready \/ answer'[t] = key[t]]_vars

\* What has been put into a map is not computed again, unless another thread puts during
\* the lookup, or two have put at a time (DdlUtil.java:30-33).
ComputedOnce ==
    \A t \in Threads :
        stage[t] = "run" /\ <<at[t], key[t]>> \in filled => excused[t] \/ at[t] \in crossed

\* The field is about to be loaded by t.
IsLoading(t) == stage[t] = "load" \/ (stage[t] = "loading" /\ receiver[t] = dbConfig)

\* Properties that are not loaded are returned only while another thread is in its first
\* getDbConfig, or after loading has failed; null never (GuzzUtil.java:22-33).
EmptyOnlyWhileLoading ==
    /\ dbConfig \in loaded \cup {None} \/ failed \/ \E t \in Threads : IsLoading(t)
    /\ \A t \in Threads : stage[t] = "return" => dbConfig # None

\* A second filter is built only where two threads were in their first getInstance at
\* a time: otherwise every caller gets the one that was built, and never null
\* (SensitivewordFilter.java:39-44).
SingletonWithoutRace ==
    /\ ~together => built \subseteq {inst}
    /\ \A t \in Threads : stage[t] = "given" => inst # None

\* Every call comes to an end, unless two threads have put into one map at a time.
CallsReturn ==
    \A t \in Threads : stage[t] # "idle" ~> stage[t] = "idle" \/ crossed # {}

-----------------------------------------------------------------------------
(* Why they hold.  A lookup that nobody disturbs is the only one that puts *)
(* into its maps: it finds what is there and what it has put.  What the    *)
(* field holds is loaded by the thread that assigned it last.  Of two      *)
(* first calls one at a time, the second finds the filter of the first.    *)

Undisturbed(t) ==
    InLookup(t) /\ ~excused[t] =>
        /\ stage[t] # "crossing"
        /\ \A u \in Threads \ {t} :
              stage[u] \in {"putting", "crossing"} => at[u] \notin {target[t], Business}
        /\ stage[t] = "get" => key[t] \in cached[at[t]]
        /\ stage[t] = "run" => key[t] \notin cached[at[t]]

LookupInv == \A t \in Threads : Undisturbed(t)

PutInv ==
    /\ \A t \in Threads : stage[t] = "crossing" => at[t] \in crossed
    /\ \A m \in Maps, k \in Keys : <<m, k>> \in filled => k \in cached[m] \/ m \in crossed

ConfigInv ==
    \A t \in Threads :
        /\ stage[t] \in {"load", "loading", "catch"} => dbConfig # None
        /\ stage[t] = "catch" => failed

FilterInv ==
    ~together => \A t, u \in Threads :
        stage[t] = "build" => inst = None /\ (stage[u] = "build" => t = u)

IInv ==
    /\ TypeOK /\ LookupInv /\ PutInv /\ ConfigInv /\ FilterInv
    /\ EmptyOnlyWhileLoading /\ SingletonWithoutRace
=============================================================================
