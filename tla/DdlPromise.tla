----------------------------- MODULE DdlPromise -----------------------------
(***************************************************************************)
(* What the Ddl listener promises to whoever waits for a DdlFinishEvent,   *)
(* with no thread, counter or loop in it.  A round is one handled          *)
(* ContextRefreshedEvent.  In a round every class of the scanned list is   *)
(* checked at most once, and the finish event is published at most once,   *)
(* when every class of the list has been checked without an exception.     *)
(***************************************************************************)
EXTENDS Integers

CONSTANTS Events,     \* the ContextRefreshedEvents delivered to the listener
          MaxClasses  \* bound on the number of entity classes scanned

VARIABLES classCount, \* how many entity classes the scan finds
          status,     \* status[ev][p]: the check of the class at position p
          finished    \* finished[ev]: DdlFinishEvents published for ev

promiseVars == <<classCount, status, finished>>

Positions == 0 .. MaxClasses - 1
Status == {"unchecked", "checking", "checked", "threw"}

PromiseInit ==
    /\ classCount \in 0 .. MaxClasses
    /\ status = [ev \in Events |-> [p \in Positions |-> "unchecked"]]
    /\ finished = [ev \in Events |-> 0]

\* One class moves on in its check; nobody else's check moves with it.
Moves(ev, p, from, to) ==
    /\ p < classCount
    /\ status[ev][p] = from
    /\ status' = [status EXCEPT ![ev][p] = to]
    /\ UNCHANGED <<classCount, finished>>

Begin(ev, p) == Moves(ev, p, "unchecked", "checking")
End(ev, p) == Moves(ev, p, "checking", "checked") \/ Moves(ev, p, "checking", "threw")

Announce(ev) ==
    /\ finished[ev] = 0
    /\ \A p \in 0 .. classCount - 1 : status[ev][p] = "checked"
    /\ finished' = [finished EXCEPT ![ev] = 1]
    /\ UNCHANGED <<classCount, status>>

PromiseNext ==
    \E ev \in Events :
        \/ \E p \in Positions : Begin(ev, p) \/ End(ev, p)
        \/ Announce(ev)

PromiseSpec == PromiseInit /\ [][PromiseNext]_promiseVars
=============================================================================
