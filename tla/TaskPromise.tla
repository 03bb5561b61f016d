---------------------------- MODULE TaskPromise -----------------------------
(***************************************************************************)
(* What a task queue promises of the tasks that the broker has stored:     *)
(* where workers acknowledge, a task is given up only when it has been     *)
(* worked on (at least once); where they do not, it may be dropped.        *)
(* Connections, deliveries and acknowledgements do not occur here.         *)
(***************************************************************************)
VARIABLES acknowledged, \* whether workers acknowledge what they have done
          kept,         \* the stored tasks that are still to be worked on
          worked        \* the tasks that have been worked on

promised == <<acknowledged, kept, worked>>

PromiseInit ==
    /\ acknowledged \in BOOLEAN
    /\ kept = {}
    /\ worked = {}

\* The broker writes what it holds to its disk.
Store ==
    /\ kept \subseteq kept'
    /\ UNCHANGED <<acknowledged, worked>>

Work ==
    /\ \E t \in worked' :
          /\ worked' = worked \cup {t}
          /\ kept' = kept \ {t}
    /\ UNCHANGED acknowledged

Drop ==
    /\ ~acknowledged
    /\ kept' \subseteq kept
    /\ UNCHANGED <<acknowledged, worked>>

PromiseSpec == PromiseInit /\ [][Store \/ Drop \/ Work]_promised
=============================================================================
