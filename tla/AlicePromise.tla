---------------------------- MODULE AlicePromise ----------------------------
(***************************************************************************)
(* What a page built from the components of ui.jsx promises: a container   *)
(* shows what its last rendering declares, as far as its type can show it. *)
(* Only the reset of the form, which React does not hear of, may bring a   *)
(* text field apart from it.                                               *)
(* How a component declares, and how a node is brought up to date, does    *)
(* not occur here.                                                         *)
(***************************************************************************)
CONSTANTS Containers, \* the elements of the page that are rendered into
          TextTypes,  \* the types of input whose value the user edits
          Undef,      \* no value
          Kept(_, _)  \* what an input of a type shows of a value

VARIABLES rendered, \* the containers that have been rendered into
          declared, \* per container, the type, class and value asked for
          shown     \* and those that the user sees

promised == <<rendered, declared, shown>>

\* A value that is not declared is the user's affair.
Agrees(view, asked) ==
    /\ view.type = asked.type
    /\ view.class = asked.class
    /\ asked.value = Undef \/ view.value \in {asked.value, Kept(asked.type, asked.value)}

PromiseInit ==
    /\ rendered = {}
    /\ declared = [c \in Containers |-> Undef]
    /\ shown = [c \in Containers |-> Undef]

\* A rendering, or an event after which React renders again.
Settle(c) ==
    /\ rendered' = rendered \cup {c}
    /\ declared' = [declared EXCEPT ![c] = declared'[c]]
    /\ shown' = [shown EXCEPT ![c] = shown'[c]]
    /\ Agrees(shown'[c], declared'[c])

\* The fields of the form are set back: values change, and nothing but values.
Reset ==
    /\ UNCHANGED <<rendered, declared>>
    /\ shown' = [c \in Containers |->
          IF c \in rendered /\ shown[c].type \in TextTypes
          THEN [shown[c] EXCEPT !.value = shown'[c].value]
          ELSE shown[c]]

PromiseSpec ==
    PromiseInit /\ [][(\E c \in Containers : Settle(c)) \/ Reset]_promised
=============================================================================
