------------------------------ MODULE AliceUi -------------------------------
(***************************************************************************)
(* The components of ui.jsx on a page: a caller renders them into          *)
(* containers with properties of its own, again and again, and a user      *)
(* types and resets the form.  React (0.13.3, beside ui.jsx) mounts a      *)
(* component once and from then on writes into its node only what differs. *)
(*                                                                         *)
(* Properties are functions from some of the names "type", "className",    *)
(* "class" and "value"; one that is passed as undefined is Undef, which    *)
(* is not the same as one that is not passed.  The type and the value of a *)
(* label stand for its tag and its text.                                   *)
(***************************************************************************)
EXTENDS Sequences

CONSTANTS Containers, \* the elements that React.render is called with
          Offers,     \* per container, what may be rendered: <<component, properties>>
          Values,     \* what a user types as a value
          Undef,      \* undefined, and the content of an empty container
          Sanitised(_, _) \* what the browser keeps of a text in a field of a type

VARIABLES
    component, \* per container, what has been rendered into it
    props,     \* and with which properties of the caller
    node,      \* and the DOM node this has come to
    reset      \* the containers reset since they were last rendered (history)

vars == <<component, props, node, reset>>

-----------------------------------------------------------------------------
(* render: the properties of the element that a component returns.         *)

\* React.__spread: of what JSX writes into a tag, the last of a name prevails.
Assign(p, q) == [name \in DOMAIN p \cup DOMAIN q |-> IF name \in DOMAIN q THEN q[name] ELSE p[name]]

Get(p, name) == IF name \in DOMAIN p THEN p[name] ELSE Undef

Button(p) ==
    Assign(Assign([type |-> "button", className |-> "ui-button ui-button-mblue"], p),
           [value |-> Get(p, "value")])

ButtonClass ==
    [ButtonSmall       |-> "ui-button ui-button-sblue",
     ButtonLarge       |-> "ui-button ui-button-lblue",
     ButtonWhite       |-> "ui-button ui-button-mwhite",
     ButtonSmallWhite  |-> "ui-button ui-button-swhite",
     ButtonLargeWhite  |-> "ui-button ui-button-lwhite",
     ButtonOrange      |-> "ui-button ui-button-morange",
     ButtonSmallOrange |-> "ui-button ui-button-sorange",
     ButtonLargeOrange |-> "ui-button ui-button-lorange"]

\* Properties of the caller that come last and win over the class.
MutStyledButton(name, p) == Button(Assign([className |-> ButtonClass[name]], p))

StyledButton(name, p) == Button(Assign(p, [className |-> ButtonClass[name]]))

InputType ==
    [Input |-> "text", InputEmail |-> "email", InputNumber |-> "number",
     InputPassword |-> "password", InputFile |-> "file", InputHidden |-> "hidden",
     InputDate |-> "date", InputUrl |-> "url", InputTel |-> "tel",
     InputSearch |-> "search", InputSubmit |-> "submit", InputReset |-> "reset",
     Checkbox |-> "checkbox", Radio |-> "radio"]

InputClass(name) ==
    CASE name = "InputHidden" -> "fn-hide"
      [] name = "InputSubmit" -> "ui-button ui-button-morange"
      [] name = "InputReset"  -> "ui-button ui-button-mwhite"
      [] name = "Checkbox"    -> "ui-checkbox"
      [] name = "Radio"       -> "ui-radio"
      [] OTHER                -> "ui-input"

Caption == [InputSubmit |-> "OK", InputReset |-> "Cancel"]

TypedInput(name, p) ==
    Assign(IF name \in DOMAIN Caption THEN Assign([value |-> Caption[name]], p) ELSE p,
           [type |-> InputType[name], class |-> InputClass(name)])

\* The dollar sign is text, as it stands before the braces of JSX.
Label(p) ==
    [type |-> "label", className |-> "ui-label",
     value |-> IF Get(p, "value") = Undef THEN "$" ELSE "$" \o p.value]

Components ==
    {"Button", "Label"} \cup DOMAIN ButtonClass \cup DOMAIN InputType

Element(name, p) ==
    CASE name = "Button"             -> Button(p)
      [] name \in DOMAIN ButtonClass -> StyledButton(name, p)
      [] name \in DOMAIN InputType   -> TypedInput(name, p)
      [] name = "Label"              -> Label(p)

-----------------------------------------------------------------------------
(* React and the browser: a node has a type, a class, the attribute value  *)
(* and, if it is a text field that has been written to (dirty), a value of *)
(* its own.  "class" is no standard name of React's and written nowhere.   *)

TextTypes ==
    {"text", "email", "number", "password", "date", "url", "tel", "search",
     "color", "range", "time", "week", "month", "datetime-local"}

OtherTypes ==
    {"button", "submit", "reset", "image", "hidden", "checkbox", "radio", "file", "label"}

Fields == {"type", "class", "attr", "value", "dirty"}

DeclaredType(el) == IF Get(el, "type") = Undef THEN "text" ELSE el.type
DeclaredClass(el) == Get(el, "className")
DeclaredValue(el) == Get(el, "value")

\* Callers render components of ui.jsx as types of HTML, and give a file input no value:
\* the browser refuses it, and React stops where it writes it.  (A Button takes any type.)
ASSUME AliceUiAssumption ==
    /\ Undef \notin Components \cup Values
    /\ \A name \in DOMAIN InputType : InputType[name] # Undef
    /\ \A c \in Containers : \A offer \in Offers[c] :
          LET el == Element(offer[1], offer[2]) IN
          /\ offer[1] \in Components
          /\ DeclaredType(el) \in TextTypes \cup OtherTypes
          /\ DeclaredType(el) = "file" => DeclaredValue(el) = Undef

\* What shows of a value that is written: a date that is none, or a number with letters,
\* is emptied, and a file input shows no value but the user's file.
Kept(type, value) ==
    IF type \in TextTypes THEN Sanitised(type, value) ELSE IF type = "file" THEN "" ELSE value

Mount(el) ==
    [type |-> DeclaredType(el), class |-> DeclaredClass(el),
     attr |-> DeclaredValue(el), value |-> Undef, dirty |-> FALSE]

Write(n, value) == [n EXCEPT !.value = value, !.dirty = TRUE]

\* node.value.
Shown(n) ==
    IF n.type \in TextTypes /\ n.dirty THEN n.value
    ELSE Kept(n.type, IF n.attr # Undef THEN n.attr ELSE "")

\* A text field keeps its value in the attribute when it becomes something else, unless
\* that is a file input, and has it sanitised again when it becomes another text field.
SetType(n, type) ==
    [n EXCEPT
        !.type = type,
        !.attr = IF /\ n.type \in TextTypes /\ type \notin TextTypes \cup {"file"}
                    /\ Shown(n) # ""
                 THEN Shown(n) ELSE @,
        !.value = IF n.dirty /\ type \in TextTypes THEN Kept(type, @) ELSE Undef,
        !.dirty = @ /\ type \in TextTypes]

\* A value that is written beside the attribute whatever the type.
MutSetValue(n, value) == IF Shown(n) = value THEN n ELSE Write(n, value)

SetValue(n, value) ==
    IF Shown(n) = value THEN n
    ELSE IF n.type \in TextTypes THEN Write(n, Kept(n.type, value))
    ELSE [n EXCEPT !.attr = value]

\* Properties that are given no longer stay as they were.
MutPatch(n, last, next) ==
    LET typed == IF DeclaredType(last) = DeclaredType(next) THEN n
                 ELSE SetType(n, DeclaredType(next))
    IN IF DeclaredClass(next) = Undef THEN typed
       ELSE [typed EXCEPT !.class = DeclaredClass(next)]

\* _updateDOMProperties: type and class, where the element differs from the last one.
Patch(n, last, next) ==
    LET typed == IF DeclaredType(last) = DeclaredType(next) THEN n
                 ELSE SetType(n, DeclaredType(next))
    IN IF DeclaredClass(last) = DeclaredClass(next) THEN typed
       ELSE [typed EXCEPT !.class = DeclaredClass(next)]

\* A value that is written only where the element differs from the last one.
MutUpdate(n, last, next) ==
    LET patched == Patch(n, last, next) IN
    IF DeclaredValue(last) = DeclaredValue(next) THEN patched
    ELSE SetValue(patched, IF DeclaredValue(next) = Undef THEN "" ELSE DeclaredValue(next))

\* componentDidUpdate writes a value that is given even if it is the last one again;
\* one that is given no longer is emptied.
Update(n, last, next) ==
    LET patched == Patch(n, last, next) IN
    IF DeclaredValue(next) # Undef THEN SetValue(patched, DeclaredValue(next))
    ELSE IF DeclaredValue(last) # Undef THEN SetValue(patched, "") ELSE patched

-----------------------------------------------------------------------------
Init ==
    /\ component = [c \in Containers |-> Undef]
    /\ props = [c \in Containers |-> <<>>]
    /\ node = [c \in Containers |-> Undef]
    /\ reset = {}

\* React.render: an update if the container holds the component already.
Render(c, name, p) ==
    /\ component' = [component EXCEPT ![c] = name]
    /\ props' = [props EXCEPT ![c] = p]
    /\ node' = [node EXCEPT ![c] =
          IF component[c] = name
          THEN Update(@, Element(name, props[c]), Element(name, p))
          ELSE Mount(Element(name, p))]
    /\ reset' = reset \ {c}

\* The user edits a text field.  The caller's onChange may render it again with what it
\* finds in the node as its value; in any case _handleChange has it updated.
EditText(c, text) ==
    /\ component[c] # Undef
    /\ node[c].type \in TextTypes
    /\ LET typed == Write(node[c], Kept(node[c].type, text)) IN
       \E p \in {props[c], Assign(props[c], [value |-> Shown(typed)])} :
          /\ props' = [props EXCEPT ![c] = p]
          /\ node' = [node EXCEPT ![c] =
                Update(typed, Element(component[c], props[c]), Element(component[c], p))]
    /\ reset' = reset \ {c}
    /\ UNCHANGED component

IsTextField(c) == component[c] # Undef /\ node[c].type \in TextTypes

\* A button of type reset: the browser sets the text fields back to their attribute,
\* and no component hears of it.
PressReset(c) ==
    /\ component[c] # Undef
    /\ node[c].type = "reset"
    /\ node' = [d \in Containers |->
                   IF IsTextField(d) THEN [node[d] EXCEPT !.value = Undef, !.dirty = FALSE]
                   ELSE node[d]]
    /\ reset' = reset \cup {d \in Containers : IsTextField(d)}
    /\ UNCHANGED <<component, props>>

Next ==
    \E c \in Containers :
        \/ \E offer \in Offers[c] : Render(c, offer[1], offer[2])
        \/ \E text \in Values : EditText(c, text)
        \/ PressReset(c)

Spec == Init /\ [][Next]_vars

-----------------------------------------------------------------------------
(* Properties.                                                             *)

Rendered(c) == Element(component[c], props[c])

\* A node of the browser.
Typed(n) ==
    DOMAIN n = Fields /\ n.dirty \in BOOLEAN /\ (n.dirty => n.type \in TextTypes)

\* Type correctness: the containers that have been rendered into have a node, the others
\* have none, and only a text field has a value beside its attribute.
TypeOK ==
    /\ component \in [Containers -> Components \cup {Undef}]
    /\ DOMAIN props = Containers
    /\ DOMAIN node = Containers
    /\ \A c \in Containers : IF component[c] = Undef THEN node[c] = Undef ELSE Typed(node[c])
    /\ reset \subseteq Containers

\* However often a component has been rendered and with whichever properties before,
\* its node has the type and the class that a fresh rendering would give it, though
\* only what differs is ever written.
DomIsFresh ==
    \A c \in Containers : component[c] # Undef =>
        /\ node[c].type = DeclaredType(Rendered(c))
        /\ node[c].class = DeclaredClass(Rendered(c))

\* A component is what its name says, whatever properties the caller passes: an input
\* has the type (ui.jsx:58-136: a password stays masked), a button the style
\* (ui.jsx:10-52).
NameIsKept ==
    \A c \in Containers :
        /\ component[c] \in DOMAIN InputType => node[c].type = InputType[component[c]]
        /\ component[c] \in DOMAIN ButtonClass => node[c].class = ButtonClass[component[c]]

\* What n may show when it is given a value.
Shows(n, value) == Shown(n) \in {value, Kept(n.type, value)}

\* A component that was given a value shows it, or what its type keeps of it, whatever the
\* user has typed in the meantime and whatever it was before, until the form is reset.
ValueIsKept ==
    \A c \in Containers :
        (component[c] # Undef /\ c \notin reset /\ DeclaredValue(Rendered(c)) # Undef) =>
            Shows(node[c], DeclaredValue(Rendered(c)))

\* What ui.jsx:58-136 write into the inputs: class="ui-input" and the like.
InputsAreStyled ==
    \A c \in Containers :
        (component[c] \in DOMAIN InputType /\ "className" \notin DOMAIN props[c]) =>
            node[c].class = InputClass(component[c])

View(type, class, value) == [type |-> type, class |-> class, value |-> value]

Declared(c) ==
    LET el == Rendered(c) IN
    IF component[c] = Undef THEN Undef
    ELSE View(DeclaredType(el), DeclaredClass(el), DeclaredValue(el))

Seen(c) ==
    IF component[c] = Undef THEN Undef
    ELSE View(node[c].type, node[c].class, Shown(node[c]))

\* The page implements the promise that a container shows what was last rendered.
Promise == INSTANCE AlicePromise WITH
    rendered <- {c \in Containers : component[c] # Undef},
    declared <- [c \in Containers |-> Declared(c)],
    shown <- [c \in Containers |-> Seen(c)]

ImplementsPromise == Promise!PromiseSpec
=============================================================================
