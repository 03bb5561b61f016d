--------------------------- MODULE AliceUiProofs ----------------------------
(* Incremental updates come to what a fresh rendering would, for all        *)
(* containers, offers and values.                                           *)
EXTENDS AliceUi, TLAPS

\* The node of el, whatever its value.
Fresh(n, el) ==
    /\ DOMAIN n = Fields
    /\ n.type = DeclaredType(el)
    /\ n.class = DeclaredClass(el)

FreshInv == \A c \in Containers : component[c] # Undef => Fresh(node[c], Rendered(c))

Inv ==
    /\ DOMAIN component = Containers /\ DOMAIN props = Containers /\ DOMAIN node = Containers
    /\ FreshInv

\* A node that is mounted is what its element asks for.
LEMMA MountFresh == ASSUME NEW el PROVE Fresh(Mount(el), el)
  BY DEF Mount, Fresh, Fields

\* Setting a value leaves the type and the class of a node alone.
LEMMA SetValueFresh ==
    ASSUME NEW n, NEW el, NEW value, Fresh(n, el)
    PROVE  Fresh(SetValue(n, value), el)
<1>1. CASE Shown(n) = value
  BY <1>1 DEF SetValue
<1>2. CASE Shown(n) # value /\ n.type \in TextTypes
  BY <1>2 DEF SetValue, Write, Fresh, Fields
<1>3. CASE Shown(n) # value /\ n.type \notin TextTypes
  BY <1>3 DEF SetValue, Fresh, Fields
<1> QED
  BY <1>1, <1>2, <1>3

\* Only what differs is written, and that is enough.
LEMMA PatchFresh ==
    ASSUME NEW n, NEW last, NEW next, Fresh(n, last)
    PROVE  Fresh(Patch(n, last, next), next)
<1> DEFINE typed == IF DeclaredType(last) = DeclaredType(next) THEN n
                    ELSE SetType(n, DeclaredType(next))
<1>1. DOMAIN typed = Fields /\ typed.type = DeclaredType(next)
      /\ typed.class = DeclaredClass(last)
  <2>1. CASE DeclaredType(last) = DeclaredType(next)
    BY <2>1 DEF Fresh
  <2>2. CASE DeclaredType(last) # DeclaredType(next)
    BY <2>2 DEF Fresh, SetType, Fields
  <2> QED
    BY <2>1, <2>2
<1>2. Patch(n, last, next) =
          IF DeclaredClass(last) = DeclaredClass(next) THEN typed
          ELSE [typed EXCEPT !.class = DeclaredClass(next)]
  BY DEF Patch
<1> HIDE DEF typed
<1> QED
  BY <1>1, <1>2 DEF Fresh, Fields

\* A node that is patched and updated is what the new element asks for.
LEMMA UpdateFresh ==
    ASSUME NEW n, NEW last, NEW next, Fresh(n, last)
    PROVE  Fresh(Update(n, last, next), next)
  BY PatchFresh, SetValueFresh DEF Update

-----------------------------------------------------------------------------
\* An empty page has nodes of no element.
LEMMA InitInv == Init => Inv
  BY DEF Init, Inv, FreshInv

\* A rendering keeps the invariant, whether it mounts or patches (ui.jsx:9-145).
LEMMA RenderStep ==
    ASSUME NEW c \in Containers, NEW offer \in Offers[c], Inv,
           Render(c, offer[1], offer[2])
    PROVE  Inv'
<1> DEFINE name == offer[1]
           p == offer[2]
<1>0. name # Undef
  BY AliceUiAssumption
<1>1. Fresh(node'[c], Element(name, p))
  <2>1. CASE component[c] = name
    <3>1. node'[c] = Update(node[c], Element(name, props[c]), Element(name, p))
      BY <2>1 DEF Render, Inv
    <3>2. Fresh(node[c], Element(name, props[c]))
      BY <2>1, <1>0 DEF Inv, FreshInv, Rendered
    <3> HIDE DEF name, p
    <3> QED
      BY <3>1, <3>2, UpdateFresh
  <2>2. CASE component[c] # name
    <3>1. node'[c] = Mount(Element(name, p))
      BY <2>2 DEF Render, Inv
    <3> QED
      BY <3>1, MountFresh
  <2> QED
    BY <2>1, <2>2
<1>2. component'[c] = name /\ props'[c] = p
  BY DEF Render, Inv
<1>3. \A d \in Containers \ {c} :
          component'[d] = component[d] /\ props'[d] = props[d] /\ node'[d] = node[d]
  BY DEF Render, Inv
<1>4. \A d \in Containers : component'[d] # Undef => Fresh(node'[d], Rendered(d)')
  BY <1>1, <1>2, <1>3 DEF Inv, FreshInv, Rendered
<1> QED
  BY <1>4 DEF Inv, FreshInv, Render

\* So does what the user types.
LEMMA EditStep ==
    ASSUME NEW c \in Containers, NEW text \in Values, Inv, EditText(c, text)
    PROVE  Inv'
<1> DEFINE typed == Write(node[c], Kept(node[c].type, text))
<1>1. PICK p : /\ props' = [props EXCEPT ![c] = p]
               /\ node' = [node EXCEPT ![c] =
                     Update(typed, Element(component[c], props[c]), Element(component[c], p))]
  BY DEF EditText
<1>2. Fresh(typed, Rendered(c))
  BY DEF EditText, Inv, FreshInv, Fresh, Fields, Write
<1> HIDE DEF typed
<1>3. Fresh(node'[c], Element(component[c], p))
  BY <1>1, <1>2, UpdateFresh DEF Inv, Rendered
<1>4. UNCHANGED component
  BY DEF EditText
<1>5. \A d \in Containers : component'[d] # Undef => Fresh(node'[d], Rendered(d)')
  BY <1>1, <1>3, <1>4 DEF Inv, FreshInv, Rendered
<1> QED
  BY <1>1, <1>4, <1>5 DEF Inv, FreshInv

\* So does a reset of the form, which reaches only values.
LEMMA ResetStep ==
    ASSUME NEW c \in Containers, Inv, PressReset(c)
    PROVE  Inv'
<1>1. \A d \in Containers : node'[d] \in {node[d], [node[d] EXCEPT !.value = Undef, !.dirty = FALSE]}
  BY DEF PressReset
<1>2. \A d \in Containers : component[d] # Undef => Fresh(node'[d], Rendered(d))
  BY <1>1 DEF Inv, FreshInv, Fresh, Fields
<1>3. UNCHANGED <<component, props>> /\ DOMAIN node' = Containers
  BY DEF PressReset
<1> QED
  BY <1>2, <1>3 DEF Inv, FreshInv, Rendered

\* The invariant is inductive.
LEMMA InvStep == Inv /\ [Next]_vars => Inv'
<1> SUFFICES ASSUME Inv, [Next]_vars PROVE Inv'
  OBVIOUS
<1>1. CASE Next
  BY <1>1, RenderStep, EditStep, ResetStep DEF Next
<1>2. CASE UNCHANGED vars
  BY <1>2 DEF vars, Inv, FreshInv, Rendered
<1> QED
  BY <1>1, <1>2

\* The node of a component is that of a fresh rendering, in type and class.
THEOREM DomCorrect == Spec => []DomIsFresh
<1>1. Inv => DomIsFresh
  BY DEF Inv, FreshInv, Fresh, DomIsFresh
<1> QED
  BY InitInv, InvStep, <1>1, PTL DEF Spec

-----------------------------------------------------------------------------
\* The element of an input has the type of its component, whatever was given.
LEMMA InputElement ==
    ASSUME NEW name \in DOMAIN InputType, NEW p
    PROVE  DeclaredType(Element(name, p)) = InputType[name]
<1>1. Element(name, p) = TypedInput(name, p)
  BY DEF Element, InputType, ButtonClass
<1>2. /\ "type" \in DOMAIN TypedInput(name, p)
      /\ TypedInput(name, p)["type"] = InputType[name]
  BY DEF TypedInput, Assign
<1>3. InputType[name] # Undef
  BY AliceUiAssumption
<1> QED
  BY <1>1, <1>2, <1>3 DEF DeclaredType, Get

\* The element of a button has the classes of its component, whatever was given.
LEMMA ButtonElement ==
    ASSUME NEW name \in DOMAIN ButtonClass, NEW p
    PROVE  DeclaredClass(Element(name, p)) = ButtonClass[name]
<1>1. Element(name, p) = StyledButton(name, p)
  BY DEF Element, InputType, ButtonClass
<1> DEFINE styled == Assign(p, [className |-> ButtonClass[name]])
<1>2. "className" \in DOMAIN styled /\ styled["className"] = ButtonClass[name]
  BY DEF Assign
<1>3. /\ "className" \in DOMAIN Button(styled)
      /\ Button(styled)["className"] = styled["className"]
  <2> HIDE DEF styled
  <2> QED
    BY <1>2 DEF Button, Assign
<1>4. StyledButton(name, p) = Button(styled)
  BY DEF StyledButton
<1> QED
  BY <1>1, <1>2, <1>3, <1>4 DEF DeclaredClass, Get

\* A component is what its name says, whatever the caller passes and in whatever order.
THEOREM NameCorrect == Spec => []NameIsKept
<1>1. DomIsFresh => NameIsKept
  <2> SUFFICES ASSUME DomIsFresh, NEW c \in Containers
               PROVE  /\ component[c] \in DOMAIN InputType =>
                            node[c].type = InputType[component[c]]
                      /\ component[c] \in DOMAIN ButtonClass =>
                            node[c].class = ButtonClass[component[c]]
    BY DEF NameIsKept
  <2>1. component[c] \in Components => component[c] # Undef
    BY AliceUiAssumption
  <2>2. ASSUME component[c] \in DOMAIN InputType
        PROVE  node[c].type = InputType[component[c]]
    BY <2>1, <2>2, InputElement DEF DomIsFresh, Rendered, Components
  <2>3. ASSUME component[c] \in DOMAIN ButtonClass
        PROVE  node[c].class = ButtonClass[component[c]]
    BY <2>1, <2>3, ButtonElement DEF DomIsFresh, Rendered, Components
  <2> QED
    BY <2>2, <2>3
<1> QED
  BY DomCorrect, <1>1, PTL

-----------------------------------------------------------------------------
\* A value that is set is shown, as far as the type shows it.
LEMMA SetValueShows ==
    ASSUME NEW n, DOMAIN n = Fields, NEW value, value # Undef
    PROVE  Shows(SetValue(n, value), value)
<1>1. CASE Shown(n) = value
  BY <1>1 DEF SetValue, Shows
<1>2. CASE Shown(n) # value /\ n.type \in TextTypes
  BY <1>2 DEF SetValue, Write, Shown, Shows, Fields
<1>3. CASE Shown(n) # value /\ n.type \notin TextTypes
  BY <1>3 DEF SetValue, Shown, Shows, Fields
<1> QED
  BY <1>1, <1>2, <1>3

\* An update shows the value that is given, whatever the node held.
LEMMA UpdateShows ==
    ASSUME NEW n, NEW last, NEW next, Fresh(n, last), DeclaredValue(next) # Undef
    PROVE  Shows(Update(n, last, next), DeclaredValue(next))
<1>1. Fresh(Patch(n, last, next), next)
  BY PatchFresh
<1>2. Update(n, last, next) = SetValue(Patch(n, last, next), DeclaredValue(next))
  BY DEF Update
<1>3. /\ DOMAIN Patch(n, last, next) = Fields
      /\ Patch(n, last, next).type = DeclaredType(next)
  BY <1>1 DEF Fresh
<1> QED
  BY <1>2, <1>3, SetValueShows

ValueInv == Inv /\ ValueIsKept

\* A step keeps a given value shown, or is a reset of the form.
LEMMA ValueStep == ValueInv /\ Inv' /\ [Next]_vars => ValueIsKept'
<1> SUFFICES ASSUME ValueInv, [Next]_vars PROVE ValueIsKept'
  OBVIOUS
<1> DEFINE Keeps(d) ==
        (component'[d] # Undef /\ d \notin reset' /\ DeclaredValue(Rendered(d)') # Undef)
            => Shows(node'[d], DeclaredValue(Rendered(d)'))
<1>1. ASSUME NEW d \in Containers,
             component'[d] = component[d], props'[d] = props[d], node'[d] = node[d],
             d \in reset => d \in reset'
      PROVE  Keeps(d)
  BY <1>1 DEF ValueInv, ValueIsKept, Rendered
<1>2. ASSUME NEW c \in Containers, NEW offer \in Offers[c],
             Render(c, offer[1], offer[2])
      PROVE  ValueIsKept'
  <2> DEFINE name == offer[1]
             p == offer[2]
  <2>0. name # Undef
    BY AliceUiAssumption
  <2>1. component'[c] = name /\ props'[c] = p
    BY <1>2 DEF Render, ValueInv, Inv
  <2>2. DeclaredValue(Element(name, p)) # Undef =>
            Shows(node'[c], DeclaredValue(Element(name, p)))
    <3>1. CASE component[c] = name
      <4>1. node'[c] = Update(node[c], Element(name, props[c]), Element(name, p))
        BY <1>2, <3>1 DEF Render, ValueInv, Inv
      <4>2. Fresh(node[c], Element(name, props[c]))
        BY <3>1, <2>0 DEF ValueInv, Inv, FreshInv, Rendered
      <4> HIDE DEF name, p
      <4> QED
        BY <4>1, <4>2, UpdateShows
    <3>2. CASE component[c] # name
      <4>1. node'[c] = Mount(Element(name, p))
        BY <1>2, <3>2 DEF Render, ValueInv, Inv
      <4> HIDE DEF name, p
      <4> QED
        BY <4>1 DEF Mount, Shown, Shows
    <3> QED
      BY <3>1, <3>2
  <2>3. Keeps(c)
    BY <2>1, <2>2 DEF Rendered
  <2>4. ASSUME NEW d \in Containers, d # c PROVE Keeps(d)
    BY <1>1, <1>2, <2>4 DEF Render, ValueInv, Inv
  <2> QED
    BY <2>3, <2>4 DEF ValueIsKept
<1>3. ASSUME NEW c \in Containers, NEW text \in Values, EditText(c, text)
      PROVE  ValueIsKept'
  <2> DEFINE typed == Write(node[c], Kept(node[c].type, text))
  <2>1. PICK p : /\ props' = [props EXCEPT ![c] = p]
                 /\ node' = [node EXCEPT ![c] =
                       Update(typed, Element(component[c], props[c]), Element(component[c], p))]
    BY <1>3 DEF EditText
  <2>2. Fresh(typed, Rendered(c))
    BY <1>3 DEF EditText, ValueInv, Inv, FreshInv, Fresh, Fields, Write
  <2> HIDE DEF typed
  <2>3. component' = component /\ reset' = reset \ {c}
    BY <1>3 DEF EditText
  <2>4. /\ props'[c] = p
        /\ node'[c] = Update(typed, Rendered(c), Element(component[c], p))
    BY <2>1 DEF ValueInv, Inv, Rendered
  <2>5. Keeps(c)
    BY <2>2, <2>3, <2>4, UpdateShows DEF Rendered
  <2>6. ASSUME NEW d \in Containers, d # c PROVE Keeps(d)
    BY <1>1, <2>1, <2>3, <2>6 DEF ValueInv, Inv
  <2> QED
    BY <2>5, <2>6 DEF ValueIsKept
<1>4. ASSUME NEW c \in Containers, PressReset(c)
      PROVE  ValueIsKept'
  <2>1. ASSUME NEW d \in Containers, IsTextField(d) PROVE Keeps(d)
    BY <1>4, <2>1 DEF PressReset
  <2>2. ASSUME NEW d \in Containers, ~IsTextField(d) PROVE Keeps(d)
    BY <1>1, <1>4, <2>2 DEF PressReset
  <2> QED
    BY <2>1, <2>2 DEF ValueIsKept
<1>5. CASE UNCHANGED vars
  BY <1>1, <1>5 DEF vars, ValueIsKept
<1> QED
  BY <1>2, <1>3, <1>4, <1>5 DEF Next

\* A given value, or what the type of the field keeps of it, is shown whatever the user types,
\* until the form is reset: for any components, properties and browser that sanitises.
THEOREM ValueCorrect == Spec => []ValueIsKept
<1>1. Init => ValueIsKept
  BY DEF Init, ValueIsKept
<1> QED
  BY InitInv, InvStep, <1>1, ValueStep, PTL DEF Spec, ValueInv

-----------------------------------------------------------------------------
\* Writing a value keeps a node one: only a text field gets a value of its own.
LEMMA SetValueTyped ==
    ASSUME NEW n, Typed(n), NEW value
    PROVE  Typed(SetValue(n, value))
<1>1. CASE Shown(n) = value
  BY <1>1 DEF SetValue
<1>2. CASE Shown(n) # value /\ n.type \in TextTypes
  BY <1>2 DEF SetValue, Write, Typed, Fields
<1>3. CASE Shown(n) # value /\ n.type \notin TextTypes
  BY <1>3 DEF SetValue, Typed, Fields
<1> QED
  BY <1>1, <1>2, <1>3

\* So does patching: what is no text field any more has its value in the attribute.
LEMMA PatchTyped ==
    ASSUME NEW n, Typed(n), NEW last, NEW next
    PROVE  Typed(Patch(n, last, next))
<1> DEFINE typed == IF DeclaredType(last) = DeclaredType(next) THEN n
                    ELSE SetType(n, DeclaredType(next))
<1>1. Typed(typed)
  <2>1. Typed(SetType(n, DeclaredType(next)))
    BY DEF SetType, Typed, Fields
  <2> QED
    BY <2>1
<1>2. Patch(n, last, next) =
          IF DeclaredClass(last) = DeclaredClass(next) THEN typed
          ELSE [typed EXCEPT !.class = DeclaredClass(next)]
  BY DEF Patch
<1> HIDE DEF typed
<1> QED
  BY <1>1, <1>2 DEF Typed, Fields

\* So does an update.
LEMMA UpdateTyped ==
    ASSUME NEW n, Typed(n), NEW last, NEW next
    PROVE  Typed(Update(n, last, next))
BY PatchTyped, SetValueTyped DEF Update

\* Every step keeps the types.
LEMMA TypeStep == TypeOK /\ [Next]_vars => TypeOK'
<1> SUFFICES ASSUME TypeOK, [Next]_vars PROVE TypeOK'
  OBVIOUS
<1> DEFINE Fits(d) == IF component'[d] = Undef THEN node'[d] = Undef ELSE Typed(node'[d])
<1>1. ASSUME NEW c \in Containers, NEW offer \in Offers[c], Render(c, offer[1], offer[2])
      PROVE  TypeOK'
  <2> DEFINE name == offer[1]
             p == offer[2]
  <2>1. name \in Components /\ name # Undef
    BY AliceUiAssumption
  <2>2. Typed(node'[c])
    <3>1. CASE component[c] = name
      <4>1. node'[c] = Update(node[c], Element(name, props[c]), Element(name, p))
        BY <1>1, <3>1 DEF Render, TypeOK
      <4>2. Typed(node[c])
        BY <2>1, <3>1 DEF TypeOK
      <4> HIDE DEF name, p
      <4> QED
        BY <4>1, <4>2, UpdateTyped
    <3>2. CASE component[c] # name
      <4>1. node'[c] = Mount(Element(name, p))
        BY <1>1, <3>2 DEF Render, TypeOK
      <4> HIDE DEF name, p
      <4> QED
        BY <4>1 DEF Mount, Typed, Fields
    <3> QED
      BY <3>1, <3>2
  <2>3. component'[c] = name /\ component' = [component EXCEPT ![c] = name]
    BY <1>1 DEF Render, TypeOK
  <2>4. Fits(c)
    BY <2>1, <2>2, <2>3
  <2>5. ASSUME NEW d \in Containers, d # c PROVE Fits(d)
    BY <1>1, <2>5 DEF Render, TypeOK
  <2>6. \A d \in Containers : Fits(d)
    BY <2>4, <2>5
  <2>7. component' \in [Containers -> Components \cup {Undef}]
    BY <2>1, <2>3 DEF TypeOK
  <2>8. DOMAIN props' = Containers /\ DOMAIN node' = Containers /\ reset' \subseteq Containers
    BY <1>1 DEF Render, TypeOK
  <2> QED
    BY <2>6, <2>7, <2>8 DEF TypeOK
<1>2. ASSUME NEW c \in Containers, NEW text \in Values, EditText(c, text)
      PROVE  TypeOK'
  <2> DEFINE typed == Write(node[c], Kept(node[c].type, text))
  <2>1. PICK p : /\ props' = [props EXCEPT ![c] = p]
                 /\ node' = [node EXCEPT ![c] =
                       Update(typed, Element(component[c], props[c]), Element(component[c], p))]
    BY <1>2 DEF EditText
  <2>2. /\ component' = component /\ reset' = reset \ {c}
        /\ component[c] # Undef /\ node[c].type \in TextTypes
    BY <1>2 DEF EditText
  <2>3. Typed(typed)
    BY <2>2 DEF TypeOK, Typed, Fields, Write
  <2> HIDE DEF typed
  <2>4. Typed(node'[c])
    BY <2>1, <2>3, UpdateTyped DEF TypeOK
  <2>5. ASSUME NEW d \in Containers, d # c PROVE Fits(d)
    BY <2>1, <2>2, <2>5 DEF TypeOK
  <2>6. \A d \in Containers : Fits(d)
    BY <2>2, <2>4, <2>5
  <2> QED
    BY <2>1, <2>2, <2>6 DEF TypeOK
<1>3. ASSUME NEW c \in Containers, PressReset(c)
      PROVE  TypeOK'
  <2>1. ASSUME NEW d \in Containers, IsTextField(d) PROVE Fits(d)
    <3>1. node'[d] = [node[d] EXCEPT !.value = Undef, !.dirty = FALSE] /\ component' = component
      BY <1>3, <2>1 DEF PressReset
    <3> QED
      BY <2>1, <3>1 DEF IsTextField, TypeOK, Typed, Fields
  <2>2. ASSUME NEW d \in Containers, ~IsTextField(d) PROVE Fits(d)
    BY <1>3, <2>2 DEF PressReset, TypeOK
  <2>3. \A d \in Containers : Fits(d)
    BY <2>1, <2>2
  <2>4. /\ component' = component /\ props' = props /\ DOMAIN node' = Containers
        /\ reset' \subseteq Containers
    BY <1>3 DEF PressReset, TypeOK
  <2> QED
    BY <2>3, <2>4 DEF TypeOK
<1>4. CASE UNCHANGED vars
  BY <1>4 DEF vars, TypeOK
<1> QED
  BY <1>1, <1>2, <1>3, <1>4 DEF Next

\* Every reachable page has its type: a value of its own is a text field's alone, through
\* whatever change of type, editing and resetting.
THEOREM TypeCorrect == Spec => []TypeOK
<1>1. Init => TypeOK
  BY DEF Init, TypeOK
<1> QED
  BY <1>1, TypeStep, PTL DEF Spec

-----------------------------------------------------------------------------
\* An event at one container that leaves it showing what it declares is a Settle.
LEMMA SettleStep ==
    ASSUME NEW c \in Containers,
           component'[c] # Undef,
           Fresh(node'[c], Rendered(c)'),
           DeclaredValue(Rendered(c)') # Undef =>
               Shows(node'[c], DeclaredValue(Rendered(c)')),
           \A d \in Containers : d # c =>
               component'[d] = component[d] /\ props'[d] = props[d] /\ node'[d] = node[d]
    PROVE  Promise!Settle(c)
<1>1. \A d \in Containers : d # c => Declared(d)' = Declared(d) /\ Seen(d)' = Seen(d)
  BY DEF Declared, Seen, Rendered
<1>2. {d \in Containers : component'[d] # Undef} =
          {d \in Containers : component[d] # Undef} \cup {c}
  OBVIOUS
<1>3. [d \in Containers |-> Declared(d)'] =
          [[d \in Containers |-> Declared(d)] EXCEPT ![c] = Declared(c)']
  BY <1>1
<1>4. [d \in Containers |-> Seen(d)'] =
          [[d \in Containers |-> Seen(d)] EXCEPT ![c] = Seen(c)']
  BY <1>1
<1>5. Promise!Agrees(Seen(c)', Declared(c)')
  BY DEF Promise!Agrees, Seen, Declared, View, Fresh, Shows
<1> QED
  BY <1>2, <1>3, <1>4, <1>5 DEF Promise!Settle

\* The reset of the nodes is, as it is seen, the reset of the promise.
LEMMA ResetIsReset ==
    ASSUME NEW c \in Containers, Inv, PressReset(c)
    PROVE  Promise!Reset
<1>1. component' = component /\ props' = props
  BY DEF PressReset
<1>2. \A d \in Containers : Declared(d)' = Declared(d)
  BY <1>1 DEF Declared, Rendered
<1>3. ASSUME NEW d \in Containers,
             component[d] # Undef /\ Seen(d).type \in TextTypes
      PROVE  Seen(d)' = [Seen(d) EXCEPT !.value = Seen(d)'.value]
  <2>1. IsTextField(d)
    BY <1>3 DEF IsTextField, Seen, View
  <2>2. node'[d] = [node[d] EXCEPT !.value = Undef, !.dirty = FALSE]
    BY <2>1 DEF PressReset
  <2>3. node'[d].type = node[d].type /\ node'[d].class = node[d].class
    BY <1>3, <2>2 DEF Inv, FreshInv, Fresh, Fields
  <2> QED
    BY <1>1, <1>3, <2>3 DEF Seen, View
<1>4. ASSUME NEW d \in Containers,
             ~(component[d] # Undef /\ Seen(d).type \in TextTypes)
      PROVE  Seen(d)' = Seen(d)
  <2>1. component[d] # Undef => ~IsTextField(d)
    BY <1>4 DEF IsTextField, Seen, View
  <2> QED
    BY <1>1, <2>1 DEF PressReset, Seen, IsTextField
<1> QED
  BY <1>1, <1>2, <1>3, <1>4 DEF Promise!Reset

\* Every step of the page is one of the promise, or a stutter.
LEMMA PromiseStep ==
    ValueInv /\ ValueInv' /\ [Next]_vars =>
        [(\E c \in Containers : Promise!Settle(c)) \/ Promise!Reset]_(Promise!promised)
<1> SUFFICES ASSUME ValueInv, ValueInv', [Next]_vars
             PROVE  [(\E c \in Containers : Promise!Settle(c)) \/ Promise!Reset]_(Promise!promised)
  OBVIOUS
<1>0. ASSUME NEW c \in Containers, component'[c] # Undef, c \notin reset',
             \A d \in Containers : d # c =>
                 component'[d] = component[d] /\ props'[d] = props[d] /\ node'[d] = node[d]
      PROVE  Promise!Settle(c)
  <2>1. Fresh(node'[c], Rendered(c)')
    BY <1>0 DEF ValueInv, Inv, FreshInv
  <2>2. DeclaredValue(Rendered(c)') # Undef => Shows(node'[c], DeclaredValue(Rendered(c)'))
    BY <1>0 DEF ValueInv, ValueIsKept
  <2> QED
    BY <1>0, <2>1, <2>2, SettleStep
<1>1. ASSUME NEW c \in Containers, NEW offer \in Offers[c], Render(c, offer[1], offer[2])
      PROVE  Promise!Settle(c)
  <2>1. component'[c] # Undef
    BY <1>1, AliceUiAssumption DEF Render, ValueInv, Inv
  <2> QED
    BY <1>0, <1>1, <2>1 DEF Render, ValueInv, Inv
<1>2. ASSUME NEW c \in Containers, NEW text \in Values, EditText(c, text)
      PROVE  Promise!Settle(c)
  BY <1>0, <1>2 DEF EditText, ValueInv, Inv
<1>3. ASSUME NEW c \in Containers, PressReset(c) PROVE Promise!Reset
  BY <1>3, ResetIsReset DEF ValueInv
<1>4. CASE UNCHANGED vars
  BY <1>4 DEF vars, Promise!promised, Declared, Seen, Rendered
<1> QED
  BY <1>1, <1>2, <1>3, <1>4 DEF Next

\* The page implements the promise of its components.
THEOREM Refinement == Spec => ImplementsPromise
<1>1. Init => Promise!PromiseInit
  BY DEF Init, Promise!PromiseInit, Declared, Seen
<1>2. Init => ValueIsKept
  BY DEF Init, ValueIsKept
<1> QED
  BY InitInv, InvStep, ValueStep, PromiseStep, <1>1, <1>2, PTL
     DEF Spec, ValueInv, ImplementsPromise, Promise!PromiseSpec
=============================================================================
