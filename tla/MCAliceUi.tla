----------------------------- MODULE MCAliceUi ------------------------------
(* Instances of AliceUi for TLC: one container for a component of any kind  *)
(* with any properties, and one for a reset button beside it.               *)
EXTENDS AliceUi, TLC

CONSTANTS main, beside

\* The other components differ from one of these in the words of a table only.
Kinds ==
    {"Button", "ButtonSmall", "Input", "InputNumber", "InputFile", "InputSubmit", "Label"}

Buttons == {"Button", "ButtonSmall"}

Choices ==
    [type : {"reset", "number", "file", Undef}, className : {"own", Undef},
     value : {"x", "7", Undef}]
CallerProps ==
    UNION {{[name \in names |-> choice[name]] : choice \in Choices} :
               names \in SUBSET {"type", "className", "value"}}

\* Only a Button has the type from its caller; a file input is given no value.
Offered ==
    {offer \in Kinds \X CallerProps :
        LET el == Element(offer[1], offer[2]) IN
        /\ DeclaredType(el) = "file" => DeclaredValue(el) = Undef
        /\ \A name \in DOMAIN offer[2] \ {"value"} :
              offer[1] \in Buttons \/ offer[2][name] \in {"reset", "own"}}

AnyAndReset == main :> Offered @@ beside :> {<<"InputReset", <<>>>>}
TwoTexts == {"x", "7"}

\* "x" is no number.
OnlyNumbers(type, value) == IF type = "number" /\ value = "x" THEN "" ELSE value
=============================================================================
