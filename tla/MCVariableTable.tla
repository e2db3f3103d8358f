-------------------------- MODULE MCVariableTable --------------------------
EXTENDS VariableTable, TLC

CONSTANTS x, y

Literal == {"", "a", "A", "0", "1", "7", "9223372036854775808", "()", "(1)", "{}", "{1}"}
MCText == Literal \union Name

\* What kind of value a text is, and how the value is written back; a text is only
\* taken for a string or for what it is.
MCKind ==
  [t \in MCText |->
     CASE t \in {"0", "1", "7", "9223372036854775808"} -> "integer"
       [] t \in {"()", "(1)"} -> "array"
       [] t \in {"{}", "{1}"} -> "map"
       [] OTHER -> "string"]
MCDefault == "string" :> "" @@ "integer" :> "0" @@ "nameref" :> "" @@ "array" :> "()" @@ "map" :> "{}"
MCPrinted ==
  [type \in ValueType |-> [t \in MCText |->
     IF type = "string" \/ (MCKind[t] = type /\ t \notin Overflowing \union Refused)
     THEN t ELSE MCDefault[type]]]

\* The tables say what parse_variable_type, string_to_va_value and va_value_to_string
\* make of the characters of the texts.
Value == INSTANCE Values
Characters(s) == [i \in 1..Len(s) |-> SubSeq(s, i, i)]
Spelt(characters) == FoldLeft(LAMBDA s, c : s \o c, "", characters)
Read(t, type) == Value!string_to_va_value(Characters(t), type)
ASSUME MeaningAssumption ==
  /\ \A t \in Literal : MCKind[t] = Value!parse_variable_type(Characters(t))
  /\ \A t \in Literal : \A type \in {"string", MCKind[t]} :
       MCPrinted[type][t] = Spelt(Value!va_value_to_string(Read(t, type)))
  /\ Overflowing = {t \in Literal : MCKind[t] = "integer" /\ Value!Overflows(Characters(t))}
  /\ Refused = {t \in Literal : MCKind[t] = "map" /\ Read(t, "map").freed}

MCUpper == [t \in MCText |-> IF t = "a" THEN "A" ELSE t]
MCLower == [t \in MCText |-> IF t = "A" THEN "a" ELSE t]

\* Values of every type in a few commands, and more commands with only what moves
\* entries: arrays and namerefs.
OfEveryType ==
  [values |-> {"", "a", "1", "9223372036854775808", "(1)", "{}", "{1}"},
   options |-> {{}, {"exported"}, {"uppercase"}, {"i"}, {"A"}, {"a", "readonly"},
                {"a", "exported"}, {"n"}, {"n", "readonly"}},
   commands |-> 3]
OfAliases ==
  [values |-> {"", "(1)"}, options |-> {{}, {"a", "exported"}, {"n"}, {"n", "readonly"}},
   commands |-> 5]

MCSession == {OfEveryType, OfAliases}
OneSession == {OfEveryType}

Names == Permutations(Name)

=============================================================================
