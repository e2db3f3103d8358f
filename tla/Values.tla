------------------------------ MODULE Values -------------------------------
(***************************************************************************)
(* What a text means as the value of a variable, and how a value is written  *)
(* back: parse_variable_type, string_to_va_value and va_value_to_string of   *)
(* variable.c. A string has a text, an integer its digits, an array a        *)
(* sequence of values, and a map values by key; freed: the map was given up  *)
(* half read, and what the variable gets is a freed one.                     *)
(*   No text here begins or ends with a blank: parse_variable_type would cut *)
(* it off in place and leave the caller with the old length.                 *)
(***************************************************************************)
EXTENDS Texts, FiniteSets

parse_variable_type(value) ==
  LET Within(open, close) == string__startswith(value, open) /\ string__endswith(value, close)
  IN CASE value = <<>> \/ Within(<<"\"">>, <<"\"">>) \/ Within(<<"'">>, <<"'">>) -> "string"
       [] string__isdigit(value) -> "integer"
       [] Within(<<"(">>, <<")">>) -> "array"
       [] Within(<<"{">>, <<"}">>) -> "map"
       [] OTHER -> "string"

\* ratoll: a numeral above LLONG_MAX is refused. Numbers are their digits: rlltos
\* writes them into a string that it returns the address of, a local of its own,
\* which the Makefile's build finds intact when it reads it at once.
LLONG_MAX == <<"9", "2", "2", "3", "3", "7", "2", "0", "3", "6", "8", "5", "4", "7", "7", "5", "8", "0", "7">>
Significant(digits) ==
  LET first == SelectInSeq(digits, LAMBDA d : d # "0")
  IN IF first = 0 THEN <<"0">> ELSE From(digits, first)
Overflows(digits) ==
  LET n == Significant(digits)
  IN \/ Len(n) > Len(LLONG_MAX)
     \/ /\ Len(n) = Len(LLONG_MAX)
        /\ \E i \in DOMAIN n : /\ \A j \in 1..i - 1 : n[j] = LLONG_MAX[j]
                               /\ strtol(<<n[i]>>).number > strtol(<<LLONG_MAX[i]>>).number

\* How many characters the first element takes, -1 when it does not end. A word
\* without quotes ends before its first character.
identify_value_string_end(s) ==
  LET start == SelectInSeq(s, LAMBDA c : c # " ")
      rest == From(s, start)
      quote == Index(Tail(rest), "\"")
      Closed(close) ==
        LET ends == {i \in 2..Len(rest) :
                       rest[i] = close /\ Cardinality({j \in 2..i - 1 : rest[j] = "\""}) % 2 = 0}
        IN IF ends = {} THEN -1 ELSE start - 1 + Min(ends)
  IN CASE start = 0 -> -1
       [] start # 0 /\ rest[1] = "\"" -> IF quote = 0 THEN -1 ELSE start + quote
       [] start # 0 /\ rest[1] \in Digit ->
            start - 1 + (CHOOSE n \in 1..Len(rest) :
                           /\ string__isdigit(SubSeq(rest, 1, n))
                           /\ n = Len(rest) \/ rest[n + 1] \notin Digit)
       [] start # 0 /\ rest[1] = "(" -> Closed(")")
       [] start # 0 /\ rest[1] = "{" -> Closed("}")
       [] OTHER -> start - 1

find_key_value_terminator(s) ==
  LET ends == {i \in 2..Len(s) : s[i] \notin Letter \union Digit}
      value == identify_value_string_end(From(s, Min(ends) + 2))
  IN IF \/ s[1] # "[" \/ ends = {}
        \/ ~string__startswith(From(s, Min(ends)), <<"]", "=">>)
        \/ value = -1
     THEN -1 ELSE Min(ends) + 2 + value

-----------------------------------------------------------------------------
(* From text to value and back.                                            *)

Inside(s) == string__trim(SubSeq(s, 2, Len(s) - 1))
Upto(s, i) == Before(s, Min({i, Len(s)}) + 1)

RECURSIVE string_to_va_value(_, _), Elements(_, _), Pairs(_, _)
Converted(s) == string_to_va_value(string__trim(s), parse_variable_type(string__trim(s)))

\* An element is taken with the character behind it. One that does not end takes
\* those before it away.
Elements(input, done) ==
  LET end == identify_value_string_end(input)
  IN IF input = <<>> THEN done
     ELSE IF end = -1 THEN <<>>
     ELSE Elements(From(input, end + 2), Append(done, Converted(Upto(input, end + 1))))

\* So is a value, and one character more is passed over.
Pairs(input, done) ==
  LET end == find_key_value_terminator(input)
      close == Index(input, "]")
      value == Converted(From(Upto(input, end), close + 2))
  IN IF input = <<>> THEN [type |-> "map", elements |-> done, freed |-> FALSE]
     ELSE IF end = -1 THEN [type |-> "map", elements |-> <<>>, freed |-> TRUE]
     ELSE Pairs(From(input, end + 2), (SubSeq(input, 2, close - 1) :> value) @@ done)

string_to_va_value(s, type) ==
  CASE type = "string" -> [type |-> type, text |-> string__remove_quotes(s)]
    [] type = "integer" ->
         [type |-> type, text |-> IF string__isdigit(s) /\ ~Overflows(s) THEN Significant(s) ELSE <<"0">>]
    [] type = "array" -> [type |-> type, elements |-> Elements(Inside(s), <<>>)]
    [] type = "map" -> Pairs(Inside(s), <<>>)

\* The keys of a map come in the order of its buckets, any order here.
RECURSIVE va_value_to_string(_)
va_value_to_string(v) ==
  LET Joined(texts) ==
        FlattenSeq([i \in DOMAIN texts |-> IF i < Len(texts) THEN Append(texts[i], " ") ELSE texts[i]])
      Pair(key) == <<"[">> \o key \o <<"]", "=">> \o va_value_to_string(v.elements[key])
      keys == SetToSeq(DOMAIN v.elements)
  IN CASE v.type \in {"string", "integer"} -> v.text
       [] v.type = "array" ->
            <<"(">> \o Joined([i \in DOMAIN v.elements |-> va_value_to_string(v.elements[i])]) \o <<")">>
       [] v.type = "map" -> <<"{">> \o Joined([i \in DOMAIN keys |-> Pair(keys[i])]) \o <<"}">>
=============================================================================
