------------------------------ MODULE MCWords ------------------------------
EXTENDS Words, Values

Characters(s) == [i \in 1..Len(s) |-> SubSeq(s, i, i)]

String(name, s) == Variable(Characters(name), "string", Characters(s), Characters(s), <<>>)
\* A variable that was given the literal when it was one of the type already.
Given(name, literal) ==
  LET type == parse_variable_type(Characters(literal))
      v == string_to_va_value(Characters(literal), type)
  IN Variable(Characters(name), type, IF type = "array" THEN Characters(literal) ELSE <<>>,
              va_value_to_string(v), [i \in DOMAIN v.elements |-> va_value_to_string(v.elements[i])])

\* A string, an empty one, one that names another, an array and a map.
MCTable ==
  {<<String("x", "abab"), String("xy", ""), String("y", "x"), String("q", "a'B"),
     Given("A", "(a b)"), Given("B", "{[x]=a}")>>}

\* Elements that are one character, a numeral, quoted or an array themselves, with
\* one blank between them, are read as they are written; so are pairs whose value
\* is one character, with one blank between them, or a numeral, with two.
Spelling == {"a", "10", "\"a b\"", "\"\"", "(a)", "'"}
Meaning == [s \in Spelling |-> string__remove_quotes(Characters(s))]
Spread(texts, blanks) ==
  FlattenSeq([i \in DOMAIN texts |-> IF i = 1 THEN texts[i] ELSE blanks \o texts[i]])
ASSUME ElementsAreRead ==
  \A n \in 0..3 : \A written \in [1..n -> Spelling] :
    LET text == <<"(">> \o Spread([i \in 1..n |-> Characters(written[i])], <<" ">>) \o <<")">>
        v == string_to_va_value(text, parse_variable_type(text))
    IN v.elements = [i \in 1..n |-> string_to_va_value(Characters(written[i]),
                                      parse_variable_type(Characters(written[i])))]
       /\ \A i \in 1..n : va_value_to_string(v.elements[i]) = Meaning[written[i]]
ASSUME PairsAreRead ==
  \A value \in [{"x", "y"} -> {"a", "10"}] :
    LET pair(key) == Characters("[" \o key \o "]=" \o value[key])
        text == <<"{">> \o Spread(<<pair("x"), pair("y")>>,
                                   IF value["x"] = "a" THEN <<" ">> ELSE <<" ", " ">>) \o <<"}">>
        v == string_to_va_value(text, parse_variable_type(text))
    IN ~v.freed /\ \A key \in {"x", "y"} :
         va_value_to_string(v.elements[<<key>>]) = Characters(value[key])

\* Words of every operation, of marks that meet in one word, and of none.
Word == {"x${x}", "$x[0]", "${", "$?$!", "a${x#ab}", "${#x}", "${x##b}", "${x%b}", "${x%%ab}",
         "${!y}", "b ${!x*}", "${!Q@}", "${x^}", "${x^^b}", "${q,B}", "${q,,}", "${x:1}",
         "${x:-2:1}", "${x:1:9}", "${q@Q}", "${x@E}", "${xy:-a}", "${xy:=a}$xy", "${x:+b}",
         "${xy?a}", "${x:?a}", "${A[1]}", "${A[2]}", "${B[x]}", "$A", "$A[$xy]", "$B[$y]$A[1]",
         "$A a[1", "${Q}", "$Q"}
Loop == {"a${x/ab/b}", "a${x//b/}", "a${x/a}", "a${x//ab}", "a${x/a/aa}", "${x//ab/bbaa}",
         "a${x//}", "a${Q//a/b}", "${x/b/a}y", "$y${x/%/a}"}

Quote(s) == "\"" \o s \o "\""

\* One word alone, quoted and not, and lines that are more than words.
MCLine ==
  {Characters(s) : s \in {Quote(w) : w \in Word \union Loop} \union Word \union Loop
     \union {"x;;$x y;  ; a ", "a|b;x", "(a b", "(a b)", "a(b\"x)\"", "{a}2>x", "12>>a<&b",
             "a&&b||x&", "<>x>&y", "A[1]=a", "A[]x", "$A[x]=", "$0#$#", "~a*", "{a b", "\"a",
             "a\nb", "x=${x} $y[", "a;${x/a/aa};b"}}
=============================================================================
