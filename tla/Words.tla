------------------------------- MODULE Words -------------------------------
(***************************************************************************)
(* From the characters of a line to the arguments of its commands: the       *)
(* segments that strtok_r cuts, their tokens, and the expansion of variables *)
(* in each word. An expansion goes character by character through the word;  *)
(* the loops that replace and remove are steps of their own, and an index in *)
(* $name[index] is expanded by a call of its own.                            *)
(***************************************************************************)
EXTENDS Lexer

CONSTANTS
  Line,            \* the lines that are read
  Table,           \* the tables of variables: sequences
  MaxLength        \* bound: characters of a text that a loop makes longer

\* A variable as expand_variables reads it: its name, its text, what
\* va_value_to_string makes of its value, and the values by index or by key. A name
\* is resolved already: no variable is a nameref.
Variable(name, type, str, shown, elements) ==
  [name |-> name, type |-> type, str |-> str, shown |-> shown, elements |-> elements]

VARIABLES
  line, segment,     \* what is not read yet: of the line, and of the segment
  tokens,            \* the tokens of the segment
  words, argv,       \* words to expand, and words expanded, of the segment
  frames,            \* the calls of expand_variables, the innermost last
  table,
  pc

vars == <<line, segment, tokens, words, argv, frames, table, pc>>

NoLoop == [kind |-> "none"]
Call(text) == [text |-> text, p |-> 1, sb |-> <<>>, loop |-> NoLoop]

Init ==
  /\ line \in Line
  /\ table \in Table
  /\ segment = <<>> /\ tokens = <<>> /\ words = <<>> /\ argv = <<>> /\ frames = <<>>
  /\ pc = "line"

-----------------------------------------------------------------------------
(* ${...}: what is between the braces.                                     *)

Named(name) == {i \in DOMAIN table : table[i].name = name}
Known(name) == Named(name) # {}
get_variable(name) == table[Min(Named(name))]
Text(name) == IF Known(name) THEN get_variable(name).str ELSE <<>>

\* An array takes indices (numerals, from 0), a map keys.
ElementOf(v, key) ==
  LET index == strtol(key)
      i == IF v.type = "map" THEN key
           ELSE IF key # <<>> /\ index.end = Len(key) THEN index.number + 1 ELSE 0
  IN IF i \in DOMAIN v.elements THEN v.elements[i] ELSE <<>>

Has(body, character) == Index(body, character) # 0
Follows(body, character, set) ==
  Has(body, character) /\ Index(body, character) < Len(body) /\ body[Index(body, character) + 1] \in set

\* Which operation it is, from characters that occur anywhere in the body.
Operation(body) ==
  CASE Has(body, "[") /\ Index(body, "[") < string__lastindexof(body, <<"]">>) -> "element"
    [] Has(body, "#") -> IF Head(body) = "#" THEN "length" ELSE "prefix"
    [] Has(body, "!") -> IF Last(body) \in {"*", "@"} THEN "names" ELSE "indirect"
    [] Has(body, "^") -> "upper"
    [] Has(body, ",") -> "lower"
    [] Has(body, ":") /\ ~Follows(body, ":", {"?", "-", "=", "+"}) -> "substring"
    [] Has(body, "@") -> "quoted"
    [] Follows(body, ":", {"-", "=", "+"}) -> "default"
    [] Has(body, "?") -> "error"
    [] Has(body, "/") -> "replace"
    [] Has(body, "%") -> "suffix"
    [] OTHER -> "value"

\* A pattern behind a mark, and whether the mark is doubled.
Name(body, mark) == Before(body, Index(body, mark))
Argument(body, mark) == From(body, Index(body, mark) + 1)
Doubled(body, mark) == Follows(body, mark, {mark})
Pattern(body, mark) ==
  IF Doubled(body, mark) THEN Tail(Argument(body, mark)) ELSE Argument(body, mark)

\* ${name^pattern}: the first character that the pattern holds, doubled all of them.
Cased(body, mark, Convert(_)) ==
  LET s == Text(Name(body, mark))
      pattern == Pattern(body, mark)
      chosen == {i \in DOMAIN s : IF pattern = <<>> THEN i = 1 \/ Doubled(body, mark)
                                  ELSE s[i] \in ToSet(pattern)}
  IN [i \in DOMAIN s |->
        IF i \in chosen /\ (Doubled(body, mark) \/ i = Min(chosen)) THEN Convert(s[i]) ELSE s[i]]

\* ${name:offset:length}
Substring(body) ==
  LET s == Text(Name(body, ":"))
      argument == Argument(body, ":")
      first == strtol(argument)
      offset == IF first.number < 0 THEN Len(s) + first.number ELSE first.number
      rest == From(argument, first.end + 1)
      length == IF Len(rest) > 1 /\ Head(rest) = ":" THEN Tail(rest) ELSE <<>>
      n == strtol(length).number
  IN IF offset < 0 THEN <<>>
     ELSE IF length = <<>> THEN From(s, offset + 1)
     ELSE IF n > 0 /\ offset + n <= Len(s) THEN SubSeq(s, offset + 1, offset + n) ELSE <<>>

Quoted(s) == <<"'">> \o FlattenSeq([i \in DOMAIN s |->
                         IF s[i] = "'" THEN <<"'", "\\", "'", "'">> ELSE <<s[i]>>]) \o <<"'">>

\* ${name:-value}, ${name:=value} and ${name:+value}; empty is unset.
Default(body) ==
  LET s == Text(Name(body, ":"))
      value == Tail(Argument(body, ":"))
  IN IF Follows(body, ":", {"+"}) THEN IF s = <<>> THEN <<>> ELSE value
     ELSE IF s = <<>> THEN value ELSE s

\* What an operation appends, but for "names" and "replace".
Expansion(body) ==
  LET operation == Operation(body)
      bracket == Index(body, "[")
      array == Before(body, bracket)
  IN CASE operation = "element" ->
            IF Known(array) /\ get_variable(array).type # "string"
            THEN ElementOf(get_variable(array),
                           SubSeq(body, bracket + 1, string__lastindexof(body, <<"]">>) - 1))
            ELSE <<>>
       [] operation = "length" ->
            IF Known(Tail(body)) THEN Numeral(Len(Text(Tail(body)))) ELSE <<>>
       [] operation = "prefix" -> string__remove_prefix(Text(Name(body, "#")), Pattern(body, "#"))
       [] operation = "indirect" -> Text(Text(Tail(body)))
       [] operation = "upper" -> Cased(body, "^", Upper)
       [] operation = "lower" -> Cased(body, ",", Lower)
       [] operation = "substring" -> Substring(body)
       [] operation = "quoted" ->
            IF Known(Name(body, "@")) /\ Follows(body, "@", {"Q"})
            THEN Quoted(Text(Name(body, "@"))) ELSE <<>>
       [] operation = "default" -> Default(body)
       [] operation = "error" ->
            IF Text(Name(body, "?")) = <<>> THEN <<"ERROR: ">> \o Argument(body, "?")
            ELSE Text(Name(body, "?"))
       [] operation = "suffix" -> string__remove_suffix(Text(Name(body, "%")), Pattern(body, "%"))
       [] OTHER -> Text(body)

\* ${name:=value} sets the variable, at the end of the table when it is new.
Assigned(body) ==
  LET name == Name(body, ":")
      v == Variable(name, "string", Default(body), Default(body), <<>>)
  IN IF Operation(body) # "default" \/ ~Follows(body, ":", {"="}) \/ Text(name) # <<>> THEN table
     ELSE IF Known(name) THEN [table EXCEPT ![Min(Named(name))] = v] ELSE Append(table, v)

\* ${name/pattern/new}: what is replaced at one turn of the loop. Without "new" the
\* loop removes; there, one turn is all unless the slash is doubled.
Replacement(body) ==
  LET pattern == Pattern(body, "/")
      slash == Index(pattern, "/")
  IN [kind |-> IF slash = 0 THEN "remove" ELSE "replace",
      value |-> Text(Name(body, "/")), whole |-> Text(Name(body, "/")),
      pattern |-> IF slash = 0 THEN pattern ELSE Before(pattern, slash),
      new |-> IF slash = 0 THEN <<>> ELSE From(pattern, slash + 1),
      all |-> Doubled(body, "/")]

-----------------------------------------------------------------------------
(* A line, its segments and their tokens.                                  *)

WithoutBlanks(s) == SubSeq(s, SelectInSeq(s, LAMBDA c : c \notin Blank), Len(s))

\* strtok_r passes over any number of ";", and takes what is before the next one.
NextSegment ==
  /\ pc = "line"
  /\ \E start \in {SelectInSeq(line, LAMBDA c : c # ";")} :
       IF start = 0
       THEN pc' = "done" /\ UNCHANGED <<line, segment, tokens, argv>>
       ELSE \E rest \in {From(line, start)} :
            \E cut \in {SelectInSeq(rest, LAMBDA c : c = ";")} :
              \E s \in {IF cut = 0 THEN rest ELSE Before(rest, cut)} :
                /\ line' = IF cut = 0 THEN <<>> ELSE From(rest, cut + 1)
                /\ segment' = IF ToSet(s) \subseteq Blank THEN <<>> ELSE WithoutBlanks(s)
                /\ pc' = IF ToSet(s) \subseteq Blank THEN "line" ELSE "scan"
                /\ tokens' = <<>> /\ argv' = <<>>
  /\ UNCHANGED <<words, frames, table>>

yylex ==
  /\ pc = "scan" /\ segment # <<>>
  /\ \E t \in {Scan(segment)} :
       /\ segment' = From(segment, Len(t.text) + 1)
       /\ tokens' = IF t.token = "none" THEN tokens ELSE Append(tokens, t)
  /\ UNCHANGED <<line, words, argv, frames, table, pc>>

IsWord(token) == token \in {"WORD", "QUOTED_STRING", "PARAM_EXPANSION"}

\* A segment of words is a command. What the parser makes of operators is not told
\* here: their segment is passed over, or ends the line with an error.
EndOfSegment ==
  /\ pc = "scan" /\ segment = <<>>
  /\ IF tokens # <<>> /\ \A i \in DOMAIN tokens : IsWord(tokens[i].token)
     THEN /\ words' = [i \in DOMAIN tokens |->
                         IF tokens[i].token = "QUOTED_STRING" THEN string__remove_quotes(tokens[i].text)
                         ELSE tokens[i].text]
          /\ pc' = "words"
     ELSE /\ pc' \in IF tokens = <<>> THEN {"done"} ELSE {"line", "done"}
          /\ UNCHANGED words
  /\ UNCHANGED <<line, segment, tokens, argv, frames, table>>

-----------------------------------------------------------------------------
(* expand_variables                                                        *)

ExpandWord ==
  /\ pc = "words" /\ frames = <<>>
  /\ IF words = <<>> THEN pc' = "line" /\ UNCHANGED <<words, frames>>
     ELSE frames' = <<Call(Head(words))>> /\ words' = Tail(words) /\ UNCHANGED pc
  /\ UNCHANGED <<line, segment, tokens, argv, table>>

Running == frames # <<>> /\ Last(frames).loop.kind = "none"
Top == Last(frames)
Depth == Len(frames)
Rest == From(Top.text, Top.p)      \* of the text, from the character that is next

\* The call appends to its result, and goes on behind n characters.
Goes(n, appended) ==
  frames' = [frames EXCEPT ![Depth].p = @ + n, ![Depth].sb = @ \o appended]

Unscanned == UNCHANGED <<line, segment, tokens, words, argv, pc>>

Braces == Len(Rest) > 1 /\ Rest[1] = "$" /\ Rest[2] = "{" /\ Has(From(Rest, 3), "}")
Body == SubSeq(Rest, 3, Index(Rest, "}") - 1)
Dollar(set) == Len(Rest) > 1 /\ Rest[1] = "$" /\ Rest[2] \in set

Character ==
  /\ Running /\ Rest # <<>> /\ ~Braces /\ ~Dollar({"?", "!"} \union Letter)
  /\ Goes(1, <<Head(Rest)>>)
  /\ UNCHANGED table /\ Unscanned

Special ==
  /\ Running /\ Dollar({"?", "!"})
  /\ Goes(2, IF Rest[2] = "?" THEN <<"0">> ELSE <<"LAST_BG_PID">>)
  /\ UNCHANGED table /\ Unscanned

ExpandBraces ==
  /\ Running /\ Braces /\ Operation(Body) \notin {"names", "replace"}
  /\ Goes(Len(Body) + 3, Expansion(Body))
  /\ table' = Assigned(Body)
  /\ Unscanned

\* ${!prefix*} ends with the blank behind the last name cut off; so is a blank from
\* before when there is no name.
ExpandNames ==
  /\ Running /\ Braces /\ Operation(Body) = "names"
  /\ \E sb \in {Top.sb \o FlattenSeq([i \in DOMAIN table |->
                     IF string__startswith(table[i].name, Front(Tail(Body)))
                     THEN table[i].name \o <<" ">> ELSE <<>>])} :
       frames' = [frames EXCEPT
                    ![Depth].p = @ + Len(Body) + 3,
                    ![Depth].sb = IF sb # <<>> /\ Last(sb) = " " THEN Front(sb) ELSE sb]
  /\ UNCHANGED table /\ Unscanned

StartReplacing ==
  /\ Running /\ Braces /\ Operation(Body) = "replace"
  /\ frames' = [frames EXCEPT
                  ![Depth].p = @ + Len(Body) + 3,
                  ![Depth].loop = IF Known(Name(Body, "/")) THEN Replacement(Body) ELSE NoLoop]
  /\ UNCHANGED table /\ Unscanned

Found(loop) == string__indexof(loop.value, loop.pattern) # 0

\* One turn. A removal goes through the string builder of the call, and leaves it empty.
\* Where the value would grow beyond MaxLength it stays as it is, and the loop goes on.
Replace ==
  /\ frames # <<>> /\ Top.loop.kind # "none" /\ Found(Top.loop)
  /\ \E value \in {string__replace(Top.loop.value, Top.loop.pattern, Top.loop.new)} :
       IF Top.loop.kind = "replace"
       THEN frames' = [frames EXCEPT ![Depth].loop.value = IF Len(value) <= MaxLength THEN value ELSE @]
       ELSE frames' = [frames EXCEPT
                         ![Depth].sb = IF Top.loop.all THEN <<>> ELSE value,
                         ![Depth].loop = IF Top.loop.all THEN [@ EXCEPT !.value = value] ELSE NoLoop]
  /\ UNCHANGED table /\ Unscanned

\* Mutant: the replaced value goes through the builder as the removed one does.
EndReplacing_cleared ==
  /\ frames # <<>> /\ Top.loop.kind # "none" /\ ~Found(Top.loop)
  /\ frames' = [frames EXCEPT ![Depth].sb = Top.loop.value, ![Depth].loop = NoLoop]
  /\ UNCHANGED table /\ Unscanned

\* All were replaced, and only now is it seen whether all were asked for.
EndReplacing ==
  /\ frames # <<>> /\ Top.loop.kind # "none" /\ ~Found(Top.loop)
  /\ frames' = [frames EXCEPT
                  ![Depth].sb = @ \o IF Top.loop.all \/ Top.loop.kind = "remove" THEN Top.loop.value
                                     ELSE string__replace(Top.loop.whole, Top.loop.pattern, Top.loop.new),
                  ![Depth].loop = NoLoop]
  /\ UNCHANGED table /\ Unscanned

NameLength == CHOOSE n \in 1..Len(Rest) - 1 :
  /\ \A i \in 2..n + 1 : Rest[i] \in Letter \union Digit
  /\ n + 1 < Len(Rest) => Rest[n + 2] \notin Letter \union Digit

\* $name. Behind the name of an array or a map a "[" may stand anywhere: what is
\* between it and the next "]" is expanded by a call of its own.
ExpandName ==
  /\ Running /\ Dollar(Letter)
  /\ \E name \in {SubSeq(Rest, 2, NameLength + 1)}, rest \in {From(Rest, NameLength + 2)} :
       IF ~Known(name) \/ get_variable(name).type = "string" \/ ~Has(rest, "[")
       THEN Goes(Len(name) + 1, IF Known(name) THEN get_variable(name).shown ELSE <<>>)
       ELSE \E index \in {From(rest, Index(rest, "[") + 1)} :
              IF ~Has(index, "]") THEN Goes(Len(name) + 1, <<>>)
              ELSE frames' = Append(frames, Call(Before(index, Index(index, "]"))))
  /\ UNCHANGED table /\ Unscanned

\* The call inside has returned: its text is the index of the name behind p.
ReturnIndex ==
  /\ Running /\ Rest = <<>> /\ Depth > 1
  /\ \E caller \in {frames[Depth - 1]} : \E rest \in {From(caller.text, caller.p)} :
       \E name \in {SubSeq(rest, 2, (CHOOSE n \in 1..Len(rest) - 1 :
                         /\ \A i \in 2..n + 1 : rest[i] \in Letter \union Digit
                         /\ rest[n + 2] \notin Letter \union Digit) + 1)} :
         \E opened \in {Index(rest, "[")} :
           frames' = [Front(frames) EXCEPT
                        ![Depth - 1].sb = @ \o ElementOf(get_variable(name), Top.sb),
                        ![Depth - 1].p = @ + opened + Index(From(rest, opened + 1), "]")]
  /\ UNCHANGED table /\ Unscanned

ReturnWord ==
  /\ Running /\ Rest = <<>> /\ Depth = 1
  /\ argv' = Append(argv, Top.sb) /\ frames' = <<>>
  /\ UNCHANGED <<line, segment, tokens, words, table, pc>>

Expand ==
  \/ Character \/ Special \/ ExpandBraces \/ ExpandNames \/ StartReplacing \/ Replace
  \/ EndReplacing \/ ExpandName \/ ReturnIndex \/ ReturnWord

Done == pc = "done" /\ UNCHANGED vars

Next == NextSegment \/ yylex \/ EndOfSegment \/ ExpandWord \/ Expand \/ Done

Spec == Init /\ [][Next]_vars
FairSpec == Spec /\ WF_vars(Replace \/ EndReplacing)

-----------------------------------------------------------------------------
(* What the words promise.                                                 *)

\* The scanner takes the longest text that a rule of lexer.l fits, by the first of
\* the rules that fit it: the tables say what the rules say (lex.yy.c, yylex).
LongestMatch ==
  pc = "scan" /\ segment # <<>> =>
    LET match == Match(segment)
        fitting(n) == Rules(SubSeq(segment, 1, n))
    IN /\ \A n \in match.length + 1..Len(segment) : fitting(n) = {}
       /\ fitting(match.length) # {} /\ match.rule = Min(fitting(match.length))

\* What a call has expanded is not lost by what it expands next: only ${name/pattern}
\* drops it, and ${!prefix*} cuts a blank (expand_variables appends to its builder).
ExpandedStays ==
  [][\A d \in DOMAIN frames \intersect DOMAIN frames' :
       frames'[d].text = frames[d].text /\ frames'[d].p >= frames[d].p
         => \/ IsPrefix(frames[d].sb, frames'[d].sb)
            \/ frames[d].loop.kind = "remove"
            \/ d = Depth /\ ExpandNames /\ IsPrefix(Front(frames[d].sb), frames'[d].sb)]_vars

\* A turn of the loop that brings its end nearer: it leaves less of the value, or
\* fewer characters of the pattern.
Shrinks(loop) ==
  /\ loop.pattern # <<>>
  /\ \/ Len(loop.new) < Len(loop.pattern)
     \/ ToSet(loop.new) \intersect ToSet(loop.pattern) = {}

\* A replacement ends when each of its turns brings the end nearer. Nothing else keeps it
\* from running for ever, not even ${x/a/aa}, which asks for one (string__replace_all).
ReplacingEnds ==
  (frames # <<>> /\ Top.loop.kind # "none" /\ Shrinks(Top.loop))
    ~> (frames = <<>> \/ Top.loop.kind = "none")
=============================================================================
