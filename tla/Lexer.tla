------------------------------- MODULE Lexer -------------------------------
(***************************************************************************)
(* The scanner of lex.yy.c: flex's tables for the rules of lexer.l, and how  *)
(* yylex runs them over a segment.                                           *)
(***************************************************************************)
EXTENDS Texts

\* The class of a character; the scanner tells no two of a class apart.
yy_ec(c) ==
  CASE c = " " -> 2 [] c = "\n" -> 3 [] c = "\"" -> 4 [] c = "#" -> 5 [] c = "$" -> 6
    [] c \in {"%", "+", "-", ".", "/", ":", "?"} -> 7
    [] c = "&" -> 8 [] c = "(" -> 9 [] c = ")" -> 10 [] c \in {"*", "@"} -> 11
    [] c \in Digit -> 12 [] c = "<" -> 14 [] c = "=" -> 15 [] c = ">" -> 16
    [] c \in Letter -> 17 [] c = "[" -> 18 [] c = "]" -> 19
    [] c = "{" -> 20 [] c = "|" -> 21 [] c = "}" -> 22
    [] OTHER -> 1

\* The tables, from index 0.
yy_accept ==
  <<0, 0, 0, 30, 29, 1, 15, 29, 28, 29, 11, 19, 20, 28, 12, 4, 5, 28, 29, 3, 1, 0, 2, 28,
    26, 25, 0, 13, 0, 21, 28, 16, 17, 7, 9, 8, 6, 28, 0, 0, 22, 14, 25, 0, 0, 24, 18, 10,
    0, 0, 23, 27, 23, 0>>

yy_meta ==
  <<0, 1, 1, 1, 1, 2, 1, 3, 1, 1, 1, 4, 2, 1, 1, 3, 1, 2, 1, 5, 4, 1, 1>>

yy_base ==
  <<0, 0, 0, 90, 91, 87, 91, 84, 0, 6, 79, 76, 91, 13, 91, 16, 20, 21, 63, 63, 81, 78,
    91, 0, 91, 23, 59, 91, 70, 91, 0, 91, 63, 91, 91, 91, 70, 0, 0, 55, 91, 91, 25, 0,
    30, 91, 91, 91, 15, 12, 15, 91, 91, 91, 43, 47, 49, 53, 58, 63, 68, 72>>

yy_def ==
  <<0, 53, 1, 53, 53, 53, 53, 54, 55, 56, 53, 57, 53, 55, 53, 53, 53, 55, 58, 53, 53, 54,
    53, 55, 53, 53, 59, 53, 57, 53, 13, 53, 53, 53, 53, 53, 53, 17, 60, 58, 53, 53, 53,
    61, 59, 53, 53, 53, 60, 61, 53, 53, 53, 0, 53, 53, 53, 53, 53, 53, 53, 53>>

yy_nxt ==
  <<0, 4, 5, 6, 7, 8, 9, 8, 10, 11, 12, 4, 13, 14, 15, 8, 16, 17, 4, 4, 18, 19, 4, 25,
    33, 30, 26, 31, 35, 32, 52, 51, 34, 37, 50, 42, 36, 42, 37, 38, 42, 43, 42, 43, 21,
    21, 21, 21, 21, 23, 23, 24, 45, 24, 28, 28, 28, 28, 28, 39, 39, 39, 39, 39, 44, 44,
    44, 44, 44, 48, 48, 48, 48, 49, 49, 49, 49, 40, 47, 46, 29, 45, 22, 20, 41, 40, 29,
    27, 22, 20, 53, 3, 53, 53, 53, 53, 53, 53, 53, 53, 53, 53, 53, 53, 53, 53, 53, 53,
    53, 53, 53, 53, 53, 53>>

yy_chk ==
  <<0, 1, 1, 1, 1, 1, 1, 1, 1, 1, 1, 1, 1, 1, 1, 1, 1, 1, 1, 1, 1, 1, 1, 9, 15, 13, 9,
    13, 16, 13, 50, 49, 15, 17, 48, 25, 16, 42, 17, 17, 25, 25, 42, 42, 54, 54, 54, 54,
    54, 55, 55, 56, 44, 56, 57, 57, 57, 57, 57, 58, 58, 58, 58, 58, 59, 59, 59, 59, 59,
    60, 60, 60, 60, 61, 61, 61, 61, 39, 36, 32, 28, 26, 21, 20, 19, 18, 11, 10, 7, 5, 3,
    53, 53, 53, 53, 53, 53, 53, 53, 53, 53, 53, 53, 53, 53, 53, 53, 53, 53, 53, 53, 53,
    53, 53>>

At(table, i) == table[i + 1]

YY_NUM_RULES == 29
Jam == 53
Start == 1

RECURSIVE Follow_unmapped(_, _), Follow(_, _), StatesFrom(_, _)

\* Mutant: the character keeps its class where the default is a template.
Follow_unmapped(state, class) ==
  LET i == At(yy_base, state) + class
  IN IF At(yy_chk, i) = state THEN At(yy_nxt, i)
     ELSE IF At(yy_def, state) = 0 THEN Jam ELSE Follow_unmapped(At(yy_def, state), class)

\* The state behind a state: it gives way to its default until the entry is its own.
Follow(state, class) ==
  LET i == At(yy_base, state) + class
      default == At(yy_def, state)
  IN IF At(yy_chk, i) = state THEN At(yy_nxt, i)
     ELSE Follow(default, IF default > Jam THEN At(yy_meta, class) ELSE class)

StatesFrom(state, text) ==
  <<state>> \o IF text = <<>> THEN <<>>
               ELSE StatesFrom(Follow(state, yy_ec(Head(text))), Tail(text))

\* The states yylex goes through on a text, before its first character and behind each.
States(text) == StatesFrom(Start, text)

Accepting(state, k) == At(state, k) # Jam /\ At(yy_accept, At(state, k)) # 0

\* How much of the text is the next token, and its rule: the scanner runs until it
\* jams or the text ends, and backs up to the last state that accepts.
Match(text) ==
  LET state == States(text)
      n == CHOOSE k \in 1..Len(text) :
             Accepting(state, k) /\ \A j \in k + 1..Len(text) : ~Accepting(state, j)
  IN [length |-> n, rule |-> At(yy_accept, At(state, n))]

\* What the actions return; "none" for blanks and for what is echoed.
TokenOf(rule) ==
  CASE rule \in {1, 29} -> "none"
    [] rule = 2 -> "QUOTED_STRING"
    [] rule = 3 -> "PIPE" [] rule = 4 -> "LESS" [] rule = 5 -> "GREATER"
    [] rule = 6 -> "DGREATER" [] rule = 7 -> "LESSAND" [] rule = 8 -> "GREATAND"
    [] rule = 9 -> "LESSGREAT" [] rule = 10 -> "DGREATAND" [] rule = 11 -> "AMPERSAND"
    [] rule = 13 -> "AND" [] rule = 14 -> "OR" [] rule = 15 -> "LINE_CHAGE"
    [] rule \in 16..18 -> "IO_NUMBER"
    [] rule = 19 -> "LPAREN" [] rule = 20 -> "RPAREN"
    [] rule \in 24..27 -> "PARAM_EXPANSION"
    [] rule \in {21, 22, 23, 28} -> "WORD"

Scan(text) ==
  LET match == Match(text)
  IN [token |-> TokenOf(match.rule), rule |-> match.rule, text |-> SubSeq(text, 1, match.length)]

-----------------------------------------------------------------------------
(* The rules, as the tables were made of them.                             *)

Over(set, text) == ToSet(text) \subseteq set

\* A text between two marks, at least n characters.
Between(open, close, n, text) ==
  /\ Len(text) >= n + 2 /\ Head(text) = open /\ Last(text) = close
  /\ \A i \in 2..Len(text) - 1 : text[i] # close

Identifier(text) == text # <<>> /\ Head(text) \in Letter /\ Over(Letter \union Digit, text)

\* An identifier and an index that is not empty.
Element(text) ==
  \E n \in DOMAIN text :
    Identifier(SubSeq(text, 1, n)) /\ Between("[", "]", 1, SubSeq(text, n + 1, Len(text)))

WordCharacter == Letter \union Digit \union {"%", "+", "-", ".", "/", ":", "?", "#", "="}

Operator ==
  <<<<3, "|">>, <<4, "<">>, <<5, ">">>, <<6, ">", ">">>, <<7, "<", "&">>, <<8, ">", "&">>,
    <<9, "<", ">">>, <<10, ">", ">", "&">>, <<11, "&">>, <<13, "&", "&">>, <<14, "|", "|">>,
    <<15, "\n">>, <<19, "(">>, <<20, ")">>>>

\* The numbers of the rules that a text as a whole fits.
Rules(text) ==
  LET rest == Tail(text)
      front == Front(text)
      InFrontOf(operator) ==
        \E n \in 1..Len(text) - 1 :
          Over(Digit, SubSeq(text, 1, n)) /\ SubSeq(text, n + 1, Len(text)) = operator
      Fits(rule, yes) == IF yes THEN {rule} ELSE {}
  IN {Operator[i][1] : i \in {j \in DOMAIN Operator : Tail(Operator[j]) = text}}
       \union Fits(1, Over({" "}, text))
       \union Fits(2, Between("\"", "\"", 0, text))
       \union Fits(16, InFrontOf(<<"<">>))
       \union Fits(17, InFrontOf(<<">">>))
       \union Fits(18, InFrontOf(<<">", ">">>))
       \union Fits(21, Between("(", ")", 0, text))
       \union Fits(22, Between("{", "}", 0, text))
       \union Fits(23, Element(text) \/ (Last(text) = "=" /\ Element(front)))
       \union Fits(24, text[1] = "$" /\ Between("{", "}", 0, rest))
       \union Fits(25, text[1] = "$" /\ Identifier(rest))
       \union Fits(26, text[1] = "$" /\ Len(text) = 2 /\ text[2] \in Digit \union {"#", "*", "@"})
       \union Fits(27, text[1] = "$" /\ Element(rest))
       \union Fits(28, Over(WordCharacter, text))
       \union Fits(29, Len(text) = 1)
=============================================================================
