------------------------------ MODULE LRTables ------------------------------
(***************************************************************************)
(* The tables bison made of the grammar, as parser.tab.c holds them, and    *)
(* the two questions yyparse asks of them: what to do in a state with a     *)
(* lookahead token, and where to go after a reduction.                      *)
(***************************************************************************)
EXTENDS Integers, Sequences

\* The internal token numbers (yytname).
EOF == 0
WORD == 3
QUOTED_STRING == 4
PARAM_EXPANSION == 5
PIPE == 6
LESS == 7
GREATER == 8
DGREATER == 9
LESSAND == 10
GREATAND == 11
LESSGREAT == 12
DGREATAND == 13
AMPERSAND == 14
SEMICOLON == 15
AND == 16
OR == 17
LINE_CHAGE == 18
IO_NUMBER == 19
LPAREN == 20
RPAREN == 21

YYFINAL == 2
YYLAST == 80
YYNTOKENS == 22
YYPACT_NINF == -39

yypact ==
  <<-39, 3, -39, -39, -39, 14, 16, 18, 31, 44, 45, 51, 37, 30, -39, 12, 15, 56,
    -39, -39, 61, 48, -39, -39, -39, -39, -39, -39, -39, -39, 60, 62, 72, -12,
    -39, 30, -39, 30, 30, 30, 48, -39, -39, -39, -39, 48, -39, -39, -39, -39,
    -39, -39, 15, 56, 56, -39, 48, -39, -39>>

yydefact ==
  <<2, 0, 1, 29, 30, 0, 0, 0, 0, 0, 0, 0, 0, 0, 3, 5, 6, 9, 12, 14, 0, 19, 20,
    31, 33, 35, 32, 34, 36, 37, 0, 0, 0, 0, 8, 0, 4, 0, 0, 0, 17, 21, 26, 27,
    28, 18, 24, 22, 38, 39, 40, 15, 7, 10, 11, 13, 16, 25, 23>>

yypgoto ==
  <<-39, -39, -39, -39, -11, -9, 38, -39, -39, 36, -38, 58, -20>>

yydefgoto ==
  <<-1, 1, 14, 15, 16, 17, 18, 19, 20, 45, 46, 21, 22>>

yytable ==
  <<41, 47, 33, 2, 37, 38, 3, 57, 4, 51, 5, 6, 7, 8, 9, 10, 11, 23, 57, 24, 47,
    25, 12, 13, 52, 58, 34, 35, 53, 54, 36, 37, 38, 3, 26, 4, 58, 5, 6, 7, 8,
    9, 10, 11, 30, 31, 32, 27, 28, 12, 13, 42, 43, 44, 29, 5, 6, 7, 8, 9, 10,
    11, 39, 48, 3, 49, 4, 12, 5, 6, 7, 8, 9, 10, 11, 50, 56, 55, 40, 0, 12>>

yycheck ==
  <<20, 21, 13, 0, 16, 17, 3, 45, 5, 21, 7, 8, 9, 10, 11, 12, 13, 3, 56, 3, 40,
    3, 19, 20, 35, 45, 14, 15, 37, 38, 18, 16, 17, 3, 3, 5, 56, 7, 8, 9, 10,
    11, 12, 13, 7, 8, 9, 3, 3, 19, 20, 3, 4, 5, 3, 7, 8, 9, 10, 11, 12, 13, 6,
    3, 3, 3, 5, 19, 7, 8, 9, 10, 11, 12, 13, 3, 40, 39, 20, -1, 19>>

yyr1 ==
  <<0, 22, 23, 23, 24, 24, 25, 25, 25, 26, 26, 26, 27, 27, 28, 28, 29, 29, 29,
    29, 30, 30, 31, 31, 31, 31, 32, 32, 32, 33, 33, 34, 34, 34, 34, 34, 34, 34,
    34, 34, 34>>

yyr2 ==
  <<0, 2, 0, 2, 2, 1, 1, 3, 2, 1, 3, 3, 1, 3, 1, 3, 3, 2, 2, 1, 1, 2, 1, 2, 1,
    2, 1, 1, 1, 1, 1, 2, 2, 2, 2, 2, 2, 2, 3, 3, 3>>

\* Entry i of a C array.
At(table, i) == table[i + 1]

\* yyn indexes the entry of yytable that belongs to state or token x.
Entry(yyn, x) == yyn \in 0..YYLAST /\ At(yycheck, yyn) = x

\* State s does not look at the next token.
IsDefault(s) == At(yypact, s) = YYPACT_NINF

\* Token t is shifted in state s; else s reduces by its default rule, rule 0 being a
\* syntax error.
Shifts(s, t) == ~ IsDefault(s) /\ Entry(At(yypact, s) + t, t)
ShiftTo(s, t) == At(yytable, At(yypact, s) + t)
DefaultRule(s) == At(yydefact, s)

\* The state after reducing by a rule, on top of state s.
Goto(s, rule) ==
  LET lhs == At(yyr1, rule) - YYNTOKENS
      yyi == At(yypgoto, lhs) + s
  IN  IF Entry(yyi, s) THEN At(yytable, yyi) ELSE At(yydefgoto, lhs)
=============================================================================
