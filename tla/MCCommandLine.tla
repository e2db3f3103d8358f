---------------------------- MODULE MCCommandLine ----------------------------
(* Tokens of every kind in short segments (> and >> stand in the tables wherever  *)
(* < does, and the operators with & wherever <> does); those that the nesting of  *)
(* the grammar is about in longer ones; words with the operators between commands *)
(* in still longer ones; and redirections, which a syntax error can leave half    *)
(* done, in several segments.                                                     *)
EXTENDS Grammar

OfEveryKind == {WORD, QUOTED_STRING, PARAM_EXPANSION, PIPE, LESS, LESSGREAT,
                AMPERSAND, AND, OR, IO_NUMBER, LPAREN, RPAREN}
OfNesting == {WORD, PIPE, LESS, AMPERSAND, IO_NUMBER, LPAREN, RPAREN}
OfLists == {WORD, PIPE, AND, OR, AMPERSAND}
OfRedirections == {WORD, GREATER, AND}

MCSession ==
  {[tokens |-> OfEveryKind, length |-> 5, segments |-> 1],
   [tokens |-> OfNesting, length |-> 6, segments |-> 1],
   [tokens |-> OfLists, length |-> 8, segments |-> 1],
   [tokens |-> OfRedirections, length |-> 4, segments |-> 2],
   [tokens |-> OfRedirections, length |-> 3, segments |-> 3]}
=============================================================================
