------------------------------- MODULE Grammar -------------------------------
(***************************************************************************)
(* The grammar that the tables were made of, as a predicate on sequences of *)
(* tokens, and the claim that the table-driven parser accepts the same.     *)
(***************************************************************************)
EXTENDS CommandLine

Part(s, from, to) == SubSeq(s, from, to)
RedirectOperator == {LESS, GREATER, DGREATER, LESSAND, GREATAND, LESSGREAT, DGREATAND}

\* io_redirect; a number is only for three of the operators.
IsRedirect(s) ==
  \/ Len(s) = 2 /\ s[1] \in RedirectOperator /\ s[2] = WORD
  \/ Len(s) = 3 /\ s[1] = IO_NUMBER /\ s[2] \in {LESS, GREATER, DGREATER} /\ s[3] = WORD

\* Any number of redirections and of tokens of the set given, in any order.
RECURSIVE IsMixOf(_, _)
IsMixOf(args, s) ==
  \/ s = <<>>
  \/ s[1] \in args /\ IsMixOf(args, Tail(s))
  \/ \E n \in 2..3 : n <= Len(s) /\ IsRedirect(Part(s, 1, n))
                     /\ IsMixOf(args, Part(s, n + 1, Len(s)))

IsSimpleCommand(s) ==
  \E n \in 1..Len(s) :
    /\ IsMixOf({}, Part(s, 1, n - 1))
    /\ s[n] \in {WORD, PARAM_EXPANSION}
    /\ IsMixOf({WORD, QUOTED_STRING, PARAM_EXPANSION}, Part(s, n + 1, Len(s)))

\* and_or_list: commands between the operators; a command in parentheses is a list.
RECURSIVE IsList(_)
IsList(s) ==
  \/ IsSimpleCommand(s)
  \/ Len(s) > 2 /\ s[1] = LPAREN /\ Last(s) = RPAREN /\ IsList(Part(s, 2, Len(s) - 1))
  \/ \E n \in DOMAIN s :
       /\ s[n] \in {PIPE, AND, OR}
       /\ IsList(Part(s, 1, n - 1)) /\ IsList(Part(s, n + 1, Len(s)))

\* Lists, each with any number of "&" behind it, also none: echo (ls) is two lists.
RECURSIVE IsInput(_)
IsInput(s) ==
  \/ s = <<>>
  \/ \E n \in DOMAIN s : \E more \in n..Len(s) :
       /\ IsList(Part(s, 1, n))
       /\ ToSet(Part(s, n + 1, more)) \subseteq {AMPERSAND}
       /\ IsInput(Part(s, more + 1, Len(s)))

\* yyparse accepts a segment exactly if the grammar derives it: an accepted text is a
\* sentence, and the text read up to a syntax error is not. (LINE_CHAGE is left out:
\* only a quoted line break brings one.)
AcceptsGrammar ==
  /\ pc \in {"walk", "free"} => IsInput(text)
  /\ pc = "parse" /\ yystate = YYFINAL => IsInput(text)
  /\ pc = "ready" /\ segment \in fruitless => text = <<>> \/ ~ IsInput(text)
=============================================================================
