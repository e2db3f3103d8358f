----------------------------- MODULE CommandLine -----------------------------
(***************************************************************************)
(* From a line to what runs: parse_and_execute takes the segments between   *)
(* the ";" one after another, yyparse builds a chain of commands of each    *)
(* (the actions of the grammar and expr.c), and execute_command_list walks  *)
(* the chain. One step is one token, one shift, one reduction or one        *)
(* command. The tokens are any that the lexer can return; a word is known   *)
(* by the place it has in its segment.                                      *)
(***************************************************************************)
EXTENDS LRTables, FiniteSets, SequencesExt

CONSTANTS
  MAX_REDIRECTS,
  Session         \* bounds: which tokens the lexer returns, and how many tokens a
                  \* segment has and segments there are

\* strtok_r leaves no ";" to the lexer.
Lexed == (1..YYNTOKENS - 1) \ {SEMICOLON}
ASSUME SessionAssumption ==
  Session \subseteq [tokens : SUBSET Lexed, length : Nat \ {0}, segments : Nat \ {0}]
ASSUME BoundAssumption == MAX_REDIRECTS \in Nat \ {0}

NULL == 0
YYEMPTY == -2
NoList == [head |-> NULL, tail |-> NULL]

VARIABLES
  session,
  cells,            \* the Command structures, in the order they were made
  freed,            \* those given back by free_command_list
  current_command, command_list,
  stack, yychar,    \* yyparse: states and values, and the lookahead token
  pc, cmd,          \* where parse_and_execute is; the command it is at
  result,
  segment,          \* number of the segment
  text,             \* history: the tokens of the segment
  fruitless,        \* history: the segments that gave no command: syntax error, empty
  ran               \* history: what was executed of the segment

heap == <<cells, current_command, command_list>>
yyparse == <<stack, yychar>>
history == <<segment, fruitless, ran>>
vars == <<session, heap, freed, yyparse, pc, cmd, result, text, history>>

NewCommand == [argv |-> <<>>, redirects |-> <<>>, next |-> NULL, and_next |-> FALSE,
               or_next |-> FALSE, pipline_next |-> FALSE, background |-> FALSE,
               is_subcommand |-> FALSE]
Word(pos) == [segment |-> segment, pos |-> pos]

\* The chain of commands that begins at c.
Chain(c) ==
  LET chain[n \in 0..Len(cells)] == IF n = NULL THEN <<>>
                                    ELSE <<n>> \o chain[cells[n].next]
  IN  chain[c]

\* execute_pipeline takes the commands up to the first that is not piped on.
Stages(c) ==
  LET stages[n \in 0..Len(cells)] ==
        IF n = NULL THEN <<>>
        ELSE <<n>> \o IF cells[n].pipline_next THEN stages[cells[n].next] ELSE <<>>
  IN  stages[c]

-----------------------------------------------------------------------------
Start == <<[state |-> 0, value |-> NULL]>>

Init ==
  /\ session \in Session
  /\ cells = <<>> /\ freed = {}
  /\ current_command = NULL /\ command_list = NoList
  /\ stack = Start /\ yychar = YYEMPTY
  /\ pc = "ready" /\ cmd = NULL /\ result = 0
  /\ segment = 0 /\ text = <<>>
  /\ fruitless = {} /\ ran = <<>>

\* Mutant: the list of the segment before stays.
SegmentKeepsList ==
  /\ pc = "ready"
  /\ segment < session.segments
  /\ segment' = segment + 1
  /\ text' = <<>> /\ ran' = <<>>
  /\ stack' = Start /\ yychar' = YYEMPTY
  /\ pc' = "parse"
  /\ UNCHANGED <<heap, freed, cmd, result, fruitless>>

\* The next segment, of the same line or of a new one: yyparse starts.
Segment ==
  /\ pc = "ready"
  /\ segment < session.segments
  /\ segment' = segment + 1
  /\ text' = <<>> /\ ran' = <<>>
  /\ command_list' = NoList
  /\ stack' = Start /\ yychar' = YYEMPTY
  /\ pc' = "parse"
  /\ UNCHANGED <<cells, freed, current_command, cmd, result, fruitless>>

-----------------------------------------------------------------------------
(* yyparse                                                                 *)

yystate == Last(stack).state
Parsing == pc = "parse" /\ yystate # YYFINAL
Decided == Parsing /\ (IsDefault(yystate) \/ yychar # YYEMPTY)
Shifting == yychar # YYEMPTY /\ Shifts(yystate, yychar)

\* yylex
Lex ==
  /\ Parsing
  /\ ~ IsDefault(yystate)
  /\ yychar = YYEMPTY
  /\ \/ \E t \in session.tokens : Len(text) < session.length /\ yychar' = t /\ text' = Append(text, t)
     \/ yychar' = EOF /\ UNCHANGED text
  /\ UNCHANGED <<heap, freed, stack, pc, cmd, result, history>>

Shift ==
  /\ Decided
  /\ Shifting
  /\ stack' = Append(stack, [state |-> ShiftTo(yystate, yychar), value |-> Len(text)])
  /\ yychar' = YYEMPTY
  /\ UNCHANGED <<heap, freed, pc, cmd, result, text, history>>

\* Mutant: the offending token is dropped and the parser goes on.
SyntaxErrorDropsToken ==
  /\ Decided
  /\ ~ Shifting
  /\ DefaultRule(yystate) = 0
  /\ yychar' = YYEMPTY
  /\ UNCHANGED <<heap, freed, stack, pc, cmd, result, text, history>>

\* The grammar has no error token: the first syntax error empties the stack. What
\* the actions have built so far stays.
SyntaxError ==
  /\ Decided
  /\ ~ Shifting
  /\ DefaultRule(yystate) = 0
  /\ result' = 1
  /\ fruitless' = fruitless \cup {segment}
  /\ stack' = Start /\ yychar' = YYEMPTY
  /\ pc' = "ready"
  /\ UNCHANGED <<heap, freed, cmd, text, segment, ran>>

\* The rule that state and lookahead ask for, and the value of its k-th symbol.
Rule == IF Decided /\ ~ Shifting THEN DefaultRule(yystate) ELSE 0
yyvsp(k) == stack[Len(stack) - At(yyr2, Rule) + k].value

Reduce(value) ==
  LET below == SubSeq(stack, 1, Len(stack) - At(yyr2, Rule))
  IN  stack' = Append(below, [state |-> Goto(Last(below).state, Rule), value |-> value])

DuringParse == UNCHANGED <<freed, yychar, pc, cmd, result, text, history>>

\* A rule without an action takes the value of its first symbol.
ReducePlain ==
  /\ Rule \in {2, 3, 4, 5, 12, 14, 20, 21, 22, 23, 24, 25}
  /\ Reduce(IF At(yyr2, Rule) = 0 THEN NULL ELSE yyvsp(1))
  /\ UNCHANGED heap
  /\ DuringParse

\* current_command, made if there is none, with another word or redirection.
Extended(f(_)) ==
  IF current_command = NULL
  THEN /\ cells' = Append(cells, f(NewCommand))
       /\ current_command' = Len(cells) + 1
  ELSE /\ cells' = [cells EXCEPT ![current_command] = f(@)]
       /\ UNCHANGED current_command

\* An argument or the command word. Quotes may hold nothing, which is no argument.
ReduceWord ==
  /\ Rule \in 26..30
  /\ LET add_argument(c) == [c EXCEPT !.argv = Append(@, Word(yyvsp(1)))]
     IN  \/ Extended(add_argument)
         \/ Rule = 27 /\ Extended(LAMBDA c : c)
  /\ Reduce(yyvsp(1))
  /\ UNCHANGED command_list
  /\ DuringParse

RedirectTypes ==
  CASE Rule \in {31, 38} -> <<"INPUT">>
    [] Rule = 32 -> <<"INPUT_DUP">>
    [] Rule \in {33, 39} -> <<"OUTPUT">>
    [] Rule = 34 -> <<"OUTPUT_DUP">>
    [] Rule \in {35, 40} -> <<"APPEND">>
    [] Rule = 36 -> <<"INPUT", "OUTPUT">>
    [] Rule = 37 -> <<"APPEND_DUP">>

\* add_redirect: what goes beyond MAX_REDIRECTS is left out, and nobody is told.
Fitting(redirects) ==
  SubSeq(redirects, 1, IF Len(redirects) < MAX_REDIRECTS THEN Len(redirects)
                       ELSE MAX_REDIRECTS)

ReduceRedirect ==
  /\ Rule \in 31..40
  /\ LET target == Word(yyvsp(At(yyr2, Rule)))
         added == [n \in DOMAIN RedirectTypes |->
                     [type |-> RedirectTypes[n], target |-> target]]
     IN  Extended(LAMBDA c : [c EXCEPT !.redirects = Fitting(@ \o added)])
  /\ Reduce(yyvsp(1))
  /\ UNCHANGED command_list
  /\ DuringParse

\* simple_command takes the command that its words were collected in.
ReduceSimpleCommand ==
  /\ Rule \in 16..19
  /\ Reduce(current_command)
  /\ current_command' = NULL
  /\ UNCHANGED <<cells, command_list>>
  /\ DuringParse

\* ( ... ): the list inside is dropped.
ReduceSubcommand ==
  /\ Rule = 15
  /\ cells' = Append(cells, [NewCommand EXCEPT !.is_subcommand = TRUE])
  /\ Reduce(Len(cells'))
  /\ UNCHANGED <<current_command, command_list>>
  /\ DuringParse

add_pipeline(first, last) ==
  cells' = [cells EXCEPT ![Last(Chain(first))].next = last,
                         ![Last(Chain(first))].pipline_next = TRUE]

ReducePipe ==
  /\ Rule = 13
  /\ add_pipeline(yyvsp(1), yyvsp(3))
  /\ Reduce(yyvsp(1))
  /\ UNCHANGED <<current_command, command_list>>
  /\ DuringParse

\* create_command_list and add_command
ReduceList ==
  /\ Rule = 9
  /\ Reduce([head |-> yyvsp(1), tail |-> yyvsp(1)])
  /\ UNCHANGED heap
  /\ DuringParse

\* Mutant: the two operators are taken for each other.
ReduceAndOrSwapped ==
  /\ Rule \in {10, 11}
  /\ LET list == yyvsp(1)
     IN  /\ cells' = [cells EXCEPT ![list.tail].and_next = @ \/ Rule = 11,
                                   ![list.tail].or_next = @ \/ Rule = 10,
                                   ![list.tail].next = yyvsp(3)]
         /\ Reduce([list EXCEPT !.tail = yyvsp(3)])
  /\ UNCHANGED <<current_command, command_list>>
  /\ DuringParse

\* && and ||: the new command follows the tail, which for a pipeline is the first
\* of its stages.
ReduceAndOr ==
  /\ Rule \in {10, 11}
  /\ LET list == yyvsp(1)
     IN  /\ cells' = [cells EXCEPT ![list.tail].and_next = @ \/ Rule = 10,
                                   ![list.tail].or_next = @ \/ Rule = 11,
                                   ![list.tail].next = yyvsp(3)]
         /\ Reduce([list EXCEPT !.tail = yyvsp(3)])
  /\ UNCHANGED <<current_command, command_list>>
  /\ DuringParse

Appended(dest, src) == [dest EXCEPT !.tail = src.tail]

\* append_command_list, for what follows an "&".
ReduceSequence ==
  /\ Rule = 6
  /\ IF command_list = NoList
     THEN command_list' = yyvsp(1) /\ UNCHANGED cells
     ELSE /\ cells' = [cells EXCEPT ![command_list.tail].next = yyvsp(1).head]
          /\ command_list' = Appended(command_list, yyvsp(1))
  /\ Reduce(yyvsp(1))
  /\ UNCHANGED current_command
  /\ DuringParse

ReduceBackground ==
  /\ Rule = 8
  /\ cells' = [cells EXCEPT ![command_list.tail].background = TRUE]
  /\ Reduce(yyvsp(1))
  /\ UNCHANGED <<current_command, command_list>>
  /\ DuringParse

Reduction ==
  \/ ReducePlain \/ ReduceWord \/ ReduceRedirect \/ ReduceSimpleCommand
  \/ ReduceSubcommand \/ ReducePipe \/ ReduceList \/ ReduceAndOr \/ ReduceSequence
  \/ ReduceBackground

-----------------------------------------------------------------------------
(* parse_and_execute and execute_command_list                              *)

Executed(stages, ok, background, title) ==
  ran' = Append(ran, [stages |-> stages, status |-> result', ok |-> ok,
                      background |-> background, title |-> title])

\* How "jobs" shows a command, and what it prints behind it.
command_to_string(c) ==
  [argv |-> c.argv, redirects |-> c.redirects, background |-> c.background]
Nothing == [argv |-> <<>>, redirects |-> <<>>, background |-> FALSE]
Separator(c) ==
  CASE c.next = NULL -> EOF
    [] c.next # NULL /\ c.and_next -> AND
    [] c.next # NULL /\ c.or_next /\ ~c.and_next -> OR
    [] OTHER -> PIPE

\* A command of which there is nothing to show leaves no text at all.
command_list_to_string(commands) ==
  LET shown == [n \in DOMAIN commands |-> command_to_string(commands[n])]
  IN  IF Nothing \in ToSet(shown) THEN <<>>
      ELSE [n \in DOMAIN commands |-> [command |-> shown[n], separator |-> Separator(commands[n])]]

DuringWalk ==
  UNCHANGED <<cells, current_command, freed, yyparse, text, segment, fruitless>>

\* yyparse has accepted; a list whose last command is marked is one background job,
\* any other is walked. Without a command there is nothing to execute, and a job
\* without a text is dropped silently.
Accept ==
  /\ pc = "parse"
  /\ yystate = YYFINAL
  /\ result' = 0
  /\ IF command_list = NoList
     THEN /\ pc' = "ready"
          /\ fruitless' = fruitless \cup {segment}
          /\ UNCHANGED <<cells, cmd, ran>>
     ELSE /\ cmd' = command_list.head
          /\ UNCHANGED fruitless
          /\ IF cells[command_list.tail].background
             THEN LET list == Chain(command_list.head)
                      title == command_list_to_string([n \in DOMAIN list |-> cells'[list[n]]])
                  IN  \E forked \in BOOLEAN :
                        /\ cells' = [cells EXCEPT ![command_list.tail].background = FALSE]
                        /\ title = <<>> => ~forked
                        /\ Executed(list, forked, TRUE, title)
                        /\ pc' = IF forked \/ title = <<>> THEN "free" ELSE "ready"
             ELSE pc' = "walk" /\ UNCHANGED <<cells, ran>>
  /\ UNCHANGED <<current_command, command_list, freed, yyparse, text, segment>>

\* What a command leaves in *result: an assignment leaves what was there.
ExitStatus == {0, 1, result}

\* execute_pipeline. What follows the pipeline is not asked for its condition.
ExecutePipeline ==
  /\ pc = "walk"
  /\ cmd # NULL
  /\ cells[cmd].pipline_next
  /\ \/ /\ result' \in {-1, 0, 1}
        /\ Executed(Stages(cmd), TRUE, FALSE, <<>>)
        /\ cmd' = cells[Last(Stages(cmd))].next
        /\ UNCHANGED pc
     \/ /\ UNCHANGED <<cmd, result>>                      \* pipe or fork failed
        /\ Executed(Stages(cmd), FALSE, FALSE, <<>>)
        /\ pc' = "ready"
  /\ UNCHANGED command_list
  /\ DuringWalk

StopsAt(c, status) ==
  \/ status # 0 /\ cells[c].and_next
  \/ status = 0 /\ cells[c].or_next

\* execute_command: a command without a word is an error.
ExecuteCommand ==
  /\ pc = "walk"
  /\ cmd # NULL
  /\ ~ cells[cmd].pipline_next
  /\ \/ /\ cells[cmd].argv # <<>>
        /\ result' \in ExitStatus
        /\ Executed(<<cmd>>, TRUE, FALSE, <<>>)
        /\ IF StopsAt(cmd, result')
           THEN pc' = "free" /\ UNCHANGED cmd
           ELSE cmd' = cells[cmd].next /\ UNCHANGED pc
     \/ /\ result' \in {-1, result}
        /\ Executed(<<cmd>>, FALSE, FALSE, <<>>)
        /\ pc' = "ready"
        /\ UNCHANGED cmd
  /\ UNCHANGED command_list
  /\ DuringWalk

EndOfList ==
  /\ pc = "walk"
  /\ cmd = NULL
  /\ pc' = "free"
  /\ UNCHANGED <<cmd, result, command_list, ran>>
  /\ DuringWalk

\* Mutant: command_list still points to the freed list.
FreeListKeeps ==
  /\ pc = "free"
  /\ freed' = freed \cup ToSet(Chain(command_list.head))
  /\ pc' = "ready"
  /\ UNCHANGED <<heap, yyparse, cmd, result, text, history>>

\* free_command_list; a list that ended in an error is not freed.
FreeList ==
  /\ pc = "free"
  /\ freed' = freed \cup ToSet(Chain(command_list.head))
  /\ command_list' = NoList
  /\ pc' = "ready"
  /\ UNCHANGED <<cells, current_command, yyparse, cmd, result, text, history>>

Execution == Accept \/ ExecutePipeline \/ ExecuteCommand \/ EndOfList \/ FreeList

Step == Lex \/ Shift \/ SyntaxError \/ Reduction \/ Execution

Next == (Segment \/ Step) /\ UNCHANGED session

\* The shell runs; when the next line comes is the user's choice.
Spec == Init /\ [][Next]_vars /\ WF_vars(Step /\ UNCHANGED session)

-----------------------------------------------------------------------------
Cell == 1..Len(cells)

TypeOK ==
  /\ \A c \in Cell : cells[c].next \in 0..Len(cells) /\ cells[c].next # c
  /\ freed \subseteq Cell
  /\ current_command \in 0..Len(cells)
  /\ command_list # NoList => {command_list.head, command_list.tail} \subseteq Cell
  /\ \A n \in DOMAIN stack : stack[n].state \in 0..Len(yypact) - 1
  /\ yychar \in session.tokens \cup {EOF, YYEMPTY}
  /\ pc \in {"ready", "parse", "walk", "free"}
  /\ cmd \in 0..Len(cells)
  /\ result \in {-1, 0, 1}
  /\ segment \in 0..session.segments
  /\ text \in Seq(session.tokens) /\ Len(text) <= session.length
  /\ fruitless \subseteq 1..segment
  /\ \A n \in DOMAIN ran : ToSet(ran[n].stages) \subseteq Cell

(* The line as it is written. Commands are numbered in the order of the text; *)
(* operator n stands between commands n and n + 1, or is an "&" at the end.   *)

Operators ==
  {n \in DOMAIN text : /\ text[n] \in {PIPE, AND, OR, AMPERSAND}
                       /\ ~ (n > 1 /\ text[n - 1] = AMPERSAND /\ text[n] = AMPERSAND)}
\* A line break is only in a line into which the user has quoted one.
OneLine == LINE_CHAGE \notin ToSet(text)
Flat == OneLine /\ ToSet(text) \cap {LPAREN, RPAREN} = {}

Targets(c) == {cells[c].redirects[n].target : n \in DOMAIN cells[c].redirects}
Words(c) == ToSet(cells[c].argv) \cup Targets(c)
OwnWords(c) == {w \in Words(c) : w.segment = segment}

Number(c) == 1 + Cardinality({n \in Operators : \E w \in OwnWords(c) : n < w.pos})
Operator(n) == text[CHOOSE p \in Operators : Cardinality({q \in Operators : q <= p}) = n]
Ampersand == text # <<>> /\ Last(text) = AMPERSAND
NumberOfCommands == 1 + Cardinality(Operators) - IF Ampersand THEN 1 ELSE 0

\* A condition that lets the command behind operator n run.
Allows(n, status) ==
  /\ Operator(n) = AND => status = 0
  /\ Operator(n) = OR => status # 0

\* A word that takes part in a segment was written in it, unless it was written in
\* one before, and that one and all since gave no command: what is left of a refused
\* line (current_command) ends up in the next command, and never later.
WordsOfTheSegment ==
  \A n \in DOMAIN ran : \A c \in ToSet(ran[n].stages) : \A w \in Words(c) :
    w.segment..segment - 1 \subseteq fruitless

\* A command has words from between two operators of the segment, in the order they were
\* written, behind what is left of a refused line.
WordsInOrder ==
  \A n \in DOMAIN ran : \A c \in ToSet(ran[n].stages) :
    /\ \A v, w \in OwnWords(c) : \A p \in v.pos..w.pos : p \notin Operators
    /\ \A i, j \in DOMAIN cells[c].argv :
         i < j /\ cells[c].argv[j].segment = segment =>
           cells[c].argv[i].segment < segment \/ cells[c].argv[i].pos < cells[c].argv[j].pos

\* A command has all the words that were written for it, and all its redirections as far
\* as there is room for them.
CommandsAsWritten ==
  \A n \in DOMAIN ran : \A c \in ToSet(ran[n].stages) :
    Flat /\ Len(cells[c].redirects) < MAX_REDIRECTS =>
      \A p \in DOMAIN text :
        /\ text[p] = WORD
        /\ \E w \in OwnWords(c) : \A o \in Operators : o < p <=> o < w.pos
        => Word(p) \in Words(c)

\* Commands run in the order they are written, none is passed over, and each runs
\* only if the operator before it allows that with the status of the one before. The
\* walk ends at the last command of the text, or behind a command whose status the
\* next operator does not allow, and then all the rest is given up, as in a && b || c.
\* The exceptions are the code's: the stages of a pipeline may have others between
\* them, what comes after a pipeline runs whatever its status, and add_command
\* unlinks stages.
ConditionsDecide ==
  Flat =>
    /\ \A n \in DOMAIN ran :
         LET stages == ran[n].stages
         IN  /\ Number(Head(stages)) = IF n = 1 THEN 1 ELSE Number(Last(ran[n - 1].stages)) + 1
             /\ n > 1 /\ Len(ran[n - 1].stages) = 1 =>
                  Allows(Number(Head(stages)) - 1, ran[n - 1].status)
             /\ \A i, j \in DOMAIN stages : i < j => Number(stages[i]) < Number(stages[j])
    /\ pc = "free" =>
         \E n \in {Number(Last(Last(ran).stages))} :
           n = NumberOfCommands \/ (Len(Last(ran).stages) = 1 /\ ~ Allows(n, Last(ran).status))

\* A pipeline that nothing follows runs whole, as many stages as are written.
PipelinesAreWhole ==
  Flat =>
    \A n \in DOMAIN ran :
      LET first == Number(Head(ran[n].stages))
      IN  (\A o \in first..NumberOfCommands - 1 : Operator(o) = PIPE) =>
            Len(ran[n].stages) = NumberOfCommands - first + 1

\* A segment is put in the background if its last token is "&", as one job with all
\* that the segment runs; an "&" before the end does nothing.
LastTokenIsBackground ==
  OneLine => \A n \in DOMAIN ran : ran[n].background <=> Ampersand

\* The text of a job has the operators of the segment where they were written: an
\* "&" before the end stays in it and has a "|" behind it. (Where add_command has
\* unlinked a stage, the text lacks it too.)
TitlesAsWritten ==
  Flat =>
    \A n \in DOMAIN ran :
      LET title == ran[n].title
      IN  Len(title) = NumberOfCommands =>
            \A k \in DOMAIN title :
              IF k = Len(title) THEN title[k].separator = EOF /\ ~title[k].command.background
              ELSE /\ title[k].command.background = (Operator(k) = AMPERSAND)
                   /\ title[k].separator = IF Operator(k) = AMPERSAND THEN PIPE ELSE Operator(k)

\* What runs is of the line, whatever lines were refused before: the words of its commands,
\* none left out, none out of order, and the background.
CommandsOfTheLine ==
  /\ WordsOfTheSegment
  /\ WordsInOrder
  /\ CommandsAsWritten
  /\ LastTokenIsBackground

\* What runs is what the line says: the commands in the order and under the conditions that
\* are written, the stages of a pipeline, and what jobs shows of it.
LinesAsWritten ==
  /\ ConditionsDecide
  /\ PipelinesAreWhole
  /\ TitlesAsWritten

\* No structure that was freed is in use, and each is freed in one list only.
FreedIsUnused ==
  /\ TypeOK
  /\ current_command \notin freed
  /\ command_list # NoList => ToSet(Chain(command_list.head)) \cap freed = {}

\* Every segment comes to an end: the parser accepts it or refuses it, the walk ends.
SegmentEnds == pc # "ready" ~> pc = "ready"
=============================================================================
