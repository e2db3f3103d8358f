--------------------------- MODULE VariableTable ---------------------------
(***************************************************************************)
(* The shell's variables: the table of variable.c, the assignments of       *)
(* execute.c, the built-ins set, export, readonly, declare, unset and       *)
(* printf -v, the expansion ${name:=value}, and the environment the shell   *)
(* gives its children. A pointer to a variable is an index of the table: it *)
(* keeps its number when the entries below it move. A command with several  *)
(* names is a command per name. A step the C language gives no meaning to   *)
(* sets undefined, and nothing is said of what follows.                     *)
(***************************************************************************)
EXTENDS Integers, Sequences, FiniteSets, SequencesExt

CONSTANTS
  Name, Text,          \* names of variables, and texts
  Empty,               \* the text ""
  Kind,                \* parse_variable_type
  Printed,             \* by type: va_value_to_string of string_to_va_value
  Default,             \* by type: the value of a new variable
  Uppercase, Lowercase,  \* rstring__upper, rstring__lower
  Overflowing,         \* the numerals too large for a long long
  Refused,             \* the maps string_to_va_value gives up, and frees
  Leftover,            \* how the bytes of another type print as a number
  INITIAL_TABLE_SIZE,
  NotSet,              \* not in the environment
  Session              \* bounds: the texts commands are given, the sets of options
                       \* declare is given, and how many commands are run

Type == {"string", "integer", "nameref", "array", "map"}
ValueType == Type \ {"nameref"}
Flag == {"readonly", "exported", "uppercase", "lowercase"}
Option == Flag \union {"a", "A", "i", "n"}

ASSUME TextAssumption ==
  Name \subseteq Text /\ IsFiniteSet(Name) /\ Empty \in Text /\ NotSet \notin Text
ASSUME ConversionAssumption ==
  /\ Kind \in [Text -> ValueType]
  /\ Printed \in [ValueType -> [Text -> Text]]
  /\ Default \in [Type -> Text]
  /\ Uppercase \in [Text -> Text] /\ Lowercase \in [Text -> Text]
  /\ Overflowing \subseteq {v \in Text : Kind[v] = "integer"}
  /\ Refused \subseteq {v \in Text : Kind[v] = "map"}
  /\ Leftover \in Text
ASSUME SessionAssumption ==
  Session \subseteq [values : SUBSET Text, options : SUBSET SUBSET Option, commands : Nat]
ASSUME SizeAssumption == INITIAL_TABLE_SIZE \in Nat \ {0}

Variable == [name : Name, type : Type, data : Text, str : Text, flags : SUBSET Flag]
Memory ==
  [variables : Seq(Variable), capacity : Nat \ {0}, environment : [Name -> Text \union {NotSet}],
   undefined : BOOLEAN,      \* a step without meaning was taken
   behind : SUBSET Name]     \* history: names whose environment an unpublished
                             \* change of the value, or a second entry, left behind

VARIABLES
  session,
  memory,       \* variable_table and the environment
  status,       \* whether the last command reported success
  commands      \* commands run so far

vars == <<session, memory, status, commands>>

Init ==
  /\ session \in Session
  /\ memory = [variables |-> <<>>, capacity |-> INITIAL_TABLE_SIZE,
               environment |-> [n \in Name |-> NotSet], undefined |-> FALSE, behind |-> {}]
  /\ status = "ok"
  /\ commands = 0

-----------------------------------------------------------------------------
(* Looking up. 0 is NULL.                                                  *)

First(m, n) == LET Named(e) == e.name = n IN SelectInSeq(m.variables, Named)

\* get_variable, from name to name along the namerefs in at most as many steps: -1 on
\* a cycle, where it and resolve_nameref call each other without end, each level
\* counting its own depth.
Find(m) ==
  LET find[steps \in 0..Cardinality(Name) + 1] ==
        [name \in Name |->
           LET i == First(m, name)
           IN IF steps = 0 THEN -1
              ELSE IF i # 0 /\ m.variables[i].type = "nameref"
                   THEN find[steps - 1][m.variables[i].data]
              ELSE i]
  IN find
get_variable(m, n) == Find(m)[Cardinality(Name) + 1][n]

Endless(m, n) == get_variable(m, n) = -1

IsReadonly(m, i) == "readonly" \in m.variables[i].flags

-----------------------------------------------------------------------------
(* The functions of variable.c, from memory to memory.                     *)

Undefined(m) == [m EXCEPT !.undefined = TRUE]

Write(m, i, v) == [m EXCEPT !.variables = [@ EXCEPT ![i] = v]]

Marked(m, i, flags, unset) ==
  Write(m, i, [m.variables[i] EXCEPT !.flags = IF unset THEN @ \ flags ELSE @ \union flags])

\* The environment falls behind if entry i, about to change, is exported.
LeaveBehind(m, i) ==
  IF "exported" \in m.variables[i].flags
  THEN [m EXCEPT !.behind = @ \union {m.variables[i].name}] ELSE m

ensure_capacity(m) == IF Len(m.variables) >= m.capacity THEN 2 * m.capacity ELSE m.capacity

create_new_variable(m, n, type) ==
  LET created(i) ==
        CASE i = -1 -> Undefined(m)
          [] i > 0 -> m
          [] i = 0 ->
               [m EXCEPT
                 !.variables = Append(@, [name |-> n, type |-> type, data |-> Default[type],
                                          str |-> Empty, flags |-> {}]),
                 !.capacity = ensure_capacity(m),
                 !.behind = IF First(m, n) = 0 THEN @ ELSE @ \union {n}]
  IN created(get_variable(m, n))

\* Where the variable is that create_new_variable returns.
Slot(m, n) ==
  LET slot(i) == IF i > 0 THEN i ELSE Len(m.variables) + 1 IN slot(get_variable(m, n))

Shown(v) == IF v.type = "nameref" THEN Empty ELSE v.data

\* Mutant: setenv does not overwrite.
process_exported_variable_once(m, i) ==
  LET v == m.variables[i]
  IN IF "exported" \notin v.flags \/ m.environment[v.name] # NotSet THEN m
     ELSE [m EXCEPT !.environment = [@ EXCEPT ![v.name] = Shown(v)]]

process_exported_variable(m, i) ==
  LET v == m.variables[i]
  IN IF "exported" \notin v.flags THEN m
     ELSE [m EXCEPT !.environment = [@ EXCEPT ![v.name] = Shown(v)],
                    !.behind = IF \A j \in DOMAIN m.variables : m.variables[j].name = v.name => j = i
                               THEN @ \ {v.name} ELSE @]

unset_variable(m, n) ==
  LET unset(i) == IF i = 0 \/ IsReadonly(m, i) THEN m
                  ELSE [m EXCEPT !.variables = RemoveAt(@, i)]
  IN unset(First(m, n))

\* What both parsers do first: the old variable goes, its flags with it.
Cleared(m, n) == IF get_variable(m, n) > 0 THEN unset_variable(m, n) ELSE m

\* The rest of a parser: a value of one type is freed and another one put there.
\* On a variable of another type the free reads the wrong member of the union; a
\* map that is given up leaves the variable a freed one.
Refill(m, n, type, text) ==
  LET filled(c, i) ==
        IF c.undefined \/ c.variables[i].type # type \/ text \in Refused THEN Undefined(c)
        ELSE Write(LeaveBehind(c, i), i, [c.variables[i] EXCEPT !.data = Printed[type][text]])
  IN filled(create_new_variable(m, n, type), Slot(m, n))

\* Mutant: the flag of the entry is asked, not the one of what it refers to.
Refuses_unresolved(m, n) == \E i \in DOMAIN m.variables : i = First(m, n) /\ IsReadonly(m, i)

Refuses(m, n) == \E i \in DOMAIN m.variables : i = get_variable(m, n) /\ IsReadonly(m, i)

parse_and_set_array(m, n, v) ==
  IF v = Empty \/ Refuses(m, n) THEN m
  ELSE IF Kind[v] # "array" THEN Cleared(m, n)
  ELSE Refill(Cleared(m, n), n, "array", v)

parse_and_set_associative_array(m, n, v) ==
  IF v = Empty \/ Refuses(m, n) THEN m
  ELSE IF Kind[v] # "map" THEN create_new_variable(Cleared(m, n), n, "map")
  ELSE Refill(Cleared(m, n), n, "map", v)

\* process_string_variable.
Cased(flags, text) ==
  IF "uppercase" \in flags THEN Uppercase[text]
  ELSE IF "lowercase" \in flags THEN Lowercase[text] ELSE text

Stored(e, type, v) ==
  CASE type = "string" ->
         [e EXCEPT !.type = type, !.str = Printed[type][v], !.data = Cased(e.flags, Printed[type][v])]
    [] type = "integer" /\ v \notin Overflowing ->
         [e EXCEPT !.type = type, !.str = v, !.data = Printed[type][v]]
    [] type = "integer" /\ v \in Overflowing ->
         [e EXCEPT !.type = type, !.str = v,
                   !.data = CASE e.type = "integer" -> @
                              [] e.type = "array" -> Default["integer"]
                              [] OTHER -> Leftover]
    [] type = "array" -> [e EXCEPT !.str = v, !.data = Default[type]]

\* Mutant: the result of the conversion is not looked at.
SetFails_unread(m, n, v, type) == Refuses(m, n)

\* set_variable returns NULL.
SetFails(m, n, v, type) == Refuses(m, n) \/ (type = "integer" /\ v \in Overflowing)

\* A map is freed once here and once more by the parser. An array is parsed after
\* its entry has been emptied, and var stays where that entry was.
set_variable(m, n, v, type, readonly) ==
  LET finished(s, p, i) ==
        CASE p.undefined -> p
          [] ~p.undefined /\ i > Len(p.variables) ->
               IF "exported" \in s.variables[i].flags THEN Undefined(p) ELSE p
          [] OTHER ->
               process_exported_variable(
                 IF readonly THEN Marked(p, i, {"readonly"}, FALSE) ELSE p, i)
      parsed(s, i) ==
        finished(s, IF type = "array" THEN parse_and_set_array(s, n, v) ELSE s, i)
      stored(c, s, i) ==
        CASE ~SetFails(m, n, v, type) -> parsed(s, i)
          [] SetFails(m, n, v, type) /\ c.variables[i].type = "integer" -> s
          [] OTHER -> LeaveBehind(s, i)
      created(c, i) ==
        IF type = "map" \/ (type = "array" /\ c.variables[i].type # "array") THEN Undefined(m)
        ELSE stored(c, Write(IF type = "array" THEN LeaveBehind(c, i) ELSE c, i,
                             Stored(c.variables[i], type, v)), i)
  IN IF Endless(m, n) THEN Undefined(m)
     ELSE IF Refuses(m, n) THEN m
     ELSE created(create_new_variable(m, n, type), Slot(m, n))

-----------------------------------------------------------------------------
(* The commands. m is the memory afterwards.                               *)

Command(n, m, ok) ==
  /\ commands' = commands + 1
  /\ memory' = IF Endless(memory, n) THEN Undefined(memory) ELSE m
  /\ status' = IF ok THEN "ok" ELSE "failed"

\* execute_command on name=value. The parsers return nothing: what they refuse
\* is reported as done.
Assign(n, v) ==
  LET type == Kind[v]
  IN CASE type = "array" -> Command(n, parse_and_set_array(memory, n, v), TRUE)
       [] type = "map" -> Command(n, parse_and_set_associative_array(memory, n, v), TRUE)
       [] OTHER -> Command(n, set_variable(memory, n, v, type, FALSE),
                           ~SetFails(memory, n, v, type))

\* name[key]=value: array_set_element, set_associative_array_variable. Which
\* element and what is put there is abstracted: any value of the type results.
AssignElement(n) ==
  \E i \in {get_variable(memory, n)} :
    IF i > 0 /\ memory.variables[i].type \in {"array", "map"}
    THEN \E d \in {Printed[Kind[t]][t] : t \in {u \in Text \ Refused : Kind[u] = memory.variables[i].type}} :
           Command(n, Write(LeaveBehind(memory, i), i, [memory.variables[i] EXCEPT !.data = d]), TRUE)
    ELSE Command(n, memory, FALSE)

builtin_set(n, v) == Command(n, set_variable(memory, n, v, Kind[v], FALSE), TRUE)

printf_v(n, v) == Command(n, set_variable(memory, n, v, "string", FALSE), TRUE)

\* ${name:=value}: the result of set_variable is used without a look at NULL.
\* The expansion ends at the first brace, a map cannot be written in it.
AssignDefault(n, v) ==
  /\ Kind[v] # "map"
  /\ Command(n,
       IF \E i \in DOMAIN memory.variables :
            i = get_variable(memory, n) /\ memory.variables[i].str # Empty THEN memory
       ELSE IF SetFails(memory, n, v, Kind[v]) THEN Undefined(memory)
       ELSE set_variable(memory, n, v, Kind[v], FALSE),
       TRUE)

\* export [-n] name=value
ExportValue(n, v, remove) ==
  IF Refuses(memory, n) THEN Command(n, memory, FALSE)
  ELSE \E i \in {Slot(memory, n)}, s \in {set_variable(memory, n, v, "string", FALSE)} :
         Command(n, process_exported_variable(
                      IF remove THEN s ELSE Marked(s, i, {"exported"}, FALSE), i), TRUE)

\* export [-n] name
ExportName(n, remove) ==
  \E i \in {get_variable(memory, n)} :
    CASE i > 0 ->
           Command(n, process_exported_variable(Marked(memory, i, {"exported"}, remove), i), TRUE)
      [] i <= 0 /\ remove -> Command(n, memory, TRUE)
      [] i <= 0 /\ ~remove ->
           \E s \in {set_variable(memory, n, Empty, "string", FALSE)} :
             Command(n, process_exported_variable(
                          Marked(s, Len(s.variables), {"exported"}, FALSE), Len(s.variables)), TRUE)

\* readonly name[=value]; kind is "array" under -a, "map" under -A. Of a variable
\* that exists only the string changes, not the value.
builtin_readonly(n, v, kind) ==
  LET type == IF v = Empty THEN kind ELSE Kind[v]
      text == IF v = Empty THEN Default[type] ELSE v
  IN \E i \in {get_variable(memory, n)} :
       CASE i > 0 /\ v = Empty -> Command(n, Marked(memory, i, {"readonly"}, FALSE), TRUE)
         [] i > 0 /\ v # Empty ->
              IF IsReadonly(memory, i) \/ memory.variables[i].type # type
              THEN Command(n, memory, FALSE)
              ELSE \E e \in {memory.variables[i]} :
                     Command(n, Write(memory, i,
                       [e EXCEPT !.str = v, !.flags = @ \union {"readonly"}]), TRUE)
         [] i <= 0 ->
              IF kind # "string" /\ type # kind
              THEN Command(n, memory, FALSE)
              ELSE Command(n, set_variable(memory, n, text, type, TRUE),
                           ~SetFails(memory, n, text, type))

\* unset name. VarFlag_Referece is never set, so -n changes nothing.
builtin_unset(n) ==
  IF get_variable(memory, n) = 0 \/ Refuses(memory, n)
  THEN Command(n, memory, FALSE)
  ELSE Command(n, unset_variable(memory, n), TRUE)

-----------------------------------------------------------------------------
(* declare [-aAilnrux] [+lrux] name[=value]                                *)

DeclaredType(options, v) ==
  CASE "n" \in options -> "nameref"
    [] "n" \notin options /\ "A" \in options -> "map"
    [] options \intersect {"n", "A"} = {} /\ "a" \in options -> "array"
    [] options \intersect {"n", "A", "a"} = {} /\ options \intersect {"uppercase", "lowercase"} # {} -> "string"
    [] options \intersect {"n", "A", "a", "uppercase", "lowercase"} = {} /\ "i" \in options -> "integer"
    [] OTHER -> IF v = Empty THEN "string" ELSE Kind[v]

\* declare -n: the name goes where the variable keeps a string, whatever it keeps,
\* readonly or not; the variable it names is made.
Refer(m, i, v) ==
  LET e == m.variables[i]
      referring(s) ==
        IF e.type \in {"array", "map"} \/ Endless(s, v) THEN Undefined(s)
        ELSE IF get_variable(s, v) = 0 THEN set_variable(s, v, Empty, "string", FALSE)
        ELSE s
  IN referring(Write(LeaveBehind(m, i), i,
                 [e EXCEPT !.data = IF e.type = "integer" THEN Leftover ELSE v]))

\* var is the pointer from before the value was set. It is no longer valid when
\* the table has grown since; when the entry was removed it is the one that moved
\* into its place, or the place behind the last one, where only reading the value,
\* for the environment, has no meaning.
Mark(before, m, i, flags, unset) ==
  CASE m.undefined \/ flags = {} -> m
    [] ~m.undefined /\ flags # {} /\ m.capacity # before.capacity -> Undefined(m)
    [] ~m.undefined /\ flags # {} /\ m.capacity = before.capacity /\ i > Len(m.variables) ->
         IF "exported" \in flags /\ ~unset THEN Undefined(m) ELSE m
    [] OTHER ->
         LET published(s) == IF "exported" \in flags THEN process_exported_variable(s, i) ELSE s
         IN published(Marked(m, i, flags, unset))

\* What -n is given is a name, and no other value is; + is for the flags.
builtin_declare(n, v, options, unset) ==
  LET type == DeclaredType(options, v)
      given(c, i) ==
        CASE v = Empty -> c
          [] v # Empty /\ type = "nameref" -> Refer(c, i, v)
          [] v # Empty /\ type = "array" -> parse_and_set_array(c, n, v)
          [] v # Empty /\ type = "map" -> parse_and_set_associative_array(c, n, v)
          [] OTHER -> set_variable(c, n, v, type, FALSE)
  IN /\ "n" \in options => v \in Name \union {Empty}
     /\ v \in Name => "n" \in options
     /\ unset => options \intersect Flag # {}
     /\ IF type = "nameref" /\ v = Empty THEN Command(n, memory, FALSE)
        ELSE \E i \in {Slot(memory, n)}, c \in {create_new_variable(memory, n, type)} :
               IF type = "integer" /\ v # Empty /\ Kind[v] # "integer" THEN Command(n, c, FALSE)
               ELSE Command(n, Mark(c, given(c, i), i, options \intersect Flag, unset), TRUE)

OneName(n) ==
  \/ AssignElement(n)
  \/ builtin_unset(n)
  \/ \E remove \in BOOLEAN : ExportName(n, remove)
  \/ \E v \in session.values :
       \/ Assign(n, v)
       \/ builtin_set(n, v)
       \/ printf_v(n, v)
       \/ AssignDefault(n, v)
       \/ \E remove \in BOOLEAN : ExportValue(n, v, remove)
       \/ \E kind \in {"string", "array", "map"} : builtin_readonly(n, v, kind)

Next ==
  /\ ~memory.undefined
  /\ commands < session.commands
  /\ UNCHANGED session
  /\ \E n \in Name :
       \/ OneName(n)
       \/ \E v \in session.values \union Name, options \in session.options, unset \in BOOLEAN :
            builtin_declare(n, v, options, unset)

Spec == Init /\ [][Next]_vars

-----------------------------------------------------------------------------
(* Properties                                                              *)

\* The shape of the state; the table never holds more than its capacity, and a
\* nameref names a name.
TypeOK ==
  /\ memory \in Memory
  /\ Len(memory.variables) <= memory.capacity
  /\ \A i \in DOMAIN memory.variables :
       memory.variables[i].type = "nameref" => memory.variables[i].data \in Name
  /\ status \in {"ok", "failed"}
  /\ commands \in 0..session.commands

\* A command that may change a readonly variable: an element is assigned, -n puts
\* a name into it, or +r takes the flag away.
Overrides ==
  \E n \in Name :
    \/ AssignElement(n)
    \/ \E v \in session.values \union Name, options \in session.options, unset \in BOOLEAN :
         /\ "n" \in options \/ (unset /\ "readonly" \in options)
         /\ builtin_declare(n, v, options, unset)

\* A command about a name that the table holds twice: a command on a nameref to
\* nothing makes another entry of its name.
Doubled(n) == \E i, j \in DOMAIN memory.variables :
  i # j /\ memory.variables[i].name = n /\ memory.variables[j].name = n
OnDoubled ==
  \E n \in Name :
    /\ Doubled(n)
    /\ \/ OneName(n)
       \/ \E v \in session.values \union Name, options \in session.options, unset \in BOOLEAN :
            builtin_declare(n, v, options, unset)

\* Entry i is readonly after the step, and what it was.
StaysReadonly(i) ==
  \E j \in DOMAIN memory'.variables :
    /\ IsReadonly(memory', j)
    /\ \A f \in {"name", "type", "data", "str"} :
         memory'.variables[j][f] = memory.variables[i][f]

\* A readonly variable is neither removed nor changed nor made writable by any other
\* command, under any of its names.
ReadonlyKept ==
  [][\/ \A i \in DOMAIN memory.variables : IsReadonly(memory, i) => StaysReadonly(i)
     \/ Overrides
     \/ OnDoubled]_vars

\* What a child finds in the environment under the name of an exported variable
\* is its value. (Behind: after an element was assigned, declare -n, a numeral that
\* overflowed, an array assigned through a nameref, a hidden second entry.)
ExportedIsInEnvironment ==
  /\ TypeOK
  /\ ~memory.undefined =>
       \A n \in Name \ memory.behind :
         (First(memory, n) # 0 /\ "exported" \in memory.variables[First(memory, n)].flags)
           => memory.environment[n] = Shown(memory.variables[First(memory, n)])

\* What set_variable accepts, for an assignment or a built-in, is what the name
\* gives next, unless the name is a nameref to nothing.
AcceptedIsRead ==
  ~memory.undefined =>
    \A n \in Name, v \in session.values :
      LET m == set_variable(memory, n, v, Kind[v], FALSE)
          i == get_variable(m, n)
      IN \/ Kind[v] \in {"array", "map"} \/ Endless(memory, n)
         \/ SetFails(memory, n, v, Kind[v])
         \/ First(memory, n) # 0 /\ get_variable(memory, n) = 0
         \/ /\ ~m.undefined /\ i > 0
            /\ m.variables[i].type = Kind[v]
            /\ m.variables[i].data = IF Kind[v] = "string" THEN Cased(m.variables[i].flags, Printed[Kind[v]][v])
                                     ELSE Printed[Kind[v]][v]

\* help.c: "-r  Declare a readonly variable". Here: the array declare -ar is given.
DeclaredIsReadonly ==
  [][\A n \in Name, v \in session.values, options \in session.options :
       (/\ {"a", "readonly"} \subseteq options /\ DeclaredType(options, v) = "array"
        /\ Kind[v] = "array" /\ get_variable(memory, n) = First(memory, n)
        /\ status' = "ok" /\ ~memory'.undefined
        /\ builtin_declare(n, v, options, FALSE))
       => LET i == get_variable(memory', n)
          IN i > 0 /\ IsReadonly(memory', i)]_vars
=============================================================================
