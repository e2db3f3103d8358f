# A TLA+ model of rickshell

rickshell is an interactive shell in C: one process that reads a line with the
readline it carries, parses it, runs built-ins itself and other commands in
children, and keeps a table of background jobs, typed variables and a history
file. This directory specifies it in TLA+, checks the specifications with TLC on
small instances and proves the main properties of job control, pipelines, the command
structures that the parser builds, the hash map, the variables, the history and its
file, and the terminal with TLAPS for all instances.

Paths below are relative to the repository (`src/`).

## 1. The system

| component | state | operations | with whom it interacts |
|---|---|---|---|
| main loop (`main.c`, `init.c`) | `keep_running`, `last_status`, `last_cmd` | `print_job_status`, read a line, `process_command`, `save_history`; SIGINT handler | everything; the handler runs between any two instructions |
| lexer (`lex.yy.c`) | the segment and a place in it | the next token | fed by `strtok_r` in `execute.c`, asked by the parser |
| parser (`parser.tab.c`) | parser stack, lookahead, the globals `command_list` and `current_command` | `yyparse` and its semantic actions | fills the structures of `expr.c` |
| command structures (`expr.c`) | linked `Command`s, `CommandList` | create, add a word or redirection, link, free | the parser builds them, execution walks and frees them |
| execution (`execute.c`) | `*result`, the position in the list | `parse_and_execute`, `execute_command_list`, `execute_command` | forks, built-ins, variables |
| pipelines (`pipeline.c`) | pipes, the error pipe, the last pid, the status | fork the stages, wait for the last, wait for all, read the errors | the kernel's children, also those of the job table |
| redirections (`redirect.c`) | descriptors of a child | open and dup in order | the stages of a pipeline, between fork and exec |
| job control (`job.c`) | list of jobs with id, process group, command line | `add_job`, `remove_job`, `execute_background_job`, `print_job_status` | the kernel's children |
| hash map (`map.c`) | buckets, capacity, size | insert (and grow), get, remove (and close the gap) | associative arrays, help, command lookup |
| variables (`variable.c`, `declare`, `export`, `readonly`, `set`, `unset`) | table of typed variables with flags, namerefs | set, get, unset, expand, parse and print values | environment, every command's words |
| history (`init.c`, `history` built-in, `histfile.c`) | list, file, `last_cmd`, `do_not_save_history` | load, save, clear, delete, read, append, write, store | the file is shared with other shells |
| line editor (`lib/readline`: `text.c`, `kill.c`, `undo.c`, `misc.c`, `search.c`, `isearch.c`, `histsearch.c`, `complete.c`, `vi_mode.c`) | the line, point and mark, undo records, kill ring, history position, search and completion state | one command per key sequence | the history, whose entries it edits and restores |
| key bindings (`bind.c`, `keymaps.c`, `readline.c`, `macro.c`, `input.c`) | keymaps, variables, input queue, macros, argument | read the init file, bind, dispatch a key sequence | decides which command runs |
| terminal and signals (`rltty.c`, `signals.c`) | settings, handlers, the caught signal | prepare and give back the terminal, handle a signal | kernel, main loop, searches |
| log (`log.c`) | file, size, backups | write, rotate | file system |
| data (`string.c`, `array.c`, `strconv.c`, `unicode.c`, `memory.c`) | buffers | grow, convert | everything |

Hard in this code are: the children, which end, stop and are interrupted while
three different wait calls collect them; process ids that are used again; pipes,
which end only when the last holder lets go; the parser's globals, which outlive
a syntax error; a command chain that several routines link and cut; failures in
the middle of an operation (no memory, no process, no descriptor, a short
write); files that other shells write too; undo records that the line and
history entries share; key sequences that begin one another, with timeouts and
macros that give keys back; and signals in the middle of handing the terminal
over. There is one thread; the map's mutex is never contended.

What makes each part correct:

- job control: an id names one job; every background child is listed and every
  entry has its child behind it; what is reported as done is what ended; the
  foreground wait is for a child that is there and is the command's own; Ctrl-C
  spares the jobs; the shell comes back whenever its children end.
- pipelines: a pipe is held by the two stages it joins; the shell's descriptors
  come back; what the stages complain of is shown; the pipeline returns.
- map: it is a dictionary, all calls end.
- from text to commands: the scanner takes the longest match, the parser accepts
  the grammar, expansion loses nothing and ends, the commands of a line run in
  their order, under the conditions written between them, with the words written
  for them; structures that were freed are not used.
- variables: a readonly variable keeps its value, the flags mean what they say,
  what is accepted is read back, children are given what is exported.
- history: the list and the file together hold every command once, in order; a
  crash loses at most the newest; the file is always a whole list.
- line editor: undo gives back the line as it was and never uses a freed record;
  consecutive kills are one slot of the ring, in the order of the text; the line
  being typed survives every walk and every search that is given up.
- bindings: what runs is the longest sequence bound, also after the file is read
  again; macros come to an end.
- terminal: whoever gets control has his own settings and handlers; a signal
  taken is not lost.

`PROJECT.json` lists the components with what is modelled of each, and the
hazards with the properties that cover them.

## 2. Modules

| module | what it is |
|---|---|
| `JobControl` | the shell process, its children, the job table and the three ways to run a command |
| `JobControlProofs` | the TLAPS proofs about it |
| `Descriptors` | the descriptors of the shell and of the stages of its pipelines: `execute_pipeline`, the error pipe, `handle_redirection` |
| `DescriptorsProofs` | the TLAPS proofs about it |
| `Dictionary` | what callers of the map rely on (abstract) |
| `HashMap` | `map.c`, one loop turn per step; implements `Dictionary` |
| `HashMapProofs` | the TLAPS proofs about it, the refinement included |
| `Texts` | what is used of `string.c`: finding, replacing, trimming |
| `Lexer` | flex's tables and `yylex` |
| `Words` | from the characters of a line to the arguments of its commands: segments, tokens, every branch of `expand_variables`; extends `Lexer` |
| `LRTables` | the tables of `parser.tab.c` and the two questions `yyparse` asks of them |
| `CommandLine` | `yyparse`, the semantic actions, `expr.c`, `parse_and_execute`, `execute_command_list` |
| `CommandLineProofs` | the TLAPS proofs about it |
| `Grammar` | the grammar as a predicate on token sequences: the reference for the tables |
| `Values` | what a text means as a value, and how a value is written back |
| `VariableTable` | the variable table, the commands that change it, and the environment |
| `VariableTableProofs` | the TLAPS proofs about it |
| `History` | the history list, the file, `last_cmd` and the `history` built-in, in several shells |
| `HistoryProofs` | the TLAPS proofs about it |
| `AtomicFile` | what `History` assumes of the file (abstract) |
| `HistoryFile` | `histfile.c`, one system call per step; implements `AtomicFile` |
| `HistoryFileProofs` | the TLAPS proof that it does |
| `LineEditing` | the line, its undo records and the primitive changes (`undo.c`, `text.c`) |
| `Keymaps` | which command a key runs (`emacs_keymap.c`, `vi_keymap.c`) |
| `TextCommands` | the commands of `text.c` and `kill.c` |
| `HistoryCommands` | the history while a line is edited, and the three kinds of searches |
| `Completion` | `complete.c`, and tilde expansion |
| `ViMode` | `vi_mode.c` |
| `NamedCommands` | `M-x` |
| `Editor` | `readline()` called line after line; the properties of editing |
| `KeyBindings` | keymaps and the init file (`bind.c`, `keymaps.c`) |
| `KeyDispatch` | from the keys typed to the commands run: `_rl_dispatch`, timeouts, macros, arguments |
| `Typing` | what init files and typing mean, apart from how readline does it: the reference for the two above |
| `Terminal` | the terminal and the signals while a line is read |
| `TerminalProofs` | the TLAPS proofs about it |
| `MC...` | constants for TLC |

They build on one another like this:

    Texts <- Lexer <- Words                    LRTables <- CommandLine <- Grammar
    Texts <- Values <- MCVariableTable         Dictionary <= HashMap
    AtomicFile <= HistoryFile                  KeyBindings <- KeyDispatch <- Typing
    LineEditing, Keymaps <- TextCommands <- HistoryCommands <- Completion
                 <- ViMode <- NamedCommands <- Editor

(`<-` is EXTENDS or INSTANCE, `<=` a refinement.) Between the groups the interface
is a choice: `JobControl` takes any command for the line read, `CommandLine` any
sequence of tokens the lexer can return, `History` each file operation as one
step (`HistoryFile` shows that it may).

Operators whose comment begins with "Mutant" or "A bug to check the properties
against" are faulty variants of the definition below them; no specification uses
them. Each property is checked to fail when the definition it depends on is
replaced by such a variant.

### JobControl

`job_list` is the chain from `first_job`, as a sequence; an entry's command line
is the number of the command that started it. `proc` is the kernel's table of the
shell's children: free, running, stopped or zombie, with process group, wait
status and (for the properties) the command it was started by. `pc` is where the
shell is: in `print_job_status`, at the prompt, behind a command, in the wait of
`execute_command`, in the fork loop and the two waits of `execute_pipeline`, at
the end of an iteration. `result` is `*result`, which is `last_status`.

The actions are the code's steps between points where a child's state can make a
difference: each wait call, each fork, each job looked at is a step of its own,
and the children's steps (`ChildEnds`, `ChildStops`, `ChildContinues`) and
Ctrl-C (`Interrupt`) interleave with all of them. A background child leads its
own process group; both parent and child call `setpgid`, so the group is set
before either goes on, and `Background` is one step. Which children of the
foreground group a Ctrl-C kills is open (a program may catch it). The command
itself is abstract: what a line contains is a free choice of `Refused`,
`Builtin`, `Exit`, `Background`, `Foreground` and `Pipeline`, and which of them a
text leads to is the subject of `CommandLine`.

`stolen` is a history variable: `wait(&status)` of a pipeline has collected a
child that leads a group, i.e. a background job. From then on the table has an
entry with nobody behind it; its process id may be used again, and then
`print_job_status` takes the later child for the earlier job. `EntriesFollow-
Children` and `DoneNamesItsJob` hold exactly until that moment;
`BackgroundChildIsListed` holds always, the others as well. `exit n` stores n
in `last_status`, where `execute_command` at once puts the built-in's own 0: the
shell never ends with n (`help.c:61` says it does).

### Descriptors

`fds` are the shell's descriptors, `child[c].fds` those of stage c: closed, the
terminal, a file or an end of a pipe. The shell's steps are the calls of
`execute_pipeline` (`pipe`, `fork`, the closings, the waits, reading the error
pipe); a stage's steps are the dups and closings before exec, one redirection
after the other, and then the program, which is external: it reads its input to
the end, writes, may stop early, and is ended by a pipe nobody reads. `pipe` and
`fork` may fail at every call, a file may not open, the descriptor of a
redirection may not be open, exec may fail. `content` is what a pipe holds, up
to `Capacity`; writing to a full pipe waits.

`<&` and `>&` take any number (`redirect.c:67`), also one that is not the stage's own:
with `>&4` a program writes into the error pipe, with `<&3` it reads it, and after a
failure a number may name what the shell has left open. `far` marks such a stage, and the
properties say exactly what it may reach. `complaints`, `shown` and `taken` count the
messages put into the error pipe, those the shell has shown and those such a stage has
read.

What the model shows: once `pipe` or `fork` has failed, `prev_fd` (after a fork
also `pipefd`) stays open; a later child inherits it, and a writer whose reader
is only the shell itself waits for ever, as does the next pipeline, which waits
for every child. The error pipe is read only after the waits: stages that
complain more than it holds block the pipeline.

### HashMap

One call at a time (the mutex), one step per turn of a loop: `Rehash` (one bucket
of `resize_map`), `Probe` (the loop of the three operations), `Shift` (the loop
of `map_remove`). `hash` is chosen at the start, any function into `HashValue`:
wyhash is external, and the properties must not depend on it. Failing memory is a
disjunct wherever the code asks for memory. The free place `Rehash` finds is
stated by what it is (the first unoccupied bucket from home on). A failed overwrite
leaves `Freed` behind; `map_get` then copies from freed memory, and another
overwrite or removal frees it again (`DoubleFree`). `Dictionary` states the same
in terms of keys and values only, and `ImplementsDictionary` is the refinement:
the dictionary holds the entries of all occupied buckets, leaving out the gap
while `map_remove` is closing it.

### Texts, Lexer, Words, Values

A text is a sequence of characters. `Lexer` has flex's tables and the matching loop
of `yylex` with its back-up; `Rules` states directly which rules of the scanner fit
a text, and `LongestMatch` compares the two on every text that comes up. The scanner's
source `lexer.l` is not in the repository: the rules are those the comments and
actions of `lex.yy.c` show, so the comparison ties the tables to the actions.

In `Words` a line is cut at every `;` as `strtok_r` does, scanned, and each word is
expanded. `frames` are the calls of `expand_variables` (an index is expanded by a
call of its own); the loops that replace and remove are steps of their own,
because some of them never end. `MaxLength` bounds the text such a loop makes
longer; what passes it has gone round often enough to show that it repeats.

`Values` is `parse_variable_type`, `string_to_va_value` and `va_value_to_string`.
`MCWords` computes the values of its variables with it, and the tables that
`MCVariableTable` gives `VariableTable` for `Kind` and `Printed` are compared with it
(`MeaningAssumption`). `ElementsAreRead` and `PairsAreRead` in `MCWords` compare it, on
whole sets of literals, with the elements and pairs the literals were made from.

What the models show of the code:

- `${x/a/aa}` never returns and `${x//}` neither; `${x/p}` drops what the word has
  expanded before; `${!p*}` cuts off a blank; `${x:?message}` always prints
  "ERROR: "; `$a text[0]` takes the index behind the blank; `$a[${y:=1}]` goes on
  with a pointer into a table that may have moved; `$?` is always 0;
- the character behind `$(` is skipped; `(` is never a token, so that subcommands
  cannot be written; `2>f` is a syntax error;
- an unquoted element of `(ab c)` is one character, and takes the character behind it
  along; in a map one character behind each value is swallowed, so that
  `{[a]=1 [b]=2}` is refused while a second blank makes it valid; a refused map is
  freed and kept; an array with an element that does not end is empty; `("a b")` is
  printed as `(a b)`;
- `rlltos` returns the address of a local (`strconv.c:172`). In the build of the
  Makefile the text is still intact when `va_value_to_string` reads it, and this is
  the outcome modelled.

### LRTables, CommandLine, Grammar

`CommandLine` interprets the tables as `yyparse` does: `Lex`, `Shift`, one action
per group of grammar rules, `SyntaxError`. The semantic values are places in the
text, commands (places in `cells`) or lists. `cells[c].next` is the link that
`add_command`, `add_pipeline` and `append_command_list` set and the execution
follows; `freed` are the structures given back. The tokens are chosen freely (more
sequences than the lexer can return), and a word is known by its segment and its
place, which is all the properties need. Only `;` is no token (`Lexed`): `strtok_r` has
cut the line there, quoted or not. The walk (`Accept` to `FreeList`) is
`parse_and_execute` and `execute_command_list`, with every status a command can
leave. `text`, `fruitless` and `ran` are history variables. `session` says which
tokens the user has and how many: one run asks all the questions. Some properties are
about lines without line breaks (`OneLine`), which are tokens only where the user has
quoted one, or also without parentheses (`Flat`), as the parser drops the list in them.

`Grammar` gives the language independently of the tables, and `AcceptsGrammar`
compares: every accepted text is a sentence, every refused one is not.

What the model shows of the code (stated as the exceptions in the properties'
comments):

- `a | b && c` runs `a | c`: `add_command` links `c` behind `a`, the tail;
- what follows a pipeline runs whatever its status;
- the first unsatisfied `&&` or `||` ends the list: `false && b || c` runs no `c`;
- `a & b` runs `a` in the foreground: only an `&` at the end counts, and then the
  text of the job joins all commands by `|`: `a & b &` is listed as `a & | b`;
- a background job without a text (`"" &`) is dropped without a word;
- a list in parentheses is dropped, and its command is invalid;
- the words of a line with a syntax error end up in the next command;
- redirections beyond `MAX_REDIRECTS` are dropped;
- `exit n; b` runs `b`, and the shell ends with the status of the last command,
  never with `n`;
- a built-in that fails with -1 (`cd`, `unset`) is then run as a program.

### VariableTable

`memory` is `variable_table` with the environment; a pointer to a variable is an
index of the table, so that a pointer kept over a removal is the index of the
neighbour, and one kept over a growth is no longer valid. The functions of
`variable.c` are operators from memory to memory, the commands are actions:
assignments and element assignments (`execute.c`), `set`, `export`, `readonly`,
`declare`, `unset`, `printf -v` and `${name:=value}`. `get_variable` follows namerefs
and is -1 on a cycle of them. A step without meaning in C (a cycle of namerefs, which
recurses without end; a value of one type freed as another; a write through a pointer
into the old table; the NULL of a refused `${name:=value}`; the use of a map that was
given up half read) sets `undefined` and ends the behaviour: the properties speak of
the steps up to there, and of no state behind it. The history `behind` collects the
names whose environment an unpublished change of the value, or a hidden second entry,
has left behind.

`ReadonlyKept` says of every step that each readonly entry is after it an entry that is
readonly, with the same name, type, value and string, unless the command is one of those
the code does not guard (`Overrides`: an element is assigned, `declare -n`, `declare
+r`) or names something the table holds twice (`OnDoubled`). With two entries of a name
nothing of the kind is true: the parsers look the name up again after they have removed
the first entry (`variable.c:191`, `variable.c:199`), and do not ask what they then find
for its flag. The second entry can lead to a readonly array, by a third name.

What the model shows of the code:

- `declare -ar x=(1)` on a variable that is not the last of the table marks the one
  that moves into its place (`DeclaredIsReadonly`);
- `declare -n` on a variable that exists makes no reference: it overwrites the
  variable's string, readonly or not; elements of readonly arrays can be assigned;
- `readonly x=v` on an existing `x` changes what `${x}` gives, not what `$x` gives;
- an assignment through a nameref to nothing adds a hidden entry each time; it is
  found when the nameref is removed, and a readonly array it leads to is then
  overwritten by an assignment (`variable.c:201`) that the code means to refuse;
- `set a=(1)` on a nameref to an array empties that array and replaces the nameref;
- the array parsers drop the flags of the variable, return nothing, and what they
  refuse is reported as done; `readonly -A` and `set m={}` free a map twice;
- `unset` and `export -n` leave the environment as it is.

### History

Each shell has its `list` (readline's), `last_cmd`, `do_not_save_history`, the
`line` it reads and the command `next` in it; the files are shared, and
`HISTFILE` says which one the built-in uses, while loading and saving always use
the default. A line is a sequence of commands, what is recorded of it is the
first: `parse_and_execute` has cut the text there. Saving is two steps, as in
`save_history`: `WriteSave` replaces the file (by a renamed copy, so at once),
`Add` puts the line into the list. `End` is possible between any two steps: end
of input, `exit` and a kill leave the same behind. Every write may fail. The
steps of different shells interleave freely. Two history variables give the
properties their exact exceptions: `current`, the shells whose list only
`save_history` has changed since the default file held it, and `disturbed`, the
shells whose list was cleared or read into since `last_cmd` was set.

What the model shows: the newest command is never on file; two shells overwrite
each other's lines; `history -d` accepts 0 and refuses the newest entry (an
off-by-one that `LastCmdIsNewest` happens to depend on: with the newest entry
removable, `last_cmd` would have to be set again); after a repeated `history -c`
or `-n`, `last_cmd` names a line that is no longer the newest, and repeating it is
not recorded; `-r` clears the list first, where its help says "append", and `-n`
reads every line again, where its help says "not already read".

### HistoryFile, AtomicFile

`text` are the files there are or were, `dir` which of them has which name, and a
shell has a call in progress with the file it has open: a step is one system call
(open, read, write, rename, ...), any may fail, a write may fall short, and a shell
may be killed between two. A file that was replaced lives on for whoever has it open.
`AtomicFile` says what `History` relies on: the file is replaced by a whole list or
extended by one, in one step, and what is read are lines that users entered.

What the model shows, and leaves out of the promise: a short write (a full disk) is
not noticed, `history_do_write` returns 0 (`histfile.c:258` says "Returns 0 if
successful") and renames the truncated copy over the file; lines appended while
another shell renames go into the replaced file and are lost; a file whose first
line is `#` and a digit is read as one with time stamps, and all such lines vanish;
a last line without its end is dropped; a temporary file stays behind after a kill.
Two shells that create the file at the same moment truncate it for each other: one
shell creates it here. A shell is its process id, and its copy has the last five digits
of the id for a name (`histfile.c:240`): two shells that overwrite the file at once
under ids equal modulo 100000 write one copy, and the file may become neither list.
That is `clash`, which like a full disk (`full`) ends the promise; neither is followed
further, no call begins after it. A shell that was killed may be replaced by another
one, under any free id. The branches for `HAVE_READLINK`, `HAVE_CHOWN` and mmap are
not in this build.

### The line editor

`Editor` has one variable `rl`, a record of the editor's C globals, and the modules
below it are operators from an editor to an editor: one per command, named as in the
C code. The state `undo`/`node` is the linked list of undo records, shared by index, as
the C code shares them by pointer; `kill` is `_rl_last_command_was_kill`;
`hist`, `pos` and `saved` are the history while a line is edited. Commands that read
more keys (searches, `C-q`, `C-]`, vi's motions, bracketed paste, `M-x`, the
question before a long listing) take them from `input`, what the user typed at once.
An action is one command: `readline_internal_char` with `rl_dispatch`, then what
follows it in the loop; a finished line is saved by the shell, and the next is begun.

`session` chooses what the user has typed before, the keys he uses and how many of
them, and the variables of the init file. A character stands for a byte or a whole
multibyte character. `MergeLimit` is the 20 insertions `rl_insert_text` merges into
one undo record.

`added`, `begun` and `left` are history variables of the properties.

What the model shows of the code (the properties' comments name the exceptions):

- `rl_maybe_replace_line` takes a line for unchanged when a character was merged into
  the record at the head of the entry's list: `C-p b C-p C-n b C-n` loses the
  second `b`;
- searches through `C-r C-g`, `C-p`, `n` and `N` cut off an edited entry's undo list;
  `M-p RET` with no earlier string loses the line; a failed incremental search
  leaves a stale index; vi's `/` drops the line being typed when it succeeds;
- a kill after an insertion that was typed ahead, or after `C-g`, is appended to the
  one before; a kill of nothing still counts as a kill;
- menu completion with skip-completed-text swallows the text behind the cursor
  (`complete.c:2690` says the original text is restored); file names with blanks are
  inserted unquoted; completion-map-case can shorten what was typed; the first
  branch of `rl_tilde_expand` is dead;
- `R` starts one character too far; `.` repeats only what one undo record merged;
  `M-C-j` and then `.` accepts the line;
- `M-x` with `C-g` at the question of a listing leaves the typed name as the line,
  loses the saved line and leaves the mark beyond the end;
- at the end of the input the main loop spins (`main.c:53`).

### KeyBindings, KeyDispatch, Typing

A record `b` holds the keymaps, each from keys to functions, macros or keymaps, with
`ANYOTHERKEY` for what a longer sequence shadows. `KeyBindings` has an operator for
what each line of an init file does and one for reading the file, with conditions
and included files. `KeyDispatch` is the loop of `readline_internal_charloop`:
`_rl_dispatch_subseq` down the keymaps, the timeout (a `PAUSE` in the input),
`_rl_subseq_result` back up, giving keys back to the macro or the input, macros
inside macros, `C-x ( ) e`, arguments. Commands that only change the line are noted
in `ran`. The tty's special characters are rebound at the beginning of each line, as
`rltty_set_default_bindings` does.

`Typing` says what a file and the keys mean without keymaps: a set of sequences,
the last line for a sequence wins, the longest sequence typed runs. The property
`LongestBindingRuns` compares the commands that ran with it whenever the input has
been read. `home` is a user: his files, the phrases he types and how many.

Reading a file again is not without effect, and the run has users who see it: a file
that unbinds `"ba"` and then binds `"baa"`, or unbinds `"\e["`, which the arrow keys
begin with, leaves a null function there the second time; in vi's movement mode the
lines before the first `set` bind in that map. `LongestBindingRuns` says that what runs
then is still what the lines mean, read in that order over what was bound before.

`KeysAreRead` says that readline comes to wait for the next key. It does not when a
macro is asked for a key back that it has not given (`astray`): the keys of an inner
macro may begin a sequence that keys of the outer one do not complete, the inner one
has ended by then, and `_rl_prev_macro_key` takes the outer one back to the key that
called it, for ever. The property names this case and the user `Crossing` meets it.

What the model shows, and what the users of the run therefore do not do:

- `typeahead`: a Meta key typed ahead of an inserted character is inserted though
  convert-meta is on;
- unbinding restores one level only, and a function name that is not known unbinds;
  `prefix-meta` read a second time makes the meta keymap what it shadows itself;
- the old style `M-[: f` replaces a keymap that the quoted style would keep;
- a missing `$endif` is not noticed (the stack of conditions is never reset);
  `$include` of itself recurses without a limit; `$if isearch-terminators == x`
  compares NULL;
- an abort inside a shadowed function leaves the keymap entry replaced
  (`readline.c:1149`);
- keyboard macros are not "the characters typed into the macro" (`rluser.texi:1736`):
  keys typed ahead, read by searches or by vi's commands, and later digits of an
  argument are missing, capital Meta keys and keys given back are recorded twice,
  the expansion of a macro is recorded too, `M-2 3 C-x )` strips a key too many,
  `M-0 C-x )` loses the macro, `C-x e` while recording removes one of its two keys;
- keyseq-timeout does not apply to a sequence that ends a macro, and an argument
  before a macro is lost;
- in a UTF-8 locale `"\M-x"` binds the key with the eighth bit.

### Terminal

What is still to do is a stack of calls (`todo`): a step takes the first and puts in
its place what it calls, so that a signal handled anywhere makes calls of its own on
top. `mode` are the settings of the terminal, `handler`, `mask` and `pending` the
kernel's view of the process, `rl` the globals of `rltty.c` and `signals.c`. `Arrive` and
`Deliver` bring a signal at any step, `Hangup` takes the terminal away. `Select` is
pselect: the shell waits for a key there.

`astray` is set when a signal has come in one of the windows the code leaves, which
the properties exclude by name: one handled in the release at the end of
`rl_deprep_terminal` leaves the terminal raw while the command runs; a TERM or TSTP
with its default action between the change of the settings in `rl_prep_terminal` and
`rl_set_signals` ends or stops the shell with a raw terminal; and a stop between the
question for the settings (`rltty.c:611`) and their change (`rltty.c:655`) leaves a
stale `otio`, which is given back at the end of the line although the user has made
other settings meanwhile. `rl_prep_terminal` is three steps for that (`Prep`,
`PrepRaw`, `PrepFlag`): `_rl_block_sigint` blocks nothing, it sets a flag. Also shown: `signals.c:282` unblocks with the old mask, so
that TTOU stays blocked; `_rl_caught_signal` has room for one signal; a signal
between the check and pselect is looked at only after the next key, which the comment
at `input.c:846` denies; a SIGINT during an incremental search frees the context the
key is then stored in (`run` becomes "undefined"); after Ctrl-C the partial line is
kept and executed at RET, where `rltech.texi` says it is aborted.

## 3. Runs

| run | question | instance | why it is enough |
|---|---|---|---|
| `jobs` | does the table stay true to the children, do waits end, are jobs reported? | 3 process ids, 3 commands, 2 stages | a job and a whole pipeline at once, a process id that is used again while a stale entry has it, an id list that empties and fills |
| `descriptors` | who holds which end of a pipe, does the pipeline return? | up to 3 stages and 4 forks, 9 descriptors, pipes of one message, 6 lists of redirections (none, two of files and `>&2`, `>&4` and `<&3`, which are the error pipe, `<&5`, which is left open after a failure), programs that write 0 or 2 messages | a middle stage with a pipe on each side, pipes that fill, stages that write into the error pipe and read it, a second pipeline after a failed one |
| `hashmap` | is the map a dictionary? | 3 keys, every hash function into {0, 3, 7} | the table grows 2, 4, 8; all keys may collide, and probes and gaps wrap around at each size |
| `words` | is the longest token taken, is nothing lost in expansion, does it end? | about 45 words, unquoted and quoted, and some lines; loops up to 8 characters | every operation of `${...}` with values where it does something, nothing, and is empty; each loop that repeats does so within 8 characters |
| `command_lines` | do the tables accept the grammar; what runs, in which order, with which words? | sessions with 12 kinds of tokens up to 5, nesting up to 6, words and operators up to 8, redirections 4 tokens in 2 segments and 3 in 3; 2 redirections | every kind of command alone and combined; four commands between three operators, an `&` anywhere; an error, an empty segment, and a command after it. The operators left out stand in the tables wherever `<` or `<>` does |
| `variables` | is what is accepted read back, given to children, and kept when readonly? | 2 symmetric names, 7 values of every type, 9 sets of options, 3 commands; and arrays and namerefs with 5 commands; a table of 1 | every pair of commands before every third; references made, left without a variable, hidden entries made and found again take 5; the table grows at the second variable |
| `variables_declare` | does `declare -ar` mark its variable? | as `variables` | expected violation: the finding of `PROJECT.json` |
| `history` | do list, file and `last_cmd` stay together? | 2 symmetric shells, 2 files, 3 lines of 1 or 2 commands, all options, files absent or with 2 lines | a line of one shell between two of the other, or three of one; a kill and a restart between any two steps |
| `history_file` | is the file replaced at once? | 1 or 2 shells with process ids 7, 8 and 100007, 2 lines (one looks like a time stamp), 2 entered, 3 calls, 1 kill | a read, a write and an append overlapping in every way; two ids with the same five digits and two without; a killed shell replaced by a new one |
| `editor` | does undo give back, do kills come back, does the line survive? | sessions of kills (4 steps), history (5), reverting (6), every emacs command (2), named commands (3), vi (2 and 4), completion with every setting (3); 2 slots in the ring, 2 merged insertions | a command that leaves state, one that uses it, one that undoes it, and the keys between; a full ring; a merged and a full undo record |
| `bindings` | does the longest binding run, do macros end? | 13 users, up to 4 phrases, an edit, pauses anywhere, 40 commands | sequences three keys deep bound in every order, macros in macros and across their ends, conditions and included files, files that bind otherwise when they are read again, both editing modes |
| `terminal` | who has the terminal and the handlers, are signals lost? | 2 settings, 2 signals (one may be a hangup), HUP and TSTP may be ignored from the start | a signal while another is handled, at every step of two lines and a command |

The bounds are constants or fields of the sessions: `MaxCommands`, `MaxStages`,
`MaxForks`, `MaxEntered`, `MaxCalls`, `MaxKills`, `MaxSignals`, `MaxRan`, `MaxLength`,
and in `CommandLine`, `VariableTable`, `Editor` and `KeyDispatch` the numbers of a
session or home. They are guards of the user's, the kernel's or the program's own
choice to begin (a command is entered, a stage is asked for, a signal arrives); the
exceptions are `MaxLength` and `MaxRan`, which stop loops that go on for ever.
`CHECK_DEADLOCK FALSE` is set where the system stops: the shell has exited, the
user's bound is reached, or a step was undefined.

### Fairness

The user, the children's ends, stops and signals are never fair, except where said.

- `JobControl`: weak fairness of `ShellStep`, the steps the shell takes alone. The
  shell is one running process, so it takes an enabled step some time. `ShellReturns`
  and `EndedJobIsReported` carry what they need of others as hypotheses (children do
  not run or stay stopped for ever; the user comes back to the prompt). A child that
  stays stopped does keep a wait from ending: the code's foreground and pipeline
  waits have no WUNTRACED.
- `HashMap`, `CommandLine`, `Words`: weak fairness of the steps of a call, a segment or
  a replacement that has begun; beginning another is the user's choice. `ReplacingEnds`
  has as its hypothesis that each turn brings the end nearer, which the endless
  expansions do not satisfy.
- `Descriptors`: weak fairness of the shell and of the programs: a program that can
  read, write or end does so. A program that runs for ever would keep any shell
  waiting.
- `Terminal`: weak fairness of the program's steps and of the delivery of a signal
  that is pending and not blocked; not of the user.
- `KeyDispatch`: weak fairness of the loop over the keys that are there. It is written
  out as `[]<>Waits \/ []<><<readline_internal_charloop>>_vars`, which is WF with
  ENABLED replaced by the loop's guard.

## 4. Proofs

The theorems hold for every value of the constants that the named assumptions of the
modules allow: any sets of names, keys, shells, texts and signals, and any bounds. No
theorem has a further hypothesis. Each module proves an inductive invariant
(`Invariance`), and the properties follow from it.

`JobControlProofs` proves, for all sets of process ids, statuses and bounds (the
assumptions are those named in `JobControl`: the shell's group is no child's id,
statuses are numbers, the bounds are numbers):

- `WaitedChildIsOurs` and `EntriesFollowChildren`, which the run `jobs` checks, as
  `ForegroundWaitIsSound` and `TableFollowsChildren`;
- `DoneIsRight` and `JobsSurviveCtrlC`: the action properties `DoneNamesItsJob` and
  `InterruptSparesJobs` of the same run;
- `TypeCorrect`, `JobIdsAreUnique` and `NoBackgroundChildIsLost`: that the state is
  typed, ids ascend, and every background child is listed. As they are proved, no run
  repeats them.

The inductive invariant is `IInv`: the five together with `OwnGroups` (a child is
in the shell's group or leads its own). The parts need each other.
`WaitedChildIsOurs` is kept by `print_job_status` because it collects only group
leaders, and a job's group is a child's id (the type of an entry) and never the
shell's. `EntriesFollowChildren` is kept by `Background` because a fork takes a
free id, which no entry has (each entry's child exists), and by the foreground
waits because theirs is not a leader. `BackgroundChildIsListed` is kept by
`remove_job` because the child collected is the entry's own leader: by
`OwnGroups`, whoever has group p and is no foreground child is p itself. Ids
ascend by induction over `Append` and `RemoveAt`, whose effect on a sequence is
stated in lemmas. Each action has a step, grouped where actions disturb nothing.

`HistoryProofs` proves type correctness and all three properties of the run
`history`, for any number of shells, files, programs and lines (`TypeCorrect`,
`CrashLosesTheNewest`, `RepetitionsAreRecognised`, `LinesAreSaved`). Its `IInv` has one
part per shell for each: where it is in the line (the line is there when its head is
used), what the flag says of the commands already executed (`FlagIsOfTheLine`; the
property needs it only at the end of the line, the induction at every command),
`last_cmd` at every point of the line, and the file, which has nothing missing between
`WriteSave` and `Add`. `OthersKeep` shows that a step touches one shell's memory
only, and `FileOrOwner` what it may do to the file all shells share: a shell is
current only as long as nobody else has written.

`JobsSurviveCtrlC` needs more than `IInv`: that the entry of a job is older than the
children forked after it (`EntriesAreOlder`), so that a group a Ctrl-C reaches is not
the one of an entry in the table, even when a process id has been used again.

`HashMapProofs` proves `TableCanBeSearched` (`WellFormed`: one bucket per key, the size
counts them, half of the table is free, and between a key's home and its bucket nothing
is free) and `AnswersAsADictionary`, the refinement `ImplementsDictionary`, for any keys,
values and hash function, and tables that grow without a bound. Places in the table are
compared by their distance behind a home, modulo the capacity, which turns the walk
around the end of the table into an order. To the property the invariant adds what each
loop has done so far: the probe has passed other keys only, the new table holds just
what was moved and is itself well formed, the entries behind a gap that is closing do
not need it to be found. That an insertion finds a free bucket is counted: fewer than
half are taken. The steps inside a call stutter in `Dictionary`, and the last step of
each call is the dictionary's.

`TerminalProofs` proves `TerminalComesBack` and `KeysFindReadline` (`TerminalGivenBack`,
`ReadyAtTheKey`) for any number of signals handled at any depth. What is still to do is
a stack of calls, so the invariant `Sound` says what the call on top needs of the terminal
and the handlers, and, of any two neighbours of the stack (`Link`), which call may wait
for which: the one that returns leaves what the next one needs. In the middle of
`rl_prep_terminal` the settings remembered are the user's because the shell has not
been stopped since they were asked for, and the terminal is raw before the flag says so
(`Between`). The invariant holds until a signal has come in one of the three windows the
properties name (`astray`) or the terminal is gone.

`DescriptorsProofs` proves `DescriptorsReturn` (`DescriptorsComeBack`), `PipesBelong`
(`PipesBelongToTheirStages`) and `ComplaintsShown` (the action property `ErrorsAreShown`)
for any redirections, any number of stages, programs and pipelines one after the other. The first is about the shell alone: until something fails, all it has open
beyond the first three is what `execute_pipeline` keeps in its variables, each number
once. The second is about inheritance: a stage is forked with all the shell has open at
that moment, so the invariant follows, from fork to exec, which ends each stage still
holds and which it must still close (`Forked`, `Started`), and that a pipe the shell has
closed on one side never opens again there. The third counts: what the stages have complained of is what
the shell has shown, what stages told to read the error pipe have taken, and what the pipe
holds (`Errors`). That needs two facts of the second kind: a program that was not told so
neither reads the error pipe (`InputApart`: the shell, and not one other stage, can still
write into it) nor writes into it (`NewStageApart`: the shell has its write end at one
number only, which is not the one a stage joins to its output). Stages that a failed
pipeline left behind complain into their own pipe and are not counted. Nothing is assumed of
the redirections. A number beyond 2 (`far`) leads to the error pipe only, or after a
failure to what the shell has left open: all else a stage holds it has closed before its
redirections are made.

`HistoryFileProofs` proves `ImplementsAtomic`, the refinement `ImplementsAtomicFile`, for
any number of shells, calls, failures and kills between any two system calls. `Good` says
that every file there is or was is the text of a whole list, has one name, and that a
call works on the file it means; that what a reader has measured is a whole list's
text too, as files only grow, by whole lists. `Entered`, `Texts` and `Bytes` depend on
characters only through the set `Char` and the two kinds of lines `histfile.c` tells
apart. Two copies with one name are never being written at once, which holds of ids that
differ modulo 100000 (`Distinct`). A disk that was full and two shells whose ids are
equal modulo 100000 writing at once are outside of the promise (`full`, `clash`), as
the refinement says.

`VariableTableProofs` proves all three properties of the run `variables`, for any names,
values, conversions, options and table size, and any number of commands:

- `ExportedIsShown` (`ExportedIsInEnvironment`) from `Good`: names that the table holds
  twice are all marked `behind`, and every other exported entry, not just the first
  of its name, is shown by the environment. `Good` is stated of a memory, and each function of
  `variable.c` is shown to keep it, or to keep it but for the one entry it is changing
  (`GoodBut`) until `process_exported_variable` has run; a command is the composition.
- `AcceptedReads` (`AcceptedIsRead`): a write to an entry that is no nameref, and a new
  entry behind the first of its name, leave the first entries of all names and where
  they refer unchanged (`SameFirst`), hence also what `get_variable` finds (`FoundSame`).
- `ReadonlyStays` (`ReadonlyKept`) from `Keeps`, a relation between two memories that
  each function satisfies when the command was not refused and the name is `Safe`: what
  it leads to has no second entry behind which the parsers could find another one.

The last two need what `get_variable` computes along a chain of namerefs of any length.
`Find` is a recursive function of the number of steps; that it exists and satisfies its
equation is proved from the least element of a set of naturals (`LeastNatural`,
`SetInduction`, `Recursion`), which needs no operator as a parameter. `Descriptors` and
`HistoryFile` state their recursions the same way for the same reason.

`CommandLineProofs` proves two of the invariants of the run `command_lines` for any tokens,
segments of any length and number, and any outcome of the commands: `FreedStaysUnused`
(`FreedIsUnused`) and `LinesKeptApart` (`CommandsOfTheLine`), the latter from its four parts
`WordsAreTimely` (`WordsOfTheSegment`), `WordsAsTyped` (`WordsInOrder`), `CommandsAreWhole`
(`CommandsAsWritten`) and `BackgroundByLastToken` (`LastTokenIsBackground`).

The first rests on `IInv`. The heap of commands, whose chains are cut and rejoined by `add_pipeline`, `add_command` and `append_command_list`
while refused segments leave theirs behind, has an order: a link leads to a command made
later. This gives the chains an end, and makes them the recursive functions that
`Chain` and `Stages` define (proved to exist as in `VariableTableProofs`). The invariant
(`Reaching`) is that there is a set of commands, closed under the links and apart from what
was freed, that holds all that the parser's stack and the two globals refer to;
`current_command` is not in it until its words are complete, and is younger than all of it.
Every routine that links then has to link within that set and upward. For the
latter, the commands on the stack must lie in the order of the text, and no link may lead
from before the first command of one into what stands behind it (`Cells`). Which of the
stack's values are commands, which are lists and which are mere places in the text is read from
the parser's tables: each state is entered on one symbol only, and for each state the ones
that may lie below it are known (`Edge`), which also gives a rule the values it takes
(`Stacked`, `Operands`).

The second is about what was typed, so its invariant `AsWritten` relates the
commands to `text`:

- `Tokens`: how much of the text the stack stands for. A word's value is its place, which is
  the last one read unless a lookahead is behind it; `&` is shifted only where a list ends.
- `Ordered`: whatever command there is, run or not, has words of this segment from between
  two operators only, ascending; and no operator is between those of `current_command` and
  the place read so far, so that the next word may be appended.
- `Leftover`: what a syntax error leaves in `current_command` has no link and is the youngest
  command; once the parser has collected a word of the segment or a list, it is collecting
  words whenever there is a `current_command`. Hence a leftover is only ever in front.
- `Marks`, `Lists`: only a finished list has marked commands, and its tail is marked exactly
  if the last token was `&`.
- `Segmented`: which commands are this segment's is a matter of their age. There is a
  `base` such that all that the stack, the globals and the walk lead to is younger, and the
  words that any younger command has of earlier segments were left behind by refused ones
  (`Timely`). The base moves only where a segment begins, to just before what was left behind.
- `Spelled`: in a line without parentheses the commands behind `base` have the numbers of the
  text: there are as many as operators were passed, and one more once the last command is
  `Complete`; each has a word of its own number, and every word that was read is in the
  command of its number. This needs that the parser decides that a command has all its words
  only when it sees what does not continue it (`Ended`, from the tables), and that the
  command it is then about has a word (`Worded`).

What a reduction may bring into the heap is stated once (`Brought`): a word from the
place read last, a command without words, a link or a mark; each rule is shown to be one of
these, and the parts of the invariant are shown of `Brought`.

Model-checked only:

- liveness (`ShellReturns`, `EndedJobIsReported`, `CallsReturn`, `SegmentEnds`,
  `PipelineReturns`, `ReplacingEnds`, `CaughtIsResent`, `KeysAreRead`), which this prover
  does not reach;
- which commands of a line run, that a pipeline has all its stages and a job its text
  (`LinesAsWritten`), and that the tables accept the grammar (`AcceptsGrammar`; `Grammar` is
  recursive);
- words and values, the line editor and the key bindings: `Lexer`, `Values`, `Words`,
  `KeyBindings`, `KeyDispatch`, `Typing` and the modules from `TextCommands` to `Editor`
  use recursive operators and cannot be proved about.

## 5. Not modelled

- `log.c`: the rotation names its backups by passing a conversion result where a text
  is read (`log.c:123`), which has no meaning in C, and the shell writes two lines a
  session to the log;
- of readline: the display (`display.c`; it only writes to the screen, from state
  that is modelled), the callback interface and the mouse (nobody uses them),
  history expansion (`histexpand.c`: the shell never calls it; `history -p` prints
  its arguments), stifling (never switched on), 8-bit keys and the width of
  characters in the editor, custom completers (the shell installs none, so the
  quoting of completions never runs), a last line that end of file cuts short;
- keys read by the commands inside `Editor` do not come from macros: macros are in
  `KeyDispatch`, where the commands themselves are only noted; signals in the middle
  of a command's work on the line: `Terminal` has them between keys;
- revert-all-at-newline is modelled, but no property is about what it restores;
- the built-ins' output, printf and echo's formatting, conversions of floating point
  and of other bases, UTF-8, the growth of arrays and string builders: output or data
  without further state;
- of the variables: `-p`, `declare -I`, and in `VariableTable` which element an element
  assignment changes (any value of the type results);
- the growth of the parser's stack (`YYMAXDEPTH`) and of the scanner's buffer;
- `history` in a pipeline or in the background, where a child changes its own copy;
  a `HOME` that is not set;
- `rexecvp` and `iterator.c` (they search directories and walk a map that no longer
  changes), `io.c`, `file.c`, `memory.c` (wrappers whose failures are disjuncts of the
  actions that call them), the text of the prompt;
- `find_job`, `update_job_status`, `print_jobs`, `cleanup_jobs`: nobody calls them.

## 6. Plan

What is left is to prove more of what the runs check: `LinesAsWritten`, by adding to
`AsWritten` which operator each link between the commands behind `base` stands for.
