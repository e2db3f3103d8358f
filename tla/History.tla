------------------------------ MODULE History ------------------------------
(***************************************************************************)
(* The command history: the list readline keeps in each shell, the file     *)
(* several shells write, save_history and last_cmd of init.c, and the       *)
(* history built-in. A line is a sequence of commands; what is recorded of  *)
(* it is its first command, because parse_and_execute has cut the text      *)
(* there by the time it is saved. The files are read and written as a whole *)
(* here; the system calls of readline's histfile.c are HistoryFile's.       *)
(***************************************************************************)
EXTENDS Integers, Sequences, SequencesExt

CONSTANTS
  Shell,
  Path,              \* the files HISTFILE may name
  DEFAULT_HISTFILE,
  Program,           \* the commands other than the history built-in
  Offset,            \* the numbers history -d is given
  Line,              \* the lines a user enters, each a sequence of commands
  Found,             \* what the files may be when the first shell starts
  NoFile, NoCommand,
  MaxEntered         \* bound: lines entered, all shells together

History(o) == [op |-> o]
Run(p) == [op |-> "run", program |-> p]
Delete(n) == [op |-> "delete", offset |-> n]
Store(p) == [op |-> "store", program |-> p]

\* parse_flags: what the built-in is asked to do. "print" is -p with arguments.
Command ==
  {History(o) : o \in {"clear", "read_file", "read_new", "append", "write", "print"}}
    \union {Run(p) : p \in Program} \union {Store(p) : p \in Program}
    \union {Delete(n) : n \in Offset}

ASSUME PathAssumption == DEFAULT_HISTFILE \in Path
ASSUME OffsetAssumption == Offset \subseteq Nat
ASSUME LineAssumption == Line \subseteq Seq(Command) \ {<<>>}
ASSUME FoundAssumption == Found \subseteq Seq(Command) \union {NoFile}
ASSUME NoneAssumption == NoFile \notin Seq(Command) /\ NoCommand \notin Command
ASSUME EnteredAssumption == MaxEntered \in Nat

VARIABLES
  file,                 \* the lines in each file
  list,                 \* readline's history list
  last_cmd,
  do_not_save_history,
  HISTFILE,             \* the file the built-in uses
  line,                 \* the line read, up to the command that was its last
  next,                 \* the command of it to execute next
  pc,
  entered,              \* lines entered so far
  current,              \* history: shells whose list was changed by save_history
                        \* alone since the default file held it
  disturbed             \* history: shells whose list got another end since
                        \* last_cmd was set

reading == <<line, next, entered>>
vars == <<file, list, last_cmd, do_not_save_history, HISTFILE, reading, pc, current, disturbed>>

Newest(l) == IF l = <<>> THEN NoCommand ELSE Last(l)
Contents(p) == IF file[p] = NoFile THEN <<>> ELSE file[p]

\* add_history: the list is not stifled, nothing leaves it.
add_history(s, c) == list' = [list EXCEPT ![s] = Append(@, c)]

-----------------------------------------------------------------------------
Init ==
  /\ file \in [Path -> Found]
  /\ list = [s \in Shell |-> <<>>]
  /\ last_cmd = [s \in Shell |-> NoCommand]
  /\ do_not_save_history = [s \in Shell |-> FALSE]
  /\ HISTFILE = [s \in Shell |-> DEFAULT_HISTFILE]
  /\ line = [s \in Shell |-> <<>>]
  /\ next = [s \in Shell |-> 1]
  /\ pc = [s \in Shell |-> "off"]
  /\ entered = 0
  /\ current = {}
  /\ disturbed = {}

\* initialize_history and the first last_cmd.
Start(s) ==
  /\ pc[s] = "off"
  /\ list' = [list EXCEPT ![s] = Contents(DEFAULT_HISTFILE)]
  /\ last_cmd' = [last_cmd EXCEPT ![s] = Newest(Contents(DEFAULT_HISTFILE))]
  /\ \E p \in Path : HISTFILE' = [HISTFILE EXCEPT ![s] = p]
  /\ pc' = [pc EXCEPT ![s] = "prompt"]
  /\ current' = IF file[DEFAULT_HISTFILE] = NoFile THEN current ELSE current \union {s}
  /\ UNCHANGED <<file, do_not_save_history, reading, disturbed>>

\* The shell leaves, by the end of input, by exit, by Ctrl-C or because it is
\* killed at any point: the file stays as it is, the rest is gone.
End(s) ==
  /\ pc[s] # "off"
  /\ pc' = [pc EXCEPT ![s] = "off"]
  /\ list' = [list EXCEPT ![s] = <<>>]
  /\ last_cmd' = [last_cmd EXCEPT ![s] = NoCommand]
  /\ line' = [line EXCEPT ![s] = <<>>]
  /\ next' = [next EXCEPT ![s] = 1]
  /\ current' = current \ {s}
  /\ do_not_save_history' = [do_not_save_history EXCEPT ![s] = FALSE]
  /\ HISTFILE' = [HISTFILE EXCEPT ![s] = DEFAULT_HISTFILE]
  /\ disturbed' = disturbed \ {s}
  /\ UNCHANGED <<file, entered>>

\* get_input: a line that is not empty.
Enter(s) ==
  /\ pc[s] = "prompt"
  /\ entered < MaxEntered
  /\ entered' = entered + 1
  /\ \E l \in Line : line' = [line EXCEPT ![s] = l]
  /\ pc' = [pc EXCEPT ![s] = "run"]
  /\ UNCHANGED <<file, list, last_cmd, do_not_save_history, HISTFILE, next, current, disturbed>>

-----------------------------------------------------------------------------
(* The commands of the line.                                               *)

Executing(s, o) ==
  /\ pc[s] = "run"
  /\ next[s] <= Len(line[s])
  /\ line[s][next[s]].op = o

Advance(s) ==
  /\ next' = [next EXCEPT ![s] = @ + 1]
  /\ UNCHANGED <<HISTFILE, line, pc, entered>>

\* Another command, or a history command that only prints or is refused (-d without
\* a number, -s with more than MAX_HISTORY_LINE). If it is an error, what follows it
\* in the line is not looked at.
Other(s) ==
  /\ Executing(s, "run")
  /\ next' = [next EXCEPT ![s] = @ + 1]
  /\ \/ UNCHANGED line
     \/ line' = [line EXCEPT ![s] = SubSeq(@, 1, next[s])]
  /\ UNCHANGED <<file, list, last_cmd, do_not_save_history, HISTFILE, pc, entered, current,
                 disturbed>>

\* history -c
Clear(s) ==
  /\ Executing(s, "clear")
  /\ Advance(s)
  /\ list' = [list EXCEPT ![s] = <<>>]
  /\ current' = current \ {s}
  /\ disturbed' = disturbed \union {s}
  /\ UNCHANGED <<file, last_cmd, do_not_save_history>>

\* Mutant: a file that is not there is not noticed.
ReadListUnchecked(s) == file[HISTFILE[s]]

ReadList(s) == Contents(HISTFILE[s])

\* history -r: the list is given up, also when the file cannot be read.
ReadFile(s) ==
  /\ Executing(s, "read_file")
  /\ Advance(s)
  /\ list' = [list EXCEPT ![s] = ReadList(s)]
  /\ current' = IF HISTFILE[s] = DEFAULT_HISTFILE /\ file[DEFAULT_HISTFILE] # NoFile
                THEN current \union {s}
                ELSE current \ {s}
  /\ disturbed' = disturbed \union {s}
  /\ UNCHANGED <<file, last_cmd, do_not_save_history>>

\* history -n: every line of the file, whether it was read before or not.
ReadNew(s) ==
  /\ Executing(s, "read_new")
  /\ Advance(s)
  /\ list' = [list EXCEPT ![s] = @ \o Contents(HISTFILE[s])]
  /\ current' = current \ {s}
  /\ disturbed' = disturbed \union {s}
  /\ UNCHANGED <<file, last_cmd, do_not_save_history>>

\* history -a: the whole list, behind what the file holds; it must exist. The
\* write may fail.
AppendFile(s) ==
  /\ Executing(s, "append")
  /\ Advance(s)
  /\ \/ UNCHANGED <<file, current>>
     \/ /\ file[HISTFILE[s]] # NoFile
        /\ file' = [file EXCEPT ![HISTFILE[s]] = @ \o list[s]]
        /\ current' = IF HISTFILE[s] = DEFAULT_HISTFILE THEN {} ELSE current
  /\ UNCHANGED <<list, last_cmd, do_not_save_history, disturbed>>

\* Mutant: the list goes behind what the file holds.
WrittenBehind(s, p) ==
  \/ /\ file' = [file EXCEPT ![p] = Contents(p) \o list[s]]
     /\ current' = IF p = DEFAULT_HISTFILE THEN {s} ELSE current
  \/ UNCHANGED <<file, current>>

\* write_history: the list takes the file's place at once, by a renamed copy. A
\* write that fails leaves the file, and an empty one where there was none.
write_history(s, p) ==
  \/ /\ file' = [file EXCEPT ![p] = list[s]]
     /\ current' = IF p = DEFAULT_HISTFILE THEN {s} ELSE current
  \/ /\ \/ UNCHANGED file
        \/ file[p] = NoFile /\ file' = [file EXCEPT ![p] = <<>>]
     /\ current' = IF p = DEFAULT_HISTFILE THEN current \ {s} ELSE current

\* history -w
WriteFile(s) ==
  /\ Executing(s, "write")
  /\ Advance(s)
  /\ write_history(s, HISTFILE[s])
  /\ UNCHANGED <<list, last_cmd, do_not_save_history, disturbed>>

\* Mutant: the newest entry can go as well.
RemovableInclusive(s, n) == n >= 1 /\ n <= Len(list[s])

\* The test is on the number counted from zero, the removal takes one off first.
Removable(s, n) == n >= 1 /\ n < Len(list[s])

\* history -d n
DeleteEntry(s) ==
  /\ Executing(s, "delete")
  /\ Advance(s)
  /\ LET n == line[s][next[s]].offset
     IN  IF Removable(s, n)
         THEN /\ list' = [list EXCEPT ![s] = RemoveAt(@, n)]
              /\ current' = current \ {s}
         ELSE UNCHANGED <<list, current>>
  /\ UNCHANGED <<file, last_cmd, do_not_save_history, disturbed>>

reset_last_command(s) == last_cmd' = [last_cmd EXCEPT ![s] = Newest(list'[s])]

\* history -s: the words are an entry, the line itself will not be one.
StoreEntry(s) ==
  /\ Executing(s, "store")
  /\ Advance(s)
  /\ add_history(s, Run(line[s][next[s]].program))
  /\ do_not_save_history' = [do_not_save_history EXCEPT ![s] = TRUE]
  /\ reset_last_command(s)
  /\ current' = current \ {s}
  /\ disturbed' = disturbed \ {s}
  /\ UNCHANGED file

\* history -p
PrintExpand(s) ==
  /\ Executing(s, "print")
  /\ Advance(s)
  /\ do_not_save_history' = [do_not_save_history EXCEPT ![s] = TRUE]
  /\ UNCHANGED <<file, list, last_cmd, current, disturbed>>

-----------------------------------------------------------------------------
(* save_history.                                                           *)

Executed(s) == pc[s] = "run" /\ next[s] > Len(line[s])
Repeated(s) == last_cmd[s] = Head(line[s])

\* Mutant: the flag stays set for the next line.
IterationEndsFlagged(s) ==
  /\ pc' = [pc EXCEPT ![s] = "prompt"]
  /\ line' = [line EXCEPT ![s] = <<>>]
  /\ next' = [next EXCEPT ![s] = 1]
  /\ UNCHANGED <<file, HISTFILE, entered, do_not_save_history>>

IterationEnds(s) ==
  /\ pc' = [pc EXCEPT ![s] = "prompt"]
  /\ do_not_save_history' = [do_not_save_history EXCEPT ![s] = FALSE]
  /\ line' = [line EXCEPT ![s] = <<>>]
  /\ next' = [next EXCEPT ![s] = 1]
  /\ UNCHANGED <<file, HISTFILE, entered>>

SkipSave(s) ==
  /\ Executed(s)
  /\ do_not_save_history[s] \/ Repeated(s)
  /\ IterationEnds(s)
  /\ UNCHANGED <<list, last_cmd, current, disturbed>>

\* The file is written before the line is in the list.
WriteSave(s) ==
  /\ Executed(s)
  /\ ~do_not_save_history[s]
  /\ ~Repeated(s)
  /\ write_history(s, DEFAULT_HISTFILE)
  /\ pc' = [pc EXCEPT ![s] = "add"]
  /\ UNCHANGED <<list, last_cmd, do_not_save_history, HISTFILE, reading, disturbed>>

Add(s) ==
  /\ pc[s] = "add"
  /\ last_cmd' = [last_cmd EXCEPT ![s] = Head(line[s])]
  /\ add_history(s, Head(line[s]))
  /\ disturbed' = disturbed \ {s}
  /\ IterationEnds(s)
  /\ UNCHANGED current

-----------------------------------------------------------------------------
BuiltIn(s) ==
  \/ Clear(s) \/ ReadFile(s) \/ ReadNew(s) \/ AppendFile(s) \/ WriteFile(s)
  \/ DeleteEntry(s) \/ StoreEntry(s) \/ PrintExpand(s)

Next ==
  \E s \in Shell :
    \/ Start(s) \/ End(s) \/ Enter(s)
    \/ Other(s) \/ BuiltIn(s)
    \/ SkipSave(s) \/ WriteSave(s) \/ Add(s)

Spec == Init /\ [][Next]_vars

-----------------------------------------------------------------------------
(* Properties.                                                             *)

\* Every variable keeps to its type.
TypeOK ==
  /\ file \in [Path -> Seq(Command) \union {NoFile}]
  /\ list \in [Shell -> Seq(Command)]
  /\ last_cmd \in [Shell -> Command \union {NoCommand}]
  /\ do_not_save_history \in [Shell -> BOOLEAN]
  /\ HISTFILE \in [Shell -> Path]
  /\ line \in [Shell -> Seq(Command)]
  /\ next \in [Shell -> Nat \ {0}]
  /\ pc \in [Shell -> {"off", "prompt", "run", "add"}]
  /\ entered \in 0..MaxEntered
  /\ current \subseteq Shell
  /\ disturbed \subseteq Shell

\* Whenever the shell is killed, at most the newest line is missing from the file
\* (write_history comes before add_history), until its user edits the list, another
\* shell writes the file, or a write fails.
OnlyNewestUnsaved ==
  \A s \in current : file[DEFAULT_HISTFILE] \in {list[s], Front(list[s])}

\* What a line is compared with, to leave out repetitions, is the newest entry of
\* the list (save_history, reset_last_command), also after history -d; only
\* clearing the list and reading into it part the two.
LastCmdIsNewest ==
  \A s \in Shell :
    pc[s] = "prompt" /\ s \notin disturbed => last_cmd[s] = Newest(list[s])

AskedNotToSave(s) ==
  \E i \in 1..Len(line[s]) : line[s][i].op \in {"store", "print"}

\* A line stays out of the history exactly when one of its own commands was
\* history -s or -p, or it repeats the line before it (do_not_save_history is one
\* flag for all lines: nothing of it may reach the next one).
SavedUnlessAsked ==
  [][\A s \in Shell :
       pc[s] = "run" /\ pc'[s] \in {"prompt", "add"}
         => (pc'[s] = "prompt" <=> AskedNotToSave(s) \/ Repeated(s))]_vars
=============================================================================
