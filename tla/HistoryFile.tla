---------------------------- MODULE HistoryFile ----------------------------
(***************************************************************************)
(* The history file between the system calls of                            *)
(* src/lib/readline/histfile.c: several shells write their lists over it,  *)
(* write them behind it and read it, any call may fail, a write may fall   *)
(* short and any shell may be killed between two calls.  History takes each   *)
(* of these operations as one step; here it is shown that it may.          *)
(* A text is a sequence of bytes; "LF" ends a line.                        *)
(***************************************************************************)
EXTENDS Naturals, Sequences, Functions

CONSTANTS
  Shell,             \* the processes that may run a shell: their ids
  Char,              \* the bytes of texts
  Line,              \* the lines a user enters
  HistFile,          \* the name of the history file
  NoFile,
  Found,             \* the lists an earlier session may have left in the file
  Started,           \* bound: which processes run a shell in the beginning
  MaxEntered,        \* bound: lines entered, all shells together
  MaxCalls,          \* bound: calls, all shells together
  MaxKills           \* bound: shells killed

IsLine(l) == l \in Seq(Char) /\ l # <<>> /\ \A i \in DOMAIN l : l[i] # "LF"
ASSUME CharAssumption == "LF" \in Char
ASSUME LineAssumption == \A l \in Line : IsLine(l)
ASSUME FoundAssumption ==
  \A found \in Found : found \in Seq(Seq(Char)) /\ \A i \in DOMAIN found : IsLine(found[i])
FiveDigits == 100000
ASSUME NameAssumption ==
  Shell \subseteq Nat /\ HistFile \notin 0..(FiveDigits - 1) /\ NoFile \notin Seq(Char)
ASSUME BoundAssumption ==
  Started \subseteq (SUBSET Shell) \ {{}} /\ MaxEntered \in Nat /\ MaxCalls \in Nat /\ MaxKills \in Nat

VARIABLES
  text,              \* the files there are or were: their bytes
  dir,               \* which of them has the name HistFile, and the names with
                     \* five digits behind it; 0: none
  list,              \* the_history of each shell
  call,              \* what each shell is doing in histfile.c
  full,              \* the disk was full: a write put a part of its bytes only
  clash,             \* two shells whose ids end in the same five digits were
                     \* writing their copies at once
  calls, kills, entered \* how many there were

vars == <<text, dir, list, call, full, clash, calls, kills, entered>>

-----------------------------------------------------------------------------
(* Texts.                                                                  *)

\* After each of the entries.
Texts(entries) ==
  LET lines[n \in 0..Len(entries)] == IF n = 0 THEN <<>> ELSE lines[n - 1] \o entries[n] \o <<"LF">>
  IN lines
Text(entries) == Texts(entries)[Len(entries)]
Digits == {"0", "1", "2", "3", "4", "5", "6", "7", "8", "9"}
HIST_TIMESTAMP_START(t) == Len(t) >= 2 /\ t[1] = "#" /\ t[2] \in Digits

\* Empty lines, and what follows the last "LF", are no entries; when the text
\* begins like a timestamp, no line that looks like one is.  After each byte:
\* the line so far and the entries.
Byte(read, c, stamped) ==
  IF c # "LF" THEN [read EXCEPT !.line = Append(@, c)]
  ELSE [line |-> <<>>,
        entries |-> IF read.line = <<>> \/ (stamped /\ HIST_TIMESTAMP_START(read.line))
                    THEN read.entries ELSE Append(read.entries, read.line)]
Bytes(t) ==
  LET read[n \in 0..Len(t)] == IF n = 0 THEN [line |-> <<>>, entries |-> <<>>]
                                ELSE Byte(read[n - 1], t[n], HIST_TIMESTAMP_START(t))
  IN read
Entries(t) == Bytes(t)[Len(t)].entries

\* The bytes b written over the beginning of t.
Over(t, b) == b \o SubSeq(t, Len(b) + 1, Len(t))

-----------------------------------------------------------------------------
(* A call of a shell.                                                      *)

Overwrite == "write"   Behind == "append"   Reading == "read"
NoCall == [op |-> "none", at |-> "prompt", name |-> HistFile, fd |-> 0, size |-> 0]
NoShell == [NoCall EXCEPT !.at = "away"]
At(s, step) == call[s].at = step
Goes(s, step) == call' = [call EXCEPT ![s].at = step]
Done(s) == call' = [call EXCEPT ![s] = NoCall]

\* The name of the copy has the last five digits of the process id behind it.
\* A bug to check the properties against: it has none of them.
history_tempfile_shared(s) == 0
history_tempfile(s) == s % FiveDigits
Temporary(s) == call[s].name # HistFile
Copying(s) == Temporary(s) /\ call[s].at \in {"put", "close", "rename", "failed"}

Init ==
  \E found \in Found \cup {NoFile}, shells \in Started :
    /\ text = IF found = NoFile THEN <<>> ELSE <<Text(found)>>
    /\ dir = [n \in {HistFile} \cup {history_tempfile(s) : s \in Shell} |->
                IF n = HistFile /\ found # NoFile THEN 1 ELSE 0]
    /\ list = [s \in Shell |-> <<>>]
    \* Two shells that both find no file create it under each other's feet: one
    \* shell at a time creates it here.
    /\ found = NoFile => \E s \in shells : shells = {s}
    /\ call = [s \in Shell |-> IF s \in shells THEN NoCall ELSE NoShell]
    /\ full = FALSE /\ clash = FALSE /\ calls = 0 /\ kills = 0 /\ entered = 0

\* add_history, between the calls.
add_history(s) ==
  /\ At(s, "prompt")
  /\ entered < MaxEntered
  /\ entered' = entered + 1
  /\ \E l \in Line : list' = [list EXCEPT ![s] = Append(@, l)]
  /\ UNCHANGED <<text, dir, call, full, clash, calls, kills>>

\* write_history, append_history of the whole list, read_history; history -r
\* clears the list before.
Called(s) ==
  /\ At(s, "prompt")
  /\ calls < MaxCalls /\ ~full /\ ~clash
  /\ calls' = calls + 1
  /\ \/ /\ \E op \in {Overwrite, Behind, Reading} :
             call' = [call EXCEPT ![s].op = op,
                                  ![s].at = IF op = Overwrite THEN "stat" ELSE "open"]
        /\ UNCHANGED list
     \/ /\ call' = [call EXCEPT ![s].op = Reading, ![s].at = "open"]
        /\ list' = [list EXCEPT ![s] = <<>>]
  /\ UNCHANGED <<text, dir, full, clash, kills, entered>>

Stat(s) ==
  /\ At(s, "stat")
  /\ call' = [call EXCEPT ![s].name = IF dir[HistFile] # 0 THEN history_tempfile(s) ELSE @,
                          ![s].at = "open"]
  /\ UNCHANGED <<text, dir, list, full, clash, calls, kills, entered>>

OpenFails(s) ==
  /\ At(s, "open")
  /\ Done(s)
  /\ UNCHANGED <<text, dir, list, full, clash, calls, kills, entered>>
\* Another shell is writing what should be a copy of this shell's own.
Clash(s) ==
  Temporary(s) /\ \E t \in Shell \ {s} : Copying(t) /\ t % FiveDigits = s % FiveDigits
\* O_CREAT|O_TRUNC.
OpenToWrite(s) ==
  /\ At(s, "open") /\ call[s].op = Overwrite
  /\ LET name == call[s].name
         new == dir[name] = 0
         fd == IF new THEN Len(text) + 1 ELSE dir[name]
     IN /\ text' = IF new THEN Append(text, <<>>) ELSE [text EXCEPT ![fd] = <<>>]
        /\ dir' = [dir EXCEPT ![name] = fd]
        /\ call' = [call EXCEPT ![s].fd = fd, ![s].at = "put"]
  /\ clash' = (clash \/ Clash(s))
  /\ UNCHANGED <<list, full, calls, kills, entered>>
\* O_APPEND, O_RDONLY: the file must be there.
Open(s) ==
  /\ At(s, "open") /\ call[s].op # Overwrite /\ dir[HistFile] # 0
  /\ call' = [call EXCEPT ![s].fd = dir[HistFile],
                          ![s].at = IF call[s].op = Behind THEN "put" ELSE "fstat"]
  /\ UNCHANGED <<text, dir, list, full, clash, calls, kills, entered>>

\* The one write of the whole buffer: it puts all of it, or nothing and fails;
\* on a full disk it may put a part and says nothing.
Put(s, bytes) ==
  text' = [text EXCEPT ![call[s].fd] = IF call[s].op = Behind THEN @ \o bytes ELSE Over(@, bytes)]
Write(s) ==
  /\ At(s, "put")
  /\ LET buffer == Text(list[s])
     IN \/ Put(s, buffer) /\ UNCHANGED full
        \/ /\ \E n \in 0..(Len(buffer) - 1) : Put(s, SubSeq(buffer, 1, n))
           /\ full' = TRUE
  /\ Goes(s, "close")
  /\ UNCHANGED <<dir, list, clash, calls, kills, entered>>
WriteFails(s) ==
  /\ At(s, "put")
  /\ Goes(s, "failed")
  /\ UNCHANGED <<text, dir, list, full, clash, calls, kills, entered>>
Close(s) ==
  /\ At(s, "close")
  /\ call' = [call EXCEPT ![s].fd = 0, ![s].at = "rename"]
  /\ UNCHANGED <<text, dir, list, full, clash, calls, kills, entered>>
CloseFails(s) ==
  /\ At(s, "close")
  /\ Goes(s, "failed")
  /\ UNCHANGED <<text, dir, list, full, clash, calls, kills, entered>>

\* histfile_restore, which renames the new file.
histfile_restore(s) ==
  /\ At(s, "rename")
  /\ Temporary(s) => dir[call[s].name] # 0
  /\ dir' = IF Temporary(s) THEN [dir EXCEPT ![HistFile] = dir[call[s].name], ![call[s].name] = 0]
            ELSE dir
  /\ Done(s)
  /\ UNCHANGED <<text, list, full, clash, calls, kills, entered>>
RestoreFails(s) ==
  /\ At(s, "rename") /\ Temporary(s)
  /\ Goes(s, "failed")
  /\ UNCHANGED <<text, dir, list, full, clash, calls, kills, entered>>
\* rv # 0.
Unlink(s) ==
  /\ At(s, "failed")
  /\ dir' = IF Temporary(s) THEN [dir EXCEPT ![call[s].name] = 0] ELSE dir
  /\ Done(s)
  /\ UNCHANGED <<text, list, full, clash, calls, kills, entered>>

\* read_history_range: as many bytes as the file had when it was opened.
Fstat(s) ==
  /\ At(s, "fstat")
  /\ IF text[call[s].fd] = <<>> THEN Done(s)
     ELSE call' = [call EXCEPT ![s].size = Len(text[call[s].fd]), ![s].at = "get"]
  /\ UNCHANGED <<text, dir, list, full, clash, calls, kills, entered>>
Read(s) ==
  /\ At(s, "get")
  /\ LET t == text[call[s].fd]
         buffer == SubSeq(t, 1, IF call[s].size < Len(t) THEN call[s].size ELSE Len(t))
     IN list' = [list EXCEPT ![s] = @ \o Entries(buffer)]
  /\ Done(s)
  /\ UNCHANGED <<text, dir, full, clash, calls, kills, entered>>
ReadFails(s) ==
  /\ At(s, "fstat") \/ At(s, "get")
  /\ Done(s)
  /\ UNCHANGED <<text, dir, list, full, clash, calls, kills, entered>>

\* A shell is killed wherever it is, and another one starts, under an id that is
\* free: it has an empty list, and may find the copy the dead one left behind.
Killed(s) ==
  /\ ~ At(s, "away") /\ kills < MaxKills
  /\ kills' = kills + 1
  /\ list' = [list EXCEPT ![s] = <<>>]
  /\ \E t \in Shell :
       /\ t = s \/ At(t, "away")
       /\ call' = [[call EXCEPT ![s] = NoShell] EXCEPT ![t] = NoCall]
  /\ UNCHANGED <<text, dir, full, clash, calls, entered>>

HistoryDoWrite(s) ==
  \/ Stat(s) \/ OpenFails(s) \/ OpenToWrite(s) \/ Open(s) \/ Write(s) \/ WriteFails(s)
  \/ Close(s) \/ CloseFails(s) \/ histfile_restore(s) \/ RestoreFails(s) \/ Unlink(s)
ReadHistoryRange(s) == Fstat(s) \/ Read(s) \/ ReadFails(s)
Next ==
  \E s \in Shell :
    add_history(s) \/ Called(s) \/ HistoryDoWrite(s) \/ ReadHistoryRange(s) \/ Killed(s)
Spec == Init /\ [][Next]_vars

-----------------------------------------------------------------------------
(* Properties.                                                             *)

\* Whatever fails and whoever is killed, the history file goes from one whole
\* list to another: a shell writes over a copy and renames it, and puts what it
\* appends behind the file by one write; and what is read is never a line cut in
\* the middle or put together from two (histfile.c:344, 749, 757, 844, 855).  Two
\* things end this: a write that falls short, which is not noticed; and two shells
\* that overwrite the file at once and whose process ids are equal modulo 100000,
\* since they write the same copy (histfile.c:240).
HistoryText == IF dir[HistFile] = 0 THEN NoFile ELSE text[dir[HistFile]]
Entered == Line \cup UNION {Range(found) : found \in Found}
Atomic == INSTANCE AtomicFile WITH file <- HistoryText, void <- full \/ clash, Joined <- \o
ImplementsAtomicFile == Atomic!Spec
=============================================================================
