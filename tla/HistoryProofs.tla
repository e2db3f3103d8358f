--------------------------- MODULE HistoryProofs ---------------------------
(***************************************************************************)
(* Proofs about History, for any number of shells, files and lines, and     *)
(* without a bound on the lines entered (EnteredAssumption is all that is   *)
(* used of MaxEntered).                                                     *)
(***************************************************************************)
EXTENDS History, TLAPS

-----------------------------------------------------------------------------
(* Sequences of commands.                                                  *)

\* The newest entry of a list is a command, or there is none.
LEMMA NewestType ==
  ASSUME NEW l \in Seq(Command)
  PROVE  Newest(l) \in Command \union {NoCommand}
BY DEF Newest, Last

\* A command put at the end is the newest, and the rest is the front.
LEMMA AppendFacts ==
  ASSUME NEW l \in Seq(Command), NEW c \in Command
  PROVE  /\ Append(l, c) \in Seq(Command)
         /\ Append(l, c) # <<>>
         /\ Newest(Append(l, c)) = c
         /\ Front(Append(l, c)) = l
<1>1. /\ Append(l, c) \in Seq(Command)
      /\ Len(Append(l, c)) = Len(l) + 1
      /\ Append(l, c)[Len(l) + 1] = c
      /\ Append(l, c) # <<>>
  OBVIOUS
<1>2. Newest(Append(l, c)) = c
  BY <1>1 DEF Newest, Last
<1>3. SubSeq(Append(l, c), 1, Len(l)) = l
  OBVIOUS
<1>4. Front(Append(l, c)) = l
  BY <1>1, <1>3 DEF Front
<1> QED BY <1>1, <1>2, <1>4

\* Taking out an entry that is not the newest leaves the newest.
LEMMA RemoveAtFacts ==
  ASSUME NEW l \in Seq(Command), NEW n \in Nat, n >= 1, n < Len(l)
  PROVE  /\ RemoveAt(l, n) \in Seq(Command)
         /\ Newest(RemoveAt(l, n)) = Newest(l)
<1> DEFINE a == SubSeq(l, 1, n - 1)
           b == SubSeq(l, n + 1, Len(l))
<1>1. /\ a \in Seq(Command) /\ Len(a) = n - 1
      /\ b \in Seq(Command) /\ Len(b) = Len(l) - n
      /\ b[Len(l) - n] = l[Len(l)]
  OBVIOUS
<1>2. RemoveAt(l, n) = a \o b
  BY DEF RemoveAt
<1> HIDE DEF a, b
<1>3. /\ a \o b \in Seq(Command)
      /\ Len(a \o b) = Len(l) - 1
      /\ (a \o b)[Len(l) - 1] = b[Len(l) - n]
  BY <1>1
<1>4. a \o b # <<>> /\ l # <<>>
  BY <1>3
<1> QED BY <1>1, <1>2, <1>3, <1>4 DEF Newest, Last

\* What the built-in's commands carry.
LEMMA CommandFields ==
  /\ \A p \in Program : Run(p) \in Command
  /\ \A c \in Command : c.op = "store" => c.program \in Program
  /\ \A c \in Command : c.op = "delete" => c.offset \in Nat
<1>1. \A p \in Program : Run(p) \in Command
  BY DEF Command
<1> SUFFICES ASSUME NEW c \in Command
             PROVE  /\ c.op = "store" => c.program \in Program
                    /\ c.op = "delete" => c.offset \in Nat
  BY <1>1
<1>2. CASE \E o \in {"clear", "read_file", "read_new", "append", "write", "print"} : c = History(o)
  BY <1>2 DEF History
<1>3. CASE \E p \in Program : c = Run(p)
  BY <1>3 DEF Run
<1>4. CASE \E p \in Program : c = Store(p)
  BY <1>4 DEF Store
<1>5. CASE \E n \in Offset : c = Delete(n)
  BY <1>5, OffsetAssumption DEF Delete
<1> QED BY <1>2, <1>3, <1>4, <1>5 DEF Command

-----------------------------------------------------------------------------
(* The inductive invariant, for one shell each.                            *)

\* Where a shell is in its line, and what its flag says of the part already done.
LineBegins(s) ==
  /\ pc[s] \in {"off", "prompt"} => next[s] = 1
  /\ pc[s] \in {"run", "add"} => line[s] # <<>>

AskedBefore(s, k) == \E i \in 1..k : line[s][i].op \in {"store", "print"}

FlagIsOfTheLine(s) ==
  IF pc[s] = "run"
  THEN /\ next[s] <= Len(line[s]) + 1
       /\ do_not_save_history[s] <=> AskedBefore(s, next[s] - 1)
  ELSE ~do_not_save_history[s]

\* last_cmd is the newest entry at every point of the line.
LastCmdInv(s) ==
  pc[s] # "off" /\ s \notin disturbed => last_cmd[s] = Newest(list[s])

\* Between write_history and add_history nothing is missing from the file.
FileInv(s) ==
  s \in current =>
    /\ file[DEFAULT_HISTFILE] \in {list[s], Front(list[s])}
    /\ pc[s] = "add" => file[DEFAULT_HISTFILE] = list[s]

LineInv == \A s \in Shell : LineBegins(s)
FlagInv == \A s \in Shell : FlagIsOfTheLine(s)
NewestInv == \A s \in Shell : LastCmdInv(s)
SavedInv == \A s \in Shell : FileInv(s)

IInv == TypeOK /\ LineInv /\ FlagInv /\ NewestInv /\ SavedInv

-----------------------------------------------------------------------------
(* Type correctness.                                                       *)

LEMMA TypeInit == Init => TypeOK
<1> SUFFICES ASSUME Init PROVE TypeOK
  OBVIOUS
<1>1. file \in [Path -> Seq(Command) \union {NoFile}]
  BY FoundAssumption DEF Init
<1>2. <<>> \in Seq(Command)
  OBVIOUS
<1> QED BY <1>1, <1>2, PathAssumption, EnteredAssumption DEF Init, TypeOK

\* Every step keeps the types.
LEMMA TypeStep == TypeOK /\ LineInv /\ [Next]_vars => TypeOK'
<1> SUFFICES ASSUME TypeOK, LineInv, [Next]_vars PROVE TypeOK'
  OBVIOUS
<1> USE DEF TypeOK
<1>1. \A p \in Path : Contents(p) \in Seq(Command)
  BY DEF Contents
<1>2. DEFAULT_HISTFILE \in Path
  BY PathAssumption
<1>3. ASSUME NEW s \in Shell, Start(s) PROVE TypeOK'
  <2>1. /\ Contents(DEFAULT_HISTFILE) \in Seq(Command)
        /\ Newest(Contents(DEFAULT_HISTFILE)) \in Command \union {NoCommand}
    BY <1>1, <1>2, NewestType
  <2> QED BY <1>3, <2>1 DEF Start, reading
<1>4. ASSUME NEW s \in Shell, End(s) PROVE TypeOK'
  <2>1. <<>> \in Seq(Command)
    OBVIOUS
  <2> QED BY <1>2, <1>4, <2>1 DEF End
<1>5. ASSUME NEW s \in Shell, Enter(s) PROVE TypeOK'
  <2>1. Line \subseteq Seq(Command)
    BY LineAssumption
  <2>2. entered' \in 0..MaxEntered
    BY <1>5, EnteredAssumption DEF Enter
  <2> QED BY <1>5, <2>1, <2>2 DEF Enter
<1>6. ASSUME NEW s \in Shell, Other(s) PROVE TypeOK'
  <2>1. SubSeq(line[s], 1, next[s]) \in Seq(Command)
    BY <1>6 DEF Other, Executing
  <2>2. line' \in [Shell -> Seq(Command)]
    BY <1>6, <2>1 DEF Other
  <2>3. next' \in [Shell -> Nat \ {0}]
    BY <1>6 DEF Other
  <2> QED BY <1>6, <2>2, <2>3 DEF Other
<1>7. ASSUME NEW s \in Shell, Advance(s)
      PROVE  /\ next' \in [Shell -> Nat \ {0}]
             /\ HISTFILE' \in [Shell -> Path]
             /\ line' \in [Shell -> Seq(Command)]
             /\ pc' \in [Shell -> {"off", "prompt", "run", "add"}]
             /\ entered' \in 0..MaxEntered
  BY <1>7 DEF Advance
<1>8. ASSUME NEW s \in Shell, NEW p \in Path, write_history(s, p)
      PROVE  /\ file' \in [Path -> Seq(Command) \union {NoFile}]
             /\ current' \subseteq Shell
  <2>1. /\ <<>> \in Seq(Command)
        /\ [file EXCEPT ![p] = <<>>] \in [Path -> Seq(Command) \union {NoFile}]
        /\ [file EXCEPT ![p] = list[s]] \in [Path -> Seq(Command) \union {NoFile}]
    OBVIOUS
  <2>2. \/ file' = [file EXCEPT ![p] = list[s]]
        \/ file' = [file EXCEPT ![p] = <<>>]
        \/ file' = file
    BY <1>8 DEF write_history
  <2>3. current' \in {{s}, current, current \ {s}}
    BY <1>8 DEF write_history
  <2> QED BY <2>1, <2>2, <2>3
<1>9. ASSUME NEW s \in Shell, Clear(s) PROVE TypeOK'
  <2>1. <<>> \in Seq(Command)
    OBVIOUS
  <2> QED BY <1>7, <1>9, <2>1 DEF Clear
<1>10. ASSUME NEW s \in Shell, ReadFile(s) PROVE TypeOK'
  <2>1. ReadList(s) \in Seq(Command)
    BY <1>1 DEF ReadList
  <2> QED BY <1>7, <1>10, <2>1 DEF ReadFile
<1>11. ASSUME NEW s \in Shell, ReadNew(s) PROVE TypeOK'
  <2>1. list[s] \o Contents(HISTFILE[s]) \in Seq(Command)
    BY <1>1
  <2> QED BY <1>7, <1>11, <2>1 DEF ReadNew
<1>12. ASSUME NEW s \in Shell, AppendFile(s) PROVE TypeOK'
  <2>1. file' \in [Path -> Seq(Command) \union {NoFile}]
    <3>1. CASE file' = file
      BY <3>1
    <3>2. CASE /\ file[HISTFILE[s]] # NoFile
               /\ file' = [file EXCEPT ![HISTFILE[s]] = @ \o list[s]]
      <4>1. file[HISTFILE[s]] \o list[s] \in Seq(Command)
        BY <3>2
      <4> QED BY <3>2, <4>1
    <3> QED BY <1>12, <3>1, <3>2 DEF AppendFile
  <2>2. current' \subseteq Shell
    BY <1>12 DEF AppendFile
  <2> QED BY <1>7, <1>12, <2>1, <2>2 DEF AppendFile
<1>13. ASSUME NEW s \in Shell, WriteFile(s) PROVE TypeOK'
  BY <1>7, <1>8, <1>13 DEF WriteFile
<1>14. ASSUME NEW s \in Shell, DeleteEntry(s) PROVE TypeOK'
  <2> DEFINE n == line[s][next[s]].offset
  <2>1. n \in Nat
    BY <1>14, CommandFields DEF DeleteEntry, Executing
  <2>2. Removable(s, n) => RemoveAt(list[s], n) \in Seq(Command)
    BY <2>1, RemoveAtFacts DEF Removable
  <2>3. list' \in [Shell -> Seq(Command)] /\ current' \subseteq Shell
    <3> HIDE DEF n
    <3>1. \/ Removable(s, n) /\ list' = [list EXCEPT ![s] = RemoveAt(@, n)]
                            /\ current' = current \ {s}
          \/ UNCHANGED <<list, current>>
      BY <1>14 DEF DeleteEntry, n
    <3> QED BY <2>2, <3>1
  <2> QED BY <1>7, <1>14, <2>3 DEF DeleteEntry
<1>15. ASSUME NEW s \in Shell, StoreEntry(s) PROVE TypeOK'
  <2> DEFINE c == Run(line[s][next[s]].program)
  <2>1. c \in Command
    BY <1>15, CommandFields DEF StoreEntry, Executing
  <2> HIDE DEF c
  <2>2. list' = [list EXCEPT ![s] = Append(@, c)]
    BY <1>15 DEF StoreEntry, add_history, c
  <2>3. list' \in [Shell -> Seq(Command)]
    BY <2>1, <2>2, AppendFacts
  <2>4. Newest(list'[s]) \in Command \union {NoCommand}
    BY <2>3, NewestType
  <2>5. last_cmd' \in [Shell -> Command \union {NoCommand}]
    BY <1>15, <2>4 DEF StoreEntry, reset_last_command
  <2> QED BY <1>7, <1>15, <2>3, <2>5 DEF StoreEntry
<1>16. ASSUME NEW s \in Shell, PrintExpand(s) PROVE TypeOK'
  BY <1>7, <1>16 DEF PrintExpand
<1>17. ASSUME NEW s \in Shell, IterationEnds(s)
       PROVE  /\ pc' \in [Shell -> {"off", "prompt", "run", "add"}]
              /\ do_not_save_history' \in [Shell -> BOOLEAN]
              /\ line' \in [Shell -> Seq(Command)]
              /\ next' \in [Shell -> Nat \ {0}]
              /\ UNCHANGED <<file, HISTFILE, entered>>
  <2>1. <<>> \in Seq(Command)
    OBVIOUS
  <2> QED BY <1>17, <2>1 DEF IterationEnds
<1>18. ASSUME NEW s \in Shell, SkipSave(s) PROVE TypeOK'
  BY <1>17, <1>18 DEF SkipSave
<1>19. ASSUME NEW s \in Shell, WriteSave(s) PROVE TypeOK'
  BY <1>2, <1>8, <1>19 DEF WriteSave, reading
<1>20. ASSUME NEW s \in Shell, Add(s) PROVE TypeOK'
  <2>1. Head(line[s]) \in Command
    BY <1>20 DEF Add, LineInv, LineBegins
  <2>2. list' \in [Shell -> Seq(Command)]
    BY <1>20, <2>1, AppendFacts DEF Add, add_history
  <2> QED BY <1>17, <1>20, <2>1, <2>2 DEF Add
<1>21. ASSUME UNCHANGED vars PROVE TypeOK'
  BY <1>21 DEF vars, reading
<1> QED
  BY <1>3, <1>4, <1>5, <1>6, <1>9, <1>10, <1>11, <1>12, <1>13, <1>14, <1>15, <1>16, <1>18, <1>19,
     <1>20, <1>21 DEF Next, BuiltIn

-----------------------------------------------------------------------------
(* The steps, one shell at a time.                                         *)

Step(s) ==
  \/ Start(s) \/ End(s) \/ Enter(s) \/ Other(s) \/ BuiltIn(s)
  \/ SkipSave(s) \/ WriteSave(s) \/ Add(s)

SameIn(t) ==
  /\ list'[t] = list[t] /\ last_cmd'[t] = last_cmd[t]
  /\ do_not_save_history'[t] = do_not_save_history[t]
  /\ line'[t] = line[t] /\ next'[t] = next[t] /\ pc'[t] = pc[t]
  /\ (t \in disturbed') = (t \in disturbed)

\* A shell's step leaves what the other shells hold in memory alone.
LEMMA OthersKeep ==
  ASSUME TypeOK, NEW s \in Shell, Step(s), NEW t \in Shell, t # s
  PROVE  SameIn(t)
<1> USE DEF TypeOK, SameIn
<1>1. CASE Start(s) BY <1>1 DEF Start, reading
<1>2. CASE End(s) BY <1>2 DEF End
<1>3. CASE Enter(s) BY <1>3 DEF Enter
<1>4. CASE Other(s) BY <1>4 DEF Other
<1>5. CASE Clear(s) BY <1>5 DEF Clear, Advance
<1>6. CASE ReadFile(s) BY <1>6 DEF ReadFile, Advance
<1>7. CASE ReadNew(s) BY <1>7 DEF ReadNew, Advance
<1>8. CASE AppendFile(s) BY <1>8 DEF AppendFile, Advance
<1>9. CASE WriteFile(s) BY <1>9 DEF WriteFile, Advance
<1>10. CASE DeleteEntry(s) BY <1>10 DEF DeleteEntry, Advance
<1>11. CASE StoreEntry(s) BY <1>11 DEF StoreEntry, Advance, add_history, reset_last_command
<1>12. CASE PrintExpand(s) BY <1>12 DEF PrintExpand, Advance
<1>13. CASE SkipSave(s) BY <1>13 DEF SkipSave, IterationEnds
<1>14. CASE WriteSave(s) BY <1>14 DEF WriteSave, reading
<1>15. CASE Add(s) BY <1>15 DEF Add, IterationEnds, add_history
<1> QED
  BY <1>1, <1>2, <1>3, <1>4, <1>5, <1>6, <1>7, <1>8, <1>9, <1>10, <1>11, <1>12, <1>13, <1>14,
     <1>15 DEF Step, BuiltIn

\* The beginning of the line and of last_cmd's comparison is there when it is used.
LEMMA LineStep == TypeOK /\ LineInv /\ [Next]_vars => LineInv'
<1> SUFFICES ASSUME TypeOK, LineInv, [Next]_vars, NEW t \in Shell PROVE LineBegins(t)'
  BY DEF LineInv
<1>1. CASE UNCHANGED vars
  BY <1>1 DEF vars, reading, LineInv, LineBegins
<1>2. ASSUME NEW s \in Shell, Step(s), s # t PROVE LineBegins(t)'
  BY <1>2, OthersKeep DEF SameIn, LineInv, LineBegins
<1>3. ASSUME Step(t) PROVE LineBegins(t)'
  <2> USE DEF TypeOK, LineInv, LineBegins
  <2>1. CASE Start(t) BY <2>1 DEF Start, reading
  <2>2. CASE End(t) BY <2>2 DEF End
  <2>3. CASE Enter(t) BY <2>3, LineAssumption DEF Enter
  <2>4. CASE Other(t)
    <3>1. line[t] # <<>> /\ next[t] <= Len(line[t]) /\ pc[t] = "run"
      BY <2>4 DEF Other, Executing
    <3>2. /\ line[t] \in Seq(Command) /\ next[t] \in 1..Len(line[t])
          /\ Len(line[t]) \in Nat
      BY <3>1
    <3>3. Len(SubSeq(line[t], 1, next[t])) = next[t]
      BY <3>2
    <3>4. SubSeq(line[t], 1, next[t]) # <<>>
      BY <3>2, <3>3
    <3> QED BY <2>4, <3>1, <3>4 DEF Other
  <2>5. CASE BuiltIn(t)
    <3>1. pc[t] = "run" /\ Advance(t)
      BY <2>5 DEF BuiltIn, Clear, ReadFile, ReadNew, AppendFile, WriteFile, DeleteEntry,
                  StoreEntry, PrintExpand, Executing
    <3> QED BY <3>1 DEF Advance
  <2>6. CASE SkipSave(t) BY <2>6 DEF SkipSave, IterationEnds
  <2>7. CASE WriteSave(t) BY <2>7 DEF WriteSave, Executed, reading
  <2>8. CASE Add(t) BY <2>8 DEF Add, IterationEnds
  <2> QED BY <1>3, <2>1, <2>2, <2>3, <2>4, <2>5, <2>6, <2>7, <2>8 DEF Step
<1> QED BY <1>1, <1>2, <1>3 DEF Next, Step

-----------------------------------------------------------------------------
(* The flag.                                                               *)

\* Executing one more command adds what that command asks for.
LEMMA AskedAfter ==
  ASSUME TypeOK, NEW s \in Shell
  PROVE  AskedBefore(s, next[s]) <=>
           AskedBefore(s, next[s] - 1) \/ line[s][next[s]].op \in {"store", "print"}
<1>1. next[s] \in Nat \ {0}
  BY DEF TypeOK
<1>2. 1..next[s] = 1..(next[s] - 1) \union {next[s]}
  BY <1>1
<1> QED BY <1>2 DEF AskedBefore

\* The flag is set by the commands of the line that is executed, and by nothing else.
LEMMA FlagStep == TypeOK /\ LineInv /\ FlagInv /\ [Next]_vars => FlagInv'
<1> SUFFICES ASSUME TypeOK, LineInv, FlagInv, [Next]_vars, NEW t \in Shell
             PROVE FlagIsOfTheLine(t)'
  BY DEF FlagInv
<1>0. FlagIsOfTheLine(t)
  BY DEF FlagInv
<1>1. CASE UNCHANGED vars
  BY <1>0, <1>1 DEF vars, reading, FlagIsOfTheLine, AskedBefore
<1>2. ASSUME NEW s \in Shell, Step(s), s # t PROVE FlagIsOfTheLine(t)'
  <2>1. SameIn(t)
    BY <1>2, OthersKeep
  <2> QED BY <1>0, <2>1 DEF SameIn, FlagIsOfTheLine, AskedBefore
<1>3. ASSUME Step(t) PROVE FlagIsOfTheLine(t)'
  <2>1. CASE Start(t)
    BY <1>0, <2>1 DEF TypeOK, Start, reading, FlagIsOfTheLine
  <2>2. CASE End(t)
    BY <2>2 DEF TypeOK, End, FlagIsOfTheLine
  <2>3. CASE Enter(t)
    <3>1. pc'[t] = "run" /\ next'[t] = 1 /\ ~do_not_save_history'[t] /\ line'[t] \in Line
      BY <1>0, <2>3 DEF TypeOK, Enter, FlagIsOfTheLine, LineInv, LineBegins
    <3>2. Len(line'[t]) \in Nat
      BY <3>1, LineAssumption
    <3>3. ~AskedBefore(t, next[t] - 1)'
      BY <3>1 DEF AskedBefore
    <3> QED BY <3>1, <3>2, <3>3 DEF FlagIsOfTheLine
  <2>4. CASE Other(t)
    <3>1. /\ pc[t] = "run" /\ pc'[t] = "run" /\ next[t] <= Len(line[t])
          /\ next[t] \in Nat \ {0} /\ next'[t] = next[t] + 1
          /\ line[t] \in Seq(Command) /\ line[t][next[t]].op = "run"
          /\ do_not_save_history'[t] = do_not_save_history[t]
      BY <2>4 DEF TypeOK, Other, Executing
    <3>2. /\ next[t] <= Len(line'[t])
          /\ \A i \in 1..next[t] : line'[t][i] = line[t][i]
      <4>1. CASE line' = line
        BY <3>1, <4>1
      <4>2. CASE line'[t] = SubSeq(line[t], 1, next[t])
        BY <3>1, <4>2
      <4> QED BY <2>4, <4>1, <4>2 DEF TypeOK, Other
    <3>3. AskedBefore(t, next[t] - 1)' <=> AskedBefore(t, next[t])
      <4>1. next'[t] - 1 = next[t]
        BY <3>1
      <4> QED BY <3>2, <4>1 DEF AskedBefore
    <3>4. AskedBefore(t, next[t]) <=> AskedBefore(t, next[t] - 1)
      BY <3>1, AskedAfter
    <3>5. Len(line'[t]) \in Nat
      BY <2>4, TypeStep DEF TypeOK
    <3>6. next'[t] <= Len(line'[t]) + 1
      BY <3>1, <3>2, <3>5
    <3>7. do_not_save_history[t] <=> AskedBefore(t, next[t] - 1)
      BY <1>0, <3>1 DEF FlagIsOfTheLine
    <3> QED BY <3>1, <3>3, <3>4, <3>6, <3>7 DEF FlagIsOfTheLine
  <2>5. CASE BuiltIn(t)
    <3>1. /\ pc[t] = "run" /\ next[t] <= Len(line[t]) /\ Advance(t)
      BY <2>5 DEF BuiltIn, Clear, ReadFile, ReadNew, AppendFile, WriteFile, DeleteEntry,
                  StoreEntry, PrintExpand, Executing
    <3>2. /\ pc'[t] = "run" /\ next'[t] = next[t] + 1 /\ line'[t] = line[t]
          /\ next[t] \in Nat \ {0} /\ Len(line[t]) \in Nat
      BY <3>1 DEF TypeOK, Advance
    <3>3. AskedBefore(t, next[t] - 1)' <=> AskedBefore(t, next[t])
      <4>1. next'[t] - 1 = next[t]
        BY <3>2
      <4> QED BY <3>2, <4>1 DEF AskedBefore
    <3>4. do_not_save_history[t] <=> AskedBefore(t, next[t] - 1)
      BY <1>0, <3>1 DEF FlagIsOfTheLine
    <3>5. do_not_save_history'[t] <=> AskedBefore(t, next[t])
      <4>1. CASE StoreEntry(t) \/ PrintExpand(t)
        <5>1. do_not_save_history'[t] /\ line[t][next[t]].op \in {"store", "print"}
          BY <4>1 DEF TypeOK, StoreEntry, PrintExpand, Executing
        <5> QED BY <5>1, AskedAfter
      <4>2. CASE ~(StoreEntry(t) \/ PrintExpand(t))
        <5>1. /\ do_not_save_history'[t] = do_not_save_history[t]
              /\ line[t][next[t]].op \notin {"store", "print"}
          BY <2>5, <4>2 DEF BuiltIn, Clear, ReadFile, ReadNew, AppendFile, WriteFile, DeleteEntry,
                  Executing
        <5> QED BY <3>4, <5>1, AskedAfter
      <4> QED BY <4>1, <4>2
    <3>6. next'[t] <= Len(line'[t]) + 1
      BY <3>1, <3>2
    <3> QED BY <3>2, <3>3, <3>5, <3>6 DEF FlagIsOfTheLine
  <2>6. CASE SkipSave(t)
    BY <2>6 DEF TypeOK, SkipSave, IterationEnds, FlagIsOfTheLine
  <2>7. CASE WriteSave(t)
    BY <2>7 DEF TypeOK, WriteSave, FlagIsOfTheLine
  <2>8. CASE Add(t)
    BY <2>8 DEF TypeOK, Add, IterationEnds, FlagIsOfTheLine
  <2> QED BY <1>3, <2>1, <2>2, <2>3, <2>4, <2>5, <2>6, <2>7, <2>8 DEF Step
<1> QED BY <1>1, <1>2, <1>3 DEF Next, Step

-----------------------------------------------------------------------------
(* last_cmd.                                                               *)

LEMMA NewestStep == TypeOK /\ LineInv /\ NewestInv /\ [Next]_vars => NewestInv'
<1> SUFFICES ASSUME TypeOK, LineInv, NewestInv, [Next]_vars, NEW t \in Shell
             PROVE LastCmdInv(t)'
  BY DEF NewestInv
<1>0. LastCmdInv(t)
  BY DEF NewestInv
<1>1. CASE UNCHANGED vars
  BY <1>0, <1>1 DEF vars, LastCmdInv, Newest, Last
<1>2. ASSUME NEW s \in Shell, Step(s), s # t PROVE LastCmdInv(t)'
  <2>1. SameIn(t)
    BY <1>2, OthersKeep
  <2> QED BY <1>0, <2>1 DEF SameIn, LastCmdInv
<1>3. ASSUME pc[t] # "off",
             list'[t] = list[t], last_cmd'[t] = last_cmd[t], disturbed' = disturbed
      PROVE  LastCmdInv(t)'
  BY <1>0, <1>3 DEF LastCmdInv
<1>4. ASSUME Step(t) PROVE LastCmdInv(t)'
  <2>1. CASE Start(t)
    BY <2>1 DEF TypeOK, Start, LastCmdInv
  <2>2. CASE End(t)
    BY <2>2 DEF TypeOK, End, LastCmdInv
  <2>3. CASE Enter(t)
    BY <1>3, <2>3 DEF Enter
  <2>4. CASE Other(t)
    BY <1>3, <2>4 DEF Other, Executing
  <2>5. CASE Clear(t) \/ ReadFile(t) \/ ReadNew(t)
    <3>1. t \in disturbed'
      BY <2>5 DEF Clear, ReadFile, ReadNew
    <3> QED BY <3>1 DEF LastCmdInv
  <2>6. CASE AppendFile(t) \/ WriteFile(t) \/ PrintExpand(t)
    BY <1>3, <2>6 DEF AppendFile, WriteFile, PrintExpand, Executing
  <2>7. CASE DeleteEntry(t)
    <3> DEFINE n == line[t][next[t]].offset
    <3>1. n \in Nat /\ list[t] \in Seq(Command)
      BY <2>7, CommandFields DEF TypeOK, DeleteEntry, Executing
    <3>2. /\ pc[t] # "off" /\ last_cmd' = last_cmd /\ disturbed' = disturbed
          /\ \/ Removable(t, n) /\ list'[t] = RemoveAt(list[t], n)
             \/ list'[t] = list[t]
      BY <2>7 DEF TypeOK, DeleteEntry, Executing
    <3> HIDE DEF n
    <3>3. CASE Removable(t, n) /\ list'[t] = RemoveAt(list[t], n)
      <4>1. Newest(list'[t]) = Newest(list[t])
        BY <3>1, <3>3, RemoveAtFacts DEF Removable
      <4> QED BY <1>0, <3>2, <4>1 DEF LastCmdInv
    <3> QED BY <1>3, <3>2, <3>3
  <2>8. CASE StoreEntry(t)
    <3>1. last_cmd'[t] = Newest(list'[t])
      BY <2>8 DEF TypeOK, StoreEntry, reset_last_command
    <3> QED BY <3>1 DEF LastCmdInv
  <2>9. CASE SkipSave(t)
    BY <1>3, <2>9 DEF SkipSave, Executed
  <2>10. CASE WriteSave(t)
    BY <1>3, <2>10 DEF WriteSave, Executed
  <2>11. CASE Add(t)
    <3>1. /\ Head(line[t]) \in Command /\ list[t] \in Seq(Command)
      BY <2>11 DEF TypeOK, Add, LineInv, LineBegins
    <3>2. last_cmd'[t] = Head(line[t]) /\ list'[t] = Append(list[t], Head(line[t]))
      BY <2>11 DEF TypeOK, Add, add_history
    <3> QED BY <3>1, <3>2, AppendFacts DEF LastCmdInv
  <2> QED
    BY <1>4, <2>1, <2>2, <2>3, <2>4, <2>5, <2>6, <2>7, <2>8, <2>9, <2>10, <2>11 DEF Step, BuiltIn
<1> QED BY <1>1, <1>2, <1>4 DEF Next, Step

-----------------------------------------------------------------------------
(* The file.                                                               *)

\* What a step does to the default file: nothing, or one shell's list is in it and
\* that shell is the only current one, or nobody is.
LEMMA FileOrOwner ==
  ASSUME TypeOK, NEW s \in Shell, Step(s)
  PROVE  \/ file' = file /\ current' \subseteq current \union {s}
         \/ current' \subseteq {s} /\ file'[DEFAULT_HISTFILE] = list[s]
         \/ current' = {}
         \/ /\ file'[DEFAULT_HISTFILE] = file[DEFAULT_HISTFILE]
            /\ current' = current
         \/ file[DEFAULT_HISTFILE] = NoFile /\ current' = current \ {s}
<1> USE PathAssumption DEF TypeOK
<1>1. ASSUME NEW p \in Path, write_history(s, p)
      PROVE  \/ file' = file /\ current' \subseteq current
             \/ current' \subseteq {s} /\ file'[DEFAULT_HISTFILE] = list[s]
             \/ /\ file'[DEFAULT_HISTFILE] = file[DEFAULT_HISTFILE]
                /\ current' = current
             \/ file[DEFAULT_HISTFILE] = NoFile /\ current' = current \ {s}
  BY <1>1 DEF write_history
<1>2. CASE Start(s) BY <1>2 DEF Start
<1>3. CASE End(s) BY <1>3 DEF End
<1>4. CASE Enter(s) BY <1>4 DEF Enter
<1>5. CASE Other(s) BY <1>5 DEF Other
<1>6. CASE Clear(s) BY <1>6 DEF Clear
<1>7. CASE ReadFile(s) BY <1>7 DEF ReadFile
<1>8. CASE ReadNew(s) BY <1>8 DEF ReadNew
<1>9. CASE AppendFile(s) BY <1>9 DEF AppendFile
<1>10. CASE WriteFile(s) BY <1>1, <1>10 DEF WriteFile
<1>11. CASE DeleteEntry(s) BY <1>11 DEF DeleteEntry
<1>12. CASE StoreEntry(s) BY <1>12 DEF StoreEntry
<1>13. CASE PrintExpand(s) BY <1>13 DEF PrintExpand
<1>14. CASE SkipSave(s) BY <1>14 DEF SkipSave, IterationEnds
<1>15. CASE WriteSave(s) BY <1>1, <1>15 DEF WriteSave
<1>16. CASE Add(s) BY <1>16 DEF Add, IterationEnds
<1> QED
  BY <1>2, <1>3, <1>4, <1>5, <1>6, <1>7, <1>8, <1>9, <1>10, <1>11, <1>12, <1>13, <1>14, <1>15, <1>16
  DEF Step, BuiltIn

\* A current shell's file exists.
LEMMA CurrentHasFile ==
  ASSUME TypeOK, SavedInv, NEW s \in current
  PROVE  file[DEFAULT_HISTFILE] # NoFile
<1>1. s \in Shell /\ list[s] \in Seq(Command)
  BY DEF TypeOK
<1>2. Front(list[s]) \in Seq(Command)
  BY <1>1 DEF Front
<1>3. file[DEFAULT_HISTFILE] \in {list[s], Front(list[s])}
  BY <1>1 DEF SavedInv, FileInv
<1> QED BY <1>1, <1>2, <1>3, NoneAssumption

\* The file and the list part by the newest entry only.
LEMMA SavedStep == TypeOK /\ LineInv /\ SavedInv /\ [Next]_vars => SavedInv'
<1> SUFFICES ASSUME TypeOK, LineInv, SavedInv, [Next]_vars, NEW t \in Shell, t \in current'
             PROVE FileInv(t)'
  BY DEF SavedInv, FileInv
<1>0. FileInv(t)
  BY DEF SavedInv
<1>1. CASE UNCHANGED vars
  BY <1>0, <1>1 DEF vars, FileInv, Front
<1>2. ASSUME NEW s \in Shell, Step(s), s # t PROVE FileInv(t)'
  <2>1. SameIn(t)
    BY <1>2, OthersKeep
  <2>2. t \in current /\ file'[DEFAULT_HISTFILE] = file[DEFAULT_HISTFILE]
    <3>1. CASE file[DEFAULT_HISTFILE] = NoFile /\ current' = current \ {s}
      BY <3>1, CurrentHasFile
    <3> QED BY <1>2, <3>1, FileOrOwner
  <2> QED BY <1>0, <2>1, <2>2 DEF SameIn, FileInv
<1>3. ASSUME t \in current, pc[t] # "add" \/ pc'[t] = "add",
             file'[DEFAULT_HISTFILE] = file[DEFAULT_HISTFILE], list'[t] = list[t],
             pc'[t] = "add" => pc[t] = "add"
      PROVE  FileInv(t)'
  BY <1>0, <1>3 DEF FileInv
<1>4. ASSUME file'[DEFAULT_HISTFILE] = list'[t] PROVE FileInv(t)'
  BY <1>4 DEF FileInv
<1>5. ASSUME NEW p \in Path, write_history(t, p), list'[t] = list[t]
      PROVE  \/ FileInv(t)'
             \/ /\ p # DEFAULT_HISTFILE /\ t \in current
                /\ file'[DEFAULT_HISTFILE] = file[DEFAULT_HISTFILE]
  <2>1. CASE p = DEFAULT_HISTFILE
    <3>1. file'[DEFAULT_HISTFILE] = list[t]
      BY <1>5, <2>1 DEF TypeOK, write_history
    <3> QED BY <1>4, <1>5, <3>1
  <2>2. CASE p # DEFAULT_HISTFILE
    BY <1>5, <2>2, PathAssumption DEF TypeOK, write_history
  <2> QED BY <2>1, <2>2
<1>6. ASSUME Step(t) PROVE FileInv(t)'
  <2>1. CASE Start(t)
    <3>1. file' = file /\ list'[t] = Contents(DEFAULT_HISTFILE)
      BY <2>1 DEF TypeOK, Start
    <3>2. file[DEFAULT_HISTFILE] # NoFile
      BY <2>1, CurrentHasFile DEF Start
    <3> QED BY <1>4, <3>1, <3>2 DEF Contents
  <2>2. CASE End(t)
    BY <2>2 DEF End
  <2>3. CASE Enter(t)
    BY <1>3, <2>3 DEF TypeOK, Enter
  <2>4. CASE Other(t)
    BY <1>3, <2>4 DEF Other
  <2>5. CASE Clear(t) \/ ReadNew(t) \/ StoreEntry(t)
    BY <2>5 DEF Clear, ReadNew, StoreEntry
  <2>6. CASE ReadFile(t)
    <3>1. /\ HISTFILE[t] = DEFAULT_HISTFILE /\ file[DEFAULT_HISTFILE] # NoFile
          /\ file' = file /\ list'[t] = ReadList(t)
      BY <2>6 DEF TypeOK, ReadFile
    <3> QED BY <1>4, <3>1 DEF ReadList, Contents
  <2>7. CASE AppendFile(t)
    <3>1. /\ t \in current /\ pc' = pc /\ list' = list
          /\ file'[DEFAULT_HISTFILE] = file[DEFAULT_HISTFILE]
      BY <2>7, PathAssumption DEF TypeOK, AppendFile, Advance
    <3> QED BY <1>3, <3>1
  <2>8. CASE WriteFile(t)
    <3>1. HISTFILE[t] \in Path /\ write_history(t, HISTFILE[t]) /\ list' = list /\ pc' = pc
      BY <2>8 DEF TypeOK, WriteFile, Advance
    <3> QED BY <1>3, <1>5, <3>1
  <2>9. CASE DeleteEntry(t)
    <3>1. list' = list /\ t \in current /\ file' = file /\ pc' = pc
      BY <2>9 DEF DeleteEntry, Advance
    <3> QED BY <1>3, <3>1
  <2>10. CASE PrintExpand(t)
    BY <1>3, <2>10 DEF PrintExpand, Advance
  <2>11. CASE SkipSave(t)
    BY <1>3, <2>11 DEF TypeOK, SkipSave, Executed, IterationEnds
  <2>12. CASE WriteSave(t)
    BY <1>5, <2>12, PathAssumption DEF WriteSave
  <2>13. CASE Add(t)
    <3>1. /\ Head(line[t]) \in Command /\ list[t] \in Seq(Command)
      BY <2>13 DEF TypeOK, Add, LineInv, LineBegins
    <3>2. /\ file' = file /\ t \in current /\ pc[t] = "add" /\ pc'[t] = "prompt"
          /\ list'[t] = Append(list[t], Head(line[t]))
      BY <2>13 DEF TypeOK, Add, add_history, IterationEnds
    <3>3. file[DEFAULT_HISTFILE] = list[t]
      BY <1>0, <3>2 DEF FileInv
    <3>4. Front(list'[t]) = list[t]
      BY <3>1, <3>2, AppendFacts
    <3> QED BY <3>2, <3>3, <3>4 DEF FileInv
  <2> QED
    BY <1>6, <2>1, <2>2, <2>3, <2>4, <2>5, <2>6, <2>7, <2>8, <2>9, <2>10, <2>11, <2>12, <2>13
    DEF Step, BuiltIn
<1> QED BY <1>1, <1>2, <1>6 DEF Next, Step

-----------------------------------------------------------------------------
(* The theorems.                                                           *)

LEMMA Initially == Init => IInv
<1> SUFFICES ASSUME Init PROVE IInv
  OBVIOUS
<1>1. LineInv /\ FlagInv /\ NewestInv /\ SavedInv
  BY DEF Init, LineInv, LineBegins, FlagInv, FlagIsOfTheLine, NewestInv, LastCmdInv, SavedInv,
         FileInv
<1> QED BY <1>1, TypeInit DEF IInv

LEMMA Inductive == IInv /\ [Next]_vars => IInv'
BY TypeStep, LineStep, FlagStep, NewestStep, SavedStep DEF IInv

THEOREM Invariance == Spec => []IInv
BY Initially, Inductive, PTL DEF Spec

\* Every variable keeps to its type.
THEOREM TypeCorrect == Spec => []TypeOK
<1>1. IInv => TypeOK
  BY DEF IInv
<1> QED BY <1>1, Invariance, PTL

\* A shell that is killed at any point loses at most its newest line: the file is
\* written with all the others before the newest is put in the list.
THEOREM CrashLosesTheNewest == Spec => []OnlyNewestUnsaved
<1>1. IInv => OnlyNewestUnsaved
  BY DEF IInv, TypeOK, SavedInv, FileInv, OnlyNewestUnsaved
<1> QED BY <1>1, Invariance, PTL

\* The line a repetition is compared with is the newest entry of the list.
THEOREM RepetitionsAreRecognised == Spec => []LastCmdIsNewest
<1>1. IInv => LastCmdIsNewest
  BY DEF IInv, NewestInv, LastCmdInv, LastCmdIsNewest
<1> QED BY <1>1, Invariance, PTL

\* A line is left out exactly when it asks for it or repeats the one before.
LEMMA SavingStep ==
  ASSUME IInv, [Next]_vars, NEW t \in Shell, pc[t] = "run", pc'[t] \in {"prompt", "add"}
  PROVE  pc'[t] = "prompt" <=> AskedNotToSave(t) \/ Repeated(t)
<1> USE DEF IInv
<1>1. Step(t)
  <2>1. pc' # pc
    OBVIOUS
  <2>2. ASSUME NEW s \in Shell, Step(s), s # t PROVE FALSE
    BY <2>2, OthersKeep DEF SameIn
  <2> QED BY <2>1, <2>2 DEF Next, Step, vars
<1>2. SkipSave(t) \/ WriteSave(t)
  <2>1. ~Start(t) /\ ~Enter(t) /\ ~Add(t)
    BY DEF Start, Enter, Add
  <2>2. ~End(t)
    BY DEF TypeOK, End
  <2>3. ~Other(t) /\ ~BuiltIn(t)
    BY DEF Other, BuiltIn, Clear, ReadFile, ReadNew, AppendFile, WriteFile, DeleteEntry,
           StoreEntry, PrintExpand, Advance
  <2> QED BY <1>1, <2>1, <2>2, <2>3 DEF Step
<1>3. do_not_save_history[t] <=> AskedNotToSave(t)
  <2>1. /\ next[t] > Len(line[t]) /\ next[t] <= Len(line[t]) + 1
        /\ next[t] \in Nat /\ line[t] \in Seq(Command) /\ Len(line[t]) \in Nat
    BY <1>2 DEF SkipSave, WriteSave, Executed, FlagInv, FlagIsOfTheLine, TypeOK
  <2>2. next[t] - 1 = Len(line[t])
    BY <2>1
  <2>3. do_not_save_history[t] <=> AskedBefore(t, next[t] - 1)
    BY DEF FlagInv, FlagIsOfTheLine
  <2> QED BY <2>2, <2>3 DEF AskedBefore, AskedNotToSave
<1>4. CASE SkipSave(t)
  BY <1>3, <1>4 DEF TypeOK, SkipSave, IterationEnds
<1>5. CASE WriteSave(t)
  BY <1>3, <1>5 DEF TypeOK, WriteSave
<1> QED BY <1>2, <1>4, <1>5

\* A line stays out of the history exactly when one of its own commands was
\* history -s or -p, or it repeats the line before it.
THEOREM LinesAreSaved == Spec => SavedUnlessAsked
<1>1. IInv /\ [Next]_vars =>
        [\A s \in Shell :
           pc[s] = "run" /\ pc'[s] \in {"prompt", "add"}
             => (pc'[s] = "prompt" <=> AskedNotToSave(s) \/ Repeated(s))]_vars
  BY SavingStep
<1> QED BY <1>1, Invariance, PTL DEF Spec, SavedUnlessAsked
=============================================================================
