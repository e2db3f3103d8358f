----------------------------- MODULE AtomicFile -----------------------------
(***************************************************************************)
(* What the shells rely on: the history file is only ever replaced by one  *)
(* shell's whole list or extended by one, in one step, whoever else reads, *)
(* writes or is killed meanwhile; and their lists hold lines that users    *)
(* entered, whenever they read it.                                         *)
(***************************************************************************)
CONSTANTS Shell, NoFile, Entered, Text(_), Joined(_, _)

VARIABLES file,      \* the text under the name of the history file
          list,      \* the history list of each shell
          void       \* nothing is promised any more

Create == file = NoFile /\ file' = Text(<<>>)
Replace(s) == file' = Text(list[s])
Extend(s) == file # NoFile /\ file' = Joined(file, Text(list[s]))
WholeLines == \A s \in Shell : \A i \in DOMAIN list'[s] : list'[s][i] \in Entered

Next ==
  \/ void'
  \/ /\ UNCHANGED file \/ Create \/ \E s \in Shell : Replace(s) \/ Extend(s)
     /\ WholeLines
Spec == [][Next]_<<file, list>>
=============================================================================
