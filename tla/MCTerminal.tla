---- MODULE MCTerminal ----
EXTENDS Terminal

\* The user's settings, and those of a command that turns echo off.
Settings == {[f \in Flags |-> TRUE], [f \in Flags |-> f # "echo"]}
\* Started by nohup, and from a shell without job control.
IgnoredSignals == {"HUP", "TSTP"}
====
