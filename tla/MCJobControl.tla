---------------------------- MODULE MCJobControl ----------------------------
(* Two or three process ids, a few commands: enough for a job and a pipeline *)
(* that overlap, and for a pid that is used again.                           *)
EXTENDS JobControl, TLC

CONSTANTS p1, p2, p3

MCPid == {p1, p2, p3}
MCWaitStatus == {256, SIGINT}
MCExitCode == {0, 3, -997}
=============================================================================
