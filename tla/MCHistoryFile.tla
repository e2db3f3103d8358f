--------------------------- MODULE MCHistoryFile ---------------------------
EXTENDS HistoryFile

CONSTANTS history, absent

\* The copies of the first and the third have the same name.
MCShell == {7, 8, 100007}
MCStarted == {{7}, {7, 8}, {7, 100007}}

\* A short line, and one that looks like a timestamp when it comes first.
a == <<"a">>
b == <<"#", "1", "b">>
MCChar == {"LF", "#", "1", "a", "b"}
MCLine == {a, b}
MCFound == {<<b, a>>}
=============================================================================
