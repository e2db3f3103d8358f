------------------------------- MODULE Texts -------------------------------
(***************************************************************************)
(* What the shell asks of its strings: string.c. A text is a sequence of     *)
(* characters, a character a string of length one; positions count from 1,   *)
(* and 0 is none.                                                            *)
(***************************************************************************)
EXTENDS Integers, Sequences, SequencesExt, TLC

Digit == {"0", "1", "2", "3", "4", "5", "6", "7", "8", "9"}
Letter == {"a", "b", "x", "y", "A", "B", "Q", "_"}
Blank == {" ", "\t", "\n"}

string__startswith(s, prefix) == IsPrefix(prefix, s)
string__endswith(s, suffix) == IsSuffix(suffix, s)
From(s, i) == SubSeq(s, i, Len(s))
Before(s, i) == SubSeq(s, 1, i - 1)

string__indexof(s, substr) ==
  LET places == {i \in 1..Len(s) - Len(substr) + 1 : string__startswith(From(s, i), substr)}
  IN IF places = {} THEN 0 ELSE Min(places)

string__lastindexof(s, substr) ==
  LET places == {i \in 1..Len(s) - Len(substr) + 1 : string__startswith(From(s, i), substr)}
  IN IF places = {} THEN 0 ELSE Max(places)

Index(s, character) == string__indexof(s, <<character>>)

\* Mutant: the last character of what is replaced stays.
string__replace_behind(s, old, new) ==
  LET i == string__indexof(s, old)
  IN IF i = 0 THEN s ELSE Before(s, i) \o new \o From(s, Max({i, i + Len(old) - 1}))

string__replace(s, old, new) ==
  LET i == string__indexof(s, old)
  IN IF i = 0 THEN s ELSE Before(s, i) \o new \o From(s, i + Len(old))

string__remove_prefix(s, prefix) ==
  IF string__startswith(s, prefix) THEN From(s, Len(prefix) + 1) ELSE s
string__remove_suffix(s, suffix) ==
  IF string__endswith(s, suffix) THEN SubSeq(s, 1, Len(s) - Len(suffix)) ELSE s

string__remove_quotes(s) ==
  IF Len(s) >= 2 /\ Head(s) = Last(s) /\ Head(s) \in {"\"", "'"} THEN Tail(Front(s)) ELSE s

Upper(c) == CASE c = "a" -> "A" [] c = "b" -> "B" [] OTHER -> c
Lower(c) == CASE c = "A" -> "a" [] c = "B" -> "b" [] OTHER -> c

Value(digit) == CHOOSE n \in 0..9 : ToString(n) = digit
Numeral(n) == <<ToString(n)>>

\* strtol: an optional sign and the digits behind it; where the number ends.
strtol(s) ==
  LET sign == IF s # <<>> /\ Head(s) \in {"-", "+"} THEN 1 ELSE 0
      end == CHOOSE n \in sign..Len(s) :
               /\ \A i \in sign + 1..n : s[i] \in Digit
               /\ n < Len(s) => s[n + 1] \notin Digit
      digits == SubSeq(s, sign + 1, end)
      number == FoldLeft(LAMBDA n, d : 10 * n + Value(d), 0, digits)
  IN IF digits = <<>> THEN [number |-> 0, end |-> 0]
     ELSE [number |-> IF sign = 1 /\ Head(s) = "-" THEN -number ELSE number, end |-> end]

string__trim(s) ==
  LET kept == {i \in DOMAIN s : s[i] \notin Blank}
  IN IF kept = {} THEN <<>> ELSE SubSeq(s, Min(kept), Max(kept))

string__isdigit(s) == s # <<>> /\ \A i \in DOMAIN s : s[i] \in Digit
=============================================================================
