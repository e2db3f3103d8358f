-------------------------- MODULE CommandLineProofs --------------------------
(* Proofs about CommandLine, for any tokens in any order, any number of        *)
(* segments and any bound of the redirections: no command that was given back   *)
(* is used or given back again, whatever the parser refused before.             *)
EXTENDS CommandLine, FiniteSetTheorems, SequenceTheorems, WellFoundedInduction, TLAPS

-----------------------------------------------------------------------------
(* The automaton: which states yyparse pushes on which.                        *)

\* Where a command may begin, behind what more of one may follow, and what reads
\* a redirection.
State == 0..58
Beginning == {1, 13, 35, 37, 38, 39}
Within == {20, 21, 40, 45, 56}
Redirecting == 5..12

Edge(s, t) ==
  \/ s = 0 /\ t = 1
  \/ s = 1 /\ t \in {2, 14, 15, 16}
  \/ s \in Beginning \cup Within /\ t \in Redirecting
  \/ s \in Beginning \cup {20} /\ t \in {3, 4}
  \/ s \in Beginning /\ t \in {13, 19, 20, 21, 22}
  \/ s \in {1, 13, 35, 37, 38} /\ t = 18
  \/ s \in {1, 13, 35} /\ t = 17
  \/ s \in 5..11 /\ t = s + 18
  \/ s = 12 /\ t \in {30, 31, 32}
  \/ s \in {30, 31, 32} /\ t = s + 18
  \/ s = 13 /\ t = 33
  \/ s = 15 /\ t \in {34, 35, 36}
  \/ s \in {16, 33, 52} /\ t \in {37, 38}
  \/ s \in {17, 53, 54} /\ t = 39
  \/ s = 20 /\ t \in {40, 41}
  \/ s = 21 /\ t = 45
  \/ s = 40 /\ t = 56
  \/ s \in {21, 40} /\ t \in {46, 47}
  \/ s \in {21, 40, 45, 56} /\ t \in {42, 43, 44}
  \/ s \in {45, 56} /\ t \in {57, 58}
  \/ s = 33 /\ t = 51
  \/ s = 35 /\ t = 52
  \/ s \in {37, 38, 39} /\ t = s + 16

\* What is on top when a command is being collected from words and redirections,
\* when one has just been made of them or a list of commands, and when neither.
Collecting == {20, 21, 22, 40, 41, 45, 46, 47, 56, 57, 58}
CommandStates == {17, 18, 19, 53, 54, 55}
ListStates == {16, 33, 52}
Collected == CommandStates \cup ListStates \cup {51}

LEMMA ShiftEdge ==
  ASSUME NEW s \in State, NEW t \in 0..YYNTOKENS - 1, Shifts(s, t)
  PROVE  /\ ShiftTo(s, t) \in State /\ Edge(s, ShiftTo(s, t))
         /\ ShiftTo(s, t) \notin Collecting \cup CommandStates \cup ListStates
         /\ ShiftTo(s, t) = 51 => s = 33
BY SMTT(100) DEF State, Edge, Beginning, Within, Redirecting, Collecting, CommandStates, ListStates,
       Shifts, ShiftTo, IsDefault, Entry, At, yypact, yytable, yycheck, YYLAST, YYPACT_NINF, YYNTOKENS

\* Where a reduction goes: the nonterminal's state, but on top of some states.
GotoTable(s, r) ==
  IF r \in 2..3 THEN 1
  ELSE IF r \in 4..5 THEN 14
  ELSE IF r \in 6..8 THEN 15
  ELSE IF r \in 9..11 THEN IF s = 13 THEN 33 ELSE IF s = 35 THEN 52 ELSE 16
  ELSE IF r \in 12..13 THEN IF s = 37 THEN 53 ELSE IF s = 38 THEN 54 ELSE 17
  ELSE IF r \in 14..15 THEN IF s = 39 THEN 55 ELSE 18
  ELSE IF r \in 16..19 THEN 19
  ELSE IF r \in 20..21 THEN 20
  ELSE IF r \in 22..25 THEN IF s = 40 THEN 56 ELSE 45
  ELSE IF r \in 26..28 THEN IF s \in {45, 56} THEN 57 ELSE 46
  ELSE IF r \in 29..30 THEN IF s = 20 THEN 40 ELSE 21
  ELSE IF s = 20 THEN 41 ELSE IF s \in {21, 40} THEN 47 ELSE IF s \in {45, 56} THEN 58 ELSE 22

\* The entries of yypgoto and yydefgoto for a nonterminal.
GotoFrom(s, base, default) == IF Entry(base + s, s) THEN At(yytable, base + s) ELSE default

LEMMA GotoOfNonterminal ==
  ASSUME NEW r \in 2..40
  PROVE  \A s : Goto(s, r) = GotoFrom(s, At(yypgoto, At(yyr1, r) - YYNTOKENS),
                                         At(yydefgoto, At(yyr1, r) - YYNTOKENS))
BY DEF Goto, GotoFrom

LEMMA Bases ==
  ASSUME NEW r \in 2..40
  PROVE  LET base == At(yypgoto, At(yyr1, r) - YYNTOKENS)
             default == At(yydefgoto, At(yyr1, r) - YYNTOKENS)
         IN  /\ r \in 2..3 => base = -39 /\ default = 1
             /\ r \in 4..5 => base = -39 /\ default = 14
             /\ r \in 6..8 => base = -39 /\ default = 15
             /\ r \in 9..11 => base = -11 /\ default = 16
             /\ r \in 12..13 => base = -9 /\ default = 17
             /\ r \in 14..15 => base = 38 /\ default = 18
             /\ r \in 16..19 => base = -39 /\ default = 19
             /\ r \in 20..21 => base = -39 /\ default = 20
             /\ r \in 22..25 => base = 36 /\ default = 45
             /\ r \in 26..28 => base = -38 /\ default = 46
             /\ r \in 29..30 => base = 58 /\ default = 21
             /\ r \in 31..40 => base = -20 /\ default = 22
BY SMTT(60) DEF At, yypgoto, yydefgoto, yyr1, YYNTOKENS

LEMMA GotosOf ==
  ASSUME NEW s \in State
  PROVE  /\ \A d \in Nat : GotoFrom(s, -39, d) = d
         /\ GotoFrom(s, -11, 16) = IF s = 13 THEN 33 ELSE IF s = 35 THEN 52 ELSE 16
         /\ GotoFrom(s, -9, 17) = IF s = 37 THEN 53 ELSE IF s = 38 THEN 54 ELSE 17
         /\ GotoFrom(s, 38, 18) = IF s = 39 THEN 55 ELSE 18
         /\ GotoFrom(s, 36, 45) = IF s = 40 THEN 56 ELSE 45
         /\ GotoFrom(s, -38, 46) = IF s \in {45, 56} THEN 57 ELSE 46
         /\ GotoFrom(s, 58, 21) = IF s = 20 THEN 40 ELSE 21
         /\ GotoFrom(s, -20, 22) =
              IF s = 20 THEN 41 ELSE IF s \in {21, 40} THEN 47 ELSE IF s \in {45, 56} THEN 58 ELSE 22
<1> USE DEF State, GotoFrom, Entry, At, yytable, yycheck, YYLAST
<1>1. \A d \in Nat : GotoFrom(s, -39, d) = d
  BY SMTT(60)
<1>2. GotoFrom(s, -11, 16) = IF s = 13 THEN 33 ELSE IF s = 35 THEN 52 ELSE 16
  BY SMTT(60)
<1>3. GotoFrom(s, -9, 17) = IF s = 37 THEN 53 ELSE IF s = 38 THEN 54 ELSE 17
  BY SMTT(60)
<1>4. GotoFrom(s, 38, 18) = IF s = 39 THEN 55 ELSE 18
  BY SMTT(60)
<1>5. GotoFrom(s, 36, 45) = IF s = 40 THEN 56 ELSE 45
  BY SMTT(60)
<1>6. GotoFrom(s, -38, 46) = IF s \in {45, 56} THEN 57 ELSE 46
  BY SMTT(60)
<1>7. GotoFrom(s, 58, 21) = IF s = 20 THEN 40 ELSE 21
  BY SMTT(60)
<1>8. GotoFrom(s, -20, 22) =
        IF s = 20 THEN 41 ELSE IF s \in {21, 40} THEN 47 ELSE IF s \in {45, 56} THEN 58 ELSE 22
  BY SMTT(60)
<1> QED BY ONLY <1>1, <1>2, <1>3, <1>4, <1>5, <1>6, <1>7, <1>8

LEMMA GotoIs ==
  ASSUME NEW s \in State, NEW r \in 2..40
  PROVE  Goto(s, r) = GotoTable(s, r)
<1> DEFINE base == At(yypgoto, At(yyr1, r) - YYNTOKENS)
           default == At(yydefgoto, At(yyr1, r) - YYNTOKENS)
<1>1. Goto(s, r) = GotoFrom(s, base, default)
  BY GotoOfNonterminal
<1>2. /\ r \in 2..3 => base = -39 /\ default = 1
      /\ r \in 4..5 => base = -39 /\ default = 14
      /\ r \in 6..8 => base = -39 /\ default = 15
      /\ r \in 9..11 => base = -11 /\ default = 16
      /\ r \in 12..13 => base = -9 /\ default = 17
      /\ r \in 14..15 => base = 38 /\ default = 18
      /\ r \in 16..19 => base = -39 /\ default = 19
      /\ r \in 20..21 => base = -39 /\ default = 20
      /\ r \in 22..25 => base = 36 /\ default = 45
      /\ r \in 26..28 => base = -38 /\ default = 46
      /\ r \in 29..30 => base = 58 /\ default = 21
      /\ r \in 31..40 => base = -20 /\ default = 22
  BY Bases
<1> HIDE DEF base, default
<1> QED BY <1>1, <1>2, GotosOf DEF GotoTable

\* The states that reduce, by the rule they reduce by.
LEMMA RuleOf ==
  ASSUME NEW s \in State
  PROVE  /\ DefaultRule(s) \in 0..40
         /\ DefaultRule(s) = 1 => s = 2
         /\ DefaultRule(s) = 2 => s = 0
         /\ DefaultRule(s) = 6 => s = 16
         /\ DefaultRule(s) = 9 => s = 17
         /\ DefaultRule(s) = 10 => s = 53
         /\ DefaultRule(s) = 11 => s = 54
         /\ DefaultRule(s) = 12 => s = 18
         /\ DefaultRule(s) = 13 => s = 55
         /\ DefaultRule(s) = 14 => s = 19
         /\ DefaultRule(s) = 15 => s = 51
         /\ DefaultRule(s) \in 16..25 => s \in Collecting
         /\ s \in Collected => DefaultRule(s) \in {0, 6, 7} \cup 9..15
BY SMTT(60) DEF State, DefaultRule, At, yydefact, Collecting, Collected, CommandStates, ListStates

LEMMA TargetOf ==
  ASSUME NEW s \in State, NEW r \in 2..40
  PROVE  /\ GotoTable(s, r) \in State
         /\ r \in 2..8 => GotoTable(s, r) \notin Collecting \cup Collected
         /\ r \in 9..11 => GotoTable(s, r) \in ListStates
         /\ r \in 12..19 => GotoTable(s, r) \in CommandStates
         /\ r \in 20..40 => GotoTable(s, r) \in Collecting
BY SMTT(60) DEF State, GotoTable, Collecting, Collected, CommandStates, ListStates

LEMMA Apart ==
  /\ Collecting \cap Collected = {} /\ CommandStates \cap ListStates = {}
  /\ CommandStates \cup ListStates \subseteq Collected
  /\ 0 \notin Collecting \cup Collected /\ YYFINAL \notin Collecting \cup Collected
BY DEF Collecting, Collected, CommandStates, ListStates, YYFINAL

\* How long the rules are: a rule of k symbols leaves a state that may have its
\* nonterminal's on top.
LEMMA RuleLength ==
  ASSUME NEW s \in State, DefaultRule(s) # 0
  PROVE  /\ At(yyr2, DefaultRule(s)) \in 0..3
         /\ At(yyr2, DefaultRule(s)) = 0 => s = 0
BY SMTT(60) DEF State, DefaultRule, At, yydefact, yyr2

LEMMA Rules1 ==
  ASSUME NEW s \in State, At(yyr2, DefaultRule(s)) = 1
  PROVE  \/ s \in 3..4 /\ DefaultRule(s) = s + 26
         \/ s \in 42..44 /\ DefaultRule(s) = s - 16
         \/ s = 15 /\ DefaultRule(s) = 5
         \/ s = 16 /\ DefaultRule(s) = 6
         \/ s = 17 /\ DefaultRule(s) = 9
         \/ s = 18 /\ DefaultRule(s) = 12
         \/ s = 19 /\ DefaultRule(s) = 14
         \/ s = 21 /\ DefaultRule(s) = 19
         \/ s = 22 /\ DefaultRule(s) = 20
         \/ s = 46 /\ DefaultRule(s) = 24
         \/ s = 47 /\ DefaultRule(s) = 22
BY SMTT(60) DEF State, DefaultRule, At, yydefact, yyr2

LEMMA Rules2 ==
  ASSUME NEW s \in State, At(yyr2, DefaultRule(s)) = 2, DefaultRule(s) # 1
  PROVE  \/ s = 14 /\ DefaultRule(s) = 3
         \/ s = 34 /\ DefaultRule(s) = 8
         \/ s = 36 /\ DefaultRule(s) = 4
         \/ s = 40 /\ DefaultRule(s) = 17
         \/ s = 41 /\ DefaultRule(s) = 21
         \/ s = 45 /\ DefaultRule(s) = 18
         \/ s = 57 /\ DefaultRule(s) = 25
         \/ s = 58 /\ DefaultRule(s) = 23
         \/ s \in 23..29 /\ DefaultRule(s) \in 31..37
BY SMTT(60) DEF State, DefaultRule, At, yydefact, yyr2

LEMMA Rules3 ==
  ASSUME NEW s \in State, At(yyr2, DefaultRule(s)) = 3
  PROVE  \/ s \in 48..50 /\ DefaultRule(s) = s - 10
         \/ s = 51 /\ DefaultRule(s) = 15
         \/ s = 52 /\ DefaultRule(s) = 7
         \/ s = 53 /\ DefaultRule(s) = 10
         \/ s = 54 /\ DefaultRule(s) = 11
         \/ s = 55 /\ DefaultRule(s) = 13
         \/ s = 56 /\ DefaultRule(s) = 16
BY SMTT(60) DEF State, DefaultRule, At, yydefact, yyr2

LEMMA Pop0 == DefaultRule(0) = 2 /\ Edge(0, GotoTable(0, 2))
BY SMTT(60) DEF Edge, GotoTable, DefaultRule, At, yydefact, Beginning, Within, Redirecting

LEMMA Pop1 ==
  ASSUME NEW s \in State, NEW a \in State, Edge(s, a), At(yyr2, DefaultRule(a)) = 1
  PROVE  Edge(s, GotoTable(s, DefaultRule(a)))
BY Rules1, SMTT(60) DEF State, Edge, Beginning, Within, Redirecting, GotoTable

LEMMA Pop2 ==
  ASSUME NEW s \in State, NEW a \in State, NEW b \in State, Edge(s, a), Edge(a, b),
         At(yyr2, DefaultRule(b)) = 2, DefaultRule(b) # 1
  PROVE  Edge(s, GotoTable(s, DefaultRule(b)))
BY Rules2, SMTT(60) DEF State, Edge, Beginning, Within, Redirecting, GotoTable

LEMMA Pop3 ==
  ASSUME NEW s \in State, NEW a \in State, NEW b \in State, NEW c \in State,
         Edge(s, a), Edge(a, b), Edge(b, c), At(yyr2, DefaultRule(c)) = 3
  PROVE  Edge(s, GotoTable(s, DefaultRule(c)))
BY Rules3, SMTT(60) DEF State, Edge, Beginning, Within, Redirecting, GotoTable

\* What lies under the top where a rule takes more than the top.
LEMMA Under ==
  ASSUME NEW s \in State, NEW a \in State, NEW b \in State, Edge(s, a), Edge(a, b)
  PROVE  /\ b = 53 => a = 37 /\ s \in ListStates
         /\ b = 54 => a = 38 /\ s \in ListStates
         /\ b = 55 => a = 39 /\ s \in CommandStates
BY SMTT(60) DEF State, Edge, Beginning, Within, Redirecting, CommandStates, ListStates

LEMMA Bottom ==
  ASSUME NEW s \in State, NEW a \in State, Edge(s, a)
  PROVE  a # 0 /\ (a = 1 => s = 0) /\ (a = 16 => s = 1)
BY SMTT(60) DEF State, Edge, Beginning, Within, Redirecting

-----------------------------------------------------------------------------
(* Sequences of anything.                                                      *)
Sequence(s) == \E S : s \in Seq(S)

LEMMA Lengths ==
  ASSUME NEW s, Sequence(s)
  PROVE  Len(s) \in Nat /\ DOMAIN s = 1..Len(s) /\ (s = <<>> <=> Len(s) = 0)
<1>1. PICK S : s \in Seq(S)
  BY DEF Sequence
<1> QED BY <1>1

LEMMA Appending ==
  ASSUME NEW s, NEW x, Sequence(s)
  PROVE  /\ Sequence(Append(s, x))
         /\ Len(Append(s, x)) = Len(s) + 1
         /\ \A n \in 1..Len(s) : Append(s, x)[n] = s[n]
         /\ Append(s, x)[Len(s) + 1] = x
<1>1. PICK S : s \in Seq(S)
  BY DEF Sequence
<1> DEFINE T == S \cup {x}
<1>2. s \in Seq(T) /\ x \in T
  BY <1>1, SeqMonotonic
<1> HIDE DEF T
<1>3. Append(s, x) \in Seq(T)
  BY <1>2
<1> QED BY <1>2, <1>3, AppendProperties DEF Sequence

Replaced(s, i, x) == [s EXCEPT ![i] = x]

LEMMA Replacing ==
  ASSUME NEW s, NEW i, NEW x, Sequence(s)
  PROVE  /\ Sequence(Replaced(s, i, x))
         /\ Len(Replaced(s, i, x)) = Len(s)
         /\ \A n \in 1..Len(s) : Replaced(s, i, x)[n] = IF n = i THEN x ELSE s[n]
<1> USE DEF Replaced
<1>1. PICK S : s \in Seq(S)
  BY DEF Sequence
<1> DEFINE T == S \cup {x}
           t == [s EXCEPT ![i] = x]
<1>2. s \in Seq(T) /\ x \in T
  BY <1>1, SeqMonotonic
<1>3. CASE i \in 1..Len(s)
  <2> HIDE DEF T
  <2> QED BY <1>2, <1>3, ExceptSeq DEF Sequence
<1>4. CASE i \notin 1..Len(s)
  <2>1. DOMAIN s = 1..Len(s) /\ s = [n \in 1..Len(s) |-> s[n]]
    BY <1>1
  <2>2. t = s
    BY <1>4, <2>1
  <2> QED BY <1>1, <1>4, <2>2 DEF Sequence
<1> QED BY <1>3, <1>4

LEMMA Cutting ==
  ASSUME NEW s, NEW m \in Nat, Sequence(s), m <= Len(s)
  PROVE  /\ Sequence(SubSeq(s, 1, m))
         /\ Len(SubSeq(s, 1, m)) = m
         /\ \A n \in 1..m : SubSeq(s, 1, m)[n] = s[n]
<1>1. PICK S : s \in Seq(S)
  BY DEF Sequence
<1>2. \A n \in 1..m : s[n] \in S
  BY <1>1
<1>3. /\ SubSeq(s, 1, m) \in Seq(S)
      /\ Len(SubSeq(s, 1, m)) = IF 1 <= m THEN m - 1 + 1 ELSE 0
      /\ \A n \in 1..m - 1 + 1 : SubSeq(s, 1, m)[n] = s[1 + n - 1]
  BY <1>2, SubSeqProperties
<1> QED BY <1>3 DEF Sequence

-----------------------------------------------------------------------------
(* Chains. The function that walks the links exists, since they lead upwards.  *)
LEMMA SetInduction ==
  ASSUME NEW S, NEW N \in Nat, 0 \in S, \A n \in 1..N : n - 1 \in S => n \in S
  PROVE  \A n \in 0..N : n \in S
<1> DEFINE R == OpToRel(<, Nat)
           T == {n \in 0..N : n \notin S}
<1> SUFFICES ASSUME T # {} PROVE FALSE
  OBVIOUS
<1>1. T \subseteq Nat
  OBVIOUS
<1>2. PICK x \in T : \A y \in T : <<y, x>> \notin R
  <2> HIDE DEF R, T
  <2> QED BY <1>1, NatLessThanWellFounded, WFMin DEF R
<1>3. \A y \in T : ~ (y < x)
  BY <1>1, <1>2 DEF OpToRel
<1> HIDE DEF R
<1>4. x \in 1..N /\ x - 1 \in 0..N /\ x - 1 < x
  BY <1>2
<1>5. x - 1 \in S
  BY <1>3, <1>4
<1> QED BY <1>2, <1>4, <1>5

\* What a walk over the links nx gives that goes on where goes_on says so.
Following(f, n, nx, goes_on) ==
  IF n = 0 THEN <<>> ELSE <<n>> \o IF goes_on[n] THEN f[nx[n]] ELSE <<>>

IsWalk(f, N, nx, goes_on) == f = [n \in 0..N |-> Following(f, n, nx, goes_on)]

LEMMA WalkExists ==
  ASSUME NEW N \in Nat, NEW nx, NEW goes_on, \A n \in 1..N : nx[n] = 0 \/ nx[n] \in n + 1..N
  PROVE  \E f : IsWalk(f, N, nx, goes_on)
<1> DEFINE Above(k) == {0} \cup {n \in 1..N : n > N - k}
           Is(f, k) == f = [n \in Above(k) |-> Following(f, n, nx, goes_on)]
           S == {k \in Nat : \E f : Is(f, k)}
<1>1. 0 \in S
  <2> DEFINE f == [n \in {0} |-> <<>>]
  <2>1. Above(0) = {0}
    OBVIOUS
  <2>2. f = [n \in {0} |-> Following(f, n, nx, goes_on)]
    BY DEF Following
  <2> QED BY <2>1, <2>2
<1>2. ASSUME NEW k \in 1..N, k - 1 \in S PROVE k \in S
  <2>1. PICK f : Is(f, k - 1)
    BY <1>2
  <2> DEFINE m == N - k + 1
             g == [n \in Above(k) |-> IF n = m THEN Following(f, m, nx, goes_on) ELSE f[n]]
  <2>2. m \in 1..N /\ Above(k) = Above(k - 1) \cup {m} /\ m \notin Above(k - 1)
    OBVIOUS
  <2>3. \A n \in Above(k - 1) : g[n] = f[n] /\ f[n] = Following(f, n, nx, goes_on)
    BY <2>1, <2>2
  <2>4. g[m] = Following(f, m, nx, goes_on)
    BY <2>2
  <2>5. \A n \in Above(k) : n # 0 => nx[n] \in Above(k - 1)
    <3> SUFFICES ASSUME NEW n \in Above(k), n # 0 PROVE nx[n] \in Above(k - 1)
      OBVIOUS
    <3>1. n \in 1..N /\ n > N - k
      OBVIOUS
    <3>2. nx[n] = 0 \/ nx[n] \in n + 1..N
      BY <3>1
    <3> QED BY <3>1, <3>2
  <2>6. \A n \in Above(k) : g[n] = Following(g, n, nx, goes_on)
    <3> HIDE DEF g, Above, m
    <3> QED BY <2>2, <2>3, <2>4, <2>5 DEF Following
  <2>7. g = [n \in Above(k) |-> g[n]]
    OBVIOUS
  <2>8. Is(g, k)
    <3> HIDE DEF g, Above
    <3> QED BY <2>6, <2>7
  <2> HIDE DEF Is, g
  <2> QED BY <2>8
<1>3. \A k \in 0..N : k \in S
  <2> HIDE DEF S
  <2> QED BY <1>1, <1>2, SetInduction
<1>6. N \in S
  <2>1. N \in 0..N
    OBVIOUS
  <2> HIDE DEF S
  <2> QED BY <1>3, <2>1
<1>4. PICK f : Is(f, N)
  BY <1>6
<1>5. Above(N) = 0..N
  OBVIOUS
<1> HIDE DEF Above
<1> QED BY <1>4, <1>5 DEF IsWalk

-----------------------------------------------------------------------------
(* The commands: links lead to younger ones.                                   *)
next(c) == cells[c].next
IsCommand(c) == "next" \in DOMAIN c

Cells ==
  /\ Sequence(cells)
  /\ \A c \in Cell : IsCommand(cells[c])
  /\ \A c \in Cell : next(c) = NULL \/ next(c) \in c + 1..Len(cells)
  /\ freed \subseteq Cell
  /\ current_command \in 0..Len(cells)

LEMMA ChainIs ==
  ASSUME Cells
  PROVE  /\ Chain(NULL) = <<>>
         /\ \A c \in Cell : Chain(c) = <<c>> \o Chain(next(c))
<1> DEFINE N == Len(cells)
           nx == [n \in 1..N |-> next(n)]
           on == [n \in 1..N |-> TRUE]
           Is(f) == f = [n \in 0..N |-> IF n = NULL THEN <<>> ELSE <<n>> \o f[cells[n].next]]
<1>1. N \in Nat /\ \A n \in 1..N : next(n) = 0 \/ next(n) \in n + 1..N
  BY Lengths DEF Cells, Cell, NULL
<1>2. \A n \in 1..N : nx[n] = cells[n].next /\ on[n] = TRUE
  BY DEF next
<1>0. PICK f : IsWalk(f, N, nx, on)
  <2>1. \A n \in 1..N : nx[n] = 0 \/ nx[n] \in n + 1..N
    BY <1>1
  <2> HIDE DEF N, nx, on
  <2> QED BY <1>1, <2>1, WalkExists
<1>3. f = [n \in 0..N |-> Following(f, n, nx, on)]
  BY <1>0 DEF IsWalk
<1>4. \A n \in 0..N : Following(f, n, nx, on) = IF n = NULL THEN <<>> ELSE <<n>> \o f[cells[n].next]
  <2> HIDE DEF nx, on
  <2> QED BY <1>1, <1>2 DEF Following, NULL
<1>5. Is(f)
  <2> HIDE DEF nx, on, N
  <2> QED BY <1>3, <1>4
<1> DEFINE ch == CHOOSE g : Is(g)
<1>6. Is(ch)
  <2> HIDE DEF Is
  <2> QED BY <1>5
<1>7. \A c : Chain(c) = ch[c]
  BY DEF Chain
<1> HIDE DEF ch
<1>8. \A n \in 0..N : ch[n] = IF n = NULL THEN <<>> ELSE <<n>> \o ch[next(n)]
  BY <1>6 DEF next
<1>9. 0 \in 0..N /\ \A c \in Cell : c \in 0..N /\ c # NULL
  BY <1>1 DEF Cell, NULL
<1> HIDE DEF N
<1> QED BY <1>7, <1>8, <1>9 DEF NULL

LEMMA StagesAre ==
  ASSUME Cells
  PROVE  \A c \in Cell :
           Stages(c) = <<c>> \o IF cells[c].pipline_next /\ next(c) # NULL THEN Stages(next(c)) ELSE <<>>
<1> DEFINE N == Len(cells)
           nx == [n \in 1..N |-> next(n)]
           on == [n \in 1..N |-> cells[n].pipline_next]
           Is(f) == f = [n \in 0..N |->
                           IF n = NULL THEN <<>>
                           ELSE <<n>> \o IF cells[n].pipline_next THEN f[cells[n].next] ELSE <<>>]
<1>1. N \in Nat /\ \A n \in 1..N : next(n) = 0 \/ next(n) \in n + 1..N
  BY Lengths DEF Cells, Cell, NULL
<1>2. \A n \in 1..N : nx[n] = cells[n].next /\ on[n] = cells[n].pipline_next
  BY DEF next
<1>0. PICK f : IsWalk(f, N, nx, on)
  <2>1. \A n \in 1..N : nx[n] = 0 \/ nx[n] \in n + 1..N
    BY <1>1
  <2> HIDE DEF N, nx, on
  <2> QED BY <1>1, <2>1, WalkExists
<1>3. f = [n \in 0..N |-> Following(f, n, nx, on)]
  BY <1>0 DEF IsWalk
<1>4. \A n \in 0..N : Following(f, n, nx, on) =
        IF n = NULL THEN <<>> ELSE <<n>> \o IF cells[n].pipline_next THEN f[cells[n].next] ELSE <<>>
  <2> HIDE DEF nx, on
  <2> QED BY <1>1, <1>2 DEF Following, NULL
<1>5. Is(f)
  <2> HIDE DEF nx, on, N
  <2> QED BY <1>3, <1>4
<1> DEFINE ch == CHOOSE g : Is(g)
<1>6. Is(ch)
  <2> HIDE DEF Is
  <2> QED BY <1>5
<1>7. \A c : Stages(c) = ch[c]
  BY DEF Stages
<1> HIDE DEF ch
<1>8. \A n \in 0..N : ch[n] =
        IF n = NULL THEN <<>> ELSE <<n>> \o IF cells[n].pipline_next THEN ch[next(n)] ELSE <<>>
  BY <1>6 DEF next
<1>9. 0 \in 0..N /\ \A c \in Cell : c \in 0..N /\ c # NULL
  BY <1>1 DEF Cell, NULL
<1> HIDE DEF N
<1>10. ch[0] = <<>>
  BY <1>8, <1>9 DEF NULL
<1> QED BY <1>7, <1>8, <1>9, <1>10 DEF NULL

\* A set of commands that no link leads out of has the whole chain of each of its own.
Closed(S) == S \subseteq Cell /\ \A c \in S : next(c) \in S \cup {NULL}

LEMMA Joined ==
  ASSUME NEW S, NEW c \in S, NEW s \in Seq(S)
  PROVE  /\ <<c>> \o s \in Seq(S) /\ <<c>> \o s # <<>>
         /\ (<<c>> \o s)[1] = c
<1>1. <<c>> \in Seq(S) /\ Len(<<c>>) = 1 /\ <<c>>[1] = c /\ Len(s) \in Nat
  OBVIOUS
<1>2. Len(<<c>> \o s) = 1 + Len(s) /\ <<c>> \o s \in Seq(S)
  BY <1>1, ConcatProperties
<1>3. 1 \in 1..Len(<<c>>) + Len(s)
  BY <1>1
<1>4. (<<c>> \o s)[1] = c
  BY <1>1, <1>3, ConcatProperties
<1> QED BY <1>1, <1>2, <1>4

Inside(n, S) == Chain(n) \in Seq(S) /\ Stages(n) \in Seq(S)

LEMMA StepWithin ==
  ASSUME Cells, NEW S, Closed(S), NEW c \in S, next(c) = NULL \/ Inside(next(c), S)
  PROVE  /\ Inside(c, S)
         /\ Chain(c) # <<>> /\ Chain(c)[1] = c
         /\ Stages(c) # <<>> /\ Stages(c)[1] = c
<1> DEFINE t == IF cells[c].pipline_next /\ next(c) # NULL THEN Stages(next(c)) ELSE <<>>
<1>1. Chain(c) = <<c>> \o Chain(next(c)) /\ Stages(c) = <<c>> \o t
  BY ChainIs, StagesAre DEF Closed
<1>2. <<>> \in Seq(S) /\ Chain(NULL) \in Seq(S)
  BY ChainIs, EmptySeq
<1>3. Chain(next(c)) \in Seq(S) /\ t \in Seq(S)
  BY <1>2 DEF Inside
<1> HIDE DEF t
<1>4. /\ <<c>> \o Chain(next(c)) \in Seq(S) /\ <<c>> \o Chain(next(c)) # <<>>
      /\ (<<c>> \o Chain(next(c)))[1] = c
  BY <1>3, Joined
<1>5. <<c>> \o t \in Seq(S) /\ <<c>> \o t # <<>> /\ (<<c>> \o t)[1] = c
  BY <1>3, Joined
<1> QED BY <1>1, <1>4, <1>5 DEF Inside

LEMMA ChainIn ==
  ASSUME Cells, NEW S, Closed(S), NEW c \in S
  PROVE  /\ Chain(c) \in Seq(S) /\ Chain(c) # <<>> /\ Chain(c)[1] = c
         /\ Stages(c) \in Seq(S) /\ Stages(c) # <<>> /\ Stages(c)[1] = c
<1> DEFINE N == Len(cells)
           K == {k \in Nat : \A n \in S : n > N - k => Inside(n, S)}
<1>1. N \in Nat /\ \A n \in S : n \in 1..N /\ (next(n) = NULL \/ (next(n) \in S /\ next(n) > n))
  BY Lengths DEF Cells, Cell, Closed
<1>2. \A n \in S : next(n) = NULL \/ Inside(next(n), S) => Inside(n, S)
  BY StepWithin
<1> HIDE DEF N
<1>4. 0 \in K
  <2>1. \A n \in S : ~ (n > N - 0)
    BY <1>1
  <2> QED BY <2>1
<1>5. ASSUME NEW k \in 1..N, k - 1 \in K PROVE k \in K
  <2> SUFFICES ASSUME NEW n \in S, n > N - k PROVE Inside(n, S)
    BY <1>1
  <2>1. CASE n > N - (k - 1)
    BY <1>5, <2>1
  <2>2. CASE ~ (n > N - (k - 1))
    <3>1. next(n) # NULL => next(n) \in S /\ next(n) > N - (k - 1)
      BY <1>1, <2>2
    <3> QED BY <1>2, <1>5, <3>1
  <2> QED BY <2>1, <2>2
<1>6. \A k \in 0..N : k \in K
  <2> HIDE DEF K
  <2> QED BY <1>1, <1>4, <1>5, SetInduction
<1>7. N \in K
  <2>1. N \in 0..N
    BY <1>1
  <2> HIDE DEF K
  <2> QED BY <1>6, <2>1
<1>8. \A n \in S : Inside(n, S)
  <2>1. \A n \in S : n > N - N
    BY <1>1
  <2> QED BY <1>7, <2>1
<1>9. Inside(c, S) /\ (next(c) = NULL \/ Inside(next(c), S))
  BY <1>1, <1>8
<1> QED BY <1>9, StepWithin DEF Inside

\* Its members, and its last.
LEMMA MembersIn ==
  ASSUME NEW S, NEW s \in Seq(S), s # <<>>
  PROVE  ToSet(s) \subseteq S /\ Last(s) \in S
BY DEF ToSet, Last

-----------------------------------------------------------------------------
(* The invariant. While a line is parsed, the symbols of the stack that stand   *)
(* for a command or for a list hold commands in the order of the text, and no   *)
(* link leads from before the first command of one to what is behind it. The    *)
(* commands these and command_list reach are in a set G that is closed under    *)
(* the links and disjoint from what was given back; current_command is in        *)
(* neither, and younger than all of G.                                          *)
Books ==
  /\ session \in Session
  /\ yychar \in session.tokens \cup {EOF, YYEMPTY}
  /\ pc \in {"ready", "parse", "walk", "free"}
  /\ cmd \in 0..Len(cells)
  /\ result \in {-1, 0, 1}
  /\ segment \in 0..session.segments /\ (pc # "ready" => segment # 0)
  /\ text \in Seq(session.tokens) /\ Len(text) <= session.length
  /\ fruitless \subseteq 1..segment
  /\ Sequence(ran) /\ \A n \in DOMAIN ran : ToSet(ran[n].stages) \subseteq Cell

Stacked ==
  /\ Sequence(stack) /\ stack # <<>>
  /\ stack[1].state = 0
  /\ \A n \in 1..Len(stack) : stack[n].state \in State
  /\ \A n \in 1..Len(stack) : n > 1 => Edge(stack[n - 1].state, stack[n].state)

Collects ==
  /\ yystate \in Collecting => current_command # NULL
  /\ yystate \in Collected => current_command = NULL

Heap(G) ==
  /\ Closed(G) /\ G \cap freed = {}
  /\ current_command # NULL => /\ current_command \notin G \cup freed
                               /\ next(current_command) = NULL
                               /\ \A c \in G : c < current_command
  /\ command_list # NoList => command_list \in [head : G, tail : G]
  /\ pc = "walk" => cmd \in G \cup {NULL}

IsRoot(n) == stack[n].state \in CommandStates \cup ListStates
First(n) == IF stack[n].state \in ListStates THEN stack[n].value.head ELSE stack[n].value
Youngest(n) == IF stack[n].state \in ListStates THEN stack[n].value.tail ELSE stack[n].value
IsPair(n) == stack[n].state \in ListStates => stack[n].value = [head |-> First(n), tail |-> Youngest(n)]
RootIn(n, G) ==
  /\ IsPair(n)
  /\ First(n) \in G /\ Youngest(n) \in G /\ First(n) <= Youngest(n)
  /\ \A c \in G : c < First(n) => next(c) < First(n)
  /\ command_list # NoList => command_list.tail < First(n)
RootsIn(m, G) ==
  /\ \A n \in 1..m : IsRoot(n) => RootIn(n, G)
  /\ \A i, j \in 1..m : i < j /\ IsRoot(i) /\ IsRoot(j) => Youngest(i) < First(j)

Reaching(G) == Heap(G) /\ (pc = "parse" => RootsIn(Len(stack), G))

IInv == Books /\ Stacked /\ Collects /\ Cells /\ \E G : Reaching(G)

-----------------------------------------------------------------------------
(* The stack in a reduction.                                                   *)
LEMMA RuleIs ==
  ASSUME Stacked, Rule # 0
  PROVE  /\ Rule \in 2..40 /\ Rule = DefaultRule(yystate)
         /\ pc = "parse" /\ yystate = stack[Len(stack)].state
         /\ Len(stack) \in Nat /\ Len(stack) >= 1 /\ yystate \in State
<1>1. Len(stack) \in Nat /\ Len(stack) >= 1
  BY Lengths DEF Stacked
<1>2. yystate = stack[Len(stack)].state
  BY DEF yystate, Last
<1>3. yystate \in State
  BY <1>1, <1>2 DEF Stacked
<1>4. Rule = DefaultRule(yystate) /\ pc = "parse" /\ yystate # YYFINAL
  BY DEF Rule, Decided, Parsing
<1>5. Rule \in 0..40 /\ Rule # 1
  BY <1>3, <1>4, RuleOf DEF YYFINAL
<1> QED BY <1>1, <1>2, <1>3, <1>4, <1>5

\* No rule takes more than the stack has above its first state.
LEMMA Depth ==
  ASSUME Stacked, Rule # 0
  PROVE  At(yyr2, Rule) \in 0..3 /\ Len(stack) > At(yyr2, Rule)
<1> DEFINE N == Len(stack)
           S(n) == stack[n].state
<1>1. /\ Rule \in 2..40 /\ Rule = DefaultRule(S(N)) /\ N \in Nat /\ N >= 1
      /\ S(N) \in State
  BY RuleIs
<1>2. At(yyr2, Rule) \in 0..3
  BY <1>1, RuleLength
<1>3. S(1) = 0 /\ \A n \in 2..N : S(n - 1) \in State /\ S(n) \in State /\ Edge(S(n - 1), S(n))
  BY <1>1 DEF Stacked
<1> HIDE DEF N, S
<1>4. CASE N = 1
  <2>1. Rule = 2
    BY <1>1, <1>3, <1>4, Pop0
  <2>2. At(yyr2, 2) = 0
    BY DEF At, yyr2
  <2> QED BY <1>4, <2>1, <2>2 DEF N
<1>5. CASE N = 2
  <2>1. S(2) = 1
    <3>1. Edge(0, S(2))
      BY <1>3, <1>5
    <3> QED BY <3>1 DEF Edge, Beginning, Within
  <2>2. DefaultRule(1) = 0
    BY DEF DefaultRule, At, yydefact
  <2> QED BY <1>1, <1>5, <2>1, <2>2 DEF N
<1>6. CASE N = 3 /\ At(yyr2, Rule) = 3
  <2>1. S(2) = 1
    <3>1. Edge(0, S(2))
      BY <1>3, <1>6
    <3> QED BY <3>1 DEF Edge, Beginning, Within
  <2>2. Edge(1, S(3)) /\ S(3) \in State
    BY <1>3, <1>6, <2>1
  <2>3. S(3) \in 48..56
    <3>1. At(yyr2, DefaultRule(S(3))) = 3
      BY <1>1, <1>6
    <3> QED BY <2>2, <3>1, Rules3
  <2>4. \A t \in 48..56 : ~ Edge(1, t)
    BY DEF Edge, Beginning, Within, Redirecting
  <2> QED BY <2>2, <2>3, <2>4
<1>7. N > At(yyr2, Rule)
  <2> DEFINE k == At(yyr2, Rule)
  <2>1. k \in 0..3 /\ (N = 1 => N > k) /\ (N = 2 => N > k) /\ (N = 3 /\ k = 3 => N > k)
    BY <1>2, <1>4, <1>5, <1>6 DEF N
  <2> HIDE DEF k
  <2>2. N > k
    BY <1>1, <2>1
  <2> QED BY <2>2 DEF k
<1> QED BY <1>2, <1>7 DEF N

LEMMA ReducedStack ==
  ASSUME Stacked, Rule # 0, NEW v, Reduce(v)
  PROVE  LET m == Len(stack) - At(yyr2, Rule)
         IN  /\ m \in 1..Len(stack) /\ m \in Nat
             /\ Stacked' /\ Len(stack') = m + 1
             /\ \A n \in 1..m : stack'[n] = stack[n]
             /\ stack'[m + 1] = [state |-> GotoTable(stack[m].state, Rule), value |-> v]
<1> DEFINE N == Len(stack)
           k == At(yyr2, Rule)
           m == N - k
           S(n) == stack[n].state
           below == SubSeq(stack, 1, m)
           top == [state |-> Goto(Last(below).state, Rule), value |-> v]
<1>1. /\ Rule \in 2..40 /\ Rule = DefaultRule(S(N)) /\ N \in Nat /\ N >= 1
      /\ S(N) \in State
  BY RuleIs
<1>2. k \in 0..3 /\ N > k /\ m \in 1..N /\ m \in Nat
  <2>1. k \in 0..3 /\ N > k
    BY Depth
  <2> HIDE DEF N, k
  <2> QED BY <1>1, <2>1
<1>3. Sequence(stack) /\ S(1) = 0
  BY DEF Stacked
<1>4. Sequence(below) /\ Len(below) = m /\ \A n \in 1..m : below[n] = stack[n]
  <2> HIDE DEF N, k, m
  <2> QED BY <1>1, <1>2, <1>3, Cutting DEF N
<1>5. Last(below) = stack[m]
  <2> HIDE DEF below, m
  <2> QED BY <1>2, <1>4 DEF Last
<1>6. stack' = Append(below, top)
  BY DEF Reduce
<1>7. /\ Sequence(stack') /\ Len(stack') = m + 1
      /\ \A n \in 1..m : stack'[n] = stack[n]
      /\ stack'[m + 1] = top
  <2> HIDE DEF below, top, m
  <2> QED BY <1>4, <1>6, Appending
<1>8. S(m) \in State
  BY <1>2 DEF Stacked
<1>9. top = [state |-> GotoTable(S(m), Rule), value |-> v]
  <2>1. Goto(S(m), Rule) = GotoTable(S(m), Rule)
    BY <1>1, <1>8, GotoIs
  <2> HIDE DEF below
  <2> QED BY <1>5, <2>1
<1>10. GotoTable(S(m), Rule) \in State
  BY <1>1, <1>8, TargetOf
<1>11. \A n \in 2..N : S(n - 1) \in State /\ S(n) \in State /\ Edge(S(n - 1), S(n))
  BY <1>1 DEF Stacked
<1>12. Edge(S(m), GotoTable(S(m), Rule))
  <2> DEFINE r == Rule
  <2> HIDE DEF N, k, S, r
  <2>0. r \in 2..40 /\ r = DefaultRule(S(N))
    BY <1>1 DEF r
  <2>1. CASE k = 0
    <3>1. m = N /\ S(N) = 0
      BY <1>1, <1>2, <2>0, <2>1, RuleLength DEF k, r
    <3> QED BY <2>0, <3>1, Pop0 DEF r
  <2>2. CASE k = 1
    <3>1. m = N - 1 /\ N \in 2..N
      BY <1>1, <1>2, <2>2
    <3>2. S(N - 1) \in State /\ Edge(S(N - 1), S(N))
      BY <1>11, <3>1
    <3> QED BY <1>1, <2>0, <2>2, <3>1, <3>2, Pop1 DEF k, r
  <2>3. CASE k = 2
    <3>1. m = N - 2 /\ N \in 2..N /\ N - 1 \in 2..N /\ N - 1 - 1 = N - 2
      BY <1>1, <1>2, <2>3
    <3>2. S(N - 1) \in State /\ Edge(S(N - 1), S(N)) /\ S(N - 2) \in State /\ Edge(S(N - 2), S(N - 1))
      BY <1>11, <3>1
    <3> QED BY <1>1, <2>0, <2>3, <3>1, <3>2, Pop2 DEF k, r
  <2>4. CASE k = 3
    <3>1. /\ m = N - 3 /\ N \in 2..N /\ N - 1 \in 2..N /\ N - 1 - 1 = N - 2
          /\ N - 2 \in 2..N /\ N - 2 - 1 = N - 3
      BY <1>1, <1>2, <2>4
    <3>2. /\ S(N - 1) \in State /\ Edge(S(N - 1), S(N)) /\ S(N - 2) \in State
          /\ Edge(S(N - 2), S(N - 1)) /\ S(N - 3) \in State /\ Edge(S(N - 3), S(N - 2))
      BY <1>11, <3>1
    <3> QED BY <1>1, <2>0, <2>4, <3>1, <3>2, Pop3 DEF k, r
  <2> QED BY <1>2, <2>1, <2>2, <2>3, <2>4
<1>13. Stacked'
  <2>1. stack' # <<>>
    BY <1>2, <1>7, Lengths
  <2>2. stack'[1].state = 0
    BY <1>2, <1>3, <1>7
  <2>3. stack'[m + 1].state = GotoTable(S(m), Rule)
    <3> HIDE DEF top
    <3> QED BY <1>7, <1>9
  <2>4. \A n \in 1..m + 1 : stack'[n].state \in State
    <3>1. \A n \in 1..m : stack'[n].state \in State
      BY <1>2, <1>7 DEF Stacked
    <3> HIDE DEF m, top
    <3> QED BY <1>2, <1>10, <2>3, <3>1
  <2>5. ASSUME NEW n \in 1..m + 1, n > 1 PROVE Edge(stack'[n - 1].state, stack'[n].state)
    <3>1. CASE n = m + 1
      <4>1. stack'[n - 1] = stack[m]
        BY <1>2, <1>7, <3>1
      <4> QED BY <1>12, <2>3, <3>1, <4>1
    <3>2. CASE n # m + 1
      <4>1. n \in 1..m /\ n - 1 \in 1..m /\ n \in 1..N
        BY <1>2, <2>5, <3>2
      <4>2. stack'[n] = stack[n] /\ stack'[n - 1] = stack[n - 1]
        BY <1>7, <4>1
      <4>3. Edge(stack[n - 1].state, stack[n].state)
        BY <2>5, <4>1 DEF Stacked
      <4> QED BY <4>2, <4>3
    <3> QED BY <3>1, <3>2
  <2> HIDE DEF m, top, S
  <2> QED BY <1>7, <2>1, <2>2, <2>4, <2>5 DEF Stacked
<1> HIDE DEF top
<1> QED BY <1>2, <1>7, <1>9, <1>13

LEMMA Reduced ==
  ASSUME Stacked, Rule # 0, NEW v, Reduce(v)
  PROVE  \E m \in 1..Len(stack) :
           /\ m = Len(stack) - At(yyr2, Rule) /\ m \in Nat
           /\ Stacked' /\ Len(stack') = m + 1
           /\ \A n \in 1..m : stack'[n] = stack[n]
           /\ stack'[m + 1].state = GotoTable(stack[m].state, Rule)
           /\ stack'[m + 1].value = v
<1> DEFINE m == Len(stack) - At(yyr2, Rule)
<1>1. /\ m \in 1..Len(stack) /\ m \in Nat
      /\ Stacked' /\ Len(stack') = m + 1
      /\ \A n \in 1..m : stack'[n] = stack[n]
      /\ stack'[m + 1] = [state |-> GotoTable(stack[m].state, Rule), value |-> v]
  BY ReducedStack
<1>2. /\ stack'[m + 1].state = GotoTable(stack[m].state, Rule)
      /\ stack'[m + 1].value = v
  <2> HIDE DEF m
  <2> QED BY <1>1
<1> QED BY <1>1, <1>2

-----------------------------------------------------------------------------
(* What a step keeps that leaves the links as they are, or makes new commands.  *)
LinksKept ==
  /\ Sequence(cells') /\ Len(cells') >= Len(cells)
  /\ \A c \in Cell : IsCommand(cells'[c]) /\ cells'[c].next = cells[c].next
  /\ \A c \in Len(cells) + 1..Len(cells') : IsCommand(cells'[c]) /\ cells'[c].next = NULL

LEMMA SameCells ==
  ASSUME Cells, cells' = cells
  PROVE  LinksKept /\ Len(cells') = Len(cells)
BY Lengths DEF LinksKept, Cells, IsCommand

LEMMA CellsAre ==
  ASSUME Cells
  PROVE  Len(cells) \in Nat /\ Cell = 1..Len(cells)
BY Lengths DEF Cells, Cell

LEMMA OneReplaced ==
  ASSUME Cells, NEW c, NEW r, c \in Cell => IsCommand(r) /\ r.next = cells[c].next,
         cells' = [cells EXCEPT ![c] = r]
  PROVE  LinksKept /\ Len(cells') = Len(cells)
<1>0. Sequence(cells) /\ cells' = Replaced(cells, c, r)
  BY DEF Cells, Replaced
<1>4. /\ Sequence(Replaced(cells, c, r))
      /\ Len(Replaced(cells, c, r)) = Len(cells)
      /\ \A n \in 1..Len(cells) : Replaced(cells, c, r)[n] = IF n = c THEN r ELSE cells[n]
  <2>1. \A s, i, x : Sequence(s) =>
           /\ Sequence(Replaced(s, i, x))
           /\ Len(Replaced(s, i, x)) = Len(s)
           /\ \A n \in 1..Len(s) : Replaced(s, i, x)[n] = IF n = i THEN x ELSE s[n]
    BY Replacing
  <2> QED BY <1>0, <2>1
<1>1. /\ Sequence(cells') /\ Len(cells') = Len(cells)
      /\ \A n \in 1..Len(cells) : cells'[n] = IF n = c THEN r ELSE cells[n]
  BY <1>0, <1>4
<1>2. Len(cells) \in Nat /\ Cell = 1..Len(cells)
  BY CellsAre
<1>3. \A n \in Cell : IsCommand(cells'[n]) /\ cells'[n].next = cells[n].next
  BY <1>1, <1>2 DEF Cells
<1> QED BY <1>1, <1>2, <1>3 DEF LinksKept

LEMMA OneMore ==
  ASSUME Cells, NEW r, IsCommand(r), r.next = NULL, cells' = Append(cells, r)
  PROVE  LinksKept /\ Len(cells') = Len(cells) + 1
<1>1. /\ Sequence(cells') /\ Len(cells') = Len(cells) + 1
      /\ \A n \in 1..Len(cells) : cells'[n] = cells[n]
      /\ cells'[Len(cells) + 1] = r
  BY Appending DEF Cells
<1>2. Len(cells) \in Nat /\ Cell = 1..Len(cells)
  BY CellsAre
<1>3. \A n \in Cell : IsCommand(cells'[n]) /\ cells'[n].next = cells[n].next
  BY <1>1, <1>2 DEF Cells
<1>4. \A n \in Len(cells) + 1..Len(cells') : n = Len(cells) + 1
  BY <1>1, <1>2
<1> QED BY <1>1, <1>2, <1>3, <1>4 DEF LinksKept

LEMMA CellsKept ==
  ASSUME Cells, LinksKept, freed' = freed, current_command' \in 0..Len(cells')
  PROVE  /\ Cells' /\ Cell \subseteq Cell' /\ \A c \in Cell : next(c)' = next(c)
         /\ Len(cells) \in Nat /\ Len(cells') \in Nat
<1>1. Len(cells) \in Nat /\ Len(cells') \in Nat /\ Cell = 1..Len(cells) /\ Cell' = 1..Len(cells')
  BY Lengths DEF Cells, LinksKept, Cell
<1>2. Cell \subseteq Cell' /\ \A c \in Cell' : c \notin Cell => c \in Len(cells) + 1..Len(cells')
  BY <1>1 DEF LinksKept
<1>3. \A c \in Cell' : IsCommand(cells'[c])
  BY <1>2 DEF LinksKept
<1>4. ASSUME NEW c \in Cell' PROVE next(c)' = NULL \/ next(c)' \in c + 1..Len(cells')
  <2>1. CASE c \in Cell
    <3>1. next(c)' = next(c) /\ (next(c) = NULL \/ next(c) \in c + 1..Len(cells))
      BY <2>1 DEF LinksKept, Cells, next
    <3> QED BY <1>1, <2>1, <3>1 DEF LinksKept
  <2>2. CASE c \notin Cell
    BY <1>2, <2>2 DEF LinksKept, next
  <2> QED BY <2>1, <2>2
<1>5. freed' \subseteq Cell'
  BY <1>2 DEF Cells
<1>6. \A c \in Cell : next(c)' = next(c)
  BY DEF LinksKept, next
<1>7. Cells'
  BY <1>3, <1>4, <1>5 DEF Cells, LinksKept
<1> QED BY <1>1, <1>2, <1>6, <1>7

LEMMA BooksKept ==
  ASSUME Books, Cells, LinksKept, session' = session, DuringParse
  PROVE  Books'
<1>1. Len(cells) \in Nat /\ Len(cells') \in Nat /\ Cell = 1..Len(cells) /\ Cell' = 1..Len(cells')
  BY Lengths DEF Cells, LinksKept, Cell
<1>2. Cell \subseteq Cell' /\ 0..Len(cells) \subseteq 0..Len(cells')
  BY <1>1 DEF LinksKept
<1> QED BY <1>2 DEF Books, DuringParse, history

LEMMA HeapKept ==
  ASSUME Cells, NEW G, Heap(G), LinksKept, current_command' = current_command,
         UNCHANGED <<freed, command_list, pc, cmd>>
  PROVE  Heap(G)'
<1>1. /\ Cell \subseteq Cell' /\ \A c \in Cell : next(c)' = next(c)
  <2>1. current_command \in 0..Len(cells')
    BY Lengths DEF Cells, LinksKept
  <2> QED BY <2>1, CellsKept
<1>2. Closed(G)'
  BY <1>1 DEF Heap, Closed
<1>3. current_command # NULL => current_command \in Cell
  BY CellsAre DEF Cells, NULL
<1> QED BY <1>1, <1>2, <1>3 DEF Heap

LEMMA RootKept ==
  ASSUME NEW n, NEW G, RootIn(n, G), stack'[n] = stack[n], command_list' = command_list,
         \A c \in G : c < First(n) => next(c)' = next(c)
  PROVE  RootIn(n, G)'
BY DEF RootIn, First, Youngest, IsPair

LEMMA RootsKept ==
  ASSUME NEW G, NEW m \in Nat, Len(stack) \in Nat, m <= Len(stack), RootsIn(Len(stack), G),
         \A n \in 1..m : stack'[n] = stack[n], command_list' = command_list,
         \A n \in 1..m : \A c \in G : IsRoot(n) /\ c < First(n) => next(c)' = next(c)
  PROVE  RootsIn(m, G)'
<1>1. \A n \in 1..m : /\ n \in 1..Len(stack)
                      /\ First(n)' = First(n) /\ Youngest(n)' = Youngest(n) /\ IsRoot(n)' = IsRoot(n)
  BY DEF First, Youngest, IsRoot
<1>2. ASSUME NEW n \in 1..m, IsRoot(n)' PROVE RootIn(n, G)'
  BY <1>1, <1>2, RootKept DEF RootsIn
<1>3. ASSUME NEW i \in 1..m, NEW j \in 1..m, i < j, IsRoot(i)', IsRoot(j)'
      PROVE Youngest(i)' < First(j)'
  BY <1>1, <1>3 DEF RootsIn
<1> QED BY <1>2, <1>3 DEF RootsIn

LEMMA RootOnTop ==
  ASSUME NEW G, NEW m \in Nat, RootsIn(m, G)', Len(stack') = m + 1,
         IsRoot(m + 1)' => /\ RootIn(m + 1, G)'
                           /\ \A i \in 1..m : IsRoot(i)' => Youngest(i)' < First(m + 1)'
  PROVE  RootsIn(Len(stack), G)'
<1>1. \A n \in 1..m + 1 : n \in 1..m \/ n = m + 1
  OBVIOUS
<1>2. ASSUME NEW n \in 1..m + 1, IsRoot(n)' PROVE RootIn(n, G)'
  BY <1>1, <1>2 DEF RootsIn
<1>3. ASSUME NEW i \in 1..m + 1, NEW j \in 1..m + 1, i < j, IsRoot(i)', IsRoot(j)'
      PROVE Youngest(i)' < First(j)'
  <2>1. i \in 1..m
    BY <1>3
  <2> QED BY <1>1, <1>3, <2>1 DEF RootsIn
<1>4. RootsIn(m + 1, G)'
  BY <1>2, <1>3 DEF RootsIn
<1> QED BY <1>4

\* A reduction to a symbol that is no command and no list.
LEMMA NoRoot ==
  ASSUME Stacked, Cells, NEW G, Reaching(G), Heap(G)', Rule # 0, Rule \notin 9..19,
         NEW v, Reduce(v), \A c \in G : next(c)' = next(c), UNCHANGED <<command_list, pc>>
  PROVE  Reaching(G)'
<1>1. /\ Rule \in 2..40 /\ pc = "parse" /\ Len(stack) \in Nat
  BY RuleIs
<1>2. PICK m \in 1..Len(stack) :
        /\ m \in Nat /\ Len(stack') = m + 1
        /\ \A n \in 1..m : stack'[n] = stack[n]
        /\ stack'[m + 1].state = GotoTable(stack[m].state, Rule)
  BY Reduced
<1>3. RootsIn(Len(stack), G)
  BY <1>1 DEF Reaching
<1>4. RootsIn(m, G)'
  BY <1>1, <1>2, <1>3, RootsKept
<1>5. stack[m].state \in State
  BY <1>2 DEF Stacked
<1>6. stack'[m + 1].state \notin CommandStates \cup ListStates
  <2> DEFINE t == GotoTable(stack[m].state, Rule)
  <2>1. Rule \in 2..8 \/ Rule \in 20..40
    BY <1>1
  <2>2. t \notin Collected
    BY <1>1, <1>5, <2>1, TargetOf, Apart
  <2> HIDE DEF t
  <2>3. t \notin CommandStates \cup ListStates
    BY <2>2, Apart
  <2> QED BY <1>2, <2>3 DEF t
<1>7. ~ IsRoot(m + 1)'
  BY <1>6 DEF IsRoot
<1>8. RootsIn(Len(stack), G)'
  BY <1>2, <1>4, <1>7, RootOnTop
<1> QED BY <1>1, <1>8 DEF Reaching

-----------------------------------------------------------------------------
(* The reductions.                                                             *)
LEMMA CurrentBefore ==
  ASSUME Stacked, Collects, Rule # 0
  PROVE  /\ Rule \in {6} \cup 9..15 => current_command = NULL
         /\ Rule \in 16..25 => current_command # NULL
<1>1. Rule = DefaultRule(yystate) /\ yystate \in State /\ Rule \in 2..40
  BY RuleIs
<1> DEFINE r == Rule
           s == yystate
<1>2. r = DefaultRule(s) /\ s \in State /\ r \in 2..40
  BY <1>1
<1>3. (s \in Collecting => current_command # NULL) /\ (s \in Collected => current_command = NULL)
  BY DEF Collects
<1> HIDE DEF r, s
<1>4. r \in {6} \cup 9..15 => s \in Collected
  <2>1. r \in {6} \cup 9..15 => s \in {16, 17, 53, 54, 18, 55, 19, 51}
    BY <1>2, RuleOf
  <2> QED BY <2>1 DEF Collected, CommandStates, ListStates
<1>5. r \in 16..25 => s \in Collecting
  BY <1>2, RuleOf
<1> QED BY <1>3, <1>4, <1>5 DEF r

LEMMA TopAfter ==
  ASSUME Stacked, Rule # 0, NEW v, Reduce(v)
  PROVE  /\ Rule \in 2..8 => yystate' \notin Collecting \cup Collected
         /\ Rule \in 9..19 => yystate' \in Collected /\ yystate' \notin Collecting
         /\ Rule \in 20..40 => yystate' \in Collecting /\ yystate' \notin Collected
<1>1. PICK m \in 1..Len(stack) :
        /\ m \in Nat /\ Len(stack') = m + 1
        /\ stack'[m + 1].state = GotoTable(stack[m].state, Rule)
  BY Reduced
<1>2. yystate' = GotoTable(stack[m].state, Rule)
  BY <1>1 DEF yystate, Last
<1>3. stack[m].state \in State /\ Rule \in 2..40
  BY RuleIs DEF Stacked
<1> DEFINE t == GotoTable(stack[m].state, Rule)
<1>4. /\ Rule \in 2..8 => t \notin Collecting \cup Collected
      /\ Rule \in 9..11 => t \in ListStates
      /\ Rule \in 12..19 => t \in CommandStates
      /\ Rule \in 20..40 => t \in Collecting
  BY <1>3, TargetOf
<1> HIDE DEF t
<1>5. Rule \in 9..19 => Rule \in 9..11 \/ Rule \in 12..19
  BY <1>3
<1>6. yystate' = t
  BY <1>2 DEF t
<1> QED BY <1>4, <1>5, <1>6, Apart

LEMMA CollectsAfter ==
  ASSUME Stacked, Rule # 0, NEW v, Reduce(v),
         Rule \in 9..19 => current_command' = NULL,
         Rule \in 20..40 => current_command' # NULL
  PROVE  Collects'
<1>1. Rule \in 2..8 \/ Rule \in 9..19 \/ Rule \in 20..40
  BY RuleIs
<1> QED BY <1>1, TopAfter DEF Collects

\* The value of the first symbol of a rule with one, and with three.
LEMMA ValueOf ==
  ASSUME Stacked, Rule # 0, NEW m \in Nat, m = Len(stack) - At(yyr2, Rule)
  PROVE  \A k \in 1..3 : yyvsp(k) = stack[m + k].value
<1>1. Len(stack) \in Nat /\ At(yyr2, Rule) \in 0..3
  BY RuleIs, Depth
<1> QED BY <1>1 DEF yyvsp

LEMMA Lengths9to19 ==
  /\ At(yyr2, 6) = 1 /\ At(yyr2, 9) = 1 /\ At(yyr2, 12) = 1 /\ At(yyr2, 14) = 1 /\ At(yyr2, 16) = 3
  /\ At(yyr2, 10) = 3 /\ At(yyr2, 11) = 3 /\ At(yyr2, 13) = 3 /\ At(yyr2, 15) = 3
BY DEF At, yyr2

\* A reduction of a command to a command of the next kind, or to a list.
LEMMA SameCommand ==
  ASSUME Stacked, Cells, NEW G, Reaching(G), Heap(G)', Rule \in {9, 12, 14}, NEW v, Reduce(v),
         Rule # 9 => v = yyvsp(1), Rule = 9 => v = [head |-> yyvsp(1), tail |-> yyvsp(1)],
         \A c \in G : next(c)' = next(c), UNCHANGED <<command_list, pc>>
  PROVE  Reaching(G)'
<1>1. Rule \in 2..40 /\ pc = "parse" /\ Len(stack) \in Nat /\ Rule = DefaultRule(yystate)
      /\ yystate = stack[Len(stack)].state /\ yystate \in State
  BY RuleIs
<1>2. PICK m \in 1..Len(stack) :
        /\ m = Len(stack) - At(yyr2, Rule) /\ m \in Nat /\ Len(stack') = m + 1
        /\ \A n \in 1..m : stack'[n] = stack[n]
        /\ stack'[m + 1].state = GotoTable(stack[m].state, Rule)
        /\ stack'[m + 1].value = v
  BY Reduced
<1>3. RootsIn(Len(stack), G)
  BY <1>1 DEF Reaching
<1>4. RootsIn(m, G)'
  BY <1>1, <1>2, <1>3, RootsKept
<1>5. m + 1 = Len(stack) /\ m + 1 \in 1..Len(stack)
  BY <1>1, <1>2, Lengths9to19
<1>6. yyvsp(1) = stack[m + 1].value
  BY <1>2, ValueOf
<1>7. /\ stack[m + 1].state \in CommandStates
      /\ Rule # 9 => stack'[m + 1].state \in CommandStates
      /\ Rule = 9 => stack'[m + 1].state \in ListStates
  <2>1. stack[m + 1].state \in {17, 18, 19}
    BY <1>1, <1>5, RuleOf
  <2>2. stack[m].state \in State
    BY <1>2 DEF Stacked
  <2>3. /\ Rule # 9 => GotoTable(stack[m].state, Rule) \in CommandStates
        /\ Rule = 9 => GotoTable(stack[m].state, Rule) \in ListStates
    <3>1. (Rule # 9 => Rule \in 12..19) /\ (Rule = 9 => Rule \in 9..11)
      BY <1>1
    <3> QED BY <1>1, <2>2, <3>1, TargetOf
  <2>4. {17, 18, 19} \subseteq CommandStates
    BY DEF CommandStates
  <2> QED BY <1>2, <2>1, <2>3, <2>4
<1>8. /\ IsRoot(m + 1)
      /\ First(m + 1)' = First(m + 1) /\ Youngest(m + 1)' = Youngest(m + 1) /\ IsPair(m + 1)'
  <2>1. IsRoot(m + 1) /\ First(m + 1) = yyvsp(1) /\ Youngest(m + 1) = yyvsp(1)
    BY <1>6, <1>7, Apart DEF IsRoot, First, Youngest
  <2>2. First(m + 1)' = yyvsp(1) /\ Youngest(m + 1)' = yyvsp(1)
    BY <1>2, <1>7, Apart DEF First, Youngest
  <2>3. IsPair(m + 1)'
    BY <1>2, <1>7, <2>2, Apart DEF IsPair
  <2> QED BY <2>1, <2>2, <2>3
<1>9. RootIn(m + 1, G)
  BY <1>3, <1>5, <1>8 DEF RootsIn
<1>10. RootIn(m + 1, G)'
  BY <1>8, <1>9 DEF RootIn
<1>11. ASSUME NEW i \in 1..m, IsRoot(i)' PROVE Youngest(i)' < First(m + 1)'
  <2>1. IsRoot(i) /\ Youngest(i)' = Youngest(i) /\ i \in 1..Len(stack) /\ i < m + 1
    BY <1>1, <1>2, <1>11 DEF IsRoot, Youngest
  <2> QED BY <1>3, <1>5, <1>8, <2>1 DEF RootsIn
<1>12. RootsIn(Len(stack), G)'
  BY <1>2, <1>4, <1>10, <1>11, RootOnTop
<1> QED BY <1>12 DEF Reaching

LEMMA ReducePlainKeeps == IInv /\ session' = session /\ ReducePlain => IInv'
<1> SUFFICES ASSUME IInv, session' = session, ReducePlain PROVE IInv'
  OBVIOUS
<1>1. Books /\ Stacked /\ Collects /\ Cells
  BY DEF IInv
<1>2. PICK G : Reaching(G)
  BY DEF IInv
<1>3. /\ Rule # 0 /\ Rule \in {2, 3, 4, 5, 12, 14, 20, 21, 22, 23, 24, 25}
      /\ cells' = cells /\ current_command' = current_command /\ command_list' = command_list
      /\ DuringParse
  BY DEF ReducePlain, heap
<1>4. PICK v : Reduce(v) /\ (Rule \in {12, 14} => v = yyvsp(1))
  BY Lengths9to19 DEF ReducePlain
<1>5. LinksKept
  BY <1>1, <1>3, SameCells
<1>6. Books'
  BY <1>1, <1>3, <1>5, BooksKept
<1>7. Stacked'
  BY <1>1, <1>3, <1>4, Reduced
<1>8. Collects'
  BY <1>1, <1>3, <1>4, CurrentBefore, CollectsAfter
<1>9. Cells' /\ \A c \in Cell : next(c)' = next(c)
  <2>1. freed' = freed /\ current_command' \in 0..Len(cells')
    BY <1>1, <1>3 DEF DuringParse, Cells
  <2> QED BY <1>1, <1>5, <2>1, CellsKept
<1>10. Heap(G)'
  BY <1>1, <1>2, <1>3, <1>5, HeapKept DEF DuringParse, Reaching
<1>11. \A c \in G : next(c)' = next(c)
  BY <1>2, <1>9 DEF Reaching, Heap, Closed
<1>12. pc' = pc
  BY <1>3 DEF DuringParse
<1>13. CASE Rule \in {12, 14}
  BY <1>1, <1>2, <1>3, <1>4, <1>10, <1>11, <1>12, <1>13, <1>6, <1>7, <1>8, <1>9, SameCommand DEF IInv
<1>14. CASE Rule \notin {12, 14}
  <2>1. Rule \notin 9..19
    BY <1>3, <1>14
  <2> QED BY <1>1, <1>2, <1>3, <1>4, <1>10, <1>11, <1>12, <2>1, <1>6, <1>7, <1>8, <1>9, NoRoot DEF IInv
<1> QED BY <1>13, <1>14

\* A word or a redirection: to current_command, or to a new one.
Extending(new, old) ==
  IF current_command = NULL
  THEN cells' = Append(cells, new) /\ current_command' = Len(cells) + 1
  ELSE cells' = [cells EXCEPT ![current_command] = old] /\ current_command' = current_command

LEMMA ExtendingKeeps ==
  ASSUME Cells, NEW new, NEW old, Extending(new, old), IsCommand(new), new.next = NULL,
         current_command \in Cell => IsCommand(old) /\ old.next = cells[current_command].next,
         NEW G, Heap(G), UNCHANGED <<freed, command_list, pc, cmd>>
  PROVE  LinksKept /\ Heap(G)' /\ current_command' # NULL /\ current_command' \in 0..Len(cells')
<1>1. Len(cells) \in Nat /\ Cell = 1..Len(cells)
  BY CellsAre
<1>2. CASE current_command = NULL
  <2>1. cells' = Append(cells, new) /\ current_command' = Len(cells) + 1
    BY <1>2 DEF Extending
  <2>2. LinksKept /\ Len(cells') = Len(cells) + 1
    BY <2>1, OneMore
  <2>3. current_command' \in 0..Len(cells') /\ current_command' # NULL
    BY <1>1, <2>1, <2>2 DEF NULL
  <2>4. /\ Cell \subseteq Cell' /\ \A c \in Cell : next(c)' = next(c)
    BY <2>2, <2>3, CellsKept
  <2>5. Closed(G)'
    BY <2>4 DEF Heap, Closed
  <2>6. current_command' \notin Cell /\ \A c \in Cell : c < current_command'
    BY <1>1, <2>1
  <2>7. next(current_command)' = NULL
    BY <1>1, <2>1, <2>2 DEF LinksKept, next
  <2>8. G \subseteq Cell /\ freed \subseteq Cell
    BY DEF Heap, Closed, Cells
  <2>9. Heap(G)'
    BY <2>5, <2>6, <2>7, <2>8 DEF Heap
  <2> QED BY <2>2, <2>3, <2>9
<1>3. CASE current_command # NULL
  <2>1. cells' = [cells EXCEPT ![current_command] = old] /\ current_command' = current_command
    BY <1>3 DEF Extending
  <2>2. LinksKept /\ Len(cells') = Len(cells)
    BY <2>1, OneReplaced
  <2>3. Heap(G)'
    BY <2>1, <2>2, HeapKept
  <2> QED BY <1>3, <2>1, <2>2, <2>3 DEF Cells
<1> QED BY <1>2, <1>3

LEMMA Extends ==
  ASSUME IInv, session' = session, Rule \in 26..40, NEW v, Reduce(v),
         NEW new, NEW old, Extending(new, old), IsCommand(new), new.next = NULL,
         current_command \in Cell => IsCommand(old) /\ old.next = cells[current_command].next,
         command_list' = command_list, DuringParse
  PROVE  IInv'
<1>1. Books /\ Stacked /\ Collects /\ Cells
  BY DEF IInv
<1>2. PICK G : Reaching(G)
  BY DEF IInv
<1>3. Heap(G) /\ UNCHANGED <<freed, command_list, pc, cmd>> /\ freed' = freed /\ pc' = pc
  BY <1>2 DEF Reaching, DuringParse
<1>4. LinksKept /\ Heap(G)' /\ current_command' # NULL /\ current_command' \in 0..Len(cells')
  BY <1>1, <1>3, ExtendingKeeps
<1>5. Books'
  BY <1>1, <1>4, BooksKept
<1>6. Rule # 0 /\ Rule \notin 9..19
  OBVIOUS
<1>7. Stacked'
  BY <1>1, <1>6, Reduced
<1>8. Collects'
  BY <1>1, <1>4, <1>6, CollectsAfter
<1>9. Cells' /\ \A c \in Cell : next(c)' = next(c)
  BY <1>1, <1>3, <1>4, CellsKept
<1>10. \A c \in G : next(c)' = next(c)
  BY <1>3, <1>9 DEF Heap, Closed
<1>11. Reaching(G)'
  BY <1>1, <1>2, <1>3, <1>4, <1>6, <1>10, NoRoot
<1> QED BY <1>5, <1>7, <1>8, <1>9, <1>11 DEF IInv

LEMMA NewCommandIs == IsCommand(NewCommand) /\ NewCommand.next = NULL
BY DEF IsCommand, NewCommand

LEMMA ReduceWordKeeps == IInv /\ session' = session /\ ReduceWord => IInv'
<1> SUFFICES ASSUME IInv, session' = session, ReduceWord PROVE IInv'
  OBVIOUS
<1> DEFINE more(c) == [c EXCEPT !.argv = Append(@, Word(yyvsp(1)))]
           new == more(NewCommand)
           old == more(cells[current_command])
<1>1. /\ Rule \in 26..30 /\ Reduce(yyvsp(1)) /\ command_list' = command_list /\ DuringParse
  BY DEF ReduceWord
<1>2. Extending(new, old) \/ Extending(NewCommand, cells[current_command])
  BY DEF ReduceWord, Extended, Extending
<1>3. IsCommand(new) /\ new.next = NULL
  BY DEF IsCommand, NewCommand
<1>4. current_command \in Cell => IsCommand(cells[current_command])
  BY DEF IInv, Cells
<1>5. current_command \in Cell => IsCommand(old) /\ old.next = cells[current_command].next
  BY <1>4 DEF IsCommand
<1>6. Rule \in 26..40
  BY <1>1
<1> HIDE DEF new, old
<1>7. CASE Extending(new, old)
  BY <1>1, <1>3, <1>5, <1>6, <1>7, Extends
<1>8. CASE Extending(NewCommand, cells[current_command])
  BY <1>1, <1>4, <1>6, <1>8, NewCommandIs, Extends
<1> QED BY <1>2, <1>7, <1>8

LEMMA ReduceRedirectKeeps == IInv /\ session' = session /\ ReduceRedirect => IInv'
<1> SUFFICES ASSUME IInv, session' = session, ReduceRedirect PROVE IInv'
  OBVIOUS
<1> DEFINE target == Word(yyvsp(At(yyr2, Rule)))
           added == [n \in DOMAIN RedirectTypes |-> [type |-> RedirectTypes[n], target |-> target]]
           more(c) == [c EXCEPT !.redirects = Fitting(@ \o added)]
           new == more(NewCommand)
           old == more(cells[current_command])
<1>1. /\ Rule \in 31..40 /\ Reduce(yyvsp(1)) /\ command_list' = command_list /\ DuringParse
  BY DEF ReduceRedirect
<1>2. Extending(new, old)
  BY DEF ReduceRedirect, Extended, Extending
<1>3. IsCommand(new) /\ new.next = NULL
  <2> HIDE DEF added
  <2> QED BY DEF IsCommand, NewCommand
<1>4. current_command \in Cell => IsCommand(cells[current_command])
  BY DEF IInv, Cells
<1>5. current_command \in Cell => IsCommand(old) /\ old.next = cells[current_command].next
  <2> HIDE DEF added
  <2> QED BY <1>4 DEF IsCommand
<1>6. Rule \in 26..40
  BY <1>1
<1> HIDE DEF new, old
<1> QED BY <1>1, <1>2, <1>3, <1>5, <1>6, Extends

\* A reduction to a command that is younger than all that is reached so far.
LEMMA YoungestOnTop ==
  ASSUME Stacked, Cells, NEW G, Heap(G), RootsIn(Len(stack), G), Rule \in 15..19,
         NEW c \in Nat \ {NULL}, Reduce(c), \A d \in G : d \in Nat /\ d < c /\ next(d)' = next(d),
         next(c)' = NULL, command_list' = command_list
  PROVE  RootsIn(Len(stack), G \cup {c})'
<1> DEFINE H == G \cup {c}
<1>1. Rule \in 2..40 /\ Len(stack) \in Nat /\ Rule # 0
  BY RuleIs
<1>2. PICK m \in 1..Len(stack) :
        /\ m \in Nat /\ Len(stack') = m + 1
        /\ \A n \in 1..m : stack'[n] = stack[n]
        /\ stack'[m + 1].state = GotoTable(stack[m].state, Rule)
        /\ stack'[m + 1].value = c
  BY <1>1, Reduced
<1>3. RootsIn(m, G)'
  BY <1>1, <1>2, RootsKept
<1>4. ASSUME NEW n \in 1..m, IsRoot(n)'
      PROVE  RootIn(n, H)' /\ First(n)' \in G /\ Youngest(n)' \in G
  <2>1. RootIn(n, G)'
    BY <1>3, <1>4 DEF RootsIn
  <2>2. First(n)' \in G /\ First(n)' < c /\ First(n)' \in Nat
    BY <2>1 DEF RootIn
  <2>3. ~ (c < First(n)')
    BY <2>2
  <2> QED BY <2>1, <2>2, <2>3 DEF RootIn
<1>5. RootsIn(m, H)'
  BY <1>3, <1>4 DEF RootsIn
<1>6. stack'[m + 1].state \in CommandStates
  <2>1. stack[m].state \in State
    BY <1>2 DEF Stacked
  <2>2. Rule \in 12..19
    OBVIOUS
  <2> QED BY <1>1, <1>2, <2>1, <2>2, TargetOf
<1>7. First(m + 1)' = c /\ Youngest(m + 1)' = c /\ IsPair(m + 1)'
  BY <1>2, <1>6, Apart DEF First, Youngest, IsPair
<1>8. RootIn(m + 1, H)'
  <2>1. \A d \in H : d < c => next(d)' < c
    <3> SUFFICES ASSUME NEW d \in H, d < c PROVE next(d)' < c
      OBVIOUS
    <3>1. d \in G
      OBVIOUS
    <3>2. next(d) \in G \cup {NULL}
      BY <3>1 DEF Heap, Closed
    <3> QED BY <3>1, <3>2 DEF NULL
  <2>2. command_list # NoList => command_list.tail < c
    BY DEF Heap
  <2> HIDE DEF H
  <2>3. c \in H
    BY DEF H
  <2> QED BY <1>7, <2>1, <2>2, <2>3 DEF RootIn
<1>9. \A i \in 1..m : IsRoot(i)' => Youngest(i)' < First(m + 1)'
  BY <1>4, <1>7
<1> HIDE DEF H
<1>10. RootsIn(Len(stack), H)'
  BY <1>2, <1>5, <1>8, <1>9, RootOnTop
<1> QED BY <1>10 DEF H

LEMMA ReduceSimpleCommandKeeps == IInv /\ session' = session /\ ReduceSimpleCommand => IInv'
<1> SUFFICES ASSUME IInv, session' = session, ReduceSimpleCommand PROVE IInv'
  OBVIOUS
<1>1. Books /\ Stacked /\ Collects /\ Cells
  BY DEF IInv
<1>2. PICK G : Reaching(G)
  BY DEF IInv
<1>3. /\ Rule \in 16..19 /\ Rule # 0 /\ Reduce(current_command) /\ current_command' = NULL
      /\ cells' = cells /\ command_list' = command_list /\ DuringParse
  BY DEF ReduceSimpleCommand
<1>4. current_command # NULL
  BY <1>1, <1>3, CurrentBefore
<1>5. LinksKept /\ Len(cells') = Len(cells)
  BY <1>1, <1>3, SameCells
<1>6. Books'
  BY <1>1, <1>3, <1>5, BooksKept
<1>7. Stacked' /\ Collects'
  BY <1>1, <1>3, Reduced, CollectsAfter
<1>8. Cells' /\ Cell \subseteq Cell' /\ \A c \in Cell : next(c)' = next(c)
  <2>1. freed' = freed /\ current_command' \in 0..Len(cells')
    BY <1>1, <1>3, <1>5, CellsAre DEF DuringParse, NULL
  <2> QED BY <1>1, <1>5, <2>1, CellsKept
<1>9. PICK c : c = current_command
  OBVIOUS
<1>10. c \in Cell /\ c \in Nat \ {NULL} /\ next(c)' = NULL /\ next(c) = NULL
  <2>1. c \in Cell /\ c \in Nat \ {NULL}
    BY <1>1, <1>4, <1>9, CellsAre DEF Cells, NULL
  <2>2. next(c) = NULL
    BY <1>2, <1>4, <1>9 DEF Reaching, Heap
  <2> QED BY <1>8, <2>1, <2>2
<1>11. \A d \in G : d \in Nat /\ d < c /\ next(d)' = next(d)
  <2>1. \A d \in G : d \in Cell /\ d < current_command
    BY <1>2, <1>4 DEF Reaching, Heap, Closed
  <2> QED BY <1>1, <1>8, <1>9, <2>1, CellsAre
<1>12. pc = "parse" /\ RootsIn(Len(stack), G) /\ Heap(G)
  BY <1>1, <1>2, <1>3, RuleIs DEF Reaching
<1>13. RootsIn(Len(stack), G \cup {c})'
  <2>1. Reduce(c) /\ Rule \in 15..19
    BY <1>3, <1>9
  <2> QED BY <1>1, <1>3, <1>10, <1>11, <1>12, <2>1, YoungestOnTop
<1>14. Heap(G \cup {c})'
  <2>1. Closed(G \cup {c})'
    BY <1>8, <1>10, <1>11, <1>12 DEF Heap, Closed
  <2>2. (G \cup {c}) \cap freed = {}
    BY <1>4, <1>9, <1>12 DEF Heap
  <2> QED BY <1>3, <1>12, <2>1, <2>2 DEF Heap, DuringParse
<1> QED BY <1>6, <1>7, <1>8, <1>13, <1>14 DEF IInv, Reaching

LEMMA ReduceSubcommandKeeps == IInv /\ session' = session /\ ReduceSubcommand => IInv'
<1> SUFFICES ASSUME IInv, session' = session, ReduceSubcommand PROVE IInv'
  OBVIOUS
<1>1. Books /\ Stacked /\ Collects /\ Cells
  BY DEF IInv
<1>2. PICK G : Reaching(G)
  BY DEF IInv
<1> DEFINE new == [NewCommand EXCEPT !.is_subcommand = TRUE]
<1>3. /\ Rule = 15 /\ Rule # 0 /\ Reduce(Len(cells')) /\ current_command' = current_command
      /\ cells' = Append(cells, new) /\ command_list' = command_list /\ DuringParse
  BY DEF ReduceSubcommand
<1>4. current_command = NULL
  BY <1>1, <1>3, CurrentBefore
<1>5. LinksKept /\ Len(cells') = Len(cells) + 1
  <2>1. IsCommand(new) /\ new.next = NULL
    BY DEF IsCommand, NewCommand
  <2> HIDE DEF new
  <2> QED BY <1>1, <1>3, <2>1, OneMore
<1>6. Books'
  BY <1>1, <1>3, <1>5, BooksKept
<1>8. Cells' /\ Cell \subseteq Cell' /\ \A c \in Cell : next(c)' = next(c)
  <2>1. freed' = freed /\ current_command' \in 0..Len(cells')
    BY <1>1, <1>3, <1>4, <1>5, CellsAre DEF DuringParse, NULL
  <2> QED BY <1>1, <1>5, <2>1, CellsKept
<1>9. PICK c : c = Len(cells')
  OBVIOUS
<1>7. Stacked' /\ Collects'
  <2>1. Reduce(c) /\ (Rule \in 9..19 => current_command' = NULL) /\ Rule \notin 20..40
    BY <1>3, <1>4, <1>9
  <2> QED BY <1>1, <1>3, <2>1, Reduced, CollectsAfter
<1>10. c \in Cell' /\ c \in Nat \ {NULL} /\ next(c)' = NULL /\ c \notin Cell
  <2>1. c = Len(cells) + 1 /\ Len(cells) \in Nat /\ Cell = 1..Len(cells) /\ Cell' = 1..Len(cells')
    BY <1>1, <1>5, <1>9, CellsAre DEF Cell
  <2>2. c \in Len(cells) + 1..Len(cells')
    BY <1>9, <2>1
  <2> QED BY <1>5, <1>9, <2>1, <2>2 DEF LinksKept, next, NULL
<1>11. \A d \in G : d \in Nat /\ d < c /\ next(d)' = next(d)
  <2>1. \A d \in G : d \in Cell
    BY <1>2 DEF Reaching, Heap, Closed
  <2>2. \A d \in Cell : d \in Nat /\ d < c
    BY <1>1, <1>5, <1>9, CellsAre
  <2> QED BY <1>8, <2>1, <2>2
<1>12. pc = "parse" /\ RootsIn(Len(stack), G) /\ Heap(G)
  BY <1>1, <1>2, <1>3, RuleIs DEF Reaching
<1>13. RootsIn(Len(stack), G \cup {c})'
  <2>1. Reduce(c) /\ Rule \in 15..19
    BY <1>3, <1>9
  <2> QED BY <1>1, <1>3, <1>10, <1>11, <1>12, <2>1, YoungestOnTop
<1>14. Heap(G \cup {c})'
  <2>1. Closed(G \cup {c})'
    BY <1>8, <1>10, <1>11, <1>12 DEF Heap, Closed
  <2>2. (G \cup {c}) \cap freed = {}
    BY <1>1, <1>10, <1>12 DEF Heap, Cells
  <2> QED BY <1>3, <1>4, <1>12, <2>1, <2>2 DEF Heap, DuringParse
<1> QED BY <1>6, <1>7, <1>8, <1>13, <1>14 DEF IInv, Reaching

\* A step that has one command, older than another, lead to it.
LinkSet(a, b) ==
  /\ Sequence(cells') /\ Len(cells') = Len(cells)
  /\ \A c \in Cell : IsCommand(cells'[c])
  /\ cells'[a].next = b
  /\ \A c \in Cell : c # a => cells'[c].next = cells[c].next

LEMMA Linking ==
  ASSUME Cells, NEW a \in Cell, NEW r, IsCommand(r), cells' = [cells EXCEPT ![a] = r]
  PROVE  LinkSet(a, r.next)
<1>0. Sequence(cells) /\ cells' = Replaced(cells, a, r)
  BY DEF Cells, Replaced
<1>1. /\ Sequence(cells') /\ Len(cells') = Len(cells)
      /\ \A n \in 1..Len(cells) : cells'[n] = IF n = a THEN r ELSE cells[n]
  <2>1. \A s, i, x : Sequence(s) =>
           /\ Sequence(Replaced(s, i, x))
           /\ Len(Replaced(s, i, x)) = Len(s)
           /\ \A n \in 1..Len(s) : Replaced(s, i, x)[n] = IF n = i THEN x ELSE s[n]
    BY Replacing
  <2>2. /\ Sequence(Replaced(cells, a, r))
        /\ Len(Replaced(cells, a, r)) = Len(cells)
        /\ \A n \in 1..Len(cells) : Replaced(cells, a, r)[n] = IF n = a THEN r ELSE cells[n]
    BY <1>0, <2>1
  <2> QED BY <1>0, <2>2
<1>2. Cell = 1..Len(cells) /\ \A c \in Cell : IsCommand(cells[c])
  BY CellsAre DEF Cells
<1>3. \A c \in Cell : IsCommand(cells'[c])
  BY <1>1, <1>2
<1>4. cells'[a].next = r.next /\ \A c \in Cell : c # a => cells'[c].next = cells[c].next
  BY <1>1, <1>2
<1> QED BY <1>1, <1>3, <1>4 DEF LinkSet

LEMMA LinkedCells ==
  ASSUME Cells, NEW a \in Cell, NEW b \in Cell, a < b, LinkSet(a, b),
         freed' = freed, current_command' = current_command
  PROVE  /\ Cells' /\ Cell' = Cell
         /\ next(a)' = b /\ \A c \in Cell : c # a => next(c)' = next(c)
<1>1. Len(cells) \in Nat /\ Len(cells') = Len(cells) /\ Cell = 1..Len(cells) /\ Cell' = Cell
  BY CellsAre DEF LinkSet, Cell
<1>2. next(a)' = b /\ \A c \in Cell : c # a => next(c)' = next(c)
  BY DEF LinkSet, next
<1>3. \A c \in Cell' : IsCommand(cells'[c])
  BY <1>1 DEF LinkSet
<1>4. ASSUME NEW c \in Cell' PROVE next(c)' = NULL \/ next(c)' \in c + 1..Len(cells')
  <2>1. CASE c = a
    BY <1>1, <1>2, <2>1
  <2>2. CASE c # a
    BY <1>1, <1>2, <2>2 DEF Cells
  <2> QED BY <2>1, <2>2
<1>5. Cells'
  BY <1>1, <1>3, <1>4 DEF Cells, LinkSet
<1> QED BY <1>1, <1>2, <1>5

LEMMA BooksLinked ==
  ASSUME Books, Cells, Len(cells') = Len(cells), session' = session, DuringParse
  PROVE  Books'
<1>1. Cell' = Cell
  BY DEF Cell
<1> QED BY <1>1 DEF Books, DuringParse, history

\* The operands of && , || and |.
LEMMA Operands ==
  ASSUME Stacked, NEW G, RootsIn(Len(stack), G), Rule \in {10, 11, 13},
         NEW m \in Nat, m = Len(stack) - At(yyr2, Rule)
  PROVE  /\ Len(stack) = m + 3 /\ m + 1 \in 1..Len(stack) /\ m + 3 \in 1..Len(stack)
         /\ Rule # 13 => stack[m + 1].state \in ListStates
         /\ Rule = 13 => stack[m + 1].state \in CommandStates
         /\ stack[m + 3].state \in CommandStates
         /\ IsRoot(m + 1) /\ RootIn(m + 1, G) /\ IsRoot(m + 3) /\ RootIn(m + 3, G)
         /\ Youngest(m + 1) < First(m + 3)
         /\ yyvsp(1) = stack[m + 1].value /\ yyvsp(3) = First(m + 3)
<1>1. /\ Rule # 0 /\ Rule = DefaultRule(yystate) /\ yystate = stack[Len(stack)].state
      /\ yystate \in State /\ Len(stack) \in Nat
  BY RuleIs
<1>2. Len(stack) = m + 3 /\ m + 1 \in 1..Len(stack) /\ m + 3 \in 1..Len(stack) /\ m + 2 \in 1..Len(stack)
  <2>1. At(yyr2, Rule) = 3
    BY Lengths9to19
  <2> QED BY <1>1, <2>1
<1>3. stack[m + 3].state \in {53, 54, 55} /\ (Rule = 13 <=> stack[m + 3].state = 55)
  <2>1. PICK s \in State : s = yystate
    BY <1>1
  <2>2. Rule = DefaultRule(s) /\ s = stack[m + 3].state /\ Rule \in {10, 11, 13}
    BY <1>1, <1>2, <2>1
  <2>3. s \in {53, 54, 55} /\ (DefaultRule(s) = 13 <=> s = 55)
    <3>1. /\ DefaultRule(s) = 10 => s = 53
          /\ DefaultRule(s) = 11 => s = 54
          /\ DefaultRule(s) = 13 => s = 55
      BY <2>1, RuleOf
    <3>2. DefaultRule(s) \in {10, 11, 13}
      BY <2>2
    <3>3. DefaultRule(55) = 13 /\ DefaultRule(53) # 13 /\ DefaultRule(54) # 13
      BY DEF DefaultRule, At, yydefact
    <3> QED BY ONLY <3>1, <3>2, <3>3
  <2> QED BY <2>2, <2>3
<1>4. /\ stack[m + 1].state \in State /\ stack[m + 2].state \in State /\ stack[m + 3].state \in State
      /\ Edge(stack[m + 1].state, stack[m + 2].state) /\ Edge(stack[m + 2].state, stack[m + 3].state)
  <2>1. m + 2 > 1 /\ m + 3 > 1 /\ m + 2 - 1 = m + 1 /\ m + 3 - 1 = m + 2
    OBVIOUS
  <2>2. /\ Edge(stack[m + 2 - 1].state, stack[m + 2].state) /\ Edge(stack[m + 3 - 1].state, stack[m + 3].state)
    <3>1. \A n \in 1..Len(stack) : n > 1 => Edge(stack[n - 1].state, stack[n].state)
      BY DEF Stacked
    <3>2. Edge(stack[m + 2 - 1].state, stack[m + 2].state)
      BY ONLY <1>2, <2>1, <3>1
    <3>3. Edge(stack[m + 3 - 1].state, stack[m + 3].state)
      BY ONLY <1>2, <2>1, <3>1
    <3> QED BY <3>2, <3>3
  <2>3. stack[m + 1].state \in State /\ stack[m + 2].state \in State /\ stack[m + 3].state \in State
    BY <1>2 DEF Stacked
  <2> QED BY <2>1, <2>2, <2>3
<1>5. /\ Rule # 13 => stack[m + 1].state \in ListStates
      /\ Rule = 13 => stack[m + 1].state \in CommandStates
  BY <1>3, <1>4, Under
<1>6. stack[m + 3].state \in CommandStates
  BY <1>3 DEF CommandStates
<1>7. IsRoot(m + 1) /\ IsRoot(m + 3)
  BY <1>5, <1>6 DEF IsRoot
<1>8. RootIn(m + 1, G) /\ RootIn(m + 3, G) /\ Youngest(m + 1) < First(m + 3)
  <2>1. m + 1 < m + 3
    OBVIOUS
  <2> QED BY <1>2, <1>7, <2>1 DEF RootsIn
<1>9. yyvsp(1) = stack[m + 1].value /\ yyvsp(3) = stack[m + 3].value
  BY <1>1, ValueOf
<1>10. First(m + 3) = stack[m + 3].value
  BY <1>6, Apart DEF First
<1> QED BY <1>2, <1>5, <1>6, <1>7, <1>8, <1>9, <1>10

LEMMA Combined ==
  ASSUME IInv, session' = session, NEW G, Reaching(G), Rule \in {10, 11, 13},
         NEW m \in Nat, m = Len(stack) - At(yyr2, Rule),
         NEW v, Reduce(v), NEW a \in G, First(m + 1) <= a, a < First(m + 3), LinkSet(a, First(m + 3)),
         Rule # 13 => v = [head |-> First(m + 1), tail |-> First(m + 3)],
         Rule = 13 => v = First(m + 1),
         UNCHANGED <<current_command, command_list>>, DuringParse
  PROVE  IInv'
<1> DEFINE b == First(m + 3)
<1>1. Books /\ Stacked /\ Collects /\ Cells
  BY DEF IInv
<1>2. Rule # 0 /\ pc = "parse" /\ Len(stack) \in Nat
  BY <1>1, RuleIs
<1>3. RootsIn(Len(stack), G) /\ Heap(G)
  BY <1>2 DEF Reaching
<1>4. /\ Len(stack) = m + 3 /\ m + 1 \in 1..Len(stack) /\ m + 3 \in 1..Len(stack)
      /\ IsRoot(m + 1) /\ RootIn(m + 1, G) /\ IsRoot(m + 3) /\ RootIn(m + 3, G)
      /\ Rule # 13 => stack[m + 1].state \in ListStates
      /\ Rule = 13 => stack[m + 1].state \in CommandStates
  BY <1>1, <1>3, Operands
<1>5. a \in Cell /\ b \in Cell /\ b \in G /\ \A c \in G : c \in Cell
  BY <1>3, <1>4 DEF RootIn, Heap, Closed
<1>6. Len(cells) \in Nat /\ Cell = 1..Len(cells)
  BY <1>1, CellsAre
<1>7. /\ Cells' /\ Cell' = Cell
      /\ next(a)' = b /\ \A c \in Cell : c # a => next(c)' = next(c)
  <2>1. freed' = freed /\ current_command' = current_command
    BY DEF DuringParse
  <2> QED BY <1>1, <1>5, <2>1, LinkedCells
<1>8. Books'
  BY <1>1, BooksLinked DEF LinkSet
<1>9. current_command = NULL /\ current_command' = NULL
  BY <1>1, <1>2, CurrentBefore
<1>10. Stacked' /\ Collects'
  <2>1. Rule \notin 20..40
    OBVIOUS
  <2> QED BY <1>1, <1>2, <1>9, <2>1, Reduced, CollectsAfter
<1>11. PICK k \in 1..Len(stack) :
        /\ k = m
        /\ Len(stack') = m + 1
        /\ \A n \in 1..m : stack'[n] = stack[n]
        /\ stack'[m + 1].state = GotoTable(stack[m].state, Rule)
        /\ stack'[m + 1].value = v
  BY <1>1, <1>2, Reduced
<1>12. Heap(G)'
  <2>1. Closed(G)'
    BY <1>3, <1>5, <1>7 DEF Heap, Closed
  <2> QED BY <1>3, <1>9, <2>1 DEF Heap, DuringParse
<1>13. RootsIn(m, G)'
  <2>1. ASSUME NEW n \in 1..m, NEW c \in G, IsRoot(n), c < First(n) PROVE next(c)' = next(c)
    <3>1. n \in 1..Len(stack) /\ n < m + 1
      BY <1>2, <1>4
    <3>2. First(n) \in G /\ Youngest(n) \in G /\ First(n) <= Youngest(n) /\ Youngest(n) < First(m + 1)
      BY <1>3, <1>4, <2>1, <3>1 DEF RootsIn, RootIn
    <3>3. First(m + 1) \in G
      BY <1>4 DEF RootIn
    <3>5. \A d \in G : d \in Int
      BY <1>5, <1>6
    <3>6. PICK p, q, f : p = First(n) /\ q = Youngest(n) /\ f = First(m + 1)
      OBVIOUS
    <3>7. p \in Int /\ q \in Int /\ f \in Int /\ c \in Int /\ a \in Int
      BY <3>2, <3>3, <3>5, <3>6
    <3>8. c < p /\ p <= q /\ q < f /\ f <= a
      BY <2>1, <3>2, <3>6
    <3>4. c # a
      BY <3>7, <3>8
    <3> QED BY <1>5, <1>7, <3>4
  <2>2. m <= Len(stack)
    BY <1>4
  <2>3. command_list' = command_list
    OBVIOUS
  <2> QED BY <1>2, <1>3, <1>11, <2>1, <2>2, <2>3, RootsKept
<1>14. /\ Rule # 13 => stack'[m + 1].state \in ListStates
       /\ Rule = 13 => stack'[m + 1].state \in CommandStates
  <2>1. stack[m].state \in State
    BY <1>11 DEF Stacked, IInv
  <2> QED BY <1>2, <1>11, <2>1, TargetOf
<1>15. First(m + 1)' = First(m + 1) /\ Youngest(m + 1)' \in {First(m + 1), b} /\ IsPair(m + 1)'
  BY <1>11, <1>14, Apart DEF First, Youngest, IsPair
<1>16. /\ First(m + 1) \in G /\ First(m + 1) \in Nat /\ b \in Nat /\ a \in Nat
       /\ First(m + 1) < b
  <2>1. First(m + 1) \in G
    BY <1>4 DEF RootIn
  <2> QED BY <1>5, <1>6, <2>1
<1>17. RootIn(m + 1, G)'
  <2>1. \A c \in G : c < First(m + 1) => next(c)' < First(m + 1)
    <3> SUFFICES ASSUME NEW c \in G, c < First(m + 1) PROVE next(c)' < First(m + 1)
      OBVIOUS
    <3>1. c # a
      BY <1>5, <1>6, <1>16
    <3>2. next(c) < First(m + 1)
      BY <1>4 DEF RootIn
    <3> QED BY <1>5, <1>7, <3>1, <3>2
  <2>2. command_list' = command_list /\ (command_list # NoList => command_list.tail < First(m + 1))
    BY <1>4 DEF RootIn
  <2>3. Youngest(m + 1)' \in G /\ First(m + 1)' <= Youngest(m + 1)'
    BY <1>5, <1>15, <1>16
  <2> HIDE DEF b
  <2> QED BY <1>15, <1>16, <2>1, <2>2, <2>3 DEF RootIn
<1>18. ASSUME NEW i \in 1..m, IsRoot(i)' PROVE Youngest(i)' < First(m + 1)'
  <2>1. IsRoot(i) /\ Youngest(i)' = Youngest(i) /\ i \in 1..Len(stack) /\ i < m + 1
    BY <1>4, <1>11, <1>18 DEF IsRoot, Youngest
  <2> QED BY <1>3, <1>4, <1>15, <2>1 DEF RootsIn
<1>19. RootsIn(Len(stack), G)'
  BY <1>11, <1>13, <1>17, <1>18, RootOnTop
<1> QED BY <1>7, <1>8, <1>10, <1>12, <1>19 DEF IInv, Reaching

LEMMA ReducePipeKeeps == IInv /\ session' = session /\ ReducePipe => IInv'
<1> SUFFICES ASSUME IInv, session' = session, ReducePipe PROVE IInv'
  OBVIOUS
<1>1. Books /\ Stacked /\ Collects /\ Cells
  BY DEF IInv
<1>2. PICK G : Reaching(G)
  BY DEF IInv
<1>3. /\ Rule = 13 /\ Rule # 0 /\ Reduce(yyvsp(1)) /\ add_pipeline(yyvsp(1), yyvsp(3))
      /\ UNCHANGED <<current_command, command_list>> /\ DuringParse
  BY DEF ReducePipe
<1>4. pc = "parse" /\ RootsIn(Len(stack), G) /\ Heap(G) /\ Len(stack) \in Nat
  BY <1>1, <1>2, <1>3, RuleIs DEF Reaching
<1>5. PICK m : m = Len(stack) - At(yyr2, Rule) /\ m \in Nat
  BY <1>1, <1>3, <1>4, Depth
<1>6. /\ stack[m + 1].state \in CommandStates
      /\ RootIn(m + 1, G) /\ RootIn(m + 3, G) /\ Youngest(m + 1) < First(m + 3)
      /\ yyvsp(1) = stack[m + 1].value /\ yyvsp(3) = First(m + 3)
  BY <1>1, <1>3, <1>4, <1>5, Operands
<1>7. PICK f, b : f = First(m + 1) /\ b = First(m + 3)
  OBVIOUS
<1>8. yyvsp(1) = f /\ f < b /\ f \in G /\ b \in G /\ f \in Cell /\ b \in Cell
  BY <1>4, <1>6, <1>7, Apart DEF First, Youngest, RootIn, Heap, Closed
<1> DEFINE S == {c \in G : f <= c /\ c < b}
<1>9. Len(cells) \in Nat /\ Cell = 1..Len(cells) /\ G \subseteq Cell
  BY <1>1, <1>4, CellsAre DEF Heap, Closed
<1>10. Closed(S)
  <2>1. ASSUME NEW c \in S PROVE next(c) \in S \cup {NULL}
    <3>1. c \in G /\ f <= c /\ c < b
      OBVIOUS
    <3>2. next(c) \in G \cup {NULL}
      BY <1>4, <3>1 DEF Heap, Closed
    <3>3. next(c) < b
      BY <1>6, <1>7, <3>1 DEF RootIn
    <3>4. next(c) = NULL \/ next(c) \in c + 1..Len(cells)
      BY <1>1, <1>9, <3>1 DEF Cells
    <3>5. next(c) # NULL => f <= next(c)
      BY <1>8, <1>9, <3>1, <3>4
    <3> QED BY <3>2, <3>3, <3>5
  <2> QED BY <1>9, <2>1 DEF Closed
<1>11. f \in S
  BY <1>8, <1>9
<1>12. PICK a : a = Last(Chain(f))
  OBVIOUS
<1>13. a \in S
  <2> HIDE DEF S
  <2> QED BY <1>1, <1>10, <1>11, <1>12, ChainIn, MembersIn
<1>14. a \in G /\ f <= a /\ a < b /\ a \in Cell
  BY <1>9, <1>13
<1> DEFINE r == [[cells[a] EXCEPT !.next = b] EXCEPT !.pipline_next = TRUE]
<1>15. IsCommand(cells[a])
  BY <1>1, <1>14 DEF Cells
<1>16. IsCommand(r) /\ r.next = b
  BY <1>15 DEF IsCommand
<1>17. cells' = [cells EXCEPT ![a] = r]
  <2>1. cells' = [cells EXCEPT ![a].next = b, ![a].pipline_next = TRUE]
    BY <1>3, <1>6, <1>7, <1>8, <1>12 DEF add_pipeline
  <2>2. DOMAIN cells = Cell
    BY <1>1, Lengths DEF Cells, Cell
  <2> QED BY <1>14, <2>1, <2>2
<1> HIDE DEF r, S
<1>18. LinkSet(a, b)
  BY <1>1, <1>14, <1>16, <1>17, Linking
<1> QED BY <1>2, <1>3, <1>5, <1>7, <1>8, <1>14, <1>18, Combined

LEMMA ReduceAndOrKeeps == IInv /\ session' = session /\ ReduceAndOr => IInv'
<1> SUFFICES ASSUME IInv, session' = session, ReduceAndOr PROVE IInv'
  OBVIOUS
<1>1. Books /\ Stacked /\ Collects /\ Cells
  BY DEF IInv
<1>2. PICK G : Reaching(G)
  BY DEF IInv
<1> DEFINE list == yyvsp(1)
           v == [list EXCEPT !.tail = yyvsp(3)]
<1>3. /\ Rule \in {10, 11} /\ Rule # 0 /\ Reduce(v)
      /\ UNCHANGED <<current_command, command_list>> /\ DuringParse
  BY DEF ReduceAndOr
<1>4. pc = "parse" /\ RootsIn(Len(stack), G) /\ Heap(G) /\ Len(stack) \in Nat
  BY <1>1, <1>2, <1>3, RuleIs DEF Reaching
<1>5. PICK m : m = Len(stack) - At(yyr2, Rule) /\ m \in Nat
  BY <1>1, <1>3, <1>4, Depth
<1>6. /\ stack[m + 1].state \in ListStates
      /\ RootIn(m + 1, G) /\ RootIn(m + 3, G) /\ Youngest(m + 1) < First(m + 3)
      /\ yyvsp(1) = stack[m + 1].value /\ yyvsp(3) = First(m + 3)
  BY <1>1, <1>3, <1>4, <1>5, Operands
<1>7. PICK f, a, b : f = First(m + 1) /\ a = Youngest(m + 1) /\ b = First(m + 3)
  OBVIOUS
<1>8. list = [head |-> f, tail |-> a]
  BY <1>6, <1>7 DEF RootIn, IsPair
<1>9. /\ f <= a /\ a < b /\ a \in G /\ a \in Cell /\ yyvsp(3) = b
  BY <1>4, <1>6, <1>7 DEF RootIn, Heap, Closed
<1> DEFINE r == [[[cells[a] EXCEPT !.and_next = @ \/ Rule = 10]
                            EXCEPT !.or_next = @ \/ Rule = 11]
                            EXCEPT !.next = b]
<1>15. IsCommand(cells[a])
  BY <1>1, <1>9 DEF Cells
<1>16. IsCommand(r) /\ r.next = b
  BY <1>15 DEF IsCommand
<1>17. cells' = [cells EXCEPT ![a] = r]
  <2>1. cells' = [cells EXCEPT ![list.tail].and_next = @ \/ Rule = 10,
                               ![list.tail].or_next = @ \/ Rule = 11,
                               ![list.tail].next = yyvsp(3)]
    BY DEF ReduceAndOr
  <2> HIDE DEF list
  <2>2. cells' = [cells EXCEPT ![a].and_next = @ \/ Rule = 10,
                               ![a].or_next = @ \/ Rule = 11,
                               ![a].next = b]
    BY <1>8, <1>9, <2>1
  <2>3. DOMAIN cells = Cell
    BY <1>1, Lengths DEF Cells, Cell
  <2> QED BY <1>9, <2>2, <2>3
<1>18. LinkSet(a, b)
  <2> HIDE DEF r
  <2> QED BY <1>1, <1>9, <1>16, <1>17, Linking
<1>19. v = [head |-> f, tail |-> b]
  BY <1>8, <1>9
<1> HIDE DEF r, v, list
<1> QED BY <1>2, <1>3, <1>5, <1>7, <1>9, <1>18, <1>19, Combined

LEMMA ReduceListKeeps == IInv /\ session' = session /\ ReduceList => IInv'
<1> SUFFICES ASSUME IInv, session' = session, ReduceList PROVE IInv'
  OBVIOUS
<1>1. Books /\ Stacked /\ Collects /\ Cells
  BY DEF IInv
<1>2. PICK G : Reaching(G)
  BY DEF IInv
<1>3. /\ Rule = 9 /\ Rule # 0
      /\ cells' = cells /\ current_command' = current_command /\ command_list' = command_list
      /\ DuringParse
  BY DEF ReduceList, heap
<1>4. PICK v : Reduce(v) /\ v = [head |-> yyvsp(1), tail |-> yyvsp(1)]
  BY DEF ReduceList
<1>5. LinksKept
  BY <1>1, <1>3, SameCells
<1>6. Books'
  BY <1>1, <1>3, <1>5, BooksKept
<1>7. Stacked' /\ Collects'
  <2>1. current_command' = NULL /\ Rule \notin 20..40
    BY <1>1, <1>3, CurrentBefore
  <2> QED BY <1>1, <1>3, <1>4, <2>1, Reduced, CollectsAfter
<1>8. Cells' /\ \A c \in Cell : next(c)' = next(c)
  <2>1. freed' = freed /\ current_command' \in 0..Len(cells')
    BY <1>1, <1>3 DEF DuringParse, Cells
  <2> QED BY <1>1, <1>5, <2>1, CellsKept
<1>9. Heap(G)'
  BY <1>1, <1>2, <1>3, <1>5, HeapKept DEF DuringParse, Reaching
<1>10. \A c \in G : next(c)' = next(c)
  BY <1>2, <1>8 DEF Reaching, Heap, Closed
<1>11. pc' = pc
  BY <1>3 DEF DuringParse
<1>12. Reaching(G)'
  BY <1>1, <1>2, <1>3, <1>4, <1>9, <1>10, <1>11, SameCommand
<1> QED BY <1>6, <1>7, <1>8, <1>12 DEF IInv

\* A list is appended when it is all that the stack has.
LEMMA AloneOnStack ==
  ASSUME Stacked, Rule = 6
  PROVE  /\ Len(stack) = 3 /\ yystate = 16
         /\ stack[1].state = 0 /\ stack[2].state = 1 /\ stack[3].state = 16
<1>1. /\ yystate = stack[Len(stack)].state /\ yystate \in State /\ Rule = DefaultRule(yystate)
      /\ Len(stack) \in Nat /\ Len(stack) >= 1
  BY RuleIs
<1>2. yystate = 16
  BY <1>1, RuleOf
<1>3. PICK N : N = Len(stack) /\ N \in Nat /\ N >= 1
  BY <1>1
<1> DEFINE S(n) == stack[n].state
<1>4. S(1) = 0 /\ S(N) = 16
  BY <1>1, <1>2, <1>3 DEF Stacked
<1>5. \A n \in 2..N : S(n - 1) \in State /\ S(n) \in State /\ Edge(S(n - 1), S(n))
  BY <1>3 DEF Stacked
<1> HIDE DEF S
<1>6. N # 1 /\ N \in 2..N
  BY <1>3, <1>4
<1>7. S(N - 1) = 1
  BY <1>4, <1>5, <1>6, Bottom
<1>8. N - 1 # 1 /\ N - 1 \in 2..N /\ N - 1 - 1 = N - 2
  BY <1>3, <1>4, <1>6, <1>7
<1>9. S(N - 2) = 0
  BY <1>5, <1>7, <1>8, Bottom
<1>10. N - 2 = 1
  <2> SUFFICES ASSUME N - 2 # 1 PROVE FALSE
    OBVIOUS
  <2>1. N - 2 \in 2..N
    BY <1>3, <1>8
  <2> QED BY <1>5, <1>9, <2>1, Bottom
<1>11. N = 3 /\ N - 1 = 2
  <2>1. N \in Int
    BY <1>3
  <2> QED BY ONLY <1>10, <2>1
<1> QED BY <1>2, <1>3, <1>4, <1>7, <1>11 DEF S

LEMMA ReduceSequenceKeeps == IInv /\ session' = session /\ ReduceSequence => IInv'
<1> SUFFICES ASSUME IInv, session' = session, ReduceSequence PROVE IInv'
  OBVIOUS
<1>1. Books /\ Stacked /\ Collects /\ Cells
  BY DEF IInv
<1>2. PICK G : Reaching(G)
  BY DEF IInv
<1>3. /\ Rule = 6 /\ Rule # 0 /\ Reduce(yyvsp(1)) /\ current_command' = current_command
      /\ DuringParse
  BY DEF ReduceSequence
<1>4. pc = "parse" /\ RootsIn(Len(stack), G) /\ Heap(G) /\ current_command = NULL
  BY <1>1, <1>2, <1>3, RuleIs, CurrentBefore DEF Reaching
<1>5. /\ Len(stack) = 3
      /\ stack[1].state = 0 /\ stack[2].state = 1 /\ stack[3].state = 16
  BY <1>1, <1>3, AloneOnStack
<1>6. PICK m \in 1..Len(stack) :
        /\ m = Len(stack) - At(yyr2, Rule) /\ m \in Nat
        /\ Stacked' /\ Len(stack') = m + 1
        /\ \A n \in 1..m : stack'[n] = stack[n]
        /\ stack'[m + 1].state = GotoTable(stack[m].state, Rule)
  BY <1>1, <1>3, Reduced
<1>7. m = 2
  BY <1>3, <1>5, <1>6, Lengths9to19
<1>8. \A n \in 1..Len(stack') : ~ IsRoot(n)'
  <2>1. stack'[1].state = 0 /\ stack'[2].state = 1
    <3>1. 1 \in 1..m /\ 2 \in 1..m
      BY <1>7
    <3> QED BY <1>5, <1>6, <3>1
  <2>2. stack'[3].state \notin CommandStates \cup ListStates
    <3>1. stack'[3].state = GotoTable(1, Rule)
      BY <1>5, <1>6, <1>7
    <3>2. GotoTable(1, 6) \notin Collected
      <4>1. 1 \in State /\ 6 \in 2..40 /\ 6 \in 2..8
        BY DEF State
      <4> QED BY <4>1, TargetOf
    <3> QED BY <1>3, <3>1, <3>2, Apart
  <2>3. 0 \notin CommandStates \cup ListStates /\ 1 \notin CommandStates \cup ListStates
    BY DEF CommandStates, ListStates
  <2>4. 1..Len(stack') = {1, 2, 3}
    BY <1>6, <1>7
  <2> QED BY <2>1, <2>2, <2>3, <2>4 DEF IsRoot
<1>9. RootsIn(Len(stack), G)'
  BY <1>8 DEF RootsIn
<1>10. Stacked' /\ Collects'
  BY <1>1, <1>3, <1>6, CollectsAfter
<1>11. RootIn(3, G) /\ stack[3].state \in ListStates /\ yyvsp(1) = stack[3].value
  <2>1. 3 \in 1..Len(stack) /\ m + 1 = 3
    BY <1>5, <1>7
  <2>2. stack[3].state \in ListStates
    BY <1>5 DEF ListStates
  <2>3. yyvsp(1) = stack[m + 1].value
    BY <1>1, <1>3, <1>6, ValueOf
  <2> QED BY <1>4, <2>1, <2>2, <2>3 DEF RootsIn, IsRoot
<1>12. PICK f, t : f = First(3) /\ t = Youngest(3)
  OBVIOUS
<1>13. yyvsp(1) = [head |-> f, tail |-> t] /\ f \in G /\ t \in G
  BY <1>11, <1>12 DEF RootIn, IsPair
<1>14. G \subseteq Cell
  BY <1>4 DEF Heap, Closed
<1>15. CASE command_list = NoList
  <2>1. command_list' = yyvsp(1) /\ cells' = cells
    BY <1>15 DEF ReduceSequence
  <2>2. LinksKept
    BY <1>1, <2>1, SameCells
  <2>3. Books'
    BY <1>1, <1>3, <2>2, BooksKept
  <2>4. Cells'
    <3>1. freed' = freed /\ current_command' \in 0..Len(cells')
      BY <1>1, <1>3, <2>1 DEF DuringParse, Cells
    <3> QED BY <1>1, <2>2, <3>1, CellsKept
  <2>5. Closed(G)'
    BY <1>4, <2>1 DEF Heap, Closed, next, Cell
  <2>6. command_list' \in [head : G, tail : G]
    BY <1>13, <2>1
  <2>7. Heap(G)'
    BY <1>3, <1>4, <2>5, <2>6 DEF Heap, DuringParse
  <2> QED BY <1>9, <1>10, <2>3, <2>4, <2>7 DEF IInv, Reaching
<1>16. CASE command_list # NoList
  <2>0. PICK a : a = command_list.tail
    OBVIOUS
  <2> DEFINE r == [cells[a] EXCEPT !.next = f]
  <2>1. command_list \in [head : G, tail : G] /\ a \in G /\ a < f
    BY <1>4, <1>11, <1>12, <1>16, <2>0 DEF Heap, RootIn
  <2>2. /\ cells' = [cells EXCEPT ![a].next = yyvsp(1).head]
        /\ command_list' = [command_list EXCEPT !.tail = yyvsp(1).tail]
    BY <1>16, <2>0 DEF ReduceSequence, Appended
  <2>3. a \in Cell /\ f \in Cell
    BY <1>13, <1>14, <2>1
  <2>4. cells' = [cells EXCEPT ![a] = r]
    <3>1. DOMAIN cells = Cell
      BY <1>1, Lengths DEF Cells, Cell
    <3>2. yyvsp(1).head = f
      BY <1>13
    <3> QED BY <2>2, <2>3, <3>1, <3>2
  <2>5. IsCommand(r) /\ r.next = f
    BY <1>1, <2>3 DEF Cells, IsCommand
  <2>6. LinkSet(a, f)
    <3> HIDE DEF r
    <3> QED BY <1>1, <2>3, <2>4, <2>5, Linking
  <2>7. command_list' \in [head : G, tail : G]
    BY <1>13, <2>1, <2>2
  <2> HIDE DEF r
  <2>8. /\ Cells' /\ Cell' = Cell
        /\ next(a)' = f /\ \A c \in Cell : c # a => next(c)' = next(c)
    <3>1. freed' = freed /\ current_command' = current_command
      BY <1>3 DEF DuringParse
    <3> QED BY <1>1, <2>1, <2>3, <2>6, <3>1, LinkedCells
  <2>9. Books'
    BY <1>1, <1>3, <2>6, BooksLinked DEF LinkSet
  <2>10. Closed(G)'
    BY <1>4, <1>13, <1>14, <2>1, <2>8 DEF Heap, Closed
  <2>11. Heap(G)'
    BY <1>3, <1>4, <2>7, <2>10 DEF Heap, DuringParse
  <2> QED BY <1>9, <1>10, <2>8, <2>9, <2>11 DEF IInv, Reaching
<1> QED BY <1>15, <1>16

LEMMA ReduceBackgroundKeeps == IInv /\ session' = session /\ ReduceBackground => IInv'
<1> SUFFICES ASSUME IInv, session' = session, ReduceBackground PROVE IInv'
  OBVIOUS
<1>1. Books /\ Stacked /\ Collects /\ Cells
  BY DEF IInv
<1>2. PICK G : Reaching(G)
  BY DEF IInv
<1> DEFINE a == command_list.tail
           r == [cells[a] EXCEPT !.background = TRUE]
<1>3. /\ Rule = 8 /\ Rule # 0 /\ Reduce(yyvsp(1)) /\ cells' = [cells EXCEPT ![a].background = TRUE]
      /\ current_command' = current_command /\ command_list' = command_list /\ DuringParse
  BY DEF ReduceBackground
<1>4. cells' = [cells EXCEPT ![a] = r]
  BY <1>3
<1>5. a \in Cell => IsCommand(r) /\ r.next = cells[a].next
  BY <1>1 DEF Cells, IsCommand
<1> HIDE DEF r, a
<1>6. LinksKept /\ Len(cells') = Len(cells)
  BY <1>1, <1>4, <1>5, OneReplaced
<1>7. Books'
  BY <1>1, <1>3, <1>6, BooksKept
<1>8. Stacked' /\ Collects'
  BY <1>1, <1>3, Reduced, CollectsAfter
<1>9. Cells' /\ \A c \in Cell : next(c)' = next(c)
  <2>1. freed' = freed /\ current_command' \in 0..Len(cells')
    BY <1>1, <1>3, <1>6 DEF DuringParse, Cells
  <2> QED BY <1>1, <1>6, <2>1, CellsKept
<1>10. Heap(G)'
  BY <1>1, <1>2, <1>3, <1>6, HeapKept DEF DuringParse, Reaching
<1>11. \A c \in G : next(c)' = next(c)
  BY <1>2, <1>9 DEF Reaching, Heap, Closed
<1>12. Reaching(G)'
  <2>1. Rule \notin 9..19
    BY <1>3
  <2>2. pc' = pc
    BY <1>3 DEF DuringParse
  <2> QED BY <1>1, <1>2, <1>3, <1>10, <1>11, <2>1, <2>2, NoRoot
<1> QED BY <1>7, <1>8, <1>9, <1>12 DEF IInv

LEMMA ReductionKeeps == IInv /\ session' = session /\ Reduction => IInv'
BY ReducePlainKeeps, ReduceWordKeeps, ReduceRedirectKeeps, ReduceSimpleCommandKeeps,
   ReduceSubcommandKeeps, ReducePipeKeeps, ReduceListKeeps, ReduceAndOrKeeps,
   ReduceSequenceKeeps, ReduceBackgroundKeeps DEF Reduction

-----------------------------------------------------------------------------
(* The tokens.                                                                 *)
LEMMA SessionIs ==
  ASSUME Books
  PROVE  /\ session.tokens \subseteq 1..YYNTOKENS - 1 /\ SEMICOLON \notin session.tokens
         /\ session.length \in Nat /\ session.segments \in Nat
BY SessionAssumption DEF Books, Lexed

LEMMA HeapSame ==
  ASSUME NEW G, UNCHANGED <<cells, freed, current_command, command_list>>
  PROVE  /\ Cells => Cells'
         /\ Heap(G) /\ (pc' = "walk" => cmd' \in G \cup {NULL}) => Heap(G)'
<1>1. Cell' = Cell /\ \A c : next(c)' = next(c)
  BY DEF Cell, next
<1>2. Cells => Cells'
  BY <1>1 DEF Cells
<1>3. Closed(G) => Closed(G)'
  BY <1>1 DEF Closed
<1> QED BY <1>1, <1>2, <1>3 DEF Heap

LEMMA LexKeeps == IInv /\ session' = session /\ Lex => IInv'
<1> SUFFICES ASSUME IInv, session' = session, Lex PROVE IInv'
  OBVIOUS
<1>1. Books /\ Stacked /\ Collects /\ Cells
  BY DEF IInv
<1>2. PICK G : Reaching(G)
  BY DEF IInv
<1>3. UNCHANGED <<heap, freed, stack, pc, cmd, result, history>>
  BY DEF Lex
<1>4. UNCHANGED <<cells, current_command, command_list, freed, stack, pc, cmd, result, segment, fruitless, ran>>
  BY <1>3 DEF heap, history
<1>5. text' \in Seq(session.tokens) /\ Len(text') <= session.length
  <2>1. CASE UNCHANGED text
    BY <1>1, <2>1 DEF Books
  <2>2. ASSUME NEW t \in session.tokens, Len(text) < session.length, text' = Append(text, t)
        PROVE  text' \in Seq(session.tokens) /\ Len(text') <= session.length
    <3>1. text \in Seq(session.tokens) /\ session.length \in Nat
      BY <1>1, SessionIs DEF Books
    <3>2. text' \in Seq(session.tokens) /\ Len(text') = Len(text) + 1 /\ Len(text) \in Nat
      BY <2>2, <3>1, AppendProperties
    <3> QED BY <2>2, <3>1, <3>2
  <2> QED BY <2>1, <2>2 DEF Lex
<1>6. yychar' \in session.tokens \cup {EOF}
  BY DEF Lex
<1>7. Books'
  BY <1>1, <1>4, <1>5, <1>6 DEF Books, Cell
<1>8. Stacked' /\ Collects'
  BY <1>1, <1>4 DEF Stacked, Collects, yystate
<1>9. Cells' /\ Heap(G)'
  BY <1>1, <1>2, <1>4, HeapSame DEF Reaching, Heap
<1>10. RootsIn(Len(stack), G) => RootsIn(Len(stack), G)'
  BY <1>4 DEF RootsIn, RootIn, IsPair, IsRoot, First, Youngest, next
<1> QED BY <1>2, <1>4, <1>7, <1>8, <1>9, <1>10 DEF IInv, Reaching

LEMMA ShiftKeeps == IInv /\ session' = session /\ Shift => IInv'
<1> SUFFICES ASSUME IInv, session' = session, Shift PROVE IInv'
  OBVIOUS
<1>1. Books /\ Stacked /\ Collects /\ Cells
  BY DEF IInv
<1>2. PICK G : Reaching(G)
  BY DEF IInv
<1>3. UNCHANGED <<cells, current_command, command_list, freed, pc, cmd, result, text, segment, fruitless, ran>>
  BY DEF Shift, heap, history
<1>4. PICK N, s, t, x : /\ N = Len(stack) /\ s = yystate /\ t = ShiftTo(yystate, yychar)
                        /\ x = [state |-> ShiftTo(yystate, yychar), value |-> Len(text)]
  OBVIOUS
<1>5. N \in Nat /\ N >= 1 /\ Sequence(stack) /\ s = stack[N].state /\ s \in State
  <2>1. N \in Nat /\ N >= 1 /\ Sequence(stack)
    BY <1>1, <1>4, Lengths DEF Stacked
  <2>2. s = stack[N].state
    BY <1>4 DEF yystate, Last
  <2> QED BY <1>1, <1>4, <2>1, <2>2 DEF Stacked
<1>6. t \in State /\ Edge(s, t) /\ t \notin Collecting \cup CommandStates \cup ListStates
      /\ (t = 51 => s = 33)
  <2>1. yychar # YYEMPTY /\ Shifts(yystate, yychar)
    BY DEF Shift, Shifting
  <2>2. yychar \in 0..YYNTOKENS - 1
    <3>1. yychar \in session.tokens \cup {EOF}
      BY <1>1, <2>1 DEF Books
    <3>2. session.tokens \subseteq 1..YYNTOKENS - 1
      BY <1>1, SessionIs
    <3>3. YYNTOKENS \in Nat /\ YYNTOKENS > 1 /\ EOF = 0
      BY DEF YYNTOKENS, EOF
    <3> QED BY <3>1, <3>2, <3>3
  <2> QED BY <1>4, <1>5, <2>1, <2>2, ShiftEdge
<1>7. /\ Sequence(stack') /\ Len(stack') = N + 1 /\ \A n \in 1..N : stack'[n] = stack[n]
      /\ stack'[N + 1] = x /\ x.state = t
  <2>1. stack' = Append(stack, x) /\ x.state = t
    BY <1>4 DEF Shift
  <2>2. /\ Sequence(stack') /\ Len(stack') = Len(stack) + 1
        /\ \A n \in 1..Len(stack) : stack'[n] = stack[n]
        /\ stack'[Len(stack) + 1] = x
    BY <1>5, <2>1, Appending
  <2> QED BY <1>4, <2>1, <2>2
<1>8. Stacked'
  <2>1. stack' # <<>> /\ stack'[1].state = 0
    BY <1>1, <1>5, <1>7, Lengths DEF Stacked
  <2>2. \A n \in 1..N : stack[n].state \in State
    BY <1>1, <1>4 DEF Stacked
  <2>3. \A n \in 1..N + 1 : n \in 1..N \/ n = N + 1
    BY <1>5
  <2>4. \A n \in 1..N + 1 : stack'[n].state \in State
    BY <1>6, <1>7, <2>2, <2>3
  <2>5. ASSUME NEW n \in 1..N + 1, n > 1 PROVE Edge(stack'[n - 1].state, stack'[n].state)
    <3>1. CASE n = N + 1
      <4>1. n - 1 = N /\ N \in 1..N
        BY <1>5, <3>1
      <4> QED BY <1>5, <1>6, <1>7, <3>1, <4>1
    <3>2. CASE n # N + 1
      <4>1. n \in 1..N /\ n - 1 \in 1..N
        BY <1>5, <2>5, <3>2
      <4> QED BY <1>1, <1>4, <1>7, <2>5, <4>1 DEF Stacked
    <3> QED BY <3>1, <3>2
  <2> QED BY <1>7, <2>1, <2>4, <2>5 DEF Stacked
<1>9. yystate' = t
  <2>1. Last(stack') = stack'[N + 1]
    BY <1>7 DEF Last
  <2> QED BY <1>7, <2>1 DEF yystate
<1>10. Collects'
  <2>1. t \in Collected => t = 51
    BY <1>6 DEF Collected
  <2>2. s = 33 => current_command = NULL
    BY <1>1, <1>4 DEF Collects, Collected, ListStates
  <2> QED BY <1>3, <1>6, <1>9, <2>1, <2>2 DEF Collects
<1>11. Books'
  BY <1>1, <1>3 DEF Books, Cell, Shift
<1>12. Cells' /\ Heap(G)'
  BY <1>1, <1>2, <1>3, HeapSame DEF Reaching, Heap
<1>13. pc = "parse" /\ RootsIn(N, G)
  BY <1>2, <1>4 DEF Shift, Decided, Parsing, Reaching
<1>14. RootsIn(N, G)'
  <2>1. \A c : next(c)' = next(c)
    BY <1>3 DEF next
  <2>2. N <= Len(stack)
    BY <1>4, <1>5
  <2> QED BY <1>3, <1>4, <1>5, <1>7, <1>13, <2>1, <2>2, RootsKept
<1>15. ~ IsRoot(N + 1)'
  BY <1>6, <1>7 DEF IsRoot
<1>16. RootsIn(Len(stack), G)'
  BY <1>5, <1>7, <1>14, <1>15, RootOnTop
<1> QED BY <1>8, <1>10, <1>11, <1>12, <1>16 DEF IInv, Reaching

LEMMA StartIs ==
  ASSUME NEW G, stack' = Start
  PROVE  /\ Stacked' /\ RootsIn(Len(stack), G)'
         /\ yystate' = 0 /\ Collects'
<1>1. Len(Start) = 1 /\ Start[1].state = 0 /\ Start # <<>>
  BY DEF Start
<1>2. Sequence(Start)
  <2>1. Start \in Seq({Start[1]})
    BY DEF Start
  <2> QED BY <2>1 DEF Sequence
<1>3. 0 \notin CommandStates \cup ListStates /\ 0 \notin Collecting \cup Collected /\ 0 \in State
  BY Apart DEF State
<1>4. Stacked'
  BY <1>1, <1>2, <1>3 DEF Stacked
<1>5. RootsIn(Len(stack), G)'
  <2>1. \A n \in 1..Len(Start) : n = 1
    BY <1>1
  <2> QED BY <1>1, <1>3, <2>1 DEF RootsIn, IsRoot
<1>6. yystate' = 0
  BY <1>1 DEF yystate, Last
<1> QED BY <1>3, <1>4, <1>5, <1>6 DEF Collects

LEMMA SyntaxErrorKeeps == IInv /\ session' = session /\ SyntaxError => IInv'
<1> SUFFICES ASSUME IInv, session' = session, SyntaxError PROVE IInv'
  OBVIOUS
<1>1. Books /\ Cells
  BY DEF IInv
<1>2. PICK G : Reaching(G)
  BY DEF IInv
<1>3. /\ UNCHANGED <<cells, current_command, command_list, freed, cmd, text, segment, ran>>
      /\ stack' = Start /\ pc' = "ready" /\ yychar' = YYEMPTY /\ result' = 1
      /\ fruitless' = fruitless \cup {segment}
  BY DEF SyntaxError, heap
<1>4. segment \in 1..segment
  <2> USE DEF SyntaxError, Decided, Parsing
  <2>1. pc = "parse"
    OBVIOUS
  <2>2. segment \in Nat /\ segment # 0
    BY <1>1, <2>1, SessionIs DEF Books
  <2> QED BY <2>2
<1>5. Books'
  BY <1>1, <1>3, <1>4 DEF Books, Cell
<1>6. Cells' /\ Heap(G)'
  BY <1>1, <1>2, <1>3, HeapSame DEF Reaching
<1> QED BY <1>3, <1>5, <1>6, StartIs DEF IInv, Reaching

-----------------------------------------------------------------------------
(* The segments, and what runs.                                                *)
LEMMA NoCommands == Cells => Closed({}) /\ {} \cap freed = {}
BY DEF Closed

LEMMA SegmentKeeps == IInv /\ session' = session /\ Segment => IInv'
<1> SUFFICES ASSUME IInv, session' = session, Segment PROVE IInv'
  OBVIOUS
<1>1. Books /\ Cells
  BY DEF IInv
<1>2. PICK G : Reaching(G)
  BY DEF IInv
<1>3. /\ UNCHANGED <<cells, freed, current_command, cmd, result, fruitless>>
      /\ segment < session.segments /\ segment' = segment + 1 /\ text' = <<>> /\ ran' = <<>>
      /\ command_list' = NoList /\ stack' = Start /\ yychar' = YYEMPTY /\ pc' = "parse"
  BY DEF Segment
<1>4. Cells' /\ \A c : next(c)' = next(c)
  <2>1. Cell' = Cell /\ \A c : next(c)' = next(c)
    BY <1>3 DEF Cell, next
  <2> QED BY <1>1, <1>3, <2>1 DEF Cells
<1>5. Books'
  <2>1. segment' \in 0..session.segments /\ segment' # 0 /\ fruitless' \subseteq 1..segment'
    <3>1. segment \in 0..session.segments /\ session.segments \in Nat /\ fruitless \subseteq 1..segment
      BY <1>1, SessionIs DEF Books
    <3> QED BY <1>3, <3>1
  <2>2. text' \in Seq(session.tokens) /\ Len(text') <= session.length
    <3>1. session.length \in Nat
      BY <1>1, SessionIs
    <3> QED BY <1>3, <3>1
  <2>3. Sequence(ran') /\ DOMAIN ran' = {}
    <3>1. <<>> \in Seq({})
      OBVIOUS
    <3> QED BY <1>3, <3>1 DEF Sequence
  <2> QED BY <1>1, <1>3, <2>1, <2>2, <2>3 DEF Books
<1>6. Heap({})'
  <2>1. /\ current_command # NULL => /\ current_command \notin freed
                                     /\ next(current_command) = NULL
    BY <1>2 DEF Reaching, Heap
  <2>2. next(current_command)' = next(current_command)
    BY <1>3, <1>4
  <2> QED BY <1>3, <2>1, <2>2 DEF Heap, Closed
<1>7. Stacked' /\ Collects' /\ RootsIn(Len(stack), {})'
  BY <1>3, StartIs
<1> QED BY <1>4, <1>5, <1>6, <1>7 DEF IInv, Reaching

LEMMA RanLonger ==
  ASSUME Books, Cell' = Cell, NEW stages, NEW ok, NEW background, NEW title,
         Executed(stages, ok, background, title), ToSet(stages) \subseteq Cell
  PROVE  Sequence(ran') /\ \A n \in DOMAIN ran' : ToSet(ran'[n].stages) \subseteq Cell'
<1> DEFINE e == [stages |-> stages, status |-> result', ok |-> ok,
                 background |-> background, title |-> title]
<1>1. ran' = Append(ran, e) /\ e.stages = stages
  BY DEF Executed
<1> HIDE DEF e
<1>2. Sequence(ran) /\ Len(ran) \in Nat /\ DOMAIN ran = 1..Len(ran)
      /\ \A n \in 1..Len(ran) : ToSet(ran[n].stages) \subseteq Cell
  BY Lengths DEF Books
<1>3. PICK x : x = e
  OBVIOUS
<1>4. /\ Sequence(ran') /\ Len(ran') = Len(ran) + 1
      /\ \A n \in 1..Len(ran) : ran'[n] = ran[n]
      /\ ran'[Len(ran) + 1] = x
  BY <1>1, <1>2, <1>3, Appending
<1>5. DOMAIN ran' = 1..Len(ran) + 1
  BY <1>4, Lengths
<1>6. ASSUME NEW n \in 1..Len(ran) + 1 PROVE ToSet(ran'[n].stages) \subseteq Cell
  <2>1. CASE n = Len(ran) + 1
    BY <1>1, <1>3, <1>4, <2>1
  <2>2. CASE n # Len(ran) + 1
    <3>1. n \in 1..Len(ran)
      BY <1>2, <2>2
    <3> QED BY <1>2, <1>4, <3>1
  <2> QED BY <2>1, <2>2
<1> QED BY <1>4, <1>5, <1>6

LEMMA AcceptKeeps == IInv /\ session' = session /\ Accept => IInv'
<1> SUFFICES ASSUME IInv, session' = session, Accept PROVE IInv'
  OBVIOUS
<1>1. Books /\ Stacked /\ Collects /\ Cells
  BY DEF IInv
<1>2. PICK G : Reaching(G)
  BY DEF IInv
<1>3. /\ pc = "parse" /\ result' = 0
      /\ UNCHANGED <<current_command, command_list, freed, stack, yychar, text, segment>>
  BY DEF Accept, yyparse
<1>4. Stacked' /\ Collects'
  BY <1>1, <1>3 DEF Stacked, Collects, yystate
<1>5. segment \in 1..segment
  <2>1. segment \in Nat /\ segment # 0
    BY <1>1, <1>3, SessionIs DEF Books
  <2> QED BY <2>1
<1>6. CASE command_list = NoList
  <2>1. pc' = "ready" /\ fruitless' = fruitless \cup {segment} /\ UNCHANGED <<cells, cmd, ran>>
    BY <1>6 DEF Accept
  <2>2. Books'
    BY <1>1, <1>3, <1>5, <2>1 DEF Books, Cell
  <2>3. Cells' /\ Heap(G)'
    BY <1>1, <1>2, <1>3, <2>1, HeapSame DEF Reaching
  <2> QED BY <1>4, <2>1, <2>2, <2>3 DEF IInv, Reaching
<1>7. CASE command_list # NoList /\ ~ cells[command_list.tail].background
  <2>1. pc' = "walk" /\ UNCHANGED <<cells, fruitless, ran>> /\ cmd' = command_list.head
    BY <1>7 DEF Accept
  <2>2. cmd' \in G /\ G \subseteq Cell
    BY <1>2, <1>7, <2>1 DEF Reaching, Heap, Closed
  <2>3. Books'
    <3>1. cmd' \in 0..Len(cells)
      BY <1>1, <2>2, CellsAre
    <3>2. UNCHANGED <<session, cells, yychar, segment, text, fruitless, ran>>
      BY <1>3, <2>1
    <3> QED BY <1>1, <1>3, <2>1, <3>1, <3>2 DEF Books, Cell
  <2>4. Cells' /\ Heap(G)'
    BY <1>1, <1>2, <1>3, <2>1, <2>2, HeapSame DEF Reaching
  <2> QED BY <1>4, <2>1, <2>3, <2>4 DEF IInv, Reaching
<1>8. CASE command_list # NoList /\ cells[command_list.tail].background
  <2>1. PICK forked, title :
          /\ Executed(Chain(command_list.head), forked, TRUE, title)
          /\ cells' = [cells EXCEPT ![command_list.tail].background = FALSE]
          /\ pc' = IF forked \/ title = <<>> THEN "free" ELSE "ready"
          /\ cmd' = command_list.head /\ fruitless' = fruitless
    BY <1>8, Zenon DEF Accept
  <2>2. cmd' \in G /\ G \subseteq Cell /\ Closed(G)
    BY <1>2, <1>8, <2>1 DEF Reaching, Heap, Closed
  <2> DEFINE a == command_list.tail
             r == [cells[a] EXCEPT !.background = FALSE]
  <2>3. cells' = [cells EXCEPT ![a] = r]
    BY <2>1
  <2>4. a \in Cell => IsCommand(r) /\ r.next = cells[a].next
    BY <1>1 DEF Cells, IsCommand
  <2> HIDE DEF a, r
  <2>5. LinksKept /\ Len(cells') = Len(cells)
    BY <1>1, <2>3, <2>4, OneReplaced
  <2>6. Cell' = Cell
    BY <2>5 DEF Cell
  <2>7. Cells' /\ \A c \in Cell : next(c)' = next(c)
    <3>1. freed' = freed /\ current_command' \in 0..Len(cells')
      BY <1>1, <1>3, <2>5 DEF Cells
    <3> QED BY <1>1, <2>5, <3>1, CellsKept
  <2>8. ToSet(Chain(command_list.head)) \subseteq Cell
    <3>1. PICK h : h = command_list.head
      OBVIOUS
    <3>2. Chain(h) \in Seq(G) /\ Chain(h) # <<>>
      BY <1>1, <2>1, <2>2, <3>1, ChainIn
    <3>3. ToSet(Chain(h)) \subseteq G
      BY <3>2, MembersIn
    <3> QED BY <2>2, <3>1, <3>3
  <2>9. Sequence(ran') /\ \A n \in DOMAIN ran' : ToSet(ran'[n].stages) \subseteq Cell'
    <3>1. PICK l : l = Chain(command_list.head)
      OBVIOUS
    <3> QED BY <1>1, <2>1, <2>6, <2>8, <3>1, RanLonger
  <2>10. Books'
    <3>1. cmd' \in 0..Len(cells')
      BY <1>1, <2>2, <2>5, CellsAre
    <3>2. UNCHANGED <<session, yychar, segment, text, fruitless>>
      BY <1>3, <2>1
    <3>3. pc' \in {"free", "ready"}
      BY <2>1
    <3> QED BY <1>1, <1>3, <2>9, <3>1, <3>2, <3>3 DEF Books
  <2>11. Heap(G)'
    <3>1. Closed(G)'
      BY <2>2, <2>6, <2>7 DEF Closed
    <3>2. pc' # "walk" /\ pc' # "parse"
      BY <2>1
    <3>3. current_command # NULL => current_command \in Cell
      BY <1>1, CellsAre DEF Cells, NULL
    <3> QED BY <1>2, <1>3, <2>7, <3>1, <3>2, <3>3 DEF Reaching, Heap
  <2>12. pc' # "parse"
    BY <2>1
  <2> QED BY <1>4, <2>7, <2>10, <2>11, <2>12 DEF IInv, Reaching
<1> QED BY <1>6, <1>7, <1>8

\* A step of the walk: it has run commands of the list, and stays in the list.
LEMMA WalkKeeps ==
  ASSUME IInv, session' = session, NEW G, Reaching(G), pc = "walk", DuringWalk, command_list' = command_list,
         cmd' \in G \cup {NULL}, pc' \in {"walk", "free", "ready"}, result' \in {-1, 0, 1},
         Sequence(ran') /\ \A n \in DOMAIN ran' : ToSet(ran'[n].stages) \subseteq Cell
  PROVE  IInv'
<1>1. Books /\ Stacked /\ Collects /\ Cells
  BY DEF IInv
<1>2. UNCHANGED <<cells, current_command, command_list, freed, stack, yychar, text, segment, fruitless>>
  BY DEF DuringWalk, yyparse
<1>3. Stacked' /\ Collects'
  BY <1>1, <1>2 DEF Stacked, Collects, yystate
<1>4. Cells' /\ Heap(G)'
  BY <1>1, <1>2, HeapSame DEF Reaching
<1>5. cmd' \in 0..Len(cells) /\ Cell' = Cell
  <2>1. G \subseteq Cell
    BY DEF Reaching, Heap, Closed
  <2> QED BY <1>1, <1>2, <2>1, CellsAre DEF NULL, Cell
<1>6. Books'
  BY <1>1, <1>2, <1>5 DEF Books
<1> QED BY <1>3, <1>4, <1>6 DEF IInv, Reaching

LEMMA ExecutePipelineKeeps == IInv /\ session' = session /\ ExecutePipeline => IInv'
<1> SUFFICES ASSUME IInv, session' = session, ExecutePipeline PROVE IInv'
  OBVIOUS
<1>1. Books /\ Cells
  BY DEF IInv
<1>2. PICK G : Reaching(G)
  BY DEF IInv
<1>3. pc = "walk" /\ cmd \in G /\ G \subseteq Cell /\ Closed(G)
  BY <1>2 DEF ExecutePipeline, Reaching, Heap, Closed
<1>4. PICK c, s : c = cmd /\ s = Stages(cmd)
  OBVIOUS
<1>5. s \in Seq(G) /\ s # <<>>
  BY <1>1, <1>3, <1>4, ChainIn
<1>6. ToSet(s) \subseteq G /\ Last(s) \in G
  BY <1>5, MembersIn
<1>7. next(Last(s)) \in G \cup {NULL}
  BY <1>3, <1>6 DEF Closed
<1>8. cells' = cells /\ command_list' = command_list /\ DuringWalk
  BY DEF ExecutePipeline, DuringWalk
<1>9. /\ pc' \in {"walk", "ready"} /\ result' \in {-1, 0, 1} /\ cmd' \in G \cup {NULL}
      /\ \E ok : Executed(s, ok, FALSE, <<>>)
  <2>1. CASE /\ result' \in {-1, 0, 1}
             /\ Executed(Stages(cmd), TRUE, FALSE, <<>>)
             /\ cmd' = cells[Last(Stages(cmd))].next
             /\ UNCHANGED pc
    BY <1>3, <1>4, <1>7, <2>1 DEF next
  <2>2. CASE /\ UNCHANGED <<cmd, result>>
             /\ Executed(Stages(cmd), FALSE, FALSE, <<>>)
             /\ pc' = "ready"
    BY <1>1, <1>3, <1>4, <2>2 DEF Books
  <2> QED BY <2>1, <2>2 DEF ExecutePipeline
<1>10. PICK ok : Executed(s, ok, FALSE, <<>>)
  BY <1>9
<1>11. Cell' = Cell
  BY <1>8 DEF Cell
<1>12. Sequence(ran') /\ \A n \in DOMAIN ran' : ToSet(ran'[n].stages) \subseteq Cell
  BY <1>1, <1>3, <1>6, <1>10, <1>11, RanLonger
<1> QED BY <1>2, <1>3, <1>8, <1>9, <1>12, WalkKeeps

LEMMA ExecuteCommandKeeps == IInv /\ session' = session /\ ExecuteCommand => IInv'
<1> SUFFICES ASSUME IInv, session' = session, ExecuteCommand PROVE IInv'
  OBVIOUS
<1>1. Books /\ Cells
  BY DEF IInv
<1>2. PICK G : Reaching(G)
  BY DEF IInv
<1>3. pc = "walk" /\ cmd \in G /\ G \subseteq Cell /\ Closed(G)
  BY <1>2 DEF ExecuteCommand, Reaching, Heap, Closed
<1>4. PICK s : s = <<cmd>>
  OBVIOUS
<1>5. ToSet(s) \subseteq G
  BY <1>3, <1>4 DEF ToSet
<1>6. next(cmd) \in G \cup {NULL}
  BY <1>3 DEF Closed
<1>7. cells' = cells /\ command_list' = command_list /\ DuringWalk
  BY DEF ExecuteCommand, DuringWalk
<1>8. /\ pc' \in {"walk", "free", "ready"} /\ result' \in {-1, 0, 1} /\ cmd' \in G \cup {NULL}
      /\ \E ok : Executed(s, ok, FALSE, <<>>)
  <2>1. result \in {-1, 0, 1}
    BY <1>1 DEF Books
  <2>2. CASE /\ result' \in ExitStatus
             /\ Executed(<<cmd>>, TRUE, FALSE, <<>>)
             /\ IF StopsAt(cmd, result')
                THEN pc' = "free" /\ UNCHANGED cmd
                ELSE cmd' = cells[cmd].next /\ UNCHANGED pc
    BY <1>3, <1>4, <1>6, <2>1, <2>2 DEF next, ExitStatus
  <2>3. CASE /\ result' \in {-1, result}
             /\ Executed(<<cmd>>, FALSE, FALSE, <<>>)
             /\ pc' = "ready"
             /\ UNCHANGED cmd
    BY <1>3, <1>4, <2>1, <2>3
  <2> QED BY <2>2, <2>3 DEF ExecuteCommand
<1>9. PICK ok : Executed(s, ok, FALSE, <<>>)
  BY <1>8
<1>10. Cell' = Cell
  BY <1>7 DEF Cell
<1>11. Sequence(ran') /\ \A n \in DOMAIN ran' : ToSet(ran'[n].stages) \subseteq Cell
  BY <1>1, <1>3, <1>5, <1>9, <1>10, RanLonger
<1> QED BY <1>2, <1>3, <1>7, <1>8, <1>11, WalkKeeps

LEMMA EndOfListKeeps == IInv /\ session' = session /\ EndOfList => IInv'
<1> SUFFICES ASSUME IInv, session' = session, EndOfList PROVE IInv'
  OBVIOUS
<1>1. Books
  BY DEF IInv
<1>2. PICK G : Reaching(G)
  BY DEF IInv
<1>3. /\ pc = "walk" /\ pc' = "free" /\ cmd' = NULL
      /\ UNCHANGED <<result, command_list, ran>> /\ DuringWalk
  BY DEF EndOfList
<1>4. /\ result' \in {-1, 0, 1}
      /\ Sequence(ran') /\ \A n \in DOMAIN ran' : ToSet(ran'[n].stages) \subseteq Cell
  BY <1>1, <1>3 DEF Books
<1> QED BY <1>2, <1>3, <1>4, WalkKeeps

LEMMA FreeKeeps == IInv /\ session' = session /\ FreeList => IInv'
<1> SUFFICES ASSUME IInv, session' = session, FreeList PROVE IInv'
  OBVIOUS
<1>1. Books /\ Stacked /\ Collects /\ Cells
  BY DEF IInv
<1>2. PICK G : Reaching(G)
  BY DEF IInv
<1>3. /\ freed' = freed \cup ToSet(Chain(command_list.head)) /\ command_list' = NoList /\ pc' = "ready"
      /\ UNCHANGED <<cells, current_command, stack, yychar, cmd, result, text, segment, fruitless, ran>>
  BY DEF FreeList, yyparse, history
<1>4. ToSet(Chain(command_list.head)) \subseteq G
  <2>1. CASE command_list = NoList
    <3>1. Chain(command_list.head) = <<>>
      BY <1>1, <2>1, ChainIs DEF NoList
    <3> QED BY <3>1 DEF ToSet
  <2>2. CASE command_list # NoList
    <3>1. PICK h : h = command_list.head
      OBVIOUS
    <3>2. h \in G /\ Closed(G)
      BY <1>2, <2>2, <3>1 DEF Reaching, Heap
    <3> QED BY <1>1, <3>1, <3>2, ChainIn, MembersIn
  <2> QED BY <2>1, <2>2
<1>5. G \subseteq Cell /\ (current_command # NULL => current_command \notin G)
  BY <1>2 DEF Reaching, Heap, Closed
<1>6. Stacked' /\ Collects'
  BY <1>1, <1>3 DEF Stacked, Collects, yystate
<1>7. Cell' = Cell /\ \A c : next(c)' = next(c)
  BY <1>3 DEF Cell, next
<1>8. Cells'
  <2>1. freed' \subseteq Cell
    BY <1>1, <1>3, <1>4, <1>5 DEF Cells
  <2> QED BY <1>1, <1>3, <1>7, <2>1 DEF Cells
<1>9. Books'
  BY <1>1, <1>3, <1>7 DEF Books
<1>10. Heap({})'
  <2>1. current_command # NULL => /\ current_command \notin freed'
                                  /\ next(current_command)' = NULL
    <3>1. current_command # NULL => current_command \notin freed /\ next(current_command) = NULL
      BY <1>2 DEF Reaching, Heap
    <3>2. next(current_command)' = next(current_command)
      BY <1>3, <1>7
    <3> QED BY <1>3, <1>4, <1>5, <3>1, <3>2
  <2> QED BY <1>3, <2>1 DEF Heap, Closed
<1> QED BY <1>3, <1>6, <1>8, <1>9, <1>10 DEF IInv, Reaching

LEMMA StutterKeeps == IInv /\ UNCHANGED vars => IInv'
<1> SUFFICES ASSUME IInv, UNCHANGED vars PROVE IInv'
  OBVIOUS
<1>1. UNCHANGED <<session, cells, freed, current_command, command_list, stack, yychar, pc, cmd, result,
                  segment, text, fruitless, ran>>
  BY DEF vars, heap, yyparse, history
<1>2. Books /\ Stacked /\ Collects /\ Cells
  BY DEF IInv
<1>3. PICK G : Reaching(G)
  BY DEF IInv
<1>4. Books' /\ Stacked' /\ Collects'
  BY <1>1, <1>2 DEF Books, Cell, Stacked, Collects, yystate
<1>5. Cells' /\ Heap(G)'
  BY <1>1, <1>2, <1>3, HeapSame DEF Reaching, Heap
<1>6. RootsIn(Len(stack), G) => RootsIn(Len(stack), G)'
  BY <1>1 DEF RootsIn, RootIn, IsPair, IsRoot, First, Youngest, next
<1> QED BY <1>1, <1>3, <1>4, <1>5, <1>6 DEF IInv, Reaching

-----------------------------------------------------------------------------
(* The theorems.                                                               *)
LEMMA Initially == Init => IInv
<1> SUFFICES ASSUME Init PROVE IInv
  OBVIOUS
<1> USE DEF Init
<1>1. session.length \in Nat /\ session.segments \in Nat
  BY SessionAssumption
<1>2. Len(cells) = 0 /\ Cell = {}
  BY DEF Cell
<1>3. Sequence(<<>>) /\ DOMAIN ran = {}
  <2>1. <<>> \in Seq({})
    OBVIOUS
  <2> QED BY <2>1 DEF Sequence
<1>4. Books
  BY <1>1, <1>2, <1>3 DEF Books, NULL
<1>5. Cells
  BY <1>2, <1>3 DEF Cells, NULL
<1>6. Sequence(Start) /\ Len(Start) = 1 /\ Start[1].state = 0 /\ Start # <<>>
  <2>1. Start \in Seq({Start[1]})
    BY DEF Start
  <2> QED BY <2>1 DEF Start, Sequence
<1>7. Stacked
  BY <1>6 DEF Stacked, State
<1>8. Collects
  <2>1. yystate = 0
    BY <1>6 DEF yystate, Last
  <2> QED BY <2>1, Apart DEF Collects
<1>9. Reaching({})
  BY DEF Reaching, Heap, Closed
<1> QED BY <1>4, <1>5, <1>7, <1>8, <1>9 DEF IInv

LEMMA Preserved == IInv /\ [Next]_vars => IInv'
<1> SUFFICES ASSUME IInv, [Next]_vars PROVE IInv'
  OBVIOUS
<1>1. CASE UNCHANGED vars
  BY <1>1, StutterKeeps
<1>2. CASE Next
  <2>1. session' = session
    BY <1>2 DEF Next
  <2>2. CASE Execution
    BY <2>1, <2>2, AcceptKeeps, ExecutePipelineKeeps, ExecuteCommandKeeps, EndOfListKeeps, FreeKeeps
       DEF Execution
  <2>3. CASE Segment \/ Lex \/ Shift \/ SyntaxError \/ Reduction
    BY <2>1, <2>3, SegmentKeeps, LexKeeps, ShiftKeeps, SyntaxErrorKeeps, ReductionKeeps
  <2> QED BY <1>2, <2>2, <2>3 DEF Next, Step
<1> QED BY <1>1, <1>2

\* The line's commands are in order on the parser's stack and disjoint from what was
\* given back, whatever tokens come: the invariant that the next two rest on.
THEOREM Invariance == Spec => []IInv
BY Initially, Preserved, PTL DEF Spec

LEMMA Implied == IInv => TypeOK /\ FreedIsUnused
<1> SUFFICES ASSUME IInv PROVE TypeOK /\ FreedIsUnused
  OBVIOUS
<1>1. Books /\ Stacked /\ Collects /\ Cells
  BY DEF IInv
<1>2. PICK G : Reaching(G)
  BY DEF IInv
<1>3. Len(cells) \in Nat /\ Cell = 1..Len(cells)
  BY <1>1, CellsAre
<1>4. \A c \in Cell : cells[c].next \in 0..Len(cells) /\ cells[c].next # c
  <2>1. \A c \in Cell : next(c) = NULL \/ next(c) \in c + 1..Len(cells)
    BY <1>1 DEF Cells
  <2>2. \A c \in Cell : next(c) \in 0..Len(cells) /\ next(c) # c
    BY <1>3, <2>1 DEF NULL
  <2> QED BY <2>2 DEF next
<1>5. command_list # NoList => {command_list.head, command_list.tail} \subseteq Cell
  BY <1>2 DEF Reaching, Heap, Closed
<1>6. \A n \in DOMAIN stack : stack[n].state \in 0..Len(yypact) - 1
  <2>1. Len(yypact) = 59
    BY DEF yypact
  <2>2. \A n \in DOMAIN stack : stack[n].state \in State
    BY <1>1, Lengths DEF Stacked
  <2> QED BY <2>1, <2>2 DEF State
<1>7. TypeOK
  BY <1>1, <1>4, <1>5, <1>6 DEF TypeOK, Books, Cells
<1>8. current_command \notin freed
  <2>1. current_command = NULL => current_command \notin freed
    BY <1>1, <1>3 DEF Cells, NULL
  <2> QED BY <1>2, <2>1 DEF Reaching, Heap
<1>9. command_list # NoList => ToSet(Chain(command_list.head)) \cap freed = {}
  <2> SUFFICES ASSUME command_list # NoList PROVE ToSet(Chain(command_list.head)) \cap freed = {}
    OBVIOUS
  <2>1. command_list.head \in G /\ Closed(G) /\ G \cap freed = {}
    BY <1>2 DEF Reaching, Heap
  <2>2. ToSet(Chain(command_list.head)) \subseteq G
    BY <1>1, <2>1, ChainIn, MembersIn
  <2> QED BY <2>1, <2>2
<1> QED BY <1>7, <1>8, <1>9 DEF FreedIsUnused

\* What every step of the parser and of the walk leaves is well-formed.
THEOREM TypeCorrect == Spec => []TypeOK
BY Invariance, Implied, PTL

\* free_command_list frees what nothing leads to any more: neither command_list nor
\* current_command, which a refused line leaves behind, has a command that was freed,
\* so none is run, extended or freed again.
THEOREM FreedStaysUnused == Spec => []FreedIsUnused
BY Invariance, Implied, PTL
-----------------------------------------------------------------------------
(* What is read and what is collected.                                         *)

\* How many tokens were shifted; the last token read may still be the lookahead.
Taken == IF yychar \in {EOF, YYEMPTY} THEN Len(text) ELSE Len(text) - 1

\* On top of the stack: a word that is part of no command yet; nothing, or a list that
\* command_list has.
Pending == {3, 4, 42, 43, 44} \cup 23..29 \cup 48..50
Between == {1, 2, 14, 15}

Place == [segment : Nat, pos : Nat]
Types == {"INPUT", "INPUT_DUP", "OUTPUT", "OUTPUT_DUP", "APPEND", "APPEND_DUP"}
Redirect == [type : Types, target : Place]
Command == [argv : Seq(Place), redirects : Seq(Redirect), next : Nat, and_next : BOOLEAN,
            or_next : BOOLEAN, pipline_next : BOOLEAN, background : BOOLEAN,
            is_subcommand : BOOLEAN]

Typed == \A c \in Cell : cells[c] \in Command

\* The stack and the tokens it stands for.
Tokens ==
  /\ yychar \notin {EOF, YYEMPTY} => text # <<>> /\ text[Len(text)] = yychar
  /\ pc = "parse" =>
       /\ yystate = 0 => text = <<>> /\ yychar = YYEMPTY
       /\ yystate = 2 => yychar = YYEMPTY
       /\ yystate \notin {0, 1, 2} => Taken >= 1
       /\ yystate \in Pending => /\ stack[Len(stack)].value = Taken
                                 /\ text[Taken] \in {WORD, QUOTED_STRING, PARAM_EXPANSION}
       /\ yystate = 43 => text[Taken] = QUOTED_STRING
       /\ yystate = 34 => text[Taken] = AMPERSAND
       /\ Taken >= 1 /\ text[Taken] = AMPERSAND => yystate \in Between \cup {34}
       /\ \A n \in 1..Len(stack) : /\ stack[n].state = 13 => LPAREN \in ToSet(text)
                                   /\ stack[n].state # 35
                                   /\ stack[n].state = 36 => LINE_CHAGE \in ToSet(text)

\* Between commands the tail of the list is marked if an "&" was the last token.
Marked == cells[command_list.tail].background

Lists ==
  pc = "parse" =>
    /\ yystate = 0 => command_list = NoList
    /\ yystate \in {14, 15, 34, 36} => command_list # NoList
    /\ yystate \in Between /\ command_list # NoList /\ OneLine =>
         Taken >= 1 /\ (Marked <=> text[Taken] = AMPERSAND)

\* Commands that are not appended yet are not marked.
Marks ==
  \A c \in Cell : cells[c].background =>
    /\ c # current_command
    /\ pc = "parse" => \A n \in 1..Len(stack) : IsRoot(n) => c < First(n)

InCommand == \E n \in 1..Len(stack) : stack[n].state \in Collecting

\* What a refused line leaves behind has no words of this one and no command before it,
\* so that the next command takes it up.
Leftover ==
  current_command # NULL =>
    /\ current_command = Len(cells)
    /\ ~ cells[current_command].and_next /\ ~ cells[current_command].or_next
    /\ ~ cells[current_command].pipline_next
    /\ pc = "parse" /\ (OwnWords(current_command) # {} \/ command_list # NoList) => InCommand
    /\ pc \in {"parse", "ready"}

Apartfrom(p, q) == \A o \in p..q : o \notin Operators

\* What a command has of words, and of this segment. They are from between two operators
\* and in their order, and the next ones of current_command are too.
WordsOf(c) == ToSet(c.argv) \cup {c.redirects[n].target : n \in DOMAIN c.redirects}
Own(c) == {w \in WordsOf(c) : w.segment = segment}
InOrder(c) ==
  \A i, j \in DOMAIN c.argv :
    i < j /\ c.argv[j].segment = segment =>
      c.argv[i].segment < segment \/ c.argv[i].pos < c.argv[j].pos
Tidy(c) ==
  /\ \A w \in WordsOf(c) : w.segment <= segment
  /\ \A w \in Own(c) : w.pos \in 1..Taken /\ (pc = "parse" /\ yystate \in Pending => w.pos < Taken)
  /\ \A v, w \in Own(c) : Apartfrom(v.pos, w.pos)
  /\ InOrder(c)
Ordered ==
  \A c \in Cell :
    /\ Tidy(cells[c])
    /\ c = current_command /\ pc = "parse" => \A v \in Own(cells[c]) : Apartfrom(v.pos, Taken)

\* Words of c that were written in an earlier segment were left behind by it.
Timely(c, until) == \A w \in Words(c) : w.segment..until \subseteq fruitless

\* The commands of the segment are those behind base.
Younger(base) ==
  /\ current_command # NULL => current_command > base
  /\ pc = "parse" => \A n \in 1..Len(stack) : IsRoot(n) => First(n) > base
  /\ command_list # NoList => command_list.head > base
  /\ pc = "walk" => cmd = NULL \/ cmd > base
Since(base) ==
  /\ Younger(base)
  /\ \A c \in Cell : c > base => Timely(c, segment - 1)
  /\ pc = "ready" /\ current_command # NULL => Timely(current_command, segment)
  /\ pc = "parse" => ran = <<>>
  /\ pc = "walk" /\ OneLine => ~ Ampersand

RanSince(base) ==
  \A n \in DOMAIN ran :
    /\ ran[n].stages # <<>> /\ \A c \in ToSet(ran[n].stages) : c \in Cell /\ c > base
    /\ OneLine => (ran[n].background <=> Ampersand)

Told == Typed /\ Tokens /\ Lists /\ Marks /\ Leftover /\ Ordered

-----------------------------------------------------------------------------
(* The tables again.                                                           *)

LEMMA ShiftTokens ==
  ASSUME NEW s \in State, NEW t \in 0..YYNTOKENS - 1, Shifts(s, t)
  PROVE  LET u == ShiftTo(s, t)
         IN  /\ u \in Pending => t \in {WORD, QUOTED_STRING, PARAM_EXPANSION}
             /\ u = 43 => t = QUOTED_STRING
             /\ u = 34 <=> t = AMPERSAND
             /\ u = 35 => t = SEMICOLON
             /\ u = 36 => t = LINE_CHAGE
             /\ u = 13 => t = LPAREN
             /\ u = 2 <=> t = EOF
             /\ u = 2 => s = 1
             /\ u \in {34, 35, 36} => s = 15
             /\ u \in 2..13 \cup 23..51
             /\ t \in {PIPE, AND, OR, AMPERSAND} => s \in {15} \cup Collected
BY SMTT(100) DEF State, Pending, Collected, CommandStates, ListStates,
       WORD, QUOTED_STRING, PARAM_EXPANSION, AMPERSAND, SEMICOLON, LINE_CHAGE, LPAREN, EOF, PIPE, AND, OR,
       Shifts, ShiftTo, IsDefault, Entry, At, yypact, yytable, yycheck, YYLAST, YYPACT_NINF, YYNTOKENS

LEMMA GotoNew ==
  ASSUME NEW s \in State, NEW r \in 2..40
  PROVE  /\ GotoTable(s, r) \in {1, 14, 15} \cup Collecting \cup CommandStates \cup ListStates
         /\ r \in 2..3 => GotoTable(s, r) = 1
         /\ r \in 4..5 => GotoTable(s, r) = 14
         /\ r \in 6..8 => GotoTable(s, r) = 15
BY SMTT(60) DEF State, GotoTable, Collecting, CommandStates, ListStates

LEMMA Distinct ==
  /\ Pending \cap (Collecting \cup Collected \cup Between) = {}
  /\ {0, 1, 2, 13, 14, 15, 34, 35, 36} \cap (Collecting \cup Collected \cup Pending) = {}
BY DEF Pending, Collecting, Collected, CommandStates, ListStates, Between

\* The states that reduce by the rules without a command or list.
LEMMA Reducing ==
  ASSUME NEW s \in State
  PROVE  /\ DefaultRule(s) = 3 => s = 14
         /\ DefaultRule(s) = 4 => s = 36
         /\ DefaultRule(s) = 5 => s = 15
         /\ DefaultRule(s) = 7 => s = 52
         /\ DefaultRule(s) = 8 => s = 34
         /\ DefaultRule(s) \in 26..40 => s \in Pending
         /\ s \in {1, 2} => DefaultRule(s) \notin 2..40
         /\ s \in {14, 15, 34} => DefaultRule(s) \in 2..8
         /\ s = 0 => DefaultRule(s) = 2
BY SMTT(60) DEF State, DefaultRule, At, yydefact, Pending

-----------------------------------------------------------------------------
(* The tokens.                                                                 *)

LEMMA TopIs ==
  ASSUME Stacked
  PROVE  yystate = stack[Len(stack)].state /\ Len(stack) \in Nat /\ Len(stack) >= 1 /\ yystate \in State
<1>1. Len(stack) \in Nat /\ Len(stack) >= 1
  BY Lengths DEF Stacked
<1> QED BY <1>1 DEF yystate, Last, Stacked

LEMMA NewTop ==
  ASSUME Stacked, Rule # 0, NEW v, Reduce(v)
  PROVE  \E m \in 1..Len(stack) :
           /\ m = Len(stack) - At(yyr2, Rule) /\ m \in Nat
           /\ Stacked' /\ Len(stack') = m + 1
           /\ \A n \in 1..m : stack'[n] = stack[n]
           /\ yystate' = GotoTable(stack[m].state, Rule)
           /\ stack[m].state \in State
           /\ stack'[m + 1].state = yystate' /\ stack'[m + 1].value = v
<1>1. PICK m \in 1..Len(stack) :
           /\ m = Len(stack) - At(yyr2, Rule) /\ m \in Nat
           /\ Stacked' /\ Len(stack') = m + 1
           /\ \A n \in 1..m : stack'[n] = stack[n]
           /\ stack'[m + 1].state = GotoTable(stack[m].state, Rule)
           /\ stack'[m + 1].value = v
  BY Reduced
<1>2. (Stacked => yystate = stack[Len(stack)].state)'
  <2>1. Stacked => yystate = stack[Len(stack)].state
    BY TopIs
  <2> QED BY DEF Stacked, yystate, Last
<1>3. yystate' = GotoTable(stack[m].state, Rule)
  BY <1>1, <1>2
<1> QED BY <1>1, <1>3 DEF Stacked

LEMMA TakenKept ==
  ASSUME UNCHANGED <<yychar, text>>
  PROVE  Taken' = Taken /\ Operators' = Operators /\ OneLine' = OneLine /\ Flat' = Flat /\ Ampersand' = Ampersand
BY DEF Taken, Operators, OneLine, Flat, Ampersand

LEMMA TokensReduced ==
  ASSUME Stacked, Tokens, Rule # 0, NEW v, Reduce(v), DuringParse
  PROVE  Tokens'
<1>1. /\ Rule \in 2..40 /\ Rule = DefaultRule(yystate)
      /\ pc = "parse" /\ yystate = stack[Len(stack)].state
      /\ Len(stack) \in Nat /\ yystate \in State
  BY RuleIs
<1>2. PICK m \in 1..Len(stack) :
           /\ m \in Nat /\ Len(stack') = m + 1
           /\ \A n \in 1..m : stack'[n] = stack[n]
           /\ yystate' = GotoTable(stack[m].state, Rule)
           /\ stack[m].state \in State
           /\ stack'[m + 1].state = yystate'
  BY NewTop
<1>3. PICK g : g = yystate'
  OBVIOUS
<1>4. /\ g \in {1, 14, 15} \cup Collecting \cup CommandStates \cup ListStates
      /\ Rule \in 2..8 => g \in {1, 14, 15}
  <2>1. PICK s, r : s = stack[m].state /\ r = Rule
    OBVIOUS
  <2>2. /\ GotoTable(s, r) \in {1, 14, 15} \cup Collecting \cup CommandStates \cup ListStates
        /\ r \in 2..3 => GotoTable(s, r) = 1
        /\ r \in 4..5 => GotoTable(s, r) = 14
        /\ r \in 6..8 => GotoTable(s, r) = 15
    BY <1>1, <1>2, <2>1, GotoNew
  <2>3. r \in 2..8 => r \in 2..3 \/ r \in 4..5 \/ r \in 6..8
    BY <1>1, <2>1
  <2> QED BY <1>2, <1>3, <2>1, <2>2, <2>3
<1>5. /\ g \notin Pending /\ g \notin {0, 2, 13, 34, 35, 36} /\ g # 43
  <2>1. g \notin Pending /\ g \notin {0, 2, 13, 34, 35, 36}
    BY <1>4, Distinct, Apart DEF Between
  <2> QED BY <2>1 DEF Pending
<1>6. UNCHANGED <<yychar, text, pc>>
  BY DEF DuringParse
<1>7. Taken' = Taken
  BY <1>6, TakenKept
<1>8. g \notin {0, 1, 2} => Taken >= 1
  <2>1. yystate = 0 \/ yystate = 2 => g \in {1}
    <3>1. yystate = 0 => Rule = 2
      BY <1>1, Reducing
    <3>2. yystate # 2
      BY <1>1, Reducing
    <3> QED BY <1>1, <1>2, <1>3, <3>1, <3>2, GotoNew
  <2>2. yystate # 1
    BY <1>1, Reducing
  <2> QED BY <1>1, <2>1, <2>2 DEF Tokens
<1>9. Taken >= 1 /\ text[Taken] = AMPERSAND => g \in Between \cup {34}
  <2>1. yystate \in Between \cup {34} => Rule \in 2..8
    BY <1>1, Reducing DEF Between
  <2> QED BY <1>1, <1>4, <2>1 DEF Tokens, Between
<1>10. \A n \in 1..Len(stack') : stack'[n].state \in {13, 35, 36} => n \in 1..m
  BY <1>2, <1>3, <1>5
<1>11. \A n \in 1..Len(stack') : /\ stack'[n].state = 13 => LPAREN \in ToSet(text)
                                 /\ stack'[n].state # 35
                                 /\ stack'[n].state = 36 => LINE_CHAGE \in ToSet(text)
  <2> TAKE n \in 1..Len(stack')
  <2>1. CASE n \in 1..m
    BY <1>1, <1>2, <2>1 DEF Tokens
  <2>2. CASE n \notin 1..m
    BY <1>10, <2>2
  <2> QED BY <2>1, <2>2
<1>12. yychar \notin {EOF, YYEMPTY} => text # <<>> /\ text[Len(text)] = yychar
  BY DEF Tokens
<1>13. ToSet(text)' = ToSet(text)
  BY <1>6
<1> QED BY <1>3, <1>5, <1>6, <1>7, <1>8, <1>9, <1>11, <1>12 DEF Tokens

LEMMA SequenceOf ==
  ASSUME NEW T, NEW s \in Seq(T)
  PROVE  /\ Sequence(s) /\ Len(s) \in Nat /\ DOMAIN s = 1..Len(s)
         /\ \A n \in 1..Len(s) : s[n] \in T
         /\ \A t : t \in ToSet(s) <=> \E n \in 1..Len(s) : s[n] = t
<1>1. Sequence(s)
  BY DEF Sequence
<1>2. Len(s) \in Nat /\ DOMAIN s = 1..Len(s) /\ \A n \in 1..Len(s) : s[n] \in T
  OBVIOUS
<1> QED BY <1>1, <1>2 DEF ToSet

LEMMA TextIs ==
  ASSUME Books
  PROVE  /\ Sequence(text) /\ Len(text) \in Nat /\ DOMAIN text = 1..Len(text)
         /\ \A n \in 1..Len(text) : text[n] \in 1..YYNTOKENS - 1 /\ text[n] # SEMICOLON
         /\ \A t : t \in ToSet(text) <=> \E n \in 1..Len(text) : text[n] = t
<1>1. text \in Seq(session.tokens) /\ session.tokens \subseteq 1..YYNTOKENS - 1 /\ SEMICOLON \notin session.tokens
  BY SessionIs DEF Books
<1> QED BY <1>1, SequenceOf

\* The token that was read is looked at, the ones before are where they were.
LEMMA LexIs ==
  ASSUME Books, Lex
  PROVE  /\ Taken = Len(text) /\ Taken' = Taken /\ Taken \in Nat /\ yychar = YYEMPTY
         /\ pc = "parse" /\ UNCHANGED <<heap, freed, stack, pc, cmd, result, history>>
         /\ ~ IsDefault(yystate) /\ yystate # YYFINAL
         /\ \A n \in 1..Taken : text'[n] = text[n] /\ (n \in Operators' <=> n \in Operators)
         /\ \A n \in Operators : n \in 1..Taken
         /\ Len(text') >= Len(text)
         /\ \A n \in 1..Len(text) : n \in 1..Len(text')
         /\ yychar' \notin {EOF, YYEMPTY} => /\ yychar' \in 1..YYNTOKENS - 1
                                            /\ Len(text') = Len(text) + 1 /\ text'[Len(text) + 1] = yychar'
                                            /\ text' # <<>>
         /\ yychar' = EOF => text' = text
         /\ yychar' # YYEMPTY
<1>1. /\ yychar = YYEMPTY /\ pc = "parse" /\ ~ IsDefault(yystate) /\ yystate # YYFINAL
      /\ \/ \E t \in session.tokens : yychar' = t /\ text' = Append(text, t)
         \/ yychar' = EOF /\ text' = text
      /\ UNCHANGED <<heap, freed, stack, pc, cmd, result, history>>
  BY DEF Lex, Parsing
<1>2. /\ Sequence(text) /\ Len(text) \in Nat /\ DOMAIN text = 1..Len(text)
      /\ session.tokens \subseteq 1..YYNTOKENS - 1
  BY TextIs, SessionIs
<1>3. Taken = Len(text) /\ \A n \in Operators : n \in 1..Taken
  BY <1>1, <1>2 DEF Taken, Operators
<1>4. CASE yychar' = EOF /\ text' = text
  <2>1. Taken' = Taken /\ Operators' = Operators
    BY <1>3, <1>4 DEF Taken, Operators
  <2> QED BY <1>1, <1>2, <1>3, <1>4, <2>1 DEF EOF, YYEMPTY
<1>5. CASE \E t \in session.tokens : yychar' = t /\ text' = Append(text, t)
  <2>1. PICK t \in session.tokens : yychar' = t /\ text' = Append(text, t)
    BY <1>5
  <2>2. t \in 1..YYNTOKENS - 1 /\ t # EOF /\ t # YYEMPTY
    <3>1. t \in 1..YYNTOKENS - 1
      BY <1>2
    <3> QED BY <3>1 DEF EOF, YYEMPTY, YYNTOKENS
  <2>3. /\ Sequence(text') /\ Len(text') = Len(text) + 1 /\ text'[Len(text) + 1] = t
        /\ \A n \in 1..Len(text) : text'[n] = text[n]
    BY <1>2, <2>1, Appending
  <2>4. DOMAIN text' = 1..Len(text')
    BY <2>3, Lengths
  <2>5. Taken' = Len(text') - 1
    BY <2>1, <2>2 DEF Taken
  <2>6. Taken' = Taken
    BY <1>2, <1>3, <2>3, <2>5
  <2>7. \A n \in 1..Len(text) : n > 1 => n - 1 \in 1..Len(text)
    BY <1>2
  <2>8. \A n \in 1..Len(text) : n \in DOMAIN text /\ n \in DOMAIN text'
    BY <1>2, <2>3, <2>4
  <2>9. ASSUME NEW n \in 1..Len(text) PROVE n \in Operators' <=> n \in Operators
    <3>1. text'[n] = text[n] /\ (n > 1 => text'[n - 1] = text[n - 1])
      BY <2>3, <2>7
    <3> QED BY <2>8, <3>1 DEF Operators
  <2>10. text' # <<>> /\ Len(text') >= Len(text)
    BY <1>2, <2>3, Lengths
  <2>11. \A n \in 1..Taken : text'[n] = text[n] /\ (n \in Operators' <=> n \in Operators)
    BY <1>3, <2>3, <2>9
  <2>12. \A n \in 1..Len(text) : n \in 1..Len(text')
    BY <1>2, <2>3
  <2> QED BY <1>1, <1>2, <1>3, <2>1, <2>2, <2>3, <2>6, <2>10, <2>11, <2>12
<1> QED BY <1>1, <1>4, <1>5

LEMMA LexFlat ==
  ASSUME Books, Books', Lex
  PROVE  /\ OneLine' => OneLine
         /\ Flat' => Flat
         /\ \A t : t \in ToSet(text) => t \in ToSet(text)'
<1>1. \A n \in 1..Len(text) : text'[n] = text[n] /\ n \in 1..Len(text')
  BY LexIs
<1>2. \A t : t \in ToSet(text) <=> \E n \in 1..Len(text) : text[n] = t
  BY TextIs
<1>3. \A t : t \in ToSet(text)' <=> \E n \in 1..Len(text') : text'[n] = t
  <2>1. text' \in Seq(session'.tokens)
    BY DEF Books
  <2>2. \A T, s : s \in Seq(T) => \A t : t \in ToSet(s) <=> \E n \in 1..Len(s) : s[n] = t
    BY SequenceOf
  <2> QED BY <2>1, <2>2
<1>4. \A t : t \in ToSet(text) => t \in ToSet(text)'
  BY <1>1, <1>2, <1>3
<1> QED BY <1>4 DEF OneLine, Flat

LEMMA ShiftIs ==
  ASSUME Books, Stacked, Tokens, Shift
  PROVE  /\ pc = "parse" /\ UNCHANGED <<heap, freed, pc, cmd, result, text, history>> /\ yychar' = YYEMPTY
         /\ Len(stack') = Len(stack) + 1 /\ Len(stack) \in Nat
         /\ \A n \in 1..Len(stack) : stack'[n] = stack[n]
         /\ yystate' = ShiftTo(yystate, yychar)
         /\ stack'[Len(stack) + 1].state = yystate' /\ stack'[Len(stack) + 1].value = Len(text)
         /\ yystate \in State /\ yychar \in 0..YYNTOKENS - 1 /\ Shifts(yystate, yychar)
         /\ Taken' = Len(text) /\ Taken \in Nat
         /\ yychar = EOF => Taken' = Taken
         /\ yychar # EOF => Taken' = Taken + 1 /\ text[Taken'] = yychar
         /\ UNCHANGED <<Operators, OneLine, Flat>>
<1>1. /\ pc = "parse" /\ UNCHANGED <<heap, freed, pc, cmd, result, text, history>> /\ yychar' = YYEMPTY
      /\ yychar # YYEMPTY /\ Shifts(yystate, yychar)
      /\ stack' = Append(stack, [state |-> ShiftTo(yystate, yychar), value |-> Len(text)])
  BY DEF Shift, Decided, Parsing, Shifting
<1>2. Sequence(stack) /\ Len(stack) \in Nat /\ yystate \in State
  BY TopIs DEF Stacked
<1>3. PICK x : x = [state |-> ShiftTo(yystate, yychar), value |-> Len(text)]
  OBVIOUS
<1>4. /\ Len(stack') = Len(stack) + 1
      /\ \A n \in 1..Len(stack) : stack'[n] = stack[n]
      /\ stack'[Len(stack) + 1] = x
  BY <1>1, <1>2, <1>3, Appending
<1>5. Last(stack') = x
  BY <1>4 DEF Last
<1>6. yystate' = ShiftTo(yystate, yychar) /\ x.state = yystate' /\ x.value = Len(text)
  BY <1>3, <1>5 DEF yystate
<1>7. yychar \in 0..YYNTOKENS - 1
  <2>1. yychar \in session.tokens \cup {EOF}
    BY <1>1 DEF Books
  <2>2. session.tokens \subseteq 1..YYNTOKENS - 1
    BY SessionIs
  <2>3. YYNTOKENS \in Nat /\ YYNTOKENS > 1 /\ EOF = 0
    BY DEF YYNTOKENS, EOF
  <2> QED BY <2>1, <2>2, <2>3
<1>8. Len(text) \in Nat /\ (text = <<>> <=> Len(text) = 0)
  BY TextIs, Lengths
<1>9. Taken' = Len(text)
  BY <1>1 DEF Taken
<1>10. yychar = EOF => Taken = Len(text)
  BY DEF Taken
<1>11. yychar # EOF => Taken = Len(text) - 1 /\ text # <<>> /\ text[Len(text)] = yychar
  BY <1>1 DEF Taken, Tokens
<1>12. UNCHANGED <<Operators, OneLine, Flat>>
  BY <1>1 DEF Operators, OneLine, Flat
<1>13. Taken \in Nat /\ (yychar # EOF => Taken' = Taken + 1 /\ text[Taken'] = yychar)
  BY <1>8, <1>9, <1>10, <1>11
<1> QED BY <1>1, <1>2, <1>4, <1>6, <1>7, <1>9, <1>10, <1>12, <1>13

LEMMA TokensLexed ==
  ASSUME Books, Books', Stacked, Tokens, Lex
  PROVE  Tokens'
<1>1. /\ Taken = Len(text) /\ Taken' = Taken /\ Taken \in Nat /\ yychar = YYEMPTY /\ pc = "parse"
      /\ UNCHANGED <<heap, freed, stack, pc, cmd, result, history>>
      /\ ~ IsDefault(yystate) /\ yystate # YYFINAL
      /\ \A n \in 1..Taken : text'[n] = text[n]
      /\ yychar' \notin {EOF, YYEMPTY} => /\ Len(text') = Len(text) + 1 /\ text'[Len(text) + 1] = yychar'
                                         /\ text' # <<>>
  BY LexIs
<1>2. \A t : t \in ToSet(text) => t \in ToSet(text)'
  BY LexFlat
<1>3. stack' = stack /\ yystate' = yystate /\ pc' = pc
  BY <1>1 DEF yystate
<1>4. yystate # 0
  <2>1. IsDefault(0)
    BY DEF IsDefault, At, yypact, YYPACT_NINF
  <2> QED BY <1>1, <2>1
<1>5. yystate # 2
  BY <1>1 DEF YYFINAL
<1>6. Taken >= 1 => text'[Taken'] = text[Taken]
  BY <1>1
<1>7. yystate \in Pending \cup {34} => Taken >= 1
  BY <1>1, Distinct DEF Tokens
<1>8. \A n \in 1..Len(stack) : /\ stack[n].state = 13 => LPAREN \in ToSet(text)'
                               /\ stack[n].state # 35
                               /\ stack[n].state = 36 => LINE_CHAGE \in ToSet(text)'
  BY <1>1, <1>2 DEF Tokens
<1>9. yystate \notin {0, 1, 2} => Taken' >= 1
  BY <1>1 DEF Tokens
<1>10. yystate \in Pending => /\ stack[Len(stack)].value = Taken'
                              /\ text'[Taken'] \in {WORD, QUOTED_STRING, PARAM_EXPANSION}
  BY <1>1, <1>6, <1>7 DEF Tokens
<1>11. /\ yystate = 34 => text'[Taken'] = AMPERSAND
       /\ yystate = 43 => text'[Taken'] = QUOTED_STRING
  <2>1. yystate = 43 => yystate \in Pending
    BY DEF Pending
  <2> QED BY <1>1, <1>6, <1>7, <2>1 DEF Tokens
<1>12. Taken' >= 1 /\ text'[Taken'] = AMPERSAND => yystate \in Between \cup {34}
  BY <1>1, <1>6 DEF Tokens
<1>13. (yychar \notin {EOF, YYEMPTY} => text # <<>> /\ text[Len(text)] = yychar)'
  BY <1>1
<1> QED BY <1>3, <1>4, <1>5, <1>8, <1>9, <1>10, <1>11, <1>12, <1>13 DEF Tokens

LEMMA TokensShifted ==
  ASSUME Books, Stacked, Tokens, Shift
  PROVE  Tokens'
<1>1. /\ pc = "parse" /\ text' = text /\ yychar' = YYEMPTY
      /\ Len(stack') = Len(stack) + 1 /\ Len(stack) \in Nat
      /\ \A n \in 1..Len(stack) : stack'[n] = stack[n]
      /\ stack'[Len(stack) + 1].state = yystate' /\ stack'[Len(stack) + 1].value = Len(text)
      /\ Taken' = Len(text) /\ Taken \in Nat
      /\ yychar = EOF => Taken' = Taken
      /\ yychar # EOF => Taken' = Taken + 1 /\ text[Taken'] = yychar
  BY ShiftIs
<1>2. PICK s, t, u : s = yystate /\ t = yychar /\ u = yystate'
  OBVIOUS
<1>3. s \in State /\ t \in 0..YYNTOKENS - 1 /\ Shifts(s, t) /\ u = ShiftTo(s, t)
  BY <1>2, ShiftIs
<1>4. /\ u \in Pending => t \in {WORD, QUOTED_STRING, PARAM_EXPANSION}
      /\ u = 43 => t = QUOTED_STRING
      /\ u = 34 <=> t = AMPERSAND
      /\ u = 35 => t = SEMICOLON
      /\ u = 36 => t = LINE_CHAGE
      /\ u = 13 => t = LPAREN
      /\ u = 2 <=> t = EOF
      /\ u = 2 => s = 1
      /\ u \in 2..13 \cup 23..51
  BY <1>3, ShiftTokens
<1>5. /\ Sequence(text) /\ Len(text) \in Nat
      /\ \A n \in 1..Len(text) : text[n] \in 1..YYNTOKENS - 1 /\ text[n] # SEMICOLON
      /\ \A x : x \in ToSet(text) <=> \E n \in 1..Len(text) : text[n] = x
  BY TextIs
<1>6. t # EOF => Taken' >= 1 /\ text[Taken'] = t /\ t \in ToSet(text) /\ t # SEMICOLON
  BY <1>1, <1>2, <1>5
<1>7. u # 2 => t # EOF
  BY <1>4
<1>8. u \notin {0, 1, 14, 15}
  BY <1>4
<1>9. \A n \in 1..Len(stack') : n \in 1..Len(stack) \/ n = Len(stack')
  BY <1>1
<1>10. \A n \in 1..Len(stack') : /\ stack'[n].state = 13 => LPAREN \in ToSet(text)
                                 /\ stack'[n].state # 35
                                 /\ stack'[n].state = 36 => LINE_CHAGE \in ToSet(text)
  <2> TAKE n \in 1..Len(stack')
  <2>1. CASE n \in 1..Len(stack)
    BY <1>1, <2>1 DEF Tokens
  <2>2. CASE n = Len(stack')
    <3>1. stack'[n].state = u
      BY <1>1, <1>2, <2>2
    <3> QED BY <1>4, <1>6, <1>7, <3>1
  <2> QED BY <1>9, <2>1, <2>2
<1>11. u \in Pending => /\ stack'[Len(stack')].value = Taken'
                        /\ text[Taken'] \in {WORD, QUOTED_STRING, PARAM_EXPANSION}
  <2>1. u \in Pending => t # EOF
    BY <1>4 DEF EOF, WORD, QUOTED_STRING, PARAM_EXPANSION
  <2> QED BY <1>1, <1>4, <1>6, <2>1
<1>12. Taken' >= 1 /\ text[Taken'] = AMPERSAND => u \in Between \cup {34}
  <2>1. CASE t = EOF
    BY <1>4, <2>1 DEF Between
  <2>2. CASE t # EOF
    BY <1>4, <1>6, <2>2
  <2> QED BY <2>1, <2>2
<1>13. /\ u = 34 => text[Taken'] = AMPERSAND
       /\ u = 43 => text[Taken'] = QUOTED_STRING
  BY <1>4, <1>6, <1>7
<1>14. u \notin {0, 1, 2} => Taken' >= 1
  BY <1>6, <1>7
<1> QED BY <1>1, <1>2, <1>8, <1>10, <1>11, <1>12, <1>13, <1>14 DEF Tokens

LEMMA TokensOutside ==
  ASSUME Tokens, pc' # "parse", UNCHANGED <<yychar, text>>
  PROVE  Tokens'
BY DEF Tokens

LEMMA TokensAtStart ==
  ASSUME stack' = Start, yychar' = YYEMPTY, pc' = "parse" => text' = <<>>
  PROVE  Tokens'
<1>1. Stacked' /\ yystate' = 0
  BY StartIs
<1>2. Len(stack') = 1 /\ stack'[1].state = 0
  BY DEF Start
<1>3. pc' = "parse" => Taken' = 0
  BY DEF Taken
<1> QED BY <1>1, <1>2, <1>3, Distinct DEF Tokens, Between

-----------------------------------------------------------------------------
(* What the reductions do to the commands.                                     *)

LEMMA CellReplaced ==
  ASSUME Cells, NEW a \in Cell, NEW r, cells' = [cells EXCEPT ![a] = r]
  PROVE  /\ Sequence(cells') /\ Len(cells') = Len(cells) /\ Cell' = Cell
         /\ \A n \in Cell : cells'[n] = IF n = a THEN r ELSE cells[n]
<1>1. Sequence(cells) /\ cells' = Replaced(cells, a, r)
  BY DEF Cells, Replaced
<1>2. \A s, i, x : Sequence(s) =>
         /\ Sequence(Replaced(s, i, x))
         /\ Len(Replaced(s, i, x)) = Len(s)
         /\ \A n \in 1..Len(s) : Replaced(s, i, x)[n] = IF n = i THEN x ELSE s[n]
  BY Replacing
<1>3. /\ Sequence(Replaced(cells, a, r))
      /\ Len(Replaced(cells, a, r)) = Len(cells)
      /\ \A n \in 1..Len(cells) : Replaced(cells, a, r)[n] = IF n = a THEN r ELSE cells[n]
  BY <1>1, <1>2
<1> QED BY <1>1, <1>3 DEF Cell

LEMMA CellAppended ==
  ASSUME Cells, NEW r, cells' = Append(cells, r)
  PROVE  /\ Sequence(cells') /\ Len(cells') = Len(cells) + 1 /\ Len(cells) \in Nat
         /\ Cell' = Cell \cup {Len(cells) + 1} /\ Len(cells) + 1 \notin Cell
         /\ \A n \in Cell : cells'[n] = cells[n]
         /\ cells'[Len(cells) + 1] = r
<1>1. /\ Sequence(cells') /\ Len(cells') = Len(cells) + 1
      /\ \A n \in 1..Len(cells) : cells'[n] = cells[n]
      /\ cells'[Len(cells) + 1] = r
  BY Appending DEF Cells
<1>2. Len(cells) \in Nat /\ Cell = 1..Len(cells)
  BY CellsAre
<1> QED BY <1>1, <1>2 DEF Cell

PipedTo(c, b) == [c EXCEPT !.next = b, !.pipline_next = TRUE]
FollowedBy(c, rule, b) == [c EXCEPT !.and_next = @ \/ rule = 10, !.or_next = @ \/ rule = 11, !.next = b]
AppendedBy(c, b) == [c EXCEPT !.next = b]
MarkedOne(c) == [c EXCEPT !.background = TRUE]

\* Commands f and b, on the stack above m, are made one pipeline: a, the last of those
\* that f leads to, leads to b.
Piping(G, m, f, a, b) ==
  /\ m \in Nat /\ f \in Cell /\ a \in Cell /\ b \in Cell
  /\ Reaching(G) /\ Rule = 13 /\ pc = "parse" /\ Reduce(f)
  /\ m = Len(stack) - At(yyr2, Rule) /\ Len(stack) = m + 3
  /\ IsRoot(m + 1) /\ IsRoot(m + 3) /\ stack[m + 1].state \in CommandStates
  /\ f = First(m + 1) /\ b = First(m + 3)
  /\ a = Last(Chain(f)) /\ a \in G /\ f <= a /\ a < b
  /\ cells' = [cells EXCEPT ![a] = PipedTo(cells[a], b)]
  /\ UNCHANGED <<current_command, command_list>> /\ DuringParse

LEMMA PipeIs ==
  ASSUME IInv, ReducePipe
  PROVE  \E G, m, f, a, b : Piping(G, m, f, a, b)
<1>1. Books /\ Stacked /\ Collects /\ Cells
  BY DEF IInv
<1>2. PICK G : Reaching(G)
  BY DEF IInv
<1>3. /\ Rule = 13 /\ Rule # 0 /\ Reduce(yyvsp(1)) /\ add_pipeline(yyvsp(1), yyvsp(3))
      /\ UNCHANGED <<current_command, command_list>> /\ DuringParse
  BY DEF ReducePipe
<1>4. pc = "parse" /\ RootsIn(Len(stack), G) /\ Heap(G) /\ Len(stack) \in Nat
  BY <1>1, <1>2, <1>3, RuleIs DEF Reaching
<1>5. PICK m : m = Len(stack) - At(yyr2, Rule) /\ m \in Nat
  BY <1>1, <1>3, <1>4, Depth
<1>6. /\ stack[m + 1].state \in CommandStates /\ IsRoot(m + 1) /\ IsRoot(m + 3) /\ Len(stack) = m + 3
      /\ RootIn(m + 1, G) /\ RootIn(m + 3, G) /\ Youngest(m + 1) < First(m + 3)
      /\ yyvsp(1) = stack[m + 1].value /\ yyvsp(3) = First(m + 3)
  BY <1>1, <1>3, <1>4, <1>5, Operands
<1>7. PICK f, b : f = First(m + 1) /\ b = First(m + 3)
  OBVIOUS
<1>8. yyvsp(1) = f /\ f < b /\ f \in G /\ b \in G /\ f \in Cell /\ b \in Cell
  BY <1>4, <1>6, <1>7, Apart DEF First, Youngest, RootIn, Heap, Closed
<1> DEFINE S == {c \in G : f <= c /\ c < b}
<1>9. Len(cells) \in Nat /\ Cell = 1..Len(cells) /\ G \subseteq Cell
  BY <1>1, <1>4, CellsAre DEF Heap, Closed
<1>10. Closed(S)
  <2>1. ASSUME NEW c \in S PROVE next(c) \in S \cup {NULL}
    <3>1. c \in G /\ f <= c /\ c < b
      OBVIOUS
    <3>2. next(c) \in G \cup {NULL}
      BY <1>4, <3>1 DEF Heap, Closed
    <3>3. next(c) < b
      BY <1>6, <1>7, <3>1 DEF RootIn
    <3>4. next(c) = NULL \/ next(c) \in c + 1..Len(cells)
      BY <1>1, <1>9, <3>1 DEF Cells
    <3>5. next(c) # NULL => f <= next(c)
      BY <1>8, <1>9, <3>1, <3>4
    <3> QED BY <3>2, <3>3, <3>5
  <2> QED BY <1>9, <2>1 DEF Closed
<1>11. f \in S
  BY <1>8, <1>9
<1>12. PICK a : a = Last(Chain(f))
  OBVIOUS
<1>13. a \in S
  <2> HIDE DEF S
  <2> QED BY <1>1, <1>10, <1>11, <1>12, ChainIn, MembersIn
<1>14. a \in G /\ f <= a /\ a < b /\ a \in Cell
  BY <1>9, <1>13
<1>15. cells' = [cells EXCEPT ![a] = PipedTo(cells[a], b)]
  <2>1. cells' = [cells EXCEPT ![a].next = b, ![a].pipline_next = TRUE]
    BY <1>3, <1>6, <1>7, <1>8, <1>12 DEF add_pipeline
  <2>2. DOMAIN cells = Cell
    BY <1>1, Lengths DEF Cells, Cell
  <2> QED BY <1>14, <2>1, <2>2 DEF PipedTo
<1>16. Reduce(f)
  BY <1>3, <1>8
<1>17. Piping(G, m, f, a, b)
  BY <1>2, <1>3, <1>4, <1>5, <1>6, <1>7, <1>8, <1>12, <1>14, <1>15, <1>16 DEF Piping
<1> QED BY <1>17

\* The list from f to a gets the command b.
Joining(G, m, f, a, b) ==
  /\ m \in Nat /\ f \in Cell /\ a \in Cell /\ b \in Cell
  /\ Reaching(G) /\ Rule \in {10, 11} /\ pc = "parse" /\ Reduce([head |-> f, tail |-> b])
  /\ m = Len(stack) - At(yyr2, Rule) /\ Len(stack) = m + 3
  /\ IsRoot(m + 1) /\ IsRoot(m + 3) /\ stack[m + 1].state \in ListStates
  /\ f = First(m + 1) /\ b = First(m + 3)
  /\ a = Youngest(m + 1) /\ a \in G /\ f <= a /\ a < b
  /\ cells' = [cells EXCEPT ![a] = FollowedBy(cells[a], Rule, b)]
  /\ UNCHANGED <<current_command, command_list>> /\ DuringParse

LEMMA AndOrIs ==
  ASSUME IInv, ReduceAndOr
  PROVE  \E G, m, f, a, b : Joining(G, m, f, a, b)
<1>1. Books /\ Stacked /\ Collects /\ Cells
  BY DEF IInv
<1>2. PICK G : Reaching(G)
  BY DEF IInv
<1> DEFINE list == yyvsp(1)
           v == [list EXCEPT !.tail = yyvsp(3)]
<1>3. /\ Rule \in {10, 11} /\ Rule # 0 /\ Reduce(v)
      /\ UNCHANGED <<current_command, command_list>> /\ DuringParse
  BY DEF ReduceAndOr
<1>4. pc = "parse" /\ RootsIn(Len(stack), G) /\ Heap(G) /\ Len(stack) \in Nat
  BY <1>1, <1>2, <1>3, RuleIs DEF Reaching
<1>5. PICK m : m = Len(stack) - At(yyr2, Rule) /\ m \in Nat
  BY <1>1, <1>3, <1>4, Depth
<1>6. /\ stack[m + 1].state \in ListStates /\ IsRoot(m + 1) /\ IsRoot(m + 3) /\ Len(stack) = m + 3
      /\ RootIn(m + 1, G) /\ RootIn(m + 3, G) /\ Youngest(m + 1) < First(m + 3)
      /\ yyvsp(1) = stack[m + 1].value /\ yyvsp(3) = First(m + 3)
  BY <1>1, <1>3, <1>4, <1>5, Operands
<1>7. PICK f, a, b : f = First(m + 1) /\ a = Youngest(m + 1) /\ b = First(m + 3)
  OBVIOUS
<1>8. list = [head |-> f, tail |-> a]
  BY <1>6, <1>7 DEF RootIn, IsPair
<1>9. /\ f <= a /\ a < b /\ a \in G /\ a \in Cell /\ f \in Cell /\ b \in Cell /\ yyvsp(3) = b
  BY <1>4, <1>6, <1>7 DEF RootIn, Heap, Closed
<1>10. cells' = [cells EXCEPT ![a] = FollowedBy(cells[a], Rule, b)]
  <2>1. cells' = [cells EXCEPT ![list.tail].and_next = @ \/ Rule = 10,
                               ![list.tail].or_next = @ \/ Rule = 11,
                               ![list.tail].next = yyvsp(3)]
    BY DEF ReduceAndOr
  <2> HIDE DEF list
  <2>2. cells' = [cells EXCEPT ![a].and_next = @ \/ Rule = 10,
                               ![a].or_next = @ \/ Rule = 11,
                               ![a].next = b]
    BY <1>8, <1>9, <2>1
  <2>3. DOMAIN cells = Cell
    BY <1>1, Lengths DEF Cells, Cell
  <2> QED BY <1>9, <2>2, <2>3 DEF FollowedBy
<1>11. v = [head |-> f, tail |-> b]
  BY <1>8, <1>9
<1> HIDE DEF v, list
<1>12. Joining(G, m, f, a, b)
  BY <1>2, <1>3, <1>4, <1>5, <1>6, <1>7, <1>9, <1>10, <1>11 DEF Joining
<1> QED BY <1>12

\* The list that is all of the stack becomes command_list, or is appended to it.
Sequencing(G, f, t) ==
  /\ f \in Cell /\ t \in Cell
  /\ Reaching(G) /\ Rule = 6 /\ pc = "parse" /\ Reduce([head |-> f, tail |-> t])
  /\ Len(stack) = 3 /\ yystate = 16 /\ At(yyr2, Rule) = 1
  /\ stack[1].state = 0 /\ stack[2].state = 1 /\ stack[3].state = 16
  /\ IsRoot(3) /\ f = First(3) /\ t = Youngest(3) /\ f \in G /\ t \in G
  /\ command_list = NoList => cells' = cells /\ command_list' = [head |-> f, tail |-> t]
  /\ command_list # NoList =>
       /\ command_list.tail \in G /\ command_list.tail \in Cell /\ command_list.tail < f
       /\ command_list.head \in Cell
       /\ cells' = [cells EXCEPT ![command_list.tail] = AppendedBy(cells[command_list.tail], f)]
       /\ command_list' = [head |-> command_list.head, tail |-> t]
  /\ current_command' = current_command /\ DuringParse

LEMMA SequenceIs ==
  ASSUME IInv, ReduceSequence
  PROVE  \E G, f, t : Sequencing(G, f, t)
<1>1. Books /\ Stacked /\ Collects /\ Cells
  BY DEF IInv
<1>2. PICK G : Reaching(G)
  BY DEF IInv
<1>3. /\ Rule = 6 /\ Rule # 0 /\ Reduce(yyvsp(1)) /\ current_command' = current_command
      /\ DuringParse /\ At(yyr2, Rule) = 1
  BY Lengths9to19 DEF ReduceSequence
<1>4. pc = "parse" /\ RootsIn(Len(stack), G) /\ Heap(G)
  BY <1>1, <1>2, <1>3, RuleIs DEF Reaching
<1>5. /\ Len(stack) = 3 /\ yystate = 16
      /\ stack[1].state = 0 /\ stack[2].state = 1 /\ stack[3].state = 16
  BY <1>1, <1>3, AloneOnStack
<1>6. IsRoot(3) /\ RootIn(3, G) /\ stack[3].state \in ListStates /\ yyvsp(1) = stack[3].value
  <2>1. 3 \in 1..Len(stack) /\ Len(stack) - At(yyr2, Rule) = 2
    BY <1>3, <1>5
  <2>2. stack[3].state \in ListStates
    BY <1>5 DEF ListStates
  <2>3. yyvsp(1) = stack[3].value
    BY <1>1, <1>3, <2>1, ValueOf
  <2> QED BY <1>4, <2>1, <2>2, <2>3 DEF RootsIn, IsRoot
<1>7. PICK f, t : f = First(3) /\ t = Youngest(3)
  OBVIOUS
<1>8. yyvsp(1) = [head |-> f, tail |-> t] /\ f \in G /\ t \in G /\ f \in Cell /\ t \in Cell
  BY <1>4, <1>6, <1>7 DEF RootIn, IsPair, Heap, Closed
<1>9. CASE command_list = NoList
  <2>1. cells' = cells /\ command_list' = [head |-> f, tail |-> t]
    BY <1>8, <1>9 DEF ReduceSequence
  <2>2. Sequencing(G, f, t)
    BY <1>2, <1>3, <1>4, <1>5, <1>6, <1>7, <1>8, <1>9, <2>1 DEF Sequencing
  <2> QED BY <2>2
<1>10. CASE command_list # NoList
  <2>1. PICK a : a = command_list.tail
    OBVIOUS
  <2>2. command_list \in [head : G, tail : G] /\ a \in G /\ a < f
    BY <1>4, <1>6, <1>7, <1>10, <2>1 DEF Heap, RootIn
  <2>3. /\ cells' = [cells EXCEPT ![a].next = yyvsp(1).head]
        /\ command_list' = [command_list EXCEPT !.tail = yyvsp(1).tail]
    BY <1>10, <2>1 DEF ReduceSequence, Appended
  <2>4. a \in Cell /\ command_list.head \in Cell
    BY <1>4, <2>2 DEF Heap, Closed
  <2>5. cells' = [cells EXCEPT ![a] = AppendedBy(cells[a], f)]
    <3>1. yyvsp(1).head = f
      BY <1>8
    <3> QED BY <2>3, <3>1 DEF AppendedBy
  <2>6. command_list' = [head |-> command_list.head, tail |-> t]
    BY <1>8, <2>2, <2>3
  <2>7. Sequencing(G, f, t)
    BY <1>2, <1>3, <1>4, <1>5, <1>6, <1>7, <1>8, <1>10, <2>1, <2>2, <2>4, <2>5, <2>6 DEF Sequencing
  <2> QED BY <2>7
<1> QED BY <1>9, <1>10

Marking(G, a, v) ==
  /\ Reaching(G) /\ Rule = 8 /\ pc = "parse" /\ yystate = 34 /\ Reduce(v)
  /\ command_list # NoList /\ a = command_list.tail /\ a \in G /\ a \in Cell
  /\ cells' = [cells EXCEPT ![a] = MarkedOne(cells[a])]
  /\ UNCHANGED <<current_command, command_list>> /\ DuringParse

LEMMA BackgroundIs ==
  ASSUME IInv, Lists, ReduceBackground
  PROVE  \E G, a, v : Marking(G, a, v)
<1>1. Books /\ Stacked /\ Collects /\ Cells
  BY DEF IInv
<1>2. PICK G : Reaching(G)
  BY DEF IInv
<1>3. PICK a, v : a = command_list.tail /\ v = yyvsp(1)
  OBVIOUS
<1>4. /\ Rule = 8 /\ Rule # 0 /\ Reduce(v)
      /\ UNCHANGED <<current_command, command_list>> /\ DuringParse
  BY <1>3 DEF ReduceBackground
<1>5. cells' = [cells EXCEPT ![a] = MarkedOne(cells[a])]
  BY <1>3 DEF ReduceBackground, MarkedOne
<1>6. pc = "parse" /\ yystate = 34
  BY <1>1, <1>4, RuleIs, Reducing
<1>7. command_list # NoList
  BY <1>6 DEF Lists
<1>8. a \in G /\ a \in Cell
  BY <1>2, <1>3, <1>7 DEF Reaching, Heap, Closed
<1>9. Marking(G, a, v)
  BY <1>2, <1>3, <1>4, <1>5, <1>6, <1>7, <1>8 DEF Marking
<1> QED BY <1>9

\* What a word or redirection adds to a command.
More(new, old) ==
  /\ new \in Command
  /\ new.next = old.next /\ new.and_next = old.and_next /\ new.or_next = old.or_next
  /\ new.pipline_next = old.pipline_next /\ new.background = old.background
  /\ new.argv = old.argv \/ new.argv = Append(old.argv, Word(Taken))
  /\ Rule \in {29, 30} => new.argv = Append(old.argv, Word(Taken))
  /\ WordsOf(new) \subseteq WordsOf(old) \cup {Word(Taken)}
  /\ Len(new.redirects) < MAX_REDIRECTS =>
       /\ Len(old.redirects) < MAX_REDIRECTS /\ WordsOf(old) \subseteq WordsOf(new)
       /\ text[Taken] = WORD => Word(Taken) \in WordsOf(new)

LEMMA NewIs == NewCommand \in Command /\ WordsOf(NewCommand) = {}
<1>1. NewCommand \in Command
  BY DEF NewCommand, Command, NULL
<1>2. WordsOf(NewCommand) = {}
  BY DEF NewCommand, WordsOf, ToSet
<1> QED BY <1>1, <1>2

LEMMA ToSetAppended ==
  ASSUME NEW S, NEW s \in Seq(S), NEW x \in S
  PROVE  Append(s, x) \in Seq(S) /\ ToSet(Append(s, x)) = ToSet(s) \cup {x}
<1>1. Append(s, x) \in Seq(S) /\ Len(Append(s, x)) = Len(s) + 1 /\ Len(s) \in Nat
  OBVIOUS
<1>2. /\ \A n \in 1..Len(s) : Append(s, x)[n] = s[n]
      /\ Append(s, x)[Len(s) + 1] = x
  OBVIOUS
<1>3. \A t : t \in ToSet(s) <=> \E n \in 1..Len(s) : s[n] = t
  BY SequenceOf
<1>4. \A t : t \in ToSet(Append(s, x)) <=> \E n \in 1..Len(s) + 1 : Append(s, x)[n] = t
  <2>1. PICK u : u = Append(s, x)
    OBVIOUS
  <2>2. \A t : t \in ToSet(u) <=> \E n \in 1..Len(u) : u[n] = t
    BY <1>1, <2>1, SequenceOf
  <2> QED BY <1>1, <2>1, <2>2
<1>5. \A n \in 1..Len(s) + 1 : n \in 1..Len(s) \/ n = Len(s) + 1
  BY <1>1
<1>6. \A n \in 1..Len(s) : n \in 1..Len(s) + 1
  BY <1>1
<1>7. Len(s) + 1 \in 1..Len(s) + 1
  BY <1>1
<1>8. \A t : t \in ToSet(Append(s, x)) <=> t \in ToSet(s) \/ t = x
  BY <1>2, <1>3, <1>4, <1>5, <1>6, <1>7
<1> QED BY <1>1, <1>8

\* A word that is taken from the stack is the token that was taken last.
LEMMA WordTaken ==
  ASSUME Books, Stacked, Tokens, Rule \in 26..40
  PROVE  /\ yyvsp(At(yyr2, Rule)) = Taken /\ Taken \in Nat /\ Taken >= 1 /\ Word(Taken) \in Place
         /\ Taken \in 1..Len(text) /\ text[Taken] \in {WORD, QUOTED_STRING, PARAM_EXPANSION}
         /\ Rule = 27 => text[Taken] = QUOTED_STRING
         /\ Rule \in 26..30 => At(yyr2, Rule) = 1
         /\ pc = "parse" /\ yystate \in Pending
<1>1. /\ Rule # 0 /\ Rule \in 2..40 /\ Rule = DefaultRule(yystate)
      /\ pc = "parse" /\ yystate = stack[Len(stack)].state
      /\ Len(stack) \in Nat /\ yystate \in State
  <2>1. Rule # 0
    OBVIOUS
  <2> QED BY <2>1, RuleIs
<1>2. yystate \in Pending
  BY <1>1, Reducing
<1>3. Len(text) \in Nat
  BY TextIs
<1>4. /\ stack[Len(stack)].value = Taken
      /\ text[Taken] \in {WORD, QUOTED_STRING, PARAM_EXPANSION}
      /\ Taken >= 1
  <2>1. yystate \notin {0, 1, 2}
    BY <1>2, Distinct
  <2> QED BY <1>1, <1>2, <2>1 DEF Tokens
<1>5. Taken \in 1..Len(text)
  BY <1>3, <1>4 DEF Taken
<1>6. At(yyr2, Rule) \in 1..3 /\ (Rule \in 26..30 => At(yyr2, Rule) = 1)
  <2>1. \A r \in 26..40 : At(yyr2, r) \in 1..3 /\ (r \in 26..30 => At(yyr2, r) = 1)
    BY SMTT(60) DEF At, yyr2
  <2> QED BY <2>1
<1>7. yyvsp(At(yyr2, Rule)) = Taken
  <2>1. PICK k, m : k = At(yyr2, Rule) /\ m = Len(stack) - k
    OBVIOUS
  <2>2. Len(stack) > k
    BY <1>1, <2>1, Depth
  <2>3. m \in Nat /\ m + k = Len(stack)
    BY <1>1, <1>6, <2>1, <2>2
  <2>4. yyvsp(k) = stack[m + k].value
    BY <1>1, <1>6, <2>1, <2>3, ValueOf
  <2> QED BY <1>4, <2>1, <2>3, <2>4
<1>8. Rule = 27 => text[Taken] = QUOTED_STRING
  <2>1. \A s \in State : DefaultRule(s) = 27 => s = 43
    BY SMTT(60) DEF State, DefaultRule, At, yydefact
  <2> QED BY <1>1, <2>1 DEF Tokens
<1>9. Taken \in Nat /\ segment \in Nat
  <2>1. segment \in 0..session.segments /\ session.segments \in Nat
    BY SessionIs DEF Books
  <2> QED BY <1>3, <1>5, <2>1
<1> QED BY <1>1, <1>2, <1>4, <1>5, <1>6, <1>7, <1>8, <1>9 DEF Word, Place

LEMMA WordMore ==
  ASSUME Books, Stacked, Tokens, Rule \in 26..30, NEW c \in Command
  PROVE  More([c EXCEPT !.argv = Append(@, Word(Taken))], c)
<1>1. Word(Taken) \in Place
  BY WordTaken
<1>2. PICK w, s, d : w = Word(Taken) /\ s = c.argv /\ d = Append(s, w)
  OBVIOUS
<1>3. s \in Seq(Place)
  BY <1>2 DEF Command
<1>4. d \in Seq(Place) /\ ToSet(d) = ToSet(s) \cup {w}
  BY <1>1, <1>2, <1>3, ToSetAppended
<1>5. PICK r : r = [c EXCEPT !.argv = d]
  OBVIOUS
<1>6. /\ r \in Command /\ r.argv = d /\ r.redirects = c.redirects /\ r.next = c.next
      /\ r.and_next = c.and_next /\ r.or_next = c.or_next
      /\ r.pipline_next = c.pipline_next /\ r.background = c.background
  BY <1>4, <1>5 DEF Command
<1>7. WordsOf(r) = WordsOf(c) \cup {w}
  BY <1>2, <1>4, <1>6 DEF WordsOf
<1>8. More(r, c)
  BY <1>2, <1>6, <1>7 DEF More
<1> QED BY <1>2, <1>5, <1>8

\* Quotes that hold nothing add nothing.
LEMMA NothingMore ==
  ASSUME Books, Stacked, Tokens, Rule = 27, NEW c \in Command
  PROVE  More(c, c)
<1>1. text[Taken] # WORD
  <2>1. Rule \in 26..40
    OBVIOUS
  <2> QED BY <2>1, WordTaken DEF WORD, QUOTED_STRING
<1> QED BY <1>1 DEF More

LEMMA FittingIs ==
  ASSUME NEW S, NEW s \in Seq(S)
  PROVE  \E m \in Nat : /\ m = IF Len(s) < MAX_REDIRECTS THEN Len(s) ELSE MAX_REDIRECTS
                        /\ Fitting(s) \in Seq(S) /\ Len(Fitting(s)) = m /\ m <= Len(s)
                        /\ \A n \in 1..m : Fitting(s)[n] = s[n]
<1>1. Len(s) \in Nat /\ MAX_REDIRECTS \in Nat
  BY BoundAssumption
<1>2. PICK m : m = IF Len(s) < MAX_REDIRECTS THEN Len(s) ELSE MAX_REDIRECTS
  OBVIOUS
<1>3. m \in Nat /\ m <= Len(s)
  BY <1>1, <1>2
<1>4. /\ SubSeq(s, 1, m) \in Seq(S) /\ Len(SubSeq(s, 1, m)) = m
      /\ \A n \in 1..m : SubSeq(s, 1, m)[n] = s[n]
  BY <1>1, <1>3
<1>5. Fitting(s) = SubSeq(s, 1, m)
  BY <1>2 DEF Fitting
<1> QED BY <1>2, <1>3, <1>4, <1>5

Destinations(s) == {s[n].target : n \in DOMAIN s}

\* The redirections of one rule all have the word as their target.
LEMMA FittingTargets ==
  ASSUME NEW s \in Seq(Redirect), NEW d \in Seq(Redirect), NEW w, Len(d) >= 1,
         \A n \in 1..Len(d) : d[n].target = w
  PROVE  LET r == Fitting(s \o d)
         IN  /\ r \in Seq(Redirect) /\ Destinations(r) \subseteq Destinations(s) \cup {w}
             /\ Len(r) < MAX_REDIRECTS =>
                  /\ Len(s) < MAX_REDIRECTS /\ Destinations(s) \subseteq Destinations(r) /\ w \in Destinations(r)
<1>1. PICK u, r : u = s \o d /\ r = Fitting(u)
  OBVIOUS
<1>2. /\ u \in Seq(Redirect) /\ Len(u) = Len(s) + Len(d) /\ Len(s) \in Nat /\ Len(d) \in Nat
      /\ \A n \in 1..Len(u) : u[n] = IF n <= Len(s) THEN s[n] ELSE d[n - Len(s)]
  BY <1>1
<1>3. PICK m : /\ m = IF Len(u) < MAX_REDIRECTS THEN Len(u) ELSE MAX_REDIRECTS
               /\ r \in Seq(Redirect) /\ Len(r) = m /\ m \in Nat /\ m <= Len(u)
               /\ \A n \in 1..m : r[n] = u[n]
  <2>1. \A v \in Seq(Redirect) :
          \E m \in Nat : /\ m = IF Len(v) < MAX_REDIRECTS THEN Len(v) ELSE MAX_REDIRECTS
                         /\ Fitting(v) \in Seq(Redirect) /\ Len(Fitting(v)) = m /\ m <= Len(v)
                         /\ \A n \in 1..m : Fitting(v)[n] = v[n]
    BY FittingIs
  <2> QED BY <1>1, <1>2, <2>1
<1>4. DOMAIN r = 1..m /\ DOMAIN s = 1..Len(s) /\ MAX_REDIRECTS \in Nat
  BY <1>3, BoundAssumption
<1>5. ASSUME NEW n \in 1..m PROVE r[n].target \in Destinations(s) \cup {w}
  <2>1. n \in 1..Len(u) /\ r[n] = u[n]
    BY <1>2, <1>3
  <2>2. CASE n <= Len(s)
    <3>1. n \in DOMAIN s /\ r[n] = s[n]
      BY <1>2, <1>4, <2>1, <2>2
    <3> QED BY <3>1 DEF Destinations
  <2>3. CASE ~ (n <= Len(s))
    <3>1. r[n] = d[n - Len(s)] /\ n - Len(s) \in 1..Len(d)
      BY <1>2, <2>1, <2>3
    <3> QED BY <3>1
  <2> QED BY <2>2, <2>3
<1>6. Destinations(r) \subseteq Destinations(s) \cup {w}
  BY <1>4, <1>5 DEF Destinations
<1>7. ASSUME Len(r) < MAX_REDIRECTS
      PROVE  Len(s) < MAX_REDIRECTS /\ Destinations(s) \subseteq Destinations(r) /\ w \in Destinations(r)
  <2>1. m = Len(u) /\ Len(u) < MAX_REDIRECTS
    BY <1>2, <1>3, <1>4, <1>7
  <2>2. Len(s) < MAX_REDIRECTS
    BY <1>2, <1>4, <2>1
  <2>3. \A n \in 1..Len(s) : n \in 1..m /\ r[n] = s[n]
    BY <1>2, <1>3, <2>1
  <2>4. Destinations(s) \subseteq Destinations(r)
    BY <1>4, <2>3 DEF Destinations
  <2>5. Len(s) + 1 \in 1..m /\ r[Len(s) + 1] = d[1] /\ 1 \in 1..Len(d)
    <3>1. Len(s) + 1 \in 1..m /\ Len(s) + 1 \in 1..Len(u) /\ 1 \in 1..Len(d)
      BY <1>2, <2>1
    <3>2. u[Len(s) + 1] = d[Len(s) + 1 - Len(s)] /\ Len(s) + 1 - Len(s) = 1
      BY <1>2, <3>1
    <3> QED BY <1>3, <3>1, <3>2
  <2>6. w \in Destinations(r)
    BY <1>4, <2>5 DEF Destinations
  <2> QED BY <2>2, <2>4, <2>6
<1> QED BY <1>1, <1>3, <1>6, <1>7

LEMMA TypesAre ==
  ASSUME Rule \in 31..40
  PROVE  \E k \in 1..2 : /\ DOMAIN RedirectTypes = 1..k
                         /\ \A n \in 1..k : RedirectTypes[n] \in Types
<1>1. /\ Rule \in {31, 38} => RedirectTypes = <<"INPUT">>
      /\ Rule = 32 => RedirectTypes = <<"INPUT_DUP">>
      /\ Rule \in {33, 39} => RedirectTypes = <<"OUTPUT">>
      /\ Rule = 34 => RedirectTypes = <<"OUTPUT_DUP">>
      /\ Rule \in {35, 40} => RedirectTypes = <<"APPEND">>
      /\ Rule = 36 => RedirectTypes = <<"INPUT", "OUTPUT">>
      /\ Rule = 37 => RedirectTypes = <<"APPEND_DUP">>
  BY DEF RedirectTypes
<1>2. Rule \in {31, 38} \cup {32} \cup {33, 39} \cup {34} \cup {35, 40} \cup {36} \cup {37}
  OBVIOUS
<1>3. (\E x \in Types : RedirectTypes = <<x>>) \/ \E x, y \in Types : RedirectTypes = <<x, y>>
  BY <1>1, <1>2 DEF Types
<1>4. CASE \E x \in Types : RedirectTypes = <<x>>
  <2>1. PICK x \in Types : RedirectTypes = <<x>>
    BY <1>4
  <2>2. DOMAIN RedirectTypes = 1..1 /\ \A n \in 1..1 : RedirectTypes[n] = x
    BY <2>1
  <2> QED BY <2>1, <2>2
<1>5. CASE \E x, y \in Types : RedirectTypes = <<x, y>>
  <2>1. PICK x \in Types, y \in Types : RedirectTypes = <<x, y>>
    BY <1>5
  <2>2. DOMAIN RedirectTypes = 1..2 /\ \A n \in 1..2 : RedirectTypes[n] \in {x, y}
    BY <2>1
  <2> QED BY <2>1, <2>2
<1> QED BY <1>3, <1>4, <1>5

LEMMA RedirectionMore ==
  ASSUME Books, Stacked, Tokens, Rule \in 31..40, NEW c \in Command,
         NEW d, d = [n \in DOMAIN RedirectTypes |-> [type |-> RedirectTypes[n], target |-> Word(Taken)]]
  PROVE  More([c EXCEPT !.redirects = Fitting(@ \o d)], c)
<1>1. Word(Taken) \in Place
  <2>1. Rule \in 26..40
    OBVIOUS
  <2> QED BY <2>1, WordTaken
<1>2. PICK w, s, u : w = Word(Taken) /\ s = c.redirects /\ u = Fitting(s \o d)
  OBVIOUS
<1>3. PICK k \in 1..2 : /\ DOMAIN RedirectTypes = 1..k
                        /\ \A n \in 1..k : RedirectTypes[n] \in Types
  BY TypesAre
<1>4. DOMAIN d = 1..k /\ \A n \in 1..k : d[n] \in Redirect /\ d[n].target = w
  BY <1>1, <1>2, <1>3 DEF Redirect
<1>5. d \in Seq(Redirect) /\ Len(d) = k
  <2>1. d = [n \in 1..k |-> d[n]]
    BY <1>3, <1>4
  <2>2. d \in [1..k -> Redirect]
    BY <1>4, <2>1
  <2> QED BY <1>3, <2>2
<1>6. s \in Seq(Redirect)
  BY <1>2 DEF Command
<1>7. /\ u \in Seq(Redirect) /\ Destinations(u) \subseteq Destinations(s) \cup {w}
      /\ Len(u) < MAX_REDIRECTS =>
           /\ Len(s) < MAX_REDIRECTS /\ Destinations(s) \subseteq Destinations(u) /\ w \in Destinations(u)
  <2>1. Len(d) >= 1 /\ \A n \in 1..Len(d) : d[n].target = w
    BY <1>4, <1>5
  <2> QED BY <1>2, <1>5, <1>6, <2>1, FittingTargets
<1>8. PICK r : r = [c EXCEPT !.redirects = u]
  OBVIOUS
<1>9. /\ r \in Command /\ r.redirects = u /\ r.argv = c.argv /\ r.next = c.next
      /\ r.and_next = c.and_next /\ r.or_next = c.or_next
      /\ r.pipline_next = c.pipline_next /\ r.background = c.background
  BY <1>7, <1>8 DEF Command
<1>10. /\ WordsOf(r) = ToSet(c.argv) \cup Destinations(u)
       /\ WordsOf(c) = ToSet(c.argv) \cup Destinations(s)
  BY <1>2, <1>9 DEF WordsOf, Destinations
<1>11. More(r, c)
  BY <1>2, <1>7, <1>9, <1>10 DEF More
<1> QED BY <1>2, <1>8, <1>11

Adds(new, old, v) ==
  /\ Rule \in 26..40 /\ pc = "parse" /\ yystate \in Pending /\ Reduce(v) /\ Extending(new, old)
  /\ More(new, NewCommand) /\ (current_command \in Cell => More(old, cells[current_command]))
  /\ command_list' = command_list /\ DuringParse

LEMMA WordIs ==
  ASSUME IInv, Tokens, Typed, ReduceWord
  PROVE  \E new, old, v : Adds(new, old, v)
<1>1. Books /\ Stacked
  BY DEF IInv
<1>2. PICK v : Rule \in 26..30 /\ v = yyvsp(1) /\ Reduce(v) /\ command_list' = command_list /\ DuringParse
  BY DEF ReduceWord
<1>3. Rule \in 26..40
  BY <1>2
<1>4. pc = "parse" /\ yystate \in Pending /\ yyvsp(1) = Taken
  BY <1>1, <1>2, <1>3, WordTaken
<1>5. PICK c : c = cells[current_command]
  OBVIOUS
<1> DEFINE more(x) == [x EXCEPT !.argv = Append(@, Word(Taken))]
<1>6. \/ Extending(more(NewCommand), more(c))
      \/ Rule = 27 /\ Extending(NewCommand, c)
  BY <1>4, <1>5 DEF ReduceWord, Extended, Extending
<1>7. current_command \in Cell => c \in Command
  BY <1>5 DEF Typed
<1>8. NewCommand \in Command
  BY NewIs
<1>9. \A x \in Command : More(more(x), x) /\ (Rule = 27 => More(x, x))
  BY <1>1, <1>2, WordMore, NothingMore
<1> HIDE DEF more
<1>10. CASE Extending(more(NewCommand), more(c))
  <2>1. Adds(more(NewCommand), more(c), v)
    BY <1>2, <1>3, <1>4, <1>5, <1>7, <1>8, <1>9, <1>10 DEF Adds
  <2> QED BY <2>1
<1>11. CASE Rule = 27 /\ Extending(NewCommand, c)
  <2>1. Adds(NewCommand, c, v)
    BY <1>2, <1>3, <1>4, <1>5, <1>7, <1>8, <1>9, <1>11 DEF Adds
  <2> QED BY <2>1
<1> QED BY <1>6, <1>10, <1>11

LEMMA RedirectionIs ==
  ASSUME IInv, Tokens, Typed, ReduceRedirect
  PROVE  \E new, old, v : Adds(new, old, v)
<1>1. Books /\ Stacked
  BY DEF IInv
<1>2. PICK v : Rule \in 31..40 /\ v = yyvsp(1) /\ Reduce(v) /\ command_list' = command_list /\ DuringParse
  BY DEF ReduceRedirect
<1>3. Rule \in 26..40
  BY <1>2
<1>4. pc = "parse" /\ yystate \in Pending /\ yyvsp(At(yyr2, Rule)) = Taken
  BY <1>1, <1>2, <1>3, WordTaken
<1>5. PICK c, d : /\ c = cells[current_command]
                  /\ d = [n \in DOMAIN RedirectTypes |-> [type |-> RedirectTypes[n], target |-> Word(Taken)]]
  OBVIOUS
<1> DEFINE more(x) == [x EXCEPT !.redirects = Fitting(@ \o d)]
<1>6. Extending(more(NewCommand), more(c))
  BY <1>4, <1>5 DEF ReduceRedirect, Extended, Extending
<1>7. current_command \in Cell => c \in Command
  BY <1>5 DEF Typed
<1>8. NewCommand \in Command
  BY NewIs
<1>9. \A x \in Command : More(more(x), x)
  BY <1>1, <1>2, <1>5, RedirectionMore
<1> HIDE DEF more
<1>10. Adds(more(NewCommand), more(c), v)
  BY <1>2, <1>3, <1>4, <1>5, <1>6, <1>7, <1>8, <1>9 DEF Adds
<1> QED BY <1>10

-----------------------------------------------------------------------------
(* What stays as it is.                                                        *)

ContentKept ==
  /\ Cell \subseteq Cell' /\ Typed'
  /\ \A c \in Cell : cells'[c].argv = cells[c].argv /\ cells'[c].redirects = cells[c].redirects
  /\ \A c \in Cell' : c \notin Cell => cells'[c].argv = <<>> /\ cells'[c].redirects = <<>>
MarksKept ==
  /\ \A c \in Cell : cells'[c].background = cells[c].background
  /\ \A c \in Cell' : c \notin Cell => ~ cells'[c].background

LEMMA SameContent ==
  ASSUME Typed, cells' = cells
  PROVE  ContentKept /\ MarksKept /\ Cell' = Cell
BY DEF Typed, ContentKept, MarksKept, Cell

LEMMA RecordReplaced ==
  ASSUME Cells, Typed, NEW a \in Cell, NEW r \in Command, cells' = [cells EXCEPT ![a] = r],
         r.argv = cells[a].argv, r.redirects = cells[a].redirects
  PROVE  /\ ContentKept /\ Cell' = Cell /\ Len(cells') = Len(cells)
         /\ \A n \in Cell : cells'[n] = IF n = a THEN r ELSE cells[n]
<1>1. /\ Len(cells') = Len(cells) /\ Cell' = Cell
      /\ \A n \in Cell : cells'[n] = IF n = a THEN r ELSE cells[n]
  BY CellReplaced
<1>2. Typed'
  BY <1>1 DEF Typed
<1>3. ContentKept
  BY <1>1, <1>2 DEF ContentKept
<1> QED BY <1>1, <1>3

LEMMA MarksReplaced ==
  ASSUME Cells, NEW a \in Cell, NEW r, cells' = [cells EXCEPT ![a] = r],
         r.background = cells[a].background
  PROVE  MarksKept
<1>1. /\ Cell' = Cell
      /\ \A n \in Cell : cells'[n] = IF n = a THEN r ELSE cells[n]
  BY CellReplaced
<1> QED BY <1>1 DEF MarksKept

LEMMA PipedIs ==
  ASSUME NEW c \in Command, NEW b \in Nat, NEW r, r = PipedTo(c, b)
  PROVE  /\ r \in Command /\ r.argv = c.argv /\ r.redirects = c.redirects /\ r.background = c.background
         /\ r.next = b /\ r.and_next = c.and_next /\ r.or_next = c.or_next /\ r.pipline_next = TRUE
BY DEF PipedTo, Command

LEMMA FollowedIs ==
  ASSUME NEW c \in Command, NEW b \in Nat, NEW rule, NEW r, r = FollowedBy(c, rule, b)
  PROVE  /\ r \in Command /\ r.argv = c.argv /\ r.redirects = c.redirects /\ r.background = c.background
         /\ r.next = b /\ r.and_next = (c.and_next \/ rule = 10) /\ r.or_next = (c.or_next \/ rule = 11)
         /\ r.pipline_next = c.pipline_next
BY DEF FollowedBy, Command

LEMMA AppendedIs ==
  ASSUME NEW c \in Command, NEW b \in Nat, NEW r, r = AppendedBy(c, b)
  PROVE  /\ r \in Command /\ r.argv = c.argv /\ r.redirects = c.redirects /\ r.background = c.background
         /\ r.next = b /\ r.and_next = c.and_next /\ r.or_next = c.or_next
         /\ r.pipline_next = c.pipline_next
BY DEF AppendedBy, Command

LEMMA MarkedIs ==
  ASSUME NEW c \in Command, NEW r, r = MarkedOne(c)
  PROVE  /\ r \in Command /\ r.argv = c.argv /\ r.redirects = c.redirects /\ r.background = TRUE
         /\ r.next = c.next /\ r.and_next = c.and_next /\ r.or_next = c.or_next
         /\ r.pipline_next = c.pipline_next
BY DEF MarkedOne, Command

LEMMA CellIsNat == Cells => Cell \subseteq Nat /\ 0 \notin Cell
BY CellsAre

LEMMA PipeContent ==
  ASSUME Cells, Typed, NEW G, NEW m, NEW f, NEW a, NEW b, Piping(G, m, f, a, b)
  PROVE  /\ ContentKept /\ MarksKept /\ Cell' = Cell /\ Len(cells') = Len(cells)
         /\ \A n \in Cell : cells'[n] = IF n = a THEN PipedTo(cells[n], b) ELSE cells[n]
<1>1. a \in Cell /\ b \in Nat /\ cells[a] \in Command /\ cells' = [cells EXCEPT ![a] = PipedTo(cells[a], b)]
  BY CellIsNat DEF Piping, Typed
<1>2. PICK r : r = PipedTo(cells[a], b)
  OBVIOUS
<1>3. /\ r \in Command /\ r.argv = cells[a].argv /\ r.redirects = cells[a].redirects
      /\ r.background = cells[a].background
  <2>1. PICK c : c = cells[a]
    OBVIOUS
  <2>2. c \in Command /\ b \in Nat /\ r = PipedTo(c, b)
    BY <1>1, <1>2, <2>1
  <2>3. /\ r \in Command /\ r.argv = c.argv /\ r.redirects = c.redirects
        /\ r.background = c.background
    BY <2>2 DEF PipedTo, Command
  <2> QED BY <2>1, <2>3
<1>4. /\ ContentKept /\ Cell' = Cell /\ Len(cells') = Len(cells)
      /\ \A n \in Cell : cells'[n] = IF n = a THEN r ELSE cells[n]
      /\ MarksKept
  BY <1>1, <1>2, <1>3, RecordReplaced, MarksReplaced
<1> QED BY <1>2, <1>4

LEMMA AndOrContent ==
  ASSUME Cells, Typed, NEW G, NEW m, NEW f, NEW a, NEW b, Joining(G, m, f, a, b)
  PROVE  /\ ContentKept /\ MarksKept /\ Cell' = Cell /\ Len(cells') = Len(cells)
         /\ \A n \in Cell : cells'[n] = IF n = a THEN FollowedBy(cells[n], Rule, b) ELSE cells[n]
<1>1. a \in Cell /\ b \in Nat /\ cells[a] \in Command /\ cells' = [cells EXCEPT ![a] = FollowedBy(cells[a], Rule, b)]
  BY CellIsNat DEF Joining, Typed
<1>2. PICK r, rule : rule = Rule /\ r = FollowedBy(cells[a], rule, b)
  OBVIOUS
<1>3. /\ r \in Command /\ r.argv = cells[a].argv /\ r.redirects = cells[a].redirects
      /\ r.background = cells[a].background
  BY <1>1, <1>2, FollowedIs
<1>4. /\ ContentKept /\ Cell' = Cell /\ Len(cells') = Len(cells)
      /\ \A n \in Cell : cells'[n] = IF n = a THEN r ELSE cells[n]
      /\ MarksKept
  BY <1>1, <1>2, <1>3, RecordReplaced, MarksReplaced
<1> QED BY <1>2, <1>4

LEMMA SequenceContent ==
  ASSUME Cells, Typed, NEW G, NEW f, NEW t, Sequencing(G, f, t)
  PROVE  /\ ContentKept /\ MarksKept /\ Cell' = Cell /\ Len(cells') = Len(cells)
         /\ command_list = NoList => cells' = cells
         /\ command_list # NoList =>
              \A n \in Cell : cells'[n] = IF n = command_list.tail THEN AppendedBy(cells[n], f) ELSE cells[n]
<1>1. CASE command_list = NoList
  BY <1>1, SameContent DEF Sequencing
<1>2. CASE command_list # NoList
  <2>1. PICK a : a = command_list.tail
    OBVIOUS
  <2>2. a \in Cell /\ f \in Nat /\ cells[a] \in Command /\ cells' = [cells EXCEPT ![a] = AppendedBy(cells[a], f)]
    BY <1>2, <2>1, CellIsNat DEF Sequencing, Typed
  <2>3. PICK r : r = AppendedBy(cells[a], f)
    OBVIOUS
  <2>4. /\ r \in Command /\ r.argv = cells[a].argv /\ r.redirects = cells[a].redirects
        /\ r.background = cells[a].background
    BY <2>2, <2>3, AppendedIs
  <2>5. /\ ContentKept /\ Cell' = Cell /\ Len(cells') = Len(cells)
        /\ \A n \in Cell : cells'[n] = IF n = a THEN r ELSE cells[n]
        /\ MarksKept
    BY <2>2, <2>3, <2>4, RecordReplaced, MarksReplaced
  <2> QED BY <1>2, <2>1, <2>3, <2>5
<1> QED BY <1>1, <1>2

LEMMA BackgroundContent ==
  ASSUME Cells, Typed, NEW G, NEW a, NEW v, Marking(G, a, v)
  PROVE  /\ ContentKept /\ Cell' = Cell /\ Len(cells') = Len(cells)
         /\ \A n \in Cell : cells'[n] = IF n = a THEN MarkedOne(cells[n]) ELSE cells[n]
<1>1. a \in Cell /\ cells[a] \in Command /\ cells' = [cells EXCEPT ![a] = MarkedOne(cells[a])]
  BY DEF Marking, Typed
<1>2. PICK r : r = MarkedOne(cells[a])
  OBVIOUS
<1>3. r \in Command /\ r.argv = cells[a].argv /\ r.redirects = cells[a].redirects
  BY <1>1, <1>2, MarkedIs
<1>4. /\ ContentKept /\ Cell' = Cell /\ Len(cells') = Len(cells)
      /\ \A n \in Cell : cells'[n] = IF n = a THEN r ELSE cells[n]
  <2>1. cells' = [cells EXCEPT ![a] = r]
    BY <1>1, <1>2
  <2> QED BY <1>1, <1>3, <2>1, RecordReplaced
<1> QED BY <1>2, <1>4

LEMMA SubcommandContent ==
  ASSUME Cells, Typed, ReduceSubcommand
  PROVE  /\ ContentKept /\ MarksKept /\ Len(cells') = Len(cells) + 1 /\ Len(cells) \in Nat
         /\ \A n \in Cell : cells'[n] = cells[n]
<1>1. PICK r : r = [NewCommand EXCEPT !.is_subcommand = TRUE]
  OBVIOUS
<1>2. r \in Command /\ r.argv = <<>> /\ r.redirects = <<>> /\ ~ r.background
  <2>1. PICK c : c = NewCommand
    OBVIOUS
  <2>2. c \in Command /\ c.argv = <<>> /\ c.redirects = <<>> /\ ~ c.background
    BY <2>1, NewIs DEF NewCommand
  <2> QED BY <1>1, <2>1, <2>2 DEF Command
<1>3. cells' = Append(cells, r)
  BY <1>1 DEF ReduceSubcommand
<1>4. /\ Len(cells') = Len(cells) + 1 /\ Len(cells) \in Nat
      /\ Cell' = Cell \cup {Len(cells) + 1} /\ Len(cells) + 1 \notin Cell
      /\ \A n \in Cell : cells'[n] = cells[n]
      /\ cells'[Len(cells) + 1] = r
  BY <1>3, CellAppended
<1>5. Typed'
  BY <1>2, <1>4 DEF Typed
<1>6. ContentKept /\ MarksKept
  BY <1>2, <1>4, <1>5 DEF ContentKept, MarksKept
<1> QED BY <1>4, <1>6

\* The command c that is collected is r after the step, and was o before.
Grown(c, r, o) ==
  /\ c = current_command' /\ c # NULL /\ c \in Cell' /\ cells'[c] = r /\ More(r, o)
  /\ Cell \subseteq Cell' /\ Typed'
  /\ \A n \in Cell' : n # c => n \in Cell /\ cells'[n] = cells[n]
  /\ \/ current_command = NULL /\ o = NewCommand /\ c \notin Cell /\ c = Len(cells) + 1 /\ Len(cells') = Len(cells) + 1
     \/ current_command # NULL /\ c = current_command /\ c \in Cell /\ o = cells[c] /\ Len(cells') = Len(cells)

LEMMA AddsContent ==
  ASSUME Cells, Typed, NEW new, NEW old, NEW v, Adds(new, old, v)
  PROVE  \E c, r, o : Grown(c, r, o)
<1>1. CASE current_command = NULL
  <2>1. cells' = Append(cells, new) /\ current_command' = Len(cells) + 1 /\ More(new, NewCommand)
    BY <1>1 DEF Adds, Extending
  <2>2. PICK c : c = Len(cells) + 1
    OBVIOUS
  <2>3. /\ Len(cells') = Len(cells) + 1 /\ Len(cells) \in Nat
        /\ Cell' = Cell \cup {Len(cells) + 1} /\ Len(cells) + 1 \notin Cell
        /\ \A n \in Cell : cells'[n] = cells[n]
        /\ cells'[Len(cells) + 1] = new
    BY <2>1, CellAppended
  <2>4. c # NULL
    BY <2>2, <2>3 DEF NULL
  <2>5. new \in Command
    BY <2>1 DEF More
  <2>6. Typed'
    BY <2>3, <2>5 DEF Typed
  <2>7. \A n \in Cell' : n # c => n \in Cell /\ cells'[n] = cells[n]
    BY <2>2, <2>3
  <2>8. Grown(c, new, NewCommand)
    BY <1>1, <2>1, <2>2, <2>3, <2>4, <2>6, <2>7 DEF Grown
  <2> QED BY <2>8
<1>2. CASE current_command # NULL
  <2>1. PICK c : c = current_command
    OBVIOUS
  <2>2. c \in Cell
    BY <1>2, <2>1, CellsAre DEF Cells, NULL
  <2>3. cells' = [cells EXCEPT ![c] = old] /\ current_command' = c /\ More(old, cells[c])
    BY <1>2, <2>1, <2>2 DEF Adds, Extending
  <2>4. /\ Len(cells') = Len(cells) /\ Cell' = Cell
        /\ \A n \in Cell : cells'[n] = IF n = c THEN old ELSE cells[n]
    BY <2>2, <2>3, CellReplaced
  <2>5. old \in Command
    BY <2>3 DEF More
  <2>6. Typed'
    BY <2>4, <2>5 DEF Typed
  <2>7. Grown(c, old, cells[c])
    BY <1>2, <2>1, <2>2, <2>3, <2>4, <2>6 DEF Grown
  <2> QED BY <2>7
<1> QED BY <1>1, <1>2

-----------------------------------------------------------------------------
(* The list and the "&".                                                       *)

LEMMA NoRule7 ==
  ASSUME Stacked, Tokens, Rule # 0
  PROVE  Rule # 7
<1> SUFFICES ASSUME Rule = 7 PROVE FALSE
  OBVIOUS
<1>1. /\ Rule = DefaultRule(yystate)
      /\ pc = "parse" /\ yystate = stack[Len(stack)].state
      /\ Len(stack) \in Nat /\ Len(stack) >= 1 /\ yystate \in State
  BY RuleIs
<1>2. PICK n : n = Len(stack)
  OBVIOUS
<1>3. stack[n].state = 52 /\ n \in 1..Len(stack)
  BY <1>1, <1>2, Reducing
<1>4. n # 1
  BY <1>3 DEF Stacked
<1>5. n > 1 /\ n - 1 \in 1..Len(stack)
  BY <1>1, <1>2, <1>4
<1>6. Edge(stack[n - 1].state, 52) /\ stack[n - 1].state \in State
  BY <1>3, <1>5 DEF Stacked
<1>7. \A s \in State : Edge(s, 52) => s = 35
  BY DEF State, Edge, Beginning, Within, Redirecting
<1>8. stack[n - 1].state = 35
  BY <1>6, <1>7
<1> QED BY <1>1, <1>5, <1>8 DEF Tokens

LEMMA NotBackgroundLine ==
  ASSUME Books, Stacked, Tokens, pc = "parse"
  PROVE  OneLine => \A n \in 1..Len(stack) : stack[n].state # 36
BY DEF Tokens, OneLine

LEMMA ListsReduced ==
  ASSUME Books, Stacked, Tokens, Lists, Rule # 0, Rule \notin {6, 8}, NEW v, Reduce(v), DuringParse,
         command_list' = command_list,
         command_list # NoList => (Marked' <=> Marked)
  PROVE  Lists'
<1>1. /\ Rule \in 2..40 /\ Rule = DefaultRule(yystate)
      /\ pc = "parse" /\ yystate = stack[Len(stack)].state
      /\ Len(stack) \in Nat /\ Len(stack) >= 1 /\ yystate \in State
  BY RuleIs
<1>2. PICK m \in 1..Len(stack) :
           /\ yystate' = GotoTable(stack[m].state, Rule)
           /\ stack[m].state \in State
  BY NewTop
<1>3. PICK g, r, s : g = yystate' /\ r = Rule /\ s = stack[m].state
  OBVIOUS
<1>4. /\ g \in {1, 14, 15} \cup Collecting \cup CommandStates \cup ListStates
      /\ r \in 2..3 => g = 1
      /\ r \in 4..5 => g = 14
  BY <1>1, <1>2, <1>3, GotoNew
<1>5. r \in 9..40 => g \notin {0, 1, 2, 14, 15, 34, 36}
  <2>1. r \in 9..40 => g \in Collecting \cup CommandStates \cup ListStates
    <3>1. \A x \in State : /\ r \in 9..11 => GotoTable(x, r) \in ListStates
                           /\ r \in 12..19 => GotoTable(x, r) \in CommandStates
                           /\ r \in 20..40 => GotoTable(x, r) \in Collecting
      BY <1>1, <1>3, TargetOf
    <3>2. r \in 9..40 => r \in 9..11 \/ r \in 12..19 \/ r \in 20..40
      BY <1>1, <1>3
    <3> QED BY <1>2, <1>3, <3>1, <3>2
  <2> QED BY <2>1, Distinct, Apart
<1>6. r # 7
  BY <1>3, NoRule7
<1>7. r \in 2..5 \/ r \in 9..40
  <2>1. r \in 2..40 /\ r # 6 /\ r # 7 /\ r # 8
    BY <1>1, <1>3, <1>6
  <2> QED BY ONLY <2>1
<1>8. /\ r = 2 => yystate = 0
      /\ r = 3 => yystate = 14
      /\ r = 4 => yystate = 36
      /\ r = 5 => yystate = 15
  BY <1>1, <1>3, RuleOf, Reducing
<1>9. UNCHANGED <<text, pc>> /\ Taken' = Taken /\ OneLine' = OneLine
  BY TakenKept DEF DuringParse
<1>10. g # 0
  BY <1>4, Distinct, Apart
<1>11. g \in {14, 15, 34, 36} => command_list # NoList
  <2>1. g \in {14, 15, 34, 36} => r \in 4..5
    <3>1. r \in 2..5 => r \in 2..3 \/ r \in 4..5
      BY ONLY TRUE
    <3>2. r \in 2..3 => g = 1
      BY <1>4
    <3>3. r \in 2..3 => g \notin {14, 15, 34, 36}
      BY ONLY <3>2
    <3> QED BY ONLY <1>5, <1>7, <3>1, <3>3
  <2>2. r \in 4..5 => yystate \in {36, 15}
    <3>1. r \in 4..5 => r = 4 \/ r = 5
      BY ONLY TRUE
    <3> QED BY <1>8, <3>1
  <2> QED BY <1>1, <2>1, <2>2 DEF Lists
<1>12. g \in Between /\ command_list # NoList /\ OneLine =>
         Taken >= 1 /\ (Marked <=> text[Taken] = AMPERSAND)
  <2>1. OneLine => yystate # 36
    BY <1>1, NotBackgroundLine
  <2>2. g \in Between => r \in 2..5
    BY <1>5, <1>7 DEF Between
  <2> QED BY <1>1, <1>7, <1>8, <2>1, <2>2 DEF Lists, Between
<1> QED BY <1>3, <1>9, <1>10, <1>11, <1>12 DEF Lists

LEMMA ListsSequenced ==
  ASSUME IInv, Typed, Tokens, Lists, Marks, NEW G, NEW f, NEW t, Sequencing(G, f, t)
  PROVE  Lists'
<1>1. Books /\ Stacked /\ Cells
  BY DEF IInv
<1>2. /\ f \in Cell /\ t \in Cell /\ Reaching(G) /\ Rule = 6 /\ Rule # 0 /\ pc = "parse"
      /\ Reduce([head |-> f, tail |-> t]) /\ Len(stack) = 3 /\ yystate = 16 /\ At(yyr2, Rule) = 1
      /\ stack[2].state = 1 /\ IsRoot(3) /\ f = First(3) /\ t = Youngest(3) /\ DuringParse
      /\ command_list = NoList => command_list' = [head |-> f, tail |-> t]
      /\ command_list # NoList => command_list.head \in Cell /\ command_list' = [head |-> command_list.head, tail |-> t]
  BY DEF Sequencing
<1>3. /\ Cell \subseteq Nat /\ 0 \notin Cell
  BY <1>1, CellIsNat
<1>4. yystate' = 15
  <2>1. PICK m \in 1..Len(stack) : /\ m = Len(stack) - At(yyr2, Rule) /\ yystate' = GotoTable(stack[m].state, Rule)
                                   /\ stack[m].state \in State
    BY <1>1, <1>2, NewTop
  <2>2. m = 2
    BY <1>2, <2>1
  <2>3. GotoTable(1, 6) = 15
    BY DEF GotoTable
  <2> QED BY <1>2, <2>1, <2>2, <2>3
<1>5. command_list'.tail = t /\ command_list' # NoList
  BY <1>2, <1>3 DEF NoList, NULL
<1>6. ~ Marked'
  <2>1. cells'[t].background = cells[t].background
    BY <1>1, <1>2, SequenceContent DEF MarksKept
  <2>2. f <= t
    BY <1>2 DEF Reaching, RootsIn, RootIn
  <2>3. cells[t].background => t < f
    BY <1>2 DEF Marks
  <2>4. ~ cells[t].background
    BY <1>2, <1>3, <2>2, <2>3
  <2> QED BY <1>5, <2>1, <2>4 DEF Marked
<1>7. Taken >= 1 /\ text[Taken] # AMPERSAND
  BY <1>2 DEF Tokens, Between
<1>8. text' = text /\ Taken' = Taken /\ pc' = pc
  BY <1>2, TakenKept DEF DuringParse
<1> QED BY <1>4, <1>5, <1>6, <1>7, <1>8 DEF Lists

LEMMA ListsMarked ==
  ASSUME IInv, Typed, Tokens, Lists, NEW G, NEW a, NEW v, Marking(G, a, v)
  PROVE  Lists'
<1>1. Books /\ Stacked /\ Cells
  BY DEF IInv
<1>2. /\ Rule = 8 /\ Rule # 0 /\ pc = "parse" /\ yystate = 34 /\ Reduce(v)
      /\ command_list # NoList /\ a = command_list.tail /\ a \in Cell
      /\ command_list' = command_list /\ DuringParse
  BY DEF Marking
<1>3. yystate' = 15
  <2>1. PICK m \in 1..Len(stack) : yystate' = GotoTable(stack[m].state, Rule) /\ stack[m].state \in State
    BY <1>1, <1>2, NewTop
  <2>2. \A s \in State : GotoTable(s, 8) = 15
    BY DEF GotoTable
  <2> QED BY <1>2, <2>1, <2>2
<1>4. Marked'
  <2>1. cells'[a] = MarkedOne(cells[a]) /\ cells[a] \in Command
    BY <1>1, <1>2, BackgroundContent DEF Typed
  <2>2. cells'[a].background = TRUE
    BY <2>1, MarkedIs
  <2> QED BY <1>2, <2>2 DEF Marked
<1>5. Taken >= 1 /\ text[Taken] = AMPERSAND
  BY <1>2 DEF Tokens
<1>6. text' = text /\ Taken' = Taken /\ pc' = pc
  BY <1>2, TakenKept DEF DuringParse
<1> QED BY <1>2, <1>3, <1>4, <1>5, <1>6 DEF Lists

LEMMA ListsLexed ==
  ASSUME Books, Books', Stacked, Lists, Lex
  PROVE  Lists'
<1>1. /\ Taken' = Taken /\ Taken \in Nat /\ pc = "parse"
      /\ UNCHANGED <<heap, freed, stack, pc, cmd, result, history>>
      /\ \A n \in 1..Taken : text'[n] = text[n]
  BY LexIs
<1>2. OneLine' => OneLine
  BY LexFlat
<1>3. /\ yystate' = yystate /\ command_list' = command_list /\ pc' = pc /\ Marked' = Marked
  BY <1>1 DEF yystate, heap, Marked
<1>4. Taken >= 1 => text'[Taken'] = text[Taken]
  BY <1>1
<1>5. yystate \in Between /\ command_list # NoList /\ OneLine' =>
        Taken' >= 1 /\ (Marked' <=> text'[Taken'] = AMPERSAND)
  BY <1>1, <1>2, <1>3, <1>4 DEF Lists
<1> QED BY <1>1, <1>3, <1>5 DEF Lists

LEMMA ListsShifted ==
  ASSUME Books, Stacked, Tokens, Lists, Shift
  PROVE  Lists'
<1>1. /\ pc = "parse" /\ UNCHANGED <<heap, freed, pc, cmd, result, text, history>>
      /\ yystate' = ShiftTo(yystate, yychar)
      /\ yystate \in State /\ yychar \in 0..YYNTOKENS - 1 /\ Shifts(yystate, yychar)
      /\ yychar = EOF => Taken' = Taken
      /\ OneLine' = OneLine
  BY ShiftIs
<1>2. PICK s, t, u : s = yystate /\ t = yychar /\ u = yystate'
  OBVIOUS
<1>3. /\ u = 2 <=> t = EOF
      /\ u = 2 => s = 1
      /\ u \in {34, 35, 36} => s = 15
      /\ u \in 2..13 \cup 23..51
  BY <1>1, <1>2, ShiftTokens
<1>4. u \notin {0, 1, 14, 15}
  BY <1>3
<1>5. command_list' = command_list /\ text' = text /\ pc' = pc /\ Marked' = Marked
  BY <1>1 DEF heap, Marked
<1>6. u \in {14, 15, 34, 36} => command_list # NoList
  BY <1>1, <1>2, <1>3, <1>4 DEF Lists
<1>7. u \in Between => u = 2
  BY <1>4 DEF Between
<1>8. u \in Between /\ command_list # NoList /\ OneLine =>
         Taken' >= 1 /\ (Marked <=> text[Taken'] = AMPERSAND)
  BY <1>1, <1>2, <1>3, <1>7 DEF Lists, Between
<1> QED BY <1>1, <1>2, <1>4, <1>5, <1>6, <1>8 DEF Lists

LEMMA ListsAtStart ==
  ASSUME stack' = Start, command_list' = NoList
  PROVE  Lists'
<1>1. yystate' = 0
  BY StartIs
<1> QED BY <1>1 DEF Lists

-----------------------------------------------------------------------------
(* The roots on the stack after a reduction.                                   *)

\* A root on the new stack was one before, or is the command that was made.
RootsStay(v) ==
  \A n \in 1..Len(stack') : IsRoot(n)' =>
    \/ n \in 1..Len(stack) /\ IsRoot(n) /\ First(n)' = First(n)
    \/ Rule \in 15..19 /\ First(n)' = v

LEMMA RootsBelow ==
  ASSUME Stacked, Rule # 0, NEW v, Reduce(v), NEW m, m = Len(stack) - At(yyr2, Rule),
         IsRoot(m + 1)' =>
           \/ m + 1 \in 1..Len(stack) /\ IsRoot(m + 1) /\ First(m + 1)' = First(m + 1)
           \/ Rule \in 15..19 /\ First(m + 1)' = v
  PROVE  RootsStay(v)
<1>1. /\ m \in Nat /\ m \in 1..Len(stack) /\ Len(stack') = m + 1 /\ Len(stack) \in Nat
      /\ \A n \in 1..m : stack'[n] = stack[n]
  BY NewTop, TopIs
<1>2. ASSUME NEW n \in 1..m PROVE IsRoot(n)' => n \in 1..Len(stack) /\ IsRoot(n) /\ First(n)' = First(n)
  BY <1>1 DEF IsRoot, First
<1>3. \A n \in 1..m + 1 : n \in 1..m \/ n = m + 1
  BY <1>1
<1> QED BY <1>1, <1>2, <1>3 DEF RootsStay

LEMMA RootsStayNone ==
  ASSUME Stacked, Rule # 0, Rule \notin 9..19, NEW v, Reduce(v)
  PROVE  RootsStay(v)
<1>1. PICK m \in 1..Len(stack) :
        /\ m = Len(stack) - At(yyr2, Rule) /\ stack'[m + 1].state = yystate'
  BY NewTop
<1>2. Rule \in 2..40
  BY RuleIs
<1>3. yystate' \notin CommandStates \cup ListStates
  <2>1. Rule \in 2..8 \/ Rule \in 20..40
    BY <1>2
  <2> QED BY <2>1, TopAfter, Apart
<1>4. ~ IsRoot(m + 1)'
  BY <1>1, <1>3 DEF IsRoot
<1> QED BY <1>1, <1>4, RootsBelow

LEMMA RootsStaySame ==
  ASSUME Stacked, Rule \in {9, 12, 14}, NEW v, Reduce(v),
         Rule # 9 => v = yyvsp(1), Rule = 9 => v = [head |-> yyvsp(1), tail |-> yyvsp(1)]
  PROVE  RootsStay(v)
<1>1. Rule # 0 /\ At(yyr2, Rule) = 1 /\ Rule \in 2..40
  BY Lengths9to19
<1>2. PICK m \in 1..Len(stack) :
        /\ m = Len(stack) - At(yyr2, Rule) /\ m \in Nat /\ stack[m].state \in State
        /\ yystate' = GotoTable(stack[m].state, Rule)
        /\ stack'[m + 1].state = yystate' /\ stack'[m + 1].value = v
  BY <1>1, NewTop
<1>3. yyvsp(1) = stack[m + 1].value
  BY <1>1, <1>2, ValueOf
<1>4. Len(stack) = m + 1 /\ m + 1 \in 1..Len(stack)
  BY <1>1, <1>2
<1>5. stack[m + 1].state \in {17, 18, 19}
  <2>1. /\ Rule = DefaultRule(yystate) /\ yystate = stack[Len(stack)].state /\ yystate \in State
    BY <1>1, RuleIs
  <2> QED BY <1>4, <2>1, RuleOf
<1>6. IsRoot(m + 1) /\ First(m + 1) = yyvsp(1)
  BY <1>3, <1>5 DEF IsRoot, First, CommandStates, ListStates
<1>7. PICK g : g = yystate'
  OBVIOUS
<1>8. (Rule = 9 => g \in ListStates) /\ (Rule # 9 => g \in CommandStates)
  <2>1. \A s \in State : GotoTable(s, 9) \in ListStates /\ GotoTable(s, 12) \in CommandStates
                         /\ GotoTable(s, 14) \in CommandStates
    BY TargetOf
  <2> QED BY <1>2, <1>7, <2>1
<1>9. First(m + 1)' = yyvsp(1)
  <2>1. CASE Rule = 9
    BY <1>2, <1>7, <1>8, <2>1 DEF First
  <2>2. CASE Rule # 9
    <3>1. g \notin ListStates
      BY <1>8, <2>2, Apart
    <3> QED BY <1>2, <1>7, <2>2, <3>1 DEF First
  <2> QED BY <2>1, <2>2
<1> QED BY <1>1, <1>2, <1>4, <1>6, <1>9, RootsBelow

LEMMA RootsStayPiped ==
  ASSUME IInv, NEW G, NEW m, NEW f, NEW a, NEW b, Piping(G, m, f, a, b)
  PROVE  RootsStay(f)
<1>1. Stacked /\ Rule # 0 /\ Rule = 13 /\ Reduce(f) /\ m = Len(stack) - At(yyr2, Rule) /\ m \in Nat
      /\ Len(stack) = m + 3 /\ IsRoot(m + 1) /\ f = First(m + 1)
  <2>1. Rule = 13 /\ Reduce(f) /\ m = Len(stack) - At(yyr2, Rule) /\ m \in Nat
        /\ Len(stack) = m + 3 /\ IsRoot(m + 1) /\ f = First(m + 1)
    BY DEF Piping
  <2>2. Rule # 0
    BY <2>1
  <2>3. Stacked
    BY DEF IInv
  <2> QED BY <2>1, <2>2, <2>3
<1>2. yystate' \in Collected
  BY <1>1, TopAfter
<1>3. stack'[m + 1].state \in CommandStates /\ stack'[m + 1].value = f
  <2>1. PICK k \in 1..Len(stack) :
          /\ k = Len(stack) - At(yyr2, Rule) /\ stack[k].state \in State
          /\ yystate' = GotoTable(stack[k].state, Rule)
          /\ stack'[k + 1].state = yystate' /\ stack'[k + 1].value = f
    BY <1>1, NewTop
  <2>2. \A s \in State : GotoTable(s, 13) \in CommandStates
    BY TargetOf
  <2> QED BY <1>1, <2>1, <2>2
<1>4. First(m + 1)' = f
  BY <1>3, Apart DEF First
<1>5. m + 1 \in 1..Len(stack)
  BY <1>1
<1> QED BY <1>1, <1>4, <1>5, RootsBelow

LEMMA RootsStayJoined ==
  ASSUME IInv, NEW G, NEW m, NEW f, NEW a, NEW b, Joining(G, m, f, a, b)
  PROVE  RootsStay([head |-> f, tail |-> b])
<1>1. PICK v : v = [head |-> f, tail |-> b]
  OBVIOUS
<1>2. Stacked /\ Rule # 0 /\ Rule \in {10, 11} /\ Reduce(v) /\ m = Len(stack) - At(yyr2, Rule) /\ m \in Nat
      /\ Len(stack) = m + 3 /\ IsRoot(m + 1) /\ f = First(m + 1)
  <2>1. Rule \in {10, 11} /\ Reduce(v) /\ m = Len(stack) - At(yyr2, Rule) /\ m \in Nat
        /\ Len(stack) = m + 3 /\ IsRoot(m + 1) /\ f = First(m + 1)
    BY <1>1 DEF Joining
  <2>2. Rule # 0
    BY <2>1
  <2>3. Stacked
    BY DEF IInv
  <2> QED BY <2>1, <2>2, <2>3
<1>3. stack'[m + 1].state \in ListStates /\ stack'[m + 1].value = v
  <2>1. PICK k \in 1..Len(stack) :
          /\ k = Len(stack) - At(yyr2, Rule) /\ stack[k].state \in State
          /\ yystate' = GotoTable(stack[k].state, Rule)
          /\ stack'[k + 1].state = yystate' /\ stack'[k + 1].value = v
    BY <1>2, NewTop
  <2>2. \A s \in State : GotoTable(s, 10) \in ListStates /\ GotoTable(s, 11) \in ListStates
    BY TargetOf
  <2> QED BY <1>2, <2>1, <2>2
<1>4. First(m + 1)' = f
  BY <1>1, <1>3 DEF First
<1>5. m + 1 \in 1..Len(stack)
  BY <1>2
<1> QED BY <1>1, <1>2, <1>4, <1>5, RootsBelow

LEMMA RootsStayMade ==
  ASSUME Stacked, Rule \in 15..19, NEW v, Reduce(v)
  PROVE  RootsStay(v)
<1>1. Rule # 0
  OBVIOUS
<1>2. PICK m \in 1..Len(stack) :
        /\ m = Len(stack) - At(yyr2, Rule) /\ stack[m].state \in State
        /\ yystate' = GotoTable(stack[m].state, Rule)
        /\ stack'[m + 1].state = yystate' /\ stack'[m + 1].value = v
  BY <1>1, NewTop
<1>3. stack'[m + 1].state \in CommandStates
  <2>1. \A s \in State, r \in 15..19 : GotoTable(s, r) \in CommandStates
    BY TargetOf
  <2> QED BY <1>2, <2>1
<1>4. First(m + 1)' = v
  BY <1>2, <1>3, Apart DEF First
<1> QED BY <1>1, <1>2, <1>4, RootsBelow

-----------------------------------------------------------------------------
(* The marks, and what a refused line leaves behind.                           *)

\* A reduction that makes no command behind a marked one.
LEMMA MarksReduced ==
  ASSUME Cells, Marks, MarksKept, pc = "parse", Rule # 0, NEW v, RootsStay(v),
         current_command' \in Cell /\ current_command' # current_command =>
            ~ cells[current_command'].background,
         Rule \in 15..19 => \A c \in Cell : cells[c].background => c < v
  PROVE  Marks'
<1>1. ASSUME NEW c \in Cell', cells'[c].background PROVE c \in Cell /\ cells[c].background
  BY <1>1 DEF MarksKept
<1>2. ASSUME NEW c \in Cell, cells[c].background, NEW n \in 1..Len(stack'), IsRoot(n)'
      PROVE  c < First(n)'
  <2>1. CASE n \in 1..Len(stack) /\ IsRoot(n) /\ First(n)' = First(n)
    <3>1. c < First(n)
      BY <1>2, <2>1 DEF Marks
    <3> QED BY <2>1, <3>1
  <2>2. CASE Rule \in 15..19 /\ First(n)' = v
    BY <1>2, <2>2
  <2> QED BY <1>2, <2>1, <2>2 DEF RootsStay
<1>3. ASSUME NEW c \in Cell, cells[c].background PROVE c # current_command'
  BY <1>3 DEF Marks
<1> QED BY <1>1, <1>2, <1>3 DEF Marks

LEMMA MarksGrown ==
  ASSUME IInv, Marks, NEW new, NEW old, NEW v, Adds(new, old, v), NEW c, NEW r, NEW o, Grown(c, r, o)
  PROVE  Marks'
<1>1. Stacked /\ Rule # 0 /\ Rule \notin 9..19 /\ Reduce(v) /\ pc = "parse"
  BY DEF IInv, Adds
<1>2. RootsStay(v)
  BY <1>1, RootsStayNone
<1>3. ~ cells'[c].background
  <2>1. r.background = o.background /\ cells'[c] = r
    BY DEF Grown, More
  <2>2. o = NewCommand \/ (c = current_command /\ o = cells[c] /\ c \in Cell)
    BY DEF Grown
  <2>3. ~ o.background
    BY <2>2 DEF NewCommand, Marks
  <2> QED BY <2>1, <2>3
<1>4. ASSUME NEW d \in Cell', cells'[d].background
      PROVE  d # current_command' /\ d \in Cell /\ cells[d].background
  BY <1>3, <1>4 DEF Grown
<1>5. ASSUME NEW d \in Cell, cells[d].background, NEW n \in 1..Len(stack'), IsRoot(n)'
      PROVE  d < First(n)'
  <2>1. n \in 1..Len(stack) /\ IsRoot(n) /\ First(n)' = First(n)
    BY <1>1, <1>2, <1>5 DEF RootsStay
  <2>2. d < First(n)
    BY <1>1, <1>5, <2>1 DEF Marks
  <2> QED BY <2>1, <2>2
<1> QED BY <1>4, <1>5 DEF Marks

LEMMA MarksMarked ==
  ASSUME IInv, Typed, Marks, NEW G, NEW a, NEW v, Marking(G, a, v)
  PROVE  Marks'
<1>1. /\ Stacked /\ Cells /\ Rule # 0 /\ Rule \notin 9..19 /\ Reduce(v) /\ pc = "parse" /\ Reaching(G)
      /\ command_list # NoList /\ a = command_list.tail /\ a \in G /\ a \in Cell
      /\ current_command' = current_command
  BY DEF IInv, Marking
<1>2. RootsStay(v)
  BY <1>1, RootsStayNone
<1>3. Cell' = Cell /\ \A n \in Cell : cells'[n] = IF n = a THEN MarkedOne(cells[n]) ELSE cells[n]
  BY <1>1, BackgroundContent
<1>4. a # current_command
  <2>1. current_command # NULL => current_command \notin G
    BY <1>1 DEF Reaching, Heap
  <2>2. a # NULL
    BY <1>1, CellIsNat DEF NULL
  <2> QED BY <1>1, <2>1, <2>2
<1>5. \A n \in 1..Len(stack) : IsRoot(n) => a < First(n)
  BY <1>1 DEF Reaching, RootsIn, RootIn
<1>6. ASSUME NEW d \in Cell', cells'[d].background PROVE d = a \/ (d \in Cell /\ cells[d].background)
  BY <1>3, <1>6
<1>7. ASSUME NEW d \in Cell', cells'[d].background
      PROVE  d # current_command' /\ \A n \in 1..Len(stack) : IsRoot(n) => d < First(n)
  BY <1>1, <1>4, <1>5, <1>6, <1>7 DEF Marks
<1>8. ASSUME NEW d \in Cell', cells'[d].background, NEW n \in 1..Len(stack'), IsRoot(n)'
      PROVE  d < First(n)'
  <2>1. n \in 1..Len(stack) /\ IsRoot(n) /\ First(n)' = First(n)
    BY <1>1, <1>2, <1>8 DEF RootsStay
  <2>2. d < First(n)
    BY <1>7, <1>8, <2>1
  <2> QED BY <2>1, <2>2
<1> QED BY <1>7, <1>8 DEF Marks

\* Every other step: the stack keeps its roots or the segment is over.
LEMMA MarksStay ==
  ASSUME Marks, current_command' = current_command, Len(cells') = Len(cells),
         \A c \in Cell : cells'[c].background => cells[c].background,
         pc' = "parse" => \A n \in 1..Len(stack') : IsRoot(n)' =>
           pc = "parse" /\ n \in 1..Len(stack) /\ IsRoot(n) /\ First(n)' = First(n)
  PROVE  Marks'
<1>1. Cell' = Cell
  BY DEF Cell
<1>2. ASSUME NEW c \in Cell, cells'[c].background
      PROVE  c # current_command' /\ cells[c].background
  BY <1>2 DEF Marks
<1>3. ASSUME NEW c \in Cell, cells'[c].background, pc' = "parse", NEW n \in 1..Len(stack'), IsRoot(n)'
      PROVE  c < First(n)'
  <2>1. pc = "parse" /\ n \in 1..Len(stack) /\ IsRoot(n) /\ First(n)' = First(n)
    BY <1>3
  <2>2. c < First(n)
    BY <1>2, <1>3, <2>1 DEF Marks
  <2> QED BY <2>1, <2>2
<1> QED BY <1>1, <1>2, <1>3 DEF Marks

-----------------------------------------------------------------------------
(* What a refused line leaves behind.                                          *)

\* The states above which no command is being collected.
LEMMA NoneCollected ==
  ASSUME Stacked, yystate \in {0, 1, 2, 14, 15, 34, 36}
  PROVE  ~ InCommand
<1>1. /\ yystate = stack[Len(stack)].state /\ Len(stack) \in Nat /\ Len(stack) >= 1 /\ stack[1].state = 0
      /\ \A n \in 1..Len(stack) : stack[n].state \in State
      /\ \A n \in 1..Len(stack) : n > 1 => Edge(stack[n - 1].state, stack[n].state)
  BY TopIs DEF Stacked
<1>2. \A s, t \in State : Edge(s, t) =>
        /\ t # 0 /\ (t = 1 => s = 0) /\ (t \in {2, 14, 15} => s = 1) /\ (t \in {34, 36} => s = 15)
  BY SMTT(60) DEF State, Edge, Beginning, Within, Redirecting
<1>3. ASSUME NEW n \in 1..Len(stack)
      PROVE  /\ stack[n].state = 0 => n = 1
             /\ stack[n].state = 1 => n = 2
             /\ stack[n].state \in {2, 14, 15} => n = 3 /\ stack[2].state = 1
             /\ stack[n].state \in {34, 36} => n = 4 /\ stack[3].state = 15 /\ stack[2].state = 1
  <2>1. \A k \in 1..Len(stack) : k > 1 => k - 1 \in 1..Len(stack) /\ Edge(stack[k - 1].state, stack[k].state)
                                          /\ stack[k - 1].state \in State /\ stack[k].state \in State
    BY <1>1
  <2>2. \A k \in 1..Len(stack) : stack[k].state = 0 => k = 1
    BY <1>1, <1>2, <2>1
  <2>3. \A k \in 1..Len(stack) : stack[k].state = 1 => k = 2
    <3> TAKE k \in 1..Len(stack)
    <3>1. stack[k].state = 1 => k > 1 /\ stack[k - 1].state = 0
      BY <1>1, <1>2, <2>1
    <3> QED BY <1>1, <2>1, <2>2, <3>1
  <2>4. \A k \in 1..Len(stack) : stack[k].state \in {2, 14, 15} => k = 3 /\ stack[2].state = 1
    <3> TAKE k \in 1..Len(stack)
    <3>1. stack[k].state \in {2, 14, 15} => k > 1 /\ stack[k - 1].state = 1
      BY <1>1, <1>2, <2>1
    <3>2. stack[k].state \in {2, 14, 15} => k - 1 = 2
      BY <2>1, <2>3, <3>1
    <3> QED BY <1>1, <3>1, <3>2
  <2>5. stack[n].state \in {34, 36} => n > 1 /\ stack[n - 1].state = 15
    BY <1>1, <1>2, <2>1
  <2>6. stack[n].state \in {34, 36} => n - 1 = 3 /\ stack[2].state = 1
    BY <2>1, <2>4, <2>5
  <2>7. stack[n].state \in {34, 36} => n = 4 /\ stack[3].state = 15 /\ stack[2].state = 1
    BY <2>5, <2>6
  <2> QED BY <2>2, <2>3, <2>4, <2>7
<1>4. PICK n : n = Len(stack)
  OBVIOUS
<1>5. n \in 1..Len(stack) /\ stack[n].state = yystate
  BY <1>1, <1>4
<1>6. ASSUME NEW k \in 1..Len(stack) PROVE stack[k].state \in {0, 1, 2, 14, 15, 34, 36}
  <2>1. n \in {1, 2, 3, 4}
    BY <1>3, <1>5
  <2>2. k = n \/ k = 1 \/ k = 2 \/ k = 3
    <3>1. k \in 1..n
      BY <1>4
    <3> QED BY ONLY <2>1, <3>1
  <2>3. CASE k = n
    BY <1>5, <2>3
  <2>4. CASE k = 1
    BY <1>1, <2>4
  <2>5. CASE k = 2 /\ k # n
    BY <1>3, <1>4, <1>5, <2>1, <2>5
  <2>6. CASE k = 3 /\ k # n
    BY <1>3, <1>4, <1>5, <2>1, <2>6
  <2> QED BY <2>2, <2>3, <2>4, <2>5, <2>6
<1>7. {0, 1, 2, 14, 15, 34, 36} \cap Collecting = {}
  BY DEF Collecting
<1> QED BY <1>6, <1>7 DEF InCommand

\* Between commands nothing is collected once there is a list.
LEMMA NoneCurrent ==
  ASSUME Stacked, Leftover, Lists, pc = "parse", yystate \in {0, 1, 2, 14, 15, 34, 36},
         command_list # NoList
  PROVE  current_command = NULL
BY NoneCollected DEF Leftover

\* A reduction that leaves a command to be collected.
LEMMA CurrentAfter ==
  ASSUME IInv, Lists, Leftover, Rule # 0, Rule \notin 16..19, current_command' # NULL,
         current_command' = current_command
  PROVE  Rule = 2 \/ Rule \in 20..40
<1>1. Stacked /\ Collects
  BY DEF IInv
<1>2. /\ Rule \in 2..40 /\ Rule = DefaultRule(yystate) /\ pc = "parse" /\ yystate \in State
  BY <1>1, RuleIs
<1>3. Rule \notin {6} \cup 9..15
  BY <1>1, CurrentBefore
<1>4. Rule \in {3, 4, 5, 8} => yystate \in {14, 15, 34, 36}
  BY <1>2, Reducing
<1>5. Rule \notin {3, 4, 5, 8}
  <2>1. yystate \in {14, 15, 34, 36} => command_list # NoList
    BY <1>2 DEF Lists
  <2> QED BY <1>1, <1>2, <1>4, <2>1, NoneCurrent
<1>6. Rule = 7 => yystate = 52
  BY <1>2, Reducing
<1>7. Rule # 7
  <2>1. 52 \in Collected
    BY DEF Collected, ListStates
  <2> QED BY <1>1, <1>6, <2>1 DEF Collects
<1> QED BY <1>2, <1>3, <1>5, <1>7

LEMMA CollectingAfter ==
  ASSUME Stacked, Rule \in 20..40, NEW v, Reduce(v)
  PROVE  InCommand'
<1>1. Rule # 0
  OBVIOUS
<1>2. PICK m \in 1..Len(stack) : m \in Nat /\ Len(stack') = m + 1 /\ stack'[m + 1].state = yystate'
  BY <1>1, NewTop
<1>3. yystate' \in Collecting
  BY <1>1, TopAfter
<1>4. m + 1 \in 1..Len(stack')
  BY <1>2
<1> QED BY <1>2, <1>3, <1>4 DEF InCommand

LEMMA LeftoverReduced ==
  ASSUME IInv, Lists, Leftover, Rule # 0, NEW v, Reduce(v), DuringParse,
         current_command' # NULL => /\ current_command' = current_command /\ Rule \notin 16..19
                                    /\ Rule \in {2} \cup 20..40 => UNCHANGED <<cells, command_list>>
  PROVE  Leftover'
<1> SUFFICES ASSUME current_command' # NULL PROVE Leftover'
  BY DEF Leftover
<1>1. Stacked
  BY DEF IInv
<1>2. Rule = 2 \/ Rule \in 20..40
  BY CurrentAfter
<1>3. UNCHANGED <<cells, command_list, current_command, pc, segment>>
  BY <1>2 DEF DuringParse, history
<1>4. OwnWords(current_command)' = OwnWords(current_command)
  BY <1>3 DEF OwnWords, Words, Targets
<1>5. CASE Rule = 2
  <2>1. yystate = 0
    <3>1. Rule = DefaultRule(yystate) /\ yystate \in State
      BY <1>1, RuleIs
    <3> QED BY <1>5, <3>1, RuleOf
  <2>2. ~ InCommand
    BY <1>1, <2>1, NoneCollected
  <2> QED BY <1>3, <1>4, <2>2 DEF Leftover
<1>6. CASE Rule \in 20..40
  BY <1>1, <1>3, <1>6, CollectingAfter DEF Leftover
<1> QED BY <1>2, <1>5, <1>6

LEMMA LeftoverGrown ==
  ASSUME IInv, Leftover, NEW new, NEW old, NEW v, Adds(new, old, v), NEW c, NEW r, NEW o, Grown(c, r, o)
  PROVE  Leftover'
<1>1. Stacked /\ Rule \in 20..40 /\ Reduce(v) /\ pc = "parse" /\ pc' = pc
  BY DEF IInv, Adds, DuringParse
<1>2. InCommand'
  BY <1>1, CollectingAfter
<1>3. ~ o.and_next /\ ~ o.or_next /\ ~ o.pipline_next /\ c = Len(cells')
  <2>1. CASE o = NewCommand /\ c = Len(cells) + 1 /\ Len(cells') = Len(cells) + 1
    BY <2>1 DEF NewCommand
  <2>2. CASE current_command # NULL /\ c = current_command /\ o = cells[c] /\ Len(cells') = Len(cells)
    BY <2>2 DEF Leftover
  <2> QED BY <2>1, <2>2 DEF Grown
<1>4. cells'[c] = r /\ c = current_command' /\ More(r, o)
  BY DEF Grown
<1>5. ~ r.and_next /\ ~ r.or_next /\ ~ r.pipline_next
  BY <1>3, <1>4 DEF More
<1> QED BY <1>1, <1>2, <1>3, <1>4, <1>5 DEF Leftover

\* The other steps of the parser only add to the stack.
LEMMA LeftoverStacked ==
  ASSUME Leftover, UNCHANGED <<heap, pc, segment>>, Len(stack) \in Nat, Len(stack') \in Nat, Len(stack') >= Len(stack),
         \A n \in 1..Len(stack) : stack'[n] = stack[n]
  PROVE  Leftover'
<1>1. OwnWords(current_command)' = OwnWords(current_command)
  BY DEF heap, OwnWords, Words, Targets
<1>2. \A n \in 1..Len(stack) : n \in 1..Len(stack')
  OBVIOUS
<1>3. InCommand => InCommand'
  BY <1>2 DEF InCommand
<1> QED BY <1>1, <1>3 DEF Leftover, heap

\* Outside the parser nothing is collected but what was left behind.
LEMMA LeftoverOutside ==
  ASSUME Leftover, UNCHANGED current_command,
         current_command # NULL => cells' = cells /\ pc' = "ready"
  PROVE  Leftover'
BY DEF Leftover

-----------------------------------------------------------------------------
(* Words are between the operators they were written between.                  *)

LEMMA WordsAre ==
  ASSUME NEW c
  PROVE  Words(c) = WordsOf(cells[c]) /\ OwnWords(c) = Own(cells[c])
BY DEF Words, WordsOf, OwnWords, Own, Targets

LEMMA TakenIs ==
  ASSUME Books, Tokens
  PROVE  Taken \in Nat /\ Taken <= Len(text) /\ Len(text) \in Nat
<1>1. Len(text) \in Nat /\ Sequence(text)
  BY TextIs
<1>2. text # <<>> => Len(text) >= 1
  BY <1>1, Lengths
<1> QED BY <1>1, <1>2 DEF Taken, Tokens

LEMMA NotPending ==
  ASSUME Stacked, Rule # 0, NEW v, Reduce(v)
  PROVE  yystate' \notin Pending
<1>1. PICK m \in 1..Len(stack) : yystate' = GotoTable(stack[m].state, Rule) /\ stack[m].state \in State
  BY NewTop
<1>2. PICK s, r : s = stack[m].state /\ r = Rule
  OBVIOUS
<1>3. r \in 2..40
  BY <1>2, RuleIs
<1>4. GotoTable(s, r) \in {1, 14, 15} \cup Collecting \cup CommandStates \cup ListStates
  BY <1>1, <1>2, <1>3, GotoNew
<1> QED BY <1>1, <1>2, <1>4, Distinct, Apart DEF Between

LEMMA WordIn ==
  ASSUME NEW c \in Command
  PROVE  /\ \A w \in WordsOf(c) : w \in Place /\ w.segment \in Nat /\ w.pos \in Nat
         /\ Len(c.argv) \in Nat /\ DOMAIN c.argv = 1..Len(c.argv)
         /\ \A n \in DOMAIN c.argv : c.argv[n] \in WordsOf(c)
         /\ Own(c) \subseteq WordsOf(c)
<1>1. PICK a, r : a = c.argv /\ r = c.redirects
  OBVIOUS
<1>2. a \in Seq(Place) /\ r \in Seq(Redirect)
  BY <1>1 DEF Command
<1>3. /\ Len(a) \in Nat /\ DOMAIN a = 1..Len(a) /\ \A n \in 1..Len(a) : a[n] \in Place
      /\ \A t : t \in ToSet(a) <=> \E n \in 1..Len(a) : a[n] = t
  BY <1>2, SequenceOf
<1>4. \A n \in DOMAIN r : r[n].target \in Place
  <2>1. \A n \in DOMAIN r : r[n] \in Redirect
    BY <1>2
  <2> QED BY <2>1 DEF Redirect
<1>5. \A w \in WordsOf(c) : w \in Place
  BY <1>1, <1>3, <1>4 DEF WordsOf
<1>6. \A w \in Place : w.segment \in Nat /\ w.pos \in Nat
  BY DEF Place
<1>7. \A n \in DOMAIN c.argv : c.argv[n] \in WordsOf(c)
  BY <1>1, <1>3 DEF WordsOf
<1> QED BY <1>1, <1>3, <1>5, <1>6, <1>7 DEF Own

LEMMA TidyKept ==
  ASSUME NEW c, Tidy(c), segment' = segment, Taken \in Nat, Taken' \in Nat, Taken' >= Taken,
         \A o \in 1..Taken : o \in Operators' <=> o \in Operators,
         pc' = "parse" /\ yystate' \in Pending => Taken' > Taken \/ (pc = "parse" /\ yystate \in Pending)
  PROVE  Tidy(c)' /\ Own(c)' = Own(c)
<1>1. Own(c)' = Own(c) /\ WordsOf(c)' = WordsOf(c)
  BY DEF Own, WordsOf
<1>2. InOrder(c)'
  BY DEF Tidy, InOrder
<1>3. \A w \in Own(c) : w.pos \in 1..Taken /\ (pc = "parse" /\ yystate \in Pending => w.pos < Taken)
  BY DEF Tidy
<1>4. \A w \in Own(c) : w.pos \in 1..Taken' /\ (pc' = "parse" /\ yystate' \in Pending => w.pos < Taken')
  BY <1>3
<1>5. ASSUME NEW v \in Own(c), NEW w \in Own(c) PROVE Apartfrom(v.pos, w.pos)'
  <2>1. \A o \in v.pos..w.pos : o \in 1..Taken
    BY <1>3
  <2>2. \A o \in v.pos..w.pos : o \notin Operators
    BY DEF Tidy, Apartfrom
  <2>3. \A o \in v.pos..w.pos : o \notin Operators'
    BY <2>1, <2>2
  <2> QED BY <2>3 DEF Apartfrom
<1>6. \A w \in WordsOf(c) : w.segment <= segment'
  BY DEF Tidy
<1> QED BY <1>1, <1>2, <1>4, <1>5, <1>6 DEF Tidy

LEMMA TidyNothing ==
  ASSUME NEW c, c.argv = <<>>, c.redirects = <<>>
  PROVE  Tidy(c) /\ Own(c) = {} /\ WordsOf(c) = {}
<1>1. WordsOf(c) = {}
  BY DEF WordsOf, ToSet
<1>2. Own(c) = {}
  BY <1>1 DEF Own
<1>3. InOrder(c)
  BY DEF InOrder
<1> QED BY <1>1, <1>2, <1>3 DEF Tidy

LEMMA SameWords ==
  ASSUME NEW c, NEW d, c.argv = d.argv, c.redirects = d.redirects
  PROVE  /\ WordsOf(c) = WordsOf(d) /\ Own(c) = Own(d) /\ (InOrder(c) <=> InOrder(d))
         /\ Tidy(c) <=> Tidy(d)
<1>1. WordsOf(c) = WordsOf(d) /\ Own(c) = Own(d) /\ (InOrder(c) <=> InOrder(d))
  BY DEF WordsOf, Own, InOrder
<1> QED BY <1>1 DEF Tidy

\* The commands keep their words and the tokens taken so far their places.
LEMMA OrderedKept ==
  ASSUME ContentKept, Ordered, segment' = segment, Taken \in Nat, Taken' \in Nat, Taken' >= Taken,
         \A o \in 1..Taken : o \in Operators' <=> o \in Operators,
         pc' = "parse" /\ yystate' \in Pending => Taken' > Taken \/ (pc = "parse" /\ yystate \in Pending),
         pc' = "parse" /\ current_command' \in Cell =>
            /\ pc = "parse" /\ current_command' = current_command
            /\ Own(cells[current_command]) # {} => \A o \in Taken + 1..Taken' : o \notin Operators'
  PROVE  Ordered'
<1>1. ASSUME NEW c \in Cell'
      PROVE  /\ Tidy(cells[c])'
             /\ (c = current_command /\ pc = "parse" => \A v \in Own(cells[c]) : Apartfrom(v.pos, Taken))'
  <2>1. PICK r : r = cells'[c]
    OBVIOUS
  <2>2. CASE c \in Cell
    <3>1. PICK d : d = cells[c]
      OBVIOUS
    <3>2. r.argv = d.argv /\ r.redirects = d.redirects
      BY <2>1, <2>2, <3>1 DEF ContentKept
    <3>3. Tidy(d) /\ (c = current_command /\ pc = "parse" => \A v \in Own(d) : Apartfrom(v.pos, Taken))
      BY <2>2, <3>1 DEF Ordered
    <3>4. Tidy(r) /\ Own(r) = Own(d)
      BY <3>2, <3>3, SameWords
    <3>5. Tidy(r)' /\ Own(r)' = Own(r)
      BY <3>4, TidyKept
    <3>6. ASSUME c = current_command', pc' = "parse", NEW v \in Own(r) PROVE Apartfrom(v.pos, Taken)'
      <4>1. Apartfrom(v.pos, Taken) /\ \A o \in Taken + 1..Taken' : o \notin Operators'
        BY <2>2, <3>1, <3>3, <3>4, <3>6
      <4>2. v.pos \in 1..Taken
        BY <3>4, <3>6 DEF Tidy
      <4>3. ASSUME NEW o \in v.pos..Taken' PROVE o \notin Operators'
        <5>1. CASE o <= Taken
          <6>1. o \in v.pos..Taken /\ o \in 1..Taken
            BY <4>2, <5>1
          <6> QED BY <4>1, <6>1 DEF Apartfrom
        <5>2. CASE ~ (o <= Taken)
          BY <4>1, <4>2, <5>2
        <5> QED BY <5>1, <5>2
      <4> QED BY <4>3 DEF Apartfrom
    <3> QED BY <2>1, <3>5, <3>6
  <2>3. CASE c \notin Cell
    <3>1. r.argv = <<>> /\ r.redirects = <<>>
      BY <2>1, <2>3 DEF ContentKept
    <3>2. WordsOf(r) = {} /\ r.argv = <<>>
      BY <3>1, TidyNothing
    <3>3. Own(r)' = {} /\ WordsOf(r)' = {}
      BY <3>2 DEF Own, WordsOf
    <3>4. InOrder(r)'
      BY <3>1 DEF InOrder
    <3>5. Tidy(r)'
      BY <3>3, <3>4 DEF Tidy
    <3> QED BY <2>1, <3>3, <3>5
  <2> QED BY <2>2, <2>3
<1> QED BY <1>1 DEF Ordered

LEMMA OrderedReduced ==
  ASSUME Books, Stacked, Tokens, Ordered, ContentKept, Rule # 0, NEW v, Reduce(v), DuringParse,
         current_command' # current_command => current_command' \notin Cell
  PROVE  Ordered'
<1>1. pc = "parse" /\ Taken \in Nat
  BY RuleIs, TakenIs
<1>2. Taken' = Taken /\ Operators' = Operators /\ segment' = segment
  BY TakenKept DEF DuringParse, history
<1>3. yystate' \notin Pending
  BY NotPending
<1>4. \A o \in Taken + 1..Taken' : FALSE
  BY <1>1, <1>2
<1> QED BY <1>1, <1>2, <1>3, <1>4, OrderedKept

LEMMA OrderedLexed ==
  ASSUME Books, Stacked, Tokens, Typed, Ordered, Lex
  PROVE  Ordered'
<1>1. /\ Taken' = Taken /\ Taken \in Nat /\ pc = "parse"
      /\ UNCHANGED <<heap, freed, stack, pc, cmd, result, history>>
      /\ \A n \in 1..Taken : n \in Operators' <=> n \in Operators
  BY LexIs
<1>2. cells' = cells /\ current_command' = current_command /\ segment' = segment /\ yystate' = yystate /\ pc' = pc
  BY <1>1 DEF heap, history, yystate
<1>3. ContentKept
  BY <1>2, SameContent
<1>4. \A o \in Taken + 1..Taken' : FALSE
  BY <1>1
<1> QED BY <1>1, <1>2, <1>3, <1>4, OrderedKept

LEMMA OrderedShifted ==
  ASSUME Books, Stacked, Collects, Cells, Tokens, Typed, Lists, Leftover, Ordered, Shift
  PROVE  Ordered'
<1>1. /\ pc = "parse" /\ UNCHANGED <<heap, freed, pc, cmd, result, text, history>>
      /\ yystate' = ShiftTo(yystate, yychar)
      /\ yystate \in State /\ yychar \in 0..YYNTOKENS - 1 /\ Shifts(yystate, yychar)
      /\ Taken \in Nat
      /\ yychar = EOF => Taken' = Taken
      /\ yychar # EOF => Taken' = Taken + 1 /\ text[Taken'] = yychar
      /\ Operators' = Operators
  BY ShiftIs
<1>2. PICK s, t, u : s = yystate /\ t = yychar /\ u = yystate'
  OBVIOUS
<1>3. /\ u \in Pending => t \in {WORD, QUOTED_STRING, PARAM_EXPANSION}
      /\ t \in {PIPE, AND, OR, AMPERSAND} => s \in {15} \cup Collected
  BY <1>1, <1>2, ShiftTokens
<1>4. cells' = cells /\ current_command' = current_command /\ segment' = segment /\ pc' = pc
  BY <1>1 DEF heap, history
<1>5. ContentKept
  BY <1>4, SameContent
<1>6. u \in Pending => t # EOF
  BY <1>3 DEF EOF, WORD, QUOTED_STRING, PARAM_EXPANSION
<1>7. current_command = NULL => current_command \notin Cell
  BY CellIsNat DEF NULL
<1>8. t \in {PIPE, AND, OR, AMPERSAND} => current_command = NULL
  <2>1. s = 15 => command_list # NoList
    BY <1>1, <1>2 DEF Lists
  <2>2. s = 15 => current_command = NULL
    BY <1>1, <1>2, <2>1, NoneCurrent
  <2> QED BY <1>2, <1>3, <2>2 DEF Collects
<1>9. ASSUME current_command \in Cell, NEW o \in Taken + 1..Taken' PROVE o \notin Operators'
  <2>1. t # EOF /\ o = Taken' /\ text[o] = t
    BY <1>1, <1>2, <1>9
  <2>2. t \notin {PIPE, AND, OR, AMPERSAND}
    BY <1>7, <1>8, <1>9
  <2> QED BY <1>1, <2>1, <2>2 DEF Operators
<1>10. Taken' \in Nat /\ Taken' >= Taken /\ (u \in Pending => Taken' > Taken)
  BY <1>1, <1>2, <1>6
<1> QED BY <1>1, <1>2, <1>4, <1>5, <1>9, <1>10, OrderedKept

\* The end of the parse, in error or not.
LEMMA OrderedOutside ==
  ASSUME Books, Tokens, Ordered, ContentKept, UNCHANGED <<text, segment>>, yychar' \in {yychar, YYEMPTY},
         pc' # "parse"
  PROVE  Ordered'
<1>1. Taken \in Nat /\ Taken <= Len(text) /\ Len(text) \in Nat
  BY TakenIs
<1>2. Operators' = Operators
  BY DEF Operators
<1>3. Taken' \in Nat /\ Taken' >= Taken
  BY <1>1 DEF Taken
<1> QED BY <1>1, <1>2, <1>3, OrderedKept

\* No word is of a segment that has not begun.
LEMMA OrderedAtStart ==
  ASSUME Books, Typed, Ordered, cells' = cells, segment' = segment + 1
  PROVE  Ordered' /\ \A c \in Cell : OwnWords(c)' = {}
<1>1. segment \in Nat
  BY SessionIs DEF Books
<1>2. Cell' = Cell
  BY DEF Cell
<1>3. ASSUME NEW c \in Cell PROVE Tidy(cells[c])' /\ Own(cells[c])' = {}
  <2>1. PICK r : r = cells[c]
    OBVIOUS
  <2>2. r \in Command /\ Tidy(r)
    BY <2>1 DEF Typed, Ordered
  <2>3. \A w \in WordsOf(r) : w.segment \in Nat /\ w.segment <= segment
    BY <2>2, WordIn DEF Tidy
  <2>4. \A w \in WordsOf(r) : w.segment <= segment' /\ w.segment # segment'
    BY <1>1, <2>3
  <2>5. Own(r)' = {}
    BY <2>4 DEF Own, WordsOf
  <2>6. \A j \in DOMAIN r.argv : r.argv[j].segment # segment'
    BY <2>2, <2>4, WordIn
  <2>7. InOrder(r)'
    BY <2>6 DEF InOrder
  <2>8. Tidy(r)'
    BY <2>4, <2>5, <2>7 DEF Tidy, WordsOf
  <2> QED BY <2>1, <2>5, <2>8
<1>4. Ordered'
  BY <1>2, <1>3 DEF Ordered
<1>5. \A c \in Cell : OwnWords(c)' = {}
  BY <1>3 DEF OwnWords, Words, Targets, Own, WordsOf
<1> QED BY <1>4, <1>5

\* The word that is added is the last of its command.
LEMMA TidyMore ==
  ASSUME Books, Stacked, Tokens, Rule \in 26..40, yystate \in Pending, NEW r, NEW o \in Command,
         More(r, o), Tidy(o), \A v \in Own(o) : Apartfrom(v.pos, Taken),
         yystate' \notin Pending, UNCHANGED <<Taken, Operators, segment>>
  PROVE  (Tidy(r) /\ \A v \in Own(r) : Apartfrom(v.pos, Taken))'
<1>1. /\ Taken \in Nat /\ Taken >= 1 /\ Word(Taken) \in Place /\ pc = "parse"
      /\ text[Taken] \in {WORD, QUOTED_STRING, PARAM_EXPANSION}
  BY WordTaken
<1>2. PICK w, t : w = Word(Taken) /\ t = Taken
  OBVIOUS
<1>3. w.segment = segment /\ w.pos = t /\ t \in Nat /\ t >= 1 /\ segment \in Nat
  <2>1. segment \in Nat
    BY SessionIs DEF Books
  <2> QED BY <1>1, <1>2, <2>1 DEF Word
<1>4. t \notin Operators
  <2>1. text[Taken] \notin {PIPE, AND, OR, AMPERSAND}
    BY <1>1 DEF WORD, QUOTED_STRING, PARAM_EXPANSION, PIPE, AND, OR, AMPERSAND
  <2> QED BY <1>2, <2>1 DEF Operators
<1>5. /\ r \in Command /\ (r.argv = o.argv \/ r.argv = Append(o.argv, w))
      /\ WordsOf(r) \subseteq WordsOf(o) \cup {w}
  BY <1>2 DEF More
<1>6. \A x \in WordsOf(o) : x.segment <= segment
  BY DEF Tidy
<1>7. \A x \in WordsOf(r) : x.segment <= segment
  BY <1>3, <1>5, <1>6
<1>8. \A x \in Own(o) : x.pos \in 1..t /\ x.pos < t
  BY <1>1, <1>2 DEF Tidy
<1>9. Own(r) \subseteq Own(o) \cup {w}
  BY <1>5 DEF Own
<1>10. ASSUME NEW v \in Own(r) PROVE Apartfrom(v.pos, t)
  <2>1. CASE v \in Own(o)
    BY <1>2, <2>1
  <2>2. CASE v = w
    BY <1>3, <1>4, <2>2 DEF Apartfrom
  <2> QED BY <1>9, <2>1, <2>2
<1>11. ASSUME NEW v \in Own(r), NEW x \in Own(r) PROVE Apartfrom(v.pos, x.pos)
  <2>1. CASE x = w
    BY <1>3, <1>10, <2>1
  <2>2. CASE v = w /\ x \in Own(o)
    <3>1. \A p \in v.pos..x.pos : FALSE
      BY <1>3, <1>8, <2>2
    <3> QED BY <3>1 DEF Apartfrom
  <2>3. CASE v \in Own(o) /\ x \in Own(o)
    BY <2>3 DEF Tidy
  <2> QED BY <1>9, <2>1, <2>2, <2>3
<1>12. InOrder(r)
  <2>1. CASE r.argv = o.argv
    BY <2>1 DEF Tidy, InOrder
  <2>2. CASE r.argv = Append(o.argv, w)
    <3>1. PICK s, d : s = o.argv /\ d = r.argv
      OBVIOUS
    <3>2. /\ Len(s) \in Nat /\ DOMAIN s = 1..Len(s) /\ Sequence(s)
          /\ \A n \in DOMAIN s : s[n] \in WordsOf(o)
      <4>1. s \in Seq(Place)
        BY <3>1 DEF Command
      <4> QED BY <3>1, <4>1, WordIn DEF Sequence
    <3>3. /\ DOMAIN d = 1..Len(s) + 1 /\ d[Len(s) + 1] = w
          /\ \A n \in 1..Len(s) : d[n] = s[n]
      BY <2>2, <3>1, <3>2, Appending, Lengths
    <3>4. ASSUME NEW i \in DOMAIN d, NEW j \in DOMAIN d, i < j, d[j].segment = segment
          PROVE  d[i].segment < segment \/ d[i].pos < d[j].pos
      <4>1. CASE j \in 1..Len(s)
        <5>1. i \in 1..Len(s) /\ d[i] = s[i] /\ d[j] = s[j]
          BY <3>2, <3>3, <3>4, <4>1
        <5> QED BY <3>1, <3>2, <3>4, <4>1, <5>1 DEF Tidy, InOrder
      <4>2. CASE j = Len(s) + 1
        <5>1. i \in 1..Len(s) /\ d[i] = s[i] /\ d[j] = w
          BY <3>2, <3>3, <3>4, <4>2
        <5>2. d[i] \in WordsOf(o)
          BY <3>2, <5>1
        <5>3. d[i].segment \in Nat /\ d[i].segment <= segment
          BY <1>6, <5>2, WordIn
        <5>4. d[i].segment = segment => d[i] \in Own(o)
          BY <5>2 DEF Own
        <5> QED BY <1>3, <1>8, <5>1, <5>3, <5>4
      <4> QED BY <3>2, <3>3, <4>1, <4>2
    <3> QED BY <3>1, <3>4 DEF InOrder
  <2> QED BY <1>5, <2>1, <2>2
<1>13. ASSUME NEW x \in Own(r)
       PROVE  x.pos \in 1..t
  BY <1>3, <1>8, <1>9
<1>14. Own(r)' = Own(r) /\ WordsOf(r)' = WordsOf(r) /\ (InOrder(r)' <=> InOrder(r))
  BY DEF Own, WordsOf, InOrder
<1>15. \A x, y : Apartfrom(x, y)' <=> Apartfrom(x, y)
  BY DEF Apartfrom
<1>16. \A y \in Own(r) : y.pos \in 1..Taken' /\ (pc' = "parse" /\ yystate' \in Pending => y.pos < Taken')
  BY <1>2, <1>13
<1> QED BY <1>2, <1>7, <1>10, <1>11, <1>12, <1>14, <1>15, <1>16 DEF Tidy

LEMMA OrderedGrown ==
  ASSUME IInv, Tokens, Typed, Leftover, Ordered, NEW new, NEW old, NEW v, Adds(new, old, v),
         NEW c, NEW r, NEW o, Grown(c, r, o)
  PROVE  Ordered'
<1>1. /\ Books /\ Stacked /\ Cells /\ Rule \in 26..40 /\ Rule # 0 /\ pc = "parse" /\ yystate \in Pending
      /\ Reduce(v) /\ DuringParse
  BY DEF IInv, Adds
<1>2. Taken' = Taken /\ Operators' = Operators /\ segment' = segment /\ Taken \in Nat
  BY <1>1, TakenKept, TakenIs DEF DuringParse, history
<1>3. yystate' \notin Pending
  BY <1>1, NotPending
<1>4. o \in Command /\ Tidy(o) /\ \A w \in Own(o) : Apartfrom(w.pos, Taken)
  <2>1. CASE o = NewCommand
    <3>1. o.argv = <<>> /\ o.redirects = <<>>
      BY <2>1 DEF NewCommand
    <3> QED BY <2>1, <3>1, NewIs, TidyNothing
  <2>2. CASE c \in Cell /\ o = cells[c] /\ c = current_command
    BY <1>1, <2>2 DEF Typed, Ordered
  <2> QED BY <2>1, <2>2 DEF Grown
<1>5. (Tidy(r) /\ \A w \in Own(r) : Apartfrom(w.pos, Taken))'
  BY <1>1, <1>2, <1>3, <1>4, TidyMore DEF Grown
<1>6. ASSUME NEW d \in Cell', d # c PROVE Tidy(cells[d])' /\ d # current_command'
  <2>1. d \in Cell /\ cells'[d] = cells[d] /\ d # current_command'
    BY <1>6 DEF Grown
  <2>2. PICK x : x = cells[d]
    OBVIOUS
  <2>3. Tidy(x)
    BY <2>1, <2>2 DEF Ordered
  <2>4. Tidy(x)'
    BY <1>2, <1>3, <2>3, TidyKept
  <2> QED BY <2>1, <2>2, <2>4
<1>7. cells'[c] = r
  BY DEF Grown
<1> QED BY <1>5, <1>6, <1>7 DEF Ordered

-----------------------------------------------------------------------------
(* The reductions keep all of it.                                              *)

LEMMA ListTail ==
  ASSUME IInv, command_list # NoList
  PROVE  command_list.head \in Cell /\ command_list.tail \in Cell
BY DEF IInv, Reaching, Heap, Closed

LEMMA ToldReduced ==
  ASSUME IInv, Told, Rule # 0, Rule \notin {6, 8}, NEW v, Reduce(v), DuringParse, command_list' = command_list,
         ContentKept, MarksKept, RootsStay(v),
         current_command' # NULL => /\ current_command' = current_command /\ Rule \notin 16..19
                                    /\ Rule \in {2} \cup 20..40 => cells' = cells,
         Rule \in 15..19 => \A c \in Cell : cells[c].background => c < v
  PROVE  Told'
<1>1. Books /\ Stacked /\ Cells /\ Typed /\ Tokens /\ Lists /\ Marks /\ Leftover /\ Ordered
  BY DEF IInv, Told
<1>2. pc = "parse"
  BY <1>1, RuleIs
<1>3. current_command' # current_command => current_command' \notin Cell
  BY <1>1, CellIsNat DEF NULL
<1>4. Tokens'
  BY <1>1, TokensReduced
<1>5. command_list # NoList => (Marked' <=> Marked)
  BY ListTail DEF Marked, MarksKept
<1>6. Lists'
  BY <1>1, <1>5, ListsReduced
<1>7. Marks'
  BY <1>1, <1>2, <1>3, MarksReduced
<1>8. Leftover'
  BY <1>1, LeftoverReduced
<1>9. Ordered'
  BY <1>1, <1>3, OrderedReduced
<1> QED BY <1>4, <1>6, <1>7, <1>8, <1>9 DEF Told, ContentKept

LEMMA PlainTold == IInv /\ Told /\ ReducePlain => Told'
<1> SUFFICES ASSUME IInv, Told, ReducePlain PROVE Told'
  OBVIOUS
<1>1. PICK v : v = IF At(yyr2, Rule) = 0 THEN NULL ELSE yyvsp(1)
  OBVIOUS
<1>2. /\ Rule \in {2, 3, 4, 5, 12, 14, 20, 21, 22, 23, 24, 25}
      /\ Reduce(v) /\ UNCHANGED heap /\ DuringParse
  BY <1>1 DEF ReducePlain
<1>3. Rule # 0 /\ Rule \notin {6, 8} /\ Rule \notin 15..19
  BY <1>2
<1>4. cells' = cells /\ current_command' = current_command /\ command_list' = command_list
  BY <1>2 DEF heap
<1>5. ContentKept /\ MarksKept
  BY <1>4, SameContent DEF Told
<1>6. RootsStay(v)
  <2>1. CASE Rule \in {12, 14}
    <3>1. At(yyr2, Rule) = 1
      BY <2>1, Lengths9to19
    <3>2. v = yyvsp(1) /\ Rule \in {9, 12, 14} /\ Rule # 9
      BY <1>1, <2>1, <3>1
    <3> QED BY <1>2, <3>2, RootsStaySame DEF IInv
  <2>2. CASE Rule \notin {12, 14}
    <3>1. Rule \notin 9..19
      BY <1>2, <2>2
    <3> QED BY <1>2, <1>3, <3>1, RootsStayNone DEF IInv
  <2> QED BY <2>1, <2>2
<1> QED BY <1>2, <1>3, <1>4, <1>5, <1>6, ToldReduced

LEMMA ListTold == IInv /\ Told /\ ReduceList => Told'
<1> SUFFICES ASSUME IInv, Told, ReduceList PROVE Told'
  OBVIOUS
<1>1. PICK v : v = [head |-> yyvsp(1), tail |-> yyvsp(1)]
  OBVIOUS
<1>2. Rule = 9 /\ Reduce(v) /\ UNCHANGED heap /\ DuringParse
  BY <1>1 DEF ReduceList
<1>3. Rule # 0 /\ Rule \notin {6, 8} /\ Rule \notin 15..19 /\ Rule \in {9, 12, 14}
  BY <1>2
<1>4. cells' = cells /\ current_command' = current_command /\ command_list' = command_list
  BY <1>2 DEF heap
<1>5. ContentKept /\ MarksKept
  BY <1>4, SameContent DEF Told
<1>6. RootsStay(v)
  BY <1>1, <1>2, <1>3, RootsStaySame DEF IInv
<1> QED BY <1>2, <1>3, <1>4, <1>5, <1>6, ToldReduced

LEMMA SimpleTold == IInv /\ Told /\ ReduceSimpleCommand => Told'
<1> SUFFICES ASSUME IInv, Told, ReduceSimpleCommand PROVE Told'
  OBVIOUS
<1>1. PICK v : v = current_command
  OBVIOUS
<1>2. /\ Rule \in 16..19 /\ Reduce(v) /\ current_command' = NULL /\ cells' = cells
      /\ command_list' = command_list /\ DuringParse
  BY <1>1 DEF ReduceSimpleCommand
<1>3. Rule # 0 /\ Rule \notin {6, 8} /\ Rule \in 15..19
  BY <1>2
<1>4. ContentKept /\ MarksKept
  BY <1>2, SameContent DEF Told
<1>5. RootsStay(v)
  BY <1>2, <1>3, RootsStayMade DEF IInv
<1>6. ASSUME NEW c \in Cell, cells[c].background PROVE c < v
  <2>1. current_command # NULL
    <3>1. Rule \in 16..25
      BY <1>2
    <3> QED BY <1>3, <3>1, CurrentBefore DEF IInv
  <2>2. v = Len(cells) /\ Len(cells) \in Nat /\ Cell = 1..Len(cells)
    BY <1>1, <2>1, CellsAre DEF IInv, Told, Leftover
  <2>3. c # v
    BY <1>1, <1>6 DEF Told, Marks
  <2> QED BY <2>2, <2>3
<1> QED BY <1>2, <1>3, <1>4, <1>5, <1>6, ToldReduced

LEMMA SubcommandTold == IInv /\ Told /\ ReduceSubcommand => Told'
<1> SUFFICES ASSUME IInv, Told, ReduceSubcommand PROVE Told'
  OBVIOUS
<1>1. PICK v : v = Len(cells')
  OBVIOUS
<1>2. /\ Rule = 15 /\ Reduce(v) /\ current_command' = current_command
      /\ command_list' = command_list /\ DuringParse
  BY <1>1 DEF ReduceSubcommand
<1>3. Rule # 0 /\ Rule \notin {6, 8} /\ Rule \in 15..19 /\ Rule \in {6} \cup 9..15
  BY <1>2
<1>4. ContentKept /\ MarksKept /\ Len(cells') = Len(cells) + 1 /\ Len(cells) \in Nat
  BY SubcommandContent DEF IInv, Told
<1>5. RootsStay(v)
  BY <1>2, <1>3, RootsStayMade DEF IInv
<1>6. \A c \in Cell : c < v
  BY <1>1, <1>4, CellsAre DEF IInv
<1>7. current_command' = NULL
  BY <1>2, <1>3, CurrentBefore DEF IInv
<1> QED BY <1>2, <1>3, <1>4, <1>5, <1>6, <1>7, ToldReduced

LEMMA PipeTold == IInv /\ Told /\ ReducePipe => Told'
<1> SUFFICES ASSUME IInv, Told, ReducePipe PROVE Told'
  OBVIOUS
<1>1. PICK G, m, f, a, b : Piping(G, m, f, a, b)
  BY PipeIs
<1>2. Rule = 13 /\ Reduce(f) /\ UNCHANGED <<current_command, command_list>> /\ DuringParse
  BY <1>1 DEF Piping
<1>3. Rule # 0 /\ Rule \notin {6, 8} /\ Rule \notin 15..19 /\ Rule \in {6} \cup 9..15
  BY <1>2
<1>4. ContentKept /\ MarksKept
  BY <1>1, PipeContent DEF IInv, Told
<1>5. RootsStay(f)
  BY <1>1, RootsStayPiped
<1>6. current_command' = NULL
  BY <1>2, <1>3, CurrentBefore DEF IInv
<1> QED BY <1>2, <1>3, <1>4, <1>5, <1>6, ToldReduced

LEMMA AndOrTold == IInv /\ Told /\ ReduceAndOr => Told'
<1> SUFFICES ASSUME IInv, Told, ReduceAndOr PROVE Told'
  OBVIOUS
<1>1. PICK G, m, f, a, b : Joining(G, m, f, a, b)
  BY AndOrIs
<1>2. PICK v : v = [head |-> f, tail |-> b]
  OBVIOUS
<1>3. Rule \in {10, 11} /\ Reduce(v) /\ UNCHANGED <<current_command, command_list>> /\ DuringParse
  BY <1>1, <1>2 DEF Joining
<1>4. Rule # 0 /\ Rule \notin {6, 8} /\ Rule \notin 15..19 /\ Rule \in {6} \cup 9..15
  BY <1>3
<1>5. ContentKept /\ MarksKept
  BY <1>1, AndOrContent DEF IInv, Told
<1>6. RootsStay(v)
  BY <1>1, <1>2, RootsStayJoined
<1>7. current_command' = NULL
  BY <1>3, <1>4, CurrentBefore DEF IInv
<1> QED BY <1>3, <1>4, <1>5, <1>6, <1>7, ToldReduced

LEMMA AddsTold ==
  ASSUME IInv, Told, NEW new, NEW old, NEW v, Adds(new, old, v)
  PROVE  Told'
<1>1. Books /\ Stacked /\ Cells /\ Typed /\ Tokens /\ Lists /\ Marks /\ Leftover /\ Ordered
  BY DEF IInv, Told
<1>2. PICK c, r, o : Grown(c, r, o)
  BY <1>1, AddsContent
<1>3. /\ Rule \in 26..40 /\ Rule # 0 /\ Rule \notin {6, 8} /\ Reduce(v) /\ DuringParse
      /\ command_list' = command_list
  BY DEF Adds
<1>4. Tokens'
  BY <1>1, <1>3, TokensReduced
<1>5. command_list # NoList => (Marked' <=> Marked)
  <2>1. PICK a : a = command_list.tail
    OBVIOUS
  <2>2. command_list # NoList => a \in Cell
    BY <2>1, ListTail
  <2>3. ASSUME a \in Cell PROVE cells'[a].background = cells[a].background
    <3>1. CASE a = c
      <4>1. o = cells[a] /\ cells'[a] = r /\ r.background = o.background
        BY <2>3, <3>1, <1>2 DEF Grown, More
      <4> QED BY <4>1
    <3>2. CASE a # c
      BY <1>2, <2>3, <3>2 DEF Grown
    <3> QED BY <3>1, <3>2
  <2> QED BY <1>3, <2>1, <2>2, <2>3 DEF Marked
<1>6. Lists'
  BY <1>1, <1>3, <1>5, ListsReduced
<1>7. Marks'
  BY <1>1, <1>2, MarksGrown
<1>8. Leftover'
  BY <1>1, <1>2, LeftoverGrown
<1>9. Ordered'
  BY <1>1, <1>2, OrderedGrown
<1> QED BY <1>2, <1>4, <1>6, <1>7, <1>8, <1>9 DEF Told, Grown

LEMMA SequenceTold == IInv /\ Told /\ ReduceSequence => Told'
<1> SUFFICES ASSUME IInv, Told, ReduceSequence PROVE Told'
  OBVIOUS
<1>1. PICK G, f, t : Sequencing(G, f, t)
  BY SequenceIs
<1>2. PICK v : v = [head |-> f, tail |-> t]
  OBVIOUS
<1>3. /\ Rule = 6 /\ Rule # 0 /\ Rule \notin 15..19 /\ Rule \notin 9..19 /\ Reduce(v) /\ DuringParse /\ pc = "parse"
      /\ current_command' = current_command
  BY <1>1, <1>2 DEF Sequencing
<1>4. Books /\ Stacked /\ Cells /\ Typed /\ Tokens /\ Lists /\ Marks /\ Leftover /\ Ordered
  BY DEF IInv, Told
<1>5. ContentKept /\ MarksKept
  BY <1>1, <1>4, SequenceContent
<1>6. current_command = NULL
  BY <1>3, CurrentBefore DEF IInv
<1>7. RootsStay(v)
  BY <1>3, <1>4, RootsStayNone
<1>8. Tokens' /\ Ordered'
  BY <1>3, <1>4, <1>5, TokensReduced, OrderedReduced
<1>9. Lists'
  BY <1>1, <1>4, ListsSequenced
<1>10. Marks'
  BY <1>3, <1>4, <1>5, <1>7, MarksReduced
<1>11. Leftover'
  BY <1>3, <1>6 DEF Leftover
<1> QED BY <1>5, <1>8, <1>9, <1>10, <1>11 DEF Told, ContentKept

LEMMA BackgroundTold == IInv /\ Told /\ ReduceBackground => Told'
<1> SUFFICES ASSUME IInv, Told, ReduceBackground PROVE Told'
  OBVIOUS
<1>1. PICK G, a, v : Marking(G, a, v)
  BY BackgroundIs DEF Told
<1>2. /\ Rule = 8 /\ Rule # 0 /\ Reduce(v) /\ DuringParse /\ pc = "parse" /\ yystate = 34
      /\ command_list # NoList /\ current_command' = current_command
  BY <1>1 DEF Marking
<1>3. Books /\ Stacked /\ Cells /\ Typed /\ Tokens /\ Lists /\ Marks /\ Leftover /\ Ordered
  BY DEF IInv, Told
<1>4. ContentKept
  BY <1>1, <1>3, BackgroundContent
<1>5. Tokens' /\ Ordered'
  BY <1>2, <1>3, <1>4, TokensReduced, OrderedReduced
<1>6. Lists'
  BY <1>1, <1>3, ListsMarked
<1>7. Marks'
  BY <1>1, <1>3, MarksMarked
<1>8. current_command = NULL
  BY <1>2, <1>3, NoneCurrent
<1>9. Leftover'
  BY <1>2, <1>8 DEF Leftover
<1> QED BY <1>4, <1>5, <1>6, <1>7, <1>9 DEF Told, ContentKept

LEMMA ReductionTold == IInv /\ Told /\ Reduction => Told'
<1> SUFFICES ASSUME IInv, Told, Reduction PROVE Told'
  OBVIOUS
<1>1. CASE ReduceWord
  BY <1>1, WordIs, AddsTold DEF Told
<1>2. CASE ReduceRedirect
  BY <1>2, RedirectionIs, AddsTold DEF Told
<1> QED BY <1>1, <1>2, PlainTold, SimpleTold, SubcommandTold, PipeTold, ListTold, AndOrTold,
           SequenceTold, BackgroundTold DEF Reduction

LEMMA ToldOutside ==
  ASSUME IInv, Told, Tokens', ContentKept, Len(cells') = Len(cells),
         UNCHANGED <<text, segment, current_command>>, yychar' \in {yychar, YYEMPTY}, pc' # "parse",
         \A c \in Cell : cells'[c].background => cells[c].background,
         current_command # NULL => cells' = cells /\ pc' = "ready"
  PROVE  Told'
<1>1. Books /\ Tokens /\ Marks /\ Leftover /\ Ordered
  BY DEF IInv, Told
<1>2. Lists'
  BY DEF Lists
<1>3. Marks'
  BY <1>1, MarksStay
<1>4. Leftover'
  BY <1>1, LeftoverOutside
<1>5. Ordered'
  BY <1>1, OrderedOutside
<1> QED BY <1>2, <1>3, <1>4, <1>5 DEF Told, ContentKept

LEMMA LexTold == IInv /\ IInv' /\ Told /\ Lex => Told'
<1> SUFFICES ASSUME IInv, IInv', Told, Lex PROVE Told'
  OBVIOUS
<1>1. Books /\ Books' /\ Stacked /\ Cells /\ Typed /\ Tokens /\ Lists /\ Marks /\ Leftover /\ Ordered
  BY DEF IInv, Told
<1>2. UNCHANGED <<heap, freed, stack, pc, cmd, result, history>>
  BY DEF Lex
<1>3. Typed'
  BY <1>1, <1>2 DEF Typed, Cell, heap
<1>4. Tokens' /\ Lists' /\ Ordered'
  BY <1>1, TokensLexed, ListsLexed, OrderedLexed
<1>5. \A n \in 1..Len(stack') : IsRoot(n)' => n \in 1..Len(stack) /\ IsRoot(n) /\ First(n)' = First(n)
  BY <1>2 DEF IsRoot, First
<1>6. Marks'
  BY <1>1, <1>2, <1>5, MarksStay DEF heap
<1>7. Len(stack) \in Nat /\ Len(stack') \in Nat /\ Len(stack') >= Len(stack)
  BY <1>1, <1>2, TopIs
<1>8. Leftover'
  BY <1>1, <1>2, <1>7, LeftoverStacked DEF history
<1> QED BY <1>3, <1>4, <1>6, <1>8 DEF Told

LEMMA ShiftTold == IInv /\ Told /\ Shift => Told'
<1> SUFFICES ASSUME IInv, Told, Shift PROVE Told'
  OBVIOUS
<1>1. Books /\ Stacked /\ Collects /\ Cells /\ Typed /\ Tokens /\ Lists /\ Marks /\ Leftover /\ Ordered
  BY DEF IInv, Told
<1>2. /\ pc = "parse" /\ UNCHANGED <<heap, freed, pc, cmd, result, text, history>>
      /\ Len(stack') = Len(stack) + 1 /\ Len(stack) \in Nat
      /\ \A n \in 1..Len(stack) : stack'[n] = stack[n]
      /\ yystate' = ShiftTo(yystate, yychar)
      /\ stack'[Len(stack) + 1].state = yystate'
      /\ yystate \in State /\ yychar \in 0..YYNTOKENS - 1 /\ Shifts(yystate, yychar)
  BY <1>1, ShiftIs
<1>3. Typed'
  BY <1>1, <1>2 DEF Typed, Cell, heap
<1>4. Tokens' /\ Lists' /\ Ordered'
  BY <1>1, TokensShifted, ListsShifted, OrderedShifted
<1>5. \A k : k = Len(stack') => ~ IsRoot(k)'
  <2>1. PICK s, t : s = yystate /\ t = yychar
    OBVIOUS
  <2>2. ShiftTo(s, t) \notin CommandStates \cup ListStates
    BY <1>2, <2>1, ShiftEdge
  <2>3. PICK k : k = Len(stack) + 1
    OBVIOUS
  <2>4. stack'[k].state = ShiftTo(s, t)
    BY <1>2, <2>1, <2>3
  <2>5. ~ IsRoot(k)'
    BY <2>2, <2>4 DEF IsRoot
  <2>6. k = Len(stack')
    BY <1>2, <2>3
  <2> QED BY <2>5, <2>6
<1>6. ASSUME NEW n \in 1..Len(stack'), IsRoot(n)'
      PROVE  n \in 1..Len(stack) /\ IsRoot(n) /\ First(n)' = First(n)
  <2>1. n \in 1..Len(stack)
    <3>1. n # Len(stack')
      BY <1>5, <1>6
    <3> QED BY <1>2, <3>1
  <2> QED BY <1>2, <1>6, <2>1 DEF IsRoot, First
<1>7. Marks'
  BY <1>1, <1>2, <1>6, MarksStay DEF heap
<1>8. Leftover'
  BY <1>1, <1>2, LeftoverStacked DEF history
<1> QED BY <1>3, <1>4, <1>7, <1>8 DEF Told

LEMMA ErrorTold == IInv /\ Told /\ SyntaxError => Told'
<1> SUFFICES ASSUME IInv, Told, SyntaxError PROVE Told'
  OBVIOUS
<1>1. /\ stack' = Start /\ yychar' = YYEMPTY /\ pc' = "ready" /\ pc' # "parse"
      /\ UNCHANGED <<heap, freed, cmd, text, segment, ran>>
  BY DEF SyntaxError
<1>2. Tokens'
  BY <1>1, TokensAtStart
<1>3. cells' = cells /\ current_command' = current_command
  BY <1>1 DEF heap
<1>4. ContentKept
  BY <1>3, SameContent DEF Told
<1> QED BY <1>1, <1>2, <1>3, <1>4, ToldOutside

LEMMA SegmentTold == IInv /\ Told /\ Segment => Told'
<1> SUFFICES ASSUME IInv, Told, Segment PROVE Told'
  OBVIOUS
<1>1. Books /\ Cells /\ Typed /\ Marks /\ Leftover /\ Ordered
  BY DEF IInv, Told
<1>2. /\ pc = "ready" /\ segment' = segment + 1 /\ text' = <<>> /\ command_list' = NoList
      /\ stack' = Start /\ yychar' = YYEMPTY /\ pc' = "parse"
      /\ cells' = cells /\ current_command' = current_command
  BY DEF Segment
<1>3. Tokens' /\ Lists'
  BY <1>2, TokensAtStart, ListsAtStart
<1>4. \A n \in 1..Len(stack') : ~ IsRoot(n)'
  <2>1. Len(Start) = 1 /\ Start[1].state = 0
    BY DEF Start
  <2> QED BY <1>2, <2>1, Apart DEF IsRoot
<1>5. Marks'
  BY <1>1, <1>2, <1>4, MarksStay
<1>6. Ordered' /\ \A c \in Cell : OwnWords(c)' = {}
  BY <1>1, <1>2, OrderedAtStart
<1>7. current_command # NULL => current_command \in Cell
  BY <1>1, CellsAre DEF Cells, NULL
<1>8. Leftover'
  BY <1>1, <1>2, <1>6, <1>7 DEF Leftover, OwnWords
<1>9. Typed'
  BY <1>1, <1>2 DEF Typed, Cell
<1> QED BY <1>3, <1>5, <1>6, <1>8, <1>9 DEF Told

\* Accept takes the mark of the list away, or nothing.
LEMMA AcceptIs ==
  ASSUME IInv, Told, Accept
  PROVE  /\ pc = "parse" /\ pc' # "parse" /\ yystate = YYFINAL
         /\ UNCHANGED <<current_command, command_list, freed, yyparse, text, segment>>
         /\ ContentKept /\ Len(cells') = Len(cells) /\ Cell' = Cell
         /\ \A c \in Cell : cells'[c].background => cells[c].background
         /\ current_command # NULL => cells' = cells /\ pc' = "ready"
         /\ command_list # NoList => current_command = NULL
<1>1. /\ pc = "parse" /\ yystate = YYFINAL /\ yystate \in {0, 1, 2, 14, 15, 34, 36}
      /\ UNCHANGED <<current_command, command_list, freed, yyparse, text, segment>>
  BY DEF Accept, YYFINAL
<1>2. command_list # NoList => current_command = NULL
  BY <1>1, NoneCurrent DEF IInv, Told
<1>3. CASE cells' = cells
  <2>1. ContentKept /\ Cell' = Cell
    BY <1>3, SameContent DEF Told
  <2>2. current_command # NULL => pc' = "ready"
    BY <1>2 DEF Accept
  <2>3. pc' # "parse"
    BY DEF Accept
  <2> QED BY <1>1, <1>2, <1>3, <2>1, <2>2, <2>3
<1>4. CASE command_list # NoList /\ cells' = [cells EXCEPT ![command_list.tail].background = FALSE]
  <2>1. PICK a, r : a = command_list.tail /\ r = [cells[a] EXCEPT !.background = FALSE]
    OBVIOUS
  <2>2. a \in Cell /\ cells[a] \in Command
    BY <1>4, <2>1, ListTail DEF Told, Typed
  <2>3. r \in Command /\ r.argv = cells[a].argv /\ r.redirects = cells[a].redirects /\ r.background = FALSE
    <3>1. PICK c : c = cells[a]
      OBVIOUS
    <3>2. c \in Command /\ r = [c EXCEPT !.background = FALSE]
      BY <2>1, <2>2, <3>1
    <3>3. r \in Command /\ r.argv = c.argv /\ r.redirects = c.redirects /\ r.background = FALSE
      BY <3>2 DEF Command
    <3> QED BY <3>1, <3>3
  <2>4. cells' = [cells EXCEPT ![a] = r]
    BY <1>4, <2>1
  <2>5. /\ ContentKept /\ Cell' = Cell /\ Len(cells') = Len(cells)
        /\ \A n \in Cell : cells'[n] = IF n = a THEN r ELSE cells[n]
    BY <2>2, <2>3, <2>4, RecordReplaced DEF IInv, Told
  <2>6. pc' # "parse"
    BY DEF Accept
  <2> QED BY <1>1, <1>2, <1>4, <2>3, <2>5, <2>6
<1>5. cells' = cells \/ (command_list # NoList /\ cells' = [cells EXCEPT ![command_list.tail].background = FALSE])
  BY DEF Accept
<1> QED BY <1>3, <1>4, <1>5

LEMMA AcceptTold == IInv /\ Told /\ Accept => Told'
<1> SUFFICES ASSUME IInv, Told, Accept PROVE Told'
  OBVIOUS
<1>1. /\ pc = "parse" /\ pc' # "parse" /\ UNCHANGED <<current_command, yyparse, text, segment>>
      /\ ContentKept /\ Len(cells') = Len(cells)
      /\ \A c \in Cell : cells'[c].background => cells[c].background
      /\ current_command # NULL => cells' = cells /\ pc' = "ready"
  BY AcceptIs
<1>2. yychar' = yychar
  BY <1>1 DEF yyparse
<1>3. Tokens'
  BY <1>1, <1>2, TokensOutside DEF Told
<1> QED BY <1>1, <1>2, <1>3, ToldOutside

\* The walk changes nothing of all that.
LEMMA WalkTold ==
  ASSUME IInv, Told, pc \in {"walk", "free"}, UNCHANGED <<cells, current_command, yychar, text, segment>>,
         pc' # "parse"
  PROVE  Told'
<1>1. ContentKept
  BY SameContent DEF Told
<1>2. current_command = NULL
  BY DEF Told, Leftover
<1>3. Tokens'
  BY TokensOutside DEF Told
<1> QED BY <1>1, <1>2, <1>3, ToldOutside

LEMMA ExecutionTold == IInv /\ Told /\ Execution => Told'
<1> SUFFICES ASSUME IInv, Told, Execution, ~ Accept PROVE Told'
  BY AcceptTold
<1>1. /\ pc \in {"walk", "free"} /\ pc' # "parse"
      /\ UNCHANGED <<cells, current_command, yyparse, text, segment>>
  BY DEF Execution, ExecutePipeline, ExecuteCommand, EndOfList, FreeList, DuringWalk, history
<1>2. UNCHANGED <<cells, current_command, yychar, text, segment>>
  BY <1>1 DEF yyparse
<1> QED BY <1>1, <1>2, WalkTold

LEMMA StutterTold == IInv /\ Told /\ UNCHANGED vars => Told'
<1> SUFFICES ASSUME Told, UNCHANGED vars PROVE Told'
  OBVIOUS
<1>1. UNCHANGED <<cells, current_command, command_list, stack, yychar, pc, text, segment>>
  BY DEF vars, heap, yyparse, history
<1>2. UNCHANGED <<Cell, Taken, Operators, yystate>>
  BY <1>1 DEF Cell, Taken, Operators, yystate
<1>3. Typed' /\ Tokens'
  BY <1>1, <1>2 DEF Told, Typed, Tokens
<1>4. Lists' /\ Marks'
  BY <1>1, <1>2 DEF Told, Lists, Marks, Marked, OneLine, IsRoot, First
<1>5. Leftover' /\ Ordered'
  BY <1>1, <1>2 DEF Told, Leftover, Ordered, Tidy, Own, WordsOf, InOrder, Apartfrom, OwnWords, Words,
                    Targets, InCommand
<1> QED BY <1>3, <1>4, <1>5 DEF Told

LEMMA ToldFirst == Init => Told
<1> SUFFICES ASSUME Init PROVE Told
  OBVIOUS
<1>1. /\ cells = <<>> /\ current_command = NULL /\ command_list = NoList /\ yychar = YYEMPTY /\ pc = "ready"
  BY DEF Init
<1>2. Cell = {}
  BY <1>1 DEF Cell
<1>3. pc # "parse" /\ yychar \in {EOF, YYEMPTY}
  BY <1>1
<1> QED BY <1>1, <1>2, <1>3 DEF Told, Typed, Tokens, Lists, Marks, Leftover, Ordered

LEMMA ToldNext == IInv /\ IInv' /\ Told /\ [Next]_vars => Told'
<1> SUFFICES ASSUME IInv, IInv', Told, [Next]_vars PROVE Told'
  OBVIOUS
<1> QED BY SegmentTold, LexTold, ShiftTold, ErrorTold, ReductionTold, ExecutionTold, StutterTold
        DEF Next, Step

-----------------------------------------------------------------------------
(* The commands of the segment.                                                *)

\* What a reduction may bring: a new command, another word for current_command.
Brought(v) ==
  /\ pc = "parse" /\ DuringParse /\ RootsStay(v)
  /\ Rule \in 15..19 => v \in {current_command, Len(cells) + 1} \ {NULL}
  /\ current_command' \in {NULL, current_command, Len(cells) + 1}
  /\ command_list' # NoList =>
       \/ command_list # NoList /\ command_list'.head = command_list.head
       \/ \E n \in 1..Len(stack) : IsRoot(n) /\ command_list'.head = First(n)
  /\ Len(cells) \in Nat /\ Len(cells') \in Nat /\ Len(cells') >= Len(cells)
  /\ \A c \in Cell : WordsOf(cells'[c]) \subseteq WordsOf(cells[c]) \cup {Word(Taken)}
  /\ \A c \in Cell' : c \notin Cell => WordsOf(cells'[c]) \subseteq {Word(Taken)}

LEMMA ContentWords ==
  ASSUME Cells, ContentKept, Len(cells') \in Nat
  PROVE  /\ Len(cells) \in Nat /\ Len(cells') >= Len(cells)
         /\ \A c \in Cell : WordsOf(cells'[c]) \subseteq WordsOf(cells[c]) \cup {Word(Taken)}
         /\ \A c \in Cell' : c \notin Cell => WordsOf(cells'[c]) \subseteq {Word(Taken)}
<1>1. Len(cells) \in Nat /\ Cell = 1..Len(cells)
  BY CellsAre
<1>2. Len(cells') >= Len(cells)
  <2>1. Cell' = 1..Len(cells')
    BY DEF Cell
  <2>2. CASE Len(cells) = 0
    BY <1>1, <2>2
  <2>3. CASE Len(cells) # 0
    <3>1. Len(cells) \in Cell
      BY <1>1, <2>3
    <3>2. Len(cells) \in 1..Len(cells')
      BY <2>1, <3>1 DEF ContentKept
    <3> QED BY <3>2
  <2> QED BY <2>2, <2>3
<1>3. \A c \in Cell : WordsOf(cells'[c]) = WordsOf(cells[c])
  BY SameWords DEF ContentKept
<1>4. \A c \in Cell' : c \notin Cell => WordsOf(cells'[c]) = {}
  BY TidyNothing DEF ContentKept
<1> QED BY <1>1, <1>2, <1>3, <1>4

LEMMA PlainBrings == IInv /\ Told /\ (ReducePlain \/ ReduceList) => \E v : Brought(v)
<1> SUFFICES ASSUME IInv, Told, ReducePlain \/ ReduceList PROVE \E v : Brought(v)
  OBVIOUS
<1>1. \E v : /\ Rule # 0 /\ Rule \notin 15..19 /\ Reduce(v) /\ UNCHANGED heap /\ DuringParse /\ RootsStay(v)
  <2>1. CASE ReduceList
    <3>1. PICK v : v = [head |-> yyvsp(1), tail |-> yyvsp(1)]
      OBVIOUS
    <3>2. Rule = 9 /\ Reduce(v) /\ UNCHANGED heap /\ DuringParse
      BY <2>1, <3>1 DEF ReduceList
    <3>3. Rule # 0 /\ Rule \notin 15..19 /\ Rule \in {9, 12, 14}
      BY <3>2
    <3>4. RootsStay(v)
      BY <3>1, <3>2, <3>3, RootsStaySame DEF IInv
    <3> QED BY <3>2, <3>3, <3>4
  <2>2. CASE ReducePlain
    <3>1. PICK v : v = IF At(yyr2, Rule) = 0 THEN NULL ELSE yyvsp(1)
      OBVIOUS
    <3>2. /\ Rule \in {2, 3, 4, 5, 12, 14, 20, 21, 22, 23, 24, 25}
          /\ Reduce(v) /\ UNCHANGED heap /\ DuringParse
      BY <2>2, <3>1 DEF ReducePlain
    <3>3. Rule # 0 /\ Rule \notin 15..19
      BY <3>2
    <3>4. CASE Rule \in {12, 14}
      <4>1. At(yyr2, Rule) = 1
        BY <3>4, Lengths9to19
      <4>2. v = yyvsp(1) /\ Rule \in {9, 12, 14} /\ Rule # 9
        BY <3>1, <3>4, <4>1
      <4> QED BY <3>2, <3>3, <4>2, RootsStaySame DEF IInv
    <3>5. CASE Rule \notin {12, 14}
      <4>1. Rule \notin 9..19
        BY <3>2, <3>5
      <4> QED BY <3>2, <3>3, <4>1, RootsStayNone DEF IInv
    <3> QED BY <3>4, <3>5
  <2> QED BY <2>1, <2>2
<1>2. PICK v : /\ Rule # 0 /\ Rule \notin 15..19 /\ Reduce(v) /\ UNCHANGED heap /\ DuringParse /\ RootsStay(v)
  BY <1>1
<1>3. pc = "parse"
  BY <1>2, RuleIs DEF IInv
<1>4. cells' = cells /\ current_command' = current_command /\ command_list' = command_list
  BY <1>2 DEF heap
<1>5. ContentKept /\ Len(cells') \in Nat /\ Len(cells) \in Nat /\ Cells
  BY <1>4, SameContent, CellsAre DEF IInv, Told
<1>6. Brought(v)
  BY <1>2, <1>3, <1>4, <1>5, ContentWords DEF Brought
<1> QED BY <1>6

LEMMA CommandBrings == IInv /\ Told /\ (ReduceSimpleCommand \/ ReduceSubcommand) => \E v : Brought(v)
<1> SUFFICES ASSUME IInv, Told, ReduceSimpleCommand \/ ReduceSubcommand PROVE \E v : Brought(v)
  OBVIOUS
<1>1. CASE ReduceSimpleCommand
  <2>1. PICK v : v = current_command
    OBVIOUS
  <2>2. /\ Rule \in 16..19 /\ Rule # 0 /\ Rule \in 16..25 /\ Rule \in 15..19
        /\ Reduce(v) /\ current_command' = NULL /\ cells' = cells
        /\ command_list' = command_list /\ DuringParse
    BY <1>1, <2>1 DEF ReduceSimpleCommand
  <2>3. ContentKept /\ Len(cells') \in Nat /\ Len(cells) \in Nat /\ Cells
    BY <2>2, SameContent, CellsAre DEF IInv, Told
  <2>4. RootsStay(v) /\ pc = "parse" /\ v # NULL
    BY <2>1, <2>2, RootsStayMade, CurrentBefore, RuleIs DEF IInv
  <2>5. Brought(v)
    BY <2>1, <2>2, <2>3, <2>4, ContentWords DEF Brought
  <2> QED BY <2>5
<1>2. CASE ReduceSubcommand
  <2>1. PICK v : v = Len(cells')
    OBVIOUS
  <2>2. /\ Rule = 15 /\ Rule # 0 /\ Rule \in 15..19 /\ Reduce(v) /\ current_command' = current_command
        /\ command_list' = command_list /\ DuringParse
    BY <1>2, <2>1 DEF ReduceSubcommand
  <2>3. ContentKept /\ Len(cells') = Len(cells) + 1 /\ Len(cells) \in Nat /\ Cells
    BY <1>2, SubcommandContent DEF IInv, Told
  <2>4. RootsStay(v) /\ pc = "parse" /\ v = Len(cells) + 1 /\ Len(cells') \in Nat /\ v # NULL
    BY <2>1, <2>2, <2>3, RootsStayMade, RuleIs DEF IInv, NULL
  <2>5. Brought(v)
    BY <2>1, <2>2, <2>3, <2>4, ContentWords DEF Brought
  <2> QED BY <2>5
<1> QED BY <1>1, <1>2

LEMMA LinkBrings == IInv /\ Told /\ (ReducePipe \/ ReduceAndOr) => \E v : Brought(v)
<1> SUFFICES ASSUME IInv, Told, ReducePipe \/ ReduceAndOr PROVE \E v : Brought(v)
  OBVIOUS
<1>1. \E v : /\ Rule \in {10, 11, 13} /\ pc = "parse" /\ ContentKept /\ Len(cells') = Len(cells) /\ DuringParse
             /\ RootsStay(v) /\ UNCHANGED <<current_command, command_list>>
  <2>1. CASE ReducePipe
    <3>1. PICK G, m, f, a, b : Piping(G, m, f, a, b)
      BY <2>1, PipeIs
    <3>2. Rule \in {10, 11, 13} /\ pc = "parse" /\ UNCHANGED <<current_command, command_list>> /\ DuringParse
      BY <3>1 DEF Piping
    <3>3. ContentKept /\ Len(cells') = Len(cells) /\ RootsStay(f)
      BY <3>1, PipeContent, RootsStayPiped DEF IInv, Told
    <3> QED BY <3>2, <3>3
  <2>2. CASE ReduceAndOr
    <3>1. PICK G, m, f, a, b : Joining(G, m, f, a, b)
      BY <2>2, AndOrIs
    <3>2. PICK v : v = [head |-> f, tail |-> b]
      OBVIOUS
    <3>3. Rule \in {10, 11, 13} /\ pc = "parse" /\ UNCHANGED <<current_command, command_list>> /\ DuringParse
      BY <3>1 DEF Joining
    <3>4. ContentKept /\ Len(cells') = Len(cells) /\ RootsStay(v)
      BY <3>1, <3>2, AndOrContent, RootsStayJoined DEF IInv, Told
    <3> QED BY <3>3, <3>4
  <2> QED BY <2>1, <2>2
<1>2. PICK v : /\ Rule \in {10, 11, 13} /\ pc = "parse" /\ ContentKept /\ Len(cells') = Len(cells) /\ DuringParse
               /\ RootsStay(v) /\ UNCHANGED <<current_command, command_list>>
  BY <1>1
<1>3. Len(cells') \in Nat /\ Cells
  BY <1>2, CellsAre DEF IInv
<1>4. Rule \notin 15..19
  BY <1>2
<1>5. Brought(v)
  BY <1>2, <1>3, <1>4, ContentWords DEF Brought
<1> QED BY <1>5

LEMMA ListBrings == IInv /\ Told /\ (ReduceSequence \/ ReduceBackground) => \E v : Brought(v)
<1> SUFFICES ASSUME IInv, Told, ReduceSequence \/ ReduceBackground PROVE \E v : Brought(v)
  OBVIOUS
<1>1. CASE ReduceSequence
  <2>1. PICK G, f, t : Sequencing(G, f, t)
    BY <1>1, SequenceIs
  <2>2. PICK v : v = [head |-> f, tail |-> t]
    OBVIOUS
  <2>3. /\ Rule = 6 /\ Rule # 0 /\ Rule \notin 15..19 /\ Rule \notin 9..19 /\ Reduce(v) /\ DuringParse /\ pc = "parse"
        /\ current_command' = current_command /\ Len(stack) = 3 /\ IsRoot(3) /\ f = First(3)
        /\ command_list = NoList => command_list' = [head |-> f, tail |-> t]
        /\ command_list # NoList => command_list' = [head |-> command_list.head, tail |-> t]
    BY <2>1, <2>2 DEF Sequencing
  <2>4. ContentKept /\ Len(cells') = Len(cells) /\ RootsStay(v) /\ Cells
    BY <2>1, <2>3, SequenceContent, RootsStayNone DEF IInv, Told
  <2>5. Len(cells') \in Nat
    BY <2>4, CellsAre
  <2>6. \/ command_list # NoList /\ command_list'.head = command_list.head
        \/ \E n \in 1..Len(stack) : IsRoot(n) /\ command_list'.head = First(n)
    <3>1. 3 \in 1..Len(stack)
      BY <2>3
    <3> QED BY <2>3, <3>1
  <2>7. Brought(v)
    BY <2>3, <2>4, <2>5, <2>6, ContentWords DEF Brought
  <2> QED BY <2>7
<1>2. CASE ReduceBackground
  <2>1. PICK G, a, v : Marking(G, a, v)
    BY <1>2, BackgroundIs DEF Told
  <2>2. /\ Rule = 8 /\ Rule # 0 /\ Rule \notin 15..19 /\ Rule \notin 9..19 /\ Reduce(v) /\ DuringParse /\ pc = "parse"
        /\ UNCHANGED <<current_command, command_list>>
    BY <2>1 DEF Marking
  <2>3. ContentKept /\ Len(cells') = Len(cells) /\ RootsStay(v) /\ Cells
    BY <2>1, <2>2, BackgroundContent, RootsStayNone DEF IInv, Told
  <2>4. Len(cells') \in Nat
    BY <2>3, CellsAre
  <2>5. Brought(v)
    BY <2>2, <2>3, <2>4, ContentWords DEF Brought
  <2> QED BY <2>5
<1> QED BY <1>1, <1>2

LEMMA WordBrings == IInv /\ Told /\ (ReduceWord \/ ReduceRedirect) => \E v : Brought(v)
<1> SUFFICES ASSUME IInv, Told, ReduceWord \/ ReduceRedirect PROVE \E v : Brought(v)
  OBVIOUS
<1>1. PICK new, old, v : Adds(new, old, v)
  BY WordIs, RedirectionIs DEF Told
<1>2. PICK c, r, o : Grown(c, r, o)
  BY <1>1, AddsContent DEF IInv, Told
<1>3. /\ Rule \in 26..40 /\ Rule # 0 /\ Rule \notin 9..19 /\ Rule \notin 15..19 /\ pc = "parse" /\ Reduce(v)
      /\ DuringParse /\ command_list' = command_list
  BY <1>1 DEF Adds
<1>4. RootsStay(v)
  BY <1>3, RootsStayNone DEF IInv
<1>5. Len(cells) \in Nat /\ Len(cells') \in Nat /\ Len(cells') >= Len(cells)
  <2>1. Len(cells) \in Nat
    BY CellsAre DEF IInv
  <2>2. Len(cells') = Len(cells) + 1 \/ Len(cells') = Len(cells)
    BY <1>2 DEF Grown
  <2> QED BY <2>1, <2>2
<1>6. current_command' \in {current_command, Len(cells) + 1}
  BY <1>2 DEF Grown
<1>7. WordsOf(r) \subseteq WordsOf(o) \cup {Word(Taken)}
  BY <1>2 DEF Grown, More
<1>8. ASSUME NEW d \in Cell PROVE WordsOf(cells'[d]) \subseteq WordsOf(cells[d]) \cup {Word(Taken)}
  <2>1. d # c => cells'[d] = cells[d]
    BY <1>2, <1>8 DEF Grown
  <2>2. d = c => cells'[d] = r /\ o = cells[d]
    BY <1>2, <1>8 DEF Grown
  <2> QED BY <1>7, <2>1, <2>2
<1>9. ASSUME NEW d \in Cell', d \notin Cell PROVE WordsOf(cells'[d]) \subseteq {Word(Taken)}
  <2>1. d = c /\ cells'[d] = r /\ o = NewCommand
    BY <1>2, <1>9 DEF Grown
  <2> QED BY <1>7, <2>1, NewIs
<1>10. Brought(v)
  BY <1>3, <1>4, <1>5, <1>6, <1>8, <1>9 DEF Brought
<1> QED BY <1>10

LEMMA TimelyMore ==
  ASSUME NEW c, NEW until, WordsOf(cells'[c]) \subseteq WordsOf(cells[c]) \cup {Word(Taken)},
         Timely(c, until), fruitless \subseteq fruitless', segment \in Nat, until = segment - 1
  PROVE  \A w \in Words(c)' : w.segment..until \subseteq fruitless'
<1>1. Words(c)' = WordsOf(cells'[c])
  BY DEF Words, Targets, WordsOf
<1>2. Words(c) = WordsOf(cells[c])
  BY WordsAre
<1>3. Word(Taken).segment..until \subseteq fruitless'
  <2>1. Word(Taken).segment = segment
    BY DEF Word
  <2> QED BY <2>1
<1> QED BY <1>1, <1>2, <1>3 DEF Timely

LEMMA BroughtSince ==
  ASSUME IInv, NEW base \in Nat, base <= Len(cells), NEW v, Brought(v), Since(base)
  PROVE  base <= Len(cells') /\ Since(base)' /\ ran' = <<>>
<1>1. /\ pc = "parse" /\ UNCHANGED <<pc, cmd, text, segment, fruitless, ran>>
      /\ Len(cells) \in Nat /\ Len(cells') \in Nat /\ Len(cells') >= Len(cells)
      /\ Cell = 1..Len(cells) /\ Cell' = 1..Len(cells')
  BY CellsAre DEF IInv, Brought, DuringParse, history, Cell
<1>2. segment \in Nat
  BY SessionIs DEF IInv, Books
<1>3. Younger(base)'
  <2>1. current_command' # NULL => current_command' > base
    BY <1>1 DEF Brought, Since, Younger
  <2>2. ASSUME NEW n \in 1..Len(stack'), IsRoot(n)' PROVE First(n)' > base
    <3>1. CASE n \in 1..Len(stack) /\ IsRoot(n) /\ First(n)' = First(n)
      BY <1>1, <3>1 DEF Since, Younger
    <3>2. CASE Rule \in 15..19 /\ First(n)' = v
      <4>1. v > base
        BY <1>1, <3>2 DEF Brought, Since, Younger
      <4> QED BY <3>2, <4>1
    <3> QED BY <2>2, <3>1, <3>2 DEF Brought, RootsStay
  <2>3. command_list' # NoList => command_list'.head > base
    BY <1>1 DEF Brought, Since, Younger
  <2> QED BY <1>1, <2>1, <2>2, <2>3 DEF Younger
<1>4. ASSUME NEW c \in Cell', c > base PROVE Timely(c, segment - 1)'
  <2>1. PICK until : until = segment - 1
    OBVIOUS
  <2>2. CASE c \in Cell
    <3>1. Timely(c, until) /\ WordsOf(cells'[c]) \subseteq WordsOf(cells[c]) \cup {Word(Taken)}
      BY <1>4, <2>1, <2>2 DEF Since, Brought
    <3>2. \A w \in Words(c)' : w.segment..until \subseteq fruitless'
      BY <1>1, <1>2, <2>1, <3>1, TimelyMore
    <3> QED BY <1>1, <2>1, <3>2 DEF Timely
  <2>3. CASE c \notin Cell
    <3>1. Words(c)' \subseteq {Word(Taken)}
      BY <2>3 DEF Brought, Words, Targets, WordsOf
    <3>2. Word(Taken).segment = segment
      BY DEF Word
    <3> QED BY <1>1, <1>2, <3>1, <3>2 DEF Timely
  <2> QED BY <2>2, <2>3
<1>5. ran' = <<>>
  BY <1>1 DEF Since
<1>6. base <= Len(cells')
  BY <1>1
<1> QED BY <1>1, <1>3, <1>4, <1>5, <1>6 DEF Since

LEMMA SameSince ==
  ASSUME NEW base, Since(base), pc = "parse", pc' = "parse", UNCHANGED <<heap, history>>,
         \A n \in 1..Len(stack') : IsRoot(n)' => n \in 1..Len(stack) /\ IsRoot(n) /\ First(n)' = First(n)
  PROVE  Since(base)' /\ ran' = <<>>
<1>1. UNCHANGED <<cells, current_command, command_list, segment, fruitless, ran, Cell>>
  BY DEF heap, history, Cell
<1>2. Younger(base)'
  BY <1>1 DEF Since, Younger
<1>3. \A c \in Cell : c > base => Timely(c, segment - 1)'
  BY <1>1 DEF Since, Timely, Words, Targets
<1> QED BY <1>1, <1>2, <1>3 DEF Since

LEMMA LexSince ==
  ASSUME IInv, NEW base, Since(base), Lex
  PROVE  Since(base)' /\ ran' = <<>>
<1>1. pc = "parse" /\ pc' = "parse" /\ UNCHANGED <<heap, stack, history>>
  BY DEF Lex, Parsing
<1>2. \A n \in 1..Len(stack') : IsRoot(n)' => n \in 1..Len(stack) /\ IsRoot(n) /\ First(n)' = First(n)
  BY <1>1 DEF IsRoot, First
<1> QED BY <1>1, <1>2, SameSince

LEMMA ShiftSince ==
  ASSUME IInv, Tokens, NEW base, Since(base), Shift
  PROVE  Since(base)' /\ ran' = <<>>
<1>1. /\ pc = "parse" /\ pc' = "parse" /\ UNCHANGED <<heap, history>>
      /\ Len(stack') = Len(stack) + 1 /\ Len(stack) \in Nat
      /\ \A n \in 1..Len(stack) : stack'[n] = stack[n]
      /\ yystate' = ShiftTo(yystate, yychar)
      /\ stack'[Len(stack) + 1].state = yystate'
      /\ yystate \in State /\ yychar \in 0..YYNTOKENS - 1 /\ Shifts(yystate, yychar)
  BY ShiftIs DEF IInv
<1>2. \A k : k = Len(stack') => ~ IsRoot(k)'
  <2>1. PICK s, t : s = yystate /\ t = yychar
    OBVIOUS
  <2>2. ShiftTo(s, t) \notin CommandStates \cup ListStates
    BY <1>1, <2>1, ShiftEdge
  <2>3. PICK k : k = Len(stack) + 1
    OBVIOUS
  <2>4. stack'[k].state = ShiftTo(s, t)
    BY <1>1, <2>1, <2>3
  <2>5. ~ IsRoot(k)'
    BY <2>2, <2>4 DEF IsRoot
  <2>6. k = Len(stack')
    BY <1>1, <2>3
  <2> QED BY <2>5, <2>6
<1>3. ASSUME NEW n \in 1..Len(stack'), IsRoot(n)'
      PROVE  n \in 1..Len(stack) /\ IsRoot(n) /\ First(n)' = First(n)
  <2>1. n \in 1..Len(stack)
    <3>1. n # Len(stack')
      BY <1>2, <1>3
    <3> QED BY <1>1, <3>1
  <2> QED BY <1>1, <1>3, <2>1 DEF IsRoot, First
<1> QED BY <1>1, <1>3, SameSince

\* A segment that gives no command: what it leaves behind is timely still.
LEMMA FruitlessSince ==
  ASSUME IInv, Told, NEW base, Since(base), pc = "parse", pc' = "ready",
         UNCHANGED <<cells, current_command, segment, ran>>, fruitless' = fruitless \cup {segment},
         command_list' # NoList => command_list' = command_list
  PROVE  Since(base)' /\ ran' = <<>>
<1>1. Cell' = Cell
  BY DEF Cell
<1>2. Younger(base)'
  BY DEF Since, Younger
<1>3. \A c \in Cell : c > base => Timely(c, segment - 1)'
  BY <1>1 DEF Since, Timely, Words, Targets
<1>4. segment \in Nat
  BY SessionIs DEF IInv, Books
<1>5. ASSUME current_command # NULL PROVE Timely(current_command, segment)'
  <2>1. PICK c : c = current_command
    OBVIOUS
  <2>2. c \in Cell
    BY <1>5, <2>1, CellsAre DEF IInv, Cells, NULL
  <2>3. c > base /\ Timely(c, segment - 1)
    BY <1>5, <2>1, <2>2 DEF Since, Younger
  <2>4. ASSUME NEW w \in Words(c) PROVE w.segment..segment \subseteq fruitless'
    <3>1. w.segment..segment - 1 \subseteq fruitless
      BY <2>3 DEF Timely
    <3>2. w.segment \in Nat
      <4>1. cells[c] \in Command /\ Words(c) = WordsOf(cells[c])
        BY <2>2, WordsAre DEF Told, Typed
      <4> QED BY <4>1, WordIn
    <3>3. \A k \in w.segment..segment : k \in w.segment..segment - 1 \/ k = segment
      BY <1>4, <3>2
    <3> QED BY <3>1, <3>3
  <2>5. Words(c)' = Words(c)
    BY DEF Words, Targets
  <2> QED BY <2>1, <2>4, <2>5 DEF Timely
<1> QED BY <1>1, <1>2, <1>3, <1>5 DEF Since

\* A segment begins: its commands are those to come, and what was left behind.
LEMMA SegmentSince ==
  ASSUME IInv, Told, NEW old, Since(old), Segment
  PROVE  \E base \in Nat : /\ base = IF current_command # NULL THEN current_command - 1 ELSE Len(cells)
                           /\ base <= Len(cells') /\ Since(base)' /\ ran' = <<>>
<1>1. /\ pc = "ready" /\ segment' = segment + 1 /\ ran' = <<>> /\ command_list' = NoList
      /\ stack' = Start /\ pc' = "parse"
      /\ cells' = cells /\ current_command' = current_command /\ fruitless' = fruitless
  BY DEF Segment
<1>2. Len(cells) \in Nat /\ Cell = 1..Len(cells) /\ Cell' = Cell /\ segment \in Nat
      /\ current_command \in 0..Len(cells)
  BY <1>1, CellsAre, SessionIs DEF IInv, Cells, Cell, Books
<1>3. PICK base : base = IF current_command # NULL THEN current_command - 1 ELSE Len(cells)
  OBVIOUS
<1>4. base \in Nat /\ base <= Len(cells) /\ (current_command # NULL => current_command > base)
  BY <1>2, <1>3 DEF NULL
<1>5. \A n \in 1..Len(stack') : ~ IsRoot(n)'
  <2>1. Len(Start) = 1 /\ Start[1].state = 0
    BY DEF Start
  <2> QED BY <1>1, <2>1, Apart DEF IsRoot
<1>6. Younger(base)'
  BY <1>1, <1>4, <1>5 DEF Younger
<1>7. ASSUME NEW c \in Cell, c > base PROVE Timely(c, segment - 1)'
  <2>1. c = current_command /\ current_command # NULL
    <3>1. current_command # NULL => current_command = Len(cells)
      BY DEF Told, Leftover
    <3> QED BY <1>2, <1>3, <1>7, <3>1
  <2>2. Timely(c, segment)
    BY <1>1, <2>1 DEF Since
  <2>3. segment' - 1 = segment
    BY <1>1, <1>2
  <2> QED BY <1>1, <2>2, <2>3 DEF Timely, Words, Targets
<1> QED BY <1>1, <1>2, <1>3, <1>4, <1>6, <1>7 DEF Since

-----------------------------------------------------------------------------
(* What is executed is of the segment.                                         *)

LEMMA YoungerClosed ==
  ASSUME Cells, NEW base \in Nat
  PROVE  Closed({c \in Cell : c > base})
<1>1. Len(cells) \in Nat /\ Cell = 1..Len(cells)
  BY CellsAre
<1>2. ASSUME NEW c \in Cell, c > base PROVE next(c) = NULL \/ (next(c) \in Cell /\ next(c) > base)
  BY <1>1, <1>2 DEF Cells
<1> QED BY <1>2 DEF Closed

LEMMA RanSinceKept ==
  ASSUME NEW base, RanSince(base), UNCHANGED <<ran, text>>, Cell \subseteq Cell'
  PROVE  RanSince(base)'
BY DEF RanSince, OneLine, Ampersand

LEMMA NothingSince ==
  ASSUME NEW base, ran' = <<>>
  PROVE  RanSince(base)'
BY DEF RanSince

LEMMA RanSinceLonger ==
  ASSUME Books, NEW base, RanSince(base), UNCHANGED text, Cell' = Cell,
         NEW stages, NEW ok, NEW background, NEW title, Executed(stages, ok, background, title),
         stages # <<>>, \A c \in ToSet(stages) : c \in Cell /\ c > base,
         OneLine => (background <=> Ampersand)
  PROVE  RanSince(base)'
<1> DEFINE e == [stages |-> stages, status |-> result', ok |-> ok,
                 background |-> background, title |-> title]
<1>1. ran' = Append(ran, e) /\ e.stages = stages /\ e.background = background
  BY DEF Executed
<1> HIDE DEF e
<1>2. Sequence(ran) /\ Len(ran) \in Nat /\ DOMAIN ran = 1..Len(ran)
  BY Lengths DEF Books
<1>3. PICK x : x = e
  OBVIOUS
<1>4. /\ Sequence(ran') /\ Len(ran') = Len(ran) + 1
      /\ \A n \in 1..Len(ran) : ran'[n] = ran[n]
      /\ ran'[Len(ran) + 1] = x
  BY <1>1, <1>2, <1>3, Appending
<1>5. DOMAIN ran' = 1..Len(ran) + 1
  BY <1>4, Lengths
<1>6. (OneLine' <=> OneLine) /\ (Ampersand' <=> Ampersand)
  BY DEF OneLine, Ampersand
<1>7. ASSUME NEW n \in DOMAIN ran'
      PROVE  /\ ran'[n].stages # <<>> /\ \A c \in ToSet(ran'[n].stages) : c \in Cell /\ c > base
             /\ OneLine => (ran'[n].background <=> Ampersand)
  <2>1. CASE n = Len(ran) + 1
    BY <1>1, <1>3, <1>4, <2>1
  <2>2. CASE n # Len(ran) + 1
    <3>1. n \in DOMAIN ran /\ ran'[n] = ran[n]
      BY <1>2, <1>4, <1>5, <2>2
    <3> QED BY <3>1 DEF RanSince
  <2> QED BY <2>1, <2>2
<1> QED BY <1>6, <1>7 DEF RanSince

\* The commands that the links lead to from a command of the segment.
LEMMA ChainSince ==
  ASSUME Cells, NEW base \in Nat, NEW c \in Cell, c > base
  PROVE  /\ Chain(c) # <<>> /\ \A d \in ToSet(Chain(c)) : d \in Cell /\ d > base
         /\ Stages(c) # <<>> /\ \A d \in ToSet(Stages(c)) : d \in Cell /\ d > base
         /\ Last(Stages(c)) \in Cell /\ Last(Stages(c)) > base
<1>1. PICK S : S = {d \in Cell : d > base}
  OBVIOUS
<1>2. Closed(S) /\ c \in S
  BY <1>1, YoungerClosed
<1>3. /\ Chain(c) \in Seq(S) /\ Chain(c) # <<>>
      /\ Stages(c) \in Seq(S) /\ Stages(c) # <<>>
  BY <1>2, ChainIn
<1>4. ToSet(Chain(c)) \subseteq S /\ ToSet(Stages(c)) \subseteq S /\ Last(Stages(c)) \in S
  BY <1>3, MembersIn
<1> QED BY <1>1, <1>3, <1>4

LEMMA AcceptSince ==
  ASSUME IInv, Told, NEW base \in Nat, Since(base), Accept
  PROVE  Since(base)' /\ RanSince(base)'
<1>1. /\ pc = "parse" /\ yystate = YYFINAL
      /\ UNCHANGED <<current_command, command_list, text, segment>>
      /\ ContentKept /\ Cell' = Cell /\ ran = <<>>
      /\ command_list # NoList => current_command = NULL
  BY AcceptIs DEF Since
<1>2. CASE command_list = NoList
  <2>1. /\ pc' = "ready" /\ fruitless' = fruitless \cup {segment} /\ UNCHANGED <<cells, ran>>
    BY <1>2 DEF Accept
  <2> QED BY <1>1, <2>1, FruitlessSince, NothingSince
<1>3. CASE command_list # NoList
  <2>1. PICK h, a : h = command_list.head /\ a = command_list.tail
    OBVIOUS
  <2>2. h \in Cell /\ a \in Cell /\ h > base /\ cmd' = h /\ fruitless' = fruitless /\ current_command' = NULL
    BY <1>1, <1>3, <2>1, ListTail DEF Accept, Since, Younger
  <2>3. \A c \in Cell : Words(c)' = Words(c)
    <3>1. \A c \in Cell : WordsOf(cells'[c]) = WordsOf(cells[c])
      <4> TAKE c \in Cell
      <4>1. PICK r, d : r = cells'[c] /\ d = cells[c]
        OBVIOUS
      <4>2. r.argv = d.argv /\ r.redirects = d.redirects
        BY <1>1, <4>1 DEF ContentKept
      <4> QED BY <4>1, <4>2, SameWords
    <3> QED BY <3>1 DEF Words, Targets, WordsOf
  <2>4. \A c \in Cell' : c > base => Timely(c, segment - 1)'
    BY <1>1, <2>2, <2>3 DEF Since, Timely
  <2>5. OneLine => (cells[a].background <=> Ampersand)
    <3>1. yychar \in {EOF, YYEMPTY}
      BY <1>1 DEF Told, Tokens, YYFINAL
    <3>2. Taken = Len(text)
      BY <3>1 DEF Taken
    <3>3. OneLine => Taken >= 1 /\ (cells[a].background <=> text[Taken] = AMPERSAND)
      BY <1>1, <1>3, <2>1 DEF Told, Lists, Between, Marked, YYFINAL
    <3>4. Taken >= 1 => text # <<>>
      BY <3>2, TextIs, Lengths DEF IInv
    <3> QED BY <3>2, <3>3, <3>4 DEF Ampersand, Last
  <2>6. CASE cells[a].background
    <3>1. pc' \in {"free", "ready"}
      BY <1>3, <2>1, <2>6 DEF Accept
    <3>2. Since(base)'
      BY <1>1, <2>1, <2>2, <2>4, <3>1 DEF Since, Younger
    <3>3. \E ok, title : Executed(Chain(h), ok, TRUE, title)
      BY <1>3, <2>1, <2>6 DEF Accept
    <3>4. RanSince(base)
      BY <1>1 DEF RanSince
    <3>5. Chain(h) # <<>> /\ \A d \in ToSet(Chain(h)) : d \in Cell /\ d > base
      BY <2>2, ChainSince DEF IInv
    <3>6. RanSince(base)'
      <4>1. PICK ok, title, s : Executed(s, ok, TRUE, title) /\ s = Chain(h)
        BY <3>3
      <4>2. OneLine => (TRUE <=> Ampersand)
        BY <2>5, <2>6
      <4> QED BY <1>1, <3>4, <3>5, <4>1, <4>2, RanSinceLonger DEF IInv
    <3> QED BY <3>2, <3>6
  <2>7. CASE ~ cells[a].background
    <3>1. pc' = "walk" /\ ran' = ran
      BY <1>3, <2>1, <2>7 DEF Accept
    <3>2. OneLine' => ~ Ampersand'
      BY <1>1, <2>5, <2>7 DEF OneLine, Ampersand
    <3>3. Since(base)'
      BY <1>1, <2>1, <2>2, <2>4, <3>1, <3>2 DEF Since, Younger
    <3> QED BY <1>1, <3>1, <3>3, NothingSince
  <2> QED BY <2>6, <2>7
<1> QED BY <1>2, <1>3

LEMMA WalkSince ==
  ASSUME IInv, Told, NEW base, Since(base), pc \in {"walk", "free"}, pc' # "parse",
         UNCHANGED <<cells, current_command, text, segment, fruitless>>,
         command_list' # NoList => command_list' = command_list,
         pc' = "walk" => pc = "walk" /\ (cmd' = NULL \/ cmd' > base)
  PROVE  Since(base)'
<1>1. current_command = NULL
  BY DEF Told, Leftover
<1>2. Younger(base)'
  BY <1>1 DEF Since, Younger
<1>3. \A c \in Cell' : c > base => Timely(c, segment - 1)'
  BY DEF Since, Timely, Words, Targets, Cell
<1>4. pc' = "walk" /\ OneLine' => ~ Ampersand'
  BY DEF Since, OneLine, Ampersand
<1> QED BY <1>1, <1>2, <1>3, <1>4 DEF Since

LEMMA NextSince ==
  ASSUME Cells, NEW base \in Nat, NEW c \in Cell, c > base
  PROVE  next(c) = NULL \/ next(c) > base
BY YoungerClosed DEF Closed

LEMMA PipelineSince ==
  ASSUME IInv, Told, NEW base \in Nat, Since(base), RanSince(base), ExecutePipeline
  PROVE  Since(base)' /\ RanSince(base)'
<1>1. /\ pc = "walk" /\ cmd # NULL
      /\ UNCHANGED <<cells, current_command, command_list, text, segment, fruitless>>
  BY DEF ExecutePipeline, DuringWalk
<1>2. PICK c, s : c = cmd /\ s = Stages(cmd)
  OBVIOUS
<1>3. c \in Cell /\ c > base
  BY <1>1, <1>2, CellsAre DEF IInv, Books, NULL, Since, Younger
<1>4. /\ s # <<>> /\ \A d \in ToSet(s) : d \in Cell /\ d > base
      /\ Last(s) \in Cell /\ Last(s) > base
  BY <1>2, <1>3, ChainSince DEF IInv
<1>5. next(Last(s)) = NULL \/ next(Last(s)) > base
  BY <1>4, NextSince DEF IInv
<1>6. pc' # "parse" /\ (pc' = "walk" => cmd' = NULL \/ cmd' > base)
  <2>1. \/ cmd' = next(Last(s)) /\ pc' = pc
        \/ pc' = "ready"
    BY <1>2 DEF ExecutePipeline, next
  <2> QED BY <1>1, <1>5, <2>1
<1>7. Since(base)'
  BY <1>1, <1>6, WalkSince
<1>8. PICK ok : Executed(s, ok, FALSE, <<>>)
  BY <1>2 DEF ExecutePipeline
<1>9. OneLine => (FALSE <=> Ampersand)
  BY <1>1 DEF Since
<1>10. RanSince(base)'
  <2>1. Cell' = Cell
    BY <1>1 DEF Cell
  <2> QED BY <1>1, <1>4, <1>8, <1>9, <2>1, RanSinceLonger DEF IInv
<1> QED BY <1>7, <1>10

LEMMA CommandSince ==
  ASSUME IInv, Told, NEW base \in Nat, Since(base), RanSince(base), ExecuteCommand
  PROVE  Since(base)' /\ RanSince(base)'
<1>1. /\ pc = "walk" /\ cmd # NULL
      /\ UNCHANGED <<cells, current_command, command_list, text, segment, fruitless>>
  BY DEF ExecuteCommand, DuringWalk
<1>2. PICK c, s : c = cmd /\ s = <<c>>
  OBVIOUS
<1>3. c \in Cell /\ c > base
  BY <1>1, <1>2, CellsAre DEF IInv, Books, NULL, Since, Younger
<1>4. s # <<>> /\ \A d \in ToSet(s) : d \in Cell /\ d > base
  BY <1>2, <1>3 DEF ToSet
<1>5. next(c) = NULL \/ next(c) > base
  BY <1>3, NextSince DEF IInv
<1>6. pc' # "parse" /\ (pc' = "walk" => cmd' = NULL \/ cmd' > base)
  <2>1. \/ cmd' = next(c) /\ pc' = pc
        \/ pc' \in {"ready", "free"}
    BY <1>2 DEF ExecuteCommand, next
  <2> QED BY <1>1, <1>5, <2>1
<1>7. Since(base)'
  BY <1>1, <1>6, WalkSince
<1>8. PICK ok : Executed(s, ok, FALSE, <<>>)
  BY <1>2 DEF ExecuteCommand
<1>9. OneLine => (FALSE <=> Ampersand)
  BY <1>1 DEF Since
<1>10. RanSince(base)'
  <2>1. Cell' = Cell
    BY <1>1 DEF Cell
  <2> QED BY <1>1, <1>4, <1>8, <1>9, <2>1, RanSinceLonger DEF IInv
<1> QED BY <1>7, <1>10

LEMMA EndSince ==
  ASSUME IInv, Told, NEW base, Since(base), RanSince(base), EndOfList \/ FreeList
  PROVE  Since(base)' /\ RanSince(base)'
<1>1. /\ pc \in {"walk", "free"} /\ pc' \in {"free", "ready"} /\ (command_list' # NoList => command_list' = command_list)
      /\ UNCHANGED <<cells, current_command, text, segment, fruitless, ran>>
  BY DEF EndOfList, FreeList, DuringWalk, history
<1>2. pc' # "parse" /\ pc' # "walk"
  BY <1>1
<1>3. Since(base)'
  BY <1>1, <1>2, WalkSince
<1>4. Cell \subseteq Cell'
  BY <1>1 DEF Cell
<1> QED BY <1>1, <1>3, <1>4, RanSinceKept

Segmented(base) == base <= Len(cells) /\ Since(base) /\ RanSince(base)

-----------------------------------------------------------------------------
(* Operators are counted.                                                      *)

\* The operators before place p, and those shifted.
Before(p) == Cardinality({o \in Operators : o < p})
Passed == Before(Taken + 1)

LEMMA OperatorsAre ==
  ASSUME Books
  PROVE  Operators \subseteq 1..Len(text) /\ Len(text) \in Nat /\ Operators \subseteq Nat \ {0}
BY TextIs DEF Operators

LEMMA BeforeIs ==
  ASSUME Books, NEW p
  PROVE  IsFiniteSet({o \in Operators : o < p}) /\ Before(p) \in Nat
<1>1. Operators \subseteq 1..Len(text) /\ Len(text) \in Nat
  BY OperatorsAre
<1>2. IsFiniteSet(1..Len(text))
  BY <1>1, FS_Interval
<1>3. {o \in Operators : o < p} \subseteq 1..Len(text)
  BY <1>1
<1>4. IsFiniteSet({o \in Operators : o < p})
  BY <1>2, <1>3, FS_Subset
<1> QED BY <1>4, FS_CardinalityType DEF Before

LEMMA BelowNext ==
  ASSUME NEW S \in SUBSET Nat, NEW p \in Nat
  PROVE  /\ p \in S => {o \in S : o < p + 1} = {o \in S : o < p} \cup {p}
         /\ p \notin S => {o \in S : o < p + 1} = {o \in S : o < p}
<1>1. \A o \in S : o \in Nat
  OBVIOUS
<1>2. \A o \in S : o < p + 1 <=> o < p \/ o = p
  BY <1>1
<1> QED BY <1>1, <1>2

LEMMA BelowSame ==
  ASSUME NEW S \in SUBSET Nat, NEW T \in SUBSET Nat, NEW p \in Nat, NEW q \in Nat,
         \A o \in S : o < p => o \in T /\ o < q, \A o \in T : o < q => o \in S /\ o < p
  PROVE  {o \in S : o < p} = {o \in T : o < q}
OBVIOUS

LEMMA BeforeNext ==
  ASSUME Books, NEW p \in Nat
  PROVE  Before(p + 1) = Before(p) + IF p \in Operators THEN 1 ELSE 0
<1>1. PICK S : S = Operators
  OBVIOUS
<1>2. S \in SUBSET Nat
  BY <1>1, OperatorsAre
<1>3. IsFiniteSet({o \in S : o < p}) /\ Before(p) = Cardinality({o \in S : o < p}) /\ Before(p) \in Nat
  BY <1>1, BeforeIs DEF Before
<1>4. CASE p \in S
  <2>1. {o \in S : o < p + 1} = {o \in S : o < p} \cup {p} /\ p \notin {o \in S : o < p}
    BY <1>2, <1>4, BelowNext
  <2> QED BY <1>1, <1>3, <1>4, <2>1, FS_AddElement DEF Before
<1>5. CASE p \notin S
  <2>1. {o \in S : o < p + 1} = {o \in S : o < p}
    BY <1>2, <1>5, BelowNext
  <2> QED BY <1>1, <1>3, <1>5, <2>1 DEF Before
<1> QED BY <1>4, <1>5

LEMMA BeforeFirst ==
  ASSUME Books
  PROVE  Before(1) = 0
<1>1. PICK S : S = Operators
  OBVIOUS
<1>2. S \subseteq Nat \ {0}
  BY <1>1, OperatorsAre
<1>3. {o \in S : o < 1} = {}
  <2>1. \A o \in S : o \in Nat /\ o # 0
    BY <1>2
  <2>2. \A o \in S : ~ (o < 1)
    BY <2>1
  <2> QED BY <2>2
<1> QED BY <1>1, <1>3, FS_EmptySet DEF Before

LEMMA BeforeMore ==
  ASSUME Books, NEW p \in Nat, NEW q \in Nat, p <= q
  PROVE  /\ Before(p) <= Before(q)
         /\ Before(p) = Before(q) => \A o \in Operators : o < q => o < p
<1>1. PICK S : S = Operators
  OBVIOUS
<1>2. S \in SUBSET Nat
  BY <1>1, OperatorsAre
<1>3. IsFiniteSet({o \in S : o < q})
  BY <1>1, BeforeIs
<1>4. {o \in S : o < p} \in SUBSET {o \in S : o < q}
  <2>1. \A o \in S : o < p => o < q
    BY <1>2
  <2> QED BY <2>1
<1>5. Before(p) = Cardinality({o \in S : o < p}) /\ Before(q) = Cardinality({o \in S : o < q})
  BY <1>1 DEF Before
<1>6. /\ Before(p) <= Before(q)
      /\ Before(p) = Before(q) => {o \in S : o < p} = {o \in S : o < q}
  BY <1>3, <1>4, <1>5, FS_Subset
<1> QED BY <1>1, <1>6

\* No operator is between places with as many before them.
LEMMA BeforeApart ==
  ASSUME Books, NEW p \in Nat, NEW q \in Nat, Apartfrom(p, q), p <= q
  PROVE  Before(p) = Before(q)
<1>1. PICK S : S = Operators
  OBVIOUS
<1>2. S \in SUBSET Nat
  BY <1>1, OperatorsAre
<1>3. \A o \in p..q : o \notin S
  BY <1>1 DEF Apartfrom
<1>4. {o \in S : o < p} = {o \in S : o < q}
  BY <1>2, <1>3, BelowSame
<1> QED BY <1>1, <1>4 DEF Before

LEMMA BeforeLexed ==
  ASSUME Books, Books', Lex
  PROVE  /\ \A p \in Nat : p <= Taken + 1 => Before(p)' = Before(p)
         /\ Passed' = Passed
<1>1. /\ Taken' = Taken /\ Taken \in Nat
      /\ \A n \in 1..Taken : n \in Operators' <=> n \in Operators
  BY LexIs
<1>2. Operators \subseteq Nat \ {0} /\ Operators' \subseteq Nat \ {0}
  <2>1. Operators \subseteq DOMAIN text /\ Operators' \subseteq DOMAIN text'
    BY DEF Operators
  <2>2. DOMAIN text = 1..Len(text) /\ Len(text) \in Nat
    BY TextIs
  <2>3. DOMAIN text' = 1..Len(text') /\ Len(text') \in Nat
    BY SequenceOf DEF Books
  <2> QED BY <2>1, <2>2, <2>3
<1>3. ASSUME NEW p \in Nat, p <= Taken + 1 PROVE Before(p)' = Before(p)
  <2>1. PICK S : S = Operators
    OBVIOUS
  <2>2. PICK T : T = Operators'
    OBVIOUS
  <2>3. S \in SUBSET Nat /\ T \in SUBSET Nat
    BY <1>2, <2>1, <2>2
  <2>4. \A o \in Nat \ {0} : o < p => o \in 1..Taken
    BY <1>1, <1>3
  <2>5. \A o \in Nat \ {0} : o < p => (o \in S <=> o \in T)
    BY <1>1, <2>1, <2>2, <2>4
  <2>6. {o \in T : o < p} = {o \in S : o < p}
    BY <1>2, <2>1, <2>2, <2>3, <2>5, BelowSame
  <2> QED BY <2>1, <2>2, <2>6 DEF Before
<1>4. Taken + 1 \in Nat /\ Taken + 1 <= Taken + 1
  BY <1>1
<1> QED BY <1>1, <1>3, <1>4 DEF Passed

LEMMA BeforeKept ==
  ASSUME UNCHANGED <<yychar, text>>
  PROVE  /\ \A p : Before(p)' = Before(p)
         /\ Passed' = Passed /\ Taken' = Taken
<1>1. Operators' = Operators /\ Taken' = Taken
  BY TakenKept
<1> QED BY <1>1 DEF Before, Passed

-----------------------------------------------------------------------------
(* More of the tables.                                                         *)

\* What follows a word in the same command.
Continues == {WORD, QUOTED_STRING, PARAM_EXPANSION, IO_NUMBER} \cup 7..13

LEMMA ShiftedTokens ==
  ASSUME NEW s \in State, NEW t \in 0..YYNTOKENS - 1, Shifts(s, t)
  PROVE  /\ t \in Continues \cup {PIPE, AND, OR, AMPERSAND, SEMICOLON, LINE_CHAGE, LPAREN, RPAREN, EOF}
         /\ ShiftTo(s, t) = 37 <=> t = AND
         /\ ShiftTo(s, t) = 38 <=> t = OR
         /\ ShiftTo(s, t) = 39 <=> t = PIPE
         /\ ShiftTo(s, t) = 51 => t = RPAREN
BY SMTT(100) DEF State, Continues,
       WORD, QUOTED_STRING, PARAM_EXPANSION, AMPERSAND, SEMICOLON, LINE_CHAGE, LPAREN, RPAREN, EOF, PIPE, AND, OR, IO_NUMBER,
       Shifts, ShiftTo, IsDefault, Entry, At, yypact, yytable, yycheck, YYLAST, YYPACT_NINF, YYNTOKENS

\* A command is complete only if what comes next does not continue it.
LEMMA EndingStates ==
  ASSUME NEW s \in State, DefaultRule(s) \in 16..19
  PROVE  s \in {21, 40, 45, 56}
BY SMTT(60) DEF State, DefaultRule, At, yydefact

LEMMA Continuing ==
  ASSUME NEW s \in {21, 40, 45, 56}
  PROVE  /\ ~ IsDefault(s)
         /\ \A t \in Continues : Shifts(s, t)
<1>1. ~ IsDefault(s)
  BY DEF IsDefault, At, yypact, YYPACT_NINF
<1>2. ASSUME NEW t \in Continues PROVE Shifts(s, t)
  BY <1>1, SMTT(60) DEF Continues, WORD, QUOTED_STRING, PARAM_EXPANSION, IO_NUMBER,
         Shifts, IsDefault, Entry, At, yypact, yycheck, YYLAST, YYPACT_NINF
<1> QED BY <1>1, <1>2

LEMMA WordsPend ==
  ASSUME NEW s \in State, NEW t \in 0..YYNTOKENS - 1, Shifts(s, t)
  PROVE  /\ t = WORD => ShiftTo(s, t) \in Pending
         /\ s \notin Pending
         /\ ShiftTo(s, t) \in Pending => t \in Continues
<1>1. t = WORD => ShiftTo(s, t) \in Pending
  BY SMTT(100) DEF State, Pending, WORD, Shifts, ShiftTo, IsDefault, Entry, At, yypact, yytable, yycheck,
         YYLAST, YYPACT_NINF, YYNTOKENS
<1>2. s \notin Pending
  BY ShiftEdge DEF Edge, Pending, Beginning, Within, Redirecting
<1>3. ShiftTo(s, t) \in Pending => t \in Continues
  BY ShiftTokens DEF Continues
<1> QED BY <1>1, <1>2, <1>3

-----------------------------------------------------------------------------
(* Commands are numbered.                                                      *)

\* The commands that have all their words, and whether the last token belongs to one.
Made == IF current_command = NULL THEN Len(cells) ELSE Len(cells) - 1
Complete == Taken >= 1 /\ text[Taken] # AMPERSAND /\ yystate \in Collected \cup Between

\* In a line without parentheses a command is complete before the operator behind it is
\* shifted, the commands behind base have the numbers of the text, and every word is in
\* the command of its number.
Counted(base) == Made = base + Passed + IF Complete THEN 1 ELSE 0
Numbered(base) == \A c \in base + 1..Made : \E w \in Own(cells[c]) : Before(w.pos) = c - base - 1
Worded ==
  (\E n \in 1..Len(stack) : stack[n].state \in {21, 40}) =>
    /\ current_command # NULL
    /\ \E i \in DOMAIN cells[current_command].argv : cells[current_command].argv[i].segment = segment
Ended == Complete /\ yystate # 2 => yychar \notin Continues \cup {YYEMPTY}
HasWord(p, c) ==
  c \in Cell /\ (Len(cells[c].redirects) < MAX_REDIRECTS => Word(p) \in WordsOf(cells[c]))
Whole(base) ==
  \A p \in 1..Taken :
    text[p] = WORD /\ ~ (p = Taken /\ yystate \in Pending) => HasWord(p, base + 1 + Before(p))

OnLine == pc \in {"parse", "walk", "free"} \/ ran # <<>>
Over == OnLine /\ pc # "parse" => yystate = 2 /\ yychar = YYEMPTY /\ current_command = NULL
Spelled(base) ==
  /\ Over
  /\ OnLine /\ Flat => Counted(base) /\ Numbered(base) /\ Worded /\ Ended /\ Whole(base)

LEMMA MadeIs ==
  ASSUME Cells
  PROVE  Made \in Nat /\ Made <= Len(cells) /\ \A base \in Nat : base + 1..Made \subseteq Cell
BY CellsAre DEF Made, Cells, NULL

LEMMA OwnPlaces ==
  ASSUME Typed, Ordered, NEW c \in Cell
  PROVE  \A w \in Own(cells[c]) : w.pos \in 1..Taken /\ w.pos \in Nat /\ w.segment = segment
<1>1. cells[c] \in Command /\ Tidy(cells[c])
  BY DEF Typed, Ordered
<1>2. \A w \in Own(cells[c]) : w.pos \in 1..Taken
  BY <1>1 DEF Tidy
<1>3. \A w \in Own(cells[c]) : w.pos \in Nat
  BY <1>1, WordIn
<1> QED BY <1>2, <1>3 DEF Own

LEMMA OwnKept ==
  ASSUME ContentKept, segment' = segment, NEW c \in Cell
  PROVE  /\ Own(cells[c])' = Own(cells[c]) /\ WordsOf(cells'[c]) = WordsOf(cells[c])
         /\ Len(cells'[c].redirects) = Len(cells[c].redirects) /\ c \in Cell'
<1>1. cells'[c].argv = cells[c].argv /\ cells'[c].redirects = cells[c].redirects /\ c \in Cell'
  BY DEF ContentKept
<1>2. WordsOf(cells'[c]) = WordsOf(cells[c])
  BY <1>1, SameWords
<1> QED BY <1>1, <1>2 DEF Own

LEMMA NumberedKept ==
  ASSUME Cells, Typed, Ordered, Taken \in Nat, NEW base \in Nat, ContentKept, Made' = Made, segment' = segment,
         \A p \in Nat : p <= Taken + 1 => Before(p)' = Before(p), Numbered(base)
  PROVE  Numbered(base)'
<1> SUFFICES ASSUME NEW c \in base + 1..Made
             PROVE  \E w \in Own(cells[c])' : Before(w.pos)' = c - base - 1
  BY DEF Numbered
<1>1. c \in Cell
  BY MadeIs
<1>2. PICK w \in Own(cells[c]) : Before(w.pos) = c - base - 1
  BY DEF Numbered
<1>3. w.pos \in Nat /\ w.pos <= Taken + 1
  BY <1>1, <1>2, OwnPlaces
<1>4. w \in Own(cells[c])' /\ Before(w.pos)' = Before(w.pos)
  BY <1>1, <1>2, <1>3, OwnKept
<1> QED BY <1>2, <1>4

LEMMA HasWordKept ==
  ASSUME ContentKept, segment' = segment, NEW p, NEW c, HasWord(p, c)
  PROVE  HasWord(p, c)'
<1>1. c \in Cell /\ Word(p)' = Word(p)
  BY DEF HasWord, Word
<1> QED BY <1>1, OwnKept DEF HasWord

LEMMA WholeKept ==
  ASSUME Taken \in Nat, NEW base \in Nat, ContentKept, segment' = segment,
         \A p \in Nat : p <= Taken + 1 => Before(p)' = Before(p), Whole(base),
         \A p \in 1..Taken : text'[p] = text[p],
         \A p \in 1..Taken' : text'[p] = WORD /\ ~ (p = Taken' /\ yystate' \in Pending) =>
           p \in 1..Taken /\ ~ (p = Taken /\ yystate \in Pending)
  PROVE  Whole(base)'
<1> SUFFICES ASSUME NEW p \in 1..Taken', text'[p] = WORD, ~ (p = Taken' /\ yystate' \in Pending)
             PROVE  HasWord(p, base + 1 + Before(p))'
  BY DEF Whole
<1>1. p \in 1..Taken /\ ~ (p = Taken /\ yystate \in Pending) /\ text[p] = WORD
  OBVIOUS
<1>2. PICK c : c = base + 1 + Before(p)
  OBVIOUS
<1>3. HasWord(p, c)
  BY <1>1, <1>2 DEF Whole
<1>4. HasWord(p, c)'
  BY <1>3, HasWordKept
<1>5. Before(p)' = Before(p)
  BY <1>1
<1>6. (base + 1 + Before(p))' = c
  BY <1>2, <1>5
<1> QED BY <1>4, <1>6

LEMMA NotOver ==
  ASSUME pc' = "parse"
  PROVE  Over'
BY DEF Over

LEMMA LexSpelled ==
  ASSUME IInv, IInv', Told, NEW base \in Nat, Spelled(base), Lex
  PROVE  Spelled(base)'
<1>1. Books /\ Books' /\ Cells /\ Typed /\ Ordered
  BY DEF IInv, Told
<1>2. /\ Taken' = Taken /\ Taken \in Nat /\ yychar = YYEMPTY /\ yystate # YYFINAL
      /\ pc = "parse" /\ UNCHANGED <<heap, freed, stack, pc, cmd, result, history>>
      /\ \A n \in 1..Taken : text'[n] = text[n]
  BY <1>1, LexIs
<1>3. /\ UNCHANGED <<cells, current_command, segment, stack, yystate, pc>> /\ ContentKept
      /\ Made' = Made
  BY <1>1, <1>2, SameContent DEF heap, history, yystate, Made
<1>4. SUFFICES ASSUME Flat' PROVE (Counted(base) /\ Numbered(base) /\ Worded /\ Ended /\ Whole(base))'
  BY <1>3, <1>2, NotOver DEF Spelled
<1>5. Counted(base) /\ Numbered(base) /\ Worded /\ Ended /\ Whole(base)
  BY <1>1, <1>2, <1>4, LexFlat DEF Spelled, OnLine
<1>6. ~ Complete
  BY <1>2, <1>5 DEF Ended, YYFINAL
<1>7. ~ Complete'
  <2>1. Taken >= 1 => text'[Taken] = text[Taken]
    BY <1>2
  <2> QED BY <1>2, <1>3, <1>6, <2>1 DEF Complete
<1>8. /\ \A p \in Nat : p <= Taken + 1 => Before(p)' = Before(p)
      /\ Passed' = Passed
  BY <1>1, BeforeLexed
<1>9. Counted(base)'
  BY <1>3, <1>5, <1>6, <1>7, <1>8 DEF Counted
<1>10. Numbered(base)'
  BY <1>1, <1>2, <1>3, <1>5, <1>8, NumberedKept
<1>11. Whole(base)'
  BY <1>2, <1>3, <1>5, <1>8, WholeKept
<1>12. Worded'
  BY <1>3, <1>5 DEF Worded
<1>13. Ended'
  BY <1>7 DEF Ended
<1> QED BY <1>9, <1>10, <1>11, <1>12, <1>13

\* What is shifted where a command is complete.
LEMMA Operating ==
  ASSUME IInv, Told, Ended, Flat, Shift
  PROVE  /\ yychar # RPAREN
         /\ Complete /\ yychar # EOF => yychar \in {PIPE, AND, OR, AMPERSAND}
         /\ yychar \in {PIPE, AND, OR, AMPERSAND} /\ ~ Complete =>
              Taken >= 1 /\ text[Taken] = AMPERSAND /\ yychar = AMPERSAND
<1>1. /\ Books /\ Stacked /\ Tokens
      /\ pc = "parse" /\ yystate \in State /\ yychar \in 0..YYNTOKENS - 1 /\ Shifts(yystate, yychar)
      /\ Taken \in Nat
  BY ShiftIs DEF IInv, Told
<1>2. PICK s : s = yystate
  OBVIOUS
<1>3. PICK t : t = yychar
  OBVIOUS
<1>4. s \in State /\ t \in 0..YYNTOKENS - 1 /\ Shifts(s, t)
  BY <1>1, <1>2, <1>3
<1>5. t # EOF => t \in ToSet(text) /\ t # SEMICOLON
  <2>1. t # EOF => text # <<>> /\ text[Len(text)] = t
    BY <1>1, <1>3 DEF Tokens, Shift, Shifting
  <2>2. /\ Sequence(text) /\ Len(text) \in Nat
        /\ \A n \in 1..Len(text) : text[n] # SEMICOLON
        /\ \A x : x \in ToSet(text) <=> \E n \in 1..Len(text) : text[n] = x
    BY <1>1, TextIs
  <2>3. text # <<>> => Len(text) \in 1..Len(text)
    BY <2>2, Lengths
  <2> QED BY <2>1, <2>2, <2>3
<1>6. t # EOF => t \notin {SEMICOLON, LINE_CHAGE, LPAREN, RPAREN}
  BY <1>5 DEF Flat, OneLine
<1>7. ASSUME Complete, t # EOF PROVE t \in {PIPE, AND, OR, AMPERSAND}
  <2>1. s # 2
    <3>1. ~ Edge(2, ShiftTo(2, t))
      BY DEF Edge, Beginning, Within, Redirecting
    <3> QED BY <1>4, <3>1, ShiftEdge
  <2>2. t \notin Continues
    BY <1>2, <1>3, <1>7, <2>1 DEF Ended
  <2> QED BY <1>4, <1>6, <1>7, <2>2, ShiftedTokens
<1>8. ASSUME t \in {PIPE, AND, OR, AMPERSAND}, ~ Complete
      PROVE  Taken >= 1 /\ text[Taken] = AMPERSAND /\ t = AMPERSAND
  <2>1. s \in {15} \cup Collected
    BY <1>4, <1>8, ShiftTokens
  <2>2. s \notin {0, 1, 2, 34} /\ s \in Collected \cup Between
    BY <2>1, Distinct, Apart DEF Between, YYFINAL
  <2>3. Taken >= 1 /\ text[Taken] = AMPERSAND
    BY <1>1, <1>2, <1>8, <2>2 DEF Tokens, Complete
  <2>4. s \in Between
    BY <1>1, <1>2, <2>2, <2>3 DEF Tokens
  <2>5. s = 15
    BY <2>1, <2>4, Distinct DEF Between
  <2>6. Edge(15, ShiftTo(15, t))
    BY <1>4, <2>5, ShiftEdge
  <2>7. ShiftTo(15, t) \in {34, 35, 36}
    BY <2>6 DEF Edge, Beginning, Within, Redirecting
  <2>8. t \notin {PIPE, AND, OR}
    <3>1. t = AND => ShiftTo(s, t) = 37
      BY <1>4, ShiftedTokens
    <3>2. t = OR => ShiftTo(s, t) = 38
      BY <1>4, ShiftedTokens
    <3>3. t = PIPE => ShiftTo(s, t) = 39
      BY <1>4, ShiftedTokens
    <3> QED BY <2>5, <2>7, <3>1, <3>2, <3>3
  <2> QED BY <1>8, <2>3, <2>8
<1>9. t # RPAREN
  BY <1>6 DEF EOF, RPAREN
<1> QED BY <1>3, <1>7, <1>8, <1>9

LEMMA ShiftCounts ==
  ASSUME IInv, Told, NEW base \in Nat, Counted(base), Ended, Flat, Shift
  PROVE  Counted(base)' /\ Ended' /\ (yychar # EOF => ~ Complete')
<1>1. /\ Books /\ Stacked /\ Tokens
      /\ pc = "parse" /\ yystate \in State /\ yychar \in 0..YYNTOKENS - 1 /\ Shifts(yystate, yychar)
      /\ yystate' = ShiftTo(yystate, yychar) /\ Taken \in Nat /\ Taken' = Len(text) /\ text' = text
      /\ UNCHANGED <<Operators, Made>>
      /\ yychar = EOF => Taken' = Taken
      /\ yychar # EOF => Taken' = Taken + 1 /\ text[Taken'] = yychar
  BY ShiftIs DEF IInv, Told, Made, heap
<1>2. PICK s : s = yystate
  OBVIOUS
<1>3. PICK t : t = yychar
  OBVIOUS
<1>4. PICK u : u = ShiftTo(s, t)
  OBVIOUS
<1>5. s \in State /\ t \in 0..YYNTOKENS - 1 /\ Shifts(s, t) /\ yystate' = u
  BY <1>1, <1>2, <1>3, <1>4
<1>6. \A p : Before(p)' = Before(p)
  BY <1>1 DEF Before
<1>7. CASE t = EOF
  <2>1. u = 2 /\ s = 1 /\ Taken' = Taken
    BY <1>1, <1>3, <1>4, <1>5, <1>7, ShiftTokens
  <2>2. Complete' <=> Complete
    BY <1>1, <1>2, <1>5, <2>1 DEF Complete, Between
  <2>3. Passed' = Passed
    BY <1>6, <2>1 DEF Passed
  <2> QED BY <1>1, <1>3, <1>5, <1>7, <2>1, <2>2, <2>3 DEF Counted, Ended
<1>8. CASE t # EOF
  <2>1. Taken' = Taken + 1 /\ text[Taken'] = t
    BY <1>1, <1>3, <1>8
  <2>2. u # 2 /\ u # 51 /\ u \in 2..13 \cup 23..51 /\ u \notin CommandStates \cup ListStates
    BY <1>3, <1>4, <1>5, <1>8, ShiftTokens, ShiftedTokens, ShiftEdge, Operating
  <2>3. ~ Complete'
    BY <1>5, <2>2 DEF Complete, Between, Collected
  <2>4. Passed' = Passed + IF Taken' \in Operators THEN 1 ELSE 0
    <3>1. PICK q : q = Taken + 1
      OBVIOUS
    <3>2. q \in Nat
      BY <1>1, <3>1
    <3>3. Before(q + 1) = Before(q) + IF q \in Operators THEN 1 ELSE 0
      BY <1>1, <3>2, BeforeNext
    <3>4. Taken' = q
      BY <2>1, <3>1
    <3>5. Passed' = Before(q + 1)
      BY <1>6, <3>4 DEF Passed
    <3> QED BY <3>1, <3>3, <3>4, <3>5 DEF Passed
  <2>5. Taken' \in DOMAIN text /\ (Taken' > 1 <=> Taken >= 1) /\ (Taken >= 1 => Taken' - 1 = Taken)
    <3>1. DOMAIN text = 1..Len(text) /\ Len(text) \in Nat
      BY <1>1, TextIs
    <3> QED BY <1>1, <2>1, <3>1
  <2>6. Taken' \in Operators <=> Complete
    <3>1. CASE Complete
      <4>1. t \in {PIPE, AND, OR, AMPERSAND} /\ text[Taken] # AMPERSAND /\ Taken >= 1
        BY <1>3, <1>8, <3>1, Operating DEF Complete
      <4> QED BY <2>1, <2>5, <3>1, <4>1 DEF Operators
    <3>2. CASE ~ Complete
      <4>1. t \in {PIPE, AND, OR, AMPERSAND} => Taken >= 1 /\ text[Taken] = AMPERSAND /\ t = AMPERSAND
        BY <1>3, <3>2, Operating
      <4> QED BY <2>1, <2>5, <3>2, <4>1 DEF Operators
    <3> QED BY <3>1, <3>2
  <2>7. Passed \in Nat /\ Made \in Nat /\ Made' = Made
    BY <1>1, BeforeIs, MadeIs DEF Passed, IInv
  <2>8. Counted(base)'
    BY <2>3, <2>4, <2>6, <2>7 DEF Counted
  <2>9. Ended'
    BY <2>3 DEF Ended
  <2> QED BY <1>3, <1>8, <2>3, <2>8, <2>9
<1> QED BY <1>7, <1>8

LEMMA ShiftSpelled ==
  ASSUME IInv, Told, NEW base \in Nat, Spelled(base), Shift
  PROVE  Spelled(base)'
<1>1. Books /\ Stacked /\ Cells /\ Typed /\ Tokens /\ Ordered
  BY DEF IInv, Told
<1>2. /\ pc = "parse" /\ UNCHANGED <<heap, freed, pc, cmd, result, text, history>>
      /\ Len(stack') = Len(stack) + 1 /\ Len(stack) \in Nat
      /\ \A n \in 1..Len(stack) : stack'[n] = stack[n]
      /\ stack'[Len(stack) + 1].state = yystate'
      /\ yystate' = ShiftTo(yystate, yychar)
      /\ yystate \in State /\ yychar \in 0..YYNTOKENS - 1 /\ Shifts(yystate, yychar)
      /\ Taken \in Nat /\ UNCHANGED <<Operators, Flat>>
      /\ yychar = EOF => Taken' = Taken
      /\ yychar # EOF => Taken' = Taken + 1 /\ text[Taken'] = yychar
  BY <1>1, ShiftIs
<1>3. /\ UNCHANGED <<cells, current_command, segment>> /\ ContentKept /\ Made' = Made
  BY <1>1, <1>2, SameContent DEF heap, history, Made
<1>4. SUFFICES ASSUME Flat PROVE (Counted(base) /\ Numbered(base) /\ Worded /\ Ended /\ Whole(base))'
  BY <1>2, NotOver DEF Spelled
<1>5. Counted(base) /\ Numbered(base) /\ Worded /\ Ended /\ Whole(base)
  BY <1>2, <1>4 DEF Spelled, OnLine
<1>6. \A p \in Nat : p <= Taken + 1 => Before(p)' = Before(p)
  BY <1>2 DEF Before
<1>7. Counted(base)' /\ Ended'
  BY <1>4, <1>5, ShiftCounts
<1>8. Numbered(base)'
  BY <1>1, <1>2, <1>3, <1>5, <1>6, NumberedKept
<1>9. yystate' \notin {21, 40}
  BY <1>2, ShiftEdge DEF Collecting
<1>10. Worded'
  <2>1. \A n \in 1..Len(stack') : n \in 1..Len(stack) \/ n = Len(stack) + 1
    BY <1>2
  <2> QED BY <1>2, <1>3, <1>5, <1>9, <2>1 DEF Worded
<1>11. yystate \notin Pending /\ (yychar = WORD => yystate' \in Pending)
  BY <1>2, WordsPend
<1>12. \A p \in 1..Taken' : text'[p] = WORD /\ ~ (p = Taken' /\ yystate' \in Pending) =>
         p \in 1..Taken /\ ~ (p = Taken /\ yystate \in Pending)
  <2>1. \A p \in 1..Taken' : p \in 1..Taken \/ (yychar # EOF /\ p = Taken')
    BY <1>2
  <2> QED BY <1>2, <1>11, <2>1
<1>13. Whole(base)'
  BY <1>2, <1>3, <1>5, <1>6, <1>12, WholeKept
<1> QED BY <1>7, <1>8, <1>10, <1>13

\* What the parser has read stays as it is when the line runs.
LEMMA SpelledOutside ==
  ASSUME IInv, Told, NEW base \in Nat, Spelled(base), ContentKept, Len(cells') = Len(cells),
         UNCHANGED <<text, segment, current_command, stack, yychar>>,
         OnLine' => OnLine /\ yystate = 2 /\ yychar = YYEMPTY /\ current_command = NULL
  PROVE  Spelled(base)'
<1>1. Cells /\ Typed /\ Ordered /\ Taken \in Nat
  BY TakenIs DEF IInv, Told
<1>2. Made' = Made /\ yystate' = yystate /\ Taken' = Taken /\ Flat' = Flat /\ Passed' = Passed
      /\ \A p : Before(p)' = Before(p)
  BY TakenKept, BeforeKept DEF Made, yystate
<1>3. Over'
  BY <1>2 DEF Over
<1>4. ASSUME OnLine', Flat'
      PROVE  Counted(base)' /\ Numbered(base)' /\ Worded' /\ Ended' /\ Whole(base)'
  <2>1. Counted(base) /\ Numbered(base) /\ Worded /\ Ended /\ Whole(base) /\ current_command = NULL
    BY <1>2, <1>4 DEF Spelled
  <2>2. Complete' = Complete
    BY <1>2 DEF Complete
  <2>3. Counted(base)' /\ Ended'
    BY <1>2, <2>1, <2>2 DEF Counted, Ended
  <2>4. Numbered(base)'
    BY <1>1, <1>2, <2>1, NumberedKept
  <2>5. Whole(base)'
    BY <1>1, <1>2, <2>1, WholeKept
  <2>6. Worded'
    <3>1. ~ \E n \in 1..Len(stack) : stack[n].state \in {21, 40}
      BY <1>2, <1>4, NoneCollected DEF IInv, InCommand, Collecting
    <3>2. ~ \E n \in 1..Len(stack') : stack'[n].state \in {21, 40}
      BY <3>1
    <3> QED BY <3>2 DEF Worded
  <2> QED BY <2>3, <2>4, <2>5, <2>6
<1> QED BY <1>3, <1>4 DEF Spelled

LEMMA AcceptSpelled ==
  ASSUME IInv, Told, NEW base \in Nat, Segmented(base), Spelled(base), Accept
  PROVE  Spelled(base)'
<1>1. /\ pc = "parse" /\ yystate = 2
      /\ UNCHANGED <<current_command, stack, yychar, text, segment>>
      /\ ContentKept /\ Len(cells') = Len(cells)
      /\ command_list # NoList => current_command = NULL
  BY AcceptIs DEF yyparse, YYFINAL
<1>2. yychar = YYEMPTY
  BY <1>1 DEF Told, Tokens
<1>3. OnLine' => command_list # NoList
  <2>1. ran = <<>>
    BY <1>1 DEF Segmented, Since
  <2>2. command_list = NoList => pc' = "ready" /\ ran' = ran
    BY DEF Accept
  <2> QED BY <2>1, <2>2 DEF OnLine
<1> QED BY <1>1, <1>2, <1>3, SpelledOutside DEF OnLine

LEMMA WalkSpelled ==
  ASSUME IInv, Told, NEW base \in Nat, Spelled(base),
         ExecutePipeline \/ ExecuteCommand \/ EndOfList \/ FreeList
  PROVE  Spelled(base)'
<1>1. /\ pc \in {"walk", "free"} /\ UNCHANGED <<cells, current_command, stack, yychar, text, segment>>
  BY DEF ExecutePipeline, ExecuteCommand, EndOfList, FreeList, DuringWalk, yyparse, history
<1>2. OnLine /\ yystate = 2 /\ yychar = YYEMPTY /\ current_command = NULL
  BY <1>1 DEF Spelled, Over, OnLine
<1>3. ContentKept /\ Len(cells') = Len(cells)
  BY <1>1, SameContent DEF Told
<1> QED BY <1>1, <1>2, <1>3, SpelledOutside

LEMMA ErrorSpelled ==
  ASSUME NEW base, Segmented(base), SyntaxError
  PROVE  Spelled(base)'
<1>1. pc' = "ready" /\ pc = "parse" /\ ran' = ran
  BY DEF SyntaxError, Decided, Parsing
<1>2. ran' = <<>>
  BY <1>1 DEF Segmented, Since
<1>3. ~ OnLine'
  BY <1>1, <1>2 DEF OnLine
<1> QED BY <1>3 DEF Spelled, Over

LEMMA StutterSpelled ==
  ASSUME NEW base, Spelled(base), UNCHANGED vars
  PROVE  Spelled(base)'
<1>1. UNCHANGED <<cells, current_command, stack, yychar, pc, text, segment, ran>>
  BY DEF vars, heap, yyparse, history
<1>2. /\ Made' = Made /\ yystate' = yystate /\ Taken' = Taken /\ Passed' = Passed /\ Flat' = Flat
      /\ OnLine' = OnLine
      /\ \A p : Before(p)' = Before(p)
  BY <1>1, TakenKept, BeforeKept DEF Made, yystate, OnLine
<1>3. Complete' = Complete
  BY <1>1, <1>2 DEF Complete
<1>4. Over' /\ (Counted(base)' <=> Counted(base)) /\ (Ended' <=> Ended) /\ (Worded' <=> Worded)
  BY <1>1, <1>2, <1>3 DEF Spelled, Over, Counted, Ended, Worded
<1>5. Numbered(base) => Numbered(base)'
  BY <1>1, <1>2 DEF Numbered, Own
<1>6. Whole(base) => Whole(base)'
  BY <1>1, <1>2 DEF Whole, HasWord, Cell, Word
<1> QED BY <1>2, <1>4, <1>5, <1>6 DEF Spelled

\* A segment begins with none of its commands made.
LEMMA SegmentSpelled ==
  ASSUME IInv, Told, NEW base \in Nat, Segment,
         base = IF current_command # NULL THEN current_command - 1 ELSE Len(cells)
  PROVE  Spelled(base)'
<1>1. /\ text' = <<>> /\ stack' = Start /\ yychar' = YYEMPTY /\ pc' = "parse"
      /\ UNCHANGED <<cells, current_command>>
  BY DEF Segment
<1>2. Taken' = 0
  BY <1>1 DEF Taken
<1>3. ~ Complete'
  BY <1>2 DEF Complete
<1>4. Passed' = 0
  <2>1. Operators' = {}
    BY <1>1 DEF Operators
  <2>2. {o \in Operators' : o < 0 + 1} = {}
    BY <2>1
  <2> QED BY <1>2, <2>2, FS_EmptySet DEF Passed, Before
<1>5. Made' = base
  BY <1>1, CellsAre DEF Made, Told, Leftover, IInv
<1>6. Counted(base)' /\ Ended'
  BY <1>3, <1>4, <1>5 DEF Counted, Ended
<1>7. Numbered(base)'
  <2>1. \A c : c \notin base + 1..base
    OBVIOUS
  <2> QED BY <1>5, <2>1 DEF Numbered
<1>8. Whole(base)'
  <2>1. \A p : p \notin 1..0
    OBVIOUS
  <2> QED BY <1>2, <2>1 DEF Whole
<1>9. Worded'
  <2>1. \A n \in 1..Len(stack') : stack'[n].state = 0
    BY <1>1 DEF Start
  <2> QED BY <2>1 DEF Worded
<1> QED BY <1>1, <1>6, <1>7, <1>8, <1>9, NotOver DEF Spelled

-----------------------------------------------------------------------------
(* A reduction and the numbers.                                                *)

LEMMA PendingRules ==
  ASSUME NEW s \in Pending
  PROVE  DefaultRule(s) \in 26..40
BY SMTT(60) DEF Pending, DefaultRule, At, yydefact

\* The states above a command word in the stack.
OverWord == 5..12 \cup 23..32 \cup {42, 43, 44, 45, 46, 47, 48, 49, 50, 56, 57, 58}

LEMMA EdgeOverWord ==
  ASSUME NEW s \in State, NEW t \in State, Edge(s, t)
  PROVE  /\ s \in {21, 40} \cup OverWord => t \in OverWord
         /\ t = 45 => s = 21
         /\ t = 56 => s = 40
BY SMTT(60) DEF State, Edge, Beginning, Within, Redirecting, OverWord

LEMMA NoWordUnder ==
  ASSUME NEW s, NEW len \in Nat, NEW n \in 1..len, s[n].state \in {21, 40},
         \A k \in 1..len : s[k].state \in State,
         \A k \in 1..len : k > 1 => Edge(s[k - 1].state, s[k].state)
  PROVE  s[len].state \in {21, 40} \cup OverWord
<1>1. PICK S : S = {k \in 0..len : k >= n => s[k].state \in {21, 40} \cup OverWord}
  OBVIOUS
<1>2. 0 \in S
  BY <1>1
<1>3. ASSUME NEW k \in 1..len, k - 1 \in S PROVE k \in S
  <2>1. CASE k <= n
    BY <1>1, <2>1
  <2>2. CASE k > n
    <3>1. k - 1 \in 1..len /\ k - 1 >= n /\ k > 1
      BY <2>2
    <3>2. s[k - 1].state \in {21, 40} \cup OverWord
      BY <1>1, <1>3, <3>1
    <3>3. Edge(s[k - 1].state, s[k].state) /\ s[k - 1].state \in State /\ s[k].state \in State
      BY <3>1
    <3>4. s[k].state \in OverWord
      BY <3>2, <3>3, EdgeOverWord
    <3> QED BY <1>1, <3>4
  <2> QED BY <2>1, <2>2
<1>4. \A k \in 0..len : k \in S
  BY <1>2, <1>3, SetInduction
<1>5. len \in S
  BY <1>4
<1> QED BY <1>1, <1>5

\* A command is complete when its words are reduced, and stays it.
LEMMA CompleteReduced ==
  ASSUME Books, Stacked, Tokens, OneLine, Rule # 0, Rule # 15, NEW v, Reduce(v), DuringParse
  PROVE  /\ Rule \notin 16..19 => (Complete' <=> Complete)
         /\ Rule \in 16..19 => ~ Complete /\ Complete'
<1>1. /\ pc = "parse" /\ Rule \in 2..40 /\ Rule = DefaultRule(yystate) /\ yystate \in State
      /\ UNCHANGED <<yychar, text, pc>>
  BY RuleIs DEF DuringParse
<1>2. Taken' = Taken /\ Taken \in Nat /\ text' = text
  BY <1>1, TakenKept, TakenIs
<1>3. PICK s, u, r : s = yystate /\ u = yystate' /\ r = Rule
  OBVIOUS
<1>4. r \in 2..40 /\ r # 15 /\ r = DefaultRule(s) /\ s \in State
  BY <1>1, <1>3
<1>5. /\ r \in 2..8 => u \notin Collecting \cup Collected
      /\ r \in 9..19 => u \in Collected /\ u \notin Collecting
      /\ r \in 20..40 => u \in Collecting /\ u \notin Collected
  BY <1>3, TopAfter
<1>6. /\ r \in 2..3 => u = 1
      /\ r \in 4..5 => u = 14
      /\ r \in 6..8 => u = 15
  <2>1. \E m \in 1..Len(stack) : yystate' = GotoTable(stack[m].state, Rule) /\ stack[m].state \in State
    BY NewTop
  <2>2. PICK below \in State : u = GotoTable(below, r)
    BY <1>3, <2>1
  <2> QED BY <1>4, <2>2, GotoNew
<1>7. r # 7
  BY <1>3, NoRule7
<1>8. r # 4
  <2>1. r = 4 => s = 36
    BY <1>4, Reducing
  <2>2. s = 36 => FALSE
    BY <1>1, <1>3, TopIs, NotBackgroundLine
  <2> QED BY <2>1, <2>2
<1>9. /\ Taken >= 1 /\ text[Taken] = AMPERSAND => s \in Between \cup {34}
      /\ s = 34 => text[Taken] = AMPERSAND
      /\ s \notin {0, 1, 2} => Taken >= 1
      /\ s = 0 => Taken = 0
  BY <1>1, <1>3, TextIs DEF Tokens, Taken, YYEMPTY, EOF
<1>10. CASE r \in {2, 8}
  <2>1. s \in {0, 34}
    BY <1>4, <1>10, RuleOf, Reducing
  <2>2. Taken = 0 \/ text[Taken] = AMPERSAND
    BY <1>9, <2>1
  <2> QED BY <1>2, <1>3, <1>10, <2>2 DEF Complete
<1>11. CASE r \in {3, 5, 6} \cup 9..14
  <2>1. s \in Collected \cup Between
    BY <1>4, <1>11, RuleOf, Reducing DEF Between, Collected, CommandStates, ListStates
  <2>2. u \in Collected \cup Between
    BY <1>5, <1>6, <1>11 DEF Between
  <2> QED BY <1>2, <1>3, <1>11, <2>1, <2>2 DEF Complete
<1>12. CASE r \in 20..40
  <2>1. s \in Collecting \cup Pending
    BY <1>4, <1>12, RuleOf, Reducing
  <2>2. s \notin Collected \cup Between
    BY <2>1, Apart, Distinct DEF Between
  <2>3. u \notin Collected \cup Between
    BY <1>5, <1>12, Distinct DEF Between
  <2> QED BY <1>2, <1>3, <1>12, <2>2, <2>3 DEF Complete
<1>13. CASE r \in 16..19
  <2>1. s \in Collecting /\ s \notin Collected \cup Between \cup {0, 1, 2, 34}
    BY <1>4, <1>13, RuleOf, Apart, Distinct DEF Between
  <2>2. Taken >= 1 /\ text[Taken] # AMPERSAND
    BY <1>9, <2>1
  <2>3. u \in Collected
    BY <1>5, <1>13
  <2> QED BY <1>2, <1>3, <1>13, <2>1, <2>2, <2>3 DEF Complete
<1> QED BY <1>3, <1>4, <1>7, <1>8, <1>10, <1>11, <1>12, <1>13

LEMMA EndedReduced ==
  ASSUME Books, Stacked, Tokens, OneLine, Rule # 0, Rule # 15, NEW v, Reduce(v), DuringParse, Ended
  PROVE  Ended'
<1>1. /\ pc = "parse" /\ Rule \in 2..40 /\ Rule = DefaultRule(yystate) /\ yystate \in State
      /\ yychar' = yychar
  BY RuleIs DEF DuringParse
<1>2. CASE Rule \notin 16..19
  <2>1. Complete' <=> Complete
    BY <1>2, CompleteReduced
  <2>2. yystate # 2
    BY <1>1, Reducing
  <2> QED BY <1>1, <2>1, <2>2 DEF Ended
<1>3. CASE Rule \in 16..19
  <2>1. PICK s : s = yystate
    OBVIOUS
  <2>2. s \in {21, 40, 45, 56}
    BY <1>1, <1>3, <2>1, EndingStates
  <2>3. ~ IsDefault(s) /\ \A t \in Continues : Shifts(s, t)
    BY <2>2, Continuing
  <2>4. yychar # YYEMPTY /\ ~ Shifts(s, yychar)
    BY <2>1, <2>3 DEF Rule, Decided, Shifting
  <2>5. yychar \notin Continues \cup {YYEMPTY}
    BY <2>3, <2>4
  <2> QED BY <1>1, <2>5 DEF Ended
<1> QED BY <1>2, <1>3

\* In a line without parentheses there is no ( ... ).
LEMMA NoRule15 ==
  ASSUME Books, Stacked, Tokens, Flat, Rule # 0
  PROVE  Rule # 15
<1> SUFFICES ASSUME Rule = 15 PROVE FALSE
  OBVIOUS
<1>1. pc = "parse" /\ Rule = DefaultRule(yystate) /\ yystate \in State /\ yystate = stack[Len(stack)].state
  BY RuleIs
<1>2. yystate = 51
  <2>1. PICK s : s = yystate
    OBVIOUS
  <2> QED BY <1>1, <2>1, RuleOf
<1>3. Len(stack) \in Nat /\ Len(stack) > 3
  BY Depth, RuleIs, Lengths9to19
<1>4. Edge(stack[Len(stack) - 1].state, 51) /\ Edge(stack[Len(stack) - 1 - 1].state, stack[Len(stack) - 1].state)
  <2>1. \A n \in 1..Len(stack) : n > 1 => Edge(stack[n - 1].state, stack[n].state)
    BY DEF Stacked
  <2>2. Len(stack) \in 1..Len(stack) /\ Len(stack) > 1 /\ Len(stack) - 1 \in 1..Len(stack) /\ Len(stack) - 1 > 1
    BY <1>3
  <2>3. Edge(stack[Len(stack) - 1].state, stack[Len(stack)].state)
    BY <2>1, <2>2
  <2>4. Edge(stack[Len(stack) - 1 - 1].state, stack[Len(stack) - 1].state)
    BY <2>1, <2>2
  <2> QED BY <1>1, <1>2, <2>3, <2>4
<1>5. \A s, t : Edge(s, t) /\ Edge(t, 51) => s = 13
  BY DEF Edge, Beginning, Within, Redirecting
<1>6. stack[Len(stack) - 1 - 1].state = 13
  BY <1>4, <1>5
<1>7. LPAREN \in ToSet(text)
  BY <1>1, <1>3, <1>6 DEF Tokens
<1> QED BY <1>7 DEF Flat

LEMMA GotoWord ==
  ASSUME NEW s, NEW r \in 2..40, GotoTable(s, r) \in {21, 40}
  PROVE  r \in 29..30
BY SMTT(60) DEF GotoTable

LEMMA ReadingKept ==
  ASSUME Books, Tokens, Rule # 0, Stacked, DuringParse
  PROVE  /\ pc = "parse" /\ pc' = "parse" /\ OnLine /\ Taken' = Taken /\ Taken \in Nat /\ Passed' = Passed
         /\ UNCHANGED <<yychar, text, segment, Flat>>
         /\ \A p : Before(p)' = Before(p)
<1>1. pc = "parse" /\ UNCHANGED <<yychar, text, segment, pc>>
  BY RuleIs DEF DuringParse, history
<1> QED BY <1>1, TakenKept, TakenIs, BeforeKept DEF OnLine

LEMMA WordedReduced ==
  ASSUME Stacked, Rule # 0, Rule \notin 29..30, NEW v, Reduce(v),
         NEW n \in 1..Len(stack'), stack'[n].state \in {21, 40}
  PROVE  \E k \in 1..Len(stack) : stack[k].state \in {21, 40}
<1>1. PICK m \in 1..Len(stack) :
           /\ m \in Nat /\ Len(stack') = m + 1
           /\ \A i \in 1..m : stack'[i] = stack[i]
           /\ yystate' = GotoTable(stack[m].state, Rule)
           /\ stack'[m + 1].state = yystate'
  BY NewTop
<1>2. PICK r : r = Rule
  OBVIOUS
<1>3. r \in 2..40 /\ r \notin 29..30 /\ Len(stack) \in Nat
  BY <1>2, RuleIs
<1>4. n # m + 1
  <2>1. stack'[m + 1].state = GotoTable(stack[m].state, r)
    BY <1>1, <1>2
  <2> QED BY <1>3, <2>1, GotoWord
<1>5. n \in 1..m /\ n \in 1..Len(stack)
  BY <1>1, <1>3, <1>4
<1> QED BY <1>1, <1>5

LEMMA WholeReduced ==
  ASSUME Books, Stacked, Tokens, NEW base \in Nat, Whole(base), Rule # 0, Rule \notin 26..40, NEW v, Reduce(v), DuringParse,
         ContentKept
  PROVE  Whole(base)'
<1>1. /\ Taken' = Taken /\ Taken \in Nat /\ text' = text /\ segment' = segment
      /\ \A p : Before(p)' = Before(p)
  BY ReadingKept
<1>2. yystate \notin Pending
  <2>1. PICK s : s = yystate
    OBVIOUS
  <2> QED BY <2>1, PendingRules, RuleIs
<1>3. yystate' \notin Pending
  BY NotPending
<1> QED BY <1>1, <1>2, WholeKept

LEMMA KeptSpelled ==
  ASSUME IInv, Told, NEW base \in Nat, Spelled(base), Rule # 0, Rule \notin 16..19 \cup 26..40, NEW v, Reduce(v), DuringParse,
         ContentKept, Len(cells') = Len(cells), current_command' = current_command
  PROVE  Spelled(base)'
<1>1. Books /\ Stacked /\ Cells /\ Typed /\ Tokens /\ Ordered
  BY DEF IInv, Told
<1>2. /\ pc' = "parse" /\ OnLine /\ Taken' = Taken /\ Taken \in Nat /\ Passed' = Passed
      /\ UNCHANGED <<yychar, text, segment, Flat>>
      /\ \A p : Before(p)' = Before(p)
  BY <1>1, ReadingKept
<1>3. SUFFICES ASSUME Flat PROVE (Counted(base) /\ Numbered(base) /\ Worded /\ Ended /\ Whole(base))'
  BY <1>2, NotOver DEF Spelled
<1>4. Counted(base) /\ Numbered(base) /\ Worded /\ Ended /\ Whole(base)
  BY <1>2, <1>3 DEF Spelled
<1>5. Rule # 15 /\ OneLine
  BY <1>1, <1>3, NoRule15 DEF Flat
<1>6. Made' = Made
  BY DEF Made
<1>7. Counted(base)'
  BY <1>1, <1>2, <1>4, <1>5, <1>6, CompleteReduced DEF Counted
<1>8. Ended'
  BY <1>1, <1>4, <1>5, EndedReduced
<1>9. Numbered(base)'
  BY <1>1, <1>2, <1>4, <1>6, NumberedKept
<1>10. Whole(base)'
  BY <1>1, <1>4, WholeReduced
<1>11. Worded'
  <2>1. SUFFICES ASSUME NEW n \in 1..Len(stack'), stack'[n].state \in {21, 40}
                 PROVE  /\ current_command' # NULL
                        /\ \E i \in DOMAIN cells'[current_command'].argv :
                             cells'[current_command'].argv[i].segment = segment'
    BY DEF Worded
  <2>2. \E k \in 1..Len(stack) : stack[k].state \in {21, 40}
    <3>1. Rule \notin 29..30
      OBVIOUS
    <3> QED BY <1>1, <2>1, <3>1, WordedReduced, SMTT(30)
  <2>3. /\ current_command # NULL
        /\ \E i \in DOMAIN cells[current_command].argv : cells[current_command].argv[i].segment = segment
    BY <1>4, <2>2 DEF Worded
  <2>4. current_command \in Cell
    <3>1. current_command \in 0..Len(cells) /\ Len(cells) \in Nat /\ Cell = 1..Len(cells)
      BY <1>1, CellsAre DEF Cells
    <3>2. current_command # NULL
      BY <2>3
    <3> QED BY <3>1, <3>2 DEF NULL
  <2>5. cells'[current_command].argv = cells[current_command].argv
    BY <2>4 DEF ContentKept
  <2> QED BY <1>2, <2>3, <2>5
<1> QED BY <1>7, <1>8, <1>9, <1>10, <1>11

\* simple_command: the next number is taken.
LEMMA SimpleSpelled ==
  ASSUME IInv, Told, NEW base \in Nat, Spelled(base), ReduceSimpleCommand
  PROVE  Spelled(base)'
<1>1. Books /\ Stacked /\ Collects /\ Cells /\ Typed /\ Tokens /\ Ordered /\ Leftover
  BY DEF IInv, Told
<1>2. PICK v : Reduce(v)
  BY DEF ReduceSimpleCommand
<1>3. Rule \in 16..19 /\ Rule # 0 /\ DuringParse /\ current_command' = NULL /\ cells' = cells
  BY DEF ReduceSimpleCommand
<1>4. /\ pc = "parse" /\ pc' = "parse" /\ OnLine /\ Taken' = Taken /\ Taken \in Nat /\ Passed' = Passed
      /\ UNCHANGED <<yychar, text, segment, Flat>>
      /\ \A p : Before(p)' = Before(p)
  BY <1>1, <1>3, ReadingKept
<1>5. SUFFICES ASSUME Flat PROVE (Counted(base) /\ Numbered(base) /\ Worded /\ Ended /\ Whole(base))'
  BY <1>4, NotOver DEF Spelled
<1>6. Counted(base) /\ Numbered(base) /\ Worded /\ Ended /\ Whole(base)
  BY <1>4, <1>5 DEF Spelled
<1>7. ~ Complete /\ Complete'
  BY <1>1, <1>2, <1>3, <1>5, CompleteReduced DEF Flat
<1>8. ContentKept
  BY <1>1, <1>3, SameContent
<1>9. PICK c : c = current_command
  OBVIOUS
<1>10. c # NULL /\ c \in Cell /\ c = Len(cells) /\ c \in Nat
  BY <1>1, <1>3, <1>9, CurrentBefore, CellsAre DEF Leftover, Cells, NULL
<1>11. Made' = c /\ Made = c - 1
  BY <1>3, <1>9, <1>10 DEF Made
<1>22. Passed \in Nat
  BY <1>1, BeforeIs DEF Passed
<1>12. c - 1 = base + Passed
  <2>1. Made = base + Passed + 0
    BY <1>6, <1>7 DEF Counted
  <2> QED BY <1>11, <1>22, <2>1
<1>13. Counted(base)'
  BY <1>4, <1>7, <1>10, <1>11, <1>12, <1>22 DEF Counted
<1>14. Ended'
  <2>1. Rule # 15
    BY <1>3
  <2> QED BY <1>1, <1>2, <1>3, <1>5, <1>6, <2>1, EndedReduced DEF Flat
<1>15. Whole(base)'
  <2>1. Rule \notin 26..40
    BY <1>3
  <2> QED BY <1>1, <1>2, <1>3, <1>6, <1>8, <2>1, WholeReduced
<1>16. Stacked' /\ yystate' \in CommandStates
  <2>1. Stacked' /\ \E m \in 1..Len(stack) : yystate' = GotoTable(stack[m].state, Rule) /\ stack[m].state \in State
    BY <1>1, <1>2, <1>3, NewTop
  <2>2. PICK s, r : s \in State /\ yystate' = GotoTable(s, r) /\ r = Rule
    BY <2>1
  <2> QED BY <1>3, <2>1, <2>2, TargetOf
<1>17. Worded'
  <2>1. SUFFICES ASSUME NEW n \in 1..Len(stack'), stack'[n].state \in {21, 40} PROVE FALSE
    BY DEF Worded
  <2>2. Len(stack') \in Nat /\ stack'[Len(stack')].state = yystate'
    BY <1>16, Lengths DEF Stacked, yystate, Last
  <2>3. stack'[Len(stack')].state \in {21, 40} \cup OverWord
    BY <1>16, <2>1, <2>2, NoWordUnder DEF Stacked
  <2> QED BY <1>16, <2>2, <2>3 DEF CommandStates, OverWord
<1>18. \E k \in 1..Len(stack) : stack[k].state \in {21, 40}
  <2>1. /\ yystate \in State /\ yystate = stack[Len(stack)].state /\ Len(stack) \in Nat /\ Len(stack) >= 1
        /\ Rule = DefaultRule(yystate)
    BY <1>1, <1>3, RuleIs
  <2>2. yystate \in {21, 40, 45, 56}
    <3>1. PICK s : s = yystate
      OBVIOUS
    <3> QED BY <1>3, <2>1, <3>1, EndingStates
  <2>3. CASE yystate \in {21, 40}
    BY <2>1, <2>3
  <2>4. CASE yystate \in {45, 56}
    <3>1. Len(stack) > 1
      BY <1>1, <2>1, <2>4 DEF Stacked
    <3>2. Edge(stack[Len(stack) - 1].state, yystate) /\ stack[Len(stack) - 1].state \in State
          /\ Len(stack) - 1 \in 1..Len(stack)
      <4>1. Len(stack) \in 1..Len(stack) /\ Len(stack) - 1 \in 1..Len(stack)
        BY <2>1, <3>1
      <4>2. Edge(stack[Len(stack) - 1].state, stack[Len(stack)].state)
        BY <1>1, <3>1, <4>1 DEF Stacked
      <4> QED BY <1>1, <2>1, <4>1, <4>2 DEF Stacked
    <3>3. PICK s, t : s = stack[Len(stack) - 1].state /\ t = yystate
      OBVIOUS
    <3>4. s \in {21, 40}
      BY <2>1, <2>4, <3>2, <3>3, EdgeOverWord
    <3> QED BY <3>2, <3>3, <3>4
  <2> QED BY <2>2, <2>3, <2>4
<1>19. PICK w \in Own(cells[c]) : TRUE
  <2>1. PICK i \in DOMAIN cells[c].argv : cells[c].argv[i].segment = segment
    BY <1>6, <1>9, <1>18 DEF Worded
  <2>2. cells[c].argv[i] \in WordsOf(cells[c])
    BY <1>1, <1>10, <2>1, WordIn DEF Typed
  <2> QED BY <2>1, <2>2 DEF Own
<1>20. Before(w.pos) = Passed
  <2>1. w.pos \in 1..Taken /\ w.pos \in Nat /\ Apartfrom(w.pos, Taken)
    <3>1. w.pos \in 1..Taken /\ w.pos \in Nat
      BY <1>1, <1>10, <1>19, OwnPlaces
    <3>2. Apartfrom(w.pos, Taken)
      BY <1>1, <1>4, <1>9, <1>10, <1>19 DEF Ordered
    <3> QED BY <3>1, <3>2
  <2>2. PICK t, p : t = Taken /\ p = w.pos
    OBVIOUS
  <2>3. t \in Nat /\ p \in Nat /\ p <= t /\ Apartfrom(p, t)
    BY <1>4, <2>1, <2>2
  <2>4. Before(p) = Before(t)
    BY <1>1, <2>3, BeforeApart
  <2>5. t \notin Operators
    BY <2>3 DEF Apartfrom
  <2>6. Before(t + 1) = Before(t)
    <3>1. Before(t + 1) = Before(t) + IF t \in Operators THEN 1 ELSE 0
      BY <1>1, <2>3, BeforeNext
    <3>2. Before(t) \in Nat
      BY <1>1, BeforeIs
    <3> QED BY <2>5, <3>1, <3>2
  <2> QED BY <2>2, <2>4, <2>6 DEF Passed
<1>21. Numbered(base)'
  <2>1. SUFFICES ASSUME NEW d \in base + 1..c
                 PROVE  \E x \in Own(cells[d])' : Before(x.pos)' = d - base - 1
    BY <1>11 DEF Numbered
  <2>2. Own(cells[d])' = Own(cells[d])
    BY <1>3, <1>4 DEF Own
  <2>3. CASE d = c
    <3>1. Before(w.pos)' = d - base - 1
      BY <1>4, <1>10, <1>12, <1>20, <1>22, <2>3
    <3>2. w \in Own(cells[d])'
      BY <1>19, <2>2, <2>3
    <3> QED BY <3>1, <3>2
  <2>4. CASE d # c
    <3>1. d \in base + 1..Made
      BY <1>10, <1>11, <2>4
    <3>2. \E x \in Own(cells[d]) : Before(x.pos) = d - base - 1
      BY <1>6, <3>1 DEF Numbered
    <3> QED BY <1>4, <2>2, <3>2
  <2> QED BY <2>3, <2>4
<1> QED BY <1>13, <1>14, <1>15, <1>17, <1>21

\* A word or a redirection: it goes to the command of its number.
LEMMA GrownNumber ==
  ASSUME IInv, Told, NEW base \in Nat, Counted(base), OneLine, Rule \in 26..40, NEW v, Reduce(v), DuringParse,
         NEW c, NEW r, NEW o, Grown(c, r, o)
  PROVE  /\ ~ Complete /\ ~ Complete' /\ Made' = Made /\ c = Made + 1
         /\ Passed \in Nat /\ Made \in Nat /\ c = base + Passed + 1
         /\ text[Taken] = WORD => Before(Taken) = Passed
<1>1. Books /\ Stacked /\ Cells /\ Typed /\ Tokens /\ Leftover
  BY DEF IInv, Told
<1>2. Made \in Nat /\ Passed \in Nat
  BY <1>1, MadeIs, BeforeIs DEF Passed
<1>3. Made' = Made /\ c = Made + 1
  <2>1. Len(cells) \in Nat /\ NULL = 0
    BY <1>1, CellsAre DEF NULL
  <2>2. CASE current_command = NULL
    BY <2>1, <2>2 DEF Grown, Made
  <2>3. CASE current_command # NULL
    BY <1>1, <2>1, <2>3 DEF Grown, Made, Leftover
  <2> QED BY <2>2, <2>3
<1>4. yystate \in Pending
  BY <1>1, WordTaken
<1>5. ~ Complete
  BY <1>4, Distinct DEF Complete
<1>6. ~ Complete'
  <2>1. Rule # 0 /\ Rule # 15 /\ Rule \notin 16..19
    OBVIOUS
  <2> QED BY <1>1, <1>5, <2>1, CompleteReduced
<1>7. c = base + Passed + 1
  <2>1. Made = base + Passed + 0
    BY <1>5 DEF Counted
  <2> QED BY <1>2, <1>3, <2>1
<1>8. text[Taken] = WORD => Before(Taken) = Passed
  <2>1. PICK t : t = Taken
    OBVIOUS
  <2>2. t \in Nat
    BY <1>1, <2>1, TakenIs
  <2>3. Before(t + 1) = Before(t) + IF t \in Operators THEN 1 ELSE 0
    BY <1>1, <2>2, BeforeNext
  <2>4. text[t] = WORD => t \notin Operators
    BY DEF Operators, WORD, PIPE, AND, OR, AMPERSAND
  <2>5. Before(t) \in Nat
    BY <1>1, BeforeIs
  <2> QED BY <2>1, <2>3, <2>4, <2>5 DEF Passed
<1> QED BY <1>2, <1>3, <1>5, <1>6, <1>7, <1>8

LEMMA GrownHasWord ==
  ASSUME IInv, Told, NEW c, NEW r, NEW o, Grown(c, r, o), NEW p, NEW d, segment' = segment,
         HasWord(p, d) \/ (p = Taken /\ text[Taken] = WORD /\ d = c)
  PROVE  HasWord(p, d)'
<1>1. Word(p)' = Word(p)
  BY DEF Word
<1>2. CASE d # c
  <2>1. d \in Cell /\ d \in Cell' /\ cells'[d] = cells[d]
    BY <1>2 DEF Grown, HasWord
  <2> QED BY <1>1, <1>2, <2>1 DEF HasWord
<1>3. CASE d = c
  <2>1. d \in Cell' /\ cells'[d] = r /\ More(r, o)
    BY <1>3 DEF Grown
  <2>2. ASSUME Len(r.redirects) < MAX_REDIRECTS PROVE Word(p) \in WordsOf(r)
    <3>1. /\ Len(o.redirects) < MAX_REDIRECTS /\ WordsOf(o) \subseteq WordsOf(r)
          /\ text[Taken] = WORD => Word(Taken) \in WordsOf(r)
      BY <2>1, <2>2 DEF More
    <3>2. CASE HasWord(p, d)
      <4>1. d \in Cell /\ (Len(cells[d].redirects) < MAX_REDIRECTS => Word(p) \in WordsOf(cells[d]))
        BY <3>2 DEF HasWord
      <4>2. o = cells[d]
        BY <1>3, <4>1 DEF Grown
      <4> QED BY <3>1, <4>1, <4>2
    <3>3. CASE ~ HasWord(p, d)
      BY <3>1, <3>3
    <3> QED BY <3>2, <3>3
  <2> QED BY <1>1, <2>1, <2>2 DEF HasWord
<1> QED BY <1>2, <1>3

LEMMA GrownWorded ==
  ASSUME IInv, Told, Worded, NEW new, NEW old, NEW v, Adds(new, old, v), NEW c, NEW r, NEW o, Grown(c, r, o)
  PROVE  Worded'
<1>1. Books /\ Stacked /\ Cells /\ Typed /\ Tokens
  BY DEF IInv, Told
<1>2. Rule \in 26..40 /\ Rule # 0 /\ Reduce(v) /\ DuringParse
  BY DEF Adds
<1>3. segment' = segment
  BY <1>2 DEF DuringParse, history
<1>4. c = current_command' /\ c # NULL /\ cells'[c] = r /\ More(r, o) /\ r \in Command
  BY DEF Grown, More
<1>5. o \in Command
  <2>1. CASE current_command = NULL
    BY <2>1, NewIs DEF Grown
  <2>2. CASE current_command # NULL
    BY <1>1, <2>2 DEF Grown, Typed
  <2> QED BY <2>1, <2>2
<1>6. o.argv \in Seq(Place) /\ Word(Taken) \in Place
  BY <1>1, <1>2, <1>5, WordTaken DEF Command
<1>7. SUFFICES ASSUME NEW n \in 1..Len(stack'), stack'[n].state \in {21, 40}
               PROVE  \E i \in DOMAIN r.argv : r.argv[i].segment = segment
  BY <1>3, <1>4 DEF Worded
<1>8. r.argv = o.argv \/ r.argv = Append(o.argv, Word(Taken))
  BY <1>4 DEF More
<1>9. CASE Rule \in 29..30
  <2>1. r.argv = Append(o.argv, Word(Taken))
    BY <1>4, <1>9 DEF More
  <2>2. Len(o.argv) \in Nat /\ DOMAIN r.argv = 1..Len(o.argv) + 1
    BY <1>6, <2>1
  <2>3. r.argv[Len(o.argv) + 1] = Word(Taken)
    BY <1>6, <2>1
  <2> QED BY <2>2, <2>3 DEF Word
<1>10. CASE Rule \notin 29..30
  <2>1. \E k \in 1..Len(stack) : stack[k].state \in {21, 40}
    BY <1>1, <1>2, <1>7, <1>10, WordedReduced
  <2>2. current_command # NULL /\ \E i \in DOMAIN cells[current_command].argv :
          cells[current_command].argv[i].segment = segment
    BY <2>1 DEF Worded
  <2>3. o = cells[current_command]
    BY <2>2 DEF Grown
  <2>4. PICK i \in DOMAIN o.argv : o.argv[i].segment = segment
    BY <2>2, <2>3
  <2>5. i \in DOMAIN r.argv /\ r.argv[i] = o.argv[i]
    BY <1>6, <1>8, <2>4
  <2> QED BY <2>4, <2>5
<1> QED BY <1>9, <1>10

LEMMA AddsSpelled ==
  ASSUME IInv, Told, NEW base \in Nat, Spelled(base), NEW new, NEW old, NEW v, Adds(new, old, v)
  PROVE  Spelled(base)'
<1>1. Books /\ Stacked /\ Cells /\ Typed /\ Tokens /\ Ordered
  BY DEF IInv, Told
<1>2. Rule \in 26..40 /\ Rule # 0 /\ Rule # 15 /\ Reduce(v) /\ DuringParse /\ yystate \in Pending
  BY DEF Adds
<1>3. /\ pc' = "parse" /\ OnLine /\ Taken' = Taken /\ Taken \in Nat /\ Passed' = Passed
      /\ UNCHANGED <<yychar, text, segment, Flat>>
      /\ \A p : Before(p)' = Before(p)
  BY <1>1, <1>2, ReadingKept
<1>4. SUFFICES ASSUME Flat PROVE (Counted(base) /\ Numbered(base) /\ Worded /\ Ended /\ Whole(base))'
  BY <1>3, NotOver DEF Spelled
<1>5. Counted(base) /\ Numbered(base) /\ Worded /\ Ended /\ Whole(base) /\ OneLine
  BY <1>3, <1>4 DEF Spelled, Flat
<1>6. PICK c, r, o : Grown(c, r, o)
  BY <1>1, AddsContent
<1>7. /\ ~ Complete /\ ~ Complete' /\ Made' = Made /\ c = Made + 1
      /\ Passed \in Nat /\ Made \in Nat /\ c = base + Passed + 1
      /\ text[Taken] = WORD => Before(Taken) = Passed
  BY <1>2, <1>5, <1>6, GrownNumber
<1>8. Counted(base)'
  BY <1>3, <1>5, <1>7 DEF Counted
<1>9. Ended'
  BY <1>7 DEF Ended
<1>10. Worded'
  BY <1>5, <1>6, GrownWorded
<1>11. Numbered(base)'
  <2>1. SUFFICES ASSUME NEW d \in base + 1..Made
                 PROVE  \E x \in Own(cells[d])' : Before(x.pos)' = d - base - 1
    BY <1>7 DEF Numbered
  <2>2. d \in Cell
    BY <1>1, MadeIs
  <2>3. cells'[d] = cells[d]
    BY <1>6, <1>7, <2>2 DEF Grown
  <2>4. Own(cells[d])' = Own(cells[d])
    BY <1>3, <2>3 DEF Own
  <2>5. \E x \in Own(cells[d]) : Before(x.pos) = d - base - 1
    BY <1>5 DEF Numbered
  <2> QED BY <1>3, <2>4, <2>5
<1>12. Whole(base)'
  <2>1. SUFFICES ASSUME NEW p \in 1..Taken, text[p] = WORD PROVE HasWord(p, base + 1 + Before(p))'
    BY <1>3 DEF Whole
  <2>2. PICK d : d = base + 1 + Before(p)
    OBVIOUS
  <2>3. HasWord(p, d) \/ (p = Taken /\ text[Taken] = WORD /\ d = c)
    <3>1. CASE p = Taken
      <4>1. d = c
        BY <1>7, <2>1, <2>2, <3>1
      <4> QED BY <2>1, <3>1, <4>1
    <3>2. CASE p # Taken
      BY <1>5, <2>1, <2>2, <3>2 DEF Whole
    <3> QED BY <3>1, <3>2
  <2>4. HasWord(p, d)'
    BY <1>3, <1>6, <2>3, GrownHasWord
  <2>5. (base + 1 + Before(p))' = d
    BY <1>3, <2>2
  <2> QED BY <2>4, <2>5
<1> QED BY <1>8, <1>9, <1>10, <1>11, <1>12

-----------------------------------------------------------------------------
(* The whole of it.                                                            *)
AsWritten == Told /\ \E base \in Nat : Segmented(base) /\ Spelled(base)

LEMMA WrittenFirst == Init => AsWritten
<1> SUFFICES ASSUME Init PROVE AsWritten
  OBVIOUS
<1>1. /\ cells = <<>> /\ current_command = NULL /\ command_list = NoList /\ pc = "ready" /\ ran = <<>>
  BY DEF Init
<1>2. Cell = {} /\ Len(cells) = 0
  BY <1>1 DEF Cell
<1>3. Since(0)
  BY <1>1, <1>2 DEF Since, Younger
<1>4. RanSince(0)
  BY <1>1 DEF RanSince
<1>5. Spelled(0)
  BY <1>1 DEF Spelled, Over, OnLine
<1> QED BY <1>2, <1>3, <1>4, <1>5, ToldFirst DEF AsWritten, Segmented

LEMMA StepSegmented ==
  ASSUME IInv, Told, NEW base \in Nat, Segmented(base), Step
  PROVE  Segmented(base)'
<1>1. base <= Len(cells) /\ Since(base) /\ RanSince(base) /\ Tokens /\ Len(cells) \in Nat
  BY CellsAre DEF Segmented, Told, IInv
<1>2. CASE Lex \/ Shift
  <2>1. Since(base)' /\ ran' = <<>>
    BY <1>1, <1>2, LexSince, ShiftSince
  <2>2. cells' = cells
    BY <1>2 DEF Lex, Shift, heap
  <2> QED BY <1>1, <2>1, <2>2, NothingSince DEF Segmented
<1>3. CASE SyntaxError
  <2>1. /\ pc = "parse" /\ pc' = "ready" /\ fruitless' = fruitless \cup {segment}
        /\ UNCHANGED <<heap, segment, ran>>
    BY <1>3 DEF SyntaxError, Decided, Parsing
  <2>2. UNCHANGED <<cells, current_command, command_list>>
    BY <2>1 DEF heap
  <2> QED BY <1>1, <2>1, <2>2, FruitlessSince, NothingSince DEF Segmented
<1>4. CASE Reduction
  <2>1. \E v : Brought(v)
    BY <1>4, PlainBrings, CommandBrings, LinkBrings, ListBrings, WordBrings DEF Reduction
  <2>2. base <= Len(cells') /\ Since(base)' /\ ran' = <<>>
    BY <1>1, <2>1, BroughtSince
  <2> QED BY <2>2, NothingSince DEF Segmented
<1>5. CASE Execution
  <2>1. Since(base)' /\ RanSince(base)'
    BY <1>1, <1>5, AcceptSince, PipelineSince, CommandSince, EndSince DEF Execution
  <2>2. Len(cells') = Len(cells)
    <3>1. Accept => Len(cells') = Len(cells)
      BY AcceptIs
    <3>2. ~ Accept => cells' = cells
      BY <1>5 DEF Execution, ExecutePipeline, ExecuteCommand, EndOfList, FreeList, DuringWalk
    <3> QED BY <3>1, <3>2
  <2> QED BY <1>1, <2>1, <2>2 DEF Segmented
<1> QED BY <1>2, <1>3, <1>4, <1>5 DEF Step

LEMMA StutterSegmented ==
  ASSUME NEW base, Segmented(base), UNCHANGED vars
  PROVE  Segmented(base)'
<1>1. UNCHANGED <<cells, current_command, command_list, stack, pc, cmd, text, segment, fruitless, ran, Cell>>
  BY DEF vars, heap, yyparse, history, Cell
<1>2. Younger(base)'
  BY <1>1 DEF Segmented, Since, Younger, IsRoot, First
<1>3. Since(base)'
  BY <1>1, <1>2 DEF Segmented, Since, Timely, Words, Targets, OneLine, Ampersand
<1>4. RanSince(base)'
  BY <1>1 DEF Segmented, RanSince, OneLine, Ampersand
<1> QED BY <1>1, <1>3, <1>4 DEF Segmented

LEMMA KeepsSpelled ==
  ASSUME IInv, Told, NEW base \in Nat, Spelled(base), ReducePlain \/ ReduceList
  PROVE  Spelled(base)'
<1>1. PICK v : Reduce(v)
  BY DEF ReducePlain, ReduceList
<1>2. Rule # 0 /\ Rule \notin 16..19 \cup 26..40 /\ DuringParse /\ cells' = cells /\ current_command' = current_command
  BY DEF ReducePlain, ReduceList, heap
<1>3. ContentKept /\ Len(cells') = Len(cells)
  BY <1>2, SameContent DEF Told
<1> QED BY <1>1, <1>2, <1>3, KeptSpelled

LEMMA LinkSpelled ==
  ASSUME IInv, Told, NEW base \in Nat, Spelled(base), ReducePipe \/ ReduceAndOr \/ ReduceSequence \/ ReduceBackground
  PROVE  Spelled(base)'
<1>1. Cells /\ Typed /\ Lists
  BY DEF IInv, Told
<1>2. CASE ReducePipe
  <2>1. PICK G, m, f, a, b : Piping(G, m, f, a, b)
    BY <1>2, PipeIs
  <2>2. ContentKept /\ Len(cells') = Len(cells)
    BY <1>1, <2>1, PipeContent
  <2>3. Rule # 0 /\ Rule \notin 16..19 \cup 26..40 /\ Reduce(f) /\ DuringParse /\ current_command' = current_command
    BY <2>1 DEF Piping
  <2> QED BY <2>2, <2>3, KeptSpelled
<1>3. CASE ReduceAndOr
  <2>1. PICK G, m, f, a, b : Joining(G, m, f, a, b)
    BY <1>3, AndOrIs
  <2>2. ContentKept /\ Len(cells') = Len(cells)
    BY <1>1, <2>1, AndOrContent
  <2>3. PICK v : v = [head |-> f, tail |-> b]
    OBVIOUS
  <2>4. Rule # 0 /\ Rule \notin 16..19 \cup 26..40 /\ Reduce(v) /\ DuringParse /\ current_command' = current_command
    BY <2>1, <2>3 DEF Joining
  <2> QED BY <2>2, <2>4, KeptSpelled
<1>4. CASE ReduceSequence
  <2>1. PICK G, f, t : Sequencing(G, f, t)
    BY <1>4, SequenceIs
  <2>2. ContentKept /\ Len(cells') = Len(cells)
    BY <1>1, <2>1, SequenceContent
  <2>3. PICK v : v = [head |-> f, tail |-> t]
    OBVIOUS
  <2>4. Rule # 0 /\ Rule \notin 16..19 \cup 26..40 /\ Reduce(v) /\ DuringParse /\ current_command' = current_command
    BY <2>1, <2>3 DEF Sequencing
  <2> QED BY <2>2, <2>4, KeptSpelled
<1>5. CASE ReduceBackground
  <2>1. PICK G, a, v : Marking(G, a, v)
    BY <1>1, <1>5, BackgroundIs
  <2>2. ContentKept /\ Len(cells') = Len(cells)
    BY <1>1, <2>1, BackgroundContent
  <2>3. Rule # 0 /\ Rule \notin 16..19 \cup 26..40 /\ Reduce(v) /\ DuringParse /\ current_command' = current_command
    BY <2>1 DEF Marking
  <2> QED BY <2>2, <2>3, KeptSpelled
<1> QED BY <1>2, <1>3, <1>4, <1>5

LEMMA SubcommandSpelled ==
  ASSUME IInv, Told, NEW base \in Nat, Spelled(base), ReduceSubcommand
  PROVE  Spelled(base)'
<1>1. Books /\ Stacked /\ Tokens
  BY DEF IInv, Told
<1>2. Rule = 15 /\ Rule # 0 /\ DuringParse
  BY DEF ReduceSubcommand
<1>3. pc' = "parse" /\ Flat' = Flat
  BY <1>1, <1>2, ReadingKept
<1>4. ~ Flat
  BY <1>1, <1>2, NoRule15
<1> QED BY <1>3, <1>4, NotOver DEF Spelled

LEMMA StepSpelled ==
  ASSUME IInv, IInv', Told, NEW base \in Nat, Segmented(base), Spelled(base), Step
  PROVE  Spelled(base)'
<1>1. CASE Lex \/ Shift
  BY <1>1, LexSpelled, ShiftSpelled
<1>2. CASE SyntaxError
  BY <1>2, ErrorSpelled
<1>3. CASE Reduction
  <2>1. CASE ReduceWord \/ ReduceRedirect
    <3>1. \E new, old, v : Adds(new, old, v)
      BY <2>1, WordIs, RedirectionIs DEF Told
    <3> QED BY <3>1, AddsSpelled
  <2> QED BY <1>3, <2>1, KeepsSpelled, SimpleSpelled, SubcommandSpelled, LinkSpelled DEF Reduction
<1>4. CASE Execution
  BY <1>4, AcceptSpelled, WalkSpelled DEF Execution
<1> QED BY <1>1, <1>2, <1>3, <1>4 DEF Step

LEMMA WrittenNext == IInv /\ IInv' /\ AsWritten /\ [Next]_vars => AsWritten'
<1> SUFFICES ASSUME IInv, IInv', AsWritten, [Next]_vars PROVE AsWritten'
  OBVIOUS
<1>1. Told /\ Told'
  BY ToldNext DEF AsWritten
<1>2. PICK old \in Nat : Segmented(old) /\ Spelled(old)
  BY DEF AsWritten
<1>3. \E base \in Nat : Segmented(base)' /\ Spelled(base)'
  <2>1. CASE Segment
    <3>3. Since(old)
      BY <1>2 DEF Segmented
    <3>4. \E base \in Nat : /\ base = IF current_command # NULL THEN current_command - 1 ELSE Len(cells)
                           /\ base <= Len(cells') /\ Since(base)' /\ ran' = <<>>
      BY <1>1, <2>1, <3>3, SegmentSince, Zenon
    <3>1. PICK base \in Nat : /\ base = IF current_command # NULL THEN current_command - 1 ELSE Len(cells)
                             /\ base <= Len(cells') /\ Since(base)' /\ ran' = <<>>
      BY <3>4
    <3>2. Spelled(base)'
      BY <1>1, <2>1, <3>1, SegmentSpelled
    <3> QED BY <3>1, <3>2, NothingSince DEF Segmented
  <2>2. CASE Step
    BY <1>1, <1>2, <2>2, StepSegmented, StepSpelled
  <2>3. CASE UNCHANGED vars
    BY <1>2, <2>3, StutterSegmented, StutterSpelled
  <2> QED BY <2>1, <2>2, <2>3 DEF Next
<1> QED BY <1>1, <1>3 DEF AsWritten

LEMMA Written == Spec => [](IInv /\ AsWritten)
<1>1. Init => IInv /\ AsWritten
  BY Initially, WrittenFirst
<1>2. IInv /\ AsWritten /\ [Next]_vars => (IInv /\ AsWritten)'
  BY Preserved, WrittenNext
<1> QED BY <1>1, <1>2, PTL DEF Spec

LEMMA TimelyWords ==
  ASSUME NEW base, RanSince(base), Since(base)
  PROVE  WordsOfTheSegment /\ LastTokenIsBackground
<1>1. \A n \in DOMAIN ran : \A c \in ToSet(ran[n].stages) : Timely(c, segment - 1)
  BY DEF RanSince, Since
<1>2. WordsOfTheSegment
  BY <1>1 DEF WordsOfTheSegment, Timely
<1>3. LastTokenIsBackground
  BY DEF RanSince, LastTokenIsBackground
<1> QED BY <1>2, <1>3

LEMMA OrderedWords ==
  ASSUME Books, Ordered
  PROVE  WordsInOrder
<1> SUFFICES ASSUME NEW n \in DOMAIN ran, NEW c \in ToSet(ran[n].stages)
             PROVE  /\ \A v, w \in OwnWords(c) : \A p \in v.pos..w.pos : p \notin Operators
                    /\ \A i, j \in DOMAIN cells[c].argv :
                         i < j /\ cells[c].argv[j].segment = segment =>
                           \/ cells[c].argv[i].segment < segment
                           \/ cells[c].argv[i].pos < cells[c].argv[j].pos
  BY DEF WordsInOrder
<1>1. c \in Cell
  BY DEF Books
<1>2. Tidy(cells[c])
  BY <1>1 DEF Ordered
<1>3. \A v, w \in OwnWords(c) : Apartfrom(v.pos, w.pos)
  BY <1>2, WordsAre DEF Tidy
<1>4. InOrder(cells[c])
  BY <1>2 DEF Tidy
<1> QED BY <1>3, <1>4 DEF Apartfrom, InOrder

\* Places with the same operators before them have the same number.
LEMMA SameNumber ==
  ASSUME Books, NEW p \in Nat, NEW q \in Nat, \A o \in Operators : o < p <=> o < q
  PROVE  Before(p) = Before(q)
<1>1. {o \in Operators : o < p} = {o \in Operators : o < q}
  OBVIOUS
<1> QED BY <1>1 DEF Before

\* A command has the words of one number only.
LEMMA OwnNumber ==
  ASSUME Books, Ordered, Typed, NEW c \in Cell, NEW v \in Own(cells[c]), NEW w \in Own(cells[c])
  PROVE  Before(v.pos) = Before(w.pos)
<1>1. v.pos \in Nat /\ w.pos \in Nat
  BY OwnPlaces
<1>2. Apartfrom(v.pos, w.pos) /\ Apartfrom(w.pos, v.pos)
  BY DEF Ordered, Tidy
<1>3. PICK p, q : p = v.pos /\ q = w.pos
  OBVIOUS
<1>4. p \in Nat /\ q \in Nat /\ Apartfrom(p, q) /\ Apartfrom(q, p)
  BY <1>1, <1>2, <1>3
<1>5. CASE p <= q
  BY <1>3, <1>4, <1>5, BeforeApart
<1>6. CASE q <= p
  BY <1>3, <1>4, <1>6, BeforeApart
<1> QED BY <1>4, <1>5, <1>6

LEMMA WholeCommands ==
  ASSUME IInv, Told, NEW base \in Nat, Segmented(base), Spelled(base)
  PROVE  CommandsAsWritten
<1> SUFFICES ASSUME NEW n \in DOMAIN ran, NEW c \in ToSet(ran[n].stages), Flat,
                    Len(cells[c].redirects) < MAX_REDIRECTS, NEW p \in DOMAIN text, text[p] = WORD,
                    NEW w \in OwnWords(c), \A o \in Operators : o < p <=> o < w.pos
             PROVE  Word(p) \in Words(c)
  BY DEF CommandsAsWritten
<1>1. Books /\ Cells /\ Typed /\ Ordered /\ Tokens
  BY DEF IInv, Told
<1>2. ran # <<>> /\ c \in Cell /\ c > base
  <2>1. c \in Cell /\ c > base
    BY DEF Segmented, RanSince
  <2>2. ran # <<>>
    OBVIOUS
  <2> QED BY <2>1, <2>2
<1>3. OnLine /\ pc # "parse" /\ yystate = 2 /\ yychar = YYEMPTY /\ current_command = NULL
  <2>1. OnLine /\ pc # "parse"
    BY <1>2 DEF OnLine, Segmented, Since
  <2> QED BY <2>1 DEF Spelled, Over
<1>4. Numbered(base) /\ Whole(base)
  BY <1>3 DEF Spelled
<1>5. Made = Len(cells) /\ Taken = Len(text)
  BY <1>3 DEF Made, Taken, YYEMPTY, EOF
<1>6. c \in base + 1..Made
  BY <1>1, <1>2, <1>5, CellsAre
<1>7. PICK v \in Own(cells[c]) : Before(v.pos) = c - base - 1
  BY <1>4, <1>6 DEF Numbered
<1>8. w \in Own(cells[c])
  BY WordsAre
<1>9. Before(w.pos) = c - base - 1
  BY <1>1, <1>2, <1>7, <1>8, OwnNumber
<1>10. p \in 1..Len(text) /\ p \in Nat
  BY <1>1, TextIs
<1>11. Before(p) = c - base - 1
  <2>1. PICK q : q = w.pos
    OBVIOUS
  <2>2. q \in Nat
    BY <1>1, <1>2, <1>8, <2>1, OwnPlaces
  <2> QED BY <1>1, <1>9, <1>10, <2>1, <2>2, SameNumber
<1>12. base + 1 + Before(p) = c
  BY <1>2, <1>11, <1>1, CellsAre
<1>13. HasWord(p, base + 1 + Before(p))
  <2>1. yystate \notin Pending
    BY <1>3 DEF Pending
  <2> QED BY <1>4, <1>5, <1>10, <2>1 DEF Whole
<1> QED BY <1>12, <1>13, WordsAre DEF HasWord

LEMMA AsWrittenMeans ==
  ASSUME IInv, AsWritten
  PROVE  WordsOfTheSegment /\ LastTokenIsBackground /\ WordsInOrder /\ CommandsAsWritten
<1>1. Books /\ Ordered
  BY DEF IInv, AsWritten, Told
<1>2. PICK base \in Nat : Segmented(base) /\ Spelled(base)
  BY DEF AsWritten
<1>3. WordsOfTheSegment /\ LastTokenIsBackground
  BY <1>2, TimelyWords DEF Segmented
<1>4. CommandsAsWritten
  BY <1>2, WholeCommands DEF AsWritten
<1> QED BY <1>1, <1>3, <1>4, OrderedWords

\* A command that runs has the words of its own segment. The one exception is what a
\* refused line leaves in current_command: it ends up in the next command that the
\* parser builds, and a command that was built never takes up a word later.
THEOREM WordsAreTimely == Spec => []WordsOfTheSegment
BY Written, AsWrittenMeans, PTL

\* The words of a command that runs were written between two operators of the line, and
\* they are in its argv in the order of the line, those of a refused line in front.
THEOREM WordsAsTyped == Spec => []WordsInOrder
BY Written, AsWrittenMeans, PTL

\* The mark that reduce_background puts on the last command of the list is the one that
\* execute_pipeline and execute_command find: all that a segment runs is in the
\* background exactly if the segment's last token is "&".
THEOREM BackgroundByLastToken == Spec => []LastTokenIsBackground
BY Written, AsWrittenMeans, PTL

\* No word is lost: a command that runs has all the words that were written for it, and
\* all the targets of its redirections as far as add_redirect has room for them.
THEOREM CommandsAreWhole == Spec => []CommandsAsWritten
BY Written, AsWrittenMeans, PTL

\* No line takes part in another, but for the leftover of a refused one: the four above
\* together are what the run checks.
THEOREM LinesKeptApart == Spec => []CommandsOfTheLine
BY Written, AsWrittenMeans, PTL DEF CommandsOfTheLine
=============================================================================
