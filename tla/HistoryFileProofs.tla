-------------------------- MODULE HistoryFileProofs --------------------------
(* Proofs about HistoryFile, for any number of shells, calls, kills and lines: *)
(* between the system calls of any of them, what has the history file's name   *)
(* is the text of a whole list, and so is the part of it a reader has measured.*)
EXTENDS HistoryFile, SequenceTheorems, WellFoundedInduction, TLAPS

-----------------------------------------------------------------------------
(* Natural numbers and sequences.                                              *)
LEMMA SetInduction ==
  ASSUME NEW S, NEW N \in Nat, 0 \in S, \A n \in 1..N : n - 1 \in S => n \in S
  PROVE  \A n \in 0..N : n \in S
<1> DEFINE R == OpToRel(<, Nat)
           T == {n \in 0..N : n \notin S}
<1> SUFFICES ASSUME T # {} PROVE FALSE
  OBVIOUS
<1>1. T \subseteq Nat
  OBVIOUS
<1>2. PICK x \in T : \A y \in T : <<y, x>> \notin R
  <2> HIDE DEF R, T
  <2> QED BY <1>1, NatLessThanWellFounded, WFMin DEF R
<1>3. \A y \in T : ~ (y < x)
  BY <1>1, <1>2 DEF OpToRel
<1> HIDE DEF R
<1>4. x \in 1..N /\ x - 1 \in 0..N /\ x - 1 < x
  BY <1>2
<1>5. x - 1 \in S
  BY <1>3, <1>4
<1> QED BY <1>2, <1>4, <1>5

\* A function defined from each number to the next exists.
StepsOf(N, V) == [(1..N) \X V -> V]
Iterates(f, N, V, a, g) ==
  f \in [0..N -> V] /\ f[0] = a /\ \A n \in 1..N : f[n] = g[<<n, f[n - 1]>>]
LEMMA Recursion ==
  ASSUME NEW N \in Nat, NEW V, NEW a \in V, NEW g \in StepsOf(N, V)
  PROVE  \E f : Iterates(f, N, V, a, g)
<1> USE DEF StepsOf
<1> DEFINE Is(f, k) == f[0] = a /\ \A n \in 1..k : f[n] = g[<<n, f[n - 1]>>]
           S == {k \in Nat : \E f \in [0..k -> V] : Is(f, k)}
<1>1. 0 \in S
  <2> DEFINE f == [n \in 0..0 |-> a]
  <2>1. f \in [0..0 -> V] /\ Is(f, 0)
    OBVIOUS
  <2> QED BY <2>1
<1>2. ASSUME NEW k \in 1..N, k - 1 \in S PROVE k \in S
  <2>1. PICK f \in [0..k - 1 -> V] : Is(f, k - 1)
    BY <1>2
  <2> DEFINE h == [n \in 0..k |-> IF n = k THEN g[<<k, f[k - 1]>>] ELSE f[n]]
  <2>2. k - 1 \in 0..k - 1 /\ k \in Nat
    OBVIOUS
  <2>3. g[<<k, f[k - 1]>>] \in V
    BY <2>1, <2>2
  <2>4. h \in [0..k -> V]
    BY <2>1, <2>2, <2>3
  <2>5. h[0] = a
    BY <2>1, <2>2
  <2>6. ASSUME NEW n \in 1..k PROVE h[n] = g[<<n, h[n - 1]>>]
    <3>1. CASE n = k
      <4>1. k \in 0..k /\ k - 1 \in 0..k /\ k - 1 # k
        OBVIOUS
      <4>2. h[k] = g[<<k, f[k - 1]>>] /\ h[k - 1] = f[k - 1]
        BY <4>1
      <4> HIDE DEF h
      <4> QED BY <3>1, <4>2
    <3>2. CASE n # k
      <4>1. n \in 1..k - 1 /\ n - 1 \in 0..k /\ n \in 0..k /\ n - 1 # k
        BY <3>2
      <4>2. h[n] = f[n] /\ h[n - 1] = f[n - 1]
        BY <3>2, <4>1
      <4> QED BY <2>1, <4>1, <4>2
    <3> QED BY <3>1, <3>2
  <2> HIDE DEF h
  <2> QED BY <2>2, <2>4, <2>5, <2>6
<1>3. \A k \in 0..N : k \in S
  <2> HIDE DEF S
  <2> QED BY <1>1, <1>2, SetInduction
<1>4. N \in 0..N
  OBVIOUS
<1> QED BY <1>3, <1>4 DEF Iterates

-----------------------------------------------------------------------------
(* The text of a list.                                                         *)
LEMMA EnteredLines ==
  \A l \in Entered : IsLine(l) /\ l \in Seq(Char) /\ l # <<>> /\ \A i \in 1..Len(l) : l[i] # "LF"
<1>1. \A l \in Entered : IsLine(l)
  BY LineAssumption, FoundAssumption DEF Entered, Range
<1> QED BY <1>1 DEF IsLine

LEMMA LineFeed == <<"LF">> \in Seq(Char)
<1>1. ASSUME NEW S, NEW x \in S PROVE <<x>> \in Seq(S)
  OBVIOUS
<1> QED BY <1>1, CharAssumption

LEMMA TextsAre ==
  ASSUME NEW es \in Seq(Entered)
  PROVE  /\ Texts(es) \in [0..Len(es) -> Seq(Char)]
         /\ Texts(es)[0] = <<>>
         /\ \A n \in 1..Len(es) : Texts(es)[n] = Texts(es)[n - 1] \o es[n] \o <<"LF">>
<1> DEFINE N == Len(es)
           V == Seq(Char)
           nothing == <<>>
           g == [p \in (1..N) \X V |-> p[2] \o es[p[1]] \o <<"LF">>]
           G(f) == f = [n \in 0..N |-> IF n = 0 THEN <<>> ELSE f[n - 1] \o es[n] \o <<"LF">>]
<1>1. N \in Nat /\ \A n \in 1..N : es[n] \in V
  BY EnteredLines
<1>2. g \in StepsOf(N, V)
  <2>1. ASSUME NEW p \in (1..N) \X V PROVE p[2] \o es[p[1]] \o <<"LF">> \in V
    <3>1. PICK n \in 1..N, x \in V : p = <<n, x>>
      OBVIOUS
    <3>2. p[1] = n /\ p[2] = x
      BY <3>1
    <3>3. <<"LF">> \in V
      BY LineFeed
    <3>5. es[n] \in V
      BY <1>1
    <3>4. x \o es[n] \in V
      BY <3>5
    <3> QED BY <3>2, <3>3, <3>4
  <2> QED BY <2>1 DEF StepsOf
<1>3. nothing \in V
  OBVIOUS
<1>0. PICK f : Iterates(f, N, V, nothing, g)
  <2>1. N \in Nat
    BY <1>1
  <2> HIDE DEF g, G, V, N, nothing
  <2> QED BY <2>1, <1>2, <1>3, Recursion
<1>4. f \in [0..N -> V] /\ f[0] = <<>> /\ \A n \in 1..N : f[n] = g[<<n, f[n - 1]>>]
  BY <1>0 DEF Iterates
<1>5. \A n \in 1..N : f[n] = f[n - 1] \o es[n] \o <<"LF">>
  <2> SUFFICES ASSUME NEW n \in 1..N PROVE f[n] = f[n - 1] \o es[n] \o <<"LF">>
    OBVIOUS
  <2>1. n - 1 \in 0..N
    BY <1>1
  <2>2. <<n, f[n - 1]>> \in (1..N) \X V
    BY <1>4, <2>1
  <2>3. g[<<n, f[n - 1]>>] = f[n - 1] \o es[n] \o <<"LF">>
    BY <2>2
  <2> QED BY <1>4, <2>3
<1>6. G(f)
  <2>1. f = [n \in 0..N |-> f[n]]
    BY <1>4
  <2>2. ASSUME NEW n \in 0..N
        PROVE  f[n] = IF n = 0 THEN <<>> ELSE f[n - 1] \o es[n] \o <<"LF">>
    <3>1. CASE n = 0
      BY <1>4, <3>1
    <3>2. CASE n # 0
      <4>1. n \in 1..N
        BY <1>1, <3>2
      <4> QED BY <1>5, <3>2, <4>1
    <3> QED BY <3>1, <3>2
  <2> QED BY <2>1, <2>2
<1> DEFINE lines == CHOOSE h : G(h)
<1>7. lines = Texts(es)
  BY DEF Texts
<1>8. G(lines)
  <2> HIDE DEF G
  <2> QED BY <1>6
<1> HIDE DEF lines
<1>9. lines[0] = <<>> /\ \A n \in 1..N : lines[n] = lines[n - 1] \o es[n] \o <<"LF">>
  <2>1. N \in Nat
    BY <1>1
  <2>2. 0 \in 0..N /\ \A n \in 1..N : n \in 0..N /\ n # 0
    BY <2>1
  <2> HIDE DEF N
  <2>3. lines[0] = <<>>
    BY <1>8, <2>2
  <2>4. ASSUME NEW n \in 1..N PROVE lines[n] = lines[n - 1] \o es[n] \o <<"LF">>
    BY <1>8, <2>2
  <2> QED BY <2>3, <2>4
<1>10. \A n \in 0..N : lines[n] = f[n]
  <2> DEFINE S == {n \in 0..N : lines[n] = f[n]}
  <2>1. 0 \in S
    BY <1>1, <1>4, <1>9
  <2>2. ASSUME NEW n \in 1..N, n - 1 \in S PROVE n \in S
    <3>1. n \in 0..N /\ lines[n - 1] = f[n - 1]
      BY <1>1, <2>2
    <3>2. lines[n] = lines[n - 1] \o es[n] \o <<"LF">> /\ f[n] = f[n - 1] \o es[n] \o <<"LF">>
      BY <1>5, <1>9
    <3> QED BY <3>1, <3>2
  <2>3. \A n \in 0..N : n \in S
    <3> HIDE DEF S, N
    <3> QED BY <1>1, <2>1, <2>2, SetInduction
  <2> QED BY <2>3
<1>11. lines \in [0..N -> V]
  <2>1. lines = [n \in 0..N |-> lines[n]]
    BY <1>8
  <2> QED BY <1>4, <1>10, <2>1
<1> QED BY <1>7, <1>9, <1>11

LEMMA TextType == \A es \in Seq(Entered) : Text(es) \in Seq(Char)
<1> SUFFICES ASSUME NEW es \in Seq(Entered) PROVE Text(es) \in Seq(Char)
  OBVIOUS
<1>1. Len(es) \in 0..Len(es)
  OBVIOUS
<1> QED BY <1>1, TextsAre DEF Text

LEMMA EmptyText == <<>> \in Seq(Entered) /\ Text(<<>>) = <<>>
<1>1. <<>> \in Seq(Entered) /\ Len(<<>>) = 0
  OBVIOUS
<1> QED BY <1>1, TextsAre DEF Text

\* The text of a list goes on with the text of the list that follows.
Grouped(a, b, c, d) == (a \o b) \o c \o d = a \o (b \o c \o d)
LEMMA LineJoined ==
  ASSUME NEW a \in Seq(Char), NEW b \in Seq(Char), NEW c \in Seq(Char), NEW d \in Seq(Char)
  PROVE  Grouped(a, b, c, d)
<1>1. (a \o b) \o c = a \o (b \o c)
  BY ConcatAssociative
<1>2. PICK x \in Seq(Char) : x = b \o c
  BY ConcatProperties
<1>4. (a \o x) \o d = a \o (x \o d)
  BY ConcatAssociative
<1>3. (a \o (b \o c)) \o d = a \o ((b \o c) \o d)
  BY <1>2, <1>4
<1> QED BY <1>1, <1>3 DEF Grouped

LEMMA TextJoined ==
  ASSUME NEW e1 \in Seq(Entered), NEW e2 \in Seq(Entered)
  PROVE  e1 \o e2 \in Seq(Entered) /\ Text(e1 \o e2) = Text(e1) \o Text(e2)
<1> DEFINE es == e1 \o e2
           L == Len(e1)
           M == Len(e2)
<1>1. /\ es \in Seq(Entered) /\ Len(es) = L + M /\ L \in Nat /\ M \in Nat
      /\ \A n \in 1..L : es[n] = e1[n]
      /\ \A n \in 1..M : es[L + n] = e2[n]
  OBVIOUS
<1> HIDE DEF es, L, M
<1>2. /\ Texts(e1) \in [0..L -> Seq(Char)] /\ Texts(e1)[0] = <<>>
      /\ \A n \in 1..L : Texts(e1)[n] = Texts(e1)[n - 1] \o e1[n] \o <<"LF">>
  BY TextsAre DEF L
<1>3. /\ Texts(e2) \in [0..M -> Seq(Char)] /\ Texts(e2)[0] = <<>>
      /\ \A n \in 1..M : Texts(e2)[n] = Texts(e2)[n - 1] \o e2[n] \o <<"LF">>
  BY TextsAre DEF M
<1>4. /\ Texts(es) \in [0..L + M -> Seq(Char)] /\ Texts(es)[0] = <<>>
      /\ \A n \in 1..L + M : Texts(es)[n] = Texts(es)[n - 1] \o es[n] \o <<"LF">>
  BY <1>1, TextsAre
<1>5. \A n \in 0..L : n \in {k \in 0..L : Texts(es)[k] = Texts(e1)[k]}
  <2> DEFINE S == {k \in 0..L : Texts(es)[k] = Texts(e1)[k]}
  <2>1. 0 \in S
    BY <1>1, <1>2, <1>4
  <2>2. ASSUME NEW n \in 1..L, n - 1 \in S PROVE n \in S
    <3>1. n \in 0..L /\ n \in 1..L + M /\ es[n] = e1[n]
      BY <1>1
    <3>2. Texts(es)[n - 1] = Texts(e1)[n - 1]
      BY <2>2
    <3> QED BY <1>2, <1>4, <3>1, <3>2
  <2> HIDE DEF S
  <2>3. \A n \in 0..L : n \in S
    BY <1>1, <2>1, <2>2, SetInduction
  <2> QED BY <2>3 DEF S
<1>6. \A n \in 0..M : n \in {k \in 0..M : Texts(es)[L + k] = Texts(e1)[L] \o Texts(e2)[k]}
  <2> DEFINE S == {k \in 0..M : Texts(es)[L + k] = Texts(e1)[L] \o Texts(e2)[k]}
  <2>1. 0 \in S
    <3>1. Texts(e1)[L] \in Seq(Char) /\ Texts(es)[L] = Texts(e1)[L] /\ L + 0 = L
      BY <1>1, <1>2, <1>5
    <3>2. Texts(e1)[L] \o <<>> = Texts(e1)[L]
      BY <3>1
    <3>3. 0 \in 0..M /\ Texts(es)[L + 0] = Texts(e1)[L] \o Texts(e2)[0]
      BY <1>1, <1>3, <3>1, <3>2
    <3> QED BY <3>3
  <2>2. ASSUME NEW n \in 1..M, n - 1 \in S PROVE n \in S
    <3>1. n \in 0..M /\ L + n \in 1..L + M /\ L + n - 1 = L + (n - 1) /\ n - 1 \in 0..M /\ L \in 0..L
      BY <1>1
    <3>2. Texts(es)[L + (n - 1)] = Texts(e1)[L] \o Texts(e2)[n - 1]
      BY <2>2
    <3>3. Texts(es)[L + n] = Texts(es)[L + n - 1] \o es[L + n] \o <<"LF">>
      <4>1. PICK q \in 1..L + M : q = L + n
        BY <3>1
      <4>2. Texts(es)[q] = Texts(es)[q - 1] \o es[q] \o <<"LF">>
        BY <1>4
      <4>3. q - 1 = L + n - 1
        BY <1>1, <4>1
      <4> QED BY <1>1, <4>1, <4>2, <4>3, Zenon
    <3>4. /\ Texts(es)[L + n] = (Texts(e1)[L] \o Texts(e2)[n - 1]) \o e2[n] \o <<"LF">>
      BY <1>1, <3>1, <3>2, <3>3
    <3>5. /\ Texts(e1)[L] \in Seq(Char) /\ Texts(e2)[n - 1] \in Seq(Char) /\ e2[n] \in Seq(Char)
          /\ <<"LF">> \in Seq(Char)
      <4>1. Texts(e1)[L] \in Seq(Char) /\ Texts(e2)[n - 1] \in Seq(Char)
        BY <1>2, <1>3, <3>1
      <4>2. e2[n] \in Entered
        BY DEF M
      <4> QED BY <4>1, <4>2, EnteredLines, LineFeed
    <3>7. Texts(es)[L + n] = Texts(e1)[L] \o (Texts(e2)[n - 1] \o e2[n] \o <<"LF">>)
      <4>1. PICK a \in Seq(Char), b \in Seq(Char), c \in Seq(Char), d \in Seq(Char) :
              a = Texts(e1)[L] /\ b = Texts(e2)[n - 1] /\ c = e2[n] /\ d = <<"LF">>
        BY <3>5
      <4>2. Grouped(a, b, c, d)
        BY <4>1, LineJoined
      <4>3. (a \o b) \o c \o d = a \o (b \o c \o d)
        BY <4>2 DEF Grouped
      <4> QED BY <3>4, <4>1, <4>3, Zenon
    <3> QED BY <1>3, <3>1, <3>7
  <2> HIDE DEF S
  <2>3. \A n \in 0..M : n \in S
    BY <1>1, <2>1, <2>2, SetInduction
  <2> QED BY <2>3 DEF S
<1>7. Texts(es)[L + M] = Texts(e1)[L] \o Texts(e2)[M]
  <2>1. M \in 0..M
    BY <1>1
  <2> QED BY <1>6, <2>1
<1>8. Text(es) = Texts(es)[L + M] /\ Text(e1) = Texts(e1)[L] /\ Text(e2) = Texts(e2)[M]
  BY <1>1 DEF Text, L, M
<1> QED BY <1>1, <1>7, <1>8 DEF es

\* The text of the first entries begins the text of all.
Starts(a, b) == Len(a) <= Len(b) /\ \A i \in 1..Len(a) : a[i] = b[i]
LEMMA StartsLonger ==
  ASSUME NEW a \in Seq(Char), NEW b \in Seq(Char), NEW c \in Seq(Char), Starts(a, b)
  PROVE  Starts(a, b \o c)
<1>1. Len(b \o c) = Len(b) + Len(c) /\ \A i \in 1..Len(b) : (b \o c)[i] = b[i]
  OBVIOUS
<1> QED BY <1>1 DEF Starts

LEMMA TextsGrow ==
  ASSUME NEW es \in Seq(Entered), NEW m \in 0..Len(es)
  PROVE  Starts(Texts(es)[m], Text(es))
<1> DEFINE S == {k \in 0..Len(es) : k >= m => Starts(Texts(es)[m], Texts(es)[k])}
<1>1. /\ Texts(es) \in [0..Len(es) -> Seq(Char)]
      /\ \A n \in 1..Len(es) : Texts(es)[n] = Texts(es)[n - 1] \o es[n] \o <<"LF">>
  BY TextsAre
<1>2. Texts(es)[m] \in Seq(Char) /\ Starts(Texts(es)[m], Texts(es)[m])
  BY <1>1 DEF Starts
<1>3. 0 \in S
  <2>1. 0 >= m => m = 0
    OBVIOUS
  <2> QED BY <1>2, <2>1
<1>4. ASSUME NEW n \in 1..Len(es), n - 1 \in S PROVE n \in S
  <2>1. CASE n > m
    <3>1. n - 1 >= m /\ n - 1 \in 0..Len(es) /\ n \in 0..Len(es)
      BY <2>1
    <3>2. Starts(Texts(es)[m], Texts(es)[n - 1]) /\ Texts(es)[n - 1] \in Seq(Char)
      BY <1>1, <1>4, <3>1
    <3>3. es[n] \in Seq(Char)
      BY EnteredLines
    <3>4. Texts(es)[n - 1] \o es[n] \in Seq(Char)
      BY <3>2, <3>3, ConcatProperties
    <3>5. Starts(Texts(es)[m], Texts(es)[n - 1] \o es[n])
      BY <1>2, <3>2, <3>3, StartsLonger
    <3>6. Starts(Texts(es)[m], Texts(es)[n - 1] \o es[n] \o <<"LF">>)
      BY <1>2, <3>4, <3>5, LineFeed, StartsLonger
    <3> QED BY <1>1, <3>1, <3>6
  <2>2. CASE ~ (n > m)
    <3>1. n >= m => n = m
      BY <2>2
    <3> QED BY <1>2, <3>1
  <2> QED BY <2>1, <2>2
<1>5. \A n \in 0..Len(es) : n \in S
  <2>1. Len(es) \in Nat
    OBVIOUS
  <2> HIDE DEF S
  <2> QED BY <1>3, <1>4, <2>1, SetInduction
<1>6. Len(es) \in 0..Len(es) /\ Len(es) >= m
  OBVIOUS
<1> QED BY <1>5, <1>6 DEF Text

-----------------------------------------------------------------------------
(* Reading a text, a byte at a time.                                           *)
Reads == [line : Seq(Char), entries : Seq(Seq(Char))]

LEMMA BytesAre ==
  ASSUME NEW t \in Seq(Char)
  PROVE  /\ Bytes(t) \in [0..Len(t) -> Reads]
         /\ Bytes(t)[0] = [line |-> <<>>, entries |-> <<>>]
         /\ \A n \in 1..Len(t) :
              Bytes(t)[n] = Byte(Bytes(t)[n - 1], t[n], HIST_TIMESTAMP_START(t))
<1> DEFINE N == Len(t)
           nothing == [line |-> <<>>, entries |-> <<>>]
           stamped == HIST_TIMESTAMP_START(t)
           g == [p \in (1..N) \X Reads |-> Byte(p[2], t[p[1]], stamped)]
           G(f) == f = [n \in 0..N |-> IF n = 0 THEN nothing ELSE Byte(f[n - 1], t[n], stamped)]
<1>1. N \in Nat /\ \A n \in 1..N : t[n] \in Char
  OBVIOUS
<1>2. g \in StepsOf(N, Reads)
  <2>1. ASSUME NEW p \in (1..N) \X Reads PROVE Byte(p[2], t[p[1]], stamped) \in Reads
    <3>1. PICK n \in 1..N, x \in Reads : p = <<n, x>>
      OBVIOUS
    <3>2. p[1] = n /\ p[2] = x
      BY <3>1
    <3>3. t[n] \in Char /\ x.line \in Seq(Char) /\ x.entries \in Seq(Seq(Char))
      BY <1>1, <3>1 DEF Reads
    <3>4. Byte(x, t[n], stamped) \in Reads
      <4>1. CASE t[n] # "LF"
        <5>1. Byte(x, t[n], stamped) = [x EXCEPT !.line = Append(@, t[n])]
          BY <4>1 DEF Byte
        <5>2. Append(x.line, t[n]) \in Seq(Char)
          BY <3>3
        <5> QED BY <3>1, <5>1, <5>2 DEF Reads
      <4>2. CASE t[n] = "LF"
        <5>1. /\ Byte(x, t[n], stamped).line = <<>>
              /\ Byte(x, t[n], stamped).entries \in {x.entries, Append(x.entries, x.line)}
              /\ Byte(x, t[n], stamped) = [line |-> <<>>, entries |-> Byte(x, t[n], stamped).entries]
          BY <4>2 DEF Byte
        <5>2. Append(x.entries, x.line) \in Seq(Seq(Char)) /\ <<>> \in Seq(Char)
          BY <3>3
        <5> QED BY <3>3, <5>1, <5>2 DEF Reads
      <4> QED BY <4>1, <4>2
    <3> QED BY <3>2, <3>4
  <2> QED BY <2>1 DEF StepsOf
<1>3. nothing \in Reads
  BY DEF Reads
<1>0. PICK f : Iterates(f, N, Reads, nothing, g)
  <2>1. N \in Nat
    BY <1>1
  <2> HIDE DEF g, G, N, nothing, stamped
  <2> QED BY <2>1, <1>2, <1>3, Recursion
<1>4. f \in [0..N -> Reads] /\ f[0] = nothing /\ \A n \in 1..N : f[n] = g[<<n, f[n - 1]>>]
  BY <1>0 DEF Iterates
<1>5. \A n \in 1..N : f[n] = Byte(f[n - 1], t[n], stamped)
  <2> SUFFICES ASSUME NEW n \in 1..N PROVE f[n] = Byte(f[n - 1], t[n], stamped)
    OBVIOUS
  <2>1. n - 1 \in 0..N
    BY <1>1
  <2>2. <<n, f[n - 1]>> \in (1..N) \X Reads
    BY <1>4, <2>1
  <2>3. g[<<n, f[n - 1]>>] = Byte(f[n - 1], t[n], stamped)
    BY <2>2
  <2> QED BY <1>4, <2>3
<1>6. G(f)
  <2>1. f = [n \in 0..N |-> f[n]]
    BY <1>4
  <2>2. ASSUME NEW n \in 0..N
        PROVE  f[n] = IF n = 0 THEN nothing ELSE Byte(f[n - 1], t[n], stamped)
    <3>1. CASE n = 0
      BY <1>4, <3>1
    <3>2. CASE n # 0
      <4>1. n \in 1..N
        BY <1>1, <3>2
      <4> QED BY <1>5, <3>2, <4>1
    <3> QED BY <3>1, <3>2
  <2> QED BY <2>1, <2>2
<1> DEFINE read == CHOOSE h : G(h)
<1>7. read = Bytes(t)
  BY DEF Bytes
<1>8. G(read)
  <2> HIDE DEF G
  <2> QED BY <1>6
<1> HIDE DEF read
<1>9. read[0] = nothing /\ \A n \in 1..N : read[n] = Byte(read[n - 1], t[n], stamped)
  <2>1. N \in Nat
    BY <1>1
  <2>2. 0 \in 0..N /\ \A n \in 1..N : n \in 0..N /\ n # 0
    BY <2>1
  <2> HIDE DEF N, nothing, stamped
  <2>3. read[0] = nothing
    BY <1>8, <2>2
  <2>4. ASSUME NEW n \in 1..N PROVE read[n] = Byte(read[n - 1], t[n], stamped)
    BY <1>8, <2>2
  <2> QED BY <2>3, <2>4
<1>10. \A n \in 0..N : read[n] = f[n]
  <2> DEFINE S == {n \in 0..N : read[n] = f[n]}
  <2>1. 0 \in S
    BY <1>1, <1>4, <1>9
  <2>2. ASSUME NEW n \in 1..N, n - 1 \in S PROVE n \in S
    <3>1. n \in 0..N /\ read[n - 1] = f[n - 1]
      BY <1>1, <2>2
    <3>2. read[n] = Byte(read[n - 1], t[n], stamped) /\ f[n] = Byte(f[n - 1], t[n], stamped)
      BY <1>5, <1>9
    <3> QED BY <3>1, <3>2
  <2>3. \A n \in 0..N : n \in S
    <3> HIDE DEF S, N
    <3> QED BY <1>1, <2>1, <2>2, SetInduction
  <2> QED BY <2>3
<1>11. read \in [0..N -> Reads]
  <2>1. read = [n \in 0..N |-> read[n]]
    BY <1>8
  <2> QED BY <1>4, <1>10, <2>1
<1> QED BY <1>7, <1>9, <1>11

\* What is read of the text of a list are lines of the list.
LEMMA ReadLines ==
  ASSUME NEW es \in Seq(Entered)
  PROVE  Text(es) \in Seq(Char) /\ Entries(Text(es)) \in Seq(Entered)
<1> DEFINE t == Text(es)
           N == Len(es)
           read == Bytes(t)
           Begun(n) == Texts(es)[n]
           Fine(r) == r.line = <<>> /\ r.entries \in Seq(Entered)
           S == {n \in 0..N : Fine(read[Len(Begun(n))])}
<1>1. t \in Seq(Char) /\ N \in Nat
  BY TextType
<1>2. /\ Texts(es) \in [0..N -> Seq(Char)] /\ Begun(0) = <<>>
      /\ \A n \in 1..N : Begun(n) = Begun(n - 1) \o es[n] \o <<"LF">>
  BY TextsAre
<1>3. /\ read \in [0..Len(t) -> Reads]
      /\ read[0] = [line |-> <<>>, entries |-> <<>>]
      /\ \A k \in 1..Len(t) : read[k] = Byte(read[k - 1], t[k], HIST_TIMESTAMP_START(t))
  BY <1>1, BytesAre
<1>4. \A n \in 0..N : Len(Begun(n)) <= Len(t) /\ \A i \in 1..Len(Begun(n)) : Begun(n)[i] = t[i]
  BY TextsGrow DEF Starts
<1>5. t = Begun(N)
  BY DEF Text
<1> HIDE DEF t, N, read, Begun
<1>6. 0 \in S
  <2>1. Len(Begun(0)) = 0 /\ 0 \in 0..N
    BY <1>1, <1>2
  <2>2. Fine(read[0])
    BY <1>3
  <2> QED BY <2>1, <2>2
<1>7. ASSUME NEW n \in 1..N, n - 1 \in S PROVE n \in S
  <2> DEFINE B == Len(Begun(n - 1))
             l == es[n]
             L == Len(l)
             before == read[B].entries
  <2>1. /\ l \in Entered /\ l \in Seq(Char) /\ l # <<>> /\ L \in Nat
        /\ \A i \in 1..L : l[i] # "LF" /\ l[i] \in Char
    <3>1. l \in Entered
      BY DEF N
    <3> QED BY <3>1, EnteredLines
  <2>2. n \in 0..N /\ n - 1 \in 0..N /\ Begun(n - 1) \in Seq(Char) /\ B \in Nat
    BY <1>1, <1>2 DEF Begun
  <2>3. Begun(n) = Begun(n - 1) \o l \o <<"LF">>
    BY <1>2
  <2>4. read[B].line = <<>> /\ before \in Seq(Entered)
    BY <1>7
  <2>5. /\ Len(Begun(n)) = B + L + 1
        /\ \A i \in 1..L : Begun(n)[B + i] = l[i]
        /\ Begun(n)[B + L + 1] = "LF"
    <3> DEFINE b == Begun(n - 1)
    <3>1. b \in Seq(Char) /\ l \in Seq(Char) /\ B = Len(b) /\ L = Len(l)
      BY <2>1, <2>2
    <3> HIDE DEF b, B, l, L
    <3>2. b \o l \in Seq(Char) /\ Len(b \o l) = B + L /\ \A i \in 1..L : (b \o l)[B + i] = l[i]
      BY <3>1
    <3>3. PICK x \in Seq(Char) : x = b \o l
      BY <3>2
    <3>4. /\ Len(x \o <<"LF">>) = Len(x) + 1 /\ (x \o <<"LF">>)[Len(x) + 1] = "LF"
          /\ \A i \in 1..Len(x) : (x \o <<"LF">>)[i] = x[i]
      BY <3>3, LineFeed
    <3>5. Begun(n) = x \o <<"LF">>
      BY <2>3, <3>3 DEF b
    <3>6. \A i \in 1..L : B + i \in 1..B + L
      BY <3>1
    <3> QED BY <3>1, <3>2, <3>3, <3>4, <3>5, <3>6
  <2>6. /\ B + L + 1 <= Len(t) /\ t[B + L + 1] = "LF"
        /\ \A i \in 1..L : t[B + i] = l[i]
    <3>1. B + L + 1 \in 1..Len(Begun(n)) /\ \A i \in 1..L : B + i \in 1..Len(Begun(n))
      <4> HIDE DEF B, L, l
      <4> QED BY <2>1, <2>2, <2>5
    <3> QED BY <1>4, <2>2, <2>5, <3>1
  <2> DEFINE Line1 == {j \in 0..L : read[B + j].line = SubSeq(l, 1, j) /\ read[B + j].entries = before}
  <2> HIDE DEF B, L, l, before
  <2>7. 0 \in Line1
    <3>1. SubSeq(l, 1, 0) = <<>>
      BY <2>1, SubSeqEmpty
    <3>2. B + 0 = B /\ 0 \in 0..L
      BY <2>1, <2>2
    <3> QED BY <2>4, <3>1, <3>2 DEF before
  <2>8. ASSUME NEW j \in 1..L, j - 1 \in Line1 PROVE j \in Line1
    <3>1. PICK k \in 1..Len(t) : k = B + j /\ k - 1 = B + (j - 1)
      BY <1>1, <2>1, <2>2, <2>6
    <3>2. t[k] = l[j] /\ l[j] # "LF"
      BY <2>1, <2>6, <3>1
    <3>3. read[k] = [read[k - 1] EXCEPT !.line = Append(@, l[j])]
      BY <1>3, <3>2 DEF Byte
    <3>4. read[k - 1] \in Reads
      <4>1. k - 1 \in 0..Len(t)
        BY <1>1
      <4> QED BY <1>3, <4>1
    <3>5. read[k - 1].line = SubSeq(l, 1, j - 1) /\ read[k - 1].entries = before
      BY <2>8, <3>1
    <3>6. read[k].line = Append(SubSeq(l, 1, j - 1), l[j]) /\ read[k].entries = before
      BY <3>3, <3>4, <3>5 DEF Reads
    <3>7. SubSeq(l, 1, j) = Append(SubSeq(l, 1, j - 1), l[j])
      BY <2>1 DEF L
    <3>8. j \in 0..L /\ read[B + j] = read[k]
      BY <2>1, <3>1
    <3>9. read[B + j].line = SubSeq(l, 1, j) /\ read[B + j].entries = before
      BY <3>6, <3>7, <3>8
    <3> QED BY <3>8, <3>9
  <2>9. \A j \in 0..L : j \in Line1
    <3> HIDE DEF Line1
    <3> QED BY <2>1, <2>7, <2>8, SetInduction
  <2>10. read[B + L].line = l /\ read[B + L].entries = before
    <3>1. L \in 0..L
      BY <2>1
    <3>2. SubSeq(l, 1, L) = l
      BY <2>1, SubSeqFull DEF L
    <3> QED BY <2>9, <3>1, <3>2
  <2>11. PICK k \in 1..Len(t) : k = B + L + 1 /\ k - 1 = B + L
    BY <1>1, <2>1, <2>2, <2>6
  <2>12. read[k] = Byte(read[k - 1], "LF", HIST_TIMESTAMP_START(t))
    BY <1>3, <2>6, <2>11
  <2>13. read[k].line = <<>> /\ read[k].entries \in {before, Append(before, l)}
    BY <2>10, <2>11, <2>12 DEF Byte
  <2>14. Append(before, l) \in Seq(Entered)
    BY <2>1, <2>4
  <2>15. Len(Begun(n)) = k
    BY <2>5, <2>11
  <2> QED BY <2>2, <2>4, <2>13, <2>14, <2>15
<1>8. N \in S
  <2>1. N \in 0..N
    BY <1>1
  <2> HIDE DEF S
  <2> QED BY <1>1, <1>6, <1>7, <2>1, SetInduction
<1>9. Entries(t) = read[Len(t)].entries
  BY DEF Entries, read
<1> QED BY <1>1, <1>5, <1>8, <1>9 DEF t

-----------------------------------------------------------------------------
(* The inductive invariant.                                                    *)

Temps == {history_tempfile(s) : s \in Shell}
Names == {HistFile} \cup Temps
Steps == {"prompt", "away", "stat", "open", "put", "close", "rename", "failed", "fstat", "get"}
Call == [op : {"none", Overwrite, Behind, Reading}, at : Steps, name : Names, fd : Nat, size : Nat]
TypeOK ==
  /\ text \in Seq(Seq(Char))
  /\ dir \in [Names -> 0..Len(text)]
  /\ list \in [Shell -> Seq(Entered)]
  /\ call \in [Shell -> Call]

\* The text of a list of entered lines.
Whole(t) == \E es \in Seq(Entered) : t = Text(es)
Texted == \A f \in DOMAIN text : Whole(text[f])
\* A file has one name.
OneName == \A m, n \in Names : dir[m] # 0 /\ dir[m] = dir[n] => m = n
\* One shell only: nobody else ever was there.
Alone == \A s, u \in Shell : s # u => At(s, "away") \/ At(u, "away")
Creating(s) == call[s].op = Overwrite /\ call[s].name = HistFile /\ ~ At(s, "stat")
AloneWithoutFile == dir[HistFile] = 0 \/ (\E s \in Shell : Creating(s)) => Alone

\* What a call knows at each of its steps.
Named(s) ==
  /\ call[s].name = HistFile \/ (call[s].name = history_tempfile(s) /\ call[s].op = Overwrite)
  /\ At(s, "prompt") \/ At(s, "away") <=> call[s].op = "none"
  /\ call[s].op = "none" => call[s].name = HistFile
  /\ At(s, "stat") => call[s].op = Overwrite /\ call[s].name = HistFile
  /\ At(s, "fstat") \/ At(s, "get") => call[s].op = Reading
  /\ call[s].at \in {"put", "close", "rename", "failed"} => call[s].op \in {Overwrite, Behind}
Writing(s) ==
  call[s].op = Overwrite =>
    /\ At(s, "open") /\ call[s].name = HistFile => dir[HistFile] = 0
    /\ call[s].at \in {"put", "close", "rename"} => dir[call[s].name] # 0
    /\ call[s].at \in {"put", "close"} => call[s].fd = dir[call[s].name]
    /\ At(s, "put") => text[dir[call[s].name]] = <<>>
    /\ call[s].at \in {"close", "rename"} => text[dir[call[s].name]] = Text(list[s])
\* A file that was opened under the history file's name is no shell's copy.
Holding(s) ==
  call[s].op # Overwrite /\ call[s].at \in {"put", "close", "fstat", "get"} =>
    call[s].fd \in DOMAIN text /\ \A n \in Temps : call[s].fd # dir[n]
Measured(s) ==
  At(s, "get") => /\ call[s].size <= Len(text[call[s].fd])
                  /\ Whole(SubSeq(text[call[s].fd], 1, call[s].size))
\* The copies in the making have different names.
Distinct ==
  \A s, u \in Shell : s # u /\ Copying(s) /\ Copying(u) => call[s].name # call[u].name
CallsFit == \A s \in Shell : Named(s) /\ Writing(s) /\ Holding(s) /\ Measured(s)

Good == TypeOK /\ Texted /\ OneName /\ AloneWithoutFile /\ Distinct /\ CallsFit
Inv == full \in BOOLEAN /\ clash \in BOOLEAN /\ (~full /\ ~clash => Good)

LEMMA TempNames == HistFile \notin Temps /\ \A s \in Shell : history_tempfile(s) \in Temps
<1>1. ASSUME NEW s \in Shell PROVE history_tempfile(s) \in 0..(FiveDigits - 1)
  <2>1. s \in Nat
    BY NameAssumption
  <2>2. PICK d \in Nat \ {0} : d = FiveDigits
    BY DEF FiveDigits
  <2>3. s % d \in 0..(d - 1)
    BY <2>1
  <2> QED BY <2>2, <2>3 DEF history_tempfile
<1> QED BY <1>1, NameAssumption DEF Temps

LEMMA TypedCall ==
  ASSUME TypeOK, NEW s \in Shell
  PROVE  /\ call[s] \in Call /\ call[s].name \in Names /\ call[s].fd \in Nat /\ call[s].size \in Nat
         /\ call[s].at \in Steps /\ HistFile \in Names /\ HistFile \notin Temps
         /\ history_tempfile(s) \in Temps /\ Temps \subseteq Names
         /\ \A n \in Names : dir[n] \in 0..Len(text)
         /\ dir[HistFile] \in 0..Len(text) /\ Len(text) \in Nat
         /\ list[s] \in Seq(Entered)
         /\ \A f \in 1..Len(text) : text[f] \in Seq(Char)
<1>1. call[s] \in Call
  BY DEF TypeOK
<1>2. /\ HistFile \in Names /\ HistFile \notin Temps /\ history_tempfile(s) \in Temps
      /\ Temps \subseteq Names
  BY TempNames DEF Names
<1>3. /\ \A n \in Names : dir[n] \in 0..Len(text)
      /\ dir[HistFile] \in 0..Len(text) /\ Len(text) \in Nat
  BY <1>2 DEF TypeOK
<1>4. \A f \in 1..Len(text) : text[f] \in Seq(Char)
  BY DEF TypeOK
<1> QED BY <1>1, <1>2, <1>3, <1>4 DEF TypeOK, Call

\* Nobody else creates the file, or fills it first, while s is there.
LEMMA NotCreating ==
  ASSUME Good, NEW s \in Shell, NEW u \in Shell, u # s, ~ At(s, "away")
  PROVE  ~ Creating(u)
<1> SUFFICES ASSUME Creating(u) PROVE FALSE
  OBVIOUS
<1>1. At(u, "away")
  BY DEF Good, AloneWithoutFile, Alone
<1>2. call[u].op = "none"
  BY <1>1 DEF Good, CallsFit, Named
<1> QED BY <1>2 DEF Creating, Overwrite

\* What the others know stays true, when shell s goes a step and leaves their copies
\* and what has no copy's name alone.
Left(s) ==
  /\ \A v \in Shell \ {s} :
       Copying(v) => /\ dir'[call[v].name] = dir[call[v].name]
                     /\ dir[call[v].name] # 0 =>
                          text'[dir[call[v].name]] = text[dir[call[v].name]]
  /\ \A n \in Temps : dir'[n] \in {0, dir[n], Len(text) + 1}
  /\ \A f \in 1..Len(text) : (\A n \in Temps : f # dir[n]) =>
                               \E b \in Seq(Char) : text'[f] = text[f] \o b
LEMMA OthersKeep ==
  ASSUME Good, NEW s \in Shell, ~ At(s, "away"), Left(s),
         NEW u \in Shell, u # s, call'[u] = call[u], list'[u] = list[u],
         Len(text') \in Nat, Len(text') >= Len(text), DOMAIN text' = 1..Len(text')
  PROVE  Named(u)' /\ Writing(u)' /\ Holding(u)' /\ Measured(u)'
<1>1. Named(u) /\ Writing(u) /\ Holding(u) /\ Measured(u) /\ TypeOK
  BY DEF Good, CallsFit
<1>2. Named(u)'
  BY <1>1 DEF Named, At
<1>3. Writing(u)'
  <2> SUFFICES ASSUME call[u].op = Overwrite
               PROVE  /\ ~ (call[u].at = "open" /\ call[u].name = HistFile)
                      /\ call[u].at \in {"put", "close", "rename"} =>
                           /\ dir'[call[u].name] = dir[call[u].name] /\ dir[call[u].name] # 0
                           /\ text'[dir[call[u].name]] = text[dir[call[u].name]]
    BY <1>1 DEF Writing, At
  <2>1. call[u].name = HistFile => At(u, "stat")
    BY NotCreating DEF Creating
  <2>2. ASSUME call[u].at \in {"put", "close", "rename"} PROVE Copying(u) /\ dir[call[u].name] # 0
    BY <1>1, <2>1, <2>2 DEF Copying, Temporary, Writing, At
  <2> QED BY <2>1, <2>2 DEF Left, At
<1>4. ASSUME call[u].op # Overwrite, call[u].at \in {"put", "close", "fstat", "get"}
      PROVE  /\ call[u].fd \in 1..Len(text) /\ call[u].fd \in 1..Len(text')
             /\ \A n \in Temps : call[u].fd # dir[n] /\ call[u].fd # dir'[n]
  <2>1. call[u].fd \in DOMAIN text /\ \A n \in Temps : call[u].fd # dir[n]
    BY <1>1, <1>4 DEF Holding
  <2>2. DOMAIN text = 1..Len(text) /\ Len(text) \in Nat
    BY <1>1 DEF TypeOK
  <2>3. call[u].fd # 0 /\ call[u].fd # Len(text) + 1 /\ call[u].fd \in 1..Len(text')
    BY <2>1, <2>2
  <2>4. \A n \in Temps : call[u].fd # dir'[n]
    BY <2>1, <2>3 DEF Left
  <2> QED BY <2>1, <2>2, <2>3, <2>4
<1>5. Holding(u)'
  BY <1>4 DEF Holding
<1>6. Measured(u)'
  <2> SUFFICES ASSUME call[u].at = "get"
               PROVE  /\ call[u].size <= Len(text'[call[u].fd])
                      /\ Whole(SubSeq(text'[call[u].fd], 1, call[u].size))
    BY DEF Measured, At, Whole
  <2>1. call[u].op = Reading
    BY <1>1 DEF Named, At
  <2>2. call[u].fd \in 1..Len(text) /\ \A n \in Temps : call[u].fd # dir[n]
    BY <1>4, <2>1 DEF Reading, Overwrite
  <2> DEFINE t == text[call[u].fd]
  <2>3. PICK b \in Seq(Char) : text'[call[u].fd] = t \o b
    BY <2>2 DEF Left
  <2>4. t \in Seq(Char) /\ call[u].size \in Nat
    BY <1>1, <2>2, TypedCall
  <2>5. call[u].size <= Len(t) /\ Whole(SubSeq(t, 1, call[u].size))
    BY <1>1 DEF Measured, At
  <2> HIDE DEF t
  <2>6. Len(t \o b) = Len(t) + Len(b) /\ Len(t) \in Nat /\ Len(b) \in Nat
    BY <2>3, <2>4
  <2>7. SubSeq(t \o b, 1, call[u].size) = SubSeq(t, 1, call[u].size)
    BY <2>3, <2>4, <2>5
  <2>8. call[u].size <= Len(t \o b)
    BY <2>4, <2>5, <2>6
  <2>9. Whole(SubSeq(t \o b, 1, call[u].size))
    BY <2>5, <2>7
  <2> QED BY <2>3, <2>8, <2>9
<1> QED BY <1>2, <1>3, <1>5, <1>6

\* So there is only shell s to look at.
LEMMA GoodNext ==
  ASSUME Good, NEW s \in Shell, ~ At(s, "away"),
         call' \in [Shell -> Call], \A u \in Shell \ {s} : call'[u] = call[u],
         list' \in [Shell -> Seq(Entered)], \A u \in Shell \ {s} : list'[u] = list[u],
         text' \in Seq(Seq(Char)), Len(text') >= Len(text), dir' \in [Names -> 0..Len(text')],
         Left(s), Texted', OneName',
         Copying(s)' => \A v \in Shell \ {s} : Copying(v) => call[v].name # call'[s].name,
         dir'[HistFile] = 0 => dir[HistFile] = 0,
         Creating(s)' => Alone,
         Named(s)', Writing(s)', Holding(s)', Measured(s)'
  PROVE  Good'
<1>1. TypeOK'
  BY DEF TypeOK
<1>2. ASSUME NEW u \in Shell
      PROVE  Named(u)' /\ Writing(u)' /\ Holding(u)' /\ Measured(u)'
  <2>1. CASE u = s
    BY <2>1
  <2>2. CASE u # s
    <3>1. call'[u] = call[u] /\ list'[u] = list[u]
      BY <2>2
    <3>2. Len(text') \in Nat /\ DOMAIN text' = 1..Len(text')
      OBVIOUS
    <3> QED BY <2>2, <3>1, <3>2, OthersKeep
  <2> QED BY <2>1, <2>2
<1>3. CallsFit'
  BY <1>2 DEF CallsFit
<1>4. ASSUME Alone PROVE Alone'
  <2> SUFFICES ASSUME NEW a \in Shell, NEW b \in Shell, a # b
               PROVE  call'[a].at = "away" \/ call'[b].at = "away"
    BY DEF Alone, At
  <2>1. call[a].at = "away" \/ call[b].at = "away"
    BY <1>4 DEF Alone, At
  <2> QED BY <2>1 DEF At
<1>5. AloneWithoutFile'
  <2> SUFFICES ASSUME (dir[HistFile] = 0 \/ \E u \in Shell : Creating(u))'
               PROVE  Alone
    BY <1>4 DEF AloneWithoutFile
  <2>1. CASE dir'[HistFile] = 0
    BY <2>1 DEF Good, AloneWithoutFile
  <2>2. ASSUME NEW u \in Shell, Creating(u)' PROVE Alone
    <3>1. CASE u = s
      BY <2>2, <3>1
    <3>2. CASE u # s
      <4>1. Creating(u)
        BY <2>2, <3>2 DEF Creating, At
      <4> QED BY <3>2, <4>1, NotCreating
    <3> QED BY <3>1, <3>2
  <2> QED BY <2>1, <2>2
<1>6. Distinct'
  <2> SUFFICES ASSUME NEW a \in Shell, NEW b \in Shell, a # b, Copying(a)', Copying(b)'
               PROVE  call'[a].name # call'[b].name
    BY DEF Distinct
  <2>1. ASSUME NEW v \in Shell \ {s}, Copying(v)' PROVE Copying(v)
    BY <2>1 DEF Copying, Temporary
  <2>2. CASE a = s
    BY <2>1, <2>2
  <2>3. CASE b = s
    BY <2>1, <2>3
  <2>4. CASE a # s /\ b # s
    BY <2>1, <2>4 DEF Good, Distinct
  <2> QED BY <2>2, <2>3, <2>4
<1> QED BY <1>1, <1>3, <1>5, <1>6 DEF Good

\* A copy that is still the same one.
LEMMA SameCopy ==
  ASSUME Good, NEW s \in Shell, Copying(s)' => Copying(s) /\ call'[s].name = call[s].name
  PROVE  Copying(s)' => \A v \in Shell \ {s} : Copying(v) => call[v].name # call'[s].name
BY DEF Good, Distinct

\* A step that changes no file, and no more than the shell's own call and list.
LEMMA CallKeeps ==
  ASSUME Good, NEW s \in Shell, ~ At(s, "away"), UNCHANGED <<text, dir>>,
         call' \in [Shell -> Call], \A u \in Shell \ {s} : call'[u] = call[u],
         list' \in [Shell -> Seq(Entered)], \A u \in Shell \ {s} : list'[u] = list[u],
         Creating(s)' => Alone,
         Copying(s)' => Copying(s) /\ call'[s].name = call[s].name,
         Named(s)', Writing(s)', Holding(s)', Measured(s)'
  PROVE  Good'
<1>1. TypeOK /\ Texted /\ OneName
  BY DEF Good
<1>2. text \in Seq(Seq(Char)) /\ Len(text) >= Len(text) /\ dir \in [Names -> 0..Len(text)]
  BY <1>1 DEF TypeOK
<1>3. ASSUME NEW f \in 1..Len(text) PROVE \E b \in Seq(Char) : text[f] = text[f] \o b
  <2>1. text[f] \in Seq(Char) /\ <<>> \in Seq(Char)
    BY <1>2
  <2>2. text[f] = text[f] \o <<>>
    BY <2>1, ConcatEmptySeq
  <2> QED BY <2>1, <2>2
<1>4. Texted'
  BY <1>1 DEF Texted, Whole
<1>5. OneName'
  BY <1>1 DEF OneName
<1>6. Left(s)
  BY <1>3 DEF Left
<1> QED BY <1>2, <1>4, <1>5, <1>6, SameCopy, GoodNext

\* A call that returns.
LEMMA DoneKeeps ==
  ASSUME Good, NEW s \in Shell, ~ At(s, "away"), UNCHANGED <<text, dir>>, Done(s),
         list' \in [Shell -> Seq(Entered)], \A u \in Shell \ {s} : list'[u] = list[u]
  PROVE  Good'
<1>1. NoCall \in Call /\ NoCall.at = "prompt" /\ NoCall.op = "none" /\ NoCall.name = HistFile
  BY DEF NoCall, Call, Steps, Names
<1>2. call \in [Shell -> Call]
  BY DEF Good, TypeOK
<1>3. /\ call' \in [Shell -> Call] /\ \A u \in Shell \ {s} : call'[u] = call[u]
      /\ call'[s] = NoCall
  BY <1>1, <1>2 DEF Done
<1>4. /\ ~ Creating(s)' /\ Named(s)' /\ Writing(s)' /\ Holding(s)' /\ Measured(s)'
      /\ ~ Copying(s)'
  BY <1>1, <1>3 DEF Creating, Named, Writing, Holding, Measured, At, Overwrite, Copying
<1> QED BY <1>3, <1>4, CallKeeps

\* A call that goes on to another step, with the same file.
LEMMA GoesKeeps ==
  ASSUME Good, NEW s \in Shell, ~ At(s, "away"), ~ At(s, "stat"), UNCHANGED <<text, dir, list>>,
         NEW step \in Steps, Goes(s, step), Named(s)', Writing(s)', Holding(s)', Measured(s)',
         Copying(s)' => Copying(s)
  PROVE  Good'
<1>1. call \in [Shell -> Call] /\ list \in [Shell -> Seq(Entered)]
  BY DEF Good, TypeOK
<1>2. /\ call'[s] = [call[s] EXCEPT !.at = step]
      /\ \A u \in Shell \ {s} : call'[u] = call[u]
      /\ call' = [u \in Shell |-> call'[u]]
  BY <1>1 DEF Goes
<1>3. call'[s] \in Call /\ call'[s].op = call[s].op /\ call'[s].name = call[s].name
  BY <1>1, <1>2 DEF Call
<1>4. call' \in [Shell -> Call]
  BY <1>1, <1>2, <1>3
<1>5. Creating(s)' => Creating(s)
  BY <1>3 DEF Creating, At
<1>6. Creating(s)' => Alone
  BY <1>5 DEF Good, AloneWithoutFile
<1> QED BY <1>1, <1>2, <1>3, <1>4, <1>6, CallKeeps

-----------------------------------------------------------------------------
(* The steps.                                                                  *)

LEMMA AddHistory == ASSUME Good, NEW s \in Shell, add_history(s) PROVE Good'
<1>1. ~ At(s, "away") /\ UNCHANGED <<text, dir, call>> /\ At(s, "prompt")
  BY DEF add_history, At
<1>2. PICK l \in Line : list' = [list EXCEPT ![s] = Append(@, l)]
  BY DEF add_history
<1>3. list \in [Shell -> Seq(Entered)] /\ call \in [Shell -> Call]
  BY DEF Good, TypeOK
<1>4. l \in Entered
  BY DEF Entered
<1>5. list' \in [Shell -> Seq(Entered)] /\ \A u \in Shell \ {s} : list'[u] = list[u]
  BY <1>2, <1>3, <1>4
<1>6. Named(s) /\ Writing(s) /\ Holding(s) /\ Measured(s) /\ (Creating(s) => Alone)
  BY DEF Good, CallsFit, AloneWithoutFile
<1>7. Named(s)' /\ (Creating(s)' => Alone) /\ ~ Copying(s)'
  BY <1>1, <1>6 DEF Named, Creating, Copying, At
<1>8. Writing(s)' /\ Holding(s)' /\ Measured(s)'
  BY <1>1, <1>6 DEF Writing, Holding, Measured, At, Named, Overwrite
<1> QED BY <1>1, <1>3, <1>5, <1>7, <1>8, CallKeeps

LEMMA CalledKeeps == ASSUME Good, NEW s \in Shell, Called(s) PROVE Good'
<1>1. ~ At(s, "away") /\ UNCHANGED <<text, dir>> /\ At(s, "prompt")
  BY DEF Called, At
<1>2. list \in [Shell -> Seq(Entered)] /\ call \in [Shell -> Call]
  BY DEF Good, TypeOK
<1>3. PICK op \in {Overwrite, Behind, Reading} :
        call' = [call EXCEPT ![s].op = op, ![s].at = IF op = Overwrite THEN "stat" ELSE "open"]
  BY DEF Called, Reading, Overwrite
<1>4. /\ call'[s] = [call[s] EXCEPT !.op = op, !.at = IF op = Overwrite THEN "stat" ELSE "open"]
      /\ \A u \in Shell \ {s} : call'[u] = call[u]
      /\ call' = [u \in Shell |-> call'[u]]
  BY <1>2, <1>3
<1>5. call[s].name = HistFile
  BY <1>1 DEF Good, CallsFit, Named
<1>6. /\ call'[s] \in Call /\ call'[s].op = op /\ call'[s].name = HistFile
      /\ call'[s].at = IF op = Overwrite THEN "stat" ELSE "open"
  <2> DEFINE step == IF op = Overwrite THEN "stat" ELSE "open"
  <2>1. call[s] \in Call /\ op \in {"none", Overwrite, Behind, Reading} /\ step \in Steps
    BY <1>2 DEF Steps
  <2>2. call'[s] = [call[s] EXCEPT !.op = op, !.at = step]
    BY <1>4
  <2> HIDE DEF step
  <2>3. call'[s] \in Call /\ call'[s].op = op /\ call'[s].name = HistFile /\ call'[s].at = step
    BY <1>5, <2>1, <2>2 DEF Call
  <2> QED BY <2>3 DEF step
<1>7. call' \in [Shell -> Call]
  BY <1>2, <1>4, <1>6
<1>8. list' \in [Shell -> Seq(Entered)] /\ \A u \in Shell \ {s} : list'[u] = list[u]
  <2>1. UNCHANGED list \/ list' = [list EXCEPT ![s] = <<>>]
    BY DEF Called
  <2>2. <<>> \in Seq(Entered)
    OBVIOUS
  <2> QED BY <1>2, <2>1, <2>2
<1>9. /\ ~ Creating(s)' /\ Named(s)' /\ Writing(s)' /\ Holding(s)' /\ Measured(s)'
      /\ ~ Copying(s)'
  BY <1>6 DEF Creating, Named, Writing, Holding, Measured, At, Overwrite, Behind, Reading, Copying
<1> QED BY <1>1, <1>4, <1>7, <1>8, <1>9, CallKeeps

LEMMA StatKeeps == ASSUME Good, NEW s \in Shell, Stat(s) PROVE Good'
<1>1. ~ At(s, "away") /\ UNCHANGED <<text, dir, list>> /\ At(s, "stat")
  BY DEF Stat, At
<1>2. /\ list \in [Shell -> Seq(Entered)] /\ call \in [Shell -> Call]
      /\ history_tempfile(s) \in Names
  BY TempNames DEF Good, TypeOK, Names
<1>3. call[s].op = Overwrite /\ call[s].name = HistFile
  BY <1>1 DEF Good, CallsFit, Named
<1>4. PICK name \in {HistFile, history_tempfile(s)} :
        /\ name = HistFile => dir[HistFile] = 0
        /\ name = IF dir[HistFile] # 0 THEN history_tempfile(s) ELSE call[s].name
  <2>1. CASE dir[HistFile] # 0
    <3>1. HistFile # history_tempfile(s)
      BY TempNames
    <3> QED BY <2>1, <3>1
  <2>2. CASE dir[HistFile] = 0
    BY <1>3, <2>2
  <2> QED BY <2>1, <2>2
<1>5. /\ call'[s] = [call[s] EXCEPT !.name = name, !.at = "open"]
      /\ \A u \in Shell \ {s} : call'[u] = call[u]
      /\ call' = [u \in Shell |-> call'[u]]
  BY <1>2, <1>4 DEF Stat
<1>6. /\ call'[s] \in Call /\ call'[s].op = Overwrite /\ call'[s].name = name
      /\ call'[s].at = "open"
  <2>1. call[s] \in Call /\ name \in Names /\ "open" \in Steps
    BY <1>2, <1>4 DEF Steps, Names
  <2> QED BY <1>3, <1>5, <2>1 DEF Call
<1>7. call' \in [Shell -> Call]
  BY <1>2, <1>5, <1>6
<1>8. Creating(s)' => Alone
  BY <1>4, <1>6 DEF Creating, At, Good, AloneWithoutFile
<1>9. Named(s)' /\ Writing(s)' /\ Holding(s)' /\ Measured(s)' /\ ~ Copying(s)'
  BY <1>1, <1>4, <1>6 DEF Named, Writing, Holding, Measured, At, Overwrite, Behind, Reading, Copying
<1> QED BY <1>1, <1>2, <1>5, <1>7, <1>8, <1>9, CallKeeps

LEMMA OpenKeeps == ASSUME Good, NEW s \in Shell, Open(s) PROVE Good'
<1>1. ~ At(s, "away") /\ UNCHANGED <<text, dir, list>> /\ At(s, "open") /\ call[s].op # Overwrite
      /\ dir[HistFile] # 0
  BY DEF Open, At
<1>2. /\ list \in [Shell -> Seq(Entered)] /\ call \in [Shell -> Call]
      /\ dir[HistFile] \in 1..Len(text) /\ Len(text) \in Nat /\ DOMAIN text = 1..Len(text)
  BY <1>1, TypedCall DEF Good, TypeOK
<1> DEFINE step == IF call[s].op = Behind THEN "put" ELSE "fstat"
<1>3. /\ call'[s] = [call[s] EXCEPT !.fd = dir[HistFile], !.at = step]
      /\ \A u \in Shell \ {s} : call'[u] = call[u]
      /\ call' = [u \in Shell |-> call'[u]]
  BY <1>2 DEF Open
<1>4. /\ call'[s] \in Call /\ call'[s].op = call[s].op /\ call'[s].name = call[s].name
      /\ call'[s].at = step /\ call'[s].fd = dir[HistFile]
  <2>1. call[s] \in Call /\ dir[HistFile] \in Nat /\ step \in Steps
    BY <1>2 DEF Steps
  <2> HIDE DEF step
  <2> QED BY <1>3, <2>1 DEF Call
<1>5. call' \in [Shell -> Call]
  BY <1>2, <1>3, <1>4
<1>6. Named(s) /\ call[s].op \in {Behind, Reading}
  BY <1>1, <1>2 DEF Good, CallsFit, Call, Named, At
<1>7. \A n \in Temps : dir[HistFile] # dir[n]
  BY <1>1, TempNames DEF Good, OneName, Names
<1>8. ~ Creating(s)' /\ Named(s)' /\ Writing(s)' /\ Measured(s)' /\ ~ Copying(s)'
  BY <1>1, <1>4, <1>6 DEF Creating, Named, Writing, Measured, At, Overwrite, Behind, Reading, Copying, Temporary
<1>9. Holding(s)'
  BY <1>1, <1>2, <1>4, <1>7 DEF Holding
<1> QED BY <1>1, <1>2, <1>3, <1>5, <1>8, <1>9, CallKeeps

LEMMA CloseKeeps == ASSUME Good, NEW s \in Shell, Close(s) PROVE Good'
<1>1. ~ At(s, "away") /\ UNCHANGED <<text, dir, list>> /\ At(s, "close")
  BY DEF Close, At
<1>2. list \in [Shell -> Seq(Entered)] /\ call \in [Shell -> Call]
  BY DEF Good, TypeOK
<1>3. /\ call'[s] = [call[s] EXCEPT !.fd = 0, !.at = "rename"]
      /\ \A u \in Shell \ {s} : call'[u] = call[u]
      /\ call' = [u \in Shell |-> call'[u]]
  BY <1>2 DEF Close
<1>4. /\ call'[s] \in Call /\ call'[s].op = call[s].op /\ call'[s].name = call[s].name
      /\ call'[s].at = "rename"
  <2>1. call[s] \in Call /\ 0 \in Nat /\ "rename" \in Steps
    BY <1>2 DEF Steps
  <2> QED BY <1>3, <2>1 DEF Call
<1>5. call' \in [Shell -> Call]
  BY <1>2, <1>3, <1>4
<1>6. Named(s) /\ Writing(s) /\ (Creating(s) => Alone)
  BY DEF Good, CallsFit, AloneWithoutFile
<1>7. Named(s)' /\ Holding(s)' /\ Measured(s)'
  BY <1>1, <1>4, <1>6 DEF Named, Holding, Measured, At
<1>8. Writing(s)' /\ (Creating(s)' => Alone)
  BY <1>1, <1>4, <1>6 DEF Writing, Creating, At
<1>9. Copying(s)' => Copying(s) /\ call'[s].name = call[s].name
  BY <1>1, <1>4 DEF Copying, Temporary, At
<1> QED BY <1>1, <1>2, <1>3, <1>5, <1>7, <1>8, <1>9, CallKeeps

\* A call that failed and is to be cleaned up after.
LEMMA FailedKeeps ==
  ASSUME Good, NEW s \in Shell, At(s, "put") \/ At(s, "close") \/ At(s, "rename"),
         UNCHANGED <<text, dir, list>>, Goes(s, "failed")
  PROVE  Good'
<1>1. ~ At(s, "away") /\ ~ At(s, "stat") /\ "failed" \in Steps /\ call[s].at \in {"put", "close", "rename"}
  BY DEF At, Steps
<1>2. call'[s].at = "failed" /\ call'[s].op = call[s].op /\ call'[s].name = call[s].name
  BY DEF Goes, Good, TypeOK, Call
<1>3. Named(s)
  BY DEF Good, CallsFit
<1>4. Named(s)' /\ Writing(s)' /\ Holding(s)' /\ Measured(s)' /\ (Copying(s)' => Copying(s))
  BY <1>1, <1>2, <1>3 DEF Named, Writing, Holding, Measured, At, Copying, Temporary
<1> QED BY <1>1, <1>4, GoesKeeps

LEMMA FstatKeeps == ASSUME Good, NEW s \in Shell, Fstat(s) PROVE Good'
<1>1. ~ At(s, "away") /\ UNCHANGED <<text, dir, list>> /\ At(s, "fstat")
  BY DEF Fstat, At
<1>2. list \in [Shell -> Seq(Entered)] /\ call \in [Shell -> Call]
  BY DEF Good, TypeOK
<1>3. CASE Done(s)
  BY <1>1, <1>2, <1>3, DoneKeeps
<1>4. CASE call' = [call EXCEPT ![s].size = Len(text[call[s].fd]), ![s].at = "get"]
  <2> DEFINE size == Len(text[call[s].fd])
  <2>1. Named(s) /\ Holding(s) /\ call[s].op = Reading
    BY <1>1 DEF Good, CallsFit, Named
  <2>2. call[s].fd \in DOMAIN text /\ \A n \in Temps : call[s].fd # dir[n]
    BY <1>1, <2>1 DEF Holding, At, Reading, Overwrite
  <2>3. text[call[s].fd] \in Seq(Char) /\ Whole(text[call[s].fd])
    BY <2>2 DEF Good, TypeOK, Texted
  <2>4. size \in Nat /\ SubSeq(text[call[s].fd], 1, size) = text[call[s].fd]
    BY <2>3, SubSeqFull
  <2>5. /\ call'[s] = [call[s] EXCEPT !.size = size, !.at = "get"]
        /\ \A u \in Shell \ {s} : call'[u] = call[u]
        /\ call' = [u \in Shell |-> call'[u]]
    BY <1>2, <1>4
  <2>6. Measured(s)' /\ call' \in [Shell -> Call]
    <3> HIDE DEF size
    <3>1. call[s] \in Call /\ "get" \in Steps
      BY <1>2 DEF Steps
    <3>2. call'[s] \in Call /\ call'[s].size = size /\ call'[s].fd = call[s].fd
      BY <2>4, <2>5, <3>1 DEF Call
    <3>3. call' \in [Shell -> Call]
      BY <1>2, <2>5, <3>2
    <3>4. size <= Len(text[call[s].fd])
      BY <2>4 DEF size
    <3>5. Whole(SubSeq(text[call[s].fd], 1, size))
      BY <2>3, <2>4
    <3>6. /\ call'[s].size <= Len(text'[call'[s].fd])
          /\ Whole(SubSeq(text'[call'[s].fd], 1, call'[s].size))
      BY <1>1, <3>2, <3>4, <3>5
    <3> QED BY <3>3, <3>6 DEF Measured, Whole
  <2>7. call'[s].at = "get" /\ call'[s].op = Reading /\ call'[s].name = call[s].name /\ call'[s].fd = call[s].fd
    BY <1>2, <2>1, <2>5 DEF Call
  <2>8. ~ Creating(s)' /\ Named(s)' /\ Writing(s)' /\ ~ Copying(s)'
    BY <1>1, <2>1, <2>7 DEF Creating, Named, Writing, At, Reading, Overwrite, Behind, Copying
  <2>9. Holding(s)'
    BY <1>1, <2>2, <2>7 DEF Holding
  <2> QED BY <1>1, <1>2, <2>5, <2>6, <2>8, <2>9, CallKeeps
<1> QED BY <1>3, <1>4 DEF Fstat

LEMMA ReadKeeps == ASSUME Good, NEW s \in Shell, Read(s) PROVE Good'
<1>1. ~ At(s, "away") /\ UNCHANGED <<text, dir>> /\ At(s, "get") /\ Done(s)
  BY DEF Read, At
<1>2. list \in [Shell -> Seq(Entered)] /\ call \in [Shell -> Call]
  BY DEF Good, TypeOK
<1> DEFINE t == text[call[s].fd]
           size == call[s].size
<1>3. Named(s) /\ Holding(s) /\ Measured(s) /\ call[s].op = Reading
  BY <1>1 DEF Good, CallsFit, Named
<1>4. call[s].fd \in DOMAIN text
  BY <1>1, <1>3 DEF Holding, At, Reading, Overwrite
<1>5. t \in Seq(Char) /\ size \in Nat /\ size <= Len(t) /\ Whole(SubSeq(t, 1, size))
  BY <1>1, <1>2, <1>3, <1>4 DEF Good, TypeOK, Call, Measured
<1> DEFINE n == IF size < Len(t) THEN size ELSE Len(t)
<1>6. n = size
  <2> HIDE DEF t, size
  <2> QED BY <1>5
<1>7. list' = [list EXCEPT ![s] = @ \o Entries(SubSeq(t, 1, n))]
  BY DEF Read
<1>8. Entries(SubSeq(t, 1, size)) \in Seq(Entered)
  <2>1. PICK es \in Seq(Entered) : SubSeq(t, 1, size) = Text(es)
    BY <1>5 DEF Whole
  <2> QED BY <2>1, ReadLines
<1> HIDE DEF t, size, n
<1>9. list' \in [Shell -> Seq(Entered)] /\ \A u \in Shell \ {s} : list'[u] = list[u]
  <2>1. list[s] \o Entries(SubSeq(t, 1, n)) \in Seq(Entered)
    BY <1>2, <1>6, <1>8, ConcatProperties
  <2> QED BY <1>2, <1>7, <2>1
<1> QED BY <1>1, <1>9, DoneKeeps

\* The history file has no other name.
LEMMA Apart ==
  ASSUME Good, NEW m \in Temps
  PROVE  dir[HistFile] # 0 => dir[m] # dir[HistFile]
BY TempNames DEF Good, OneName, Names

\* A name of a copy that nobody else is writing.
Own(s, n) == \A v \in Shell \ {s} : Copying(v) => call[v].name # n

LEMMA OpenToWriteKeeps == ASSUME Good, NEW s \in Shell, OpenToWrite(s), ~clash' PROVE Good'
<1>1. ~ At(s, "away") /\ UNCHANGED list /\ At(s, "open") /\ call[s].op = Overwrite
  BY DEF OpenToWrite, At
<1>2. /\ list \in [Shell -> Seq(Entered)] /\ call \in [Shell -> Call] /\ text \in Seq(Seq(Char))
      /\ dir \in [Names -> 0..Len(text)] /\ TypeOK /\ Texted /\ OneName
      /\ HistFile \in Names /\ HistFile \notin Temps /\ Temps \subseteq Names
      /\ history_tempfile(s) \in Temps
  BY TempNames DEF Good, TypeOK, Names
<1>3. Named(s) /\ Writing(s) /\ Holding(s) /\ Measured(s) /\ (Creating(s) => Alone)
  BY DEF Good, CallsFit, AloneWithoutFile
<1> DEFINE name == call[s].name
           new == dir[name] = 0
           fd == IF new THEN Len(text) + 1 ELSE dir[name]
<1>4. name \in {HistFile, history_tempfile(s)} /\ (name = HistFile => new /\ Alone)
  BY <1>1, <1>3 DEF Named, Writing, Creating, At
<1>5. /\ fd \in 1..Len(text) + 1 /\ (~new => fd \in 1..Len(text) /\ fd = dir[name] /\ name \in Temps)
      /\ new => fd = Len(text) + 1
  BY <1>2, <1>4
<1>6. /\ text' = IF new THEN Append(text, <<>>) ELSE [text EXCEPT ![fd] = <<>>]
      /\ dir' = [dir EXCEPT ![name] = fd]
      /\ call' = [call EXCEPT ![s].fd = fd, ![s].at = "put"]
  BY DEF OpenToWrite
<1> HIDE DEF name, new, fd
<1>27. ~ Clash(s)
  <2>1. clash' = (clash \/ Clash(s))
    BY DEF OpenToWrite
  <2> QED BY <2>1, Zenon
<1>0. Own(s, name)
  <2> SUFFICES ASSUME NEW v \in Shell, v # s, Copying(v), call[v].name = name PROVE FALSE
    BY DEF Own
  <2>1. call[v].name # HistFile /\ call[s].name = name
    BY DEF Copying, Temporary, name
  <2>2. Temporary(s) /\ name = history_tempfile(s)
    BY <1>4, <2>1 DEF Temporary
  <2>3. Named(v)
    BY DEF Good, CallsFit
  <2>4. name = history_tempfile(v)
    BY <2>1, <2>3 DEF Named
  <2>5. history_tempfile(s) = s % FiveDigits /\ history_tempfile(v) = v % FiveDigits
    BY DEF history_tempfile
  <2>6. v % FiveDigits = s % FiveDigits
    BY <2>2, <2>4, <2>5, Zenon
  <2> QED BY <1>27, <2>2, <2>6, Zenon DEF Clash
<1>7. <<>> \in Seq(Char) /\ Whole(<<>>)
  <2>1. <<>> \in Seq(Char)
    OBVIOUS
  <2>2. Whole(<<>>)
    BY EmptyText DEF Whole
  <2> QED BY <2>1, <2>2
<1>8. /\ text' \in Seq(Seq(Char)) /\ Len(text') >= Len(text) /\ fd \in 1..Len(text')
      /\ Len(text') \in Nat /\ Len(text') <= Len(text) + 1
      /\ text'[fd] = <<>>
      /\ \A f \in 1..Len(text') : f # fd => f \in 1..Len(text) /\ text'[f] = text[f]
      /\ Len(text) \in Nat
  <2>1. CASE new
    <3>1. text' = Append(text, <<>>) /\ fd = Len(text) + 1
      BY <1>5, <1>6, <2>1
    <3> QED BY <1>2, <1>7, <3>1
  <2>2. CASE ~ new
    <3>1. text' = [text EXCEPT ![fd] = <<>>] /\ fd \in 1..Len(text)
      BY <1>5, <1>6, <2>2
    <3> QED BY <1>2, <1>7, <3>1
  <2> QED BY <2>1, <2>2
<1>9. /\ dir' \in [Names -> 0..Len(text')] /\ dir'[name] = fd /\ name \in Names
      /\ \A m \in Names : m # name => dir'[m] = dir[m]
  BY <1>2, <1>4, <1>6, <1>8
<1>10. /\ call'[s] = [call[s] EXCEPT !.fd = fd, !.at = "put"]
       /\ \A u \in Shell \ {s} : call'[u] = call[u]
       /\ call' = [u \in Shell |-> call'[u]]
  BY <1>2, <1>6
<1>11. /\ call'[s] \in Call /\ call'[s].op = Overwrite /\ call'[s].name = name
       /\ call'[s].at = "put" /\ call'[s].fd = fd
  <2>1. call[s] \in Call /\ fd \in Nat /\ "put" \in Steps
    BY <1>2, <1>8 DEF Steps
  <2> QED BY <1>1, <1>10, <2>1 DEF Call, name
<1>12. call' \in [Shell -> Call]
  BY <1>2, <1>10, <1>11
<1>13. Named(s)' /\ Holding(s)' /\ Measured(s)'
  BY <1>4, <1>11 DEF Named, Holding, Measured, At, Overwrite
<1>14. Writing(s)'
  BY <1>8, <1>9, <1>11 DEF Writing, At
<1>15. Creating(s)' => Alone
  BY <1>4, <1>11 DEF Creating
<1>16. Texted'
  <2>1. DOMAIN text' = 1..Len(text') /\ DOMAIN text = 1..Len(text)
    BY <1>2, <1>8
  <2>2. ASSUME NEW f \in DOMAIN text' PROVE Whole(text'[f])
    <3>1. CASE f = fd
      BY <1>7, <1>8, <3>1
    <3>2. CASE f # fd
      <4>1. f \in DOMAIN text /\ text'[f] = text[f]
        BY <1>8, <2>1, <3>2
      <4> QED BY <1>2, <4>1 DEF Texted
    <3> QED BY <3>1, <3>2
  <2> QED BY <2>2 DEF Texted, Whole
<1>17. \A m \in Names : m # name => dir[m] # fd
  <2>1. CASE new
    BY <1>2, <1>5, <2>1
  <2>2. CASE ~ new
    <3>1. dir[name] = fd /\ fd # 0
      BY <1>5, <2>2 DEF fd
    <3> QED BY <1>2, <1>9, <3>1 DEF OneName
  <2> QED BY <2>1, <2>2
<1>18. OneName'
  <2> SUFFICES ASSUME NEW m \in Names, NEW n \in Names, dir'[m] # 0, dir'[m] = dir'[n]
               PROVE  m = n
    BY DEF OneName
  <2> QED BY <1>2, <1>9, <1>17 DEF OneName
<1>19. ASSUME NEW n \in Temps PROVE dir'[n] \in {0, dir[n], Len(text) + 1}
  BY <1>2, <1>5, <1>9
<1>20. ASSUME NEW v \in Shell \ {s}, Copying(v)
       PROVE  /\ dir'[call[v].name] = dir[call[v].name]
              /\ dir[call[v].name] # 0 => text'[dir[call[v].name]] = text[dir[call[v].name]]
  <2>1. PICK n \in Names : n = call[v].name
    BY <1>2, TypedCall
  <2>2. n # name
    BY <1>0, <1>20, <2>1 DEF Own
  <2>3. dir'[n] = dir[n]
    BY <1>9, <2>2
  <2>4. ASSUME dir[n] # 0 PROVE text'[dir[n]] = text[dir[n]]
    <3>1. dir[n] # fd /\ dir[n] \in 1..Len(text)
      BY <1>2, <1>17, <2>2, <2>4
    <3>2. dir[n] \in 1..Len(text')
      BY <1>8, <3>1
    <3> QED BY <1>8, <3>1, <3>2
  <2> QED BY <2>1, <2>3, <2>4
<1>21. ASSUME NEW f \in 1..Len(text), \A n \in Temps : f # dir[n]
       PROVE  \E b \in Seq(Char) : text'[f] = text[f] \o b
  <2>1. f # fd /\ f \in 1..Len(text')
    <3>1. CASE new
      BY <1>5, <1>8, <3>1
    <3>2. CASE ~ new
      BY <1>5, <1>8, <1>21, <3>2
    <3> QED BY <3>1, <3>2
  <2>2. text'[f] = text[f] /\ text[f] \in Seq(Char)
    BY <1>2, <1>8, <2>1
  <2>3. text'[f] = text[f] \o <<>>
    BY <2>2, ConcatEmptySeq
  <2> QED BY <1>7, <2>3
<1>22. Left(s)
  BY <1>19, <1>20, <1>21 DEF Left
<1>25. Copying(s)' => \A v \in Shell \ {s} : Copying(v) => call[v].name # call'[s].name
  BY <1>0, <1>11 DEF Own
<1>23. dir'[HistFile] = 0 => dir[HistFile] = 0
  BY <1>2, <1>5, <1>9
<1>24. list' \in [Shell -> Seq(Entered)] /\ \A u \in Shell \ {s} : list'[u] = list[u]
  BY <1>1, <1>2
<1> QED BY <1>1, <1>8, <1>9, <1>10, <1>12, <1>13, <1>14, <1>15, <1>16, <1>18, <1>22, <1>23, <1>24, <1>25, GoodNext

\* What a write does that does not fall short: nothing but put the shell's list
\* behind what there is, which is nothing in a file that was just opened to be
\* overwritten.
LEMMA WriteIs ==
  ASSUME Good, NEW s \in Shell, Write(s), ~full'
  PROVE  \E fd \in 1..Len(text) :
           /\ call[s].fd = fd /\ text' = [text EXCEPT ![fd] = text[fd] \o Text(list[s])]
           /\ text[fd] \in Seq(Char) /\ Text(list[s]) \in Seq(Char)
           /\ Whole(text[fd] \o Text(list[s]))
           /\ \/ /\ call[s].op = Overwrite /\ fd = dir[call[s].name]
                 /\ text[fd] \o Text(list[s]) = Text(list[s])
              \/ /\ call[s].op = Behind
                 /\ \A n \in Temps : fd # dir[n]
<1>1. At(s, "put") /\ Put(s, Text(list[s]))
  BY DEF Write
<1>2. /\ list[s] \in Seq(Entered) /\ text \in Seq(Seq(Char)) /\ Texted /\ TypeOK
      /\ Named(s) /\ Writing(s) /\ Holding(s)
  BY DEF Good, TypeOK, CallsFit
<1>3. Text(list[s]) \in Seq(Char)
  BY <1>2, TextType
<1> DEFINE b == Text(list[s])
           fd == call[s].fd
<1>4. text' = [text EXCEPT ![fd] = IF call[s].op = Behind THEN text[fd] \o b ELSE Over(text[fd], b)]
  BY <1>1 DEF Put
<1>5. ASSUME fd \in 1..Len(text) PROVE text[fd] \in Seq(Char) /\ Whole(text[fd] \o b)
  <2>1. text[fd] \in Seq(Char) /\ Whole(text[fd])
    BY <1>2, <1>5 DEF Texted
  <2>2. PICK es \in Seq(Entered) : text[fd] = Text(es)
    BY <2>1 DEF Whole
  <2>3. es \o list[s] \in Seq(Entered) /\ Text(es \o list[s]) = text[fd] \o b
    BY <1>2, <2>2, TextJoined
  <2>4. Whole(text[fd] \o b)
    BY <2>3 DEF Whole
  <2> QED BY <2>1, <2>4
<1>6. CASE call[s].op = Overwrite
  <2>1. dir[call[s].name] # 0 /\ fd = dir[call[s].name] /\ text[fd] = <<>>
    BY <1>1, <1>2, <1>6 DEF Writing, At
  <2>2. fd \in 1..Len(text)
    <3>1. dir[call[s].name] \in 0..Len(text) /\ Len(text) \in Nat
      BY <1>2, TypedCall DEF TypeOK
    <3> QED BY <2>1, <3>1
  <2>3. /\ <<>> \o b = b /\ <<>> \in Seq(Char)
    BY <1>3, ConcatEmptySeq
  <2>4. Over(<<>>, b) = b
    <3>1. SubSeq(<<>>, Len(b) + 1, Len(<<>>)) = <<>>
      BY <1>3
    <3>2. b \o <<>> = b
      BY <1>3, ConcatEmptySeq
    <3> QED BY <3>1, <3>2 DEF Over
  <2>5. text' = [text EXCEPT ![fd] = text[fd] \o b]
    BY <1>4, <1>6, <2>1, <2>3, <2>4 DEF Overwrite, Behind
  <2> QED BY <1>3, <1>5, <1>6, <2>1, <2>2, <2>3, <2>5
<1>7. CASE call[s].op = Behind
  <2>1. fd \in DOMAIN text /\ \A n \in Temps : fd # dir[n]
    BY <1>1, <1>2, <1>7 DEF Holding, At, Overwrite, Behind
  <2>2. fd \in 1..Len(text)
    BY <1>2, <2>1
  <2> QED BY <1>3, <1>4, <1>5, <1>7, <2>1, <2>2
<1> QED BY <1>1, <1>2, <1>6, <1>7 DEF Named, At

LEMMA WriteKeeps == ASSUME Good, NEW s \in Shell, Write(s), ~full' PROVE Good'
<1>1. ~ At(s, "away") /\ ~ At(s, "stat") /\ UNCHANGED <<dir, list>> /\ Goes(s, "close") /\ At(s, "put")
  BY DEF Write, At
<1>2. /\ list \in [Shell -> Seq(Entered)] /\ call \in [Shell -> Call] /\ text \in Seq(Seq(Char))
      /\ dir \in [Names -> 0..Len(text)] /\ TypeOK /\ Texted /\ OneName
      /\ Named(s) /\ (Creating(s) => Alone)
  BY DEF Good, TypeOK, CallsFit, AloneWithoutFile
<1> DEFINE b == Text(list[s])
<1>3. PICK fd \in 1..Len(text) :
        /\ call[s].fd = fd /\ text' = [text EXCEPT ![fd] = text[fd] \o b]
        /\ text[fd] \in Seq(Char) /\ b \in Seq(Char) /\ Whole(text[fd] \o b)
        /\ \/ call[s].op = Overwrite /\ fd = dir[call[s].name] /\ text[fd] \o b = b
           \/ call[s].op = Behind /\ \A n \in Temps : fd # dir[n]
  BY WriteIs
<1> HIDE DEF b
<1>4. /\ text' \in Seq(Seq(Char)) /\ Len(text') = Len(text) /\ Len(text) \in Nat
      /\ text'[fd] = text[fd] \o b
      /\ \A f \in 1..Len(text) : f # fd => text'[f] = text[f]
      /\ DOMAIN text' = 1..Len(text) /\ DOMAIN text = 1..Len(text)
  <2>1. text[fd] \o b \in Seq(Char)
    BY <1>3, ConcatProperties
  <2> QED BY <1>2, <1>3, <2>1
<1>5. /\ call'[s] = [call[s] EXCEPT !.at = "close"]
      /\ \A u \in Shell \ {s} : call'[u] = call[u]
      /\ call' = [u \in Shell |-> call'[u]]
  BY <1>1, <1>2 DEF Goes
<1>6. /\ call'[s] \in Call /\ call'[s].op = call[s].op /\ call'[s].name = call[s].name
      /\ call'[s].at = "close" /\ call'[s].fd = call[s].fd
  <2>1. call[s] \in Call /\ "close" \in Steps
    BY <1>2 DEF Steps
  <2> QED BY <1>5, <2>1 DEF Call
<1>7. call' \in [Shell -> Call]
  BY <1>2, <1>5, <1>6
<1>8. Named(s)' /\ Measured(s)' /\ (Creating(s)' => Alone)
  BY <1>1, <1>2, <1>6 DEF Named, Measured, Creating, At
<1>9. Holding(s)'
  BY <1>1, <1>3, <1>4, <1>6 DEF Holding
<1>10. Writing(s)'
  <2> SUFFICES ASSUME call[s].op = Overwrite
               PROVE  dir[call[s].name] # 0 /\ fd = dir[call[s].name] /\ text'[fd] = Text(list[s])
    BY <1>1, <1>3, <1>6 DEF Writing, At
  <2>1. fd = dir[call[s].name] /\ text[fd] \o b = b
    BY <1>3 DEF Overwrite, Behind
  <2> QED BY <1>4, <2>1 DEF b
<1>11. Texted'
  <2>1. ASSUME NEW f \in DOMAIN text' PROVE Whole(text'[f])
    <3>1. CASE f = fd
      BY <1>3, <1>4, <3>1
    <3>2. CASE f # fd
      BY <1>2, <1>4, <3>2 DEF Texted
    <3> QED BY <3>1, <3>2
  <2> QED BY <2>1 DEF Texted, Whole
<1>12. OneName'
  BY <1>1, <1>2 DEF OneName
<1>13. ASSUME NEW f \in 1..Len(text) PROVE \E c \in Seq(Char) : text'[f] = text[f] \o c
  <2>1. CASE f = fd
    BY <1>3, <1>4, <2>1
  <2>2. CASE f # fd
    <3>1. <<>> \in Seq(Char) /\ text[f] \in Seq(Char)
      BY <1>2
    <3>2. text[f] = text[f] \o <<>>
      BY <3>1, ConcatEmptySeq
    <3> QED BY <1>4, <2>2, <3>1, <3>2
  <2> QED BY <2>1, <2>2
<1>14. ASSUME NEW v \in Shell \ {s}, Copying(v)
       PROVE  dir[call[v].name] # 0 => text'[dir[call[v].name]] = text[dir[call[v].name]]
  <2>1. PICK n \in Temps : n = call[v].name /\ n \in Names
    BY <1>2, <1>14, TypedCall DEF Copying, Temporary, Names
  <2> SUFFICES ASSUME dir[n] # 0 PROVE text'[dir[n]] = text[dir[n]]
    BY <2>1
  <2>2. dir[n] \in 1..Len(text)
    BY <1>2, <1>4, <2>1
  <2>3. dir[n] # fd
    <3>1. CASE call[s].op = Overwrite
      <4>1. fd = dir[call[s].name] /\ call[s].name \in Names
        BY <1>2, <1>3, <3>1, TypedCall DEF Overwrite, Behind
      <4>2. call[s].name # n
        <5>1. CASE Temporary(s)
          BY <1>1, <1>14, <2>1, <5>1 DEF Good, Distinct, Copying, At
        <5>2. CASE ~ Temporary(s)
          BY <2>1, <5>2, TempNames DEF Temporary
        <5> QED BY <5>1, <5>2
      <4> QED BY <1>2, <2>1, <4>1, <4>2 DEF OneName
    <3>2. CASE call[s].op = Behind
      BY <1>3, <3>2 DEF Overwrite, Behind
    <3> QED BY <1>3, <3>1, <3>2
  <2> QED BY <1>4, <2>2, <2>3
<1>15. dir' \in [Names -> 0..Len(text')]
  BY <1>1, <1>2, <1>4
<1>16. /\ list' \in [Shell -> Seq(Entered)] /\ \A u \in Shell \ {s} : list'[u] = list[u]
       /\ Len(text') >= Len(text)
  BY <1>1, <1>2, <1>4
<1>17. Left(s)
  BY <1>1, <1>13, <1>14 DEF Left
<1>18. Copying(s)' => Copying(s) /\ call'[s].name = call[s].name
  BY <1>1, <1>6 DEF Copying, Temporary, At
<1> QED BY <1>1, <1>4, <1>5, <1>7, <1>8, <1>9, <1>10, <1>11, <1>12, <1>15, <1>16, <1>17, <1>18, SameCopy, GoodNext

\* A call that returns and has moved or removed its copy.
LEMMA MovesKeep ==
  ASSUME Good, NEW s \in Shell, UNCHANGED <<text, list>>, Done(s), Copying(s),
         NEW name \in Temps, name = call[s].name,
         \/ dir' = [dir EXCEPT ![HistFile] = dir[name], ![name] = 0] /\ dir[name] # 0
         \/ dir' = [dir EXCEPT ![name] = 0]
  PROVE  Good'
<1>1. NoCall \in Call /\ NoCall.at = "prompt" /\ NoCall.op = "none" /\ NoCall.name = HistFile
  BY DEF NoCall, Call, Steps, Names
<1>2. /\ call \in [Shell -> Call] /\ text \in Seq(Seq(Char)) /\ dir \in [Names -> 0..Len(text)]
      /\ Texted /\ OneName /\ name \in Names /\ HistFile \in Names /\ name # HistFile
      /\ list \in [Shell -> Seq(Entered)] /\ ~ At(s, "away") /\ Temps \subseteq Names
  BY TempNames DEF Good, TypeOK, Names, Copying, At
<1>3. /\ call' \in [Shell -> Call] /\ \A u \in Shell \ {s} : call'[u] = call[u]
      /\ call'[s] = NoCall
  BY <1>1, <1>2 DEF Done
<1>4. /\ ~ Creating(s)' /\ Named(s)' /\ Writing(s)' /\ Holding(s)' /\ Measured(s)'
      /\ ~ Copying(s)'
  BY <1>1, <1>3 DEF Creating, Named, Writing, Holding, Measured, At, Overwrite, Copying
<1>5. PICK h \in {dir[HistFile], dir[name]} :
        /\ dir' = [n \in Names |-> IF n = HistFile THEN h ELSE IF n = name THEN 0 ELSE dir[n]]
        /\ h = 0 => dir[HistFile] = 0
  <2>1. CASE dir' = [dir EXCEPT ![HistFile] = dir[name], ![name] = 0] /\ dir[name] # 0
    BY <1>2, <2>1
  <2>2. CASE dir' = [dir EXCEPT ![name] = 0]
    BY <1>2, <2>2
  <2> QED BY <2>1, <2>2
<1>6. dir' \in [Names -> 0..Len(text')] /\ Len(text') >= Len(text)
  <2>1. 0 \in 0..Len(text) /\ h \in 0..Len(text) /\ Len(text) \in Nat
    BY <1>2
  <2> QED BY <1>2, <1>5, <2>1
<1>7. OneName'
  <2> SUFFICES ASSUME NEW m \in Names, NEW n \in Names, dir'[m] # 0, dir'[m] = dir'[n]
               PROVE  m = n
    BY DEF OneName
  <2>1. m # name /\ n # name
    BY <1>2, <1>5
  <2>2. CASE m = HistFile /\ n = HistFile
    BY <2>2
  <2>3. CASE m # HistFile /\ n # HistFile
    <3>1. dir[m] # 0 /\ dir[m] = dir[n]
      BY <1>5, <2>1, <2>3
    <3> QED BY <1>2, <3>1 DEF OneName
  <2>4. \A k \in Names : k # HistFile /\ k # name /\ dir[k] # 0 => dir[k] # h
    BY <1>2, <1>5 DEF OneName
  <2>5. CASE m = HistFile /\ n # HistFile
    BY <1>2, <1>5, <2>1, <2>4, <2>5
  <2>6. CASE m # HistFile /\ n = HistFile
    BY <1>2, <1>5, <2>1, <2>4, <2>6
  <2> QED BY <2>2, <2>3, <2>5, <2>6
<1>8. ASSUME NEW f \in 1..Len(text) PROVE \E b \in Seq(Char) : text'[f] = text[f] \o b
  <2>1. text[f] \in Seq(Char) /\ <<>> \in Seq(Char)
    BY <1>2
  <2>2. text[f] = text[f] \o <<>>
    BY <2>1, ConcatEmptySeq
  <2> QED BY <2>1, <2>2
<1>9. Texted'
  BY <1>2 DEF Texted, Whole
<1>10. ASSUME NEW n \in Temps PROVE dir'[n] \in {0, dir[n], Len(text) + 1}
  BY <1>2, <1>5, TempNames
<1>11. ASSUME NEW v \in Shell \ {s}, Copying(v) PROVE dir'[call[v].name] = dir[call[v].name]
  <2>1. PICK n \in Names : n = call[v].name /\ n # HistFile
    BY <1>11, TypedCall DEF Copying, Temporary, Good
  <2>2. n # name
    BY <1>11, <2>1 DEF Good, Distinct
  <2> QED BY <1>5, <2>1, <2>2
<1>12. Left(s)
  BY <1>8, <1>10, <1>11 DEF Left
<1>13. dir'[HistFile] = 0 => dir[HistFile] = 0
  BY <1>2, <1>5
<1> QED BY <1>2, <1>3, <1>4, <1>6, <1>7, <1>9, <1>12, <1>13, GoodNext

\* A shell is killed and another one starts.
LEMMA KilledKeeps == ASSUME Good, NEW s \in Shell, Killed(s) PROVE Good'
<1>1. ~ At(s, "away") /\ UNCHANGED <<text, dir>> /\ list' = [list EXCEPT ![s] = <<>>]
  BY DEF Killed
<1>2. PICK t \in Shell : /\ t = s \/ At(t, "away")
                         /\ call' = [[call EXCEPT ![s] = NoShell] EXCEPT ![t] = NoCall]
  BY DEF Killed
<1>3. /\ call \in [Shell -> Call] /\ list \in [Shell -> Seq(Entered)] /\ TypeOK /\ Texted /\ OneName
      /\ AloneWithoutFile /\ Distinct /\ CallsFit
  BY DEF Good, TypeOK
<1>4. /\ NoCall \in Call /\ NoCall.at = "prompt" /\ NoCall.op = "none" /\ NoCall.name = HistFile
      /\ NoShell \in Call /\ NoShell.at = "away" /\ NoShell.op = "none" /\ NoShell.name = HistFile
  BY DEF NoCall, NoShell, Call, Steps, Names
<1>5. /\ call'[t] = NoCall /\ (s # t => call'[s] = NoShell)
      /\ \A u \in Shell \ {s, t} : call'[u] = call[u] /\ list'[u] = list[u]
      /\ call' = [u \in Shell |-> call'[u]]
  BY <1>1, <1>2, <1>3
<1>6. TypeOK' /\ Texted' /\ OneName'
  <2>1. list' \in [Shell -> Seq(Entered)]
    <3>1. <<>> \in Seq(Entered)
      OBVIOUS
    <3> QED BY <1>1, <1>3, <3>1
  <2>2. ASSUME NEW u \in Shell PROVE call'[u] \in Call
    BY <1>3, <1>4, <1>5
  <2>3. call' \in [Shell -> Call]
    BY <1>5, <2>2
  <2> QED BY <1>1, <1>3, <2>1, <2>3 DEF TypeOK, Texted, Whole, OneName
<1>7. ASSUME NEW u \in {s, t}
      PROVE  /\ ~ Creating(u)' /\ Named(u)' /\ Writing(u)' /\ Holding(u)' /\ Measured(u)'
             /\ ~ Copying(u)'
  <2>1. call'[u].op = "none" /\ call'[u].at \in {"prompt", "away"} /\ call'[u].name = HistFile
    BY <1>4, <1>5
  <2> QED BY <2>1 DEF Creating, Named, Writing, Holding, Measured, At, Overwrite, Copying
<1>8. ASSUME NEW u \in Shell \ {s, t}
      PROVE  Named(u)' /\ Writing(u)' /\ Holding(u)' /\ Measured(u)'
  <2>1. Named(u) /\ Writing(u) /\ Holding(u) /\ Measured(u) /\ call'[u] = call[u] /\ list'[u] = list[u]
    BY <1>3, <1>5 DEF CallsFit
  <2> QED BY <1>1, <2>1 DEF Named, Writing, Holding, Measured, At, Whole
<1>9. CallsFit'
  BY <1>7, <1>8 DEF CallsFit
<1>10. Distinct'
  <2> SUFFICES ASSUME NEW a \in Shell, NEW b \in Shell, a # b, Copying(a)', Copying(b)'
               PROVE  call'[a].name # call'[b].name
    BY DEF Distinct
  <2>1. a \notin {s, t} /\ b \notin {s, t}
    BY <1>7
  <2>2. call'[a] = call[a] /\ call'[b] = call[b]
    BY <1>5, <2>1
  <2> QED BY <1>3, <2>2 DEF Distinct, Copying, Temporary
<1>11. ASSUME Alone PROVE Alone'
  <2> SUFFICES ASSUME NEW a \in Shell, NEW b \in Shell, a # b
               PROVE  call'[a].at = "away" \/ call'[b].at = "away"
    BY DEF Alone, At
  <2>1. \A u \in Shell \ {s, t} : call'[u].at = "away"
    BY <1>1, <1>5, <1>11 DEF Alone, At
  <2> QED BY <1>4, <1>5, <2>1
<1>12. AloneWithoutFile'
  <2> SUFFICES ASSUME (dir[HistFile] = 0 \/ \E u \in Shell : Creating(u))'
               PROVE  Alone
    BY <1>11 DEF AloneWithoutFile
  <2>1. CASE dir'[HistFile] = 0
    BY <1>1, <1>3, <2>1 DEF AloneWithoutFile
  <2>2. ASSUME NEW u \in Shell, Creating(u)' PROVE Alone
    <3>1. u \notin {s, t}
      BY <1>7, <2>2
    <3>2. Creating(u)
      BY <1>5, <2>2, <3>1 DEF Creating, At
    <3> QED BY <1>3, <3>2 DEF AloneWithoutFile
  <2> QED BY <2>1, <2>2
<1> QED BY <1>6, <1>9, <1>10, <1>12 DEF Good

\* Unless the disk is full after it, or two shells write one copy, a step leaves all
\* well.
LEMMA GoodStep == ASSUME Good, [Next]_vars, ~full', ~clash' PROVE Good'
<1>1. CASE UNCHANGED vars
  <2>1. UNCHANGED <<text, dir, list, call>>
    BY <1>1 DEF vars
  <2>2. TypeOK' /\ Texted' /\ OneName' /\ AloneWithoutFile'
    BY <2>1 DEF Good, TypeOK, Texted, Whole, OneName, AloneWithoutFile, Alone, Creating, At
  <2>3. CallsFit'
    BY <2>1 DEF Good, CallsFit, Named, Writing, Holding, Measured, Whole, At
  <2>4. Distinct'
    BY <2>1 DEF Good, Distinct, Copying, Temporary
  <2> QED BY <2>2, <2>3, <2>4 DEF Good
<1>2. ASSUME NEW s \in Shell,
             add_history(s) \/ Called(s) \/ HistoryDoWrite(s) \/ ReadHistoryRange(s) \/ Killed(s)
      PROVE  Good'
  <2>0. list \in [Shell -> Seq(Entered)] /\ TypeOK
    BY DEF Good, TypeOK
  <2>1. CASE add_history(s)
    BY <2>1, AddHistory
  <2>2. CASE Called(s)
    BY <2>2, CalledKeeps
  <2>3. CASE Stat(s)
    BY <2>3, StatKeeps
  <2>4. CASE OpenFails(s)
    <3>1. ~ At(s, "away") /\ UNCHANGED <<text, dir, list>> /\ Done(s)
      BY <2>4 DEF OpenFails, At
    <3> QED BY <2>0, <3>1, DoneKeeps
  <2>5. CASE OpenToWrite(s)
    BY <2>5, OpenToWriteKeeps
  <2>6. CASE Open(s)
    BY <2>6, OpenKeeps
  <2>7. CASE Write(s)
    BY <2>7, WriteKeeps
  <2>8. CASE WriteFails(s) \/ CloseFails(s) \/ RestoreFails(s)
    <3>1. /\ At(s, "put") \/ At(s, "close") \/ At(s, "rename")
          /\ UNCHANGED <<text, dir, list>> /\ Goes(s, "failed")
      BY <2>8 DEF WriteFails, CloseFails, RestoreFails
    <3> QED BY <3>1, FailedKeeps
  <2>9. CASE Close(s)
    BY <2>9, CloseKeeps
  <2>10. CASE histfile_restore(s)
    <3>1. ~ At(s, "away") /\ UNCHANGED <<text, list>> /\ Done(s) /\ At(s, "rename")
      BY <2>10 DEF histfile_restore, At
    <3>2. CASE Temporary(s)
      <4>1. PICK name \in Temps : name = call[s].name
        BY <2>0, <3>2, TypedCall DEF Temporary, Names
      <4>2. Copying(s) /\ dir[name] # 0
        BY <2>10, <3>1, <3>2, <4>1 DEF Copying, At, histfile_restore
      <4>3. dir' = [dir EXCEPT ![HistFile] = dir[name], ![name] = 0]
        BY <2>10, <3>2, <4>1 DEF histfile_restore
      <4> QED BY <3>1, <4>1, <4>2, <4>3, MovesKeep
    <3>3. CASE ~ Temporary(s)
      <4>1. dir' = dir
        BY <2>10, <3>3 DEF histfile_restore
      <4> QED BY <2>0, <3>1, <4>1, DoneKeeps
    <3> QED BY <3>2, <3>3
  <2>11. CASE Unlink(s)
    <3>1. ~ At(s, "away") /\ UNCHANGED <<text, list>> /\ Done(s) /\ At(s, "failed")
      BY <2>11 DEF Unlink, At
    <3>2. CASE Temporary(s)
      <4>1. PICK name \in Temps : name = call[s].name
        BY <2>0, <3>2, TypedCall DEF Temporary, Names
      <4>2. Copying(s)
        BY <3>1, <3>2 DEF Copying, At
      <4>3. dir' = [dir EXCEPT ![name] = 0]
        BY <2>11, <3>2, <4>1 DEF Unlink
      <4> QED BY <3>1, <4>1, <4>2, <4>3, MovesKeep
    <3>3. CASE ~ Temporary(s)
      <4>1. dir' = dir
        BY <2>11, <3>3 DEF Unlink
      <4> QED BY <2>0, <3>1, <4>1, DoneKeeps
    <3> QED BY <3>2, <3>3
  <2>12. CASE Fstat(s)
    BY <2>12, FstatKeeps
  <2>13. CASE Read(s)
    BY <2>13, ReadKeeps
  <2>14. CASE ReadFails(s)
    <3>1. ~ At(s, "away") /\ UNCHANGED <<text, dir, list>> /\ Done(s)
      BY <2>14 DEF ReadFails, At
    <3> QED BY <2>0, <3>1, DoneKeeps
  <2>15. CASE Killed(s)
    BY <2>15, KilledKeeps
  <2> QED BY <1>2, <2>1, <2>2, <2>3, <2>4, <2>5, <2>6, <2>7, <2>8, <2>9, <2>10, <2>11, <2>12, <2>13,
             <2>14, <2>15 DEF HistoryDoWrite, ReadHistoryRange
<1> QED BY <1>1, <1>2 DEF Next

LEMMA InitGood == Init => Inv
<1> SUFFICES ASSUME Init PROVE full = FALSE /\ clash = FALSE /\ Good
  BY DEF Inv
<1>1. PICK found \in Found \cup {NoFile}, shells \in Started :
        /\ text = IF found = NoFile THEN <<>> ELSE <<Text(found)>>
        /\ dir = [n \in {HistFile} \cup Temps |-> IF n = HistFile /\ found # NoFile THEN 1 ELSE 0]
        /\ list = [s \in Shell |-> <<>>]
        /\ found = NoFile => \E s \in shells : shells = {s}
        /\ call = [s \in Shell |-> IF s \in shells THEN NoCall ELSE NoShell]
        /\ full = FALSE /\ clash = FALSE
  BY DEF Init, Temps
<1>2. ASSUME found # NoFile PROVE found \in Seq(Entered) /\ Text(found) \in Seq(Char)
  <2>1. found \in Found /\ found \in Seq(Seq(Char))
    BY <1>1, <1>2, FoundAssumption
  <2>2. \A i \in DOMAIN found : found[i] \in Entered
    BY <2>1 DEF Entered, Range
  <2>3. found \in Seq(Entered)
    BY <2>1, <2>2
  <2> QED BY <2>3, TextType
<1>3. /\ Len(text) \in {0, 1} /\ text \in Seq(Seq(Char))
      /\ found # NoFile => Len(text) = 1
      /\ \A f \in DOMAIN text : found # NoFile /\ text[f] = Text(found)
  BY <1>1, <1>2
<1>4. Texted
  BY <1>2, <1>3 DEF Texted, Whole
<1>5. HistFile \notin Temps
  BY TempNames
<1>6. dir \in [Names -> 0..Len(text)]
  BY <1>1, <1>3 DEF Names
<1>7. OneName
  BY <1>1, <1>5 DEF OneName, Names
<1>8. \A s \in Shell : /\ call[s] \in Call /\ call[s].op = "none" /\ call[s].name = HistFile
                       /\ call[s].at \in {"prompt", "away"}
                       /\ s \notin shells => call[s].at = "away"
  <2>1. NoCall \in Call /\ NoCall.at = "prompt" /\ NoCall.op = "none" /\ NoCall.name = HistFile
    BY DEF NoCall, Call, Steps, Names
  <2>2. NoShell \in Call /\ NoShell.at = "away" /\ NoShell.op = "none" /\ NoShell.name = HistFile
    BY DEF NoCall, NoShell, Call, Steps, Names
  <2> QED BY <1>1, <2>1, <2>2
<1>9. TypeOK
  <2>1. call \in [Shell -> Call]
    BY <1>1, <1>8
  <2>2. list \in [Shell -> Seq(Entered)]
    <3>1. <<>> \in Seq(Entered)
      OBVIOUS
    <3> QED BY <1>1, <3>1
  <2> QED BY <1>3, <1>6, <2>1, <2>2 DEF TypeOK
<1>10. AloneWithoutFile
  <2>1. \A s \in Shell : ~ Creating(s)
    BY <1>8 DEF Creating, Overwrite
  <2>2. CASE found = NoFile
    <3>1. PICK s \in shells : shells = {s}
      BY <1>1, <2>2
    <3> QED BY <1>8, <3>1 DEF AloneWithoutFile, Alone, At
  <2>3. CASE found # NoFile
    <3>1. dir[HistFile] = 1
      BY <1>1, <2>3
    <3> QED BY <2>1, <3>1 DEF AloneWithoutFile
  <2> QED BY <2>2, <2>3
<1>11. CallsFit
  BY <1>8 DEF CallsFit, Named, Writing, Holding, Measured, At, Overwrite
<1>12. Distinct
  BY <1>8 DEF Distinct, Copying
<1> QED BY <1>1, <1>4, <1>7, <1>9, <1>10, <1>11, <1>12 DEF Good

LEMMA EndsStay ==
  ASSUME Inv, [Next]_vars
  PROVE  full' \in BOOLEAN /\ clash' \in BOOLEAN /\ (full => full') /\ (clash => clash')
<1>1. full' \in {full, TRUE}
  BY DEF Next, vars, add_history, Called, HistoryDoWrite, Stat, OpenFails, OpenToWrite, Open, Write,
         WriteFails, Close, CloseFails, histfile_restore, RestoreFails, Unlink, ReadHistoryRange,
         Fstat, Read, ReadFails, Killed
<1>2. clash' = clash \/ \E s \in Shell : OpenToWrite(s)
  BY DEF Next, vars, add_history, Called, HistoryDoWrite, Stat, OpenFails, Open, Write,
         WriteFails, Close, CloseFails, histfile_restore, RestoreFails, Unlink, ReadHistoryRange,
         Fstat, Read, ReadFails, Killed
<1>6. ASSUME NEW s \in Shell, OpenToWrite(s) PROVE clash' = (clash \/ Clash(s))
  BY <1>6, Zenon DEF OpenToWrite
<1>3. full \in BOOLEAN /\ clash \in BOOLEAN
  BY DEF Inv
<1>4. full' \in BOOLEAN /\ (full => full')
  BY <1>1, <1>3
<1>5. clash' \in BOOLEAN /\ (clash => clash')
  <2>1. CASE clash' = clash
    BY <1>3, <2>1
  <2>2. ASSUME NEW s \in Shell, OpenToWrite(s) PROVE clash' \in BOOLEAN /\ (clash => clash')
    <3>1. clash' = (clash \/ Clash(s)) /\ Clash(s) \in BOOLEAN
      BY <1>6, <2>2 DEF Clash
    <3> QED BY <1>3, <3>1, Zenon
  <2> QED BY <1>2, <2>1, <2>2
<1> QED BY <1>4, <1>5

LEMMA InvStep == Inv /\ [Next]_vars => Inv'
<1> SUFFICES ASSUME Inv, [Next]_vars PROVE Inv'
  OBVIOUS
<1>1. full' \in BOOLEAN /\ clash' \in BOOLEAN /\ (full => full') /\ (clash => clash')
  BY EndsStay
<1>2. ~full' /\ ~clash' => Good'
  BY <1>1, GoodStep DEF Inv
<1> QED BY <1>1, <1>2 DEF Inv

\* For any number of processes, calls and kills: as long as no write fell short and
\* no two shells whose ids are equal modulo 100000 were writing their copies at once,
\* every file is the text of a whole list, and every call works on the file it means.
THEOREM Invariance == Spec => []Inv
<1>1. Init => Inv
  BY InitGood
<1>2. Inv /\ [Next]_vars => Inv'
  BY InvStep
<1> QED BY <1>1, <1>2, PTL DEF Spec

-----------------------------------------------------------------------------
(* The history file is replaced or extended, a whole list at a time.           *)

FileStep ==
  \/ HistoryText' = HistoryText
  \/ HistoryText = NoFile /\ HistoryText' = Text(<<>>)
  \/ \E s \in Shell :
       \/ HistoryText' = Text(list[s])
       \/ HistoryText # NoFile /\ HistoryText' = HistoryText \o Text(list[s])

LEMMA OpenToWriteFile == ASSUME Good, NEW s \in Shell, OpenToWrite(s) PROVE FileStep
<1>1. At(s, "open") /\ call[s].op = Overwrite
  BY DEF OpenToWrite
<1>2. /\ dir \in [Names -> 0..Len(text)] /\ text \in Seq(Seq(Char)) /\ Len(text) \in Nat
      /\ history_tempfile(s) \in Temps /\ Temps \subseteq Names /\ HistFile \in Names /\ HistFile \notin Temps
      /\ dir[HistFile] \in 0..Len(text)
  BY TypedCall DEF Good, TypeOK
<1>3. Named(s) /\ Writing(s)
  BY DEF Good, CallsFit
<1>4. CASE call[s].name = HistFile
  <2>1. dir[HistFile] = 0
    BY <1>1, <1>3, <1>4 DEF Writing
  <2>2. text' = Append(text, <<>>) /\ dir' = [dir EXCEPT ![HistFile] = Len(text) + 1]
    BY <1>4, <2>1 DEF OpenToWrite
  <2>3. dir'[HistFile] = Len(text) + 1 /\ dir'[HistFile] # 0 /\ text'[Len(text) + 1] = <<>>
    BY <1>2, <2>2
  <2>4. HistoryText = NoFile /\ HistoryText' = <<>>
    BY <2>1, <2>3 DEF HistoryText
  <2> QED BY <2>4, EmptyText DEF FileStep
<1>5. CASE call[s].name = history_tempfile(s)
  <2>0. PICK name \in Temps : name = call[s].name /\ name \in Names /\ name # HistFile
    BY <1>2, <1>5
  <2> DEFINE new == dir[name] = 0
             fd == IF new THEN Len(text) + 1 ELSE dir[name]
  <2>1. /\ text' = IF new THEN Append(text, <<>>) ELSE [text EXCEPT ![fd] = <<>>]
        /\ dir' = [dir EXCEPT ![name] = fd]
    BY <2>0 DEF OpenToWrite
  <2>2. dir'[HistFile] = dir[HistFile]
    BY <1>2, <2>0, <2>1
  <2>3. ASSUME dir[HistFile] # 0 PROVE text'[dir[HistFile]] = text[dir[HistFile]]
    <3>1. dir[HistFile] \in 1..Len(text) /\ dir[HistFile] # dir[name]
      BY <1>2, <2>3, Apart
    <3> QED BY <1>2, <2>0, <2>1, <3>1
  <2> QED BY <2>2, <2>3 DEF HistoryText, FileStep
<1> QED BY <1>1, <1>3, <1>4, <1>5 DEF Named

LEMMA WriteFile == ASSUME Good, NEW s \in Shell, Write(s), ~full' PROVE FileStep
<1>1. dir' = dir /\ At(s, "put")
  BY DEF Write
<1>2. dir[HistFile] \in 0..Len(text) /\ Len(text) \in Nat /\ text \in Seq(Seq(Char))
  BY TypedCall DEF Good, TypeOK
<1> DEFINE b == Text(list[s])
<1>3. PICK fd \in 1..Len(text) :
        /\ call[s].fd = fd /\ text' = [text EXCEPT ![fd] = text[fd] \o b]
        /\ \/ call[s].op = Overwrite /\ fd = dir[call[s].name] /\ text[fd] \o b = b
           \/ call[s].op = Behind
  BY WriteIs
<1> HIDE DEF b
<1>4. CASE dir[HistFile] = fd
  <2>1. text'[fd] = text[fd] \o b
    BY <1>2, <1>3
  <2>2. HistoryText = text[fd] /\ HistoryText' = text[fd] \o b
    BY <1>1, <1>2, <1>3, <1>4, <2>1 DEF HistoryText
  <2>3. CASE call[s].op = Overwrite
    BY <1>3, <2>2, <2>3 DEF FileStep, b, Overwrite, Behind
  <2>4. CASE call[s].op = Behind
    <3>1. text[fd] # NoFile
      BY <1>2, NameAssumption
    <3> QED BY <2>2, <3>1 DEF FileStep, b
  <2> QED BY <1>3, <2>3, <2>4
<1>5. CASE dir[HistFile] # fd
  <2>1. dir[HistFile] # 0 => text'[dir[HistFile]] = text[dir[HistFile]]
    <3>1. dir[HistFile] # 0 => dir[HistFile] \in 1..Len(text)
      BY <1>2
    <3> QED BY <1>2, <1>3, <1>5, <3>1
  <2> QED BY <1>1, <2>1 DEF HistoryText, FileStep
<1> QED BY <1>4, <1>5

LEMMA RestoreFile == ASSUME Good, NEW s \in Shell, histfile_restore(s) PROVE FileStep
<1>1. UNCHANGED text /\ At(s, "rename")
  BY DEF histfile_restore
<1>2. dir \in [Names -> 0..Len(text)] /\ HistFile \in Names
  BY TypedCall DEF Good, TypeOK
<1>3. CASE Temporary(s)
  <2>1. PICK name \in Temps : name = call[s].name /\ name \in Names /\ name # HistFile
    BY <1>3, TypedCall DEF Temporary, Names, Good
  <2>2. call[s].op = Overwrite /\ dir[name] # 0 /\ text[dir[name]] = Text(list[s])
    BY <1>1, <1>3, <2>1 DEF Temporary, Good, CallsFit, Named, Writing, At
  <2>3. dir' = [dir EXCEPT ![HistFile] = dir[name], ![name] = 0]
    BY <1>3, <2>1 DEF histfile_restore
  <2>4. dir'[HistFile] = dir[name]
    BY <1>2, <2>1, <2>3
  <2>5. HistoryText' = Text(list[s])
    BY <1>1, <2>2, <2>4 DEF HistoryText
  <2> QED BY <2>5 DEF FileStep
<1>4. CASE ~ Temporary(s)
  <2>1. dir' = dir
    BY <1>4 DEF histfile_restore
  <2> QED BY <1>1, <2>1 DEF HistoryText, FileStep
<1> QED BY <1>3, <1>4

LEMMA UnlinkFile == ASSUME Good, NEW s \in Shell, Unlink(s) PROVE FileStep
<1>1. UNCHANGED text
  BY DEF Unlink
<1>2. dir'[HistFile] = dir[HistFile]
  <2>1. dir \in [Names -> 0..Len(text)] /\ HistFile \in Names
    BY TypedCall DEF Good, TypeOK
  <2> QED BY <2>1 DEF Unlink, Temporary
<1> QED BY <1>1, <1>2 DEF HistoryText, FileStep

LEMMA EveryStep == ASSUME Good, [Next]_vars, ~full' PROVE FileStep
<1>1. CASE UNCHANGED vars
  BY <1>1 DEF vars, FileStep, HistoryText
<1>2. ASSUME NEW s \in Shell,
             add_history(s) \/ Called(s) \/ HistoryDoWrite(s) \/ ReadHistoryRange(s) \/ Killed(s)
      PROVE  FileStep
  <2>1. CASE UNCHANGED <<text, dir>>
    BY <2>1 DEF HistoryText, FileStep
  <2>2. CASE add_history(s) \/ Called(s) \/ ReadHistoryRange(s)
    BY <2>1, <2>2 DEF add_history, Called, ReadHistoryRange, Fstat, Read, ReadFails
  <2>3. CASE Stat(s) \/ OpenFails(s) \/ Open(s) \/ WriteFails(s) \/ Close(s) \/ CloseFails(s) \/ RestoreFails(s)
    BY <2>1, <2>3 DEF Stat, OpenFails, Open, WriteFails, Close, CloseFails, RestoreFails
  <2>4. CASE OpenToWrite(s)
    BY <2>4, OpenToWriteFile
  <2>5. CASE Write(s)
    BY <2>5, WriteFile
  <2>6. CASE histfile_restore(s)
    BY <2>6, RestoreFile
  <2>7. CASE Unlink(s)
    BY <2>7, UnlinkFile
  <2>8. CASE Killed(s)
    BY <2>1, <2>8 DEF Killed
  <2> QED BY <1>2, <2>2, <2>3, <2>4, <2>5, <2>6, <2>7, <2>8 DEF HistoryDoWrite
<1> QED BY <1>1, <1>2 DEF Next

LEMMA StepIsAtomic == Inv /\ Inv' /\ [Next]_vars => [Atomic!Next]_<<HistoryText, list>>
<1> SUFFICES ASSUME Inv, Inv', [Next]_vars PROVE Atomic!Next
  OBVIOUS
<1>1. CASE full' \/ clash'
  BY <1>1 DEF Atomic!Next
<1>2. CASE ~full' /\ ~clash'
  <2>1. Good /\ Good'
    <3>1. (full => full') /\ (clash => clash')
      BY EndsStay
    <3> QED BY <1>2, <3>1 DEF Inv
  <2>2. Atomic!WholeLines
    <3>1. list' \in [Shell -> Seq(Entered)]
      BY <2>1 DEF Good, TypeOK
    <3>2. ASSUME NEW s \in Shell, NEW i \in DOMAIN list'[s] PROVE list'[s][i] \in Entered
      BY <3>1
    <3> QED BY <3>2 DEF Atomic!WholeLines
  <2>3. FileStep
    BY <1>2, <2>1, EveryStep
  <2>4. UNCHANGED HistoryText \/ Atomic!Create \/ \E s \in Shell : Atomic!Replace(s) \/ Atomic!Extend(s)
    BY <2>3 DEF FileStep, Atomic!Create, Atomic!Replace, Atomic!Extend
  <2> QED BY <2>2, <2>4 DEF Atomic!Next
<1> QED BY <1>1, <1>2

\* Between the system calls of any number of shells, whichever fail and whichever
\* shell is killed: the history file goes from one whole list to another, and what
\* is read are lines that were entered - until a write falls short, or two shells
\* whose process ids are equal modulo 100000 write the copy of that name at once.
THEOREM ImplementsAtomic == Spec => ImplementsAtomicFile
<1>1. Inv /\ Inv' /\ [Next]_vars => [Atomic!Next]_<<HistoryText, list>>
  BY StepIsAtomic
<1>2. Spec => []Inv
  BY Invariance
<1> QED BY <1>1, <1>2, PTL DEF Spec, ImplementsAtomicFile, Atomic!Spec
=============================================================================
