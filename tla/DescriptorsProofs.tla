-------------------------- MODULE DescriptorsProofs --------------------------
(* Proofs about Descriptors, for any number of descriptors, stages, programs   *)
(* and pipelines.  That the shell gets its descriptors back is an argument     *)
(* about the shell alone; that a pipe belongs to the two stages it is between  *)
(* is one about who inherits what: a stage is forked with all the shell has    *)
(* open then, and its own ends are the last that the shell opened.             *)
EXTENDS Descriptors, FiniteSetTheorems, WellFoundedInduction, TLAPS

-----------------------------------------------------------------------------
(* The shell.                                                                  *)
Beyond == 3..OPEN_MAX - 1     \* not standard input, output or error
Looping == pc \in {"pipe", "fork"}

\* What the shell has open besides the first three, while nothing has failed.
Held ==
  CASE pc = "prompt" -> {}
    [] pc = "pipe" -> {error_pipe.read, error_pipe.write, prev_fd}
    [] pc = "fork" -> {error_pipe.read, error_pipe.write, prev_fd, pipefd.read, pipefd.write}
    [] pc = "wait" -> {error_pipe.read, error_pipe.write}
    [] OTHER -> {error_pipe.read}

ErrorPipe ==
  /\ error_pipe.read \in Beyond
  /\ fds[error_pipe.read].kind = "read" /\ fds[error_pipe.read].of \in 1..Len(content)
  /\ pc # "drain" =>
       /\ error_pipe.write \in Beyond /\ error_pipe.write # error_pipe.read
       /\ fds[error_pipe.write] = WriteEnd(fds[error_pipe.read].of)

Loop ==
  /\ cmd \in 1..stages
  /\ prev_fd # None =>
       /\ prev_fd \in Beyond /\ fds[prev_fd] # Closed
       /\ prev_fd \notin {error_pipe.read, error_pipe.write}
  /\ pc = "fork" =>
       /\ cmd < stages
       /\ pipefd.read \in Beyond /\ pipefd.write \in Beyond /\ pipefd.read # pipefd.write
       /\ fds[pipefd.read] # Closed
       /\ {pipefd.read, pipefd.write} \cap {error_pipe.read, error_pipe.write, prev_fd} = {}

Shell ==
  /\ \A n \in 0..2 : fds[n] = Terminal
  /\ pc # "prompt" => ErrorPipe
  /\ Looping => Loop
  /\ ~failed => \A n \in Beyond : fds[n] # Closed => n \in Held
  /\ \A c \in DOMAIN child :
       child[c].at = "forked" /\ ~child[c].last =>
         child[c].pipe.read \in Beyond /\ child[c].pipe.write \in Beyond

Inv1 == TypeOK /\ Shell

-----------------------------------------------------------------------------
(* The pipes.                                                                  *)
IsEnd(e) == e.kind \in {"read", "write"}
Numbered ==
  /\ \A n \in Number : IsEnd(fds[n]) => fds[n].of \in 1..Len(content)
  /\ \A c \in DOMAIN child, n \in Number :
       IsEnd(child[c].fds[n]) => child[c].fds[n].of \in 1..Len(content)

\* Child c may read pipe p; it may write pipe q, which itself it holds for reading
\* until it has closed what it inherited.
Reader(c, p) == c >= 2 /\ Holders(WriteEnd(p)) \subseteq {c - 1}
Writer(c, q, self) ==
  ~failed =>
    /\ Holders(ReadEnd(q)) \subseteq {0, c + 1} \cup self
    /\ 0 \in Holders(ReadEnd(q)) =>
         Looping /\ prev_fd # None /\ fds[prev_fd] = ReadEnd(q) /\ c = Len(child)

\* The read end of the pipe before the next stage, and the pipe behind it.
Before ==
  Looping /\ prev_fd # None =>
    \E p \in 1..Len(content) :
      /\ fds[prev_fd] = ReadEnd(p) /\ Len(child) >= 1
      /\ \A n \in Number : fds[n] = ReadEnd(p) => n = prev_fd
      /\ Holders(WriteEnd(p)) \subseteq {Len(child)}
      /\ ~failed => Holders(ReadEnd(p)) \subseteq {0, Len(child)}
Behind ==
  pc = "fork" =>
    \E q \in 1..Len(content) :
      /\ fds[pipefd.read] = ReadEnd(q) /\ fds[pipefd.write] = WriteEnd(q)
      /\ \A n \in Number : fds[n] = ReadEnd(q) => n = pipefd.read
      /\ \A n \in Number : fds[n] = WriteEnd(q) => n = pipefd.write
      /\ Holders(ReadEnd(q)) \subseteq {0} /\ Holders(WriteEnd(q)) \subseteq {0}

\* What else a stage has of pipes is the error pipe.
Joins(k) == {k.input} \cup IF k.last THEN {} ELSE {k.pipe.read, k.pipe.write}
Inherits(k) ==
  /\ k.errors \in Beyond \ Joins(k)
  /\ \A n \in Beyond \ Joins(k) : IsEnd(k.fds[n]) => k.fds[n].of = k.fds[k.errors].of

Forked(c) ==
  LET k == child[c] IN
  /\ \A n \in 0..2 : k.fds[n] = Terminal
  /\ k.input # None =>
       /\ k.input \in Beyond
       /\ \E p \in 1..Len(content) : k.fds[k.input] = ReadEnd(p) /\ Reader(c, p)
  /\ ~k.last =>
       \E q \in 1..Len(content) :
         /\ k.fds[k.pipe.read] = ReadEnd(q) /\ k.fds[k.pipe.write] = WriteEnd(q)
         /\ \A n \in Number : k.fds[n] = ReadEnd(q) => n = k.pipe.read
         /\ Writer(c, q, {c})
  /\ ~failed => Inherits(k)

\* A stage that has duplicated what it inherited has the error pipe instead, or, after a
\* failure, anything there was.
Started(c) ==
  \A n \in 0..2 :
    LET e == child[c].fds[n] IN
    /\ e.kind = "read" => Reader(c, e.of) \/ (child[c].far /\ (failed \/ e.of = Own(c)))
    /\ e.kind = "write" => Writer(c, e.of, {}) \/ (child[c].far /\ e.of = Own(c))

Stage(c) ==
  /\ child[c].at = "forked" => Forked(c)
  /\ child[c].at \in {"runs", "complains"} => Started(c)

Pipes == Numbered /\ Before /\ Behind /\ \A c \in DOMAIN child : Stage(c)

Inv2 == Inv1 /\ Pipes

-----------------------------------------------------------------------------
(* Natural numbers.                                                            *)
LEMMA LeastNatural ==
  ASSUME NEW T, T \subseteq Nat, T # {}
  PROVE  \E x \in T : \A y \in T : x <= y
<1> DEFINE R == OpToRel(<, Nat)
<1>1. IsWellFoundedOn(R, Nat)
  BY NatLessThanWellFounded
<1>2. PICK x \in T : \A y \in T : <<y, x>> \notin R
  <2> HIDE DEF R
  <2> QED BY <1>1, WFMin
<1>3. \A y \in T : ~ (y < x)
  BY <1>2 DEF OpToRel
<1>4. x \in Nat /\ \A y \in T : y \in Nat
  BY <1>2
<1> HIDE DEF R
<1> QED BY <1>3, <1>4

LEMMA SetInduction ==
  ASSUME NEW S, NEW N \in Nat, 0 \in S, \A n \in 1..N : n - 1 \in S => n \in S
  PROVE  \A n \in 0..N : n \in S
<1> DEFINE T == {n \in 0..N : n \notin S}
<1> SUFFICES ASSUME T # {} PROVE FALSE
  OBVIOUS
<1>0. T \subseteq Nat
  OBVIOUS
<1>1. PICK x \in T : \A y \in T : x <= y
  <2> HIDE DEF T
  <2> QED BY <1>0, LeastNatural
<1>2. x \in 1..N /\ x - 1 \in 0..N /\ x - 1 < x
  BY <1>1
<1>3. x - 1 \in S
  BY <1>1, <1>2
<1> QED BY <1>1, <1>2, <1>3

-----------------------------------------------------------------------------
(* Where a pipe goes.                                                          *)
LEMMA NumberIsFinite == Number \subseteq Nat /\ IsFiniteSet(Number)
BY FS_Interval, SizeAssumption DEF Number

LEMMA LeastIsIn ==
  ASSUME NEW S, S \subseteq Nat, S # {}
  PROVE  Min(S) \in S
BY LeastNatural DEF Min

LEMMA TwoUnused ==
  ASSUME NEW t, ~ (Cardinality(Unused(t)) < 2)
  PROVE  /\ Lowest(t) \in Unused(t) /\ Second(t) \in Unused(t)
         /\ Lowest(t) # Second(t)
<1>1. Unused(t) \subseteq Nat /\ IsFiniteSet(Unused(t))
  BY NumberIsFinite, FS_Subset DEF Unused
<1>2. Cardinality(Unused(t)) \in Nat
  BY <1>1, FS_CardinalityType
<1>3. Unused(t) # {}
  BY <1>2, FS_EmptySet
<1>4. Lowest(t) \in Unused(t)
  BY <1>1, <1>3, LeastIsIn DEF Lowest
<1> DEFINE rest == Unused(t) \ {Lowest(t)}
<1>5. Cardinality(rest) = Cardinality(Unused(t)) - 1
  BY <1>1, <1>4, FS_RemoveElement
<1>6. rest # {}
  BY <1>2, <1>5, FS_EmptySet
<1>7. Second(t) \in rest
  BY <1>1, <1>6, LeastIsIn DEF Second
<1> QED BY <1>4, <1>7

-----------------------------------------------------------------------------
(* Redirections, one after the other.                                          *)
LEMMA RedirectedExists ==
  ASSUME NEW t, NEW rs \in Seq(Redirect)
  PROVE  \E f : f = [n \in 0..Len(rs) |-> IF n = 0 THEN t ELSE handle_one(f[n - 1], rs[n])]
<1> DEFINE G(f, k) == f = [n \in 0..k |-> IF n = 0 THEN t ELSE handle_one(f[n - 1], rs[n])]
           S == {k \in Nat : \E f : G(f, k)}
<1>1. Len(rs) \in Nat
  OBVIOUS
<1>2. 0 \in S
  <2> DEFINE f == [n \in 0..0 |-> t]
  <2>1. G(f, 0)
    OBVIOUS
  <2> QED BY <2>1
<1>3. ASSUME NEW k \in 1..Len(rs), k - 1 \in S PROVE k \in S
  <2>1. PICK f : G(f, k - 1)
    BY <1>3
  <2> DEFINE g == [n \in 0..k |-> IF n = k THEN handle_one(f[k - 1], rs[k]) ELSE f[n]]
  <2>2. ASSUME NEW n \in 0..k
        PROVE  g[n] = IF n = 0 THEN t ELSE handle_one(g[n - 1], rs[n])
    <3>1. CASE n = k
      BY <1>1, <3>1
    <3>2. CASE n # k
      <4>1. n \in 0..k - 1 /\ g[n] = f[n]
        BY <1>1, <3>2
      <4>2. f[n] = IF n = 0 THEN t ELSE handle_one(f[n - 1], rs[n])
        BY <2>1, <4>1
      <4>3. n # 0 => n - 1 \in 0..k /\ n - 1 # k
        BY <1>1, <4>1
      <4>4. n # 0 => g[n - 1] = f[n - 1]
        BY <4>3
      <4> QED BY <4>1, <4>2, <4>4
    <3> QED BY <3>1, <3>2
  <2>3. G(g, k)
    <3>1. g = [n \in 0..k |-> g[n]]
      OBVIOUS
    <3> HIDE DEF g
    <3> QED BY <2>2, <3>1
  <2>4. k \in Nat
    BY <1>1
  <2> HIDE DEF G, g
  <2> QED BY <2>3, <2>4
<1> HIDE DEF G
<1>4. \A n \in 0..Len(rs) : n \in S
  <2> HIDE DEF S
  <2> QED BY <1>1, <1>2, <1>3, SetInduction
<1>5. Len(rs) \in 0..Len(rs)
  BY <1>1
<1>6. \E f : G(f, Len(rs))
  BY <1>4, <1>5
<1> QED BY <1>6 DEF G

LEMMA RedirectedSteps ==
  ASSUME NEW t, NEW rs \in Seq(Redirect)
  PROVE  /\ Redirected(t, rs)[0] = t
         /\ \A n \in 1..Len(rs) :
              Redirected(t, rs)[n] = handle_one(Redirected(t, rs)[n - 1], rs[n])
<1> DEFINE G(f) == f = [n \in 0..Len(rs) |-> IF n = 0 THEN t ELSE handle_one(f[n - 1], rs[n])]
           after == CHOOSE f : G(f)
<1>1. after = Redirected(t, rs)
  BY DEF Redirected
<1>2. G(after)
  BY RedirectedExists
<1>3. Len(rs) \in Nat
  OBVIOUS
<1> HIDE DEF after
<1>4. after[0] = t
  BY <1>2, <1>3
<1>5. \A n \in 1..Len(rs) : after[n] = handle_one(after[n - 1], rs[n])
  BY <1>2, <1>3
<1> QED BY <1>1, <1>4, <1>5
-----------------------------------------------------------------------------
(* Tables.                                                                     *)
LEMMA Closing ==
  ASSUME NEW t \in Table, NEW ns
  PROVE  /\ Close(t, ns) \in Table
         /\ \A n \in Number : Close(t, ns)[n] = IF n \in ns THEN Closed ELSE t[n]
BY DEF Close, Table

LEMMA Duplicating ==
  ASSUME NEW t \in Table, NEW from \in Number, NEW to \in Number
  PROVE  /\ Dup2(t, from, to) \in Table
         /\ \A n \in Number : Dup2(t, from, to)[n] = IF n = to THEN t[from] ELSE t[n]
BY DEF Dup2, Table

LEMMA Standard == 0 \in Number /\ 1 \in Number /\ 2 \in Number /\ 0..2 \subseteq Number
                  /\ Beyond \subseteq Number /\ Number \subseteq Nat
                  /\ (\A n \in Number : n \in Beyond \/ n \in 0..2)
                  /\ (\A n \in Beyond : n \notin 0..2) /\ None \notin Number
BY SizeAssumption DEF Number, Beyond, None

\* What a redirection does to a table, if it can succeed.
LEMMA OneRedirection ==
  ASSUME NEW t \in Table, NEW r \in Redirect, Possible(t, r)
  PROVE  handle_one(t, r) \in Table
<1>1. CASE Opens(r)
  <2>1. [kind |-> "file", of |-> r.target] \in Open
    BY DEF Open, Redirect
  <2> QED BY <1>1, <2>1, Standard DEF handle_one, Table, STDIN_FILENO, STDOUT_FILENO
<1>2. CASE ~Opens(r)
  <2>1. r.fd \in Number
    BY Standard DEF Redirect, STDIN_FILENO, STDOUT_FILENO
  <2> QED BY <1>2, <2>1, Duplicating DEF handle_one, Possible
<1> QED BY <1>1, <1>2

LEMMA RedirectedType ==
  ASSUME NEW t \in Table, NEW rs \in Redirects, NEW k \in 0..Len(rs), Passes(t, rs, k)
  PROVE  Redirected(t, rs)[k] \in Table
<1> DEFINE after == Redirected(t, rs)
           S == {n \in 0..k : after[n] \in Table}
<1>1. rs \in Seq(Redirect) /\ Len(rs) \in Nat /\ DOMAIN rs = 1..Len(rs) /\ k \in Nat
  BY RedirectAssumption
<1>2. after[0] = t /\ \A n \in 1..Len(rs) : after[n] = handle_one(after[n - 1], rs[n])
  BY <1>1, RedirectedSteps
<1>3. \A n \in 1..k : Possible(after[n - 1], rs[n])
  BY DEF Passes
<1>4. 0 \in S
  <2> HIDE DEF after
  <2> QED BY <1>1, <1>2
<1>5. ASSUME NEW n \in 1..k, n - 1 \in S PROVE n \in S
  <2>1. rs[n] \in Redirect /\ n \in 1..Len(rs)
    BY <1>1
  <2>2. after[n - 1] \in Table
    BY <1>5
  <2>3. after[n] \in Table
    <3> HIDE DEF after
    <3> QED BY <1>2, <1>3, <2>1, <2>2, OneRedirection
  <2> QED BY <2>3, <1>1
<1>6. \A n \in 0..k : n \in S
  <2> HIDE DEF S
  <2> QED BY <1>1, <1>4, <1>5, SetInduction
<1>7. after[k] \in Table
  BY <1>1, <1>6
<1> QED BY <1>7
-----------------------------------------------------------------------------
(* The shell's descriptors, step by step.                                      *)
First == \A n \in 0..2 : fds[n] = Terminal
Open3 == ~failed => \A n \in Beyond : fds[n] # Closed => n \in Held
Ends ==
  \A c \in DOMAIN child :
    child[c].at = "forked" /\ ~child[c].last =>
      child[c].pipe.read \in Beyond /\ child[c].pipe.write \in Beyond

LEMMA ShellParts ==
  Shell <=> First /\ (pc # "prompt" => ErrorPipe) /\ (Looping => Loop) /\ Open3 /\ Ends
BY DEF Shell, First, Open3, Ends

LEMMA ShellNext ==
  ASSUME First', pc' # "prompt" => ErrorPipe', Looping' => Loop', Open3', Ends'
  PROVE  Shell'
BY DEF Shell, First, Open3, Ends

LEMMA EndKinds ==
  ASSUME NEW p \in Nat
  PROVE  /\ ReadEnd(p) \in Open /\ WriteEnd(p) \in Open
         /\ ReadEnd(p) # Closed /\ WriteEnd(p) # Closed
         /\ ReadEnd(p).kind = "read" /\ ReadEnd(p).of = p
         /\ WriteEnd(p).kind = "write" /\ WriteEnd(p).of = p
         /\ ReadEnd(p) # Terminal /\ WriteEnd(p) # Terminal /\ Terminal # Closed
         /\ Terminal \in Open
BY DEF Open, ReadEnd, WriteEnd, Closed, Terminal

LEMMA InitialShell == Init => Inv1
<1> SUFFICES ASSUME Init PROVE Inv1
  OBVIOUS
<1>1. Terminal \in Open /\ Terminal # Closed
  BY EndKinds
<1>2. fds \in Table
  BY <1>1 DEF Init, Table
<1>3. TypeOK
  <2>1. NoPair \in Pair
    BY DEF NoPair, Pair
  <2>2. child \in Seq(Child) /\ content \in Seq(0..Capacity)
    BY DEF Init
  <2>3. 0 \in 0..MaxStages /\ 0 \in 0..MaxForks
    BY SizeAssumption
  <2>4. error_pipe \in Pair /\ pipefd \in Pair
    BY <2>1 DEF Init
  <2>5. /\ pc = "prompt" /\ prev_fd = None /\ failed \in BOOLEAN
        /\ cmd = 0 /\ stages = 0 /\ asked = 0 /\ complaints = 0 /\ shown = 0 /\ taken = 0
    BY DEF Init
  <2> QED BY <1>2, <2>2, <2>3, <2>4, <2>5 DEF TypeOK
<1>4. First /\ Open3
  BY Standard DEF Init, First, Open3, Beyond, Number
<1>5. Ends
  BY DEF Init, Ends
<1>6. pc = "prompt" /\ ~Looping
  BY DEF Init, Looping
<1> QED BY <1>3, <1>4, <1>5, <1>6, ShellParts DEF Inv1

\* A new pipe takes two of the shell's unused descriptors.
NewPipe(low, high, p) ==
  /\ low \in Beyond /\ high \in Beyond /\ low # high
  /\ fds[low] = Closed /\ fds[high] = Closed
  /\ p = Len(content) + 1 /\ p \in Nat
  /\ fds' = [fds EXCEPT ![low] = ReadEnd(p), ![high] = WriteEnd(p)]
  /\ content' = Append(content, 0)

LEMMA PipeMade ==
  ASSUME Inv1, ~PipeFails,
         LET p == Len(content) + 1
         IN /\ fds' = [fds EXCEPT ![Lowest(fds)] = ReadEnd(p), ![Second(fds)] = WriteEnd(p)]
            /\ content' = Append(content, 0)
  PROVE  NewPipe(Lowest(fds), Second(fds), Len(content) + 1)
<1>1. /\ Lowest(fds) \in Unused(fds) /\ Second(fds) \in Unused(fds)
      /\ Lowest(fds) # Second(fds)
  BY TwoUnused DEF PipeFails
<1>2. \A n \in Unused(fds) : n \in Number /\ fds[n] = Closed
  BY DEF Unused
<1>3. \A n \in Unused(fds) : n \in Beyond
  BY <1>2, Standard, EndKinds DEF Inv1, Shell
<1>4. Len(content) + 1 \in Nat
  BY DEF Inv1, TypeOK
<1> QED BY <1>1, <1>2, <1>3, <1>4 DEF NewPipe

LEMMA AfterPipe ==
  ASSUME Inv1, NEW low, NEW high, NEW p, NewPipe(low, high, p)
  PROVE  /\ fds' \in Table /\ content' \in Seq(0..Capacity)
         /\ Len(content') = Len(content) + 1
         /\ \A n \in Number :
              fds'[n] = IF n = low THEN ReadEnd(p) ELSE IF n = high THEN WriteEnd(p) ELSE fds[n]
         /\ First'
<1>1. low \in Number /\ high \in Number /\ low # high
  BY Standard DEF NewPipe
<1>2. ReadEnd(p) \in Open /\ WriteEnd(p) \in Open
  BY EndKinds DEF NewPipe
<1>3. fds \in Table /\ content \in Seq(0..Capacity)
  BY DEF Inv1, TypeOK
<1>4. fds' \in Table
  BY <1>1, <1>2, <1>3 DEF NewPipe, Table
<1>5. \A n \in Number :
        fds'[n] = IF n = low THEN ReadEnd(p) ELSE IF n = high THEN WriteEnd(p) ELSE fds[n]
  BY <1>1, <1>3 DEF NewPipe, Table
<1>6. content' \in Seq(0..Capacity) /\ Len(content') = Len(content) + 1
  BY <1>3, SizeAssumption DEF NewPipe
<1>7. First'
  BY <1>5, Standard DEF First, NewPipe, Inv1, Shell
<1> QED BY <1>4, <1>5, <1>6, <1>7

LEMMA GivingUp == Inv1 /\ Looping /\ GiveUp => Inv1'
<1> SUFFICES ASSUME Inv1, Looping, GiveUp PROVE Inv1'
  OBVIOUS
<1> USE DEF GiveUp, Return, local
<1>1. fds' \in Table
  BY Closing DEF Inv1, TypeOK
<1>2. TypeOK'
  BY <1>1 DEF Inv1, TypeOK
<1>3. pc' = "prompt" /\ failed' /\ ~Looping'
  BY DEF Looping
<1>4. Ends'
  BY ShellParts DEF Inv1, Ends
<1>5. First'
  <2>1. error_pipe.read \in Beyond /\ error_pipe.write \in Beyond
    BY DEF Inv1, Shell, Looping, ErrorPipe
  <2>2. \A n \in Number :
          fds'[n] = IF n \in {error_pipe.read, error_pipe.write} THEN Closed ELSE fds[n]
    BY Closing DEF Inv1, TypeOK
  <2> QED BY <2>1, <2>2, Standard DEF First, Inv1, Shell
<1>6. Open3'
  BY <1>3 DEF Open3
<1> QED BY <1>2, <1>3, <1>4, <1>5, <1>6, ShellNext DEF Inv1

LEMMA BeginShell == ASSUME NEW n \in 2..MaxStages PROVE Inv1 /\ Begin(n) => Inv1'
<1> SUFFICES ASSUME Inv1, Begin(n) PROVE Inv1'
  OBVIOUS
<1>1. pc = "prompt" /\ cmd' = 1 /\ stages' = n /\ prev_fd' = None /\ UNCHANGED child
  BY DEF Begin
<1>2. Ends'
  BY <1>1, ShellParts DEF Inv1, Ends
<1>3. /\ cmd' \in 0..MaxStages /\ stages' \in 0..MaxStages /\ prev_fd' \in Number \cup {None}
      /\ pipefd' \in Pair /\ asked' \in 0..MaxForks /\ {complaints', shown', taken'} \subseteq Nat
      /\ child' \in Seq(Child)
  BY SizeAssumption DEF Begin, Inv1, TypeOK, Pair, NoPair
<1>4. CASE failed' = TRUE /\ error_pipe' = NoPair /\ UNCHANGED <<fds, content, pc>>
  <2>1. TypeOK'
    BY <1>3, <1>4 DEF Inv1, TypeOK, Pair, NoPair
  <2>2. First' /\ Open3' /\ pc' = "prompt" /\ ~Looping'
    BY <1>1, <1>4, ShellParts DEF Inv1, First, Open3, Looping
  <2> QED BY <1>2, <2>1, <2>2, ShellNext DEF Inv1
<1>5. CASE /\ ~PipeFails
           /\ LET p == Len(content) + 1
              IN /\ fds' = [fds EXCEPT ![Lowest(fds)] = ReadEnd(p), ![Second(fds)] = WriteEnd(p)]
                 /\ error_pipe' = [read |-> Lowest(fds), write |-> Second(fds)]
                 /\ content' = Append(content, 0)
           /\ pc' = "pipe" /\ UNCHANGED failed
  <2> DEFINE low == Lowest(fds)
             high == Second(fds)
             p == Len(content) + 1
  <2>1. NewPipe(low, high, p)
    BY <1>5, PipeMade
  <2>2. error_pipe' = [read |-> low, write |-> high]
    BY <1>5
  <2> HIDE DEF low, high, p
  <2>3. /\ fds' \in Table /\ content' \in Seq(0..Capacity) /\ Len(content') = Len(content) + 1
        /\ \A m \in Number :
             fds'[m] = IF m = low THEN ReadEnd(p) ELSE IF m = high THEN WriteEnd(p) ELSE fds[m]
        /\ First'
    BY <2>1, AfterPipe
  <2>4. low \in Beyond /\ high \in Beyond /\ low # high /\ p \in Nat /\ p = Len(content) + 1
    BY <2>1 DEF NewPipe
  <2>5. low \in Number /\ high \in Number
    BY <2>4, Standard
  <2>6. TypeOK'
    <3>1. error_pipe' \in Pair
      BY <2>2, <2>5 DEF Pair
    <3> QED BY <1>3, <1>5, <2>3, <3>1 DEF Inv1, TypeOK
  <2>7. ErrorPipe'
    <3>1. error_pipe.read' = low /\ error_pipe.write' = high
      BY <2>2
    <3>2. fds'[low] = ReadEnd(p) /\ fds'[high] = WriteEnd(p)
      BY <2>3, <2>4, <2>5
    <3>3. p \in 1..Len(content')
      BY <2>3, <2>4
    <3> QED BY <3>1, <3>2, <3>3, <2>4, EndKinds DEF ErrorPipe
  <2>8. Loop'
    BY <1>1, <1>5 DEF Loop, None
  <2>9. Open3'
    <3>1. ~failed => \A m \in Beyond : fds[m] = Closed
      BY <1>1, ShellParts DEF Inv1, Open3, Held
    <3>2. Held' = {low, high, None}
      BY <1>1, <1>5, <2>2 DEF Held
    <3> QED BY <1>5, <2>3, <3>1, <3>2, Standard DEF Open3
  <2> QED BY <1>2, <2>3, <2>6, <2>7, <2>8, <2>9, ShellNext DEF Inv1
<1> QED BY <1>4, <1>5 DEF Begin

LEMMA MakePipeShell == Inv1 /\ MakePipe => Inv1'
<1> SUFFICES ASSUME Inv1, MakePipe PROVE Inv1'
  OBVIOUS
<1>1. pc = "pipe" /\ Looping /\ cmd < stages
  BY DEF MakePipe, Looping
<1>2. CASE GiveUp
  BY <1>1, <1>2, GivingUp
<1>3. CASE /\ ~PipeFails
           /\ LET p == Len(content) + 1
              IN /\ fds' = [fds EXCEPT ![Lowest(fds)] = ReadEnd(p), ![Second(fds)] = WriteEnd(p)]
                 /\ pipefd' = [read |-> Lowest(fds), write |-> Second(fds)]
                 /\ content' = Append(content, 0)
           /\ pc' = "fork"
           /\ UNCHANGED <<cmd, stages, error_pipe, prev_fd, child, asked, told>>
  <2> DEFINE low == Lowest(fds)
             high == Second(fds)
             p == Len(content) + 1
  <2>1. NewPipe(low, high, p)
    BY <1>3, PipeMade
  <2>2. pipefd' = [read |-> low, write |-> high]
    BY <1>3
  <2> HIDE DEF low, high, p
  <2>3. /\ fds' \in Table /\ content' \in Seq(0..Capacity) /\ Len(content') = Len(content) + 1
        /\ \A m \in Number :
             fds'[m] = IF m = low THEN ReadEnd(p) ELSE IF m = high THEN WriteEnd(p) ELSE fds[m]
        /\ First'
    BY <2>1, AfterPipe
  <2>4. /\ low \in Beyond /\ high \in Beyond /\ low # high /\ p \in Nat /\ p = Len(content) + 1
        /\ fds[low] = Closed /\ fds[high] = Closed
    BY <2>1 DEF NewPipe
  <2>5. low \in Number /\ high \in Number /\ ReadEnd(p) # Closed /\ WriteEnd(p) # Closed
    BY <2>4, Standard, EndKinds
  <2>6. TypeOK'
    <3>1. pipefd' \in Pair
      BY <2>2, <2>5 DEF Pair
    <3> QED BY <1>3, <2>3, <3>1 DEF Inv1, TypeOK, told
  <2>7. /\ ErrorPipe /\ error_pipe.write \in Beyond /\ error_pipe.write # error_pipe.read
        /\ fds[error_pipe.write] # Closed /\ error_pipe.read \in Beyond
        /\ fds[error_pipe.read].kind = "read" /\ fds[error_pipe.read] # Closed
    BY <1>1 DEF Inv1, Shell, ErrorPipe, Closed, WriteEnd
  <2>8. ErrorPipe'
    <3>1. error_pipe.read \in Number /\ error_pipe.write \in Number
      BY <2>7, Standard
    <3>2. fds'[error_pipe.read] = fds[error_pipe.read]
      BY <2>3, <2>4, <2>7, <3>1
    <3>3. fds'[error_pipe.write] = fds[error_pipe.write]
      BY <2>3, <2>4, <2>7, <3>1
    <3>4. Len(content) \in Nat
      BY DEF Inv1, TypeOK
    <3> QED BY <1>1, <1>3, <2>3, <2>7, <3>2, <3>3, <3>4 DEF ErrorPipe
  <2>9. Loop'
    <3>1. Loop
      BY <1>1 DEF Inv1, Shell
    <3>2. pipefd'.read = low /\ pipefd'.write = high /\ UNCHANGED <<prev_fd, error_pipe, cmd, stages>>
      BY <1>3, <2>2
    <3>3. prev_fd # None => fds[prev_fd] # Closed /\ fds'[prev_fd] # Closed /\ prev_fd \in Beyond
      BY <2>3, <2>5, <3>1, Standard DEF Loop
    <3>4. {low, high} \cap {error_pipe.read, error_pipe.write, prev_fd} = {}
      BY <2>4, <2>7, <3>3, Standard
    <3>5. fds'[low] # Closed
      BY <2>3, <2>5
    <3> QED BY <1>1, <1>3, <2>4, <3>1, <3>2, <3>3, <3>4, <3>5 DEF Loop
  <2>10. Open3'
    <3>1. ~failed => \A m \in Beyond : fds[m] # Closed => m \in Held
      BY ShellParts DEF Inv1, Open3
    <3>2. Held = {error_pipe.read, error_pipe.write, prev_fd}
      BY <1>1 DEF Held
    <3>3. Held' = {error_pipe.read, error_pipe.write, prev_fd, low, high}
      BY <1>3, <2>2 DEF Held
    <3> QED BY <1>3, <2>3, <3>1, <3>2, <3>3, Standard DEF Open3, told
  <2>11. Ends'
    BY <1>3, ShellParts DEF Inv1, Ends
  <2> QED BY <2>3, <2>6, <2>8, <2>9, <2>10, <2>11, ShellNext DEF Inv1
<1> QED BY <1>2, <1>3 DEF MakePipe

\* What a new child is.
LEMMA NewChildType ==
  ASSUME Inv1, Looping, NEW w \in Writes
  PROVE  /\ NewChild(cmd, w) \in Child
         /\ child' = Append(child, NewChild(cmd, w)) =>
              /\ child' \in Seq(Child)
              /\ Len(child') = Len(child) + 1 /\ DOMAIN child' = 1..Len(child) + 1
              /\ DOMAIN child = 1..Len(child) /\ Len(child) \in Nat
              /\ \A c \in DOMAIN child : child'[c] = child[c]
              /\ child'[Len(child) + 1] = NewChild(cmd, w)
<1>1. NewChild(cmd, w) \in Child
  <2>1. cmd \in 1..MaxStages
    BY SizeAssumption DEF Inv1, Shell, Loop, TypeOK
  <2>2. error_pipe.write \in Number
    BY Standard DEF Inv1, Shell, ErrorPipe, Looping
  <2>3. fds \in Table /\ pipefd \in Pair /\ prev_fd \in Number \cup {None}
    BY DEF Inv1, TypeOK
  <2>4. w \in Nat
    BY SizeAssumption
  <2> QED BY <2>1, <2>2, <2>3, <2>4 DEF NewChild, Child
<1> DEFINE k == NewChild(cmd, w)
<1>2. child \in Seq(Child)
  BY DEF Inv1, TypeOK
<1> HIDE DEF k
<1> QED BY <1>1, <1>2

LEMMA ForkedEnds ==
  ASSUME Inv1, Looping, pc = "fork" \/ cmd = stages,
         NEW w \in Writes, child' = Append(child, NewChild(cmd, w))
  PROVE  Ends'
<1>1. /\ DOMAIN child' = 1..Len(child) + 1
      /\ DOMAIN child = 1..Len(child) /\ Len(child) \in Nat
      /\ \A c \in DOMAIN child : child'[c] = child[c]
      /\ child'[Len(child) + 1] = NewChild(cmd, w)
  BY NewChildType
<1>2. SUFFICES ASSUME NEW c \in DOMAIN child', child'[c].at = "forked", ~child'[c].last
               PROVE  child'[c].pipe.read \in Beyond /\ child'[c].pipe.write \in Beyond
  BY DEF Ends
<1>3. CASE c \in DOMAIN child
  BY <1>1, <1>2, <1>3, ShellParts DEF Inv1, Ends
<1>4. CASE c = Len(child) + 1
  <2>1. child'[c].last = (cmd = stages) /\ child'[c].pipe = pipefd
    BY <1>1, <1>4 DEF NewChild
  <2>2. pc = "fork"
    BY <1>2, <2>1
  <2> QED BY <2>1, <2>2 DEF Inv1, Shell, Loop, Looping
<1> QED BY <1>1, <1>3, <1>4

LEMMA ForkStageShell == Inv1 /\ ForkStage => Inv1'
<1> SUFFICES ASSUME Inv1, ForkStage PROVE Inv1'
  OBVIOUS
<1>1. pc = "fork" /\ Looping
  BY DEF ForkStage, Looping
<1>2. CASE GiveUp
  BY <1>1, <1>2, GivingUp
<1>3. ASSUME NEW w \in Writes,
             /\ child' = Append(child, NewChild(cmd, w))
             /\ fds' = Close(fds, {pipefd.write, prev_fd})
             /\ prev_fd' = pipefd.read
             /\ cmd' = cmd + 1
             /\ pc' = "pipe"
             /\ UNCHANGED <<stages, error_pipe, pipefd, content, asked, told>>
      PROVE  Inv1'
  <2>1. Loop /\ ErrorPipe
    BY <1>1 DEF Inv1, Shell
  <2>2. fds' \in Table /\ \A n \in Number :
                            fds'[n] = IF n \in {pipefd.write, prev_fd} THEN Closed ELSE fds[n]
    BY <1>3, Closing DEF Inv1, TypeOK
  <2>3. pipefd.read \in Beyond /\ pipefd.write \in Beyond /\ (prev_fd # None => prev_fd \in Beyond)
    BY <1>1, <2>1 DEF Loop
  <2>4. TypeOK'
    <3>1. cmd + 1 \in 0..MaxStages
      BY <1>1, <2>1, SizeAssumption DEF Loop, Inv1, TypeOK
    <3> QED BY <1>1, <1>3, <2>2, <2>3, <3>1, NewChildType, Standard DEF Inv1, TypeOK, told
  <2>5. First'
    BY <2>2, <2>3, Standard DEF First, Inv1, Shell
  <2>6. ErrorPipe'
    <3>1. /\ error_pipe.read \in Number /\ error_pipe.write \in Number
          /\ error_pipe.read \notin {pipefd.write, prev_fd}
          /\ error_pipe.write \notin {pipefd.write, prev_fd}
      BY <1>1, <2>1, Standard DEF Loop, ErrorPipe
    <3>2. fds'[error_pipe.read] = fds[error_pipe.read] /\ fds'[error_pipe.write] = fds[error_pipe.write]
      BY <2>2, <3>1
    <3> QED BY <1>1, <1>3, <2>1, <3>2 DEF ErrorPipe
  <2>7. Loop'
    <3>1. cmd' \in 1..stages'
      BY <1>1, <1>3, <2>1 DEF Loop, Inv1, TypeOK
    <3>2. /\ pipefd.read \in Number /\ fds[pipefd.read] # Closed
          /\ pipefd.read \notin {pipefd.write, prev_fd}
          /\ pipefd.read \notin {error_pipe.read, error_pipe.write}
      BY <1>1, <2>1, Standard DEF Loop
    <3>3. fds'[pipefd.read] # Closed
      BY <2>2, <3>2
    <3> QED BY <1>3, <2>3, <3>1, <3>2, <3>3 DEF Loop
  <2>8. Open3'
    <3>1. ~failed => \A m \in Beyond : fds[m] # Closed => m \in Held
      BY ShellParts DEF Inv1, Open3
    <3>2. Held = {error_pipe.read, error_pipe.write, prev_fd, pipefd.read, pipefd.write}
      BY <1>1 DEF Held
    <3>3. Held' = {error_pipe.read, error_pipe.write, pipefd.read}
      BY <1>3 DEF Held
    <3> QED BY <1>3, <2>2, <3>1, <3>2, <3>3, Standard DEF Open3, told
  <2>9. Ends'
    BY <1>1, <1>3, ForkedEnds
  <2> QED BY <2>4, <2>5, <2>6, <2>7, <2>8, <2>9, ShellNext DEF Inv1
<1> QED BY <1>2, <1>3 DEF ForkStage

LEMMA ForkLastShell == Inv1 /\ ForkLast => Inv1'
<1> SUFFICES ASSUME Inv1, ForkLast PROVE Inv1'
  OBVIOUS
<1>1. pc = "pipe" /\ Looping /\ cmd = stages
  BY DEF ForkLast, Looping
<1>2. CASE GiveUp
  BY <1>1, <1>2, GivingUp
<1>3. ASSUME NEW w \in Writes,
             /\ child' = Append(child, NewChild(cmd, w))
             /\ fds' = Close(fds, {prev_fd})
             /\ pc' = "wait"
             /\ UNCHANGED <<local, content, asked, told>>
      PROVE  Inv1'
  <2>1. Loop /\ ErrorPipe
    BY <1>1 DEF Inv1, Shell
  <2>2. fds' \in Table /\ \A n \in Number : fds'[n] = IF n = prev_fd THEN Closed ELSE fds[n]
    BY <1>3, Closing DEF Inv1, TypeOK
  <2>3. prev_fd # None => prev_fd \in Beyond
    BY <2>1 DEF Loop
  <2>4. TypeOK'
    BY <1>1, <1>3, <2>2, NewChildType DEF Inv1, TypeOK, told, local
  <2>5. First'
    BY <2>2, <2>3, Standard DEF First, Inv1, Shell
  <2>6. ErrorPipe'
    <3>1. /\ error_pipe.read \in Number /\ error_pipe.write \in Number
          /\ error_pipe.read # prev_fd /\ error_pipe.write # prev_fd
      BY <1>1, <2>1, Standard DEF Loop, ErrorPipe
    <3>2. fds'[error_pipe.read] = fds[error_pipe.read] /\ fds'[error_pipe.write] = fds[error_pipe.write]
      BY <2>2, <3>1
    <3> QED BY <1>1, <1>3, <2>1, <3>2 DEF ErrorPipe, local
  <2>7. Open3'
    <3>1. ~failed => \A m \in Beyond : fds[m] # Closed => m \in Held
      BY ShellParts DEF Inv1, Open3
    <3>2. Held = {error_pipe.read, error_pipe.write, prev_fd}
      BY <1>1 DEF Held
    <3>3. Held' = {error_pipe.read, error_pipe.write}
      BY <1>3 DEF Held, local
    <3> QED BY <1>3, <2>2, <3>1, <3>2, <3>3, Standard DEF Open3, told
  <2>8. Ends'
    BY <1>1, <1>3, ForkedEnds
  <2>9. ~Looping'
    BY <1>3 DEF Looping
  <2> QED BY <2>4, <2>5, <2>6, <2>7, <2>8, <2>9, ShellNext DEF Inv1
<1> QED BY <1>2, <1>3 DEF ForkLast

LEMMA WaitForAllShell == Inv1 /\ WaitForAll => Inv1'
<1> SUFFICES ASSUME Inv1, WaitForAll PROVE Inv1'
  OBVIOUS
<1> USE DEF WaitForAll, local, told
<1>1. ErrorPipe
  BY DEF Inv1, Shell
<1>2. fds' \in Table /\ \A n \in Number :
                          fds'[n] = IF n = error_pipe.write THEN Closed ELSE fds[n]
  BY Closing DEF Inv1, TypeOK
<1>3. error_pipe.read \in Number /\ error_pipe.write \in Beyond /\ error_pipe.read # error_pipe.write
  BY <1>1, Standard DEF ErrorPipe
<1>4. TypeOK'
  BY <1>2 DEF Inv1, TypeOK
<1>5. First'
  BY <1>2, <1>3, Standard DEF First, Inv1, Shell
<1>6. ErrorPipe'
  BY <1>1, <1>2, <1>3 DEF ErrorPipe
<1>7. Open3'
  <2>1. ~failed => \A m \in Beyond : fds[m] # Closed => m \in Held
    BY ShellParts DEF Inv1, Open3
  <2>2. Held = {error_pipe.read, error_pipe.write}
    BY DEF Held
  <2>3. Held' = {error_pipe.read}
    BY DEF Held
  <2> QED BY <1>2, <2>1, <2>2, <2>3, Standard DEF Open3
<1>8. Ends'
  BY DEF Ends
<1>9. ~Looping'
  BY DEF Looping
<1> QED BY <1>4, <1>5, <1>6, <1>7, <1>8, <1>9, ShellNext DEF Inv1

LEMMA DrainShell == Inv1 /\ Drain => Inv1'
<1> SUFFICES ASSUME Inv1, Drain PROVE Inv1'
  OBVIOUS
<1>1. /\ pc = "drain"
      /\ UNCHANGED <<child, failed, complaints, taken, cmd, stages, error_pipe, pipefd, prev_fd, asked>>
  BY DEF Drain, Return, local
<1>2. ErrorPipe
  BY <1>1 DEF Inv1, Shell
<1>3. error_pipe.read \in Beyond /\ fds[error_pipe.read].of \in DOMAIN content
  BY <1>2 DEF ErrorPipe, Inv1, TypeOK
<1>4. Ends'
  BY <1>1, ShellParts DEF Inv1, Ends
<1>5. ~Looping'
  BY <1>1 DEF Looping, Drain, Return
<1> DEFINE p == fds[error_pipe.read].of
<1>6. CASE /\ content' = [content EXCEPT ![p] = 0]
           /\ shown' = shown + content[p]
           /\ UNCHANGED <<fds, pc>>
  <2>1. content' \in Seq(0..Capacity) /\ shown' \in Nat /\ Len(content') = Len(content)
    <3>1. content \in Seq(0..Capacity) /\ p \in DOMAIN content /\ shown \in Nat
      BY <1>3 DEF Inv1, TypeOK
    <3>2. 0 \in 0..Capacity /\ content[p] \in Nat
      BY <3>1, SizeAssumption
    <3> HIDE DEF p
    <3> QED BY <1>6, <3>1, <3>2
  <2>2. TypeOK'
    BY <1>1, <1>6, <2>1 DEF Inv1, TypeOK
  <2>3. First' /\ Open3'
    BY <1>1, <1>6, ShellParts DEF Inv1, First, Open3, Held
  <2>4. ErrorPipe'
    BY <1>1, <1>2, <1>6, <2>1 DEF ErrorPipe
  <2> QED BY <1>4, <1>5, <2>2, <2>3, <2>4, ShellNext DEF Inv1
<1>7. CASE fds' = Close(fds, {error_pipe.read}) /\ pc' = "prompt" /\ UNCHANGED <<content, shown>>
  <2>1. fds' \in Table /\ \A n \in Number :
                            fds'[n] = IF n = error_pipe.read THEN Closed ELSE fds[n]
    BY <1>7, Closing DEF Inv1, TypeOK
  <2>2. TypeOK'
    BY <1>1, <1>7, <2>1 DEF Inv1, TypeOK
  <2>3. First'
    BY <1>3, <2>1, Standard DEF First, Inv1, Shell
  <2>4. Open3'
    <3>1. ~failed => \A m \in Beyond : fds[m] # Closed => m \in Held
      BY ShellParts DEF Inv1, Open3
    <3>2. Held = {error_pipe.read}
      BY <1>1 DEF Held
    <3> QED BY <1>1, <2>1, <3>1, <3>2, Standard DEF Open3
  <2> QED BY <1>4, <1>5, <1>7, <2>2, <2>3, <2>4, ShellNext DEF Inv1
<1> QED BY <1>6, <1>7 DEF Drain, Return

\* A child takes a step: of the shell's state only the pipes' contents and the
\* complaints change, and the child is still one, of the same stage.
LEMMA ChildChanges ==
  ASSUME Inv1, NEW c \in DOMAIN child, NEW k \in Child,
         child' = [child EXCEPT ![c] = k],
         k.at = "forked" => child[c].at = "forked" /\ k.last = child[c].last /\ k.pipe = child[c].pipe,
         content' \in Seq(0..Capacity), Len(content') = Len(content),
         complaints' \in Nat, taken' \in Nat, UNCHANGED <<fds, pc, local, asked, failed, shown>>
  PROVE  Inv1'
<1>1. child \in Seq(Child) /\ child' \in Seq(Child) /\ DOMAIN child' = DOMAIN child
      /\ \A d \in DOMAIN child : child'[d] = IF d = c THEN k ELSE child[d]
  BY DEF Inv1, TypeOK
<1>2. TypeOK'
  BY <1>1 DEF Inv1, TypeOK, local
<1>3. First' /\ Open3'
  BY ShellParts DEF Inv1, First, Open3, Held, local
<1>4. Ends'
  BY <1>1, ShellParts DEF Inv1, Ends
<1>5. (pc' # "prompt" => ErrorPipe') /\ (Looping' => Loop')
  BY DEF Inv1, Shell, ErrorPipe, Loop, Looping, local
<1> QED BY <1>2, <1>3, <1>4, <1>5, ShellNext DEF Inv1

LEMMA EndedChild ==
  ASSUME Inv1, NEW c \in DOMAIN child
  PROVE  \E k \in Child : k.at = "ended" /\ Ended(c) = [child EXCEPT ![c] = k]
                          /\ \A n \in Number : k.fds[n] = Closed
<1> DEFINE k == [child[c] EXCEPT !.at = "ended", !.fds = Close(@, Number), !.writes = 0,
                                 !.errors = 0, !.pipe = NoPair, !.input = None]
<1>0. child \in Seq(Child) /\ child[c] \in Child
  BY DEF Inv1, TypeOK
<1>1. child \in Seq(Child) /\ child[c] \in Child /\ child[c].fds \in Table
  BY <1>0 DEF Child
<1>2. Close(child[c].fds, Number) \in Table
      /\ \A n \in Number : Close(child[c].fds, Number)[n] = Closed
  BY <1>1, Closing
<1>3. NoPair \in Pair
  BY DEF NoPair, Pair
<1>4. k \in Child /\ k.at = "ended" /\ k.fds = Close(child[c].fds, Number)
  BY <1>1, <1>2, <1>3, Standard DEF Child
<1>5. Ended(c) = [child EXCEPT ![c] = k]
  BY <1>1 DEF Ended
<1> HIDE DEF k
<1> QED BY <1>2, <1>4, <1>5

\* What a stage's table is before its redirections.
LEMMA JoinedType ==
  ASSUME Inv1, NEW c \in DOMAIN child, child[c].at = "forked"
  PROVE  Joined(c) \in Table
<1>1. child[c] \in Child
  BY DEF Inv1, TypeOK
<1> DEFINE k == child[c]
           in == IF k.input = None THEN k.fds ELSE Close(Dup2(k.fds, k.input, STDIN_FILENO), {k.input})
<1>2. k.fds \in Table /\ k.input \in Number \cup {None} /\ k.last \in BOOLEAN
  BY <1>1 DEF Child
<1>3. in \in Table
  <2>1. CASE k.input = None
    BY <1>2, <2>1
  <2>2. CASE k.input # None
    <3>1. Dup2(k.fds, k.input, STDIN_FILENO) \in Table
      BY <1>2, <2>2, Duplicating, Standard DEF STDIN_FILENO
    <3> QED BY <2>2, <3>1, Closing
  <2> QED BY <2>1, <2>2
<1>4. CASE k.last
  BY <1>3, <1>4 DEF Joined
<1>5. CASE ~k.last
  <2>1. k.pipe.write \in Number
    BY <1>5, Standard DEF Inv1, Shell
  <2>2. Joined(c) = Close(Dup2(in, k.pipe.write, STDOUT_FILENO), {k.pipe.read, k.pipe.write})
    BY <1>5 DEF Joined
  <2> HIDE DEF in
  <2>3. Dup2(in, k.pipe.write, STDOUT_FILENO) \in Table
    BY <1>3, <2>1, Duplicating, Standard DEF STDOUT_FILENO
  <2> QED BY <2>2, <2>3, Closing
<1> QED BY <1>2, <1>4, <1>5

\* A stage that starts: the redirections that pass, and what it has after them.
Begun(c, rs, n) ==
  /\ rs \in Redirects /\ n \in 0..Len(rs) /\ Passes(Joined(c), rs, n)
  /\ \E at \in {"runs", "complains"} :
       child' = [child EXCEPT ![c] = [child[c] EXCEPT !.fds = Redirected(Joined(c), rs)[n],
                                                      !.at = at, !.far = Far(rs, n)]]

LEMMA StartsOrEnds ==
  ASSUME NEW c, Start(c)
  PROVE  child' = Ended(c) \/ \E rs, n : Begun(c, rs, n)
<1> DEFINE become(rs, n, at) ==
             [child EXCEPT ![c] = [@ EXCEPT !.fds = Redirected(Joined(c), rs)[n], !.at = at,
                                            !.far = Far(rs, n)]]
<1>1. PICK rs \in Redirects : \E n \in 0..Len(rs) :
        /\ Passes(Joined(c), rs, n)
        /\ child' = Ended(c) \/ child' = become(rs, n, "runs") \/ child' = become(rs, n, "complains")
  BY DEF Start
<1>2. PICK n \in 0..Len(rs) :
        /\ Passes(Joined(c), rs, n)
        /\ child' = Ended(c) \/ child' = become(rs, n, "runs") \/ child' = become(rs, n, "complains")
  BY <1>1
<1> QED BY <1>1, <1>2 DEF Begun

LEMMA StartBecomes ==
  ASSUME Inv1, NEW c \in DOMAIN child, Start(c), child' # Ended(c)
  PROVE  \E t \in Table, far \in BOOLEAN, at \in {"runs", "complains"} :
           child' = [child EXCEPT ![c] = [child[c] EXCEPT !.fds = t, !.at = at, !.far = far]]
<1>1. PICK rs, n : Begun(c, rs, n)
  BY StartsOrEnds
<1>2. Joined(c) \in Table
  BY JoinedType DEF Start
<1>3. Redirected(Joined(c), rs)[n] \in Table
  BY <1>1, <1>2, RedirectedType DEF Begun
<1>4. Far(rs, n) \in BOOLEAN
  BY DEF Far
<1> QED BY <1>1, <1>3, <1>4 DEF Begun

LEMMA StartShell == ASSUME NEW c \in DOMAIN child PROVE Inv1 /\ Start(c) => Inv1'
<1> SUFFICES ASSUME Inv1, Start(c) PROVE Inv1'
  OBVIOUS
<1>1. /\ child[c].at = "forked" /\ content' \in Seq(0..Capacity) /\ Len(content') = Len(content)
      /\ complaints' \in Nat /\ taken' \in Nat /\ UNCHANGED <<fds, pc, local, asked, failed, shown>>
  BY DEF Start, told, Inv1, TypeOK
<1>2. child[c] \in Child
  BY DEF Inv1, TypeOK
<1>3. Joined(c) \in Table
  BY <1>1, JoinedType
<1> DEFINE moved(t, at, far) == [child[c] EXCEPT !.fds = t, !.at = at, !.far = far]
<1>4. ASSUME NEW t \in Table, NEW at \in {"runs", "complains"}, NEW far \in BOOLEAN,
             child' = [child EXCEPT ![c] = moved(t, at, far)]
      PROVE  Inv1'
  <2>1. moved(t, at, far) \in Child /\ moved(t, at, far).at # "forked"
    BY <1>2 DEF Child
  <2> HIDE DEF moved
  <2> QED BY <1>1, <1>4, <2>1, ChildChanges
<1>5. ASSUME child' = Ended(c) PROVE Inv1'
  BY <1>1, <1>5, EndedChild, ChildChanges
<1>6. CASE child' = Ended(c)
  BY <1>5, <1>6
<1>7. CASE child' # Ended(c)
  <2>1. PICK t \in Table, far \in BOOLEAN, at \in {"runs", "complains"} :
          child' = [child EXCEPT ![c] = moved(t, at, far)]
    BY <1>7, StartBecomes
  <2> HIDE DEF moved
  <2> QED BY <1>4, <2>1
<1> QED BY <1>6, <1>7

LEMMA OneReplaced ==
  ASSUME NEW S, NEW s \in Seq(S), NEW p \in DOMAIN s, NEW v \in S
  PROVE  [s EXCEPT ![p] = v] \in Seq(S) /\ Len([s EXCEPT ![p] = v]) = Len(s)
OBVIOUS

LEMMA ChildStepShell ==
  ASSUME NEW c \in DOMAIN child PROVE Inv1 /\ (ChildStep(c) \/ Quit(c)) => Inv1'
<1> SUFFICES ASSUME Inv1, ChildStep(c) \/ Quit(c) PROVE Inv1'
  OBVIOUS
<1>1. child[c] \in Child /\ child \in Seq(Child) /\ content \in Seq(0..Capacity)
      /\ complaints \in Nat /\ taken \in Nat /\ 0..Capacity \subseteq Nat
  BY SizeAssumption DEF Inv1, TypeOK
<1>2. complaints' \in Nat /\ taken' \in Nat /\ UNCHANGED <<fds, pc, local, asked, failed, shown>>
  <2>1. CASE Start(c) \/ End(c) \/ Quit(c)
    BY <1>1, <2>1 DEF Start, End, Quit, told
  <2>2. CASE Complain(c)
    BY <1>1, <2>2 DEF Complain
  <2>3. CASE Read(c)
    BY <1>1, <2>3 DEF Read
  <2>4. CASE Write(c)
    BY <1>1, <2>4 DEF Write
  <2> QED BY <2>1, <2>2, <2>3, <2>4 DEF ChildStep
<1>3. ASSUME NEW p, content[p] < Capacity, content' = [content EXCEPT ![p] = content[p] + 1]
      PROVE  content' \in Seq(0..Capacity) /\ Len(content') = Len(content)
  <2>1. CASE p \in DOMAIN content
    <3>1. content[p] + 1 \in 0..Capacity
      BY <1>1, <1>3, <2>1, SizeAssumption
    <3> QED BY <1>1, <1>3, <2>1, <3>1, OneReplaced
  <2>2. CASE p \notin DOMAIN content
    <3>1. content' = content
      BY <1>1, <1>3, <2>2
    <3> QED BY <1>1, <3>1
  <2> QED BY <2>1, <2>2
<1>4. ASSUME child' = Ended(c), content' \in Seq(0..Capacity), Len(content') = Len(content)
      PROVE  Inv1'
  BY <1>2, <1>4, EndedChild, ChildChanges
<1>5. CASE Start(c)
  BY <1>5, StartShell
<1>6. CASE Complain(c)
  <2>1. content' \in Seq(0..Capacity) /\ Len(content') = Len(content)
    BY <1>3, <1>6 DEF Complain
  <2> QED BY <1>6, <1>4, <2>1 DEF Complain
<1>7. CASE Read(c)
  <2>1. content' \in Seq(0..Capacity) /\ Len(content') = Len(content)
    <3> DEFINE p == Input(c).of
    <3>1. content[p] > 0 /\ content' = [content EXCEPT ![p] = content[p] - 1]
      BY <1>7 DEF Read
    <3> HIDE DEF p
    <3>2. CASE p \in DOMAIN content
      <4>1. content[p] - 1 \in 0..Capacity
        BY <1>1, <3>1, <3>2, SizeAssumption
      <4> QED BY <1>1, <3>1, <3>2, <4>1, OneReplaced
    <3>3. CASE p \notin DOMAIN content
      <4>1. content' = content
        BY <1>1, <3>1, <3>3
      <4> QED BY <1>1, <4>1
    <3> QED BY <3>2, <3>3
  <2>2. child' = [child EXCEPT ![c] = child[c]]
    BY <1>1, <1>7 DEF Read
  <2> QED BY <1>1, <1>2, <2>1, <2>2, ChildChanges
<1>8. CASE Write(c)
  <2>1. CASE child' = Ended(c) /\ UNCHANGED content
    BY <1>1, <1>4, <2>1
  <2>2. ASSUME NEW left \in Nat, child' = [child EXCEPT ![c].writes = left],
               content' \in Seq(0..Capacity), Len(content') = Len(content)
        PROVE  Inv1'
    <3> DEFINE k == [child[c] EXCEPT !.writes = left]
    <3>1. k \in Child /\ k.at = child[c].at /\ k.last = child[c].last /\ k.pipe = child[c].pipe
      BY <1>1 DEF Child
    <3>2. child' = [child EXCEPT ![c] = k]
      BY <2>2
    <3> HIDE DEF k
    <3> QED BY <1>1, <1>2, <2>2, <3>1, <3>2, ChildChanges
  <2>3. CASE child' = [child EXCEPT ![c].writes = 0] /\ UNCHANGED content
    BY <1>1, <2>2, <2>3
  <2>4. CASE /\ content[Output(c).of] < Capacity
             /\ content' = [content EXCEPT ![Output(c).of] = @ + 1]
             /\ child' = [child EXCEPT ![c].writes = @ - 1]
    <3>1. content' \in Seq(0..Capacity) /\ Len(content') = Len(content)
      BY <1>3, <2>4
    <3>2. child[c].writes - 1 \in Nat
      BY <1>1, <1>8 DEF Write, Child
    <3> QED BY <2>2, <2>4, <3>1, <3>2
  <2> QED BY <1>8, <2>1, <2>3, <2>4 DEF Write
<1>9. CASE End(c) \/ Quit(c)
  BY <1>1, <1>9, <1>4 DEF End, Quit
<1> QED BY <1>5, <1>6, <1>7, <1>8, <1>9 DEF ChildStep

LEMMA ShellStepKeeps == Inv1 /\ [Next]_vars => Inv1'
<1> SUFFICES ASSUME Inv1, [Next]_vars PROVE Inv1'
  OBVIOUS
<1>1. CASE \E n \in 2..MaxStages : Begin(n)
  BY <1>1, BeginShell
<1>2. CASE ShellStep
  BY <1>2, MakePipeShell, ForkStageShell, ForkLastShell, WaitForAllShell, DrainShell DEF ShellStep
<1>3. CASE \E c \in DOMAIN child : ChildStep(c) \/ Quit(c)
  BY <1>3, ChildStepShell
<1>4. CASE UNCHANGED vars
  <2>1. TypeOK'
    BY <1>4 DEF vars, local, told, Inv1, TypeOK
  <2>2. Shell'
    BY <1>4, ShellNext
       DEF vars, local, told, Inv1, Shell, First, ErrorPipe, Looping, Loop, Open3, Ends, Held
  <2> QED BY <2>1, <2>2 DEF Inv1
<1> QED BY <1>1, <1>2, <1>3, <1>4 DEF Next

\* The shell knows all that it has open, and execute_pipeline keeps no number twice:
\* its descriptors are the first three, which stay on the terminal, and those it has
\* in its variables, the pipe to the stage before and the pipe to the next among them.
THEOREM ShellInvariance == Spec => []Inv1
BY InitialShell, ShellStepKeeps, PTL DEF Spec

\* The descriptors of the shell and of all its stages are tables of the size they
\* have, and no pipe holds more than it can, whatever the redirections are.
THEOREM TypeCorrect == Spec => []TypeOK
<1>1. Inv1 => TypeOK
  BY DEF Inv1
<1> QED BY <1>1, ShellInvariance, PTL

\* A pipeline that went through leaves the shell the descriptors it had: what
\* execute_pipeline opens it closes, in whichever order stages run and end.
THEOREM DescriptorsReturn == Spec => []DescriptorsComeBack
<1>1. Inv1 => DescriptorsComeBack
  <2> SUFFICES ASSUME Inv1, pc = "prompt", ~failed
               PROVE  fds = [n \in Number |-> IF n < 3 THEN Terminal ELSE Closed]
    BY DEF DescriptorsComeBack
  <2>1. \A n \in Number : n \in 0..2 => fds[n] = Terminal
    BY DEF Inv1, Shell
  <2>2. \A n \in Number : n \in Beyond => fds[n] = Closed
    BY DEF Inv1, Shell, Held
  <2>3. \A n \in Number : IF n < 3 THEN n \in 0..2 ELSE n \in Beyond
    BY SizeAssumption DEF Number, Beyond
  <2>4. fds = [n \in Number |-> fds[n]]
    BY DEF Inv1, TypeOK, Table
  <2>5. \A n \in Number : fds[n] = IF n < 3 THEN Terminal ELSE Closed
    BY <2>1, <2>2, <2>3
  <2> QED BY <2>4, <2>5
<1> QED BY <1>1, ShellInvariance, PTL

-----------------------------------------------------------------------------
(* Who holds the ends of a pipe.                                               *)
LEMMA HolderIs ==
  \A e, c : c \in Holders(e) <=> \/ c \in DOMAIN child /\ \E n \in Number : child[c].fds[n] = e
                                 \/ c = 0 /\ \E n \in Number : fds[n] = e
BY DEF Holders

LEMMA HolderNext ==
  \A e, c : c \in Holders(e)' <=> \/ c \in DOMAIN child' /\ \E n \in Number : child'[c].fds[n] = e
                                  \/ c = 0 /\ \E n \in Number : fds'[n] = e
BY DEF Holders

\* A child that takes no step stays what it was, if its pipes stay its own.
LEMMA StageKept ==
  ASSUME Pipes, NEW c \in DOMAIN child, child'[c] = child[c], failed => failed',
         Len(content) \in Nat,
         Len(content') \in Nat, Len(content) <= Len(content'),
         \A p \in 1..Len(content) : Reader(c, p) => Reader(c, p)',
         \A q \in 1..Len(content) : \A self \in {{}, {c}} : Writer(c, q, self) => Writer(c, q, self)'
  PROVE  Stage(c)'
<1>1. Stage(c)
  BY DEF Pipes
<1>2. 1..Len(content) \subseteq 1..Len(content')
  OBVIOUS
<1>3. CASE child[c].at = "forked"
  <2>1. Forked(c)
    BY <1>1, <1>3 DEF Stage
  <2>2. Forked(c)'
    BY <1>2, <2>1 DEF Forked
  <2> QED BY <1>3, <2>2 DEF Stage
<1>4. CASE child[c].at \in {"runs", "complains"}
  <2>1. Started(c)
    BY <1>1, <1>4 DEF Stage
  <2>2. \A n \in 0..2 : IsEnd(child[c].fds[n]) => child[c].fds[n].of \in 1..Len(content)
    BY Standard DEF Pipes, Numbered
  <2>3. ASSUME NEW n \in 0..2, NEW e, e = child[c].fds[n]
        PROVE  /\ e.kind = "read" => Reader(c, e.of)' \/ (child[c].far /\ (failed' \/ e.of = Own(c)))
               /\ e.kind = "write" => Writer(c, e.of, {})' \/ (child[c].far /\ e.of = Own(c))
    BY <2>1, <2>2, <2>3 DEF Started, IsEnd
  <2>4. Own(c)' = Own(c)
    BY DEF Own
  <2>5. Started(c)'
    BY <2>3, <2>4 DEF Started
  <2> QED BY <1>4, <2>5 DEF Stage
<1>5. CASE child[c].at \notin {"forked", "runs", "complains"}
  BY <1>5 DEF Stage
<1> QED BY <1>3, <1>4, <1>5

\* The pipes of a child are its own still when nobody holds what he did not before,
\* and the shell is where it was or holds no reading end of theirs.
LEMMA NobodyElse ==
  ASSUME NEW c, NEW p \in 1..Len(content),
         Holders(WriteEnd(p))' \subseteq Holders(WriteEnd(p)),
         Holders(ReadEnd(p))' \subseteq Holders(ReadEnd(p))
  PROVE  /\ Reader(c, p) => Reader(c, p)'
         /\ \A self \in {{}, {c}} :
              /\ Writer(c, p, self)
              /\ failed => failed'
              /\ ~failed /\ ~failed' => UNCHANGED <<fds, pc, prev_fd>> /\ Len(child') = Len(child)
              => Writer(c, p, self)'
<1>1. Reader(c, p) => Reader(c, p)'
  BY DEF Reader
<1>2. ASSUME NEW self \in {{}, {c}}, Writer(c, p, self), ~failed, ~failed',
             UNCHANGED <<fds, pc, prev_fd>>, Len(child') = Len(child)
      PROVE  Writer(c, p, self)'
  BY <1>2 DEF Writer, Looping
<1>3. ASSUME failed' PROVE \A self : Writer(c, p, self)'
  BY <1>3 DEF Writer
<1> QED BY <1>1, <1>2, <1>3

LEMMA EndsAreEnds == \A p : IsEnd(ReadEnd(p)) /\ IsEnd(WriteEnd(p)) /\ ReadEnd(p).of = p /\ WriteEnd(p).of = p
BY DEF IsEnd, ReadEnd, WriteEnd

\* A child takes a step, and has no end of a pipe that it did not have.
ChildBecomes(c, k) ==
  /\ c \in DOMAIN child /\ k \in Child
  /\ child' = [child EXCEPT ![c] = k]
  /\ \A n \in Number : IsEnd(k.fds[n]) => \E m \in Number : child[c].fds[m] = k.fds[n]
  /\ Len(content') = Len(content)
  /\ UNCHANGED <<fds, pc, prev_fd, pipefd, failed>>

LEMMA ChildIs ==
  ASSUME Inv1, NEW c, NEW k, ChildBecomes(c, k)
  PROVE  /\ DOMAIN child' = DOMAIN child /\ Len(child') = Len(child)
         /\ \A d \in DOMAIN child : child'[d] = IF d = c THEN k ELSE child[d]
BY DEF Inv1, TypeOK, ChildBecomes

LEMMA FewerHeld ==
  ASSUME Inv1, NEW c, NEW k, ChildBecomes(c, k)
  PROVE  \A e : IsEnd(e) => Holders(e)' \subseteq Holders(e)
<1> SUFFICES ASSUME NEW e, IsEnd(e), NEW d \in Holders(e)' PROVE d \in Holders(e)
  OBVIOUS
<1>1. CASE d = 0 /\ \E n \in Number : fds'[n] = e
  BY <1>1, HolderIs DEF ChildBecomes
<1>2. CASE d \in DOMAIN child' /\ \E n \in Number : child'[d].fds[n] = e
  <2>1. d \in DOMAIN child
    BY <1>2, ChildIs
  <2>2. CASE d = c
    <3>1. PICK n \in Number : k.fds[n] = e
      BY <1>2, <2>1, <2>2, ChildIs
    <3>2. \E m \in Number : child[c].fds[m] = e
      BY <3>1 DEF ChildBecomes
    <3> QED BY <2>1, <2>2, <3>2, HolderIs
  <2>3. CASE d # c
    <3>1. child'[d] = child[d]
      BY <2>1, <2>3, ChildIs
    <3> QED BY <1>2, <2>1, <3>1, HolderIs
  <2> QED BY <2>2, <2>3
<1> QED BY <1>1, <1>2, HolderNext

LEMMA ChildPipes ==
  ASSUME Inv2, NEW c, NEW k, ChildBecomes(c, k), Stage(c)'
  PROVE  Pipes'
<1>1. /\ DOMAIN child' = DOMAIN child /\ Len(child') = Len(child)
      /\ \A d \in DOMAIN child : child'[d] = IF d = c THEN k ELSE child[d]
  BY ChildIs DEF Inv2
<1>2. \A e : IsEnd(e) => Holders(e)' \subseteq Holders(e)
  BY FewerHeld DEF Inv2
<1>3. /\ Len(content') = Len(content) /\ UNCHANGED <<fds, pc, prev_fd, pipefd, failed>>
      /\ c \in DOMAIN child
      /\ \A n \in Number : IsEnd(k.fds[n]) => \E m \in Number : child[c].fds[m] = k.fds[n]
  BY DEF ChildBecomes
<1>4. \A p : /\ Holders(WriteEnd(p))' \subseteq Holders(WriteEnd(p))
             /\ Holders(ReadEnd(p))' \subseteq Holders(ReadEnd(p))
  BY <1>2, EndsAreEnds
<1>5. Numbered'
  <2>1. \A n \in Number : IsEnd(fds'[n]) => fds'[n].of \in 1..Len(content')
    BY <1>3 DEF Inv2, Pipes, Numbered
  <2>2. ASSUME NEW d \in DOMAIN child', NEW n \in Number, IsEnd(child'[d].fds[n])
        PROVE  child'[d].fds[n].of \in 1..Len(content')
    BY <1>1, <1>3, <2>2 DEF Inv2, Pipes, Numbered
  <2> QED BY <2>1, <2>2 DEF Numbered
<1>6. Before'
  <2> SUFFICES ASSUME Looping', prev_fd' # None PROVE Before'
    BY DEF Before
  <2>1. PICK p \in 1..Len(content) :
          /\ fds[prev_fd] = ReadEnd(p) /\ Len(child) >= 1
          /\ \A n \in Number : fds[n] = ReadEnd(p) => n = prev_fd
          /\ Holders(WriteEnd(p)) \subseteq {Len(child)}
          /\ ~failed => Holders(ReadEnd(p)) \subseteq {0, Len(child)}
    BY <1>3 DEF Inv2, Pipes, Before, Looping
  <2>2. /\ p \in 1..Len(content') /\ fds'[prev_fd'] = ReadEnd(p) /\ Len(child') >= 1
        /\ \A n \in Number : fds'[n] = ReadEnd(p) => n = prev_fd'
    BY <1>1, <1>3, <2>1
  <2>3. /\ Holders(WriteEnd(p))' \subseteq {Len(child')}
        /\ ~failed' => Holders(ReadEnd(p))' \subseteq {0, Len(child')}
    BY <1>1, <1>3, <1>4, <2>1
  <2> QED BY <2>2, <2>3 DEF Before
<1>7. Behind'
  <2> SUFFICES ASSUME pc' = "fork" PROVE Behind'
    BY DEF Behind
  <2>1. PICK q \in 1..Len(content) :
          /\ fds[pipefd.read] = ReadEnd(q) /\ fds[pipefd.write] = WriteEnd(q)
          /\ \A n \in Number : fds[n] = ReadEnd(q) => n = pipefd.read
          /\ \A n \in Number : fds[n] = WriteEnd(q) => n = pipefd.write
          /\ Holders(ReadEnd(q)) \subseteq {0} /\ Holders(WriteEnd(q)) \subseteq {0}
    BY <1>3 DEF Inv2, Pipes, Behind
  <2>2. /\ q \in 1..Len(content')
        /\ fds'[pipefd'.read] = ReadEnd(q) /\ fds'[pipefd'.write] = WriteEnd(q)
        /\ \A n \in Number : fds'[n] = ReadEnd(q) => n = pipefd'.read
        /\ \A n \in Number : fds'[n] = WriteEnd(q) => n = pipefd'.write
    BY <1>3, <2>1
  <2>3. Holders(ReadEnd(q))' \subseteq {0} /\ Holders(WriteEnd(q))' \subseteq {0}
    BY <1>4, <2>1
  <2> QED BY <2>2, <2>3 DEF Behind
<1>8. ASSUME NEW d \in DOMAIN child, d # c PROVE Stage(d)'
  <2>1. Len(content) \in Nat /\ Len(content') \in Nat /\ Len(content) <= Len(content')
    BY <1>3 DEF Inv2, Inv1, TypeOK
  <2>3. Pipes /\ child'[d] = child[d] /\ (failed => failed')
    BY <1>1, <1>3, <1>8 DEF Inv2
  <2>2. \A p \in 1..Len(content) :
          /\ Reader(d, p) => Reader(d, p)'
          /\ \A self \in {{}, {d}} : Writer(d, p, self) => Writer(d, p, self)'
    BY <1>1, <1>3, <1>4, NobodyElse
  <2> QED BY <2>1, <2>2, <2>3, StageKept
<1> QED BY <1>1, <1>5, <1>6, <1>7, <1>8 DEF Pipes

-----------------------------------------------------------------------------
(* What a stage has when its program runs.                                     *)

\* A table has the ends of another and no others: those of the first three only, if no
\* number beyond them was duplicated.
Below(t, u) ==
  /\ \A n \in Beyond : t[n] = u[n]
  /\ \A n \in 0..2 : IsEnd(t[n]) => \E m \in Number : t[n] = u[m]
Near(t, u) == \A n \in 0..2 : IsEnd(t[n]) => t[n] \in {u[0], u[1], u[2]}

LEMMA SameBelow == \A t : Below(t, t) /\ Near(t, t)
<1> SUFFICES ASSUME NEW t PROVE Below(t, t) /\ Near(t, t)
  OBVIOUS
<1>1. \A n \in 0..2 : t[n] \in {t[0], t[1], t[2]}
  OBVIOUS
<1> QED BY <1>1, Standard DEF Below, Near

LEMMA OneKeeps ==
  ASSUME NEW t \in Table, NEW u, Below(t, u), NEW r \in Redirect, Possible(t, r)
  PROVE  /\ Below(handle_one(t, r), u)
         /\ Near(t, u) /\ (Opens(r) \/ r.target \in 0..2) => Near(handle_one(t, r), u)
<1>1. CASE Opens(r)
  <2> DEFINE to == IF r.type = "REDIRECT_INPUT" THEN STDIN_FILENO ELSE STDOUT_FILENO
             file == [kind |-> "file", of |-> r.target]
  <2>1. to \in 0..2 /\ to \in Number /\ ~IsEnd(file)
    BY Standard DEF STDIN_FILENO, STDOUT_FILENO, IsEnd
  <2>2. handle_one(t, r) = [t EXCEPT ![to] = file]
    BY <1>1 DEF handle_one
  <2> HIDE DEF to, file
  <2>3. \A n \in Number : handle_one(t, r)[n] = IF n = to THEN file ELSE t[n]
    BY <2>1, <2>2 DEF Table
  <2> QED BY <2>1, <2>3, Standard DEF Below, Near
<1>2. CASE ~Opens(r)
  <2>1. r.fd \in 0..2 /\ r.fd \in Number /\ r.target \in Number
    BY <1>2, Standard DEF Redirect, STDIN_FILENO, STDOUT_FILENO, Possible
  <2>2. \A n \in Number : handle_one(t, r)[n] = IF n = r.fd THEN t[r.target] ELSE t[n]
    <3>1. handle_one(t, r) = Dup2(t, r.target, r.fd)
      BY <1>2 DEF handle_one
    <3> QED BY <2>1, <3>1 DEF Dup2, Table
  <2>3. ASSUME NEW m \in Number, IsEnd(t[m]) PROVE \E l \in Number : t[m] = u[l]
    <3>1. CASE m \in Beyond
      BY <3>1 DEF Below
    <3>2. CASE m \in 0..2
      BY <2>3, <3>2 DEF Below
    <3> QED BY <3>1, <3>2, Standard
  <2>4. Below(handle_one(t, r), u)
    <3>1. \A n \in Beyond : handle_one(t, r)[n] = u[n]
      BY <2>1, <2>2, Standard DEF Below
    <3>2. ASSUME NEW n \in 0..2, IsEnd(handle_one(t, r)[n])
          PROVE  \E m \in Number : handle_one(t, r)[n] = u[m]
      <4>1. \E m \in Number : handle_one(t, r)[n] = t[m]
        BY <2>1, <2>2, Standard
      <4> QED BY <2>3, <3>2, <4>1
    <3> QED BY <3>1, <3>2 DEF Below
  <2>5. Near(t, u) /\ r.target \in 0..2 => Near(handle_one(t, r), u)
    BY <2>1, <2>2, Standard DEF Near
  <2> QED BY <1>2, <2>4, <2>5
<1> QED BY <1>1, <1>2

LEMMA RedirectedKeeps ==
  ASSUME NEW t \in Table, NEW rs \in Redirects, NEW k \in 0..Len(rs), Passes(t, rs, k)
  PROVE  /\ Below(Redirected(t, rs)[k], t)
         /\ ~Far(rs, k) => Near(Redirected(t, rs)[k], t)
<1> DEFINE after == Redirected(t, rs)
           S == {n \in 0..k : /\ after[n] \in Table /\ Below(after[n], t)
                              /\ ~Far(rs, k) => Near(after[n], t)}
<1>1. rs \in Seq(Redirect) /\ Len(rs) \in Nat /\ DOMAIN rs = 1..Len(rs) /\ k \in Nat
  BY RedirectAssumption
<1>2. after[0] = t /\ \A n \in 1..Len(rs) : after[n] = handle_one(after[n - 1], rs[n])
  BY <1>1, RedirectedSteps
<1>3. \A n \in 1..k : Possible(after[n - 1], rs[n])
  BY DEF Passes
<1>4. 0 \in S
  <2> HIDE DEF after
  <2> QED BY <1>1, <1>2, SameBelow
<1>5. ASSUME NEW n \in 1..k, n - 1 \in S PROVE n \in S
  <2>1. rs[n] \in Redirect /\ n \in 1..Len(rs)
    BY <1>1
  <2>2. /\ after[n - 1] \in Table /\ Below(after[n - 1], t)
        /\ ~Far(rs, k) => Near(after[n - 1], t)
    BY <1>5
  <2>3. ~Far(rs, k) => Opens(rs[n]) \/ rs[n].target \in 0..2
    <3>1. rs[n].target \in Nat
      BY <2>1 DEF Redirect
    <3> QED BY <3>1 DEF Far
  <2>4. /\ after[n] \in Table /\ Below(after[n], t)
        /\ ~Far(rs, k) => Near(after[n], t)
    <3> HIDE DEF after
    <3>1. after[n] = handle_one(after[n - 1], rs[n])
      BY <1>2, <2>1
    <3>2. handle_one(after[n - 1], rs[n]) \in Table
      BY <1>3, <2>1, <2>2, OneRedirection
    <3>3. /\ Below(handle_one(after[n - 1], rs[n]), t)
          /\ Near(after[n - 1], t) /\ (Opens(rs[n]) \/ rs[n].target \in 0..2)
               => Near(handle_one(after[n - 1], rs[n]), t)
      BY <1>3, <2>1, <2>2, OneKeeps
    <3> QED BY <2>2, <2>3, <3>1, <3>2, <3>3
  <2> QED BY <2>4, <1>1
<1>6. \A n \in 0..k : n \in S
  <2> HIDE DEF S
  <2> QED BY <1>1, <1>4, <1>5, SetInduction
<1>7. Below(after[k], t) /\ (~Far(rs, k) => Near(after[k], t))
  BY <1>1, <1>6
<1> QED BY <1>7

\* The table before the redirections: the pipes are joined to the standard input and
\* output, and the numbers they had are closed.
LEMMA JoinedIs ==
  ASSUME Inv2, NEW c \in DOMAIN child, child[c].at = "forked"
  PROVE  LET k == child[c] IN
         /\ \A n \in Beyond : Joined(c)[n] = IF n \in Joins(k) THEN Closed ELSE k.fds[n]
         /\ Joined(c)[0] = IF k.input = None THEN Terminal ELSE k.fds[k.input]
         /\ Joined(c)[1] = IF k.last THEN Terminal ELSE k.fds[k.pipe.write]
         /\ Joined(c)[2] = Terminal
<1> DEFINE k == child[c]
           in == IF k.input = None THEN k.fds ELSE Close(Dup2(k.fds, k.input, STDIN_FILENO), {k.input})
<1>1. k \in Child
  BY DEF Inv2, Inv1, TypeOK
<1>2. k.fds \in Table /\ k.input \in Number \cup {None} /\ k.last \in BOOLEAN
  BY <1>1 DEF Child
<1>3. Forked(c) /\ (k.input # None => k.input \in Beyond) /\ \A n \in 0..2 : k.fds[n] = Terminal
  BY DEF Inv2, Pipes, Stage, Forked
<1>4. /\ in \in Table
      /\ \A n \in Number : in[n] =
           IF k.input = None THEN k.fds[n]
           ELSE IF n = k.input THEN Closed ELSE IF n = 0 THEN k.fds[k.input] ELSE k.fds[n]
  <2>1. CASE k.input = None
    BY <1>2, <2>1
  <2>2. CASE k.input # None
    <3>1. Dup2(k.fds, k.input, STDIN_FILENO) \in Table
          /\ \A n \in Number : Dup2(k.fds, k.input, STDIN_FILENO)[n] =
                                 IF n = 0 THEN k.fds[k.input] ELSE k.fds[n]
      <4>1. k.fds \in Table /\ k.input \in Number /\ STDIN_FILENO \in Number /\ STDIN_FILENO = 0
        BY <1>2, <2>2, Standard DEF STDIN_FILENO
      <4> HIDE DEF k
      <4> QED BY <4>1, Duplicating DEF Dup2, Table
    <3>2. in = Close(Dup2(k.fds, k.input, STDIN_FILENO), {k.input})
      BY <2>2
    <3> HIDE DEF in
    <3> QED BY <2>2, <3>1, <3>2, Closing
  <2> QED BY <2>1, <2>2
<1>5. CASE k.last
  <2>1. Joined(c) = in /\ Joins(k) = {k.input}
    BY <1>5 DEF Joined, Joins
  <2> HIDE DEF in
  <2>2. \A n \in Beyond : Joined(c)[n] = IF n \in Joins(k) THEN Closed ELSE k.fds[n]
    <3> HIDE DEF k
    <3> SUFFICES ASSUME NEW n \in Beyond
                 PROVE  Joined(c)[n] = IF n = k.input THEN Closed ELSE k.fds[n]
      BY <2>1
    <3>1. n \in Number /\ n # 0 /\ n # None
      BY Standard
    <3> QED BY <1>4, <2>1, <3>1
  <2>3. /\ in[0] = IF k.input = None THEN Terminal ELSE k.fds[k.input]
        /\ in[1] = Terminal /\ in[2] = Terminal
    <3> HIDE DEF k
    <3> QED BY <1>3, <1>4, Standard
  <2> QED BY <1>5, <2>1, <2>2, <2>3
<1>6. CASE ~k.last
  <2>1. k.pipe.read \in Beyond /\ k.pipe.write \in Beyond
    BY <1>6 DEF Inv2, Inv1, Shell
  <2>2. Joined(c) = Close(Dup2(in, k.pipe.write, STDOUT_FILENO), {k.pipe.read, k.pipe.write})
    BY <1>6 DEF Joined
  <2>3. k.pipe.write # k.input
    <3>1. PICK q : k.fds[k.pipe.write] = WriteEnd(q)
      BY <1>3, <1>6 DEF Forked
    <3>2. k.input # None => \E p : k.fds[k.input] = ReadEnd(p)
      BY <1>3 DEF Forked
    <3>3. k.pipe.write # None
      BY <2>1, Standard
    <3>4. \A p : ReadEnd(p) # WriteEnd(q)
      BY DEF ReadEnd, WriteEnd
    <3> HIDE DEF k
    <3> QED BY <3>1, <3>2, <3>3, <3>4
  <2> HIDE DEF in
  <2>4. Dup2(in, k.pipe.write, STDOUT_FILENO) \in Table
        /\ \A n \in Number : Dup2(in, k.pipe.write, STDOUT_FILENO)[n] =
                               IF n = 1 THEN in[k.pipe.write] ELSE in[n]
    <3>1. in \in Table /\ k.pipe.write \in Number /\ STDOUT_FILENO \in Number /\ STDOUT_FILENO = 1
      BY <1>4, <2>1, Standard DEF STDOUT_FILENO
    <3> DEFINE w == k.pipe.write
    <3>2. w \in Number
      BY <3>1
    <3> HIDE DEF k, w
    <3>3. Dup2(in, w, STDOUT_FILENO) \in Table
      BY <3>1, <3>2, Duplicating
    <3>4. \A n \in Number : Dup2(in, w, STDOUT_FILENO)[n] = IF n = 1 THEN in[w] ELSE in[n]
      BY <3>1, <3>2 DEF Dup2, Table
    <3> QED BY <3>3, <3>4 DEF w
  <2>5. \A n \in Number : Joined(c)[n] =
          IF n \in {k.pipe.read, k.pipe.write} THEN Closed
          ELSE IF n = 1 THEN in[k.pipe.write] ELSE in[n]
    BY <2>2, <2>4, Closing
  <2>6. in[k.pipe.write] = k.fds[k.pipe.write]
    <3>1. k.pipe.write \in Number /\ k.pipe.write # 0
      BY <2>1, Standard DEF Beyond
    <3> HIDE DEF k
    <3> QED BY <1>4, <2>3, <3>1
  <2>7. \A n \in Beyond : Joined(c)[n] = IF n \in Joins(k) THEN Closed ELSE k.fds[n]
    <3>1. Joins(k) = {k.input, k.pipe.read, k.pipe.write}
      BY <1>6 DEF Joins
    <3>2. \A n \in Beyond : in[n] = IF n = k.input THEN Closed ELSE k.fds[n]
      BY <1>4, Standard
    <3> HIDE DEF k
    <3> QED BY <2>5, <3>1, <3>2, Standard
  <2>8. Joined(c)[0] = in[0] /\ Joined(c)[1] = k.fds[k.pipe.write] /\ Joined(c)[2] = in[2]
    BY <2>1, <2>5, <2>6, Standard
  <2>9. in[0] = (IF k.input = None THEN Terminal ELSE k.fds[k.input]) /\ in[2] = Terminal
    BY <1>3, <1>4, Standard
  <2> QED BY <1>6, <2>1, <2>5, <2>7, <2>8, <2>9, Standard
<1> QED BY <1>2, <1>5, <1>6

\* Of pipes a stage has on its first three descriptors no more than its own ends.
LEMMA StartedEnds ==
  ASSUME Inv2, NEW c \in DOMAIN child, child[c].at = "forked",
         NEW t, Below(t, Joined(c)), NEW far, ~far => Near(t, Joined(c))
  PROVE  LET k == child[c] IN
         /\ \A n \in 0..2 : IsEnd(t[n]) =>
              \/ k.input # None /\ t[n] = k.fds[k.input]
              \/ ~k.last /\ t[n] = k.fds[k.pipe.write]
              \/ far /\ (failed \/ t[n].of = k.fds[k.errors].of)
         /\ ~failed => t[k.errors] = k.fds[k.errors]
<1> DEFINE k == child[c]
           J == Joined(c)
<1>1. /\ \A n \in Beyond : J[n] = IF n \in Joins(k) THEN Closed ELSE k.fds[n]
      /\ J[0] = IF k.input = None THEN Terminal ELSE k.fds[k.input]
      /\ J[1] = IF k.last THEN Terminal ELSE k.fds[k.pipe.write]
      /\ J[2] = Terminal
  BY JoinedIs
<1>2. ~IsEnd(Terminal) /\ ~IsEnd(Closed)
  BY DEF IsEnd, Terminal, Closed
<1>3. /\ \A n \in Beyond : t[n] = J[n]
      /\ \A n \in 0..2 : IsEnd(t[n]) => \E m \in Number : t[n] = J[m]
      /\ ~far => \A n \in 0..2 : IsEnd(t[n]) => t[n] \in {J[0], J[1], J[2]}
  BY DEF Below, Near
<1>4. ~failed => Inherits(k)
  BY DEF Inv2, Pipes, Stage, Forked
<1> HIDE DEF J, k
<1>5. ASSUME NEW n \in 0..2, IsEnd(t[n])
      PROVE  \/ k.input # None /\ t[n] = k.fds[k.input]
             \/ ~k.last /\ t[n] = k.fds[k.pipe.write]
             \/ far /\ (failed \/ t[n].of = k.fds[k.errors].of)
  <2>1. CASE t[n] \in {J[0], J[1], J[2]}
    BY <1>1, <1>2, <1>5, <2>1
  <2>2. CASE far /\ ~failed /\ t[n] \notin {J[0], J[1], J[2]}
    <3>1. PICK m \in Number : t[n] = J[m]
      BY <1>3, <1>5
    <3>2. m \in Beyond
      <4>1. m \notin 0..2
        BY <2>2, <3>1
      <4> QED BY <4>1, Standard
    <3>3. m \notin Joins(k) /\ t[n] = k.fds[m]
      BY <1>1, <1>2, <1>5, <3>1, <3>2
    <3> QED BY <1>4, <1>5, <2>2, <3>2, <3>3 DEF Inherits
  <2> QED BY <1>3, <1>5, <2>1, <2>2
<1>6. ~failed => t[k.errors] = k.fds[k.errors]
  BY <1>1, <1>3, <1>4 DEF Inherits
<1> QED BY <1>5, <1>6 DEF k

\* A table with no more than a stage's own ends makes a stage that has started.
LEMMA StartedPipes ==
  ASSUME Inv2, NEW c \in DOMAIN child, child[c].at = "forked",
         NEW t \in Table, Below(t, Joined(c)), NEW far \in BOOLEAN, ~far => Near(t, Joined(c)),
         NEW at \in {"runs", "complains"},
         child' = [child EXCEPT ![c] = [child[c] EXCEPT !.fds = t, !.at = at, !.far = far]],
         Len(content') = Len(content), UNCHANGED <<fds, pc, prev_fd, pipefd, failed>>
  PROVE  Pipes'
<1> DEFINE k == child[c]
           k2 == [k EXCEPT !.fds = t, !.at = at, !.far = far]
           J == Joined(c)
<1>1. k \in Child
  BY DEF Inv2, Inv1, TypeOK
<1>2. k2 \in Child /\ k2.fds = t /\ k2.at = at /\ k2.far = far /\ k2.errors = k.errors
  BY <1>1 DEF Child
<1>3. Forked(c) /\ (k.input # None => k.input \in Number) /\ \A n \in 0..2 : k.fds[n] = Terminal
  BY Standard DEF Inv2, Pipes, Stage, Forked
<1>4. /\ \A n \in Beyond : J[n] = IF n \in Joins(k) THEN Closed ELSE k.fds[n]
      /\ J[0] = IF k.input = None THEN Terminal ELSE k.fds[k.input]
      /\ J[1] = IF k.last THEN Terminal ELSE k.fds[k.pipe.write]
      /\ J[2] = Terminal
  BY JoinedIs
<1>5. ~k.last => k.pipe.read \in Beyond /\ k.pipe.write \in Beyond
  BY DEF Inv2, Inv1, Shell
<1>6. ~IsEnd(Terminal) /\ ~IsEnd(Closed) /\ Number = Beyond \cup 0..2
  BY Standard DEF IsEnd, Terminal, Closed
<1> HIDE DEF J
<1>7. \A n \in Number : IsEnd(t[n]) => \E m \in Number : t[n] = J[m]
  <2>1. Below(t, J)
    BY DEF J
  <2> QED BY <1>6, <2>1 DEF Below
<1>8. /\ \A n \in 0..2 : IsEnd(t[n]) =>
           \/ k.input # None /\ t[n] = k.fds[k.input]
           \/ ~k.last /\ t[n] = k.fds[k.pipe.write]
           \/ far /\ (failed \/ t[n].of = k.fds[k.errors].of)
      /\ ~failed => t[k.errors] = k.fds[k.errors]
  BY StartedEnds
<1>9. ASSUME NEW m \in Number, IsEnd(J[m]) PROVE \E l \in Number : k.fds[l] = J[m]
  <2>1. CASE m \in 0..2
    <3>1. \/ k.input # None /\ J[m] = k.fds[k.input]
          \/ ~k.last /\ J[m] = k.fds[k.pipe.write]
      <4> HIDE DEF k
      <4> QED BY <1>4, <1>6, <1>9, <2>1
    <3> QED BY <1>3, <1>5, <3>1, Standard
  <2>2. CASE m \in Beyond
    <3> HIDE DEF k
    <3> QED BY <1>4, <1>6, <1>9, <2>2
  <2> QED BY <1>6, <2>1, <2>2
<1>10. ChildBecomes(c, k2)
  <2>1. child' = [child EXCEPT ![c] = k2]
    OBVIOUS
  <2>2. ASSUME NEW n \in Number, IsEnd(t[n]) PROVE \E m \in Number : k.fds[m] = t[n]
    <3> HIDE DEF k
    <3> QED BY <1>7, <1>9, <2>2
  <2> HIDE DEF k2
  <2> QED BY <1>2, <2>1, <2>2 DEF ChildBecomes
<1>11. /\ DOMAIN child' = DOMAIN child /\ Len(child') = Len(child) /\ child'[c] = k2
       /\ \A d \in DOMAIN child : child'[d] = IF d = c THEN k2 ELSE child[d]
  <2> HIDE DEF k2
  <2> QED BY <1>10, ChildIs DEF Inv2
<1>12. \A e : IsEnd(e) => Holders(e)' \subseteq Holders(e)
  <2> HIDE DEF k2
  <2> QED BY <1>10, FewerHeld DEF Inv2
<1>13. ASSUME NEW p \in 1..Len(content), Reader(c, p) PROVE Reader(c, p)'
  BY <1>12, <1>13, EndsAreEnds DEF Reader
<1>14. ASSUME k.input # None
       PROVE  \E p \in 1..Len(content) : k.fds[k.input] = ReadEnd(p) /\ Reader(c, p) /\ Reader(c, p)'
  BY <1>3, <1>13, <1>14 DEF Forked
<1>15. ASSUME ~k.last
       PROVE  \E q \in 1..Len(content) : k.fds[k.pipe.write] = WriteEnd(q) /\ Writer(c, q, {})'
  <2>1. PICK q \in 1..Len(content) :
          /\ k.fds[k.pipe.read] = ReadEnd(q) /\ k.fds[k.pipe.write] = WriteEnd(q)
          /\ \A n \in Number : k.fds[n] = ReadEnd(q) => n = k.pipe.read
          /\ Writer(c, q, {c})
    BY <1>3, <1>15 DEF Forked
  <2>2. c \in Holders(WriteEnd(q))
    BY <1>5, <1>15, <2>1, HolderIs, Standard
  <2>3. k.input # None => k.fds[k.input] # ReadEnd(q)
    <3> SUFFICES ASSUME k.input # None, k.fds[k.input] = ReadEnd(q) PROVE FALSE
      OBVIOUS
    <3>1. Reader(c, q)
      <4>1. PICK p \in 1..Len(content) : k.fds[k.input] = ReadEnd(p) /\ Reader(c, p)
        BY <1>14
      <4>2. ReadEnd(p) = ReadEnd(q)
        BY <4>1
      <4>3. p = q
        BY <4>2 DEF ReadEnd
      <4> QED BY <4>1, <4>3
    <3>2. c \in Nat
      BY DEF Inv2, Inv1, TypeOK
    <3> QED BY <2>2, <3>1, <3>2 DEF Reader
  <2>4. \A n \in Number : t[n] # ReadEnd(q)
    <3> SUFFICES ASSUME NEW n \in Number, t[n] = ReadEnd(q) PROVE FALSE
      OBVIOUS
    <3>1. IsEnd(ReadEnd(q)) /\ ReadEnd(q) # WriteEnd(q) /\ ReadEnd(q) # Closed
      BY EndsAreEnds DEF ReadEnd, WriteEnd, Closed
    <3>2. PICK m \in Number : J[m] = ReadEnd(q)
      BY <1>7, <3>1
    <3>3. CASE m \in 0..2
      <4> HIDE DEF k
      <4> QED BY <1>4, <1>6, <2>1, <2>3, <3>1, <3>2, <3>3
    <3>4. CASE m \in Beyond
      <4>1. k.pipe.read \in Joins(k)
        BY <1>15 DEF Joins
      <4> HIDE DEF k
      <4>2. m \notin Joins(k) /\ k.fds[m] = ReadEnd(q)
        BY <1>4, <3>1, <3>2, <3>4
      <4> QED BY <2>1, <4>1, <4>2
    <3> QED BY <1>6, <3>3, <3>4
  <2>5. c \notin Holders(ReadEnd(q))'
    <3>1. c # 0
      BY DEF Inv2, Inv1, TypeOK
    <3> QED BY <1>2, <1>11, <2>4, <3>1, HolderNext
  <2>6. Holders(ReadEnd(q))' \subseteq Holders(ReadEnd(q))
    BY <1>12, EndsAreEnds
  <2>7. Writer(c, q, {})'
    BY <1>11, <2>1, <2>5, <2>6 DEF Writer, Looping
  <2> QED BY <2>1, <2>7
<1> DEFINE own == t[k.errors].of
<1>16. ASSUME NEW n \in 0..2, NEW e, e = t[n]
       PROVE  /\ e.kind = "read" => Reader(c, e.of)' \/ (far /\ (failed \/ e.of = own))
              /\ e.kind = "write" => Writer(c, e.of, {})' \/ (far /\ e.of = own)
  <2> SUFFICES ASSUME IsEnd(e)
               PROVE  /\ e.kind = "read" => Reader(c, e.of)' \/ (far /\ (failed \/ e.of = own))
                      /\ e.kind = "write" => Writer(c, e.of, {})' \/ (far /\ e.of = own)
    BY DEF IsEnd
  <2>1. CASE k.input # None /\ e = k.fds[k.input]
    <3>1. PICK p \in 1..Len(content) : e = ReadEnd(p) /\ Reader(c, p)'
      BY <1>14, <2>1
    <3>2. e.kind = "read" /\ e.of = p
      BY <3>1 DEF ReadEnd
    <3> QED BY <3>1, <3>2
  <2>2. CASE ~k.last /\ e = k.fds[k.pipe.write]
    <3>1. PICK q \in 1..Len(content) : e = WriteEnd(q) /\ Writer(c, q, {})'
      BY <1>15, <2>2
    <3>2. e.kind = "write" /\ e.of = q
      BY <3>1 DEF WriteEnd
    <3> QED BY <3>1, <3>2
  <2>3. CASE far /\ ~failed /\ e.of = k.fds[k.errors].of
    BY <1>8, <2>3
  <2>4. CASE far /\ failed
    <3>1. Writer(c, e.of, {})'
      BY <2>4 DEF Writer
    <3> QED BY <2>4, <3>1
  <2>5. \/ k.input # None /\ e = k.fds[k.input]
        \/ ~k.last /\ e = k.fds[k.pipe.write]
        \/ far /\ (failed \/ e.of = k.fds[k.errors].of)
    BY <1>8, <1>16
  <2> QED BY <2>1, <2>2, <2>3, <2>4, <2>5
<1>17. Started(c)'
  <2>1. child'[c].fds = t /\ child'[c].far = far /\ failed' = failed
    BY <1>2, <1>11
  <2>2. Own(c)' = own
    BY <1>2, <1>11 DEF Own
  <2> HIDE DEF own, k2, k
  <2> QED BY <1>16, <2>1, <2>2 DEF Started
<1>18. Stage(c)'
  BY <1>2, <1>11, <1>17 DEF Stage
<1> HIDE DEF k2
<1> QED BY <1>10, <1>18, ChildPipes

LEMMA EndedPipes ==
  ASSUME Inv2, NEW c \in DOMAIN child, child' = Ended(c),
         Len(content') = Len(content), UNCHANGED <<fds, pc, prev_fd, pipefd, failed>>
  PROVE  Pipes'
<1>1. PICK k \in Child : k.at = "ended" /\ child' = [child EXCEPT ![c] = k]
                         /\ \A n \in Number : k.fds[n] = Closed
  BY EndedChild DEF Inv2
<1>2. ChildBecomes(c, k)
  <2>1. ~IsEnd(Closed)
    BY DEF IsEnd, Closed
  <2> QED BY <1>1, <2>1 DEF ChildBecomes
<1>3. Stage(c)'
  <2>1. child'[c] = k
    BY <1>2, ChildIs DEF Inv2
  <2> QED BY <1>1, <2>1 DEF Stage
<1> QED BY <1>2, <1>3, ChildPipes

\* A program reads or writes, and has what it had.
LEMMA SamePipes ==
  ASSUME Inv2, NEW c \in DOMAIN child, child[c].at = "runs", NEW k \in Child,
         k.fds = child[c].fds, k.at = child[c].at, k.far = child[c].far,
         k.errors = child[c].errors, child' = [child EXCEPT ![c] = k],
         Len(content') = Len(content), UNCHANGED <<fds, pc, prev_fd, pipefd, failed>>
  PROVE  Pipes'
<1>1. ChildBecomes(c, k)
  BY DEF ChildBecomes
<1>2. child'[c] = k /\ Len(child') = Len(child)
  BY <1>1, ChildIs DEF Inv2
<1>3. \A e : IsEnd(e) => Holders(e)' \subseteq Holders(e)
  BY <1>1, FewerHeld DEF Inv2
<1>4. \A n \in 0..2 : IsEnd(child[c].fds[n]) => child[c].fds[n].of \in 1..Len(content)
  BY Standard DEF Inv2, Pipes, Numbered
<1>5. \A p \in 1..Len(content) : (Reader(c, p) => Reader(c, p)') /\ (Writer(c, p, {}) => Writer(c, p, {})')
  BY <1>2, <1>3, NobodyElse, EndsAreEnds
<1>6. Started(c)
  BY DEF Inv2, Pipes, Stage
<1>7. ASSUME NEW n \in 0..2, NEW e, e = child[c].fds[n]
      PROVE  /\ e.kind = "read" => Reader(c, e.of)' \/ (child[c].far /\ (failed \/ e.of = Own(c)))
             /\ e.kind = "write" => Writer(c, e.of, {})' \/ (child[c].far /\ e.of = Own(c))
  BY <1>4, <1>5, <1>6, <1>7 DEF Started, IsEnd
<1>8. Started(c)'
  <2>1. Own(c)' = Own(c)
    BY <1>2 DEF Own
  <2> QED BY <1>2, <1>7, <2>1 DEF Started
<1>9. Stage(c)'
  BY <1>2, <1>8 DEF Stage
<1> QED BY <1>1, <1>9, ChildPipes

\* What no step of a stage changes.
LEMMA ChildLeaves ==
  ASSUME Inv2, NEW c \in DOMAIN child, ChildStep(c) \/ Quit(c)
  PROVE  /\ Len(content') = Len(content)
         /\ UNCHANGED <<fds, pc, prev_fd, pipefd, error_pipe, failed, shown>>
<1>1. Len(content') = Len(content)
  <2>1. ASSUME NEW p, NEW v, content' = [content EXCEPT ![p] = v] PROVE Len(content') = Len(content)
    <3>1. content \in Seq(0..Capacity) /\ content' = [i \in DOMAIN content |-> content'[i]]
          /\ DOMAIN content' = DOMAIN content
      BY <2>1 DEF Inv2, Inv1, TypeOK
    <3> QED BY <3>1
  <2>2. CASE UNCHANGED content
    BY <2>2
  <2>3. CASE ~UNCHANGED content
    <3>1. \E p, v : content' = [content EXCEPT ![p] = v]
      BY <2>3 DEF ChildStep, Start, Complain, Read, Write, End, Quit
    <3> QED BY <2>1, <3>1
  <2> QED BY <2>2, <2>3
<1>2. UNCHANGED <<fds, pc, prev_fd, pipefd, error_pipe, failed, shown>>
  BY DEF ChildStep, Start, Complain, Read, Write, End, Quit, local, told
<1> QED BY <1>1, <1>2

LEMMA ChildStepPipes ==
  ASSUME NEW c \in DOMAIN child
  PROVE  Inv2 /\ (ChildStep(c) \/ Quit(c)) => Pipes'
<1> SUFFICES ASSUME Inv2, ChildStep(c) \/ Quit(c) PROVE Pipes'
  OBVIOUS
<1>1. child[c] \in Child /\ child \in Seq(Child)
  BY DEF Inv2, Inv1, TypeOK
<1>2. Len(content') = Len(content)
  BY ChildLeaves
<1>3. UNCHANGED <<fds, pc, prev_fd, pipefd, failed>>
  BY ChildLeaves
<1>4. CASE child' = Ended(c)
  BY <1>2, <1>3, <1>4, EndedPipes
<1>5. CASE Start(c)
  <2>1. child[c].at = "forked" /\ Joined(c) \in Table
    BY <1>5, JoinedType DEF Start, Inv2
  <2>2. CASE \E rs, n : Begun(c, rs, n)
    <3>1. PICK rs, n : Begun(c, rs, n)
      BY <2>2
    <3>1a. PICK t : t = Redirected(Joined(c), rs)[n]
      OBVIOUS
    <3>1b. PICK far : far = Far(rs, n)
      OBVIOUS
    <3>2. PICK at \in {"runs", "complains"} :
            /\ t = Redirected(Joined(c), rs)[n] /\ far = Far(rs, n)
            /\ child' = [child EXCEPT ![c] = [child[c] EXCEPT !.fds = t, !.at = at, !.far = far]]
      BY <3>1, <3>1a, <3>1b DEF Begun
    <3>3. t \in Table /\ Below(t, Joined(c)) /\ far \in BOOLEAN /\ (~far => Near(t, Joined(c)))
      BY <2>1, <3>1, <3>2, RedirectedType, RedirectedKeeps DEF Begun, Far
    <3> QED BY <1>2, <1>3, <2>1, <3>2, <3>3, StartedPipes
  <2> QED BY <1>4, <1>5, <2>2, StartsOrEnds
<1>6. CASE Complain(c) \/ End(c) \/ Quit(c)
  BY <1>4, <1>6 DEF Complain, End, Quit
<1>7. CASE Read(c)
  <2>1. child' = [child EXCEPT ![c] = child[c]] /\ child[c].at = "runs"
    BY <1>1, <1>7 DEF Read
  <2> QED BY <1>1, <1>2, <1>3, <2>1, SamePipes
<1>8. CASE Write(c) /\ child' # Ended(c)
  <2>1. PICK left : child' = [child EXCEPT ![c].writes = left] /\ left \in Nat
    <3>1. child[c].writes - 1 \in Nat
      BY <1>1, <1>8 DEF Write, Child
    <3> QED BY <1>8, <3>1 DEF Write
  <2> DEFINE k == [child[c] EXCEPT !.writes = left]
  <2>2. /\ k \in Child /\ k.fds = child[c].fds /\ k.at = child[c].at /\ k.far = child[c].far
        /\ k.errors = child[c].errors /\ child[c].at = "runs"
    BY <1>1, <1>8, <2>1 DEF Child, Write
  <2>3. child' = [child EXCEPT ![c] = k]
    BY <2>1
  <2> HIDE DEF k
  <2> QED BY <1>2, <1>3, <2>2, <2>3, SamePipes
<1> QED BY <1>4, <1>5, <1>6, <1>7, <1>8 DEF ChildStep

-----------------------------------------------------------------------------
(* The shell's steps.                                                          *)

LEMMA InitialPipes == Init => Pipes
<1> SUFFICES ASSUME Init PROVE Pipes
  OBVIOUS
<1>1. \A n \in Number : ~IsEnd(fds[n])
  BY DEF Init, IsEnd, Terminal, Closed
<1>2. child = <<>> /\ pc = "prompt" /\ DOMAIN child = {}
  BY DEF Init
<1>3. Numbered /\ Before /\ Behind
  BY <1>1, <1>2 DEF Numbered, Before, Behind, Looping
<1> QED BY <1>2, <1>3 DEF Pipes

\* The shell closes descriptors and leaves the loop.
LEMMA LeavingPipes ==
  ASSUME Inv2, NEW ns, fds' = Close(fds, ns), Len(content') = Len(content), UNCHANGED child,
         ~Looping', failed => failed', Looping => failed'
  PROVE  Pipes'
<1>1. \A n \in Number : fds'[n] = IF n \in ns THEN Closed ELSE fds[n]
  BY Closing DEF Inv2, Inv1, TypeOK
<1>2. \A n \in Number : IsEnd(fds'[n]) => fds'[n] = fds[n]
  BY <1>1 DEF IsEnd, Closed
<1>3. Numbered'
  BY <1>2 DEF Inv2, Pipes, Numbered
<1>4. Before' /\ Behind'
  BY DEF Before, Behind, Looping
<1>5. \A e : IsEnd(e) => Holders(e)' \subseteq Holders(e)
  BY <1>2, HolderIs, HolderNext
<1>6. ASSUME NEW c \in DOMAIN child PROVE Stage(c)'
  <2>1. Len(content) \in Nat /\ Len(content') \in Nat /\ Len(content) <= Len(content')
    BY DEF Inv2, Inv1, TypeOK
  <2>2. ASSUME NEW p \in 1..Len(content)
        PROVE  /\ Reader(c, p) => Reader(c, p)'
               /\ \A self \in {{}, {c}} : Writer(c, p, self) => Writer(c, p, self)'
    <3>1. /\ Holders(WriteEnd(p))' \subseteq Holders(WriteEnd(p))
          /\ Holders(ReadEnd(p))' \subseteq Holders(ReadEnd(p))
      BY <1>5, EndsAreEnds
    <3>2. Reader(c, p) => Reader(c, p)'
      BY <3>1 DEF Reader
    <3>3. ASSUME NEW self, Writer(c, p, self) PROVE Writer(c, p, self)'
      BY <3>1, <3>3 DEF Writer
    <3> QED BY <3>2, <3>3
  <2>3. Pipes /\ child'[c] = child[c]
    BY DEF Inv2
  <2> QED BY <2>1, <2>2, <2>3, StageKept
<1> QED BY <1>3, <1>4, <1>6 DEF Pipes

LEMMA GiveUpPipes == Inv2 /\ GiveUp => Pipes'
<1> SUFFICES ASSUME Inv2, GiveUp PROVE Pipes'
  OBVIOUS
<1>1. ~Looping' /\ failed' /\ UNCHANGED <<child, content>>
  BY DEF GiveUp, Return, Looping
<1> QED BY <1>1, LeavingPipes DEF GiveUp

LEMMA WaitForAllPipes == Inv2 /\ WaitForAll => Pipes'
<1> SUFFICES ASSUME Inv2, WaitForAll PROVE Pipes'
  OBVIOUS
<1>1. \A n \in Number : fds'[n] = IF n = error_pipe.write THEN Closed ELSE fds[n]
  BY Closing DEF WaitForAll, Inv2, Inv1, TypeOK
<1>2. child' = <<>> /\ ~Looping' /\ UNCHANGED content /\ DOMAIN child' = {}
  BY DEF WaitForAll, Looping
<1>3. Numbered'
  BY <1>1, <1>2 DEF Inv2, Pipes, Numbered, IsEnd, Closed
<1>4. Before' /\ Behind'
  BY <1>2 DEF Before, Behind, Looping
<1> QED BY <1>2, <1>3, <1>4 DEF Pipes

LEMMA DrainPipes == Inv2 /\ Drain => Pipes'
<1> SUFFICES ASSUME Inv2, Drain PROVE Pipes'
  OBVIOUS
<1>1. pc = "drain" /\ ~Looping /\ ~Looping' /\ UNCHANGED <<child, failed>>
  BY DEF Drain, Return, Looping
<1> DEFINE p == fds[error_pipe.read].of
<1>2. CASE content' = [content EXCEPT ![p] = 0] /\ UNCHANGED fds
  <2>1. Len(content') = Len(content)
    <3>1. content \in Seq(0..Capacity) /\ content' = [i \in DOMAIN content |-> content'[i]]
          /\ DOMAIN content' = DOMAIN content
      BY <1>2 DEF Inv2, Inv1, TypeOK
    <3> QED BY <3>1
  <2>2. fds' = Close(fds, {})
    BY <1>2 DEF Inv2, Inv1, TypeOK, Table, Close
  <2> QED BY <1>1, <2>1, <2>2, LeavingPipes
<1>3. CASE fds' = Close(fds, {error_pipe.read}) /\ UNCHANGED content
  BY <1>1, <1>3, LeavingPipes
<1> QED BY <1>2, <1>3 DEF Drain

\* The ends of a new pipe are the shell's alone; the old ones stay where they were.
LEMMA NewEnds ==
  ASSUME Inv2, NEW low, NEW high, NEW p, NewPipe(low, high, p), UNCHANGED child
  PROVE  /\ Numbered'
         /\ \A n \in Number : fds'[n] = ReadEnd(p) => n = low
         /\ \A n \in Number : fds'[n] = WriteEnd(p) => n = high
         /\ Holders(ReadEnd(p))' \subseteq {0} /\ Holders(WriteEnd(p))' \subseteq {0}
         /\ \A q \in 1..Len(content) :
              /\ Holders(ReadEnd(q))' \subseteq Holders(ReadEnd(q))
              /\ Holders(WriteEnd(q))' \subseteq Holders(WriteEnd(q))
              /\ \A n \in Number : fds'[n] = ReadEnd(q) => fds[n] = ReadEnd(q)
<1>1. /\ Len(content') = Len(content) + 1 /\ Len(content) \in Nat
      /\ \A n \in Number :
           fds'[n] = IF n = low THEN ReadEnd(p) ELSE IF n = high THEN WriteEnd(p) ELSE fds[n]
  BY AfterPipe DEF Inv2, Inv1, TypeOK
<1>2. p = Len(content) + 1 /\ p \in 1..Len(content') /\ p \notin 1..Len(content)
      /\ 1..Len(content) \subseteq 1..Len(content')
  BY <1>1 DEF NewPipe
<1>3. \A q : /\ ReadEnd(p) # WriteEnd(q) /\ WriteEnd(p) # ReadEnd(q)
             /\ ReadEnd(p) = ReadEnd(q) \/ WriteEnd(p) = WriteEnd(q) => q = p
  BY DEF ReadEnd, WriteEnd
<1>4. /\ \A n \in Number : IsEnd(fds[n]) => fds[n].of \in 1..Len(content)
      /\ \A c \in DOMAIN child, n \in Number :
           IsEnd(child[c].fds[n]) => child[c].fds[n].of \in 1..Len(content)
  BY DEF Inv2, Pipes, Numbered
<1>5. Numbered'
  BY <1>1, <1>2, <1>4, EndsAreEnds DEF Numbered
<1>6. \A n \in Number : fds[n] \notin {ReadEnd(p), WriteEnd(p)}
  BY <1>2, <1>4, EndsAreEnds
<1>7. \A c \in DOMAIN child, n \in Number : child[c].fds[n] \notin {ReadEnd(p), WriteEnd(p)}
  BY <1>2, <1>4, EndsAreEnds
<1>8. /\ \A n \in Number : fds'[n] = ReadEnd(p) => n = low
      /\ \A n \in Number : fds'[n] = WriteEnd(p) => n = high
  BY <1>1, <1>3, <1>6
<1>9. Holders(ReadEnd(p))' \subseteq {0} /\ Holders(WriteEnd(p))' \subseteq {0}
  BY <1>7, HolderNext
<1>10. ASSUME NEW q \in 1..Len(content)
       PROVE  /\ Holders(ReadEnd(q))' \subseteq Holders(ReadEnd(q))
              /\ Holders(WriteEnd(q))' \subseteq Holders(WriteEnd(q))
              /\ \A n \in Number : fds'[n] = ReadEnd(q) => fds[n] = ReadEnd(q)
  <2>1. ReadEnd(q) \notin {ReadEnd(p), WriteEnd(p)} /\ WriteEnd(q) \notin {ReadEnd(p), WriteEnd(p)}
    BY <1>2, <1>3
  <2>2. \A n \in Number : /\ fds'[n] = ReadEnd(q) => fds[n] = ReadEnd(q)
                          /\ fds'[n] = WriteEnd(q) => fds[n] = WriteEnd(q)
    BY <1>1, <2>1
  <2> QED BY <2>2, HolderIs, HolderNext
<1> QED BY <1>5, <1>8, <1>9, <1>10

LEMMA BeginPipes == ASSUME NEW n \in 2..MaxStages PROVE Inv2 /\ Begin(n) => Pipes'
<1> SUFFICES ASSUME Inv2, Begin(n) PROVE Pipes'
  OBVIOUS
<1>1. pc = "prompt" /\ prev_fd' = None /\ pc' # "fork" /\ UNCHANGED child
  BY DEF Begin
<1>2. Before' /\ Behind'
  BY <1>1 DEF Before, Behind
<1>3. CASE failed' = TRUE /\ UNCHANGED <<fds, content, pc>>
  <2>1. fds' = Close(fds, {}) /\ ~Looping'
    BY <1>1, <1>3 DEF Inv2, Inv1, TypeOK, Table, Close, Looping
  <2> QED BY <1>1, <1>3, <2>1, LeavingPipes
<1>4. CASE /\ ~PipeFails
           /\ LET p == Len(content) + 1
              IN /\ fds' = [fds EXCEPT ![Lowest(fds)] = ReadEnd(p), ![Second(fds)] = WriteEnd(p)]
                 /\ content' = Append(content, 0)
           /\ UNCHANGED failed
  <2> DEFINE low == Lowest(fds)
             high == Second(fds)
             p == Len(content) + 1
  <2>1. NewPipe(low, high, p)
    BY <1>4, PipeMade DEF Inv2
  <2> HIDE DEF low, high, p
  <2>2. /\ Numbered'
        /\ \A q \in 1..Len(content) :
             /\ Holders(ReadEnd(q))' \subseteq Holders(ReadEnd(q))
             /\ Holders(WriteEnd(q))' \subseteq Holders(WriteEnd(q))
    BY <1>1, <2>1, NewEnds
  <2>3. Len(content') = Len(content) + 1 /\ Len(content) \in Nat
    BY <2>1, AfterPipe DEF Inv2, Inv1, TypeOK
  <2>4. ASSUME NEW c \in DOMAIN child PROVE Stage(c)'
    <3>1. Len(content) \in Nat /\ Len(content') \in Nat /\ Len(content) <= Len(content')
      BY <2>3
    <3>2. ASSUME NEW q \in 1..Len(content)
          PROVE  /\ Reader(c, q) => Reader(c, q)'
                 /\ \A self \in {{}, {c}} : Writer(c, q, self) => Writer(c, q, self)'
      <4>1. Reader(c, q) => Reader(c, q)'
        BY <2>2 DEF Reader
      <4>2. ASSUME NEW self, Writer(c, q, self) PROVE Writer(c, q, self)'
        <5>1. ~failed => 0 \notin Holders(ReadEnd(q))
          BY <1>1, <4>2 DEF Writer, Looping
        <5> QED BY <1>4, <2>2, <4>2, <5>1 DEF Writer
      <4> QED BY <4>1, <4>2
    <3>3. Pipes /\ child'[c] = child[c] /\ (failed => failed')
      BY <1>1, <1>4 DEF Inv2
    <3> QED BY <3>1, <3>2, <3>3, StageKept
  <2> QED BY <1>1, <1>2, <2>2, <2>4 DEF Pipes
<1> QED BY <1>3, <1>4 DEF Begin

LEMMA MakePipePipes == Inv2 /\ MakePipe => Pipes'
<1> SUFFICES ASSUME Inv2, MakePipe PROVE Pipes'
  OBVIOUS
<1>1. pc = "pipe" /\ Looping
  BY DEF MakePipe, Looping
<1>2. CASE GiveUp
  BY <1>2, GiveUpPipes
<1>3. CASE /\ ~PipeFails
           /\ LET p == Len(content) + 1
              IN /\ fds' = [fds EXCEPT ![Lowest(fds)] = ReadEnd(p), ![Second(fds)] = WriteEnd(p)]
                 /\ pipefd' = [read |-> Lowest(fds), write |-> Second(fds)]
                 /\ content' = Append(content, 0)
           /\ pc' = "fork"
           /\ UNCHANGED <<cmd, stages, error_pipe, prev_fd, child, asked, told>>
  <2>0. NewPipe(Lowest(fds), Second(fds), Len(content) + 1)
    BY <1>3, PipeMade DEF Inv2
  <2>1. PICK low, high, p : NewPipe(low, high, p) /\ pipefd' = [read |-> low, write |-> high]
    BY <1>3, <2>0
  <2>2. pipefd'.read = low /\ pipefd'.write = high
    BY <2>1
  <2>3. Looping' /\ UNCHANGED <<prev_fd, child, failed>>
    BY <1>3 DEF Looping, told
  <2>4. /\ Numbered'
        /\ \A n \in Number : fds'[n] = ReadEnd(p) => n = low
        /\ \A n \in Number : fds'[n] = WriteEnd(p) => n = high
        /\ Holders(ReadEnd(p))' \subseteq {0} /\ Holders(WriteEnd(p))' \subseteq {0}
        /\ \A q \in 1..Len(content) :
             /\ Holders(ReadEnd(q))' \subseteq Holders(ReadEnd(q))
             /\ Holders(WriteEnd(q))' \subseteq Holders(WriteEnd(q))
             /\ \A n \in Number : fds'[n] = ReadEnd(q) => fds[n] = ReadEnd(q)
    BY <2>1, <2>3, NewEnds
  <2>5. /\ Len(content') = Len(content) + 1 /\ Len(content) \in Nat
        /\ \A n \in Number :
             fds'[n] = IF n = low THEN ReadEnd(p) ELSE IF n = high THEN WriteEnd(p) ELSE fds[n]
    BY <2>1, AfterPipe DEF Inv2, Inv1, TypeOK
  <2>6. /\ low \in Number /\ high \in Number /\ low # high /\ fds[low] = Closed /\ fds[high] = Closed
        /\ p = Len(content) + 1
    BY <2>1, Standard DEF NewPipe
  <2>7. ASSUME NEW n \in Number, fds[n] # Closed PROVE fds'[n] = fds[n]
    BY <2>5, <2>6, <2>7
  <2>8. prev_fd # None =>
          prev_fd \in Number /\ fds[prev_fd] # Closed /\ fds'[prev_fd] = fds[prev_fd]
    BY <1>1, <2>7, Standard DEF Inv2, Inv1, Shell, Loop
  <2>9. Before'
    <3> SUFFICES ASSUME prev_fd # None PROVE Before'
      BY <2>3 DEF Before
    <3>1. PICK r \in 1..Len(content) :
            /\ fds[prev_fd] = ReadEnd(r) /\ Len(child) >= 1
            /\ \A n \in Number : fds[n] = ReadEnd(r) => n = prev_fd
            /\ Holders(WriteEnd(r)) \subseteq {Len(child)}
            /\ ~failed => Holders(ReadEnd(r)) \subseteq {0, Len(child)}
      BY <1>1 DEF Inv2, Pipes, Before
    <3>2. /\ r \in 1..Len(content') /\ fds'[prev_fd'] = ReadEnd(r) /\ Len(child') >= 1
          /\ \A n \in Number : fds'[n] = ReadEnd(r) => n = prev_fd'
      BY <2>3, <2>4, <2>5, <2>8, <3>1
    <3>3. /\ Holders(WriteEnd(r))' \subseteq {Len(child')}
          /\ ~failed' => Holders(ReadEnd(r))' \subseteq {0, Len(child')}
      BY <2>3, <2>4, <3>1
    <3> QED BY <3>2, <3>3 DEF Before
  <2>10. Behind'
    <3>1. p \in 1..Len(content') /\ fds'[low] = ReadEnd(p) /\ fds'[high] = WriteEnd(p)
      BY <2>5, <2>6
    <3> QED BY <2>2, <2>4, <3>1 DEF Behind
  <2>11. ASSUME NEW c \in DOMAIN child PROVE Stage(c)'
    <3>1. Len(content) \in Nat /\ Len(content') \in Nat /\ Len(content) <= Len(content')
      BY <2>5
    <3>2. ASSUME NEW q \in 1..Len(content)
          PROVE  /\ Reader(c, q) => Reader(c, q)'
                 /\ \A self \in {{}, {c}} : Writer(c, q, self) => Writer(c, q, self)'
      <4>1. Reader(c, q) => Reader(c, q)'
        BY <2>4 DEF Reader
      <4>2. ASSUME NEW self, Writer(c, q, self) PROVE Writer(c, q, self)'
        BY <2>3, <2>4, <2>8, <4>2 DEF Writer
      <4> QED BY <4>1, <4>2
    <3>3. Pipes /\ child'[c] = child[c] /\ (failed => failed')
      BY <2>3 DEF Inv2
    <3> QED BY <3>1, <3>2, <3>3, StageKept
  <2> QED BY <2>3, <2>4, <2>9, <2>10, <2>11 DEF Pipes
<1> QED BY <1>2, <1>3 DEF MakePipe

\* A stage is forked with all that the shell has open, which then closes some of it.
Forking(k, ns) ==
  /\ Looping /\ k \in Child /\ k.fds = fds
  /\ child' = Append(child, k)
  /\ fds' = Close(fds, ns) /\ prev_fd \in ns
  /\ UNCHANGED <<content, failed>>

LEMMA ForkedHolders ==
  ASSUME Inv2, NEW k, NEW ns, Forking(k, ns)
  PROVE  /\ DOMAIN child' = DOMAIN child \cup {Len(child) + 1} /\ Len(child') = Len(child) + 1
         /\ DOMAIN child = 1..Len(child) /\ Len(child) \in Nat
         /\ child'[Len(child) + 1] = k /\ \A c \in DOMAIN child : child'[c] = child[c]
         /\ \A n \in Number : fds'[n] = IF n \in ns THEN Closed ELSE fds[n]
         /\ \A e : IsEnd(e) => \A c \in Holders(e)' :
              c \in Holders(e) \/ (c = Len(child) + 1 /\ 0 \in Holders(e))
         /\ \A e : IsEnd(e) => (0 \in Holders(e)' => \E n \in Number : n \notin ns /\ fds[n] = e)
<1>1. /\ DOMAIN child' = DOMAIN child \cup {Len(child) + 1} /\ Len(child') = Len(child) + 1
      /\ DOMAIN child = 1..Len(child) /\ Len(child) \in Nat
      /\ child'[Len(child) + 1] = k /\ \A c \in DOMAIN child : child'[c] = child[c]
  <2>1. child \in Seq(Child) /\ k \in Child /\ child' = Append(child, k)
    BY DEF Inv2, Inv1, TypeOK, Forking
  <2> QED BY <2>1
<1>2. \A n \in Number : fds'[n] = IF n \in ns THEN Closed ELSE fds[n]
  BY Closing DEF Forking, Inv2, Inv1, TypeOK
<1>3. ASSUME NEW e, IsEnd(e), NEW n \in Number, fds'[n] = e PROVE n \notin ns /\ fds[n] = e
  BY <1>2, <1>3 DEF IsEnd, Closed
<1>4. 0 \notin DOMAIN child'
  BY <1>1
<1>5. ASSUME NEW e, IsEnd(e), NEW c \in Holders(e)'
      PROVE  c \in Holders(e) \/ (c = Len(child) + 1 /\ 0 \in Holders(e))
  <2>1. CASE c = 0
    BY <1>3, <1>4, <1>5, <2>1, HolderIs, HolderNext
  <2>2. CASE c = Len(child) + 1
    <3>1. c # 0
      BY <1>1, <2>2
    <3> QED BY <1>1, <1>5, <2>2, <3>1, HolderIs, HolderNext DEF Forking
  <2>3. CASE c # 0 /\ c # Len(child) + 1
    BY <1>1, <1>5, <2>3, HolderIs, HolderNext
  <2> QED BY <2>1, <2>2, <2>3
<1>6. ASSUME NEW e, IsEnd(e), 0 \in Holders(e)' PROVE \E n \in Number : n \notin ns /\ fds[n] = e
  BY <1>3, <1>4, <1>6, HolderNext
<1> QED BY <1>1, <1>2, <1>5, <1>6

LEMMA ForkedPipes ==
  ASSUME Inv2, NEW k, NEW ns, Forking(k, ns)
  PROVE  Numbered' /\ \A c \in DOMAIN child : Stage(c)'
<1>1. /\ DOMAIN child' = DOMAIN child \cup {Len(child) + 1} /\ Len(child') = Len(child) + 1
      /\ DOMAIN child = 1..Len(child) /\ Len(child) \in Nat
      /\ child'[Len(child) + 1] = k /\ \A c \in DOMAIN child : child'[c] = child[c]
      /\ \A n \in Number : fds'[n] = IF n \in ns THEN Closed ELSE fds[n]
  BY ForkedHolders
<1>2. \A e : IsEnd(e) => \A c \in Holders(e)' :
        c \in Holders(e) \/ (c = Len(child) + 1 /\ 0 \in Holders(e))
  BY ForkedHolders
<1>3. \A e : IsEnd(e) => (0 \in Holders(e)' => \E n \in Number : n \notin ns /\ fds[n] = e)
  BY ForkedHolders
<1>4. Numbered'
  <2>1. /\ \A n \in Number : IsEnd(fds[n]) => fds[n].of \in 1..Len(content)
        /\ \A c \in DOMAIN child, n \in Number :
             IsEnd(child[c].fds[n]) => child[c].fds[n].of \in 1..Len(content)
    BY DEF Inv2, Pipes, Numbered
  <2>2. ~IsEnd(Closed) /\ content' = content /\ k.fds = fds
    BY DEF IsEnd, Closed, Forking
  <2>3. \A n \in Number : IsEnd(fds'[n]) => fds'[n].of \in 1..Len(content')
    BY <1>1, <2>1, <2>2
  <2>4. ASSUME NEW c \in DOMAIN child', NEW n \in Number, IsEnd(child'[c].fds[n])
        PROVE  child'[c].fds[n].of \in 1..Len(content')
    <3>1. CASE c \in DOMAIN child
      BY <1>1, <2>1, <2>2, <2>4, <3>1
    <3>2. CASE c = Len(child) + 1
      BY <1>1, <2>1, <2>2, <2>4, <3>2
    <3> QED BY <1>1, <3>1, <3>2
  <2> QED BY <2>3, <2>4 DEF Numbered
<1>5. ASSUME NEW c \in DOMAIN child PROVE Stage(c)'
  <2>1. Len(content) \in Nat /\ Len(content') \in Nat /\ Len(content) <= Len(content')
    BY DEF Forking, Inv2, Inv1, TypeOK
  <2>2. ASSUME NEW q \in 1..Len(content), Reader(c, q) PROVE Reader(c, q)'
    <3>1. c >= 2 /\ Holders(WriteEnd(q)) \subseteq {c - 1} /\ c \in Nat
      BY <1>1, <2>2 DEF Reader
    <3>2. 0 \notin Holders(WriteEnd(q))
      BY <3>1
    <3>3. Holders(WriteEnd(q))' \subseteq Holders(WriteEnd(q))
      BY <1>2, <3>2, EndsAreEnds
    <3> QED BY <3>1, <3>3 DEF Reader
  <2>3. ASSUME NEW q \in 1..Len(content), NEW self, Writer(c, q, self) PROVE Writer(c, q, self)'
    <3> SUFFICES ASSUME ~failed, ~failed' PROVE Writer(c, q, self)'
      BY DEF Writer, Forking
    <3>1. /\ Holders(ReadEnd(q)) \subseteq {0, c + 1} \cup self
          /\ 0 \in Holders(ReadEnd(q)) =>
               Looping /\ prev_fd # None /\ fds[prev_fd] = ReadEnd(q) /\ c = Len(child)
      BY <2>3 DEF Writer
    <3>2. Holders(ReadEnd(q))' \subseteq {0, c + 1} \cup self
      BY <1>2, <3>1, EndsAreEnds
    <3>3. 0 \notin Holders(ReadEnd(q))'
      <4> SUFFICES ASSUME 0 \in Holders(ReadEnd(q))' PROVE FALSE
        OBVIOUS
      <4>1. PICK n \in Number : n \notin ns /\ fds[n] = ReadEnd(q)
        BY <1>3, EndsAreEnds
      <4>2. 0 \in Holders(ReadEnd(q))
        BY <4>1, HolderIs
      <4>3. PICK r \in 1..Len(content) :
              fds[prev_fd] = ReadEnd(r) /\ \A m \in Number : fds[m] = ReadEnd(r) => m = prev_fd
        BY <3>1, <4>2 DEF Inv2, Pipes, Before
      <4>4. n = prev_fd
        BY <3>1, <4>1, <4>2, <4>3
      <4> QED BY <4>1, <4>4 DEF Forking
    <3> QED BY <3>2, <3>3 DEF Writer
  <2>4. Pipes /\ child'[c] = child[c] /\ (failed => failed')
    BY <1>1 DEF Inv2, Forking
  <2> QED BY <2>1, <2>2, <2>3, <2>4, StageKept
<1> QED BY <1>4, <1>5

\* The new stage.
LEMMA NewStagePipes ==
  ASSUME Inv2, NEW w \in Writes, NEW ns, Forking(NewChild(cmd, w), ns),
         NEW c, c = Len(child) + 1, pc = "fork" \/ cmd = stages,
         cmd # stages =>
           \E q \in 1..Len(content) :
             /\ fds[pipefd.read] = ReadEnd(q) /\ fds[pipefd.write] = WriteEnd(q)
             /\ \A n \in Number : fds[n] = ReadEnd(q) => n = pipefd.read
             /\ Writer(c, q, {c})'
  PROVE  Stage(c)'
<1> DEFINE k == NewChild(cmd, w)
<1>1. /\ k.at = "forked" /\ k.fds = fds /\ k.input = prev_fd /\ k.pipe = pipefd
      /\ k.last = (cmd = stages) /\ k.errors = error_pipe.write
  BY DEF NewChild
<1> HIDE DEF k
<1>2. /\ DOMAIN child' = DOMAIN child \cup {c} /\ child'[c] = k /\ Len(child) \in Nat
      /\ \A e : IsEnd(e) => \A d \in Holders(e)' : d \in Holders(e) \/ (d = c /\ 0 \in Holders(e))
  BY ForkedHolders DEF k
<1>3. Looping /\ UNCHANGED content
  BY DEF Forking
<1>4. \A n \in 0..2 : k.fds[n] = Terminal
  BY <1>1 DEF Inv2, Inv1, Shell
<1>5. ASSUME prev_fd # None
      PROVE  prev_fd \in Beyond /\ \E p \in 1..Len(content) : fds[prev_fd] = ReadEnd(p) /\ Reader(c, p)'
  <2>1. PICK p \in 1..Len(content) :
          /\ fds[prev_fd] = ReadEnd(p) /\ Len(child) >= 1
          /\ Holders(WriteEnd(p)) \subseteq {Len(child)}
    BY <1>3, <1>5 DEF Inv2, Pipes, Before
  <2>2. 0 \notin Holders(WriteEnd(p)) /\ c >= 2 /\ c - 1 = Len(child)
    BY <1>2, <2>1
  <2>3. Holders(WriteEnd(p))' \subseteq {c - 1}
    BY <1>2, <2>1, <2>2, EndsAreEnds
  <2>4. Reader(c, p)'
    BY <2>2, <2>3 DEF Reader
  <2>5. prev_fd \in Beyond
    BY <1>3, <1>5 DEF Inv2, Inv1, Shell, Loop
  <2> QED BY <2>1, <2>4, <2>5
<1>6. ASSUME ~failed PROVE Inherits(k)
  <2>1. ErrorPipe /\ Loop /\ pc \in {"pipe", "fork"}
    BY <1>3 DEF Inv2, Inv1, Shell, Looping
  <2>2. \A n \in Beyond : fds[n] # Closed => n \in Held
    BY <1>6 DEF Inv2, Inv1, Shell
  <2>3. Joins(k) = {prev_fd} \cup IF pc = "fork" THEN {pipefd.read, pipefd.write} ELSE {}
    <3>1. stages \in Nat /\ cmd \in Nat
      BY DEF Inv2, Inv1, TypeOK
    <3>2. pc = "fork" => cmd # stages
      BY <2>1, <3>1 DEF Loop
    <3> QED BY <1>1, <3>2 DEF Joins
  <2>4. Held \ Joins(k) \subseteq {error_pipe.read, error_pipe.write}
    BY <2>1, <2>3 DEF Held
  <2>5. error_pipe.write \in Beyond \ Joins(k)
    <3>1. prev_fd # error_pipe.write
      BY <2>1, Standard DEF Loop, ErrorPipe
    <3> QED BY <2>1, <2>3, <3>1 DEF Loop, ErrorPipe
  <2>6. fds[error_pipe.read].of = fds[error_pipe.write].of
    BY <2>1, EndsAreEnds DEF ErrorPipe
  <2>7. ASSUME NEW n \in Beyond \ Joins(k), IsEnd(fds[n]) PROVE fds[n].of = fds[error_pipe.write].of
    <3>1. fds[n] # Closed
      BY <2>7 DEF IsEnd, Closed
    <3> QED BY <2>2, <2>4, <2>6, <2>7, <3>1
  <2> QED BY <1>1, <2>5, <2>7 DEF Inherits
<1>7. Forked(c)'
  <2>1. child'[c] = k /\ Len(content') = Len(content) /\ failed' = failed
    BY <1>2, <1>3 DEF Forking
  <2>2. \A n \in 0..2 : child'[c].fds[n] = Terminal
    BY <1>4, <2>1
  <2>3. child'[c].input # None =>
          /\ child'[c].input \in Beyond
          /\ \E p \in 1..Len(content') : child'[c].fds[child'[c].input] = ReadEnd(p) /\ Reader(c, p)'
    BY <1>1, <1>5, <2>1
  <2>4. ~child'[c].last =>
          \E q \in 1..Len(content') :
            /\ child'[c].fds[child'[c].pipe.read] = ReadEnd(q)
            /\ child'[c].fds[child'[c].pipe.write] = WriteEnd(q)
            /\ \A n \in Number : child'[c].fds[n] = ReadEnd(q) => n = child'[c].pipe.read
            /\ Writer(c, q, {c})'
    BY <1>1, <2>1
  <2>5. ~failed' => Inherits(child'[c])
    BY <1>6, <2>1
  <2> QED BY <2>2, <2>3, <2>4, <2>5 DEF Forked
<1> QED BY <1>1, <1>2, <1>7 DEF Stage

LEMMA ForkLastPipes == Inv2 /\ ForkLast => Pipes'
<1> SUFFICES ASSUME Inv2, ForkLast PROVE Pipes'
  OBVIOUS
<1>1. pc = "pipe" /\ Looping /\ cmd = stages
  BY DEF ForkLast, Looping
<1>2. CASE GiveUp
  BY <1>2, GiveUpPipes
<1>3. ASSUME NEW w \in Writes,
             /\ child' = Append(child, NewChild(cmd, w))
             /\ fds' = Close(fds, {prev_fd})
             /\ pc' = "wait"
             /\ UNCHANGED <<local, content, asked, told>>
      PROVE  Pipes'
  <2>1. Forking(NewChild(cmd, w), {prev_fd})
    <3>1. NewChild(cmd, w) \in Child
      BY <1>1, NewChildType DEF Inv2
    <3>2. NewChild(cmd, w).fds = fds
      BY DEF NewChild
    <3> QED BY <1>1, <1>3, <3>1, <3>2 DEF Forking, told
  <2>2. Numbered' /\ \A c \in DOMAIN child : Stage(c)'
    BY <2>1, ForkedPipes
  <2>3. PICK c : c = Len(child) + 1
    OBVIOUS
  <2>4. Stage(c)'
    BY <1>1, <2>1, <2>3, NewStagePipes
  <2>5. DOMAIN child' = DOMAIN child \cup {c}
    BY <2>1, <2>3, ForkedHolders
  <2>6. Before' /\ Behind'
    BY <1>3 DEF Before, Behind, Looping
  <2> QED BY <2>2, <2>4, <2>5, <2>6 DEF Pipes
<1> QED BY <1>2, <1>3 DEF ForkLast

LEMMA ForkStagePipes == Inv2 /\ ForkStage => Pipes'
<1> SUFFICES ASSUME Inv2, ForkStage PROVE Pipes'
  OBVIOUS
<1>1. pc = "fork" /\ Looping
  BY DEF ForkStage, Looping
<1>2. CASE GiveUp
  BY <1>2, GiveUpPipes
<1>3. ASSUME NEW w \in Writes,
             /\ child' = Append(child, NewChild(cmd, w))
             /\ fds' = Close(fds, {pipefd.write, prev_fd})
             /\ prev_fd' = pipefd.read
             /\ cmd' = cmd + 1
             /\ pc' = "pipe"
             /\ UNCHANGED <<stages, error_pipe, pipefd, content, asked, told>>
      PROVE  Pipes'
  <2> DEFINE ns == {pipefd.write, prev_fd}
  <2>1. Forking(NewChild(cmd, w), ns)
    <3>1. NewChild(cmd, w) \in Child
      BY <1>1, NewChildType DEF Inv2
    <3>2. NewChild(cmd, w).fds = fds
      BY DEF NewChild
    <3> QED BY <1>1, <1>3, <3>1, <3>2 DEF Forking, told
  <2> HIDE DEF ns
  <2>2. Numbered' /\ \A c \in DOMAIN child : Stage(c)'
    BY <2>1, ForkedPipes
  <2>3. PICK c : c = Len(child) + 1
    OBVIOUS
  <2>4. /\ DOMAIN child' = DOMAIN child \cup {c} /\ Len(child') = c /\ Len(child) \in Nat
        /\ DOMAIN child = 1..Len(child)
        /\ \A n \in Number : fds'[n] = IF n \in ns THEN Closed ELSE fds[n]
        /\ \A e : IsEnd(e) => \A d \in Holders(e)' : d \in Holders(e) \/ (d = c /\ 0 \in Holders(e))
        /\ \A e : IsEnd(e) => (0 \in Holders(e)' => \E n \in Number : n \notin ns /\ fds[n] = e)
    BY <2>1, <2>3, ForkedHolders
  <2>5. /\ pipefd.read \in Number /\ pipefd.read \notin ns /\ prev_fd' # None /\ pipefd.write \in ns
    BY <1>1, <1>3, Standard DEF Inv2, Inv1, Shell, Loop, ns
  <2>6. PICK q \in 1..Len(content) :
          /\ fds[pipefd.read] = ReadEnd(q) /\ fds[pipefd.write] = WriteEnd(q)
          /\ \A n \in Number : fds[n] = ReadEnd(q) => n = pipefd.read
          /\ \A n \in Number : fds[n] = WriteEnd(q) => n = pipefd.write
          /\ Holders(ReadEnd(q)) \subseteq {0} /\ Holders(WriteEnd(q)) \subseteq {0}
    BY <1>1 DEF Inv2, Pipes, Behind
  <2>7. /\ fds'[prev_fd'] = ReadEnd(q) /\ Looping'
        /\ \A n \in Number : fds'[n] = ReadEnd(q) => n = prev_fd'
    <3>1. ReadEnd(q) # Closed
      BY DEF ReadEnd, Closed
    <3> QED BY <1>3, <2>4, <2>5, <2>6, <3>1 DEF Looping
  <2>8. Holders(ReadEnd(q))' \subseteq {0, c}
    BY <2>4, <2>6, EndsAreEnds
  <2>9. Holders(WriteEnd(q))' \subseteq {c}
    <3>1. 0 \notin Holders(WriteEnd(q))'
      BY <2>4, <2>5, <2>6, EndsAreEnds
    <3> QED BY <2>4, <2>6, <3>1, EndsAreEnds
  <2>10. Stage(c)'
    <3>1. Writer(c, q, {c})'
      BY <2>4, <2>5, <2>7, <2>8 DEF Writer
    <3> QED BY <1>1, <2>1, <2>3, <2>6, <3>1, NewStagePipes
  <2>11. Before'
    <3>1. q \in 1..Len(content') /\ Len(child') >= 1
      BY <1>3, <2>3, <2>4
    <3> QED BY <2>4, <2>7, <2>8, <2>9, <3>1 DEF Before
  <2>12. Behind'
    BY <1>3 DEF Behind
  <2> QED BY <2>2, <2>4, <2>10, <2>11, <2>12 DEF Pipes
<1> QED BY <1>2, <1>3 DEF ForkStage

-----------------------------------------------------------------------------
(* Results about the pipes.                                                    *)
\* What each stage may read and write of pipes, from its fork to its end, and what of
\* them the shell still has: the invariant that PipesBelong needs.
THEOREM PipesInvariance == Spec => []Inv2
<1>1. Init => Inv2
  BY InitialShell, InitialPipes DEF Inv2
<1>2. Inv2 /\ [Next]_vars => Inv2'
  <2> SUFFICES ASSUME Inv2, [Next]_vars PROVE Pipes'
    BY ShellStepKeeps DEF Inv2
  <2>2. CASE \E n \in 2..MaxStages : Begin(n)
    BY <2>2, BeginPipes
  <2>3. CASE ShellStep
    BY <2>3, MakePipePipes, ForkStagePipes, ForkLastPipes, WaitForAllPipes, DrainPipes DEF ShellStep
  <2>4. CASE \E c \in DOMAIN child : ChildStep(c) \/ Quit(c)
    BY <2>4, ChildStepPipes
  <2>5. CASE UNCHANGED vars
    <3>1. UNCHANGED <<fds, child, content, pc, prev_fd, pipefd, failed>> /\ Pipes
      BY <2>5 DEF vars, local, told, Inv2
    <3>2. Numbered' /\ \A e : Holders(e)' = Holders(e)
      <4>1. Numbered'
        BY <3>1 DEF Pipes, Numbered
      <4>2. \A e : Holders(e)' = Holders(e)
        BY <3>1 DEF Holders
      <4> QED BY <4>1, <4>2
    <3>3. Before' /\ Behind'
      BY <3>1, <3>2 DEF Pipes, Before, Behind, Looping
    <3>4. \A c, p : Reader(c, p)' <=> Reader(c, p)
      BY <3>1, <3>2 DEF Reader
    <3>5. \A c, p, self : Writer(c, p, self)' <=> Writer(c, p, self)
      BY <3>1, <3>2 DEF Writer, Looping
    <3>6. ASSUME NEW c \in DOMAIN child PROVE Stage(c)'
      <4>1. Len(content) \in Nat /\ Len(content') \in Nat /\ Len(content) <= Len(content')
        BY <3>1 DEF Inv2, Inv1, TypeOK
      <4> QED BY <3>1, <3>4, <3>5, <4>1, StageKept
    <3> QED BY <3>1, <3>2, <3>3, <3>6 DEF Pipes
  <2> QED BY <2>2, <2>3, <2>4, <2>5 DEF Next
<1> QED BY <1>1, <1>2, PTL DEF Spec

\* A pipe between two stages is held by these two and nobody else, for any number of
\* stages and pipelines and whatever their redirections; a stage that duplicates a
\* number beyond 2 reaches the error pipe and no other, as long as nothing has failed.
THEOREM PipesBelong == Spec => []PipesBelongToTheirStages
<1>1. Inv2 => PipesBelongToTheirStages
  <2> SUFFICES ASSUME Inv2, NEW c \in DOMAIN child, child[c].at = "runs"
               PROVE  /\ Input(c).kind = "read" =>
                           \/ Holders(WriteEnd(Input(c).of)) \subseteq {c - 1}
                           \/ child[c].far /\ (failed \/ Input(c).of = Own(c))
                      /\ (Output(c).kind = "write" /\ ~failed) =>
                           \/ /\ Holders(ReadEnd(Output(c).of)) \subseteq {0, c + 1}
                              /\ 0 \in Holders(ReadEnd(Output(c).of)) =>
                                   pc \in {"pipe", "fork"} /\ fds[prev_fd] = ReadEnd(Output(c).of)
                           \/ child[c].far /\ Output(c).of = Own(c)
    BY DEF Inv2, Inv1, PipesBelongToTheirStages
  <2>1. Started(c)
    BY DEF Inv2, Pipes, Stage
  <2>2. Input(c).kind = "read" =>
          Reader(c, Input(c).of) \/ (child[c].far /\ (failed \/ Input(c).of = Own(c)))
    BY <2>1 DEF Started, Input, STDIN_FILENO
  <2>3. Output(c).kind = "write" =>
          Writer(c, Output(c).of, {}) \/ (child[c].far /\ Output(c).of = Own(c))
    BY <2>1 DEF Started, Output, STDOUT_FILENO
  <2> QED BY <2>2, <2>3 DEF Reader, Writer, Looping
<1> QED BY <1>1, PipesInvariance, PTL

-----------------------------------------------------------------------------
(* What the stages complain about.                                             *)
\* Of no stage is the error pipe its output, unless it was told so.
Apart(k, p) ==
  /\ k.at = "forked" /\ ~k.last => k.fds[k.pipe.write] # WriteEnd(p)
  /\ k.at \in {"runs", "complains"} /\ ~k.far => \A n \in 0..2 : k.fds[n] # WriteEnd(p)

\* p is the error pipe, and what it holds is what has been neither shown nor taken.
Errors(p) ==
  /\ fds[error_pipe.read] = ReadEnd(p)
  /\ complaints = shown + taken + content[p]
  /\ pc = "drain" => child = <<>>
  /\ pc # "drain" => /\ fds[error_pipe.write] = WriteEnd(p)
                     /\ \A c \in DOMAIN child : Apart(child[c], p)

Inv3 == Inv2 /\ (pc # "prompt" => \E p \in 1..Len(content) : Errors(p))

\* Only the ends of pipes matter, and an end is of one pipe.
LEMMA EndsDiffer ==
  \A p, q : /\ ReadEnd(p) # WriteEnd(q)
            /\ ReadEnd(p) = ReadEnd(q) => p = q
            /\ WriteEnd(p) = WriteEnd(q) => p = q
BY DEF ReadEnd, WriteEnd

\* A pipeline is begun: no stage there is has the new pipe.
LEMMA BeginErrors ==
  ASSUME NEW n \in 2..MaxStages, Inv2, Begin(n), pc' # "prompt"
  PROVE  \E p \in 1..Len(content') : Errors(p)'
<1>0. /\ NewPipe(Lowest(fds), Second(fds), Len(content) + 1)
      /\ error_pipe' = [read |-> Lowest(fds), write |-> Second(fds)]
      /\ pc' = "pipe" /\ complaints' = 0 /\ shown' = 0 /\ taken' = 0 /\ UNCHANGED child
  BY PipeMade DEF Begin, Inv2
<1>1. PICK low, high, p :
        /\ NewPipe(low, high, p) /\ error_pipe' = [read |-> low, write |-> high]
        /\ pc' = "pipe" /\ complaints' = 0 /\ shown' = 0 /\ taken' = 0 /\ UNCHANGED child
  BY <1>0
<1>2. /\ Len(content') = Len(content) + 1 /\ Len(content) \in Nat
      /\ \A m \in Number :
           fds'[m] = IF m = low THEN ReadEnd(p) ELSE IF m = high THEN WriteEnd(p) ELSE fds[m]
  BY <1>1, AfterPipe DEF Inv2, Inv1, TypeOK
<1>3. /\ low \in Number /\ high \in Number /\ low # high
      /\ p = Len(content) + 1 /\ content' = Append(content, 0)
  BY <1>1, Standard DEF NewPipe
<1>4. p \in 1..Len(content') /\ p \notin 1..Len(content) /\ content'[p] = 0
  BY <1>2, <1>3 DEF Inv2, Inv1, TypeOK
<1>5. fds'[error_pipe.read'] = ReadEnd(p) /\ fds'[error_pipe.write'] = WriteEnd(p)
  BY <1>1, <1>2, <1>3
<1>6. ASSUME NEW c \in DOMAIN child PROVE Apart(child[c], p)
  <2>1. \A m \in Number : child[c].fds[m] # WriteEnd(p)
    BY <1>4, EndsAreEnds DEF Inv2, Pipes, Numbered
  <2>2. child[c].at = "forked" /\ ~child[c].last => child[c].pipe.write \in Number
    BY Standard DEF Inv2, Inv1, Shell
  <2> QED BY <2>1, <2>2, Standard DEF Apart
<1>7. Errors(p)'
  BY <1>1, <1>4, <1>5, <1>6 DEF Errors
<1> QED BY <1>4, <1>7

LEMMA MakePipeErrors ==
  ASSUME Inv2, NEW p \in 1..Len(content), Errors(p), MakePipe, pc' # "prompt"
  PROVE  Errors(p)' /\ p \in 1..Len(content')
<1> DEFINE low == Lowest(fds)
           high == Second(fds)
           q == Len(content) + 1
<1>1. /\ NewPipe(low, high, q) /\ pc = "pipe" /\ pc' = "fork"
      /\ UNCHANGED <<error_pipe, child, complaints, shown, taken>>
  BY PipeMade DEF MakePipe, GiveUp, Return, Inv2, told
<1> HIDE DEF low, high, q
<1>2. /\ Len(content') = Len(content) + 1 /\ Len(content) \in Nat
      /\ \A m \in Number :
           fds'[m] = IF m = low THEN ReadEnd(q) ELSE IF m = high THEN WriteEnd(q) ELSE fds[m]
  BY <1>1, AfterPipe DEF Inv2, Inv1, TypeOK
<1>3. fds[low] = Closed /\ fds[high] = Closed /\ content' = Append(content, 0)
  BY <1>1 DEF NewPipe
<1>4. p \in 1..Len(content') /\ content'[p] = content[p]
  BY <1>2, <1>3 DEF Inv2, Inv1, TypeOK
<1>5. /\ fds[error_pipe.read] = ReadEnd(p) /\ fds[error_pipe.write] = WriteEnd(p)
      /\ complaints = shown + taken + content[p] /\ \A c \in DOMAIN child : Apart(child[c], p)
  BY <1>1 DEF Errors
<1>6. /\ error_pipe.read \in Number /\ error_pipe.write \in Number
      /\ ReadEnd(p) # Closed /\ WriteEnd(p) # Closed
  <2>1. error_pipe.read \in Number /\ error_pipe.write \in Number
    BY <1>1, Standard DEF Inv2, Inv1, Shell, ErrorPipe
  <2>2. ReadEnd(p) # Closed /\ WriteEnd(p) # Closed
    BY DEF ReadEnd, WriteEnd, Closed
  <2> QED BY <2>1, <2>2
<1>7. fds'[error_pipe.read] = ReadEnd(p) /\ fds'[error_pipe.write] = WriteEnd(p)
  BY <1>2, <1>3, <1>5, <1>6
<1>8. Errors(p)'
  BY <1>1, <1>4, <1>5, <1>7 DEF Errors
<1> QED BY <1>4, <1>8

\* The output of a new stage is not the error pipe: its end is at one number only.
LEMMA NewStageApart ==
  ASSUME Inv2, Looping, NEW p \in 1..Len(content), Errors(p), NEW w \in Writes,
         pc = "fork" \/ cmd = stages
  PROVE  Apart(NewChild(cmd, w), p)
<1> DEFINE k == NewChild(cmd, w)
<1>1. k.at = "forked" /\ k.fds = fds /\ k.pipe = pipefd /\ k.last = (cmd = stages)
  BY DEF NewChild
<1> HIDE DEF k
<1>2. SUFFICES ASSUME pc = "fork" PROVE fds[pipefd.write] # WriteEnd(p)
  BY <1>1 DEF Apart, k
<1>3. PICK q \in 1..Len(content) :
        /\ fds[pipefd.write] = WriteEnd(q)
        /\ \A n \in Number : fds[n] = WriteEnd(q) => n = pipefd.write
  BY <1>2 DEF Inv2, Pipes, Behind
<1>4. fds[error_pipe.write] = WriteEnd(p)
  BY <1>2 DEF Errors
<1>5. error_pipe.write \in Number /\ error_pipe.write # pipefd.write
  BY <1>2, Standard DEF Inv2, Inv1, Shell, Loop, ErrorPipe, Looping
<1> QED BY <1>3, <1>4, <1>5

LEMMA ForkErrors ==
  ASSUME Inv2, NEW p \in 1..Len(content), Errors(p), pc' \in {"pipe", "wait"},
         NEW k, NEW ns, Forking(k, ns), Apart(k, p),
         error_pipe.read \notin ns, error_pipe.write \notin ns,
         UNCHANGED <<error_pipe, complaints, shown, taken>>
  PROVE  Errors(p)' /\ p \in 1..Len(content')
<1>1. /\ DOMAIN child' = DOMAIN child \cup {Len(child) + 1}
      /\ child'[Len(child) + 1] = k /\ \A c \in DOMAIN child : child'[c] = child[c]
      /\ \A n \in Number : fds'[n] = IF n \in ns THEN Closed ELSE fds[n]
  BY ForkedHolders
<1>2. Looping /\ UNCHANGED content
  BY DEF Forking
<1>3. error_pipe.read \in Number /\ error_pipe.write \in Number
  BY <1>2, Standard DEF Inv2, Inv1, Shell, ErrorPipe, Looping
<1>4. /\ fds[error_pipe.read] = ReadEnd(p) /\ fds[error_pipe.write] = WriteEnd(p)
      /\ complaints = shown + taken + content[p] /\ \A c \in DOMAIN child : Apart(child[c], p)
  BY <1>2 DEF Errors, Looping
<1>5. \A c \in DOMAIN child' : Apart(child'[c], p)
  BY <1>1, <1>4
<1>6. Errors(p)'
  BY <1>1, <1>2, <1>3, <1>4, <1>5 DEF Errors
<1> QED BY <1>2, <1>6

LEMMA ForkStageErrors ==
  ASSUME Inv2, NEW p \in 1..Len(content), Errors(p), ForkStage, pc' # "prompt"
  PROVE  Errors(p)' /\ p \in 1..Len(content')
<1>1. PICK w \in Writes :
        /\ child' = Append(child, NewChild(cmd, w))
        /\ fds' = Close(fds, {pipefd.write, prev_fd})
        /\ pc' = "pipe"
        /\ UNCHANGED <<error_pipe, content, told>>
  BY DEF ForkStage, GiveUp, Return
<1>2. pc = "fork" /\ Looping
  BY DEF ForkStage, Looping
<1>3. Forking(NewChild(cmd, w), {pipefd.write, prev_fd})
  <2>1. NewChild(cmd, w) \in Child
    BY <1>2, NewChildType DEF Inv2
  <2>2. NewChild(cmd, w).fds = fds
    BY DEF NewChild
  <2> QED BY <1>1, <1>2, <2>1, <2>2 DEF Forking, told
<1>4. Apart(NewChild(cmd, w), p)
  BY <1>2, NewStageApart
<1>5. error_pipe.read \notin {pipefd.write, prev_fd} /\ error_pipe.write \notin {pipefd.write, prev_fd}
  BY <1>2, Standard DEF Inv2, Inv1, Shell, Loop, ErrorPipe
<1> QED BY <1>1, <1>3, <1>4, <1>5, ForkErrors DEF told

LEMMA ForkLastErrors ==
  ASSUME Inv2, NEW p \in 1..Len(content), Errors(p), ForkLast, pc' # "prompt"
  PROVE  Errors(p)' /\ p \in 1..Len(content')
<1>1. PICK w \in Writes :
        /\ child' = Append(child, NewChild(cmd, w))
        /\ fds' = Close(fds, {prev_fd})
        /\ pc' = "wait"
        /\ UNCHANGED <<local, content, told>>
  BY DEF ForkLast, GiveUp, Return
<1>2. pc = "pipe" /\ cmd = stages /\ Looping
  BY DEF ForkLast, Looping
<1>3. Forking(NewChild(cmd, w), {prev_fd})
  <2>1. NewChild(cmd, w) \in Child
    BY <1>2, NewChildType DEF Inv2
  <2>2. NewChild(cmd, w).fds = fds
    BY DEF NewChild
  <2> QED BY <1>1, <1>2, <2>1, <2>2 DEF Forking, told
<1>4. Apart(NewChild(cmd, w), p)
  BY <1>2, NewStageApart
<1>5. error_pipe.read \notin {prev_fd} /\ error_pipe.write \notin {prev_fd}
  BY <1>2, Standard DEF Inv2, Inv1, Shell, Loop, ErrorPipe
<1> QED BY <1>1, <1>3, <1>4, <1>5, ForkErrors DEF told, local

LEMMA WaitForAllErrors ==
  ASSUME Inv2, NEW p \in 1..Len(content), Errors(p), WaitForAll
  PROVE  Errors(p)' /\ p \in 1..Len(content')
<1>1. /\ pc = "wait" /\ pc' = "drain" /\ child' = <<>>
      /\ UNCHANGED <<error_pipe, content, complaints, shown, taken>>
  BY DEF WaitForAll, local, told
<1>2. \A n \in Number : fds'[n] = IF n = error_pipe.write THEN Closed ELSE fds[n]
  BY Closing DEF WaitForAll, Inv2, Inv1, TypeOK
<1>3. error_pipe.read \in Number /\ error_pipe.read # error_pipe.write
  BY <1>1, Standard DEF Inv2, Inv1, Shell, ErrorPipe
<1>4. Errors(p)'
  BY <1>1, <1>2, <1>3 DEF Errors
<1> QED BY <1>1, <1>4

LEMMA DrainErrors ==
  ASSUME Inv2, NEW p \in 1..Len(content), Errors(p), Drain, pc' # "prompt"
  PROVE  Errors(p)' /\ p \in 1..Len(content')
<1>1. fds[error_pipe.read] = ReadEnd(p) /\ ReadEnd(p).of = p /\ child = <<>>
      /\ complaints = shown + taken + content[p]
  BY EndsAreEnds DEF Errors, Drain
<1>2. /\ content' = [content EXCEPT ![p] = 0] /\ shown' = shown + content[p]
      /\ pc = "drain" /\ UNCHANGED <<fds, pc, error_pipe, child, complaints, taken>>
  BY <1>1 DEF Drain, Return, local
<1>3. content \in Seq(0..Capacity) /\ shown \in Nat /\ taken \in Nat /\ p \in DOMAIN content
  BY DEF Inv2, Inv1, TypeOK
<1>4. content[p] \in Nat /\ content'[p] = 0 /\ Len(content') = Len(content)
  BY <1>2, <1>3, SizeAssumption
<1>5. complaints' = shown' + taken' + content'[p]
  BY <1>1, <1>2, <1>3, <1>4
<1>6. Errors(p)'
  BY <1>1, <1>2, <1>5 DEF Errors
<1> QED BY <1>4, <1>6

\* No program has the error pipe as its input, unless it was told so: the shell could
\* still write into it.
LEMMA InputApart ==
  ASSUME Inv2, NEW p, Errors(p), NEW c \in DOMAIN child,
         child[c].at = "runs", Input(c).kind = "read", ~child[c].far
  PROVE  Looping \/ pc = "wait" => Input(c).of # p
<1> SUFFICES ASSUME Looping \/ pc = "wait", Input(c).of = p PROVE FALSE
  OBVIOUS
<1>1. Started(c)
  BY DEF Inv2, Pipes, Stage
<1>2. Reader(c, p)
  BY <1>1 DEF Started, Input, STDIN_FILENO
<1>3. error_pipe.write \in Number /\ fds[error_pipe.write] = WriteEnd(p)
  BY Standard DEF Errors, Inv2, Inv1, Shell, ErrorPipe, Looping
<1>4. 0 \in Holders(WriteEnd(p))
  BY <1>3, HolderIs
<1>5. c \in Nat
  BY DEF Inv2, Inv1, TypeOK
<1> QED BY <1>2, <1>4, <1>5 DEF Reader

\* A stage that starts has no error pipe as its output, if it had none when forked and
\* asks for none.
LEMMA StartedApart ==
  ASSUME Inv2, NEW p, NEW c \in DOMAIN child, child[c].at = "forked", Apart(child[c], p),
         NEW t, Below(t, Joined(c)), NEW far, ~far => Near(t, Joined(c)),
         NEW k, k.fds = t, k.far = far, k.at \in {"runs", "complains"}
  PROVE  Apart(k, p)
<1>1. SUFFICES ASSUME NEW n \in 0..2, t[n] = WriteEnd(p), ~far PROVE FALSE
  BY DEF Apart
<1>2. \/ child[c].input # None /\ t[n] = child[c].fds[child[c].input]
      \/ ~child[c].last /\ t[n] = child[c].fds[child[c].pipe.write]
  BY <1>1, StartedEnds, EndsAreEnds
<1>3. child[c].input # None => \E q : child[c].fds[child[c].input] = ReadEnd(q)
  BY DEF Inv2, Pipes, Stage, Forked
<1> QED BY <1>1, <1>2, <1>3, EndsDiffer DEF Apart

\* What a stage becomes, and what that does to the error pipe.
LEMMA ChildErrors ==
  ASSUME Inv2, NEW p \in 1..Len(content), Errors(p),
         NEW c \in DOMAIN child, ChildStep(c) \/ Quit(c), Looping \/ pc = "wait"
  PROVE  \E k \in Child : child' = [child EXCEPT ![c] = k] /\ Apart(k, p)
<1>1. child[c] \in Child /\ child \in Seq(Child)
  BY DEF Inv2, Inv1, TypeOK
<1>2. Apart(child[c], p)
  BY DEF Errors, Looping
<1>3. CASE child' = Ended(c)
  <2>1. PICK k \in Child : k.at = "ended" /\ Ended(c) = [child EXCEPT ![c] = k]
    BY EndedChild DEF Inv2
  <2>2. Apart(k, p)
    BY <2>1 DEF Apart
  <2> QED BY <1>3, <2>1, <2>2
<1>4. CASE Start(c)
  <2>1. child[c].at = "forked" /\ Joined(c) \in Table
    BY <1>4, JoinedType DEF Start, Inv2
  <2>2. CASE \E rs, n : Begun(c, rs, n)
    <3>1. PICK rs, n : Begun(c, rs, n)
      BY <2>2
    <3>1a. PICK t : t = Redirected(Joined(c), rs)[n]
      OBVIOUS
    <3>1b. PICK far : far = Far(rs, n)
      OBVIOUS
    <3>2. PICK at \in {"runs", "complains"} :
            /\ t = Redirected(Joined(c), rs)[n] /\ far = Far(rs, n)
            /\ child' = [child EXCEPT ![c] = [child[c] EXCEPT !.fds = t, !.at = at, !.far = far]]
      BY <3>1, <3>1a, <3>1b DEF Begun
    <3>3. t \in Table /\ Below(t, Joined(c)) /\ far \in BOOLEAN /\ (~far => Near(t, Joined(c)))
      BY <2>1, <3>1, <3>2, RedirectedType, RedirectedKeeps DEF Begun, Far
    <3> DEFINE k == [child[c] EXCEPT !.fds = t, !.at = at, !.far = far]
    <3>4. k \in Child /\ k.fds = t /\ k.far = far /\ k.at \in {"runs", "complains"}
      BY <1>1, <3>3 DEF Child
    <3>5. child' = [child EXCEPT ![c] = k]
      BY <3>2
    <3> HIDE DEF k
    <3>6. Apart(k, p)
      BY <1>2, <2>1, <3>3, <3>4, StartedApart
    <3> QED BY <3>4, <3>5, <3>6
  <2> QED BY <1>3, <1>4, <2>2, StartsOrEnds
<1>5. CASE Complain(c) \/ End(c) \/ Quit(c)
  BY <1>3, <1>5 DEF Complain, End, Quit
<1>6. CASE Read(c)
  <2>1. child' = [child EXCEPT ![c] = child[c]]
    BY <1>1, <1>6 DEF Read
  <2> QED BY <1>1, <1>2, <2>1
<1>7. CASE Write(c) /\ child' # Ended(c)
  <2>1. PICK left : child' = [child EXCEPT ![c].writes = left] /\ left \in Nat
    <3>1. child[c].writes - 1 \in Nat
      BY <1>1, <1>7 DEF Write, Child
    <3> QED BY <1>7, <3>1 DEF Write
  <2> DEFINE k == [child[c] EXCEPT !.writes = left]
  <2>2. /\ k \in Child /\ k.fds = child[c].fds /\ k.far = child[c].far /\ k.at = child[c].at
        /\ child[c].at = "runs"
    BY <1>1, <1>7, <2>1 DEF Child, Write
  <2>3. child' = [child EXCEPT ![c] = k]
    BY <2>1
  <2> HIDE DEF k
  <2>4. Apart(k, p)
    BY <1>2, <2>2 DEF Apart
  <2> QED BY <2>2, <2>3, <2>4
<1> QED BY <1>3, <1>4, <1>5, <1>6, <1>7 DEF ChildStep

\* A message in the error pipe is one of the complaints, and only complaints are.
LEMMA MessagesCount ==
  ASSUME Inv2, NEW p \in 1..Len(content), Errors(p),
         NEW c \in DOMAIN child, ChildStep(c) \/ Quit(c), Looping \/ pc = "wait"
  PROVE  complaints' = shown + taken' + content'[p]
<1>1. /\ complaints = shown + taken + content[p] /\ fds[error_pipe.read] = ReadEnd(p)
      /\ \A n \in 0..2 : child[c].at = "runs" /\ ~child[c].far => child[c].fds[n] # WriteEnd(p)
  BY DEF Errors, Apart, Looping
<1>2. /\ content \in Seq(0..Capacity) /\ p \in DOMAIN content /\ shown \in Nat /\ taken \in Nat
      /\ content[p] \in Nat
  BY SizeAssumption DEF Inv2, Inv1, TypeOK
<1>3. \A q : Showing(q) <=> q = p
  <2>1. error_pipe.read \in Number
    BY Standard DEF Inv2, Inv1, Shell, ErrorPipe, Looping
  <2> QED BY <1>1, <2>1, EndsDiffer DEF Showing
<1>4. CASE UNCHANGED <<content, complaints, taken>>
  BY <1>1, <1>4
<1>5. CASE Complain(c)
  <2> DEFINE q == Own(c)
  <2>1. /\ content' = [content EXCEPT ![q] = content[q] + 1] /\ taken' = taken
        /\ complaints' = IF q = p THEN complaints + 1 ELSE complaints
    BY <1>3, <1>5 DEF Complain
  <2> HIDE DEF q
  <2>2. CASE q = p
    BY <1>1, <1>2, <2>1, <2>2
  <2>3. CASE q # p
    BY <1>1, <1>2, <2>1, <2>3
  <2> QED BY <2>2, <2>3
<1>6. CASE Read(c)
  <2> DEFINE q == Input(c).of
  <2>1. /\ content' = [content EXCEPT ![q] = content[q] - 1] /\ complaints' = complaints
        /\ content[q] > 0
        /\ taken' = IF child[c].far /\ q = p THEN taken + 1 ELSE taken
    BY <1>3, <1>6 DEF Read
  <2>2. ~child[c].far => q # p
    BY <1>6, InputApart DEF Read
  <2> HIDE DEF q
  <2>3. CASE q = p
    <3>1. taken' = taken + 1 /\ content'[p] = content[p] - 1
      BY <1>2, <2>1, <2>2, <2>3
    <3> QED BY <1>1, <1>2, <2>1, <3>1
  <2>4. CASE q # p
    BY <1>1, <1>2, <2>1, <2>4
  <2> QED BY <2>3, <2>4
<1>7. CASE Write(c) /\ ~UNCHANGED <<content, complaints>>
  <2> DEFINE q == Output(c).of
  <2>1. /\ Output(c).kind = "write" /\ content' = [content EXCEPT ![q] = content[q] + 1]
        /\ taken' = taken /\ child[c].at = "runs"
        /\ complaints' = IF child[c].far /\ q = p THEN complaints + 1 ELSE complaints
    BY <1>3, <1>7 DEF Write
  <2>2. ~child[c].far => q # p
    <3>1. Output(c) \in Open
      <4>0. child[c] \in Child
        BY DEF Inv2, Inv1, TypeOK
      <4>1. child[c].fds \in Table
        BY <4>0 DEF Child
      <4>2. Output(c) \in Open \cup {Closed}
        BY <4>1, Standard DEF Output, Table, STDOUT_FILENO
      <4> QED BY <2>1, <4>2 DEF Closed
    <3>2. Output(c) = WriteEnd(Output(c).of)
      BY <2>1, <3>1 DEF Open, WriteEnd
    <3> QED BY <1>1, <2>1, <3>2 DEF Output, STDOUT_FILENO
  <2> HIDE DEF q
  <2>3. CASE q = p
    <3>1. complaints' = complaints + 1 /\ content'[p] = content[p] + 1
      BY <1>2, <2>1, <2>2, <2>3
    <3> QED BY <1>1, <1>2, <2>1, <3>1
  <2>4. CASE q # p
    BY <1>1, <1>2, <2>1, <2>4
  <2> QED BY <2>3, <2>4
<1> QED BY <1>4, <1>5, <1>6, <1>7 DEF ChildStep, Start, Write, End, Quit, told

LEMMA ChildStepErrors ==
  ASSUME Inv2, NEW p \in 1..Len(content), Errors(p), pc # "prompt",
         NEW c \in DOMAIN child, ChildStep(c) \/ Quit(c)
  PROVE  Errors(p)' /\ p \in 1..Len(content')
<1>1. Looping \/ pc = "wait"
  BY DEF Errors, Inv2, Inv1, TypeOK, Looping
<1>2. PICK k \in Child : child' = [child EXCEPT ![c] = k] /\ Apart(k, p)
  BY <1>1, ChildErrors
<1>3. complaints' = shown + taken' + content'[p]
  BY <1>1, MessagesCount
<1>4. Len(content') = Len(content) /\ UNCHANGED <<fds, pc, error_pipe, shown>>
  BY ChildLeaves
<1>5. \A d \in DOMAIN child' : Apart(child'[d], p)
  <2>1. /\ DOMAIN child' = DOMAIN child
        /\ \A d \in DOMAIN child : child'[d] = IF d = c THEN k ELSE child[d]
    BY <1>2 DEF Inv2, Inv1, TypeOK
  <2> QED BY <1>1, <1>2, <2>1 DEF Errors, Looping
<1>6. Errors(p)'
  BY <1>1, <1>3, <1>4, <1>5 DEF Errors, Looping
<1> QED BY <1>4, <1>6

LEMMA ErrorsKept == Inv3 /\ Inv2' /\ [Next]_vars => Inv3'
<1> SUFFICES ASSUME Inv3, Inv2', [Next]_vars, pc' # "prompt"
             PROVE  \E p \in 1..Len(content') : Errors(p)'
  BY DEF Inv3
<1>1. CASE \E n \in 2..MaxStages : Begin(n)
  BY <1>1, BeginErrors DEF Inv3
<1>2. CASE pc # "prompt"
  <2>1. PICK p \in 1..Len(content) : Errors(p)
    BY <1>2 DEF Inv3
  <2>2. CASE ShellStep
    BY <2>1, <2>2, MakePipeErrors, ForkStageErrors, ForkLastErrors, WaitForAllErrors, DrainErrors
       DEF Inv3, ShellStep
  <2>3. CASE \E c \in DOMAIN child : ChildStep(c) \/ Quit(c)
    BY <1>2, <2>1, <2>3, ChildStepErrors DEF Inv3
  <2>4. CASE UNCHANGED vars
    <3>1. UNCHANGED <<fds, pc, error_pipe, child, content, complaints, shown, taken>>
      BY <2>4 DEF vars, local, told
    <3>2. Errors(p)'
      BY <2>1, <3>1 DEF Errors
    <3> QED BY <3>1, <3>2
  <2> QED BY <1>1, <2>2, <2>3, <2>4 DEF Next
<1>3. CASE pc = "prompt" /\ ~ \E n \in 2..MaxStages : Begin(n)
  <2>1. pc' = pc
    BY <1>3 DEF Next, ShellStep, MakePipe, ForkStage, ForkLast, WaitForAll, Drain, vars,
               ChildStep, Start, Complain, Read, Write, End, Quit
  <2> QED BY <1>3, <2>1
<1> QED BY <1>1, <1>2, <1>3

LEMMA AllShown == Inv3 /\ [Next]_vars => [(pc = "drain" /\ pc' = "prompt") => shown + taken = complaints]_vars
<1> SUFFICES ASSUME Inv3, [Next]_vars, pc = "drain", pc' = "prompt" PROVE shown + taken = complaints
  OBVIOUS
<1>1. PICK p \in 1..Len(content) : Errors(p)
  BY DEF Inv3
<1>2. Drain
  BY DEF Next, Begin, ShellStep, MakePipe, ForkStage, ForkLast, WaitForAll, vars,
         ChildStep, Start, Complain, Read, Write, End, Quit
<1>3. content[fds[error_pipe.read].of] = 0
  BY <1>2 DEF Drain
<1>4. content[p] = 0 /\ complaints = shown + taken + content[p]
  BY <1>1, <1>3, EndsAreEnds DEF Errors
<1>5. shown \in Nat /\ taken \in Nat
  BY DEF Inv3, Inv2, Inv1, TypeOK
<1> QED BY <1>4, <1>5

\* Whatever the stages of a pipeline complain about is shown before the prompt, but for
\* what a stage takes that was told to read it, in whichever order they start, fail and
\* end, whatever earlier pipelines left behind and whatever the redirections are.
THEOREM ComplaintsShown == Spec => ErrorsAreShown
<1>1. Init => Inv3
  <2>1. Init => Inv2 /\ pc = "prompt"
    BY InitialShell, InitialPipes DEF Inv2, Init
  <2> QED BY <2>1 DEF Inv3
<1>2. Inv3 /\ Inv2' /\ [Next]_vars => Inv3'
  BY ErrorsKept
<1>3. Spec => []Inv2
  BY PipesInvariance
<1>4. Inv3 /\ [Next]_vars => [(pc = "drain" /\ pc' = "prompt") => shown + taken = complaints]_vars
  BY AllShown
<1> QED BY <1>1, <1>2, <1>3, <1>4, PTL DEF Spec, ErrorsAreShown
=============================================================================
