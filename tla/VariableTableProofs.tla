------------------------- MODULE VariableTableProofs -------------------------
(* Proofs about VariableTable, for any names, texts, conversions and sizes: what *)
(* is exported is in the environment, what is accepted is read, and a readonly   *)
(* variable stays. The commands are functions from memory to memory, and so the  *)
(* proof goes: each function of variable.c keeps Good, and then each command.    *)
EXTENDS VariableTable, SequenceTheorems, FiniteSetTheorems, WellFoundedInduction, TLAPS

-----------------------------------------------------------------------------
(* Natural numbers, sequences, and functions defined from number to number.    *)
LEMMA LeastNatural ==
  ASSUME NEW T, T \subseteq Nat, T # {}
  PROVE  \E x \in T : \A y \in T : x <= y
<1> DEFINE R == OpToRel(<, Nat)
<1>1. IsWellFoundedOn(R, Nat)
  BY NatLessThanWellFounded
<1>2. PICK x \in T : \A y \in T : <<y, x>> \notin R
  <2> HIDE DEF R
  <2> QED BY <1>1, WFMin
<1>3. \A y \in T : ~ (y < x)
  BY <1>2 DEF OpToRel
<1>4. x \in Nat /\ \A y \in T : y \in Nat
  BY <1>2
<1> HIDE DEF R
<1> QED BY <1>3, <1>4

LEMMA SetInduction ==
  ASSUME NEW S, NEW N \in Nat, 0 \in S, \A n \in 1..N : n - 1 \in S => n \in S
  PROVE  \A n \in 0..N : n \in S
<1> DEFINE R == OpToRel(<, Nat)
           T == {n \in 0..N : n \notin S}
<1> SUFFICES ASSUME T # {} PROVE FALSE
  OBVIOUS
<1>1. T \subseteq Nat
  OBVIOUS
<1>2. PICK x \in T : \A y \in T : <<y, x>> \notin R
  <2> HIDE DEF R, T
  <2> QED BY <1>1, NatLessThanWellFounded, WFMin DEF R
<1>3. \A y \in T : ~ (y < x)
  BY <1>1, <1>2 DEF OpToRel
<1> HIDE DEF R
<1>4. x \in 1..N /\ x - 1 \in 0..N /\ x - 1 < x
  BY <1>2
<1>5. x - 1 \in S
  BY <1>3, <1>4
<1> QED BY <1>2, <1>4, <1>5

\* A function defined from each number to the next exists.
StepsOf(N, V) == [(1..N) \X V -> V]
Iterates(f, N, V, a, g) ==
  f \in [0..N -> V] /\ f[0] = a /\ \A n \in 1..N : f[n] = g[<<n, f[n - 1]>>]
LEMMA Recursion ==
  ASSUME NEW N \in Nat, NEW V, NEW a \in V, NEW g \in StepsOf(N, V)
  PROVE  \E f : Iterates(f, N, V, a, g)
<1> USE DEF StepsOf
<1> DEFINE Is(f, k) == f[0] = a /\ \A n \in 1..k : f[n] = g[<<n, f[n - 1]>>]
           S == {k \in Nat : \E f \in [0..k -> V] : Is(f, k)}
<1>1. 0 \in S
  <2> DEFINE f == [n \in 0..0 |-> a]
  <2>1. f \in [0..0 -> V] /\ Is(f, 0)
    OBVIOUS
  <2> QED BY <2>1
<1>2. ASSUME NEW k \in 1..N, k - 1 \in S PROVE k \in S
  <2>1. PICK f \in [0..k - 1 -> V] : Is(f, k - 1)
    BY <1>2
  <2> DEFINE h == [n \in 0..k |-> IF n = k THEN g[<<k, f[k - 1]>>] ELSE f[n]]
  <2>2. k - 1 \in 0..k - 1 /\ k \in Nat
    OBVIOUS
  <2>3. g[<<k, f[k - 1]>>] \in V
    BY <2>1, <2>2
  <2>4. h \in [0..k -> V]
    BY <2>1, <2>2, <2>3
  <2>5. h[0] = a
    BY <2>1, <2>2
  <2>6. ASSUME NEW n \in 1..k PROVE h[n] = g[<<n, h[n - 1]>>]
    <3>1. CASE n = k
      <4>1. k \in 0..k /\ k - 1 \in 0..k /\ k - 1 # k
        OBVIOUS
      <4>2. h[k] = g[<<k, f[k - 1]>>] /\ h[k - 1] = f[k - 1]
        BY <4>1
      <4> HIDE DEF h
      <4> QED BY <3>1, <4>2
    <3>2. CASE n # k
      <4>1. n \in 1..k - 1 /\ n - 1 \in 0..k /\ n \in 0..k /\ n - 1 # k
        BY <3>2
      <4>2. h[n] = f[n] /\ h[n - 1] = f[n - 1]
        BY <3>2, <4>1
      <4> QED BY <2>1, <4>1, <4>2
    <3> QED BY <3>1, <3>2
  <2> HIDE DEF h
  <2> QED BY <2>2, <2>4, <2>5, <2>6
<1>3. \A k \in 0..N : k \in S
  <2> HIDE DEF S
  <2> QED BY <1>1, <1>2, SetInduction
<1>4. N \in 0..N
  OBVIOUS
<1> QED BY <1>3, <1>4 DEF Iterates

LEMMA RemoveAtProperties ==
  ASSUME NEW S, NEW s \in Seq(S), NEW i \in 1..Len(s)
  PROVE  /\ RemoveAt(s, i) \in Seq(S)
         /\ Len(RemoveAt(s, i)) = Len(s) - 1
         /\ \A k \in 1..Len(s) - 1 :
              RemoveAt(s, i)[k] = IF k < i THEN s[k] ELSE s[k + 1]
<1> DEFINE a == SubSeq(s, 1, i - 1)
           b == SubSeq(s, i + 1, Len(s))
<1>0. Len(s) \in Nat /\ i \in Nat /\ \A k \in 1..Len(s) : s[k] \in S
  BY LenProperties, ElementOfSeq
<1>1. /\ a \in Seq(S)
      /\ Len(a) = i - 1
      /\ \A k \in 1..i - 1 : a[k] = s[k]
  <2>1. \A k \in 1..i - 1 : s[k] \in S
    BY <1>0
  <2> QED BY <1>0, <2>1, SubSeqProperties, SMT
<1>2. /\ b \in Seq(S)
      /\ Len(b) = Len(s) - i
      /\ \A k \in 1..Len(s) - i : b[k] = s[i + k]
  <2>1. \A k \in i + 1..Len(s) : s[k] \in S
    BY <1>0
  <2> QED BY <1>0, <2>1, SubSeqProperties, SMT
<1>3. /\ a \o b \in Seq(S)
      /\ Len(a \o b) = Len(s) - 1
      /\ \A k \in 1..Len(s) - 1 :
           (a \o b)[k] = IF k <= i - 1 THEN a[k] ELSE b[k - (i - 1)]
  <2> HIDE DEF a, b
  <2> QED BY <1>0, <1>1, <1>2, ConcatProperties
<1>4. ASSUME NEW k \in 1..Len(s) - 1
      PROVE  (a \o b)[k] = IF k < i THEN s[k] ELSE s[k + 1]
  <2> HIDE DEF a, b
  <2>1. CASE k < i
    BY <2>1, <1>0, <1>1, <1>3
  <2>2. CASE ~ (k < i)
    <3>1. k - (i - 1) \in 1..Len(s) - i /\ i + (k - (i - 1)) = k + 1
      BY <2>2, <1>0
    <3> QED BY <2>2, <3>1, <1>0, <1>2, <1>3
  <2> QED BY <2>1, <2>2
<1> QED BY <1>3, <1>4 DEF RemoveAt

-----------------------------------------------------------------------------
(* Looking up a name.                                                          *)
LEMMA SizeOf ==
  ASSUME NEW m \in Memory
  PROVE  /\ m.variables \in Seq(Variable) /\ Len(m.variables) \in Nat
         /\ DOMAIN m.variables = 1..Len(m.variables)
         /\ \A i \in 1..Len(m.variables) : m.variables[i] \in Variable
         /\ m.capacity \in Nat \ {0} /\ m.undefined \in BOOLEAN /\ m.behind \in SUBSET Name
         /\ m.environment \in [Name -> Text \union {NotSet}]
<1>1. m.variables \in Seq(Variable)
  BY DEF Memory
<1>2. \A s \in Seq(Variable) :
        Len(s) \in Nat /\ DOMAIN s = 1..Len(s) /\ \A i \in 1..Len(s) : s[i] \in Variable
  OBVIOUS
<1>3. m.capacity \in Nat \ {0} /\ m.undefined \in BOOLEAN /\ m.behind \in SUBSET Name
      /\ m.environment \in [Name -> Text \union {NotSet}]
  BY DEF Memory
<1> QED BY <1>1, <1>2, <1>3

LEMMA FirstIs ==
  ASSUME NEW m \in Memory, NEW n
  PROVE  /\ First(m, n) \in 0..Len(m.variables)
         /\ First(m, n) = 0 => \A i \in 1..Len(m.variables) : m.variables[i].name # n
         /\ First(m, n) # 0 =>
              /\ First(m, n) \in 1..Len(m.variables) /\ m.variables[First(m, n)].name = n
              /\ \A i \in 1..First(m, n) - 1 : m.variables[i].name # n
<1> DEFINE T == {i \in 1..Len(m.variables) : m.variables[i].name = n}
           least == CHOOSE x \in T : \A y \in T : x <= y
<1>1. First(m, n) = IF T # {} THEN least ELSE 0
  BY DEF First, SelectInSeq, Min
<1>2. Len(m.variables) \in Nat
  BY SizeOf
<1>3. CASE T = {}
  <2>1. First(m, n) = 0
    BY <1>1, <1>3
  <2> QED BY <1>2, <1>3, <2>1
<1>4. CASE T # {}
  <2>1. \E x \in T : \A y \in T : x <= y
    <3>1. T \subseteq Nat
      BY <1>2
    <3> HIDE DEF T
    <3> QED BY <1>4, <3>1, LeastNatural
  <2>2. least \in T /\ \A y \in T : least <= y
    <3> HIDE DEF T
    <3> QED BY <2>1
  <2>3. First(m, n) = least
    BY <1>1, <1>4
  <2> HIDE DEF least
  <2>4. least \in 1..Len(m.variables) /\ m.variables[least].name = n
    BY <2>2
  <2>5. ASSUME NEW i \in 1..least - 1 PROVE m.variables[i].name # n
    <3>1. i \in 1..Len(m.variables) /\ ~ (least <= i)
      BY <1>2, <2>4
    <3> QED BY <2>2, <3>1
  <2> QED BY <1>2, <2>3, <2>4, <2>5
<1> QED BY <1>3, <1>4

LEMMA FirstOnly ==
  ASSUME NEW m \in Memory, NEW n, NEW i \in 1..Len(m.variables), m.variables[i].name = n,
         \A j \in 1..i - 1 : m.variables[j].name # n
  PROVE  First(m, n) = i
<1>1. Len(m.variables) \in Nat
  BY SizeOf
<1>2. First(m, n) # 0
  BY FirstIs
<1>3. ~ (First(m, n) < i)
  <2>1. First(m, n) < i => First(m, n) \in 1..i - 1
    BY <1>1, <1>2, FirstIs
  <2> QED BY <1>2, <2>1, FirstIs
<1>4. ~ (i < First(m, n))
  <2>1. i < First(m, n) => i \in 1..First(m, n) - 1
    BY <1>1, <1>2, FirstIs
  <2> QED BY <1>2, <2>1, FirstIs
<1> QED BY <1>1, <1>2, <1>3, <1>4, FirstIs

LEMMA FirstNone ==
  ASSUME NEW m \in Memory, NEW n, \A i \in 1..Len(m.variables) : m.variables[i].name # n
  PROVE  First(m, n) = 0
BY FirstIs

\* The memory as every command finds it: a nameref names a name.
Typed(m) ==
  /\ m \in Memory
  /\ Len(m.variables) <= m.capacity
  /\ \A i \in DOMAIN m.variables :
       m.variables[i].type = "nameref" => m.variables[i].data \in Name

Depth == Cardinality(Name) + 1
LEMMA DepthType == Depth \in Nat \ {0}
BY TextAssumption, FS_CardinalityType DEF Depth

\* One step along the namerefs.
Refers(m, n) == First(m, n) # 0 /\ m.variables[First(m, n)].type = "nameref"
To(m, n) == m.variables[First(m, n)].data

LEMMA RefersTo == ASSUME NEW m, Typed(m), NEW n, Refers(m, n) PROVE To(m, n) \in Name
<1>1. First(m, n) \in DOMAIN m.variables
  BY FirstIs, SizeOf DEF Typed, Refers
<1> QED BY <1>1 DEF Typed, Refers, To

LEMMA FindIs ==
  ASSUME NEW m, Typed(m)
  PROVE  /\ \A n \in Name : Find(m)[0][n] = -1
         /\ \A k \in 1..Depth, n \in Name :
              Find(m)[k][n] = IF Refers(m, n) THEN Find(m)[k - 1][To(m, n)] ELSE First(m, n)
<1> DEFINE N == Depth
           V == [Name -> -1..Len(m.variables)]
           a == [n \in Name |-> -1]
           step(h) == [n \in Name |-> IF Refers(m, n) THEN h[To(m, n)] ELSE First(m, n)]
           g == [p \in (1..N) \X V |-> step(p[2])]
           body(f, k, n) ==
             LET i == First(m, n)
             IN IF k = 0 THEN -1
                ELSE IF i # 0 /\ m.variables[i].type = "nameref"
                     THEN f[k - 1][m.variables[i].data]
                ELSE i
           G(f) == f = [k \in 0..Cardinality(Name) + 1 |-> [n \in Name |-> body(f, k, n)]]
<1>0. N \in Nat /\ Len(m.variables) \in Nat
  BY DepthType, SizeOf DEF Typed
<1>1. a \in V
  BY <1>0
<1>2. ASSUME NEW h \in V PROVE step(h) \in V
  <2>1. ASSUME NEW n \in Name
        PROVE  (IF Refers(m, n) THEN h[To(m, n)] ELSE First(m, n)) \in -1..Len(m.variables)
    <3>1. Refers(m, n) => To(m, n) \in Name
      BY RefersTo
    <3>2. First(m, n) \in 0..Len(m.variables)
      BY FirstIs DEF Typed
    <3> QED BY <1>0, <3>1, <3>2
  <2> QED BY <2>1
<1>3. g \in StepsOf(N, V)
  <2>1. ASSUME NEW p \in (1..N) \X V PROVE step(p[2]) \in V
    <3>1. p[2] \in V
      OBVIOUS
    <3> HIDE DEF step, V
    <3> QED BY <1>2, <3>1
  <2> HIDE DEF step, V
  <2> QED BY <2>1 DEF StepsOf
<1>4. PICK f : Iterates(f, N, V, a, g)
  <2> HIDE DEF N, V, a, g
  <2> QED BY <1>0, <1>1, <1>3, Recursion
<1>5. f \in [0..N -> V] /\ f[0] = a /\ \A k \in 1..N : f[k] = g[<<k, f[k - 1]>>]
  BY <1>4 DEF Iterates
<1>6. \A k \in 1..N : f[k] = step(f[k - 1])
  <2> SUFFICES ASSUME NEW k \in 1..N PROVE f[k] = step(f[k - 1])
    OBVIOUS
  <2>1. k - 1 \in 0..N
    BY <1>0
  <2>2. f[k - 1] \in V
    BY <1>5, <2>1
  <2>3. <<k, f[k - 1]>> \in (1..N) \X V
    BY <2>2
  <2>4. g[<<k, f[k - 1]>>] = step(f[k - 1])
    <3> HIDE DEF step, V
    <3> QED BY <2>3
  <2> QED BY <1>5, <2>4
<1>8. G(f)
  <2>1. ASSUME NEW k \in 0..N PROVE f[k] = [n \in Name |-> body(f, k, n)]
    <3>1. CASE k = 0
      BY <1>5, <3>1
    <3>2. CASE k # 0
      <4>1. k \in 1..N
        BY <1>0, <3>2
      <4>2. f[k] = step(f[k - 1])
        BY <1>6, <4>1
      <4> QED BY <3>2, <4>2 DEF Refers, To
    <3> QED BY <3>1, <3>2
  <2>2. f = [k \in 0..N |-> f[k]]
    BY <1>5
  <2> QED BY <2>1, <2>2 DEF Depth
<1> DEFINE found == CHOOSE h : G(h)
<1>9. found = Find(m)
  BY DEF Find
<1>10. G(found)
  <2> HIDE DEF G
  <2> QED BY <1>8
<1> HIDE DEF found
<1>11. ASSUME NEW n \in Name PROVE found[0][n] = -1
  <2>1. 0 \in 0..Cardinality(Name) + 1
    BY DepthType DEF Depth
  <2> QED BY <1>10, <2>1
<1>12. ASSUME NEW k \in 1..Depth, NEW n \in Name
       PROVE  found[k][n] = IF Refers(m, n) THEN found[k - 1][To(m, n)] ELSE First(m, n)
  <2>1. k \in 0..Cardinality(Name) + 1 /\ k # 0
    BY DepthType DEF Depth
  <2>2. found[k][n] = body(found, k, n)
    <3>1. found = [l \in 0..Cardinality(Name) + 1 |-> [x \in Name |-> body(found, l, x)]]
      BY <1>10
    <3> HIDE DEF body
    <3>2. found[k] = [x \in Name |-> body(found, k, x)]
      BY ONLY <2>1, <3>1
    <3> QED BY ONLY <3>2, n \in Name
  <2> QED BY <2>1, <2>2 DEF Refers, To
<1> QED BY <1>9, <1>11, <1>12

LEMMA Found ==
  ASSUME NEW m, Typed(m), NEW n \in Name
  PROVE  /\ get_variable(m, n) \in -1..Len(m.variables)
         /\ get_variable(m, n) > 0 =>
              /\ get_variable(m, n) \in 1..Len(m.variables)
              /\ m.variables[get_variable(m, n)].type # "nameref"
         /\ ~Refers(m, n) => get_variable(m, n) = First(m, n)
<1> DEFINE Fine(i) == i \in -1..Len(m.variables) /\ (i > 0 => m.variables[i].type # "nameref")
           S == {k \in 0..Depth : \A x \in Name : Fine(Find(m)[k][x])}
<1>0. Depth \in Nat /\ Depth \in 1..Depth /\ Len(m.variables) \in Nat
  BY DepthType, SizeOf DEF Typed
<1>1. 0 \in S
  BY <1>0, FindIs
<1>2. ASSUME NEW k \in 1..Depth, k - 1 \in S PROVE k \in S
  <2>1. ASSUME NEW x \in Name PROVE Fine(Find(m)[k][x])
    <3>1. CASE Refers(m, x)
      <4>1. Find(m)[k][x] = Find(m)[k - 1][To(m, x)] /\ To(m, x) \in Name
        BY <3>1, FindIs, RefersTo
      <4> QED BY <1>2, <4>1
    <3>2. CASE ~Refers(m, x)
      <4>1. Find(m)[k][x] = First(m, x)
        BY <3>2, FindIs
      <4>2. First(m, x) \in 0..Len(m.variables)
        BY FirstIs DEF Typed
      <4> QED BY <1>0, <3>2, <4>1, <4>2 DEF Refers
    <3> QED BY <3>1, <3>2
  <2> QED BY <1>0, <2>1
<1>3. \A k \in 0..Depth : k \in S
  <2> HIDE DEF S
  <2> QED BY <1>0, <1>1, <1>2, SetInduction
<1>4. Fine(get_variable(m, n))
  <2>1. Depth \in S
    BY <1>0, <1>3
  <2> QED BY <2>1 DEF get_variable, Depth
<1>5. ~Refers(m, n) => get_variable(m, n) = First(m, n)
  BY <1>0, FindIs DEF get_variable, Depth
<1> QED BY <1>0, <1>4, <1>5

\* The same entries are found first, and the same of them are namerefs.
SameFirst(m, m2) ==
  \A x \in Name :
    /\ First(m2, x) = First(m, x) /\ (Refers(m2, x) <=> Refers(m, x))
    /\ Refers(m, x) => To(m2, x) = To(m, x)

LEMMA FoundSame ==
  ASSUME NEW m, Typed(m), NEW m2, Typed(m2), SameFirst(m, m2), NEW n \in Name
  PROVE  get_variable(m2, n) = get_variable(m, n)
<1> DEFINE S == {k \in 0..Depth : \A x \in Name : Find(m2)[k][x] = Find(m)[k][x]}
<1>0. Depth \in Nat /\ Depth \in 1..Depth
  BY DepthType
<1>1. 0 \in S
  BY <1>0, FindIs
<1>2. ASSUME NEW k \in 1..Depth, k - 1 \in S PROVE k \in S
  <2>1. ASSUME NEW x \in Name PROVE Find(m2)[k][x] = Find(m)[k][x]
    <3>1. Find(m)[k][x] = IF Refers(m, x) THEN Find(m)[k - 1][To(m, x)] ELSE First(m, x)
      BY FindIs
    <3>2. Find(m2)[k][x] = IF Refers(m2, x) THEN Find(m2)[k - 1][To(m2, x)] ELSE First(m2, x)
      BY FindIs
    <3>3. Refers(m, x) => To(m, x) \in Name
      BY RefersTo
    <3> QED BY <1>2, <3>1, <3>2, <3>3 DEF SameFirst
  <2> QED BY <1>0, <2>1
<1>3. \A k \in 0..Depth : k \in S
  <2> HIDE DEF S
  <2> QED BY <1>0, <1>1, <1>2, SetInduction
<1>4. Depth \in S
  BY <1>0, <1>3
<1> QED BY <1>4 DEF get_variable, Depth

LEMMA SlotIs ==
  ASSUME NEW m, Typed(m), NEW n \in Name
  PROVE  /\ Slot(m, n) \in 1..Len(m.variables) + 1
         /\ get_variable(m, n) > 0 => Slot(m, n) = get_variable(m, n)
         /\ get_variable(m, n) <= 0 => Slot(m, n) = Len(m.variables) + 1
<1>1. Len(m.variables) \in Nat
  BY SizeOf DEF Typed
<1> QED BY <1>1, Found DEF Slot

-----------------------------------------------------------------------------
(* What every command keeps of the memory: it is typed, a name held twice is   *)
(* marked as behind, and the environment shows what is exported under a name   *)
(* that is not.                                                                *)
EnvironmentAt(m, i) ==
  ("exported" \in m.variables[i].flags /\ m.variables[i].name \notin m.behind)
    => m.environment[m.variables[i].name] = Shown(m.variables[i])

TwiceIsBehind(m) ==
  \A i, j \in DOMAIN m.variables :
    (i # j /\ m.variables[i].name = m.variables[j].name) => m.variables[i].name \in m.behind

Good(m) ==
  Typed(m) /\ TwiceIsBehind(m) /\ \A i \in DOMAIN m.variables : EnvironmentAt(m, i)

\* While entry i is being changed.
GoodBut(m, i) ==
  /\ m \in Memory
  /\ Len(m.variables) <= m.capacity
  /\ \A j \in DOMAIN m.variables \ {i} :
       m.variables[j].type = "nameref" => m.variables[j].data \in Name
  /\ TwiceIsBehind(m)
  /\ \A j \in DOMAIN m.variables \ {i} : EnvironmentAt(m, j)

Reference(e) == e.type = "nameref" => e.data \in Name

LEMMA Parts ==
  ASSUME NEW e \in Variable
  PROVE  /\ e.name \in Name /\ e.type \in Type /\ e.data \in Text /\ e.str \in Text
         /\ e.flags \in SUBSET Flag
BY DEF Variable

LEMMA GoodIsBut == ASSUME NEW m, Good(m), NEW i PROVE GoodBut(m, i)
BY DEF Good, GoodBut, Typed

LEMMA ButIsGood ==
  ASSUME NEW m, NEW i \in DOMAIN m.variables, GoodBut(m, i), Reference(m.variables[i]), EnvironmentAt(m, i)
  PROVE  Good(m)
BY DEF Good, GoodBut, Typed, Reference

LEMMA WriteIs ==
  ASSUME NEW m \in Memory, NEW i \in DOMAIN m.variables, NEW e \in Variable
  PROVE  /\ Write(m, i, e) \in Memory
         /\ Len(Write(m, i, e).variables) = Len(m.variables)
         /\ DOMAIN Write(m, i, e).variables = DOMAIN m.variables
         /\ Write(m, i, e).variables[i] = e
         /\ \A j \in DOMAIN m.variables : j # i => Write(m, i, e).variables[j] = m.variables[j]
         /\ Write(m, i, e).capacity = m.capacity /\ Write(m, i, e).environment = m.environment
         /\ Write(m, i, e).undefined = m.undefined /\ Write(m, i, e).behind = m.behind
<1>1. \A s \in Seq(Variable) : \A k \in DOMAIN s :
        LET t == [s EXCEPT ![k] = e]
        IN /\ t \in Seq(Variable) /\ Len(t) = Len(s) /\ DOMAIN t = DOMAIN s
           /\ t[k] = e /\ \A j \in DOMAIN s : j # k => t[j] = s[j]
  OBVIOUS
<1> DEFINE t == [m.variables EXCEPT ![i] = e]
<1>2. /\ t \in Seq(Variable) /\ Len(t) = Len(m.variables) /\ DOMAIN t = DOMAIN m.variables
      /\ t[i] = e /\ \A j \in DOMAIN m.variables : j # i => t[j] = m.variables[j]
  BY <1>1, SizeOf
<1>3. Write(m, i, e) = [m EXCEPT !.variables = t]
  BY DEF Write
<1> HIDE DEF t
<1>4. [m EXCEPT !.variables = t] \in Memory
  BY <1>2 DEF Memory
<1>5. /\ [m EXCEPT !.variables = t].variables = t
      /\ [m EXCEPT !.variables = t].capacity = m.capacity
      /\ [m EXCEPT !.variables = t].environment = m.environment
      /\ [m EXCEPT !.variables = t].undefined = m.undefined
      /\ [m EXCEPT !.variables = t].behind = m.behind
  BY DEF Memory
<1> HIDE DEF Write
<1> QED BY <1>2, <1>3, <1>4, <1>5

LEMMA WriteBut ==
  ASSUME NEW m, NEW i \in DOMAIN m.variables, GoodBut(m, i),
         NEW e \in Variable, e.name = m.variables[i].name
  PROVE  GoodBut(Write(m, i, e), i)
<1> DEFINE w == Write(m, i, e)
<1>0. m \in Memory
  BY DEF GoodBut
<1>1. /\ w \in Memory /\ Len(w.variables) = Len(m.variables)
      /\ DOMAIN w.variables = DOMAIN m.variables
      /\ w.variables[i] = e /\ \A j \in DOMAIN m.variables : j # i => w.variables[j] = m.variables[j]
      /\ w.capacity = m.capacity /\ w.environment = m.environment /\ w.behind = m.behind
  BY <1>0, WriteIs
<1> HIDE DEF w
<1>2. \A j \in DOMAIN m.variables : w.variables[j].name = m.variables[j].name
  BY <1>1
<1>3. TwiceIsBehind(w)
  BY <1>1, <1>2 DEF GoodBut, TwiceIsBehind
<1>4. \A j \in DOMAIN m.variables \ {i} : EnvironmentAt(w, j)
  BY <1>1 DEF GoodBut, EnvironmentAt
<1>5. GoodBut(w, i)
  BY <1>1, <1>3, <1>4 DEF GoodBut
<1> QED BY <1>5 DEF w

LEMMA WriteGood ==
  ASSUME NEW m, NEW i \in DOMAIN m.variables, Good(m), NEW e \in Variable,
         e.name = m.variables[i].name, Reference(e),
         \/ /\ "exported" \in e.flags => "exported" \in m.variables[i].flags
            /\ Shown(e) = Shown(m.variables[i])
         \/ "exported" \in e.flags => e.name \in m.behind
  PROVE  Good(Write(m, i, e))
<1> DEFINE w == Write(m, i, e)
<1>0. m \in Memory /\ GoodBut(m, i) /\ EnvironmentAt(m, i)
  BY GoodIsBut DEF Good, Typed
<1>1. /\ w.variables[i] = e /\ DOMAIN w.variables = DOMAIN m.variables
      /\ w.environment = m.environment /\ w.behind = m.behind
  BY <1>0, WriteIs
<1>2. GoodBut(w, i)
  BY <1>0, WriteBut
<1> HIDE DEF w
<1>3. EnvironmentAt(w, i)
  BY <1>0, <1>1 DEF EnvironmentAt
<1>4. Good(w)
  BY <1>1, <1>2, <1>3, ButIsGood
<1> QED BY <1>4 DEF w

LEMMA UndefinedIs ==
  ASSUME NEW m \in Memory
  PROVE  /\ Undefined(m) \in Memory /\ Undefined(m).undefined = TRUE
         /\ Undefined(m).variables = m.variables /\ Undefined(m).capacity = m.capacity
         /\ Undefined(m).environment = m.environment /\ Undefined(m).behind = m.behind
BY DEF Undefined, Memory

LEMMA UndefinedGood == ASSUME NEW m, Good(m) PROVE Good(Undefined(m))
<1>1. m \in Memory
  BY DEF Good, Typed
<1> DEFINE u == Undefined(m)
<1>2. u \in Memory /\ u.variables = m.variables /\ u.capacity = m.capacity
      /\ u.environment = m.environment /\ u.behind = m.behind
  BY <1>1, UndefinedIs
<1> HIDE DEF u
<1>3. Good(u)
  BY <1>2 DEF Good, Typed, TwiceIsBehind, EnvironmentAt
<1> QED BY <1>3 DEF u

LEMMA LeaveBehindIs ==
  ASSUME NEW m \in Memory, NEW i \in DOMAIN m.variables
  PROVE  /\ LeaveBehind(m, i) \in Memory
         /\ LeaveBehind(m, i).variables = m.variables /\ LeaveBehind(m, i).capacity = m.capacity
         /\ LeaveBehind(m, i).environment = m.environment
         /\ LeaveBehind(m, i).undefined = m.undefined
         /\ m.behind \subseteq LeaveBehind(m, i).behind
         /\ "exported" \in m.variables[i].flags => m.variables[i].name \in LeaveBehind(m, i).behind
<1>1. m.variables[i].name \in Name
  BY SizeOf, Parts
<1>2. m.behind \union {m.variables[i].name} \in SUBSET Name
  BY <1>1, SizeOf
<1> QED BY <1>2 DEF LeaveBehind, Memory

LEMMA LeaveBehindBut ==
  ASSUME NEW m, NEW i \in DOMAIN m.variables, GoodBut(m, i)
  PROVE  GoodBut(LeaveBehind(m, i), i)
<1> DEFINE l == LeaveBehind(m, i)
<1>0. m \in Memory
  BY DEF GoodBut
<1>1. /\ l \in Memory /\ l.variables = m.variables /\ l.capacity = m.capacity
      /\ l.environment = m.environment /\ m.behind \subseteq l.behind
  BY <1>0, LeaveBehindIs
<1> HIDE DEF l
<1>2. GoodBut(l, i)
  BY <1>1 DEF GoodBut, TwiceIsBehind, EnvironmentAt
<1> QED BY <1>2 DEF l

LEMMA LeaveBehindGood ==
  ASSUME NEW m, NEW i \in DOMAIN m.variables, Good(m)
  PROVE  Good(LeaveBehind(m, i))
<1> DEFINE l == LeaveBehind(m, i)
<1>0. m \in Memory
  BY DEF Good, Typed
<1>1. /\ l \in Memory /\ l.variables = m.variables /\ l.capacity = m.capacity
      /\ l.environment = m.environment /\ m.behind \subseteq l.behind
  BY <1>0, LeaveBehindIs
<1> HIDE DEF l
<1>2. Good(l)
  BY <1>1 DEF Good, Typed, TwiceIsBehind, EnvironmentAt
<1> QED BY <1>2 DEF l

\* The value of an entry is changed after the environment has fallen behind.
LEMMA ChangedGood ==
  ASSUME NEW m, NEW i \in DOMAIN m.variables, GoodBut(m, i), NEW e \in Variable,
         e.name = m.variables[i].name, e.flags = m.variables[i].flags, Reference(e)
  PROVE  Good(Write(LeaveBehind(m, i), i, e))
<1> DEFINE l == LeaveBehind(m, i)
           w == Write(l, i, e)
<1>0. m \in Memory
  BY DEF GoodBut
<1>1. /\ l \in Memory /\ l.variables = m.variables /\ GoodBut(l, i)
      /\ "exported" \in m.variables[i].flags => m.variables[i].name \in l.behind
  BY <1>0, LeaveBehindIs, LeaveBehindBut
<1> HIDE DEF l
<1>2. /\ w.variables[i] = e /\ DOMAIN w.variables = DOMAIN l.variables
      /\ w.environment = l.environment /\ w.behind = l.behind
  BY <1>1, WriteIs
<1>3. GoodBut(w, i)
  BY <1>1, WriteBut
<1> HIDE DEF w
<1>4. EnvironmentAt(w, i)
  BY <1>1, <1>2 DEF EnvironmentAt
<1>5. Good(w)
  BY <1>1, <1>2, <1>3, <1>4, ButIsGood
<1> QED BY <1>5 DEF w, l

LEMMA ShownType == \A e \in Variable : Shown(e) \in Text
BY TextAssumption, Parts DEF Shown

LEMMA ProcessIs ==
  ASSUME NEW m \in Memory, NEW i \in DOMAIN m.variables
  PROVE  LET p == process_exported_variable(m, i)
         IN /\ p \in Memory /\ p.variables = m.variables /\ p.capacity = m.capacity
            /\ p.undefined = m.undefined
            /\ "exported" \in m.variables[i].flags =>
                 /\ p.environment[m.variables[i].name] = Shown(m.variables[i])
                 /\ \A n \in Name \ {m.variables[i].name} : p.environment[n] = m.environment[n]
                 /\ m.behind \subseteq p.behind \union {m.variables[i].name}
                 /\ \A j \in DOMAIN m.variables :
                      (j # i /\ m.variables[j].name = m.variables[i].name) => m.behind \subseteq p.behind
            /\ "exported" \notin m.variables[i].flags => p = m
<1> DEFINE v == m.variables[i]
           p == process_exported_variable(m, i)
<1>0. v \in Variable /\ v.name \in Name /\ Shown(v) \in Text
  BY SizeOf, Parts, ShownType
<1>1. CASE "exported" \notin v.flags
  BY <1>1 DEF process_exported_variable
<1>2. CASE "exported" \in v.flags
  <2> DEFINE environment == [m.environment EXCEPT ![v.name] = Shown(v)]
             behind == IF \A j \in DOMAIN m.variables : m.variables[j].name = v.name => j = i
                       THEN m.behind \ {v.name} ELSE m.behind
  <2>1. p = [m EXCEPT !.environment = environment, !.behind = behind]
    BY <1>2 DEF process_exported_variable
  <2>2. environment \in [Name -> Text \union {NotSet}]
    BY <1>0, SizeOf
  <2>3. behind \in SUBSET Name
    BY SizeOf
  <2>4. /\ environment[v.name] = Shown(v)
        /\ \A n \in Name \ {v.name} : environment[n] = m.environment[n]
    BY <1>0, SizeOf
  <2>5. /\ m.behind \subseteq behind \union {v.name}
        /\ \A j \in DOMAIN m.variables :
             (j # i /\ m.variables[j].name = v.name) => m.behind \subseteq behind
    OBVIOUS
  <2> HIDE DEF environment, behind
  <2>6. /\ p \in Memory /\ p.variables = m.variables /\ p.capacity = m.capacity
        /\ p.undefined = m.undefined /\ p.environment = environment /\ p.behind = behind
    BY <2>1, <2>2, <2>3 DEF Memory
  <2> QED BY <1>2, <2>4, <2>5, <2>6
<1> QED BY <1>1, <1>2

LEMMA ProcessGood ==
  ASSUME NEW m, NEW i \in DOMAIN m.variables, GoodBut(m, i), Reference(m.variables[i])
  PROVE  Good(process_exported_variable(m, i))
<1> DEFINE v == m.variables[i]
           p == process_exported_variable(m, i)
<1>0. m \in Memory
  BY DEF GoodBut
<1>1. CASE "exported" \notin v.flags
  <2>1. EnvironmentAt(m, i)
    BY <1>1 DEF EnvironmentAt
  <2>2. p = m
    BY <1>0, <1>1, ProcessIs
  <2> QED BY <2>1, <2>2, ButIsGood
<1>2. CASE "exported" \in v.flags
  <2>1. /\ p \in Memory /\ p.variables = m.variables /\ p.capacity = m.capacity
        /\ p.environment[v.name] = Shown(v)
        /\ \A n \in Name \ {v.name} : p.environment[n] = m.environment[n]
        /\ m.behind \subseteq p.behind \union {v.name}
        /\ \A j \in DOMAIN m.variables :
             (j # i /\ m.variables[j].name = v.name) => m.behind \subseteq p.behind
    BY <1>0, <1>2, ProcessIs
  <2> HIDE DEF p
  <2>2. TwiceIsBehind(p)
    <3> SUFFICES ASSUME NEW j \in DOMAIN m.variables, NEW k \in DOMAIN m.variables,
                        j # k, m.variables[j].name = m.variables[k].name
                 PROVE  m.variables[j].name \in p.behind
      BY <2>1 DEF TwiceIsBehind
    <3>1. m.variables[j].name \in m.behind
      BY DEF GoodBut, TwiceIsBehind
    <3> QED BY <2>1, <3>1
  <2>3. \A j \in DOMAIN m.variables : m.variables[j].name \in Name
    BY <1>0, SizeOf, Parts
  <2>4. ASSUME NEW j \in DOMAIN m.variables PROVE EnvironmentAt(p, j)
    <3>1. CASE j = i
      BY <2>1, <3>1 DEF EnvironmentAt
    <3>2. CASE j # i
      <4>1. EnvironmentAt(m, j)
        BY <3>2 DEF GoodBut
      <4>2. m.variables[j].name = v.name => v.name \in p.behind
        <5>1. m.variables[j].name = v.name => v.name \in m.behind
          BY <3>2 DEF GoodBut, TwiceIsBehind
        <5> QED BY <2>1, <3>2, <5>1
      <4>3. m.variables[j].name # v.name =>
              /\ p.environment[m.variables[j].name] = m.environment[m.variables[j].name]
              /\ m.variables[j].name \in m.behind => m.variables[j].name \in p.behind
        BY <2>1, <2>3
      <4> QED BY <2>1, <4>1, <4>2, <4>3 DEF EnvironmentAt
    <3> QED BY <3>1, <3>2
  <2>5. \A j \in DOMAIN m.variables : m.variables[j].type = "nameref" => m.variables[j].data \in Name
    BY DEF GoodBut, Reference
  <2>6. Good(p)
    BY <2>1, <2>2, <2>4, <2>5 DEF Good, Typed, GoodBut
  <2> QED BY <2>6 DEF p
<1> QED BY <1>1, <1>2

MarkedFlags(m, i, flags, unset) ==
  IF unset THEN m.variables[i].flags \ flags ELSE m.variables[i].flags \union flags
MarkedEntry(m, i, flags, unset) ==
  [m.variables[i] EXCEPT !.flags = MarkedFlags(m, i, flags, unset)]

LEMMA MarkedIs ==
  ASSUME NEW m \in Memory, NEW i \in DOMAIN m.variables, NEW flags \in SUBSET Flag, NEW unset
  PROVE  /\ MarkedEntry(m, i, flags, unset) \in Variable
         /\ Marked(m, i, flags, unset) = Write(m, i, MarkedEntry(m, i, flags, unset))
         /\ MarkedEntry(m, i, flags, unset).flags = MarkedFlags(m, i, flags, unset)
         /\ MarkedEntry(m, i, flags, unset).name = m.variables[i].name
         /\ MarkedEntry(m, i, flags, unset).type = m.variables[i].type
         /\ MarkedEntry(m, i, flags, unset).data = m.variables[i].data
         /\ MarkedEntry(m, i, flags, unset).str = m.variables[i].str
<1>1. m.variables[i] \in Variable /\ m.variables[i].flags \in SUBSET Flag
  BY SizeOf, Parts
<1>2. Marked(m, i, flags, unset) = Write(m, i, MarkedEntry(m, i, flags, unset))
  BY DEF Marked, MarkedEntry, MarkedFlags
<1>3. MarkedFlags(m, i, flags, unset) \in SUBSET Flag
  BY <1>1 DEF MarkedFlags
<1> QED BY <1>1, <1>2, <1>3 DEF MarkedEntry, Variable

LEMMA MarkedGood ==
  ASSUME NEW m, Good(m), NEW i \in DOMAIN m.variables, NEW flags \in SUBSET Flag, NEW unset
  PROVE  /\ "exported" \notin flags => Good(Marked(m, i, flags, unset))
         /\ Good(process_exported_variable(Marked(m, i, flags, unset), i))
         /\ Marked(m, i, flags, unset) \in Memory
         /\ DOMAIN Marked(m, i, flags, unset).variables = DOMAIN m.variables
<1>0. m \in Memory /\ Reference(m.variables[i])
  BY DEF Good, Typed, Reference
<1> DEFINE e == MarkedEntry(m, i, flags, unset)
<1>1. /\ e \in Variable /\ Marked(m, i, flags, unset) = Write(m, i, e)
      /\ e.flags = MarkedFlags(m, i, flags, unset)
      /\ e.name = m.variables[i].name /\ e.type = m.variables[i].type
      /\ e.data = m.variables[i].data
  BY <1>0, MarkedIs
<1> HIDE DEF e
<1>2. Reference(e) /\ Shown(e) = Shown(m.variables[i])
  BY <1>0, <1>1 DEF Reference, Shown
<1>3. "exported" \notin flags => Good(Write(m, i, e))
  <2>1. "exported" \notin flags => ("exported" \in e.flags => "exported" \in m.variables[i].flags)
    BY <1>1 DEF MarkedFlags
  <2> QED BY <1>1, <1>2, <2>1, WriteGood
<1>4. Good(process_exported_variable(Write(m, i, e), i))
  <2>1. GoodBut(Write(m, i, e), i)
    BY <1>1, WriteBut, GoodIsBut
  <2>2. Write(m, i, e).variables[i] = e /\ i \in DOMAIN Write(m, i, e).variables
    BY <1>0, <1>1, WriteIs
  <2> QED BY <1>2, <2>1, <2>2, ProcessGood
<1>5. Write(m, i, e) \in Memory /\ DOMAIN Write(m, i, e).variables = DOMAIN m.variables
  BY <1>0, <1>1, WriteIs
<1> QED BY <1>1, <1>3, <1>4, <1>5

-----------------------------------------------------------------------------
(* The functions of variable.c keep the memory good.                           *)
NewEntry(n, type) ==
  [name |-> n, type |-> type, data |-> Default[type], str |-> Empty, flags |-> {}]

LEMMA NewEntryIs ==
  ASSUME NEW n \in Name, NEW type \in Type
  PROVE  /\ NewEntry(n, type) \in Variable /\ NewEntry(n, type).name = n
         /\ NewEntry(n, type).type = type /\ NewEntry(n, type).flags = {}
BY TextAssumption, ConversionAssumption DEF NewEntry, Variable

LEMMA CreatedIs ==
  ASSUME NEW m, Typed(m), NEW n \in Name, NEW type \in Type, get_variable(m, n) = 0
  PROVE  LET c == create_new_variable(m, n, type)
             i == Len(m.variables) + 1
         IN /\ c \in Memory /\ Len(c.variables) = i /\ DOMAIN c.variables = 1..i
            /\ Len(c.variables) <= c.capacity
            /\ c.variables[i] = NewEntry(n, type)
            /\ \A j \in 1..i : j # i => c.variables[j] = m.variables[j] /\ j \in DOMAIN m.variables
            /\ c.environment = m.environment /\ c.undefined = m.undefined
            /\ m.behind \subseteq c.behind /\ (First(m, n) # 0 => n \in c.behind)
<1> DEFINE c == create_new_variable(m, n, type)
           i == Len(m.variables) + 1
           e == NewEntry(n, type)
           variables == Append(m.variables, e)
           capacity == ensure_capacity(m)
           behind == IF First(m, n) = 0 THEN m.behind ELSE m.behind \union {n}
<1>0. m \in Memory /\ Len(m.variables) <= m.capacity /\ e \in Variable
  BY NewEntryIs DEF Typed
<1>1. c = [m EXCEPT !.variables = variables, !.capacity = capacity, !.behind = behind]
  BY DEF create_new_variable, NewEntry
<1>2. /\ variables \in Seq(Variable) /\ Len(variables) = i /\ DOMAIN variables = 1..i
      /\ variables[i] = e /\ \A j \in 1..i : j # i => variables[j] = m.variables[j] /\ j \in DOMAIN m.variables
  <2>1. \A s \in Seq(Variable) :
          /\ Append(s, e) \in Seq(Variable) /\ Len(Append(s, e)) = Len(s) + 1
          /\ DOMAIN Append(s, e) = 1..Len(s) + 1 /\ Append(s, e)[Len(s) + 1] = e
          /\ \A j \in 1..Len(s) + 1 : j # Len(s) + 1 => Append(s, e)[j] = s[j] /\ j \in DOMAIN s
    <3> HIDE DEF e
    <3> QED BY <1>0
  <2> HIDE DEF e
  <2> QED BY <1>0, <2>1, SizeOf
<1>3. capacity \in Nat \ {0} /\ i <= capacity
  <2>1. Len(m.variables) \in Nat /\ m.capacity \in Nat \ {0}
    BY <1>0, SizeOf
  <2> QED BY <1>0, <2>1 DEF ensure_capacity
<1>4. behind \in SUBSET Name /\ m.behind \subseteq behind /\ (First(m, n) # 0 => n \in behind)
  BY <1>0, SizeOf
<1> HIDE DEF variables, capacity, behind, e
<1>5. /\ c \in Memory /\ c.variables = variables /\ c.capacity = capacity
      /\ c.environment = m.environment /\ c.undefined = m.undefined /\ c.behind = behind
  BY <1>0, <1>1, <1>2, <1>3, <1>4 DEF Memory
<1> QED BY <1>2, <1>3, <1>4, <1>5 DEF e

LEMMA Created ==
  ASSUME NEW m, Good(m), NEW n \in Name, NEW type \in Type, ~Endless(m, n)
  PROVE  LET c == create_new_variable(m, n, type)
             i == Slot(m, n)
         IN /\ i \in DOMAIN c.variables /\ GoodBut(c, i) /\ c.undefined = m.undefined
            /\ type # "nameref" => Good(c)
<1> DEFINE c == create_new_variable(m, n, type)
           i == Slot(m, n)
<1>0. m \in Memory /\ Typed(m)
  BY DEF Good, Typed
<1>1. CASE get_variable(m, n) > 0
  <2>1. c = m
    BY <1>0, <1>1, Found DEF create_new_variable
  <2>2. i \in DOMAIN m.variables
    BY <1>0, <1>1, Found, SlotIs, SizeOf
  <2> QED BY <2>1, <2>2, GoodIsBut
<1>2. CASE get_variable(m, n) = 0
  <2>0. i = Len(m.variables) + 1 /\ i \in 1..i /\ 1..Len(m.variables) = DOMAIN m.variables
    BY <1>0, <1>2, SlotIs, SizeOf
  <2>1. /\ c \in Memory /\ DOMAIN c.variables = 1..i /\ Len(c.variables) <= c.capacity
        /\ c.variables[i] = NewEntry(n, type)
        /\ \A j \in 1..i : j # i => c.variables[j] = m.variables[j] /\ j \in DOMAIN m.variables
        /\ c.environment = m.environment /\ c.undefined = m.undefined
        /\ m.behind \subseteq c.behind /\ (First(m, n) # 0 => n \in c.behind)
    BY <1>0, <1>2, <2>0, CreatedIs
  <2>2. c.variables[i].name = n /\ c.variables[i].type = type /\ c.variables[i].flags = {}
    BY <2>1, NewEntryIs
  <2> HIDE DEF c, i
  <2>3. TwiceIsBehind(c)
    <3>1. \A j \in 1..i : (j # i /\ c.variables[j].name = n) => n \in c.behind
      <4>1. \A j \in DOMAIN m.variables : m.variables[j].name = n => First(m, n) # 0
        BY <1>0, FirstIs, SizeOf
      <4> QED BY <2>1, <4>1
    <3> SUFFICES ASSUME NEW j \in 1..i, NEW k \in 1..i, j # k, c.variables[j].name = c.variables[k].name
                 PROVE  c.variables[j].name \in c.behind
      BY <2>1 DEF TwiceIsBehind
    <3>2. CASE j = i \/ k = i
      BY <2>2, <3>1, <3>2
    <3>3. CASE j # i /\ k # i
      <4>1. m.variables[j].name \in m.behind
        BY <2>1, <3>3 DEF Good, TwiceIsBehind
      <4> QED BY <2>1, <3>3, <4>1
    <3> QED BY <3>2, <3>3
  <2>4. \A j \in 1..i \ {i} : EnvironmentAt(c, j)
    <3>1. \A j \in 1..i \ {i} : EnvironmentAt(m, j)
      BY <2>1 DEF Good
    <3> QED BY <2>1, <3>1 DEF EnvironmentAt
  <2>5. \A j \in 1..i \ {i} : c.variables[j].type = "nameref" => c.variables[j].data \in Name
    BY <1>0, <2>1 DEF Typed
  <2>6. GoodBut(c, i)
    BY <2>1, <2>3, <2>4, <2>5 DEF GoodBut
  <2>7. type # "nameref" => Good(c)
    BY <2>0, <2>1, <2>2, <2>6, ButIsGood DEF Reference, EnvironmentAt
  <2> QED BY <2>0, <2>1, <2>6, <2>7 DEF c, i
<1> QED BY <1>0, <1>1, <1>2, Found DEF Endless

Removed(m, i) == [m EXCEPT !.variables = RemoveAt(@, i)]
Source(k, i) == IF k < i THEN k ELSE k + 1

LEMMA RemovedIs ==
  ASSUME NEW m \in Memory, NEW i \in DOMAIN m.variables
  PROVE  /\ Removed(m, i) \in Memory
         /\ Len(Removed(m, i).variables) = Len(m.variables) - 1
         /\ DOMAIN Removed(m, i).variables = 1..Len(m.variables) - 1
         /\ \A k \in 1..Len(m.variables) - 1 :
              /\ Source(k, i) \in DOMAIN m.variables \ {i}
              /\ Removed(m, i).variables[k] = m.variables[Source(k, i)]
         /\ \A k, l \in 1..Len(m.variables) - 1 : k # l => Source(k, i) # Source(l, i)
         /\ \A j \in DOMAIN m.variables \ {i} : \E k \in 1..Len(m.variables) - 1 : Source(k, i) = j
         /\ Removed(m, i).capacity = m.capacity /\ Removed(m, i).environment = m.environment
         /\ Removed(m, i).undefined = m.undefined /\ Removed(m, i).behind = m.behind
<1> DEFINE t == RemoveAt(m.variables, i)
           L == Len(m.variables)
<1>0. L \in Nat /\ DOMAIN m.variables = 1..L /\ m.variables \in Seq(Variable)
  BY SizeOf
<1>1. /\ t \in Seq(Variable) /\ Len(t) = L - 1
      /\ \A k \in 1..L - 1 : t[k] = IF k < i THEN m.variables[k] ELSE m.variables[k + 1]
  BY <1>0, RemoveAtProperties
<1>2. DOMAIN t = 1..L - 1
  BY <1>1
<1>3. /\ \A k \in 1..L - 1 : Source(k, i) \in DOMAIN m.variables \ {i}
      /\ \A k, l \in 1..L - 1 : k # l => Source(k, i) # Source(l, i)
  BY <1>0 DEF Source
<1>4. \A j \in DOMAIN m.variables \ {i} : \E k \in 1..L - 1 : Source(k, i) = j
  <2> SUFFICES ASSUME NEW j \in DOMAIN m.variables \ {i} PROVE \E k \in 1..L - 1 : Source(k, i) = j
    OBVIOUS
  <2>1. CASE j < i
    <3>1. j \in 1..L - 1 /\ Source(j, i) = j
      BY <1>0, <2>1 DEF Source
    <3> QED BY <3>1
  <2>2. CASE ~ (j < i)
    <3>1. j - 1 \in 1..L - 1 /\ Source(j - 1, i) = j
      BY <1>0, <2>2 DEF Source
    <3> QED BY <3>1
  <2> QED BY <2>1, <2>2
<1>5. \A k \in 1..L - 1 : t[k] = m.variables[Source(k, i)]
  BY <1>0, <1>1 DEF Source
<1>6. Removed(m, i) = [m EXCEPT !.variables = t]
  BY DEF Removed
<1> HIDE DEF t
<1>7. /\ [m EXCEPT !.variables = t] \in Memory
      /\ [m EXCEPT !.variables = t].variables = t
      /\ [m EXCEPT !.variables = t].capacity = m.capacity
      /\ [m EXCEPT !.variables = t].environment = m.environment
      /\ [m EXCEPT !.variables = t].undefined = m.undefined
      /\ [m EXCEPT !.variables = t].behind = m.behind
  BY <1>1 DEF Memory
<1> QED BY <1>1, <1>2, <1>3, <1>4, <1>5, <1>6, <1>7

LEMMA RemovedGood ==
  ASSUME NEW m, Good(m), NEW i \in DOMAIN m.variables
  PROVE  Good(Removed(m, i))
<1> DEFINE r == Removed(m, i)
           L == Len(m.variables)
<1>0. m \in Memory /\ L \in Nat /\ L <= m.capacity /\ m.capacity \in Nat
  BY SizeOf DEF Good, Typed
<1>1. /\ r \in Memory /\ Len(r.variables) = L - 1 /\ DOMAIN r.variables = 1..L - 1
      /\ \A k \in 1..L - 1 :
           /\ Source(k, i) \in DOMAIN m.variables \ {i}
           /\ r.variables[k] = m.variables[Source(k, i)]
      /\ \A k, l \in 1..L - 1 : k # l => Source(k, i) # Source(l, i)
      /\ r.capacity = m.capacity /\ r.environment = m.environment /\ r.behind = m.behind
  BY <1>0, RemovedIs
<1> HIDE DEF r
<1>2. TwiceIsBehind(r)
  <2> SUFFICES ASSUME NEW k \in 1..L - 1, NEW l \in 1..L - 1, k # l,
                      r.variables[k].name = r.variables[l].name
               PROVE  r.variables[k].name \in r.behind
    BY <1>1 DEF TwiceIsBehind
  <2>1. Source(k, i) # Source(l, i) /\ Source(k, i) \in DOMAIN m.variables
        /\ Source(l, i) \in DOMAIN m.variables
        /\ r.variables[k] = m.variables[Source(k, i)] /\ r.variables[l] = m.variables[Source(l, i)]
    BY <1>1
  <2> QED BY <1>1, <2>1 DEF Good, TwiceIsBehind
<1>3. \A k \in 1..L - 1 : EnvironmentAt(r, k)
  <2> SUFFICES ASSUME NEW k \in 1..L - 1 PROVE EnvironmentAt(r, k)
    OBVIOUS
  <2>1. EnvironmentAt(m, Source(k, i)) /\ r.variables[k] = m.variables[Source(k, i)]
    BY <1>1 DEF Good
  <2> QED BY <1>1, <2>1 DEF EnvironmentAt
<1>4. \A k \in 1..L - 1 : r.variables[k].type = "nameref" => r.variables[k].data \in Name
  <2> SUFFICES ASSUME NEW k \in 1..L - 1, r.variables[k].type = "nameref"
               PROVE  r.variables[k].data \in Name
    OBVIOUS
  <2>1. Source(k, i) \in DOMAIN m.variables /\ r.variables[k] = m.variables[Source(k, i)]
    BY <1>1
  <2> QED BY <2>1 DEF Good, Typed
<1>5. Good(r)
  BY <1>0, <1>1, <1>2, <1>3, <1>4 DEF Good, Typed
<1> QED BY <1>5 DEF r

LEMMA UnsetIs ==
  ASSUME NEW m \in Memory, NEW n
  PROVE  \/ unset_variable(m, n) = m
         \/ /\ First(m, n) \in DOMAIN m.variables /\ ~IsReadonly(m, First(m, n))
            /\ unset_variable(m, n) = Removed(m, First(m, n))
BY FirstIs, SizeOf DEF unset_variable, Removed

LEMMA UnsetGood ==
  ASSUME NEW m, Good(m), NEW n
  PROVE  Good(unset_variable(m, n)) /\ Good(Cleared(m, n))
<1>1. m \in Memory
  BY DEF Good, Typed
<1>2. Good(unset_variable(m, n))
  BY <1>1, UnsetIs, RemovedGood
<1> QED BY <1>2 DEF Cleared

LEMMA RefillGood ==
  ASSUME NEW m, Good(m), NEW n \in Name, NEW type \in {"array", "map"}, NEW text \in Text
  PROVE  Good(Refill(m, n, type, text))
<1> DEFINE c == create_new_variable(m, n, type)
           i == Slot(m, n)
           e == [c.variables[i] EXCEPT !.data = Printed[type][text]]
<1>0. type \in ValueType /\ type # "nameref" /\ type \in Type /\ m \in Memory
  BY DEF ValueType, Type, Good, Typed
<1>1. Refill(m, n, type, text) =
        IF c.undefined \/ c.variables[i].type # type \/ text \in Refused THEN Undefined(c)
        ELSE Write(LeaveBehind(c, i), i, e)
  BY DEF Refill
<1>2. CASE Endless(m, n)
  <2>1. c = Undefined(m)
    BY <1>2 DEF Endless, create_new_variable
  <2>2. c.undefined /\ Good(c)
    BY <1>0, <2>1, UndefinedIs, UndefinedGood
  <2> HIDE DEF c
  <2>3. Refill(m, n, type, text) = Undefined(c)
    BY <1>1, <2>2
  <2> QED BY <2>2, <2>3, UndefinedGood
<1>3. CASE ~Endless(m, n)
  <2>1. i \in DOMAIN c.variables /\ GoodBut(c, i) /\ Good(c)
    BY <1>0, <1>3, Created
  <2> HIDE DEF c, i
  <2>2. Good(Undefined(c))
    BY <2>1, UndefinedGood
  <2>3. ASSUME c.variables[i].type = type PROVE Good(Write(LeaveBehind(c, i), i, e))
    <3>1. c.variables[i] \in Variable
      BY <2>1, SizeOf DEF GoodBut
    <3>2. Printed[type][text] \in Text
      BY <1>0, ConversionAssumption
    <3>3. e \in Variable /\ e.name = c.variables[i].name /\ e.flags = c.variables[i].flags
          /\ e.type = type
      BY <2>3, <3>1, <3>2 DEF Variable
    <3> HIDE DEF e
    <3> QED BY <1>0, <2>1, <3>3, ChangedGood DEF Reference
  <2> QED BY <1>1, <2>2, <2>3
<1> QED BY <1>2, <1>3

LEMMA CreatedGood ==
  ASSUME NEW m, Good(m), NEW n \in Name, NEW type \in Type \ {"nameref"}
  PROVE  Good(create_new_variable(m, n, type))
<1>1. CASE Endless(m, n)
  <2>1. create_new_variable(m, n, type) = Undefined(m)
    BY <1>1 DEF Endless, create_new_variable
  <2> QED BY <2>1, UndefinedGood
<1>2. CASE ~Endless(m, n)
  BY <1>2, Created
<1> QED BY <1>1, <1>2

LEMMA ParsersGood ==
  ASSUME NEW m, Good(m), NEW n \in Name, NEW v \in Text
  PROVE  /\ Good(parse_and_set_array(m, n, v))
         /\ Good(parse_and_set_associative_array(m, n, v))
<1>1. Good(Cleared(m, n))
  BY UnsetGood
<1>2. Good(Refill(Cleared(m, n), n, "array", v)) /\ Good(Refill(Cleared(m, n), n, "map", v))
  BY <1>1, RefillGood
<1>3. Good(create_new_variable(Cleared(m, n), n, "map"))
  <2>1. "map" \in Type \ {"nameref"}
    BY DEF Type
  <2> QED BY <1>1, <2>1, CreatedGood
<1> QED BY <1>1, <1>2, <1>3 DEF parse_and_set_array, parse_and_set_associative_array

LEMMA CasedType == \A flags, text : text \in Text => Cased(flags, text) \in Text
BY ConversionAssumption DEF Cased

LEMMA StoredIs ==
  ASSUME NEW e \in Variable, NEW type \in {"string", "integer", "array"}, NEW v \in Text,
         type = "array" => e.type = "array"
  PROVE  /\ Stored(e, type, v) \in Variable
         /\ Stored(e, type, v).name = e.name /\ Stored(e, type, v).type = type
         /\ Stored(e, type, v).flags = e.flags
         /\ type = "string" => Stored(e, type, v).data = Cased(e.flags, Printed[type][v])
         /\ type = "integer" /\ v \notin Overflowing => Stored(e, type, v).data = Printed[type][v]
         /\ type = "integer" /\ v \in Overflowing /\ e.type = "integer" =>
              Stored(e, type, v).data = e.data
<1>0. type \in ValueType /\ type \in Type
  BY DEF ValueType, Type
<1>1. Printed[type][v] \in Text /\ Default[type] \in Text /\ Leftover \in Text
      /\ Default["integer"] \in Text
  <2>1. "integer" \in Type
    BY DEF Type
  <2> QED BY <1>0, <2>1, ConversionAssumption
<1>2. Cased(e.flags, Printed[type][v]) \in Text
  BY <1>1, CasedType
<1>3. CASE type = "string"
  BY <1>0, <1>1, <1>2, <1>3 DEF Stored, Variable
<1>4. CASE type = "integer" /\ v \notin Overflowing
  BY <1>0, <1>1, <1>4 DEF Stored, Variable
<1>5. CASE type = "integer" /\ v \in Overflowing
  <2> DEFINE data == CASE e.type = "integer" -> e.data
                       [] e.type = "array" -> Default["integer"]
                       [] OTHER -> Leftover
  <2>1. Stored(e, type, v) = [e EXCEPT !.type = type, !.str = v, !.data = data]
    BY <1>5 DEF Stored
  <2>2. data \in Text /\ (e.type = "integer" => data = e.data)
    BY <1>1, Parts
  <2> HIDE DEF data
  <2> QED BY <1>0, <1>5, <2>1, <2>2 DEF Variable
<1>6. CASE type = "array"
  BY <1>0, <1>1, <1>6 DEF Stored, Variable
<1> QED BY <1>3, <1>4, <1>5, <1>6

\* set_variable step by step: where the value goes, what is there once it is stored,
\* once an array has been parsed, and at the end.
Before(m, n, type) == create_new_variable(m, n, type)
Entry(m, n, type) == Before(m, n, type).variables[Slot(m, n)]
Put(m, n, v, type) ==
  Write(IF type = "array" THEN LeaveBehind(Before(m, n, type), Slot(m, n)) ELSE Before(m, n, type),
        Slot(m, n), Stored(Entry(m, n, type), type, v))
Parsed(m, n, v, type) ==
  IF type = "array" THEN parse_and_set_array(Put(m, n, v, type), n, v) ELSE Put(m, n, v, type)
Finished(s, p, i, readonly) ==
  CASE p.undefined -> p
    [] ~p.undefined /\ i > Len(p.variables) ->
         IF "exported" \in s.variables[i].flags THEN Undefined(p) ELSE p
    [] OTHER ->
         process_exported_variable(IF readonly THEN Marked(p, i, {"readonly"}, FALSE) ELSE p, i)

LEMMA SetIs ==
  ASSUME NEW m, NEW n, NEW v, NEW type, NEW readonly
  PROVE  /\ Endless(m, n) => set_variable(m, n, v, type, readonly) = Undefined(m)
         /\ ~Endless(m, n) /\ Refuses(m, n) => set_variable(m, n, v, type, readonly) = m
         /\ ~Endless(m, n) /\ ~Refuses(m, n) =>
              set_variable(m, n, v, type, readonly) =
                IF type = "map" \/ (type = "array" /\ Entry(m, n, type).type # "array")
                THEN Undefined(m)
                ELSE IF ~SetFails(m, n, v, type)
                THEN Finished(Put(m, n, v, type), Parsed(m, n, v, type), Slot(m, n), readonly)
                ELSE IF Entry(m, n, type).type = "integer" THEN Put(m, n, v, type)
                ELSE LeaveBehind(Put(m, n, v, type), Slot(m, n))
<1>1. SetFails(m, n, v, type) \in BOOLEAN
  BY DEF SetFails
<1> QED BY <1>1 DEF set_variable, Before, Entry, Put, Parsed, Finished

LEMMA MarkedBut ==
  ASSUME NEW m, NEW i \in DOMAIN m.variables, GoodBut(m, i), Reference(m.variables[i]),
         NEW flags \in SUBSET Flag, NEW unset
  PROVE  /\ GoodBut(Marked(m, i, flags, unset), i)
         /\ i \in DOMAIN Marked(m, i, flags, unset).variables
         /\ Reference(Marked(m, i, flags, unset).variables[i])
<1> DEFINE e == MarkedEntry(m, i, flags, unset)
<1>0. m \in Memory
  BY DEF GoodBut
<1>1. /\ e \in Variable /\ Marked(m, i, flags, unset) = Write(m, i, e)
      /\ e.name = m.variables[i].name /\ e.type = m.variables[i].type
      /\ e.data = m.variables[i].data
  BY <1>0, MarkedIs
<1> HIDE DEF e
<1>2. Reference(e)
  BY <1>1 DEF Reference
<1>3. GoodBut(Write(m, i, e), i)
  BY <1>1, WriteBut
<1>4. Write(m, i, e).variables[i] = e /\ i \in DOMAIN Write(m, i, e).variables
  BY <1>0, <1>1, WriteIs
<1> QED BY <1>1, <1>2, <1>3, <1>4

LEMMA FinishedGood ==
  ASSUME NEW s, NEW p, NEW i \in Nat \ {0}, NEW readonly, p \in Memory,
         i \in DOMAIN p.variables => GoodBut(p, i) /\ Reference(p.variables[i]),
         p.undefined \/ i \notin DOMAIN p.variables => Good(p)
  PROVE  Good(Finished(s, p, i, readonly))
<1>0. DOMAIN p.variables = 1..Len(p.variables) /\ Len(p.variables) \in Nat /\ p.undefined \in BOOLEAN
  BY SizeOf
<1>1. CASE p.undefined
  BY <1>1 DEF Finished
<1>2. CASE ~p.undefined /\ i > Len(p.variables)
  <2>1. Good(p) /\ Good(Undefined(p))
    BY <1>0, <1>2, UndefinedGood
  <2> QED BY <1>2, <2>1 DEF Finished
<1>3. CASE ~p.undefined /\ ~ (i > Len(p.variables))
  <2>1. i \in DOMAIN p.variables
    BY <1>0, <1>3
  <2>2. Good(process_exported_variable(p, i))
    BY <2>1, ProcessGood
  <2>3. {"readonly"} \in SUBSET Flag
    BY DEF Flag
  <2>4. Good(process_exported_variable(Marked(p, i, {"readonly"}, FALSE), i))
    BY <2>1, <2>3, MarkedBut, ProcessGood
  <2> QED BY <1>3, <2>2, <2>4 DEF Finished
<1> QED BY <1>1, <1>2, <1>3

LEMMA PutIs ==
  ASSUME NEW m, Good(m), NEW n \in Name, NEW v \in Text, NEW type \in {"string", "integer", "array"},
         ~Endless(m, n), type = "array" => Entry(m, n, type).type = "array"
  PROVE  /\ Slot(m, n) \in DOMAIN Before(m, n, type).variables
         /\ Entry(m, n, type) \in Variable
         /\ GoodBut(Put(m, n, v, type), Slot(m, n))
         /\ DOMAIN Put(m, n, v, type).variables = DOMAIN Before(m, n, type).variables
         /\ Put(m, n, v, type).variables[Slot(m, n)] = Stored(Entry(m, n, type), type, v)
         /\ \A j \in DOMAIN Before(m, n, type).variables \ {Slot(m, n)} :
              Put(m, n, v, type).variables[j] = Before(m, n, type).variables[j]
         /\ Reference(Put(m, n, v, type).variables[Slot(m, n)])
         /\ Put(m, n, v, type).undefined = m.undefined
         /\ type = "array" => Good(Put(m, n, v, type))
         /\ type = "integer" /\ v \in Overflowing /\ Entry(m, n, type).type = "integer" =>
              Good(Put(m, n, v, type))
<1> DEFINE c == Before(m, n, type)
           i == Slot(m, n)
           e == Entry(m, n, type)
           f == Stored(e, type, v)
           b == IF type = "array" THEN LeaveBehind(c, i) ELSE c
<1>0. type \in Type /\ type # "nameref"
  BY DEF Type
<1>1. i \in DOMAIN c.variables /\ Good(c) /\ c.undefined = m.undefined
  BY <1>0, Created DEF Before
<1>2. c \in Memory
  BY <1>1 DEF Good, Typed
<1>3. e = c.variables[i]
  BY DEF Entry
<1>4. Put(m, n, v, type) = Write(b, i, f)
  BY DEF Put
<1> HIDE DEF c, i, e
<1>5. e \in Variable
  BY <1>1, <1>2, <1>3, SizeOf
<1>6. /\ f \in Variable /\ f.name = e.name /\ f.type = type /\ f.flags = e.flags
      /\ type = "integer" /\ v \in Overflowing /\ e.type = "integer" => f.data = e.data
  BY <1>5, StoredIs DEF e
<1> HIDE DEF f
<1>7. b \in Memory /\ b.variables = c.variables /\ b.undefined = c.undefined /\ GoodBut(b, i)
  BY <1>1, <1>2, LeaveBehindIs, LeaveBehindBut, GoodIsBut
<1>8. Reference(f)
  BY <1>0, <1>6 DEF Reference
<1>9. type = "array" => Good(Write(b, i, f))
  BY <1>1, <1>3, <1>6, <1>8, GoodIsBut, ChangedGood
<1>10. type = "integer" /\ v \in Overflowing /\ e.type = "integer" => Good(Write(b, i, f))
  <2> SUFFICES ASSUME type = "integer", v \in Overflowing, e.type = "integer"
               PROVE  Good(Write(b, i, f))
    OBVIOUS
  <2>1. Shown(f) = Shown(e) /\ b = c
    BY <1>6, type = "integer" DEF Shown
  <2> HIDE DEF b
  <2> QED BY <1>1, <1>3, <1>6, <1>8, <2>1, WriteGood
<1> HIDE DEF b
<1>11. /\ GoodBut(Write(b, i, f), i)
       /\ DOMAIN Write(b, i, f).variables = DOMAIN c.variables
       /\ Write(b, i, f).variables[i] = f
       /\ \A j \in DOMAIN c.variables \ {i} : Write(b, i, f).variables[j] = c.variables[j]
       /\ Write(b, i, f).undefined = m.undefined
  BY <1>1, <1>3, <1>6, <1>7, WriteIs, WriteBut
<1> QED BY <1>1, <1>4, <1>5, <1>8, <1>9, <1>10, <1>11 DEF c, i, e, f

LEMMA SetGood ==
  ASSUME NEW m, Good(m), ~m.undefined, NEW n \in Name, NEW v \in Text, NEW type \in ValueType, NEW readonly
  PROVE  Good(set_variable(m, n, v, type, readonly))
<1>1. CASE Endless(m, n)
  BY <1>1, SetIs, UndefinedGood
<1>2. CASE ~Endless(m, n) /\ Refuses(m, n)
  BY <1>2, SetIs
<1>3. CASE ~Endless(m, n) /\ ~Refuses(m, n)
  <2> DEFINE s == Put(m, n, v, type)
             p == Parsed(m, n, v, type)
             i == Slot(m, n)
             e == Entry(m, n, type)
  <2>0. set_variable(m, n, v, type, readonly) =
          IF type = "map" \/ (type = "array" /\ e.type # "array") THEN Undefined(m)
          ELSE IF ~SetFails(m, n, v, type) THEN Finished(s, p, i, readonly)
          ELSE IF e.type = "integer" THEN s ELSE LeaveBehind(s, i)
    BY <1>3, SetIs
  <2>1. CASE type = "map" \/ (type = "array" /\ e.type # "array")
    BY <2>0, <2>1, UndefinedGood
  <2>2. CASE ~ (type = "map" \/ (type = "array" /\ e.type # "array"))
    <3>0. type \in {"string", "integer", "array"}
      BY <2>2 DEF ValueType, Type
    <3>1. /\ i \in DOMAIN s.variables /\ GoodBut(s, i) /\ Reference(s.variables[i])
          /\ s.undefined = m.undefined /\ (type = "array" => Good(s))
          /\ type = "integer" /\ v \in Overflowing /\ e.type = "integer" => Good(s)
          /\ s.variables[i] = Stored(e, type, v) /\ e \in Variable
      BY <1>3, <2>2, <3>0, PutIs
    <3>2. p = IF type = "array" THEN parse_and_set_array(s, n, v) ELSE s
      BY DEF Parsed
    <3>3. m \in Memory /\ s \in Memory /\ i \in Nat \ {0}
      <4>1. m \in Memory /\ s \in Memory
        BY <3>1 DEF Good, Typed, GoodBut
      <4> QED BY <3>1, <4>1, SizeOf
    <3>4. SetFails(m, n, v, type) => type = "integer" /\ v \in Overflowing
      BY <1>3 DEF SetFails
    <3> HIDE DEF s, p, i, e
    <3>5. Good(Finished(s, p, i, readonly))
      <4>1. CASE type = "array"
        <5>1. Good(p)
          BY <3>1, <3>2, <4>1, ParsersGood
        <5>2. p \in Memory /\ \A j \in DOMAIN p.variables : Reference(p.variables[j])
          BY <5>1 DEF Good, Typed, Reference
        <5> QED BY <3>3, <5>1, <5>2, GoodIsBut, FinishedGood
      <4>2. CASE type # "array"
        <5>1. p = s /\ ~p.undefined
          BY <3>1, <3>2, <4>2
        <5> QED BY <3>1, <3>3, <5>1, FinishedGood
      <4> QED BY <4>1, <4>2
    <3>6. e.type # "integer" /\ type = "integer" /\ v \in Overflowing => Good(LeaveBehind(s, i))
      <4> SUFFICES ASSUME e.type # "integer", type = "integer", v \in Overflowing
                   PROVE  Good(LeaveBehind(s, i))
        OBVIOUS
      <4> DEFINE l == LeaveBehind(s, i)
      <4>1. /\ l.variables = s.variables
            /\ "exported" \in s.variables[i].flags => s.variables[i].name \in l.behind
            /\ GoodBut(l, i)
        BY <3>1, <3>3, LeaveBehindIs, LeaveBehindBut
      <4> HIDE DEF l
      <4>2. EnvironmentAt(l, i)
        BY <4>1 DEF EnvironmentAt
      <4>3. Good(l)
        BY <3>1, <4>1, <4>2, ButIsGood
      <4> QED BY <4>3 DEF l
    <3> QED BY <2>0, <2>2, <3>1, <3>4, <3>5, <3>6
  <2> QED BY <2>1, <2>2
<1> QED BY <1>1, <1>2, <1>3

\* A string or a number that is taken.
LEMMA SetPlain ==
  ASSUME NEW m, Good(m), ~m.undefined, NEW n \in Name, NEW v \in Text, NEW type \in {"string", "integer"},
         ~Endless(m, n), ~SetFails(m, n, v, type)
  PROVE  /\ set_variable(m, n, v, type, FALSE) = process_exported_variable(Put(m, n, v, type), Slot(m, n))
         /\ set_variable(m, n, v, type, FALSE).variables = Put(m, n, v, type).variables
         /\ set_variable(m, n, v, type, FALSE).undefined = m.undefined
         /\ Slot(m, n) \in DOMAIN Put(m, n, v, type).variables
<1> DEFINE s == Put(m, n, v, type)
           i == Slot(m, n)
<1>1. /\ i \in DOMAIN s.variables /\ GoodBut(s, i) /\ s.undefined = m.undefined
  BY PutIs
<1>2. s \in Memory
  BY <1>1 DEF GoodBut
<1>3. DOMAIN s.variables = 1..Len(s.variables) /\ Len(s.variables) \in Nat
  BY <1>2, SizeOf
<1>4. set_variable(m, n, v, type, FALSE) = Finished(s, s, i, FALSE)
  <2>1. ~Refuses(m, n)
    BY DEF SetFails
  <2>2. Parsed(m, n, v, type) = s
    BY DEF Parsed
  <2> HIDE DEF s, i
  <2> QED BY <2>1, <2>2, SetIs DEF s, i
<1> HIDE DEF s, i
<1>5. Finished(s, s, i, FALSE) = process_exported_variable(s, i)
  BY <1>1, <1>3 DEF Finished
<1>6. process_exported_variable(s, i).variables = s.variables
      /\ process_exported_variable(s, i).undefined = s.undefined
  BY <1>1, <1>2, ProcessIs
<1> QED BY <1>1, <1>4, <1>5, <1>6 DEF s, i

LEMMA ReferGood ==
  ASSUME NEW m, NEW i \in DOMAIN m.variables, GoodBut(m, i), ~m.undefined, NEW v \in Name
  PROVE  Good(Refer(m, i, v))
<1> DEFINE e == m.variables[i]
           f == [e EXCEPT !.data = IF e.type = "integer" THEN Leftover ELSE v]
           s == Write(LeaveBehind(m, i), i, f)
<1>0. m \in Memory /\ v \in Text /\ Leftover \in Text /\ Empty \in Text /\ "string" \in ValueType
  BY TextAssumption, ConversionAssumption DEF GoodBut, ValueType, Type
<1>1. Refer(m, i, v) =
        IF e.type \in {"array", "map"} \/ Endless(s, v) THEN Undefined(s)
        ELSE IF get_variable(s, v) = 0 THEN set_variable(s, v, Empty, "string", FALSE)
        ELSE s
  BY DEF Refer
<1>2. e \in Variable
  BY <1>0, SizeOf
<1>3. f \in Variable /\ f.name = e.name /\ f.flags = e.flags /\ Reference(f)
  BY <1>0, <1>2 DEF Variable, Reference
<1>4. Good(s)
  <2> HIDE DEF f
  <2> QED BY <1>3, ChangedGood
<1>5. ~s.undefined
  <2>1. LeaveBehind(m, i) \in Memory /\ LeaveBehind(m, i).variables = m.variables
        /\ LeaveBehind(m, i).undefined = m.undefined
    BY <1>0, LeaveBehindIs
  <2> HIDE DEF f
  <2>2. s.undefined = m.undefined
    BY <1>3, <2>1, WriteIs
  <2> QED BY <2>2
<1> HIDE DEF s
<1>6. Good(Undefined(s)) /\ Good(set_variable(s, v, Empty, "string", FALSE))
  BY <1>0, <1>4, <1>5, UndefinedGood, SetGood
<1> QED BY <1>1, <1>4, <1>6

LEMMA MarkGood ==
  ASSUME NEW before, NEW m, Good(m), NEW i \in Nat \ {0}, NEW flags \in SUBSET Flag, NEW unset
  PROVE  Good(Mark(before, m, i, flags, unset))
<1>0. m \in Memory /\ DOMAIN m.variables = 1..Len(m.variables) /\ Len(m.variables) \in Nat
  BY SizeOf DEF Good, Typed
<1>1. Good(Undefined(m))
  BY UndefinedGood
<1>2. CASE ~ (m.undefined \/ flags = {} \/ m.capacity # before.capacity \/ i > Len(m.variables))
  <2>1. i \in DOMAIN m.variables
    BY <1>0, <1>2
  <2>2. /\ "exported" \notin flags => Good(Marked(m, i, flags, unset))
        /\ Good(process_exported_variable(Marked(m, i, flags, unset), i))
    BY <2>1, MarkedGood
  <2>3. Mark(before, m, i, flags, unset) =
          IF "exported" \in flags THEN process_exported_variable(Marked(m, i, flags, unset), i)
          ELSE Marked(m, i, flags, unset)
    BY <1>2 DEF Mark
  <2> QED BY <2>2, <2>3
<1>3. CASE m.undefined \/ flags = {} \/ m.capacity # before.capacity \/ i > Len(m.variables)
  <2>1. Mark(before, m, i, flags, unset) \in {m, Undefined(m)}
    BY <1>3 DEF Mark
  <2> QED BY <1>1, <2>1
<1> QED BY <1>2, <1>3

-----------------------------------------------------------------------------
(* Every command keeps the memory good.                                        *)
Result(n, m) == memory' = IF Endless(memory, n) THEN Undefined(memory) ELSE m

LEMMA ResultGood ==
  ASSUME NEW n, NEW m, Good(memory), Result(n, m), ~Endless(memory, n) => Good(m)
  PROVE  Good(memory')
BY UndefinedGood DEF Result

LEMMA MemoryIs ==
  ASSUME Good(memory)
  PROVE  /\ memory \in Memory /\ Typed(memory) /\ Len(memory.variables) \in Nat
         /\ DOMAIN memory.variables = 1..Len(memory.variables)
         /\ \A i \in DOMAIN memory.variables :
              /\ memory.variables[i] \in Variable /\ Reference(memory.variables[i])
         /\ \A n \in Name : get_variable(memory, n) > 0 => get_variable(memory, n) \in DOMAIN memory.variables
<1>1. memory \in Memory /\ Typed(memory)
  BY DEF Good, Typed
<1> QED BY <1>1, SizeOf, Found DEF Typed, Reference

LEMMA AssignGood ==
  ASSUME Good(memory), ~memory.undefined, NEW n \in Name, NEW v \in Text, Assign(n, v)
  PROVE  Good(memory')
<1>0. Kind[v] \in ValueType
  BY ConversionAssumption
<1>1. \/ Result(n, parse_and_set_array(memory, n, v))
      \/ Result(n, parse_and_set_associative_array(memory, n, v))
      \/ Result(n, set_variable(memory, n, v, Kind[v], FALSE))
  BY DEF Assign, Command, Result
<1>2. /\ Good(parse_and_set_array(memory, n, v))
      /\ Good(parse_and_set_associative_array(memory, n, v))
      /\ Good(set_variable(memory, n, v, Kind[v], FALSE))
  BY <1>0, ParsersGood, SetGood
<1> QED BY <1>1, <1>2, ResultGood

LEMMA AssignElementGood ==
  ASSUME Good(memory), NEW n \in Name, AssignElement(n)
  PROVE  Good(memory')
<1> DEFINE i == get_variable(memory, n)
           e == memory.variables[i]
<1>1. CASE ~ (i > 0 /\ e.type \in {"array", "map"})
  <2>1. Result(n, memory)
    BY <1>1 DEF AssignElement, Command, Result
  <2> QED BY <2>1, ResultGood
<1>2. CASE i > 0 /\ e.type \in {"array", "map"}
  <2>1. PICK d \in {Printed[Kind[t]][t] : t \in {u \in Text \ Refused : Kind[u] = e.type}} :
          Result(n, Write(LeaveBehind(memory, i), i, [e EXCEPT !.data = d]))
    BY <1>2 DEF AssignElement, Command, Result
  <2>2. d \in Text
    BY <2>1, ConversionAssumption
  <2> DEFINE f == [e EXCEPT !.data = d]
  <2>3. i \in DOMAIN memory.variables /\ e \in Variable
    BY <1>2, MemoryIs
  <2>4. f \in Variable /\ f.name = e.name /\ f.flags = e.flags /\ Reference(f)
    BY <1>2, <2>2, <2>3 DEF Variable, Reference
  <2> HIDE DEF f
  <2>5. Good(Write(LeaveBehind(memory, i), i, f))
    BY <2>3, <2>4, GoodIsBut, ChangedGood
  <2> QED BY <2>1, <2>5, ResultGood DEF f
<1> QED BY <1>1, <1>2

LEMMA SetCommandsGood ==
  ASSUME Good(memory), ~memory.undefined, NEW n \in Name, NEW v \in Text,
         builtin_set(n, v) \/ printf_v(n, v) \/ AssignDefault(n, v)
  PROVE  Good(memory')
<1>0. Kind[v] \in ValueType /\ "string" \in ValueType
  BY ConversionAssumption DEF ValueType, Type
<1>1. \/ Result(n, set_variable(memory, n, v, Kind[v], FALSE))
      \/ Result(n, set_variable(memory, n, v, "string", FALSE))
      \/ Result(n, memory)
      \/ Result(n, Undefined(memory))
  <2>1. CASE builtin_set(n, v) \/ printf_v(n, v)
    BY <2>1 DEF builtin_set, printf_v, Command, Result
  <2>2. CASE AssignDefault(n, v)
    BY <2>2 DEF AssignDefault, Command, Result
  <2> QED BY <2>1, <2>2
<1>2. /\ Good(set_variable(memory, n, v, Kind[v], FALSE))
      /\ Good(set_variable(memory, n, v, "string", FALSE))
      /\ Good(Undefined(memory))
  BY <1>0, SetGood, UndefinedGood
<1> QED BY <1>1, <1>2, ResultGood

LEMMA ExportValueGood ==
  ASSUME Good(memory), ~memory.undefined, NEW n \in Name, NEW v \in Text, NEW remove, ExportValue(n, v, remove)
  PROVE  Good(memory')
<1> DEFINE i == Slot(memory, n)
           s == set_variable(memory, n, v, "string", FALSE)
<1>1. \/ Result(n, memory)
      \/ /\ ~Refuses(memory, n)
         /\ \/ Result(n, process_exported_variable(s, i))
            \/ Result(n, process_exported_variable(Marked(s, i, {"exported"}, FALSE), i))
  BY DEF ExportValue, Command, Result
<1>2. ASSUME ~Refuses(memory, n), ~Endless(memory, n)
      PROVE  /\ Good(process_exported_variable(s, i))
             /\ Good(process_exported_variable(Marked(s, i, {"exported"}, FALSE), i))
  <2>1. "string" \in ValueType /\ {"exported"} \in SUBSET Flag
    BY DEF ValueType, Type, Flag
  <2>2. ~SetFails(memory, n, v, "string")
    BY <1>2 DEF SetFails
  <2>3. Good(s)
    BY <2>1, SetGood
  <2>4. i \in DOMAIN s.variables
    BY <1>2, <2>2, SetPlain
  <2> HIDE DEF s, i
  <2>5. GoodBut(s, i) /\ Reference(s.variables[i])
    BY <2>3, <2>4, GoodIsBut DEF Good, Typed, Reference
  <2> QED BY <2>1, <2>3, <2>4, <2>5, ProcessGood, MarkedGood
<1> HIDE DEF s, i
<1> QED BY <1>1, <1>2, ResultGood

LEMMA ExportNameGood ==
  ASSUME Good(memory), ~memory.undefined, NEW n \in Name, NEW remove \in BOOLEAN,
         ExportName(n, remove)
  PROVE  Good(memory')
<1> DEFINE i == get_variable(memory, n)
           s == set_variable(memory, n, Empty, "string", FALSE)
           l == Len(s.variables)
<1>0. Empty \in Text /\ "string" \in ValueType /\ {"exported"} \in SUBSET Flag
  BY TextAssumption DEF ValueType, Type, Flag
<1>1. \/ i > 0 /\ Result(n, process_exported_variable(Marked(memory, i, {"exported"}, remove), i))
      \/ Result(n, memory)
      \/ i <= 0 /\ Result(n, process_exported_variable(Marked(s, l, {"exported"}, FALSE), l))
  <2>1. i \in Int
    BY MemoryIs, Found
  <2>2. CASE i > 0
    BY <2>2 DEF ExportName, Command, Result
  <2>3. CASE i <= 0 /\ remove
    BY <2>1, <2>3 DEF ExportName, Command, Result
  <2>4. CASE i <= 0 /\ ~remove
    BY <2>1, <2>4 DEF ExportName, Command, Result
  <2>5. i > 0 \/ i <= 0
    BY <2>1
  <2> HIDE DEF i, s, l
  <2> QED BY <2>2, <2>3, <2>4, <2>5, Zenon
<1>2. ASSUME i > 0 PROVE Good(process_exported_variable(Marked(memory, i, {"exported"}, remove), i))
  <2>1. i \in DOMAIN memory.variables
    BY <1>2, MemoryIs
  <2> QED BY <1>0, <2>1, MarkedGood
<1>3. ASSUME i <= 0, ~Endless(memory, n)
      PROVE  Good(process_exported_variable(Marked(s, l, {"exported"}, FALSE), l))
  <2>1. ~SetFails(memory, n, Empty, "string")
    <3>1. ~Refuses(memory, n)
      BY <1>3, MemoryIs DEF Refuses
    <3> QED BY <3>1 DEF SetFails
  <2>2. Good(s)
    BY <1>0, SetGood
  <2>3. Slot(memory, n) \in DOMAIN s.variables
    BY <1>0, <1>3, <2>1, SetPlain
  <2> HIDE DEF s
  <2>4. s \in Memory
    BY <2>2 DEF Good, Typed
  <2>5. l \in DOMAIN s.variables
    BY <2>3, <2>4, SizeOf
  <2> HIDE DEF l
  <2> QED BY <1>0, <2>2, <2>5, MarkedGood
<1> HIDE DEF s, i
<1> QED BY <1>1, <1>2, <1>3, ResultGood

LEMMA ReadonlyGood ==
  ASSUME Good(memory), ~memory.undefined, NEW n \in Name, NEW v \in Text, NEW kind \in {"string", "array", "map"},
         builtin_readonly(n, v, kind)
  PROVE  Good(memory')
<1> DEFINE i == get_variable(memory, n)
           e == memory.variables[i]
           type == IF v = Empty THEN kind ELSE Kind[v]
           text == IF v = Empty THEN Default[type] ELSE v
           f == [e EXCEPT !.str = v, !.flags = @ \union {"readonly"}]
<1>0. type \in ValueType /\ text \in Text /\ {"readonly"} \in SUBSET Flag /\ "exported" \notin {"readonly"}
  BY ConversionAssumption DEF ValueType, Type, Flag
<1>1. \/ i > 0 /\ Result(n, Marked(memory, i, {"readonly"}, FALSE))
      \/ i > 0 /\ Result(n, Write(memory, i, f))
      \/ Result(n, memory)
      \/ Result(n, set_variable(memory, n, text, type, TRUE))
  <2>1. i \in Int
    BY MemoryIs, Found
  <2>2. CASE i > 0 /\ v = Empty
    BY <2>2 DEF builtin_readonly, Command, Result
  <2>3. CASE i > 0 /\ v # Empty
    BY <2>3 DEF builtin_readonly, Command, Result
  <2>4. CASE i <= 0
    BY <2>1, <2>4 DEF builtin_readonly, Command, Result
  <2>5. i > 0 \/ i <= 0
    BY <2>1
  <2> HIDE DEF i, f, text, type
  <2> QED BY <2>2, <2>3, <2>4, <2>5, Zenon
<1>2. ASSUME i > 0 PROVE Good(Marked(memory, i, {"readonly"}, FALSE)) /\ Good(Write(memory, i, f))
  <2>1. i \in DOMAIN memory.variables /\ e \in Variable /\ Reference(e)
    BY <1>2, MemoryIs
  <2>2. Good(Marked(memory, i, {"readonly"}, FALSE))
    BY <1>0, <2>1, MarkedGood
  <2>3. /\ f \in Variable /\ f.name = e.name /\ f.type = e.type /\ f.data = e.data
        /\ f.flags = e.flags \union {"readonly"}
    BY <1>0, <2>1 DEF Variable
  <2> HIDE DEF f
  <2>4. Reference(f) /\ Shown(f) = Shown(e) /\ ("exported" \in f.flags => "exported" \in e.flags)
    BY <2>1, <2>3 DEF Reference, Shown
  <2> QED BY <2>1, <2>2, <2>3, <2>4, WriteGood
<1>3. Good(set_variable(memory, n, text, type, TRUE))
  BY <1>0, SetGood
<1> HIDE DEF i, type, text, f
<1> QED BY <1>1, <1>2, <1>3, ResultGood

LEMMA UnsetCommandGood ==
  ASSUME Good(memory), NEW n \in Name, builtin_unset(n)
  PROVE  Good(memory')
<1>1. Result(n, memory) \/ Result(n, unset_variable(memory, n))
  BY DEF builtin_unset, Command, Result
<1> QED BY <1>1, UnsetGood, ResultGood

LEMMA DeclaredTypeIs ==
  ASSUME NEW options, NEW v \in Text
  PROVE  /\ DeclaredType(options, v) \in Type
         /\ DeclaredType(options, v) = "nameref" <=> "n" \in options
<1>1. Kind[v] \in ValueType /\ Kind[v] \in Type /\ Kind[v] # "nameref"
  BY ConversionAssumption DEF ValueType
<1>2. {"nameref", "map", "array", "string", "integer"} = Type
  BY DEF Type
<1>3. CASE "n" \in options
  BY <1>2, <1>3 DEF DeclaredType
<1>4. CASE "n" \notin options
  <2>1. DeclaredType(options, v) \in {"map", "array", "string", "integer", Kind[v]}
    BY <1>4 DEF DeclaredType
  <2> QED BY <1>1, <1>2, <1>4, <2>1
<1> QED BY <1>3, <1>4

\* What declare has done before it sets the flags.
Given(m, n, v, type) ==
  LET c == Before(m, n, type)
  IN CASE v = Empty -> c
       [] v # Empty /\ type = "nameref" -> Refer(c, Slot(m, n), v)
       [] v # Empty /\ type = "array" -> parse_and_set_array(c, n, v)
       [] v # Empty /\ type = "map" -> parse_and_set_associative_array(c, n, v)
       [] OTHER -> set_variable(c, n, v, type, FALSE)

LEMMA DeclareIs ==
  ASSUME NEW n, NEW v, NEW options, NEW unset, builtin_declare(n, v, options, unset)
  PROVE  /\ "n" \in options => v \in Name \union {Empty}
         /\ \/ Result(n, memory)
            \/ /\ ~ (DeclaredType(options, v) = "nameref" /\ v = Empty)
               /\ \/ /\ DeclaredType(options, v) = "integer"
                     /\ Result(n, Before(memory, n, DeclaredType(options, v)))
                  \/ Result(n, Mark(Before(memory, n, DeclaredType(options, v)),
                                    Given(memory, n, v, DeclaredType(options, v)),
                                    Slot(memory, n), options \intersect Flag, unset))
<1> DEFINE type == DeclaredType(options, v)
<1>1. "n" \in options => v \in Name \union {Empty}
  BY DEF builtin_declare
<1>2. CASE type = "nameref" /\ v = Empty
  BY <1>1, <1>2 DEF builtin_declare, Command, Result
<1>3. CASE ~ (type = "nameref" /\ v = Empty)
  <2>1. CASE type = "integer" /\ v # Empty /\ Kind[v] # "integer"
    BY <1>1, <1>3, <2>1 DEF builtin_declare, Command, Result, Before
  <2>2. CASE ~ (type = "integer" /\ v # Empty /\ Kind[v] # "integer")
    <3>1. Result(n, Mark(Before(memory, n, type), Given(memory, n, v, type),
                         Slot(memory, n), options \intersect Flag, unset))
      BY <1>3, <2>2 DEF builtin_declare, Command, Result, Before, Given
    <3> QED BY <1>1, <1>3, <3>1
  <2> QED BY <2>1, <2>2
<1> QED BY <1>2, <1>3

LEMMA DeclareGood ==
  ASSUME Good(memory), ~memory.undefined, NEW n \in Name, NEW v \in Text, NEW options, NEW unset,
         builtin_declare(n, v, options, unset)
  PROVE  Good(memory')
<1> DEFINE type == DeclaredType(options, v)
           c == Before(memory, n, type)
           i == Slot(memory, n)
           g == Given(memory, n, v, type)
<1>1. type \in Type /\ (type = "nameref" <=> "n" \in options)
  BY DeclaredTypeIs
<1>2. /\ "n" \in options => v \in Name \union {Empty}
      /\ \/ Result(n, memory)
         \/ /\ ~ (type = "nameref" /\ v = Empty)
            /\ \/ type = "integer" /\ Result(n, c)
               \/ Result(n, Mark(c, g, i, options \intersect Flag, unset))
  BY DeclareIs
<1>3. ASSUME ~Endless(memory, n), ~ (type = "nameref" /\ v = Empty)
      PROVE  /\ type = "integer" => Good(c)
             /\ Good(Mark(c, g, i, options \intersect Flag, unset))
  <2>1. i \in DOMAIN c.variables /\ GoodBut(c, i) /\ c.undefined = memory.undefined
        /\ (type # "nameref" => Good(c))
    BY <1>1, <1>3, Created DEF Before
  <2>2. i \in Nat \ {0}
    BY <1>3, MemoryIs, SlotIs
  <2>3. g = CASE v = Empty -> c
              [] v # Empty /\ type = "nameref" -> Refer(c, i, v)
              [] v # Empty /\ type = "array" -> parse_and_set_array(c, n, v)
              [] v # Empty /\ type = "map" -> parse_and_set_associative_array(c, n, v)
              [] OTHER -> set_variable(c, n, v, type, FALSE)
    BY DEF Given
  <2> HIDE DEF c, i, g, type
  <2>4. Good(g)
    <3>1. CASE v = Empty
      BY <1>3, <2>1, <2>3, <3>1
    <3>2. CASE v # Empty /\ type = "nameref"
      <4>1. v \in Name
        BY <1>1, <1>2, <3>2
      <4>2. Good(Refer(c, i, v))
        BY <2>1, <4>1, ReferGood
      <4> QED BY <2>3, <3>2, <4>2
    <3>3. CASE v # Empty /\ type \in {"array", "map"}
      <4>1. Good(parse_and_set_array(c, n, v)) /\ Good(parse_and_set_associative_array(c, n, v))
        BY <2>1, <3>3, ParsersGood
      <4> QED BY <2>3, <3>3, <4>1
    <3>4. CASE v # Empty /\ type \notin {"nameref", "array", "map"}
      <4>1. type \in ValueType
        BY <1>1, <3>4 DEF ValueType
      <4>2. Good(set_variable(c, n, v, type, FALSE))
        BY <2>1, <3>4, <4>1, SetGood
      <4> QED BY <2>3, <3>4, <4>2
    <3> QED BY <3>1, <3>2, <3>3, <3>4
  <2>5. options \intersect Flag \in SUBSET Flag
    OBVIOUS
  <2> QED BY <2>1, <2>2, <2>4, <2>5, MarkGood
<1> HIDE DEF type, c, i, g
<1> QED BY <1>2, <1>3, ResultGood

LEMMA SessionIs ==
  ASSUME session \in Session
  PROVE  /\ session.values \subseteq Text /\ session.commands \in Nat
         /\ \A v \in session.values \union Name : v \in Text
BY SessionAssumption, TextAssumption

LEMMA OneNameGood ==
  ASSUME Good(memory), ~memory.undefined, session \in Session, NEW n \in Name, OneName(n)
  PROVE  Good(memory')
<1>1. \A v \in session.values : v \in Text
  BY SessionIs
<1>2. CASE AssignElement(n)
  BY <1>2, AssignElementGood
<1>3. CASE builtin_unset(n)
  BY <1>3, UnsetCommandGood
<1>4. ASSUME NEW remove \in BOOLEAN, ExportName(n, remove) PROVE Good(memory')
  BY <1>4, ExportNameGood
<1>5. ASSUME NEW v \in session.values, Assign(n, v) PROVE Good(memory')
  BY <1>1, <1>5, AssignGood
<1>6. ASSUME NEW v \in session.values, builtin_set(n, v) \/ printf_v(n, v) \/ AssignDefault(n, v)
      PROVE  Good(memory')
  BY <1>1, <1>6, SetCommandsGood
<1>7. ASSUME NEW v \in session.values, NEW remove \in BOOLEAN, ExportValue(n, v, remove)
      PROVE  Good(memory')
  BY <1>1, <1>7, ExportValueGood
<1>8. ASSUME NEW v \in session.values, NEW kind \in {"string", "array", "map"}, builtin_readonly(n, v, kind)
      PROVE  Good(memory')
  BY <1>1, <1>8, ReadonlyGood
<1> QED BY <1>2, <1>3, <1>4, <1>5, <1>6, <1>7, <1>8 DEF OneName

-----------------------------------------------------------------------------
(* The inductive invariant.                                                    *)
Inv ==
  /\ Good(memory)
  /\ session \in Session
  /\ status \in {"ok", "failed"}
  /\ commands \in 0..session.commands

LEMMA InitInv == Init => Inv
<1> SUFFICES ASSUME Init PROVE Inv
  OBVIOUS
<1>1. session \in Session /\ session.commands \in Nat
  BY SessionIs DEF Init
<1>2. memory.variables = <<>> /\ Len(memory.variables) = 0 /\ DOMAIN memory.variables = {}
      /\ memory.capacity = INITIAL_TABLE_SIZE
  BY DEF Init
<1>3. memory \in Memory
  <2>1. <<>> \in Seq(Variable) /\ INITIAL_TABLE_SIZE \in Nat \ {0}
        /\ [n \in Name |-> NotSet] \in [Name -> Text \union {NotSet}] /\ {} \in SUBSET Name
    BY SizeAssumption
  <2> QED BY <2>1 DEF Init, Memory
<1>4. Good(memory)
  BY <1>2, <1>3, SizeAssumption DEF Good, Typed, TwiceIsBehind
<1> QED BY <1>1, <1>4 DEF Init, Inv

LEMMA Counted ==
  ASSUME Good(memory), NEW n \in Name, OneName(n) \/ \E v, options, unset : builtin_declare(n, v, options, unset)
  PROVE  commands' = commands + 1 /\ status' \in {"ok", "failed"}
<1> DEFINE Done == commands' = commands + 1 /\ status' \in {"ok", "failed"}
<1>1. ASSUME AssignElement(n) \/ builtin_unset(n) PROVE Done
  BY <1>1 DEF Command, AssignElement, builtin_unset
<1>2. CASE OneName(n)
  <2>1. ASSUME NEW remove \in BOOLEAN, ExportName(n, remove) PROVE Done
    <3>1. get_variable(memory, n) > 0 \/ get_variable(memory, n) <= 0
      BY MemoryIs, Found
    <3> QED BY <2>1, <3>1 DEF Command, ExportName
  <2>2. ASSUME NEW v \in session.values, Assign(n, v) PROVE Done
    BY <2>2 DEF Command, Assign
  <2>3. ASSUME NEW v \in session.values, builtin_set(n, v) \/ printf_v(n, v) \/ AssignDefault(n, v)
        PROVE  Done
    BY <2>3 DEF Command, builtin_set, printf_v, AssignDefault
  <2>4. ASSUME NEW v \in session.values, NEW remove \in BOOLEAN, ExportValue(n, v, remove) PROVE Done
    BY <2>4 DEF Command, ExportValue
  <2>5. ASSUME NEW v \in session.values, NEW kind \in {"string", "array", "map"},
               builtin_readonly(n, v, kind)
        PROVE  Done
    <3>1. get_variable(memory, n) > 0 \/ get_variable(memory, n) <= 0
      BY MemoryIs, Found
    <3> QED BY <2>5, <3>1 DEF Command, builtin_readonly
  <2> QED BY <1>1, <1>2, <2>1, <2>2, <2>3, <2>4, <2>5 DEF OneName
<1>3. ASSUME NEW v, NEW options, NEW unset, builtin_declare(n, v, options, unset)
      PROVE  commands' = commands + 1 /\ status' \in {"ok", "failed"}
  BY <1>3 DEF Command, builtin_declare
<1> QED BY <1>2, <1>3

\* The command of a step.
LEMMA NextIs ==
  ASSUME Next
  PROVE  /\ ~memory.undefined /\ commands < session.commands /\ session' = session
         /\ \E n \in Name :
              \/ OneName(n)
              \/ \E v \in session.values \union Name, options \in session.options, unset \in BOOLEAN :
                   builtin_declare(n, v, options, unset)
BY DEF Next

LEMMA InvStep == Inv /\ [Next]_vars => Inv'
<1> SUFFICES ASSUME Inv, [Next]_vars PROVE Inv'
  OBVIOUS
<1>0. Good(memory) /\ session \in Session /\ commands \in 0..session.commands
      /\ session.commands \in Nat
  BY SessionIs DEF Inv
<1>1. CASE UNCHANGED vars
  BY <1>1 DEF vars, Inv, Good, Typed, TwiceIsBehind, EnvironmentAt, Shown
<1>2. CASE Next
  <2>1. ~memory.undefined /\ commands < session.commands /\ session' = session
    BY <1>2, NextIs
  <2>2. PICK n \in Name :
          \/ OneName(n)
          \/ \E v \in session.values \union Name, options \in session.options, unset \in BOOLEAN :
               builtin_declare(n, v, options, unset)
    BY <1>2, NextIs
  <2>3. Good(memory')
    <3>1. CASE OneName(n)
      BY <1>0, <2>1, <3>1, OneNameGood
    <3>2. ASSUME NEW v \in session.values \union Name, NEW options \in session.options,
                 NEW unset \in BOOLEAN, builtin_declare(n, v, options, unset)
          PROVE  Good(memory')
      <4>1. v \in Text
        BY <1>0, SessionIs
      <4> QED BY <1>0, <2>1, <3>2, <4>1, DeclareGood
    <3> QED BY <2>2, <3>1, <3>2
  <2>4. commands' = commands + 1 /\ status' \in {"ok", "failed"}
    BY <1>0, <2>2, Counted
  <2> QED BY <1>0, <2>1, <2>3, <2>4 DEF Inv
<1> QED BY <1>1, <1>2

\* Any sequence of commands, on any names, with any values and options, leaves the
\* memory typed, marks as behind the names it holds twice (variable.c, create_new_variable
\* behind a nameref to nothing), and the environment shows the other exported variables.
THEOREM Invariance == Spec => []Inv
<1>1. Init => Inv
  BY InitInv
<1>2. Inv /\ [Next]_vars => Inv'
  BY InvStep
<1> QED BY <1>1, <1>2, PTL DEF Spec

\* The table of variables never holds more than its capacity (ensure_capacity), and what
\* declare -n makes names a name.
THEOREM TypeCorrect == Spec => []TypeOK
<1>1. Inv => TypeOK
  BY DEF Inv, Good, Typed, TypeOK
<1> QED BY <1>1, Invariance, PTL

\* process_exported_variable: whatever changes an exported variable and publishes it does
\* so before anything else is run, and what a child finds is the variable's value.
THEOREM ExportedIsShown == Spec => []ExportedIsInEnvironment
<1>1. Inv => ExportedIsInEnvironment
  <2> SUFFICES ASSUME Inv PROVE ExportedIsInEnvironment
    OBVIOUS
  <2>1. TypeOK
    BY DEF Inv, Good, Typed, TypeOK
  <2>2. ASSUME NEW n \in Name \ memory.behind, First(memory, n) # 0,
               "exported" \in memory.variables[First(memory, n)].flags
        PROVE  memory.environment[n] = Shown(memory.variables[First(memory, n)])
    <3>1. memory \in Memory
      BY <2>1 DEF TypeOK
    <3>2. First(memory, n) \in DOMAIN memory.variables
          /\ memory.variables[First(memory, n)].name = n
      BY <2>2, <3>1, FirstIs, SizeOf
    <3>3. EnvironmentAt(memory, First(memory, n))
      BY <3>2 DEF Inv, Good
    <3> QED BY <2>2, <3>2, <3>3 DEF EnvironmentAt
  <2> QED BY <2>1, <2>2 DEF ExportedIsInEnvironment
<1> QED BY <1>1, Invariance, PTL

-----------------------------------------------------------------------------
(* What is accepted is read.                                                   *)
LEMMA FirstSame ==
  ASSUME NEW m \in Memory, NEW m2 \in Memory, Len(m.variables) <= Len(m2.variables), NEW n,
         \A j \in DOMAIN m.variables : m2.variables[j].name = m.variables[j].name,
         \A j \in DOMAIN m2.variables \ DOMAIN m.variables : m2.variables[j].name = n => First(m, n) # 0
  PROVE  First(m2, n) = First(m, n)
<1>0. /\ Len(m.variables) \in Nat /\ Len(m2.variables) \in Nat
      /\ DOMAIN m.variables = 1..Len(m.variables) /\ DOMAIN m2.variables = 1..Len(m2.variables)
  BY SizeOf
<1>1. CASE First(m, n) = 0
  <2>1. \A j \in DOMAIN m.variables : m.variables[j].name # n
    BY <1>0, <1>1, FirstIs
  <2>2. \A j \in 1..Len(m2.variables) : m2.variables[j].name # n
    BY <1>0, <1>1, <2>1
  <2> QED BY <1>1, <2>2, FirstNone
<1>2. CASE First(m, n) # 0
  <2>1. /\ First(m, n) \in 1..Len(m.variables) /\ m.variables[First(m, n)].name = n
        /\ \A j \in 1..First(m, n) - 1 : m.variables[j].name # n
    BY <1>2, FirstIs
  <2>2. /\ First(m, n) \in 1..Len(m2.variables) /\ m2.variables[First(m, n)].name = n
        /\ \A j \in 1..First(m, n) - 1 : m2.variables[j].name # n
    BY <1>0, <2>1
  <2> QED BY <2>2, FirstOnly
<1> QED BY <1>1, <1>2

\* An entry that is no nameref is replaced by another one, under the same name.
LEMMA RewriteSame ==
  ASSUME NEW m, Typed(m), NEW m2, Typed(m2), NEW i \in DOMAIN m.variables,
         DOMAIN m2.variables = DOMAIN m.variables,
         \A j \in DOMAIN m.variables \ {i} : m2.variables[j] = m.variables[j],
         m2.variables[i].name = m.variables[i].name,
         m.variables[i].type # "nameref", m2.variables[i].type # "nameref"
  PROVE  SameFirst(m, m2)
<1>0. /\ m \in Memory /\ m2 \in Memory
      /\ Len(m.variables) \in Nat /\ Len(m2.variables) \in Nat
      /\ DOMAIN m.variables = 1..Len(m.variables) /\ DOMAIN m2.variables = 1..Len(m2.variables)
  BY SizeOf DEF Typed
<1>1. Len(m.variables) = Len(m2.variables)
  BY <1>0
<1>2. \A j \in DOMAIN m.variables : m2.variables[j].name = m.variables[j].name
  OBVIOUS
<1>3. ASSUME NEW x \in Name
      PROVE  /\ First(m2, x) = First(m, x) /\ (Refers(m2, x) <=> Refers(m, x))
             /\ Refers(m, x) => To(m2, x) = To(m, x)
  <2>1. First(m2, x) = First(m, x)
    BY <1>0, <1>1, <1>2, FirstSame
  <2>2. First(m, x) # 0 => First(m, x) \in DOMAIN m.variables
    BY <1>0, FirstIs
  <2> QED BY <2>1, <2>2 DEF Refers, To
<1> QED BY <1>3 DEF SameFirst

\* An entry is appended behind another one of its name.
LEMMA AppendSame ==
  ASSUME NEW m, Typed(m), NEW m2, Typed(m2), Len(m2.variables) = Len(m.variables) + 1,
         \A j \in DOMAIN m.variables : m2.variables[j] = m.variables[j],
         First(m, m2.variables[Len(m.variables) + 1].name) # 0
  PROVE  SameFirst(m, m2)
<1>0. /\ m \in Memory /\ m2 \in Memory
      /\ Len(m.variables) \in Nat /\ Len(m2.variables) \in Nat
      /\ DOMAIN m.variables = 1..Len(m.variables) /\ DOMAIN m2.variables = 1..Len(m2.variables)
  BY SizeOf DEF Typed
<1>1. DOMAIN m2.variables \ DOMAIN m.variables = {Len(m.variables) + 1}
      /\ Len(m.variables) <= Len(m2.variables)
  BY <1>0
<1>2. \A j \in DOMAIN m.variables : m2.variables[j].name = m.variables[j].name
  OBVIOUS
<1>3. ASSUME NEW x \in Name
      PROVE  /\ First(m2, x) = First(m, x) /\ (Refers(m2, x) <=> Refers(m, x))
             /\ Refers(m, x) => To(m2, x) = To(m, x)
  <2>1. First(m2, x) = First(m, x)
    BY <1>0, <1>1, <1>2, FirstSame
  <2>2. First(m, x) # 0 => First(m, x) \in DOMAIN m.variables
    BY <1>0, FirstIs
  <2> QED BY <2>1, <2>2 DEF Refers, To
<1> QED BY <1>3 DEF SameFirst

\* The only entry of a name is appended.
LEMMA AppendFound ==
  ASSUME NEW m, Typed(m), NEW n \in Name, First(m, n) = 0, NEW m2, Typed(m2),
         Len(m2.variables) = Len(m.variables) + 1,
         \A j \in DOMAIN m.variables : m2.variables[j] = m.variables[j],
         m2.variables[Len(m.variables) + 1].name = n,
         m2.variables[Len(m.variables) + 1].type # "nameref"
  PROVE  get_variable(m2, n) = Len(m.variables) + 1
<1>0. /\ m \in Memory /\ m2 \in Memory
      /\ Len(m.variables) \in Nat /\ DOMAIN m.variables = 1..Len(m.variables)
  BY SizeOf DEF Typed
<1> DEFINE i == Len(m.variables) + 1
<1>1. \A j \in 1..Len(m.variables) : m2.variables[j].name # n
  BY <1>0, FirstIs
<1>2. /\ i \in 1..Len(m2.variables) /\ \A j \in 1..i - 1 : m2.variables[j].name # n
      /\ m2.variables[i].name = n /\ m2.variables[i].type # "nameref"
  BY <1>0, <1>1
<1> HIDE DEF i
<1>3. First(m2, n) = i
  BY <1>0, <1>2, FirstOnly
<1>4. get_variable(m2, n) = i
  BY <1>2, <1>3, Found DEF Refers
<1> QED BY <1>4 DEF i

\* Where the value goes is where the name leads.
LEMMA PutFound ==
  ASSUME NEW m, Good(m), NEW n \in Name, NEW v \in Text, NEW type \in {"string", "integer"},
         ~Endless(m, n), get_variable(m, n) > 0 \/ First(m, n) = 0,
         NEW m2, Typed(m2), m2.variables = Put(m, n, v, type).variables
  PROVE  get_variable(m2, n) = Slot(m, n)
<1> DEFINE s == Put(m, n, v, type)
           i == Slot(m, n)
           c == Before(m, n, type)
           e == Entry(m, n, type)
<1>0. type \in Type /\ type # "nameref" /\ Typed(m) /\ m \in Memory
  BY DEF Type, Good, Typed
<1>1. /\ i \in DOMAIN c.variables /\ e \in Variable /\ GoodBut(s, i)
      /\ DOMAIN s.variables = DOMAIN c.variables
      /\ s.variables[i] = Stored(e, type, v)
      /\ \A j \in DOMAIN c.variables \ {i} : s.variables[j] = c.variables[j]
      /\ e = c.variables[i]
  BY PutIs DEF Entry
<1>2. Stored(e, type, v).name = e.name /\ Stored(e, type, v).type = type
  <2> HIDE DEF e
  <2> QED BY <1>1, StoredIs
<1>3. Good(c)
  BY <1>0, Created DEF Before
<1>4. m2.variables = s.variables /\ Typed(c) /\ c \in Memory
  BY <1>3 DEF Good, Typed
<1>5. CASE get_variable(m, n) > 0
  <2>1. c = m /\ i = get_variable(m, n)
    BY <1>0, <1>5, SlotIs, Found DEF Before, create_new_variable
  <2>2. m.variables[i].type # "nameref"
    BY <1>0, <1>5, <2>1, Found
  <2> HIDE DEF c, i, e, s
  <2>3. SameFirst(m, m2)
    BY <1>0, <1>1, <1>2, <1>4, <2>1, <2>2, RewriteSame
  <2>4. get_variable(m2, n) = get_variable(m, n)
    BY <1>0, <2>3, FoundSame
  <2> QED BY <2>1, <2>4 DEF i
<1>6. CASE get_variable(m, n) <= 0
  <2>0. get_variable(m, n) = 0 /\ First(m, n) = 0
    BY <1>0, <1>6, Found DEF Endless
  <2>1. /\ i = Len(m.variables) + 1 /\ Len(c.variables) = i /\ DOMAIN c.variables = 1..i
        /\ c.variables[i] = NewEntry(n, type)
        /\ \A j \in 1..i : j # i => c.variables[j] = m.variables[j] /\ j \in DOMAIN m.variables
    BY <1>0, <2>0, SlotIs, CreatedIs DEF Before
  <2>2. e.name = n
    <3> HIDE DEF c, i, e, s
    <3>1. e = NewEntry(n, type)
      BY <1>1, <2>1
    <3> QED BY <1>0, <3>1, NewEntryIs
  <2>3. Len(m.variables) \in Nat /\ DOMAIN m.variables = 1..Len(m.variables)
        /\ m2 \in Memory /\ DOMAIN m2.variables = 1..Len(m2.variables) /\ Len(m2.variables) \in Nat
    BY <1>0, SizeOf DEF Typed
  <2> HIDE DEF c, i, e, s
  <2>4. Len(m2.variables) = Len(m.variables) + 1
    BY <1>1, <1>4, <2>1, <2>3
  <2>5. \A j \in DOMAIN m.variables : m2.variables[j] = m.variables[j]
    BY <1>1, <1>4, <2>1, <2>3
  <2>6. m2.variables[Len(m.variables) + 1].name = n /\ m2.variables[Len(m.variables) + 1].type # "nameref"
    BY <1>0, <1>1, <1>2, <1>4, <2>1, <2>2
  <2>7. get_variable(m2, n) = Len(m.variables) + 1
    BY <1>0, <2>0, <2>4, <2>5, <2>6, AppendFound
  <2> QED BY <2>1, <2>7 DEF i
<1>7. get_variable(m, n) > 0 \/ get_variable(m, n) <= 0
  BY <1>0, Found
<1> QED BY <1>5, <1>6, <1>7

Reads(m, n, v, type) ==
  LET i == get_variable(m, n)
  IN /\ ~m.undefined /\ i > 0 /\ m.variables[i].type = type
     /\ m.variables[i].data = IF type = "string" THEN Cased(m.variables[i].flags, Printed[type][v])
                               ELSE Printed[type][v]

LEMMA SetReads ==
  ASSUME NEW m, Good(m), ~m.undefined, NEW n \in Name, NEW v \in Text, NEW type \in {"string", "integer"},
         ~Endless(m, n), ~SetFails(m, n, v, type), get_variable(m, n) > 0 \/ First(m, n) = 0,
         NEW m2, m2 = set_variable(m, n, v, type, FALSE)
  PROVE  Reads(m2, n, v, type)
<1> DEFINE s == Put(m, n, v, type)
           i == Slot(m, n)
           e == Entry(m, n, type)
<1>0. type \in ValueType /\ m \in Memory /\ Typed(m)
  BY DEF ValueType, Type, Good, Typed
<1>1. m2.variables = s.variables /\ m2.undefined = m.undefined
  BY SetPlain
<1>2. Typed(m2)
  BY <1>0, SetGood DEF Good
<1>3. get_variable(m2, n) = i
  BY <1>1, <1>2, PutFound
<1>4. s.variables[i] = Stored(e, type, v) /\ e \in Variable
  BY PutIs
<1>5. i > 0
  BY <1>0, SlotIs, SizeOf
<1>6. type = "integer" => v \notin Overflowing
  BY DEF SetFails
<1> HIDE DEF e, i, s
<1>7. /\ Stored(e, type, v).type = type /\ Stored(e, type, v).flags = e.flags
      /\ type = "string" => Stored(e, type, v).data = Cased(e.flags, Printed[type][v])
      /\ type = "integer" /\ v \notin Overflowing => Stored(e, type, v).data = Printed[type][v]
  BY <1>4, StoredIs
<1> QED BY <1>1, <1>3, <1>4, <1>5, <1>6, <1>7 DEF Reads

\* set_variable, the assignments of execute.c and the built-ins: what is accepted as the
\* value of a name is what get_variable finds under that name, whatever its entry was
\* before, and wherever its namerefs lead.
THEOREM AcceptedReads == Spec => []AcceptedIsRead
<1>1. Inv => AcceptedIsRead
  <2> SUFFICES ASSUME Inv, ~memory.undefined, NEW n \in Name, NEW v \in session.values,
                      Kind[v] \notin {"array", "map"}, ~Endless(memory, n),
                      ~SetFails(memory, n, v, Kind[v]),
                      ~ (First(memory, n) # 0 /\ get_variable(memory, n) = 0)
               PROVE  LET m == set_variable(memory, n, v, Kind[v], FALSE)
                          i == get_variable(m, n)
                      IN /\ ~m.undefined /\ i > 0
                         /\ m.variables[i].type = Kind[v]
                         /\ m.variables[i].data =
                              IF Kind[v] = "string" THEN Cased(m.variables[i].flags, Printed[Kind[v]][v])
                              ELSE Printed[Kind[v]][v]
    BY Zenon DEF AcceptedIsRead
  <2>1. Good(memory) /\ v \in Text /\ Typed(memory)
    BY SessionIs DEF Inv, Good
  <2>2. Kind[v] \in {"string", "integer"}
    BY <2>1, ConversionAssumption DEF ValueType, Type
  <2>3. get_variable(memory, n) > 0 \/ First(memory, n) = 0
    <3>1. get_variable(memory, n) # 0 => get_variable(memory, n) > 0
      BY <2>1, MemoryIs, Found DEF Endless
    <3> QED BY <3>1
  <2> DEFINE m == set_variable(memory, n, v, Kind[v], FALSE)
  <2>4. m = set_variable(memory, n, v, Kind[v], FALSE)
    OBVIOUS
  <2> HIDE DEF m
  <2>5. Reads(m, n, v, Kind[v])
    BY <2>1, <2>2, <2>3, <2>4, SetReads
  <2> QED BY <2>5, Zenon DEF m, Reads
<1> QED BY <1>1, Invariance, PTL

-----------------------------------------------------------------------------
(* Readonly variables stay.                                                    *)
Alike(e, f) == e.name = f.name /\ e.type = f.type /\ e.data = f.data /\ e.str = f.str

\* Every readonly entry of m is one of m2.
Keeps(m, m2) ==
  \A i \in DOMAIN m.variables : IsReadonly(m, i) =>
    \E j \in DOMAIN m2.variables : IsReadonly(m2, j) /\ Alike(m2.variables[j], m.variables[i])

LEMMA KeepsSame == ASSUME NEW m, NEW m2, m2.variables = m.variables PROVE Keeps(m, m2)
BY DEF Keeps, IsReadonly, Alike

LEMMA KeepsBoth ==
  ASSUME NEW m, NEW m2, NEW m3, Keeps(m, m2), Keeps(m2, m3)
  PROVE  Keeps(m, m3)
<1> SUFFICES ASSUME NEW i \in DOMAIN m.variables, IsReadonly(m, i)
             PROVE  \E j \in DOMAIN m3.variables :
                      IsReadonly(m3, j) /\ Alike(m3.variables[j], m.variables[i])
  BY DEF Keeps
<1>1. PICK j \in DOMAIN m2.variables : IsReadonly(m2, j) /\ Alike(m2.variables[j], m.variables[i])
  BY DEF Keeps
<1>2. PICK k \in DOMAIN m3.variables : IsReadonly(m3, k) /\ Alike(m3.variables[k], m2.variables[j])
  BY <1>1 DEF Keeps
<1>3. Alike(m3.variables[k], m.variables[i])
  BY <1>1, <1>2 DEF Alike
<1> QED BY <1>2, <1>3

LEMMA KeepsWrite ==
  ASSUME NEW m \in Memory, NEW i \in DOMAIN m.variables, NEW e \in Variable,
         IsReadonly(m, i) => "readonly" \in e.flags /\ Alike(e, m.variables[i])
  PROVE  Keeps(m, Write(m, i, e))
<1> DEFINE w == Write(m, i, e)
<1>1. /\ DOMAIN w.variables = DOMAIN m.variables /\ w.variables[i] = e
      /\ \A j \in DOMAIN m.variables : j # i => w.variables[j] = m.variables[j]
  BY WriteIs
<1> HIDE DEF w
<1>2. ASSUME NEW j \in DOMAIN m.variables, IsReadonly(m, j)
      PROVE  IsReadonly(w, j) /\ Alike(w.variables[j], m.variables[j])
  BY <1>1, <1>2 DEF IsReadonly, Alike
<1>3. Keeps(m, w)
  BY <1>1, <1>2 DEF Keeps
<1> QED BY <1>3 DEF w

LEMMA KeepsMarked ==
  ASSUME NEW m \in Memory, NEW i \in DOMAIN m.variables, NEW flags \in SUBSET Flag, NEW unset,
         ~ (unset /\ "readonly" \in flags)
  PROVE  Keeps(m, Marked(m, i, flags, unset))
<1> DEFINE e == MarkedEntry(m, i, flags, unset)
<1>1. /\ e \in Variable /\ Marked(m, i, flags, unset) = Write(m, i, e)
      /\ e.flags = MarkedFlags(m, i, flags, unset)
      /\ e.name = m.variables[i].name /\ e.type = m.variables[i].type
      /\ e.data = m.variables[i].data /\ e.str = m.variables[i].str
  BY MarkedIs
<1> HIDE DEF e
<1>2. IsReadonly(m, i) => "readonly" \in MarkedFlags(m, i, flags, unset)
  BY DEF IsReadonly, MarkedFlags
<1>3. Alike(e, m.variables[i])
  BY <1>1 DEF Alike
<1>4. Keeps(m, Write(m, i, e))
  BY <1>1, <1>2, <1>3, KeepsWrite
<1> QED BY <1>1, <1>4

LEMMA KeepsProcessed ==
  ASSUME NEW m \in Memory, NEW i \in DOMAIN m.variables, NEW flags \in SUBSET Flag, NEW unset,
         ~ (unset /\ "readonly" \in flags)
  PROVE  /\ Keeps(m, process_exported_variable(m, i))
         /\ Keeps(m, process_exported_variable(Marked(m, i, flags, unset), i))
<1>1. Keeps(m, process_exported_variable(m, i))
  BY ProcessIs, KeepsSame
<1> DEFINE k == Marked(m, i, flags, unset)
<1>2. Keeps(m, k)
  BY KeepsMarked
<1>3. k \in Memory /\ i \in DOMAIN k.variables
  <2> DEFINE e == MarkedEntry(m, i, flags, unset)
  <2>1. e \in Variable /\ k = Write(m, i, e)
    BY MarkedIs
  <2> HIDE DEF e, k
  <2> QED BY <2>1, WriteIs
<1> HIDE DEF k
<1>4. Keeps(k, process_exported_variable(k, i))
  BY <1>3, ProcessIs, KeepsSame
<1>5. Keeps(m, process_exported_variable(k, i))
  BY <1>2, <1>4, KeepsBoth
<1> QED BY <1>1, <1>5 DEF k

LEMMA KeepsCreated ==
  ASSUME NEW m, Typed(m), NEW n \in Name, NEW type \in Type
  PROVE  Keeps(m, create_new_variable(m, n, type))
<1> DEFINE c == create_new_variable(m, n, type)
<1>0. m \in Memory
  BY DEF Typed
<1>1. get_variable(m, n) # 0 => c.variables = m.variables
  <2>1. get_variable(m, n) # 0 => c = m \/ c = Undefined(m)
    BY Found DEF create_new_variable
  <2> HIDE DEF c
  <2> QED BY <1>0, <2>1, UndefinedIs
<1>2. get_variable(m, n) = 0 =>
        /\ DOMAIN c.variables = 1..Len(m.variables) + 1
        /\ \A j \in 1..Len(m.variables) + 1 :
             j # Len(m.variables) + 1 => c.variables[j] = m.variables[j] /\ j \in DOMAIN m.variables
  BY CreatedIs
<1>3. Len(m.variables) \in Nat /\ DOMAIN m.variables = 1..Len(m.variables)
  BY <1>0, SizeOf
<1> HIDE DEF c
<1>4. ASSUME get_variable(m, n) = 0 PROVE Keeps(m, c)
  <2>1. \A j \in DOMAIN m.variables : j \in DOMAIN c.variables /\ c.variables[j] = m.variables[j]
    BY <1>2, <1>3, <1>4
  <2> QED BY <2>1 DEF Keeps, IsReadonly, Alike
<1>5. ASSUME c.variables = m.variables PROVE Keeps(m, c)
  BY <1>5, KeepsSame
<1>6. Keeps(m, c)
  BY <1>1, <1>4, <1>5
<1> QED BY <1>6 DEF c

LEMMA KeepsUnset ==
  ASSUME NEW m \in Memory, NEW n
  PROVE  Keeps(m, unset_variable(m, n)) /\ Keeps(m, Cleared(m, n))
<1>1. ASSUME NEW i \in DOMAIN m.variables, ~IsReadonly(m, i) PROVE Keeps(m, Removed(m, i))
  <2> DEFINE r == Removed(m, i)
  <2>1. /\ DOMAIN r.variables = 1..Len(m.variables) - 1
        /\ \A k \in 1..Len(m.variables) - 1 : r.variables[k] = m.variables[Source(k, i)]
        /\ \A j \in DOMAIN m.variables \ {i} : \E k \in 1..Len(m.variables) - 1 : Source(k, i) = j
    BY RemovedIs
  <2> HIDE DEF r
  <2> SUFFICES ASSUME NEW j \in DOMAIN m.variables, IsReadonly(m, j)
               PROVE  \E k \in DOMAIN r.variables :
                        IsReadonly(r, k) /\ Alike(r.variables[k], m.variables[j])
    BY DEF Keeps, r
  <2>2. PICK k \in 1..Len(m.variables) - 1 : Source(k, i) = j
    BY <1>1, <2>1
  <2>3. r.variables[k] = m.variables[j]
    BY <2>1, <2>2
  <2> QED BY <2>1, <2>3 DEF IsReadonly, Alike
<1>2. Keeps(m, unset_variable(m, n))
  BY <1>1, UnsetIs, KeepsSame
<1> QED BY <1>2, KeepsSame DEF Cleared

\* The name has one entry, or leads to nothing.
Twice(m, n) == \E i, j \in DOMAIN m.variables :
  i # j /\ m.variables[i].name = n /\ m.variables[j].name = n
Safe(m, n) == get_variable(m, n) > 0 => ~Twice(m, n)

\* What create_new_variable returns may be written to when the command is not refused.
LEMMA SlotPlain ==
  ASSUME NEW m, Good(m), NEW n \in Name, NEW type \in Type, ~Endless(m, n), ~Refuses(m, n)
  PROVE  LET c == create_new_variable(m, n, type)
         IN Slot(m, n) \in DOMAIN c.variables /\ ~IsReadonly(c, Slot(m, n))
<1> DEFINE c == create_new_variable(m, n, type)
           i == Slot(m, n)
<1>0. m \in Memory /\ Typed(m) /\ i \in DOMAIN c.variables
  BY Created DEF Good, Typed
<1>1. CASE get_variable(m, n) > 0
  <2>1. c = m /\ i = get_variable(m, n)
    BY <1>0, <1>1, Found, SlotIs DEF create_new_variable
  <2> HIDE DEF c, i
  <2> QED BY <1>0, <2>1 DEF Refuses, c, i
<1>2. CASE get_variable(m, n) = 0
  <2>1. i = Len(m.variables) + 1 /\ c.variables[Len(m.variables) + 1] = NewEntry(n, type)
    BY <1>0, <1>2, SlotIs, CreatedIs
  <2>2. NewEntry(n, type).flags = {}
    BY NewEntryIs
  <2> HIDE DEF c, i
  <2> QED BY <1>0, <2>1, <2>2 DEF IsReadonly, c, i
<1> HIDE DEF c, i
<1>3. i \in DOMAIN c.variables /\ ~IsReadonly(c, i)
  BY <1>0, <1>1, <1>2, Found DEF Endless, c, i
<1> QED BY <1>3 DEF c, i

\* A write to an entry that is not readonly.
LEMMA KeepsRewrite ==
  ASSUME NEW m \in Memory, NEW i \in DOMAIN m.variables, ~IsReadonly(m, i), NEW e \in Variable
  PROVE  Keeps(m, Write(m, i, e)) /\ Keeps(m, Write(LeaveBehind(m, i), i, e))
<1> DEFINE l == LeaveBehind(m, i)
<1>1. l \in Memory /\ l.variables = m.variables
  BY LeaveBehindIs
<1> HIDE DEF l
<1>2. Keeps(m, l) /\ ~IsReadonly(l, i)
  BY <1>1, KeepsSame DEF IsReadonly
<1>3. Keeps(m, Write(m, i, e))
  BY KeepsWrite
<1>4. Keeps(l, Write(l, i, e))
  BY <1>1, <1>2, KeepsWrite
<1>5. Keeps(m, Write(l, i, e))
  BY <1>2, <1>4, KeepsBoth
<1> QED BY <1>3, <1>5 DEF l

LEMMA RefillKeeps ==
  ASSUME NEW m, Good(m), NEW n \in Name, ~Refuses(m, n), NEW type \in {"array", "map"}, NEW text \in Text
  PROVE  Keeps(m, Refill(m, n, type, text))
<1> DEFINE c == create_new_variable(m, n, type)
           i == Slot(m, n)
           e == [c.variables[i] EXCEPT !.data = Printed[type][text]]
<1>0. type \in ValueType /\ type # "nameref" /\ type \in Type /\ Typed(m)
  BY DEF ValueType, Type, Good
<1>1. Refill(m, n, type, text) =
        IF c.undefined \/ c.variables[i].type # type \/ text \in Refused THEN Undefined(c)
        ELSE Write(LeaveBehind(c, i), i, e)
  BY DEF Refill
<1>2. Keeps(m, c) /\ Good(c)
  BY <1>0, KeepsCreated, CreatedGood
<1>3. c \in Memory
  BY <1>2 DEF Good, Typed
<1>4. Keeps(m, Undefined(c))
  <2>1. Undefined(c).variables = c.variables
    BY <1>3, UndefinedIs
  <2> HIDE DEF c
  <2> QED BY <1>2, <2>1, KeepsSame, KeepsBoth
<1>5. ASSUME ~c.undefined, c.variables[i].type = type PROVE Keeps(m, Write(LeaveBehind(c, i), i, e))
  <2>1. ~Endless(m, n)
    <3>1. Endless(m, n) => c = Undefined(m)
      BY DEF Endless, create_new_variable
    <3>2. Undefined(m).undefined = TRUE
      BY <1>0, UndefinedIs DEF Typed
    <3> HIDE DEF c
    <3> QED BY <1>5, <3>1, <3>2
  <2>2. i \in DOMAIN c.variables /\ ~IsReadonly(c, i)
    BY <1>0, <2>1, SlotPlain
  <2> HIDE DEF c, i
  <2>3. e \in Variable
    <3>1. c.variables[i] \in Variable
      BY <1>3, <2>2, SizeOf
    <3>2. Printed[type][text] \in Text
      BY <1>0, ConversionAssumption
    <3> QED BY <3>1, <3>2 DEF Variable
  <2> HIDE DEF e
  <2>4. Keeps(c, Write(LeaveBehind(c, i), i, e))
    BY <1>3, <2>2, <2>3, KeepsRewrite
  <2> QED BY <1>2, <2>4, KeepsBoth
<1> HIDE DEF c, i, e
<1> QED BY <1>1, <1>4, <1>5

\* The parsers take the old entry away first: the name must then lead to nothing.
LEMMA ClearedPlain ==
  ASSUME NEW m, Good(m), NEW n \in Name, ~Refuses(m, n), Safe(m, n)
  PROVE  ~Refuses(Cleared(m, n), n)
<1>0. m \in Memory /\ Typed(m)
  BY DEF Good, Typed
<1>1. CASE Cleared(m, n) = m
  BY <1>1
<1>2. CASE Cleared(m, n) # m
  <2>1. get_variable(m, n) > 0 /\ Cleared(m, n) = unset_variable(m, n)
    BY <1>2 DEF Cleared
  <2> DEFINE f == First(m, n)
             r == Removed(m, f)
  <2>2. f \in DOMAIN m.variables /\ Cleared(m, n) = r /\ m.variables[f].name = n
    BY <1>0, <1>2, <2>1, UnsetIs, FirstIs, SizeOf
  <2>3. ~Twice(m, n)
    BY <2>1 DEF Safe
  <2>4. \A j \in DOMAIN m.variables \ {f} : m.variables[j].name # n
    BY <2>2, <2>3 DEF Twice
  <2>5. Good(r)
    BY <2>2, RemovedGood
  <2>6. /\ r \in Memory /\ Len(r.variables) = Len(m.variables) - 1
        /\ \A k \in 1..Len(m.variables) - 1 :
             Source(k, f) \in DOMAIN m.variables \ {f} /\ r.variables[k] = m.variables[Source(k, f)]
    BY <1>0, <2>2, RemovedIs
  <2> HIDE DEF r, f
  <2>7. First(r, n) = 0
    BY <2>4, <2>6, FirstNone
  <2>8. get_variable(r, n) = 0
    BY <2>5, <2>7, Found DEF Good, Refers
  <2>9. DOMAIN r.variables = 1..Len(r.variables)
    BY <2>6, SizeOf
  <2> QED BY <2>2, <2>8, <2>9 DEF Refuses
<1> QED BY <1>1, <1>2

LEMMA ParsersKeep ==
  ASSUME NEW m, Good(m), NEW n \in Name, NEW v \in Text, Safe(m, n)
  PROVE  /\ Keeps(m, parse_and_set_array(m, n, v))
         /\ Keeps(m, parse_and_set_associative_array(m, n, v))
<1> DEFINE c == Cleared(m, n)
<1>1. Keeps(m, m)
  BY KeepsSame
<1>2. ASSUME ~Refuses(m, n)
      PROVE  /\ Keeps(m, c) /\ Keeps(m, create_new_variable(c, n, "map"))
             /\ Keeps(m, Refill(c, n, "array", v)) /\ Keeps(m, Refill(c, n, "map", v))
  <2>1. Keeps(m, c) /\ Good(c) /\ ~Refuses(c, n)
    BY <1>2, KeepsUnset, UnsetGood, ClearedPlain DEF Good, Typed
  <2> HIDE DEF c
  <2>2. Keeps(c, Refill(c, n, "array", v)) /\ Keeps(c, Refill(c, n, "map", v))
    BY <2>1, RefillKeeps
  <2>3. Keeps(c, create_new_variable(c, n, "map"))
    BY <2>1, KeepsCreated DEF Good, Type
  <2> QED BY <2>1, <2>2, <2>3, KeepsBoth
<1> HIDE DEF c
<1>3. /\ parse_and_set_array(m, n, v) \in {m, c, Refill(c, n, "array", v)}
      /\ parse_and_set_associative_array(m, n, v) \in
           {m, create_new_variable(c, n, "map"), Refill(c, n, "map", v)}
      /\ Refuses(m, n) => /\ parse_and_set_array(m, n, v) = m
                          /\ parse_and_set_associative_array(m, n, v) = m
  BY DEF parse_and_set_array, parse_and_set_associative_array, c
<1> QED BY <1>1, <1>2, <1>3

\* A new entry of a name that led to nothing: it is the only one, or the name still
\* leads to nothing.
LEMMA AppendSafe ==
  ASSUME NEW m, Typed(m), NEW m2, Typed(m2), NEW n \in Name, get_variable(m, n) = 0,
         Len(m2.variables) = Len(m.variables) + 1,
         \A j \in DOMAIN m.variables : m2.variables[j] = m.variables[j],
         m2.variables[Len(m.variables) + 1].name = n
  PROVE  Safe(m2, n)
<1>0. /\ m \in Memory /\ DOMAIN m.variables = 1..Len(m.variables) /\ Len(m.variables) \in Nat
      /\ m2 \in Memory /\ DOMAIN m2.variables = 1..Len(m.variables) + 1
  BY SizeOf DEF Typed
<1>1. CASE First(m, n) = 0
  <2>1. \A j \in 1..Len(m.variables) : m2.variables[j].name # n
    BY <1>0, <1>1, FirstIs
  <2> QED BY <1>0, <2>1 DEF Safe, Twice
<1>2. CASE First(m, n) # 0
  <2>1. SameFirst(m, m2)
    BY <1>2, AppendSame
  <2>2. get_variable(m2, n) = 0
    BY <2>1, FoundSame
  <2> QED BY <2>2 DEF Safe
<1> QED BY <1>1, <1>2

LEMMA RewriteSafe ==
  ASSUME NEW m, NEW m2, NEW n, Safe(m, n), get_variable(m, n) > 0,
         DOMAIN m2.variables = DOMAIN m.variables,
         \A j \in DOMAIN m.variables : m2.variables[j].name = m.variables[j].name
  PROVE  Safe(m2, n)
BY DEF Safe, Twice

LEMMA CreatedSafe ==
  ASSUME NEW m, Good(m), NEW n \in Name, Safe(m, n), ~Endless(m, n), NEW type \in Type \ {"nameref"}
  PROVE  Safe(create_new_variable(m, n, type), n)
<1> DEFINE c == create_new_variable(m, n, type)
<1>0. m \in Memory /\ Typed(m) /\ Good(c)
  BY CreatedGood DEF Good, Typed
<1>1. Typed(c)
  BY <1>0 DEF Good
<1>2. CASE get_variable(m, n) > 0
  <2>1. c = m
    BY <1>0, <1>2, Found DEF create_new_variable
  <2> QED BY <2>1
<1>3. CASE get_variable(m, n) = 0
  <2>1. /\ Len(c.variables) = Len(m.variables) + 1
        /\ c.variables[Len(m.variables) + 1] = NewEntry(n, type)
        /\ \A j \in 1..Len(m.variables) + 1 : j # Len(m.variables) + 1 => c.variables[j] = m.variables[j]
    BY <1>0, <1>3, CreatedIs
  <2>2. NewEntry(n, type).name = n
    BY NewEntryIs
  <2>3. DOMAIN m.variables = 1..Len(m.variables) /\ Len(m.variables) \in Nat
    BY <1>0, SizeOf
  <2> HIDE DEF c
  <2>4. \A j \in DOMAIN m.variables : c.variables[j] = m.variables[j]
    BY <2>1, <2>3
  <2>5. c.variables[Len(m.variables) + 1].name = n
    BY <2>1, <2>2
  <2>6. Safe(c, n)
    BY <1>0, <1>1, <1>3, <2>1, <2>4, <2>5, AppendSafe
  <2> QED BY <2>6 DEF c
<1> HIDE DEF c
<1>4. Safe(c, n)
  BY <1>0, <1>2, <1>3, Found DEF Endless, c
<1> QED BY <1>4 DEF c

LEMMA PutKeeps ==
  ASSUME NEW m, Good(m), NEW n \in Name, NEW v \in Text, NEW type \in {"string", "integer", "array"},
         ~Endless(m, n), ~Refuses(m, n), type = "array" => Entry(m, n, type).type = "array"
  PROVE  Keeps(m, Put(m, n, v, type))
<1> DEFINE c == Before(m, n, type)
           i == Slot(m, n)
           f == Stored(Entry(m, n, type), type, v)
<1>0. type \in Type /\ type # "nameref" /\ Typed(m)
  BY DEF Type, Good
<1>1. Keeps(m, c) /\ Good(c) /\ i \in DOMAIN c.variables /\ ~IsReadonly(c, i)
  BY <1>0, KeepsCreated, CreatedGood, SlotPlain DEF Before
<1>2. Entry(m, n, type) \in Variable
  BY PutIs
<1>3. f \in Variable
  BY <1>2, StoredIs
<1>4. Put(m, n, v, type) = Write(IF type = "array" THEN LeaveBehind(c, i) ELSE c, i, f)
  BY DEF Put
<1> HIDE DEF c, i, f
<1>5. Keeps(c, Write(c, i, f)) /\ Keeps(c, Write(LeaveBehind(c, i), i, f))
  BY <1>1, <1>3, KeepsRewrite DEF Good, Typed
<1>6. Keeps(m, Write(c, i, f)) /\ Keeps(m, Write(LeaveBehind(c, i), i, f))
  BY <1>1, <1>5, KeepsBoth
<1> QED BY <1>4, <1>6

LEMMA PutSafe ==
  ASSUME NEW m, Good(m), NEW n \in Name, NEW v \in Text, Safe(m, n), ~Endless(m, n),
         Entry(m, n, "array").type = "array"
  PROVE  Safe(Put(m, n, v, "array"), n)
<1> DEFINE c == Before(m, n, "array")
           s == Put(m, n, v, "array")
           i == Slot(m, n)
           e == Entry(m, n, "array")
<1>0. "array" \in Type /\ "array" # "nameref" /\ Typed(m) /\ m \in Memory
  BY DEF Type, Good, Typed
<1>1. /\ i \in DOMAIN c.variables /\ e \in Variable /\ Good(s)
      /\ DOMAIN s.variables = DOMAIN c.variables
      /\ s.variables[i] = Stored(e, "array", v)
      /\ \A j \in DOMAIN c.variables \ {i} : s.variables[j] = c.variables[j]
      /\ e = c.variables[i]
  BY PutIs DEF Entry
<1>2. Stored(e, "array", v).name = e.name
  <2>1. e.type = "array"
    OBVIOUS
  <2> HIDE DEF e
  <2> QED BY <1>1, <2>1, StoredIs
<1>3. s \in Memory /\ Typed(s)
  BY <1>1 DEF Good, Typed
<1>4. CASE get_variable(m, n) > 0
  <2>1. c = m /\ i = get_variable(m, n)
    BY <1>0, <1>4, SlotIs, Found DEF Before, create_new_variable
  <2> HIDE DEF c, i, e, s
  <2>2. Safe(s, n)
    BY <1>1, <1>2, <1>4, <2>1, RewriteSafe
  <2> QED BY <2>2 DEF s
<1>5. CASE get_variable(m, n) = 0
  <2>1. /\ i = Len(m.variables) + 1 /\ DOMAIN c.variables = 1..i
        /\ c.variables[i] = NewEntry(n, "array")
        /\ \A j \in 1..i : j # i => c.variables[j] = m.variables[j] /\ j \in DOMAIN m.variables
    BY <1>0, <1>5, SlotIs, CreatedIs DEF Before
  <2>2. NewEntry(n, "array").name = n
    BY <1>0, NewEntryIs
  <2>3. Len(m.variables) \in Nat /\ DOMAIN m.variables = 1..Len(m.variables)
        /\ DOMAIN s.variables = 1..Len(s.variables) /\ Len(s.variables) \in Nat
    BY <1>0, <1>3, SizeOf
  <2> HIDE DEF c, i, e, s
  <2>4. Len(s.variables) = Len(m.variables) + 1
    BY <1>1, <2>1, <2>3
  <2>5. \A j \in DOMAIN m.variables : s.variables[j] = m.variables[j]
    BY <1>1, <2>1, <2>3
  <2>6. s.variables[Len(m.variables) + 1].name = n
    BY <1>1, <1>2, <2>1, <2>2
  <2>7. Safe(s, n)
    BY <1>0, <1>3, <1>5, <2>4, <2>5, <2>6, AppendSafe
  <2> QED BY <2>7 DEF s
<1> HIDE DEF c, i, e, s
<1>6. Safe(s, n)
  BY <1>0, <1>4, <1>5, Found DEF Endless, s
<1> QED BY <1>6 DEF s

LEMMA FinishedKeeps ==
  ASSUME NEW s, NEW p \in Memory, NEW i \in Nat \ {0}, NEW readonly
  PROVE  Keeps(p, Finished(s, p, i, readonly))
<1>0. DOMAIN p.variables = 1..Len(p.variables) /\ Len(p.variables) \in Nat
  BY SizeOf
<1>1. Keeps(p, p) /\ Keeps(p, Undefined(p))
  <2>1. Undefined(p).variables = p.variables
    BY UndefinedIs
  <2> QED BY <2>1, KeepsSame
<1>2. CASE p.undefined \/ i > Len(p.variables)
  <2>1. Finished(s, p, i, readonly) \in {p, Undefined(p)}
    BY <1>2 DEF Finished
  <2> QED BY <1>1, <2>1
<1>3. CASE ~ (p.undefined \/ i > Len(p.variables))
  <2>1. i \in DOMAIN p.variables
    BY <1>0, <1>3
  <2>2. {"readonly"} \in SUBSET Flag
    BY DEF Flag
  <2>3. /\ Keeps(p, process_exported_variable(p, i))
        /\ Keeps(p, process_exported_variable(Marked(p, i, {"readonly"}, FALSE), i))
    BY <2>1, <2>2, KeepsProcessed
  <2>4. Finished(s, p, i, readonly) = process_exported_variable(p, i)
        \/ Finished(s, p, i, readonly) = process_exported_variable(Marked(p, i, {"readonly"}, FALSE), i)
    <3>1. CASE readonly
      BY <1>3, <3>1 DEF Finished
    <3>2. CASE ~readonly
      BY <1>3, <3>2 DEF Finished
    <3> QED BY <3>1, <3>2
  <2> QED BY <2>3, <2>4
<1> QED BY <1>2, <1>3

\* set_variable refuses the readonly variable it finds, and writes to no other one.
LEMMA SetKeeps ==
  ASSUME NEW m, Good(m), ~m.undefined, NEW n \in Name, NEW v \in Text, NEW type \in ValueType,
         NEW readonly, Safe(m, n)
  PROVE  Keeps(m, set_variable(m, n, v, type, readonly))
<1>0. Typed(m) /\ m \in Memory
  BY DEF Good, Typed
<1>1. Keeps(m, m) /\ Keeps(m, Undefined(m))
  <2>1. Undefined(m).variables = m.variables
    BY <1>0, UndefinedIs
  <2> QED BY <2>1, KeepsSame
<1>2. CASE Endless(m, n)
  BY <1>1, <1>2, SetIs
<1>3. CASE ~Endless(m, n) /\ Refuses(m, n)
  BY <1>1, <1>3, SetIs
<1>4. CASE ~Endless(m, n) /\ ~Refuses(m, n)
  <2> DEFINE s == Put(m, n, v, type)
             p == Parsed(m, n, v, type)
             i == Slot(m, n)
             e == Entry(m, n, type)
  <2>0. set_variable(m, n, v, type, readonly) =
          IF type = "map" \/ (type = "array" /\ e.type # "array") THEN Undefined(m)
          ELSE IF ~SetFails(m, n, v, type) THEN Finished(s, p, i, readonly)
          ELSE IF e.type = "integer" THEN s ELSE LeaveBehind(s, i)
    BY <1>4, SetIs
  <2>1. CASE type = "map" \/ (type = "array" /\ e.type # "array")
    BY <1>1, <2>0, <2>1
  <2>2. CASE ~ (type = "map" \/ (type = "array" /\ e.type # "array"))
    <3>0. type \in {"string", "integer", "array"}
      BY <2>2 DEF ValueType, Type
    <3>1. Keeps(m, s) /\ i \in DOMAIN s.variables /\ GoodBut(s, i) /\ (type = "array" => Good(s))
      BY <1>4, <2>2, <3>0, PutIs, PutKeeps
    <3>2. type = "array" => Safe(s, n)
      BY <1>4, <2>2, PutSafe
    <3>3. p = IF type = "array" THEN parse_and_set_array(s, n, v) ELSE s
      BY DEF Parsed
    <3>4. s \in Memory /\ i \in Nat \ {0}
      <4>1. s \in Memory
        BY <3>1 DEF GoodBut
      <4> QED BY <3>1, <4>1, SizeOf
    <3> HIDE DEF s, p, i, e
    <3>5. Keeps(s, p) /\ p \in Memory
      <4>1. CASE type = "array"
        <5>1. Good(p) /\ Keeps(s, p)
          BY <3>1, <3>2, <3>3, <4>1, ParsersGood, ParsersKeep
        <5> QED BY <5>1 DEF Good, Typed
      <4>2. CASE type # "array"
        BY <3>3, <3>4, <4>2, KeepsSame
      <4> QED BY <4>1, <4>2
    <3>6. Keeps(m, Finished(s, p, i, readonly))
      BY <3>1, <3>4, <3>5, FinishedKeeps, KeepsBoth
    <3>7. Keeps(m, LeaveBehind(s, i))
      <4>1. LeaveBehind(s, i).variables = s.variables
        BY <3>1, <3>4, LeaveBehindIs
      <4> QED BY <3>1, <4>1, KeepsSame, KeepsBoth
    <3> QED BY <2>0, <2>2, <3>1, <3>6, <3>7
  <2> QED BY <2>1, <2>2
<1> QED BY <1>2, <1>3, <1>4

\* declare marks the entry it found, and takes no mark away that it was not asked to.
LEMMA MarkKeeps ==
  ASSUME NEW before, NEW m \in Memory, NEW i \in Nat \ {0}, NEW flags \in SUBSET Flag, NEW unset,
         ~ (unset /\ "readonly" \in flags)
  PROVE  Keeps(m, Mark(before, m, i, flags, unset))
<1>0. DOMAIN m.variables = 1..Len(m.variables) /\ Len(m.variables) \in Nat
  BY SizeOf
<1>1. Keeps(m, m) /\ Keeps(m, Undefined(m))
  <2>1. Undefined(m).variables = m.variables
    BY UndefinedIs
  <2> QED BY <2>1, KeepsSame
<1>2. CASE ~ (m.undefined \/ flags = {} \/ m.capacity # before.capacity \/ i > Len(m.variables))
  <2>1. i \in DOMAIN m.variables
    BY <1>0, <1>2
  <2>2. /\ Keeps(m, Marked(m, i, flags, unset))
        /\ Keeps(m, process_exported_variable(Marked(m, i, flags, unset), i))
    BY <2>1, KeepsMarked, KeepsProcessed
  <2>3. Mark(before, m, i, flags, unset) =
          IF "exported" \in flags THEN process_exported_variable(Marked(m, i, flags, unset), i)
          ELSE Marked(m, i, flags, unset)
    BY <1>2 DEF Mark
  <2> QED BY <2>2, <2>3
<1>3. CASE m.undefined \/ flags = {} \/ m.capacity # before.capacity \/ i > Len(m.variables)
  <2>1. Mark(before, m, i, flags, unset) \in {m, Undefined(m)}
    BY <1>3 DEF Mark
  <2> QED BY <1>1, <2>1
<1> QED BY <1>2, <1>3

(* The commands.                                                               *)
LEMMA ResultKeeps ==
  ASSUME NEW n, NEW m, Good(memory), Result(n, m), ~Endless(memory, n) => Keeps(memory, m)
  PROVE  Keeps(memory, memory')
<1>1. CASE Endless(memory, n)
  <2>1. memory'.variables = memory.variables
    BY <1>1, UndefinedIs, MemoryIs DEF Result
  <2> QED BY <2>1, KeepsSame
<1>2. CASE ~Endless(memory, n)
  BY <1>2 DEF Result
<1> QED BY <1>1, <1>2

LEMMA OnceIsSafe == ASSUME NEW n, ~Doubled(n) PROVE Safe(memory, n)
BY DEF Doubled, Safe, Twice

LEMMA AssignKeeps ==
  ASSUME Good(memory), ~memory.undefined, NEW n \in Name, NEW v \in Text, ~Doubled(n),
         Assign(n, v) \/ builtin_set(n, v) \/ printf_v(n, v) \/ AssignDefault(n, v)
  PROVE  Keeps(memory, memory')
<1>0. Kind[v] \in ValueType /\ "string" \in ValueType /\ Safe(memory, n)
  BY ConversionAssumption, OnceIsSafe DEF ValueType, Type
<1>1. \/ Result(n, parse_and_set_array(memory, n, v))
      \/ Result(n, parse_and_set_associative_array(memory, n, v))
      \/ Result(n, set_variable(memory, n, v, Kind[v], FALSE))
      \/ Result(n, set_variable(memory, n, v, "string", FALSE))
      \/ Result(n, memory)
      \/ Result(n, Undefined(memory))
  <2>1. CASE Assign(n, v)
    BY <2>1 DEF Assign, Command, Result
  <2>2. CASE builtin_set(n, v) \/ printf_v(n, v)
    BY <2>2 DEF builtin_set, printf_v, Command, Result
  <2>3. CASE AssignDefault(n, v)
    BY <2>3 DEF AssignDefault, Command, Result
  <2> QED BY <2>1, <2>2, <2>3
<1>2. /\ Keeps(memory, parse_and_set_array(memory, n, v))
      /\ Keeps(memory, parse_and_set_associative_array(memory, n, v))
      /\ Keeps(memory, set_variable(memory, n, v, Kind[v], FALSE))
      /\ Keeps(memory, set_variable(memory, n, v, "string", FALSE))
  BY <1>0, ParsersKeep, SetKeeps
<1>3. Keeps(memory, memory) /\ Keeps(memory, Undefined(memory))
  <2>1. Undefined(memory).variables = memory.variables
    BY MemoryIs, UndefinedIs
  <2> QED BY <2>1, KeepsSame
<1> QED BY <1>1, <1>2, <1>3, ResultKeeps

LEMMA UnsetCommandKeeps ==
  ASSUME Good(memory), NEW n \in Name, builtin_unset(n)
  PROVE  Keeps(memory, memory')
<1>1. Result(n, memory) \/ Result(n, unset_variable(memory, n))
  BY DEF builtin_unset, Command, Result
<1>2. Keeps(memory, memory) /\ Keeps(memory, unset_variable(memory, n))
  BY MemoryIs, KeepsSame, KeepsUnset
<1> QED BY <1>1, <1>2, ResultKeeps

LEMMA ExportValueKeeps ==
  ASSUME Good(memory), ~memory.undefined, NEW n \in Name, NEW v \in Text, ~Doubled(n),
         NEW remove, ExportValue(n, v, remove)
  PROVE  Keeps(memory, memory')
<1> DEFINE i == Slot(memory, n)
           s == set_variable(memory, n, v, "string", FALSE)
<1>0. Keeps(memory, memory)
  BY KeepsSame
<1>1. \/ Result(n, memory)
      \/ /\ ~Refuses(memory, n)
         /\ \/ Result(n, process_exported_variable(s, i))
            \/ Result(n, process_exported_variable(Marked(s, i, {"exported"}, FALSE), i))
  BY DEF ExportValue, Command, Result
<1>2. ASSUME ~Refuses(memory, n), ~Endless(memory, n)
      PROVE  /\ Keeps(memory, process_exported_variable(s, i))
             /\ Keeps(memory, process_exported_variable(Marked(s, i, {"exported"}, FALSE), i))
  <2>1. "string" \in ValueType /\ {"exported"} \in SUBSET Flag /\ Safe(memory, n)
    BY OnceIsSafe DEF ValueType, Type, Flag
  <2>2. ~SetFails(memory, n, v, "string")
    BY <1>2 DEF SetFails
  <2>3. Good(s) /\ Keeps(memory, s)
    BY <2>1, SetGood, SetKeeps
  <2>4. i \in DOMAIN s.variables
    BY <1>2, <2>2, SetPlain
  <2> HIDE DEF s, i
  <2>5. s \in Memory
    BY <2>3 DEF Good, Typed
  <2>6. /\ Keeps(s, process_exported_variable(s, i))
        /\ Keeps(s, process_exported_variable(Marked(s, i, {"exported"}, FALSE), i))
    BY <2>1, <2>4, <2>5, KeepsProcessed
  <2> QED BY <2>3, <2>6, KeepsBoth
<1> HIDE DEF s, i
<1> QED BY <1>0, <1>1, <1>2, ResultKeeps

LEMMA ExportNameKeeps ==
  ASSUME Good(memory), ~memory.undefined, NEW n \in Name, ~Doubled(n), NEW remove \in BOOLEAN,
         ExportName(n, remove)
  PROVE  Keeps(memory, memory')
<1> DEFINE i == get_variable(memory, n)
           s == set_variable(memory, n, Empty, "string", FALSE)
           l == Len(s.variables)
<1>0. /\ Empty \in Text /\ "string" \in ValueType /\ {"exported"} \in SUBSET Flag
      /\ Safe(memory, n) /\ Keeps(memory, memory)
  BY TextAssumption, OnceIsSafe, KeepsSame DEF ValueType, Type, Flag
<1>1. \/ i > 0 /\ Result(n, process_exported_variable(Marked(memory, i, {"exported"}, remove), i))
      \/ Result(n, memory)
      \/ i <= 0 /\ Result(n, process_exported_variable(Marked(s, l, {"exported"}, FALSE), l))
  <2>1. i \in Int
    BY MemoryIs, Found
  <2>2. CASE i > 0
    BY <2>2 DEF ExportName, Command, Result
  <2>3. CASE i <= 0 /\ remove
    BY <2>1, <2>3 DEF ExportName, Command, Result
  <2>4. CASE i <= 0 /\ ~remove
    BY <2>1, <2>4 DEF ExportName, Command, Result
  <2>5. i > 0 \/ i <= 0
    BY <2>1
  <2> HIDE DEF i, s, l
  <2> QED BY <2>2, <2>3, <2>4, <2>5, Zenon
<1>2. ASSUME i > 0
      PROVE  Keeps(memory, process_exported_variable(Marked(memory, i, {"exported"}, remove), i))
  <2>1. i \in DOMAIN memory.variables /\ memory \in Memory /\ "readonly" \notin {"exported"}
    BY <1>2, MemoryIs
  <2> QED BY <1>0, <2>1, KeepsProcessed
<1>3. ASSUME i <= 0, ~Endless(memory, n)
      PROVE  Keeps(memory, process_exported_variable(Marked(s, l, {"exported"}, FALSE), l))
  <2>1. ~SetFails(memory, n, Empty, "string")
    <3>1. ~Refuses(memory, n)
      BY <1>3, MemoryIs DEF Refuses
    <3> QED BY <3>1 DEF SetFails
  <2>2. Good(s) /\ Keeps(memory, s)
    BY <1>0, SetGood, SetKeeps
  <2>3. Slot(memory, n) \in DOMAIN s.variables
    BY <1>0, <1>3, <2>1, SetPlain
  <2> HIDE DEF s
  <2>4. s \in Memory
    BY <2>2 DEF Good, Typed
  <2>5. l \in DOMAIN s.variables
    BY <2>3, <2>4, SizeOf
  <2> HIDE DEF l
  <2>6. Keeps(s, process_exported_variable(Marked(s, l, {"exported"}, FALSE), l))
    BY <1>0, <2>4, <2>5, KeepsProcessed
  <2> QED BY <2>2, <2>6, KeepsBoth
<1> HIDE DEF s, i
<1> QED BY <1>0, <1>1, <1>2, <1>3, ResultKeeps

LEMMA ReadonlyKeeps ==
  ASSUME Good(memory), ~memory.undefined, NEW n \in Name, NEW v \in Text, ~Doubled(n),
         NEW kind \in {"string", "array", "map"}, builtin_readonly(n, v, kind)
  PROVE  Keeps(memory, memory')
<1> DEFINE i == get_variable(memory, n)
           e == memory.variables[i]
           type == IF v = Empty THEN kind ELSE Kind[v]
           text == IF v = Empty THEN Default[type] ELSE v
           f == [e EXCEPT !.str = v, !.flags = @ \union {"readonly"}]
<1>0. /\ type \in ValueType /\ text \in Text /\ {"readonly"} \in SUBSET Flag
      /\ Safe(memory, n) /\ Keeps(memory, memory)
  BY ConversionAssumption, OnceIsSafe, KeepsSame DEF ValueType, Type, Flag
<1>1. \/ i > 0 /\ Result(n, Marked(memory, i, {"readonly"}, FALSE))
      \/ i > 0 /\ ~IsReadonly(memory, i) /\ Result(n, Write(memory, i, f))
      \/ Result(n, memory)
      \/ Result(n, set_variable(memory, n, text, type, TRUE))
  <2>1. i \in Int
    BY MemoryIs, Found
  <2>2. CASE i > 0 /\ v = Empty
    BY <2>2 DEF builtin_readonly, Command, Result
  <2>3. CASE i > 0 /\ v # Empty
    BY <2>3 DEF builtin_readonly, Command, Result
  <2>4. CASE i <= 0
    BY <2>1, <2>4 DEF builtin_readonly, Command, Result
  <2>5. i > 0 \/ i <= 0
    BY <2>1
  <2> HIDE DEF i, f, text, type
  <2> QED BY <2>2, <2>3, <2>4, <2>5, Zenon
<1>2. ASSUME i > 0
      PROVE  /\ Keeps(memory, Marked(memory, i, {"readonly"}, FALSE))
             /\ ~IsReadonly(memory, i) => Keeps(memory, Write(memory, i, f))
  <2>1. i \in DOMAIN memory.variables /\ e \in Variable /\ memory \in Memory
    BY <1>2, MemoryIs
  <2>2. f \in Variable
    BY <1>0, <2>1 DEF Variable
  <2> HIDE DEF f, i
  <2> QED BY <1>0, <2>1, <2>2, KeepsMarked, KeepsRewrite
<1>3. Keeps(memory, set_variable(memory, n, text, type, TRUE))
  BY <1>0, SetKeeps
<1> HIDE DEF i, type, text, f
<1> QED BY <1>0, <1>1, <1>2, <1>3, ResultKeeps

LEMMA DeclareKeeps ==
  ASSUME Good(memory), ~memory.undefined, NEW n \in Name, NEW v \in Text, ~Doubled(n),
         NEW options, NEW unset, "n" \notin options, ~ (unset /\ "readonly" \in options),
         builtin_declare(n, v, options, unset)
  PROVE  Keeps(memory, memory')
<1> DEFINE type == DeclaredType(options, v)
           c == Before(memory, n, type)
           i == Slot(memory, n)
           g == Given(memory, n, v, type)
<1>1. type \in Type /\ type # "nameref" /\ Safe(memory, n) /\ Keeps(memory, memory)
  BY DeclaredTypeIs, OnceIsSafe, KeepsSame
<1>2. \/ Result(n, memory)
      \/ Result(n, c)
      \/ Result(n, Mark(c, g, i, options \intersect Flag, unset))
  BY DeclareIs
<1>3. ASSUME ~Endless(memory, n)
      PROVE  Keeps(memory, c) /\ Keeps(memory, Mark(c, g, i, options \intersect Flag, unset))
  <2>1. Good(c) /\ Safe(c, n) /\ Keeps(memory, c) /\ c.undefined = memory.undefined
    BY <1>1, <1>3, Created, CreatedSafe, MemoryIs, KeepsCreated DEF Before
  <2>2. i \in Nat \ {0}
    BY <1>3, MemoryIs, SlotIs
  <2>3. g = CASE v = Empty -> c
              [] v # Empty /\ type = "nameref" -> Refer(c, i, v)
              [] v # Empty /\ type = "array" -> parse_and_set_array(c, n, v)
              [] v # Empty /\ type = "map" -> parse_and_set_associative_array(c, n, v)
              [] OTHER -> set_variable(c, n, v, type, FALSE)
    BY DEF Given
  <2> HIDE DEF c, i, g, type
  <2>4. Good(g) /\ Keeps(c, g)
    <3>1. CASE v = Empty
      BY <2>1, <2>3, <3>1, KeepsSame
    <3>2. CASE v # Empty /\ type \in {"array", "map"}
      <4>1. Good(parse_and_set_array(c, n, v)) /\ Good(parse_and_set_associative_array(c, n, v))
        BY <2>1, ParsersGood
      <4>2. /\ Keeps(c, parse_and_set_array(c, n, v))
            /\ Keeps(c, parse_and_set_associative_array(c, n, v))
        BY <2>1, ParsersKeep
      <4> QED BY <2>3, <3>2, <4>1, <4>2
    <3>3. CASE v # Empty /\ type \notin {"array", "map"}
      <4>1. type \in ValueType
        BY <1>1 DEF ValueType
      <4>2. Good(set_variable(c, n, v, type, FALSE)) /\ Keeps(c, set_variable(c, n, v, type, FALSE))
        BY <2>1, <4>1, SetGood, SetKeeps
      <4> QED BY <1>1, <2>3, <3>3, <4>2
    <3> QED BY <3>1, <3>2, <3>3
  <2>5. options \intersect Flag \in SUBSET Flag /\ ~ (unset /\ "readonly" \in options \intersect Flag)
    OBVIOUS
  <2>6. g \in Memory
    BY <2>4 DEF Good, Typed
  <2>7. Keeps(g, Mark(c, g, i, options \intersect Flag, unset))
    BY <2>2, <2>5, <2>6, MarkKeeps
  <2>8. Keeps(memory, g)
    BY <2>1, <2>4, KeepsBoth
  <2> QED BY <2>1, <2>7, <2>8, KeepsBoth
<1> HIDE DEF type, c, i, g
<1> QED BY <1>1, <1>2, <1>3, ResultKeeps

LEMMA OneNameKeeps ==
  ASSUME Good(memory), ~memory.undefined, session \in Session, NEW n \in Name, ~Doubled(n), OneName(n)
  PROVE  Keeps(memory, memory') \/ AssignElement(n)
<1>1. CASE AssignElement(n)
  BY <1>1
<1>2. CASE builtin_unset(n)
  BY <1>2, UnsetCommandKeeps
<1>3. CASE \E remove \in BOOLEAN : ExportName(n, remove)
  BY <1>3, ExportNameKeeps
<1>4. ASSUME NEW v \in session.values,
             \/ Assign(n, v)
             \/ builtin_set(n, v)
             \/ printf_v(n, v)
             \/ AssignDefault(n, v)
             \/ \E remove \in BOOLEAN : ExportValue(n, v, remove)
             \/ \E kind \in {"string", "array", "map"} : builtin_readonly(n, v, kind)
      PROVE  Keeps(memory, memory')
  <2>1. v \in Text
    BY SessionIs
  <2>2. CASE Assign(n, v) \/ builtin_set(n, v) \/ printf_v(n, v) \/ AssignDefault(n, v)
    BY <2>1, <2>2, AssignKeeps
  <2>3. CASE \E remove \in BOOLEAN : ExportValue(n, v, remove)
    BY <2>1, <2>3, ExportValueKeeps
  <2>4. CASE \E kind \in {"string", "array", "map"} : builtin_readonly(n, v, kind)
    BY <2>1, <2>4, ReadonlyKeeps
  <2> QED BY <1>4, <2>2, <2>3, <2>4
<1> QED BY <1>1, <1>2, <1>3, <1>4 DEF OneName

\* The readonly flag of variable.c: whatever is run, and under whatever name, a variable
\* that is readonly is after the command an entry of the table that is readonly and has
\* the same name, type and value. What the code lets through is said by Overrides (an
\* element, declare -n, declare +r) and OnDoubled (a name the table holds twice).
THEOREM ReadonlyStays == Spec => ReadonlyKept
<1>1. Inv /\ [Next]_vars =>
        [\/ \A i \in DOMAIN memory.variables : IsReadonly(memory, i) => StaysReadonly(i)
         \/ Overrides
         \/ OnDoubled]_vars
  <2> SUFFICES ASSUME Inv, Next, ~Overrides, ~OnDoubled,
                      NEW i \in DOMAIN memory.variables, IsReadonly(memory, i)
               PROVE  StaysReadonly(i)
    OBVIOUS
  <2>1. Good(memory) /\ session \in Session /\ ~memory.undefined
    BY NextIs DEF Inv
  <2>2. PICK n \in Name :
          \/ OneName(n)
          \/ \E v \in session.values \union Name, options \in session.options, unset \in BOOLEAN :
               builtin_declare(n, v, options, unset)
    BY NextIs
  <2>3. ~Doubled(n)
    BY <2>2 DEF OnDoubled
  <2>4. Keeps(memory, memory')
    <3>1. CASE OneName(n)
      <4>1. ~AssignElement(n)
        BY DEF Overrides
      <4> QED BY <2>1, <2>3, <3>1, <4>1, OneNameKeeps
    <3>2. ASSUME NEW v \in session.values \union Name, NEW options \in session.options,
                 NEW unset \in BOOLEAN, builtin_declare(n, v, options, unset)
          PROVE  Keeps(memory, memory')
      <4>1. v \in Text
        BY <2>1, SessionIs
      <4>2. "n" \notin options /\ ~ (unset /\ "readonly" \in options)
        BY <3>2 DEF Overrides
      <4> QED BY <2>1, <2>3, <3>2, <4>1, <4>2, DeclareKeeps
    <3> QED BY <2>2, <3>1, <3>2
  <2>5. PICK j \in DOMAIN memory'.variables :
          IsReadonly(memory', j) /\ Alike(memory'.variables[j], memory.variables[i])
    BY <2>4 DEF Keeps
  <2>6. \A f \in {"name", "type", "data", "str"} : memory'.variables[j][f] = memory.variables[i][f]
    BY <2>5 DEF Alike
  <2> QED BY <2>5, <2>6 DEF StaysReadonly
<1> QED BY <1>1, Invariance, PTL DEF Spec, ReadonlyKept
=============================================================================
