---------------------------- MODULE HashMapProofs ----------------------------
(***************************************************************************)
(* Proofs about HashMap, for every set of keys and values and every hash    *)
(* function, however the table grows: the table can be searched in every    *)
(* step of every call, and it answers as a dictionary.                      *)
(***************************************************************************)
EXTENDS HashMap, FiniteSetTheorems, TLAPS

-----------------------------------------------------------------------------
(* The way around a table of n buckets.                                    *)

LEMMA Remainder ==
  ASSUME NEW x \in Nat, NEW n \in Nat \ {0}
  PROVE  /\ x % n \in 0..n - 1
         /\ x < n => (x + 1) % n = IF x = n - 1 THEN 0 ELSE x + 1
OBVIOUS

LEMMA DistanceRange ==
  ASSUME NEW n \in Nat \ {0}, NEW a \in 0..n - 1, NEW b \in 0..n - 1
  PROVE  /\ Distance(a, b, n) \in 0..n - 1
         /\ Distance(a, b, n) = 0 <=> a = b
         /\ \A c \in 0..n - 1 : Distance(a, b, n) = Distance(a, c, n) => b = c
BY DEF Distance

LEMMA DistancesFrom ==
  ASSUME NEW n \in Nat \ {0}, NEW a \in 0..n - 1
  PROVE  /\ \A b \in 0..n - 1 : /\ Distance(a, b, n) \in Nat
                                /\ Distance(a, b, n) < n
                                /\ Distance(a, b, n) = 0 <=> a = b
         /\ \A b, c \in 0..n - 1 : Distance(a, b, n) = Distance(a, c, n) => b = c
BY DEF Distance

\* The next bucket is one further away, unless it is where the way began.
LEMMA DistanceNext ==
  ASSUME NEW n \in Nat \ {0}, NEW a \in 0..n - 1, NEW b \in 0..n - 1
  PROVE  Distance(a, (b + 1) % n, n) = IF (b + 1) % n = a THEN 0 ELSE Distance(a, b, n) + 1
<1>0. b \in Nat /\ b < n
  OBVIOUS
<1>1. (b + 1) % n = IF b = n - 1 THEN 0 ELSE b + 1
  BY <1>0, Remainder
<1> QED BY <1>1 DEF Distance

\* When the way from h to y passes g, it passes whatever lies between g and y.
LEMMA DistanceBetween ==
  ASSUME NEW n \in Nat \ {0}, NEW h \in 0..n - 1, NEW g \in 0..n - 1,
         NEW x \in 0..n - 1, NEW y \in 0..n - 1,
         Distance(h, g, n) < Distance(h, y, n), Distance(g, x, n) < Distance(g, y, n)
  PROVE  Distance(h, x, n) < Distance(h, y, n)
BY DEF Distance

-----------------------------------------------------------------------------
(* The invariant.                                                          *)

Home(k) == hash[k] % capacity

\* An insertion that looks for its bucket has a bucket to spare.
RoomToInsert == pc = "probe" /\ op = "insert" => 2 * size + 2 <= capacity

\* The buckets map_insert, map_get or map_remove has passed hold other keys.
PassedAreOthers ==
  pc = "probe" =>
    \A y \in 0..capacity - 1 :
      Distance(Home(key), y, capacity) < Distance(Home(key), index, capacity) =>
        is_occupied(buckets[y]) /\ buckets[y].key # key

Taken == {x \in 0..2 * capacity - 1 : is_occupied(new_buckets[x])}
Moved == {y \in 0..i - 1 : is_occupied(buckets[y])}

\* The table resize_map fills is a well-formed one with the entries moved so far.
NewTableFilled ==
  pc = "resize" =>
    LET n == 2 * capacity
    IN  /\ op = "insert"
        /\ Cardinality(Taken) = Cardinality(Moved)
        /\ \A x \in Taken : \E y \in Moved : new_buckets[x] = buckets[y]
        /\ \A y \in Moved : \E x \in Taken : new_buckets[x] = buckets[y]
        /\ \A x, y \in Taken : new_buckets[x].key = new_buckets[y].key => x = y
        /\ \A x \in Taken :
             LET home == hash[new_buckets[x].key] % n
             IN  \A y \in 0..n - 1 : Distance(home, y, n) < Distance(home, x, n) =>
                                       is_occupied(new_buckets[y])

\* Closing a gap: the buckets behind it up to next are occupied, and none of their
\* entries needs the gap to be found.
GapIsClosing ==
  pc = "shift" =>
    /\ op = "remove"
    /\ reply = Answer("remove", key, TRUE, Freed)
    /\ index # next
    /\ \A y \in 0..capacity - 1 :
         Distance(index, y, capacity) < Distance(index, next, capacity) =>
           /\ is_occupied(buckets[y])
           /\ ~ (Distance(Home(buckets[y].key), index, capacity)
                   < Distance(Home(buckets[y].key), y, capacity)) \/ y = index

Shape == capacity > 1 /\ (pc = "idle" => op = "none")

IInv == /\ WellFormed /\ Shape /\ RoomToInsert /\ PassedAreOthers /\ NewTableFilled
        /\ GapIsClosing


-----------------------------------------------------------------------------
(* Facts about a table that the steps share.                               *)

\* Every index the code computes is one of the table's.
LEMMA Indices ==
  ASSUME IInv
  PROVE  /\ capacity \in Nat \ {0, 1}
         /\ 0 \in 0..capacity - 1
         /\ \A k \in Key : Home(k) \in 0..capacity - 1
         /\ \A k \in Key : hash[k] % (2 * capacity) \in 0..2 * capacity - 1
         /\ \A x \in 0..capacity - 1 : Following(x) \in 0..capacity - 1 /\ Following(x) # x
<1>1. capacity \in Nat \ {0, 1} /\ 2 * capacity \in Nat \ {0}
  BY DEF IInv, WellFormed, TypeOK, Shape
<1>2. \A k \in Key : hash[k] \in Nat
  BY HashAssumption DEF IInv, WellFormed, TypeOK
<1>3. \A x \in 0..capacity - 1 : Following(x) = IF x = capacity - 1 THEN 0 ELSE x + 1
  <2>1. ASSUME NEW x \in 0..capacity - 1
        PROVE  Following(x) = IF x = capacity - 1 THEN 0 ELSE x + 1
    <3>1. x \in Nat /\ x < capacity
      BY <1>1
    <3> QED BY <1>1, <3>1, Remainder DEF Following
  <2> QED BY <2>1
<1>4. \A x \in 0..capacity - 1 : Following(x) \in 0..capacity - 1 /\ Following(x) # x
  BY <1>1, <1>3
<1>5. \A k \in Key : /\ Home(k) \in 0..capacity - 1
                    /\ hash[k] % (2 * capacity) \in 0..2 * capacity - 1
  <2>1. ASSUME NEW k \in Key, NEW n \in Nat \ {0}
        PROVE  hash[k] % n \in 0..n - 1
    BY <1>2, Remainder
  <2> QED BY <1>1, <2>1 DEF Home
<1> QED BY <1>1, <1>4, <1>5

\* What is in an occupied bucket.
LEMMA BucketContents ==
  ASSUME IInv, NEW x \in 0..capacity - 1
  PROVE  /\ buckets[x] \in Bucket
         /\ is_occupied(buckets[x]) => buckets[x].key \in Key /\ buckets[x].value \in Value \cup {Freed}
         /\ ~ is_occupied(buckets[x]) => buckets[x] = Empty
<1>1. buckets[x] \in Bucket
  BY DEF IInv, WellFormed, TypeOK
<1> QED BY <1>1, KeyAssumption DEF Bucket, Empty, is_occupied

\* The same facts about the table itself.
LEMMA TableDistances ==
  ASSUME IInv, NEW a \in 0..capacity - 1
  PROVE  /\ \A b \in 0..capacity - 1 : /\ Distance(a, b, capacity) \in Nat
                                       /\ Distance(a, b, capacity) < capacity
                                       /\ Distance(a, b, capacity) = 0 <=> a = b
         /\ \A b, c \in 0..capacity - 1 :
              Distance(a, b, capacity) = Distance(a, c, capacity) => b = c
<1>1. capacity \in Nat \ {0}
  BY Indices
<1> QED BY <1>1, DistancesFrom, Zenon

LEMMA OccupiedIsFinite ==
  ASSUME IInv
  PROVE  /\ IsFiniteSet(Occupied)
         /\ Cardinality(Occupied) = size
         /\ size \in Nat
<1>1. IsFiniteSet(0..capacity - 1)
  BY Indices, FS_Interval
<1> QED BY <1>1, FS_Subset DEF Occupied, IInv, WellFormed, HalfFree, TypeOK

\* A bucket is unoccupied somewhere: a way around the table never passes only entries.
LEMMA SomeBucketIsFree ==
  ASSUME IInv
  PROVE  \E x \in 0..capacity - 1 : ~ is_occupied(buckets[x])
<1> SUFFICES ASSUME \A x \in 0..capacity - 1 : is_occupied(buckets[x]) PROVE FALSE
  OBVIOUS
<1>1. Occupied = 0..capacity - 1
  BY DEF Occupied
<1>2. Cardinality(0..capacity - 1) = capacity
  BY Indices, FS_Interval
<1>3. 2 * size <= capacity
  BY DEF IInv, WellFormed, HalfFree
<1> QED BY <1>1, <1>2, <1>3, Indices, OccupiedIsFinite

\* A search that has met an unoccupied bucket has shown that the key is not there.
LEMMA MissMeansAbsent ==
  ASSUME IInv, Miss, NEW x \in 0..capacity - 1
  PROVE  buckets[x].key # key
<1> SUFFICES ASSUME buckets[x].key = key PROVE FALSE
  OBVIOUS
<1> DEFINE h == Home(key)
<1>1. key \in Key /\ index \in 0..capacity - 1 /\ pc = "probe"
  BY DEF IInv, WellFormed, TypeOK, Miss
<1>2. x \in Live
  BY <1>1, KeyAssumption DEF Live, Occupied, is_occupied
<1>3. /\ h \in 0..capacity - 1
      /\ capacity \in Nat \ {0}
  BY <1>1, Indices
<1>4. \A y \in 0..capacity - 1 :
        Distance(h, y, capacity) < Distance(h, x, capacity) => is_occupied(buckets[y])
  BY <1>2 DEF IInv, WellFormed, Reachable, Home
<1>5. ~ (Distance(h, index, capacity) < Distance(h, x, capacity))
  BY <1>1, <1>4 DEF Miss
<1>6. ~ (Distance(h, x, capacity) < Distance(h, index, capacity))
  BY <1>1 DEF IInv, PassedAreOthers
<1>7. x = index
  <2> HIDE DEF h
  <2>1. Distance(h, x, capacity) \in Int /\ Distance(h, index, capacity) \in Int
    BY <1>1, <1>3, DistanceRange
  <2>2. Distance(h, x, capacity) = Distance(h, index, capacity)
    BY <1>5, <1>6, <2>1
  <2> QED BY <1>1, <1>3, <2>2, DistanceRange
<1> QED BY <1>1, <1>2, <1>7 DEF Miss, Live, Occupied

-----------------------------------------------------------------------------
(* Steps that keep every key in its bucket.                                *)

Searchable == HalfFree /\ Reachable /\ OneBucketPerKey

LEMMA SameKeys ==
  ASSUME IInv, UNCHANGED <<hash, capacity, size>>, pc # "shift", pc' # "shift",
         \A x \in 0..capacity - 1 : buckets'[x].key = buckets[x].key
  PROVE  Searchable'
<1>1. \A x \in 0..capacity - 1 : is_occupied(buckets'[x]) <=> is_occupied(buckets[x])
  BY DEF is_occupied
<1>2. Occupied' = Occupied /\ Live = Occupied /\ Live' = Live
  BY <1>1 DEF Occupied, Live
<1>3. HalfFree'
  BY <1>2 DEF IInv, WellFormed, HalfFree
<1>4. Reachable'
  BY <1>1, <1>2 DEF IInv, WellFormed, Reachable, Live, Occupied
<1>5. OneBucketPerKey'
  BY <1>2 DEF IInv, WellFormed, OneBucketPerKey, Live, Occupied
<1> QED BY <1>3, <1>4, <1>5 DEF Searchable

\* The value of the key in one bucket is another one, or freed.
LEMMA ValueReplaced ==
  ASSUME IInv, NEW x \in 0..capacity - 1, is_occupied(buckets[x]),
         NEW v \in Value \cup {Freed}, buckets' = [buckets EXCEPT ![x].value = v]
  PROVE  /\ buckets' \in [0..capacity - 1 -> Bucket]
         /\ \A y \in 0..capacity - 1 :
              buckets'[y].key = buckets[y].key /\ (y # x => buckets'[y] = buckets[y])
         /\ buckets'[x].value = v
<1>1. buckets[x] \in [key : Key, value : Value \cup {Freed}]
  BY DEF IInv, WellFormed, TypeOK, Bucket, Empty, is_occupied
<1>2. [buckets[x] EXCEPT !.value = v] \in Bucket
  BY <1>1 DEF Bucket
<1>3. buckets \in [0..capacity - 1 -> Bucket]
  BY DEF IInv, WellFormed, TypeOK
<1>4. buckets' = [buckets EXCEPT ![x] = [buckets[x] EXCEPT !.value = v]]
  BY <1>3
<1> QED BY <1>1, <1>2, <1>3, <1>4

\* A call that ends: its locals are gone and nothing is left to show about them.
LEMMA Returned ==
  ASSUME IInv, NEW answer, Return(answer), Searchable',
         buckets' \in [0..capacity - 1 -> Bucket], size' \in Nat
  PROVE  IInv'
<1>1. TypeOK'
  BY Indices, Zenon DEF IInv, WellFormed, TypeOK, Return, resize
<1>2. pc' = "idle" /\ op' = "none" /\ capacity' = capacity
  BY DEF Return
<1> QED BY <1>1, <1>2
        DEF IInv, WellFormed, Searchable, Shape, RoomToInsert, PassedAreOthers,
            NewTableFilled, GapIsClosing

\* A call begins to search at the home of its key.
LEMMA SearchBegins ==
  ASSUME IInv, pc' = "probe", key' \in Key, UNCHANGED hash, op' \in {"insert", "get", "remove"},
         op' = "insert" => value' \in Value /\ 2 * size' + 2 <= capacity',
         capacity' \in Nat \ {0, 1}, index' = hash[key'] % capacity',
         buckets' \in [0..capacity' - 1 -> Bucket], size' \in Nat,
         next' \in 0..capacity' - 1, i' \in 0..capacity', Searchable'
  PROVE  IInv'
<1>1. index' \in 0..capacity' - 1 /\ hash' \in [Key -> HashValue]
  <2>1. hash[key'] \in Nat /\ hash \in [Key -> HashValue]
    BY HashAssumption DEF IInv, WellFormed, TypeOK
  <2> QED BY <2>1, Remainder
<1>2. TypeOK'
  BY <1>1 DEF TypeOK
<1>3. PassedAreOthers'
  <2> SUFFICES ASSUME NEW y \in 0..capacity' - 1,
                      Distance(index', y, capacity') < Distance(index', index', capacity')
               PROVE  FALSE
    BY DEF PassedAreOthers, Home
  <2>1. Distance(index', y, capacity') \in 0..capacity' - 1
    BY <1>1, DistanceRange
  <2>2. Distance(index', index', capacity') = 0
    BY <1>1, DistanceRange
  <2> QED BY <2>1, <2>2
<1>4. Shape' /\ RoomToInsert'
  <2>1. \A n \in Nat \ {0, 1} : n > 1
    OBVIOUS
  <2> QED BY <2>1, Zenon DEF Shape, RoomToInsert
<1>5. NewTableFilled' /\ GapIsClosing'
  BY DEF NewTableFilled, GapIsClosing
<1> QED BY <1>2, <1>3, <1>4, <1>5 DEF IInv, WellFormed, Searchable

LEMMA CallStep ==
  ASSUME IInv, NEW o \in {"get", "remove", "insert"}, NEW k \in Key, NEW v, Call(o, k, v),
         o = "insert" => v \in Value /\ ~ HalfFull
  PROVE  IInv'
<1>1. Searchable'
  BY SameKeys DEF Call
<1>2. o = "insert" => 2 * size + 2 <= capacity
  BY DEF IInv, WellFormed, TypeOK, HalfFull
<1>3. /\ pc' = "probe" /\ key' = k /\ op' = o /\ value' = v
      /\ index' = hash[k] % capacity
      /\ UNCHANGED <<hash, buckets, capacity, size, next, i>>
  BY DEF Call, resize
<1>4. /\ buckets \in [0..capacity - 1 -> Bucket] /\ size \in Nat
      /\ next \in 0..capacity - 1 /\ i \in 0..capacity
      /\ capacity \in Nat \ {0, 1}
  BY Indices DEF IInv, WellFormed, TypeOK
<1> QED BY <1>1, <1>2, <1>3, <1>4, SearchBegins

LEMMA InsertCallStep ==
  ASSUME IInv, NEW k \in Key, NEW v \in Value, InsertCall(k, v)
  PROVE  IInv'
<1>1. CASE ~ HalfFull
  BY <1>1, CallStep DEF InsertCall
<1>2. CASE Return(Answer("insert", k, FALSE, v)) /\ HalfFull
  <2>1. UNCHANGED <<hash, capacity, size, buckets>> /\ pc # "shift" /\ pc' # "shift"
    BY <1>2 DEF InsertCall, Return
  <2>2. Searchable'
    BY <2>1, SameKeys
  <2> QED BY <1>2, <2>1, <2>2, Returned DEF IInv, WellFormed, TypeOK
<1>3. ASSUME pc = "idle", op' = "insert", key' = k, value' = v, pc' = "resize",
             new_buckets' = EmptyTable(2 * capacity), i' = 0,
             UNCHANGED <<hash, capacity, cursor, reply, buckets, size>>
      PROVE  IInv'
  <2>1. Searchable'
    BY <1>3, SameKeys
  <2>2. TypeOK'
    BY <1>3, Indices DEF IInv, WellFormed, TypeOK, EmptyTable, cursor, Bucket
  <2>3. NewTableFilled'
    <3>1. Taken' = {} /\ Moved' = {}
      BY <1>3, Indices DEF Taken, Moved, EmptyTable, Empty, is_occupied
    <3> QED BY <1>3, <3>1 DEF NewTableFilled
  <2> QED BY <1>3, <2>1, <2>2, <2>3
          DEF IInv, WellFormed, Searchable, Shape, RoomToInsert, PassedAreOthers, GapIsClosing
<1> QED BY <1>1, <1>2, <1>3 DEF InsertCall

LEMMA ProbeStep ==
  ASSUME IInv, Probe
  PROVE  IInv'
<1>1. Searchable'
  BY SameKeys DEF Probe
<1>2. /\ index \in 0..capacity - 1 /\ key \in Key
      /\ index' = Following(index)
      /\ UNCHANGED <<hash, buckets, capacity, size, pc, op, key, value, next, new_buckets, i>>
      /\ pc = "probe"
  BY DEF Probe, call, resize, IInv, WellFormed, TypeOK
<1>3. TypeOK'
  BY <1>2, Indices DEF IInv, WellFormed, TypeOK
<1>4. PassedAreOthers'
  <2> DEFINE h == Home(key)
  <2>1. h \in 0..capacity - 1 /\ capacity \in Nat \ {0}
    BY <1>2, Indices
  <2> SUFFICES ASSUME NEW y \in 0..capacity - 1,
                      Distance(h, y, capacity) < Distance(h, index', capacity)
               PROVE  is_occupied(buckets[y]) /\ buckets[y].key # key
    BY <1>2 DEF PassedAreOthers, Home
  <2> HIDE DEF h
  <2>2. Distance(h, index', capacity) =
          IF index' = h THEN 0 ELSE Distance(h, index, capacity) + 1
    BY <1>2, <2>1, DistanceNext DEF Following
  <2>3. /\ Distance(h, y, capacity) \in Nat /\ Distance(h, index, capacity) \in Nat
        /\ Distance(h, y, capacity) = Distance(h, index, capacity) => y = index
    BY <1>2, <2>1, DistanceRange
  <2>4. Distance(h, y, capacity) < Distance(h, index, capacity) \/ y = index
    BY <2>2, <2>3
  <2> QED BY <1>2, <2>4 DEF h, Probe, IInv, PassedAreOthers
<1> QED BY <1>1, <1>2, <1>3, <1>4
        DEF IInv, WellFormed, Searchable, Shape, RoomToInsert, NewTableFilled, GapIsClosing

LEMMA InsertHitStep ==
  ASSUME IInv, InsertHit
  PROVE  IInv'
<1>1. /\ index \in 0..capacity - 1 /\ key \in Key /\ value \in Value
      /\ is_occupied(buckets[index]) /\ pc = "probe"
  BY KeyAssumption DEF IInv, WellFormed, TypeOK, InsertHit, Hit, is_occupied
<1>2. PICK v \in Value \cup {Freed} : buckets' = [buckets EXCEPT ![index].value = v]
  BY <1>1 DEF InsertHit
<1>3. /\ buckets' \in [0..capacity - 1 -> Bucket]
      /\ \A y \in 0..capacity - 1 : buckets'[y].key = buckets[y].key
  BY <1>1, <1>2, ValueReplaced
<1>4. PICK answer : Return(answer) /\ UNCHANGED size
  BY DEF InsertHit
<1>5. Searchable'
  BY <1>1, <1>3, <1>4, SameKeys DEF Return
<1> QED BY <1>3, <1>4, <1>5, Returned, OccupiedIsFinite

LEMMA AnswerStep ==
  ASSUME IInv, GetHit \/ NotFound
  PROVE  IInv'
<1>1. PICK answer : Return(answer) /\ UNCHANGED <<buckets, size>>
  BY DEF GetHit, NotFound
<1>2. pc = "probe" /\ UNCHANGED <<hash, capacity>> /\ pc' = "idle"
  BY <1>1 DEF GetHit, NotFound, Hit, Miss, Return
<1>3. Searchable'
  BY <1>1, <1>2, SameKeys
<1> QED BY <1>1, <1>3, Returned DEF IInv, WellFormed, TypeOK

LEMMA DoubleFreeStep ==
  ASSUME IInv, DoubleFree
  PROVE  IInv'
<1>1. Searchable'
  BY SameKeys DEF DoubleFree, Hit
<1>2. TypeOK'
  BY DEF DoubleFree, Hit, IInv, WellFormed, TypeOK, call, cursor, resize
<1> QED BY <1>1, <1>2
        DEF DoubleFree, IInv, WellFormed, Searchable, Shape, RoomToInsert, PassedAreOthers,
            NewTableFilled, GapIsClosing, cursor

\* A new entry: the search has passed every bucket between its home and its place.
LEMMA InsertMissStep ==
  ASSUME IInv, InsertMiss
  PROVE  IInv'
<1>1. /\ index \in 0..capacity - 1 /\ key \in Key /\ value \in Value
      /\ ~ is_occupied(buckets[index]) /\ pc = "probe" /\ op = "insert" /\ Miss
      /\ buckets \in [0..capacity - 1 -> Bucket]
  BY DEF IInv, WellFormed, TypeOK, InsertMiss, Miss
<1>2. CASE UNCHANGED <<buckets, size>>
  <2>1. PICK answer : Return(answer)
    BY DEF InsertMiss
  <2>2. Searchable'
    BY <1>1, <1>2, <2>1, SameKeys DEF Return
  <2> QED BY <1>1, <1>2, <2>1, <2>2, Returned, OccupiedIsFinite
<1>3. ASSUME buckets' = [buckets EXCEPT ![index] = [key |-> key, value |-> value]],
             size' = size + 1, Return(Answer("insert", key, TRUE, value))
      PROVE  IInv'
  <2>1. /\ UNCHANGED <<hash, capacity>> /\ pc' = "idle"
        /\ \A x \in 0..capacity - 1 : x # index => buckets'[x] = buckets[x]
        /\ buckets'[index] = [key |-> key, value |-> value]
        /\ is_occupied(buckets'[index])
        /\ buckets' \in [0..capacity - 1 -> Bucket]
    BY <1>1, <1>3, KeyAssumption DEF Return, is_occupied, Bucket
  <2>2. /\ Occupied' = Occupied \cup {index} /\ index \notin Occupied
        /\ Live = Occupied /\ Live' = Occupied'
    BY <1>1, <2>1 DEF Occupied, Live
  <2>3. HalfFree'
    <3>1. Cardinality(Occupied') = size + 1
      BY <2>2, OccupiedIsFinite, FS_AddElement
    <3>2. 2 * size + 2 <= capacity
      BY <1>1 DEF IInv, RoomToInsert
    <3> QED BY <1>3, <2>1, <3>1, <3>2, Indices, OccupiedIsFinite DEF HalfFree
  <2>4. Reachable'
    <3>1. \A y \in 0..capacity - 1 : is_occupied(buckets[y]) => is_occupied(buckets'[y])
      BY <2>1
    <3> SUFFICES ASSUME NEW x \in Live', NEW y \in 0..capacity - 1,
                        Distance(Home(buckets'[x].key), y, capacity)
                          < Distance(Home(buckets'[x].key), x, capacity)
                 PROVE  is_occupied(buckets[y])
      BY <2>1, <3>1 DEF Reachable, Home
    <3>2. CASE x = index
      BY <1>1, <2>1, <3>2 DEF IInv, PassedAreOthers
    <3>3. CASE x # index
      <4>1. x \in Live /\ buckets'[x] = buckets[x]
        BY <2>1, <2>2, <3>3 DEF Occupied
      <4> QED BY <4>1 DEF IInv, WellFormed, Reachable, Home
    <3> QED BY <3>2, <3>3
  <2>5. OneBucketPerKey'
    <3> SUFFICES ASSUME NEW x \in Live', NEW y \in Live', buckets'[x].key = buckets'[y].key
                 PROVE  x = y
      BY DEF OneBucketPerKey
    <3>1. \A z \in Live' : z \in 0..capacity - 1 /\ (z # index => z \in Live)
      BY <1>1, <2>2 DEF Occupied
    <3>2. \A z \in 0..capacity - 1 : buckets[z].key # key
      BY <1>1, MissMeansAbsent
    <3> QED BY <2>1, <3>1, <3>2 DEF IInv, WellFormed, OneBucketPerKey
  <2>6. Searchable'
    BY <2>3, <2>4, <2>5 DEF Searchable
  <2>7. size' \in Nat
    BY <1>3, OccupiedIsFinite
  <2> QED BY <1>3, <2>1, <2>6, <2>7, Returned
<1> QED BY <1>2, <1>3 DEF InsertMiss

-----------------------------------------------------------------------------
(* Growth: resize_map.                                                     *)

\* What resize_map knows of the old table and of the one it fills.
LEMMA WhileGrowing ==
  ASSUME IInv, pc = "resize"
  PROVE  /\ capacity \in Nat \ {0, 1} /\ i \in 0..capacity
         /\ new_buckets \in [0..2 * capacity - 1 -> Bucket]
         /\ buckets \in [0..capacity - 1 -> Bucket]
         /\ op = "insert" /\ key \in Key /\ value \in Value
         /\ Live = Occupied
         /\ IsFiniteSet(Taken) /\ IsFiniteSet(Moved)
<1>1. /\ capacity \in Nat \ {0, 1} /\ i \in 0..capacity
      /\ new_buckets \in [0..2 * capacity - 1 -> Bucket]
      /\ buckets \in [0..capacity - 1 -> Bucket]
      /\ op = "insert" /\ key \in Key /\ value \in Value
  BY Indices DEF IInv, WellFormed, TypeOK, NewTableFilled
<1>2. IsFiniteSet(0..2 * capacity - 1) /\ IsFiniteSet(0..i - 1)
  BY <1>1, FS_Interval
<1>3. IsFiniteSet(Taken) /\ IsFiniteSet(Moved)
  BY <1>2, FS_Subset DEF Taken, Moved
<1> QED BY <1>1, <1>3 DEF Live

\* An entry goes to its place in the new table.
LEMMA EntryMoves ==
  ASSUME IInv, pc = "resize", UNCHANGED <<hash, buckets, capacity, op, pc>>,
         i < capacity, i' = i + 1, is_occupied(buckets[i]),
         NEW x \in 0..2 * capacity - 1, ~ is_occupied(new_buckets[x]),
         \A y \in 0..2 * capacity - 1 :
           Distance(hash[buckets[i].key] % (2 * capacity), y, 2 * capacity)
             < Distance(hash[buckets[i].key] % (2 * capacity), x, 2 * capacity) =>
               is_occupied(new_buckets[y]),
         new_buckets' = [new_buckets EXCEPT ![x] = buckets[i]]
  PROVE  NewTableFilled' /\ new_buckets' \in [0..2 * capacity - 1 -> Bucket]
<1> DEFINE n == 2 * capacity
<1>1. /\ i \in 0..capacity - 1 /\ i \in Occupied
      /\ \A y \in Moved : y \in Live /\ y < i
  <2>1. /\ i \in 0..capacity - 1
        /\ \A y \in 0..i - 1 : y \in 0..capacity - 1 /\ y < i
    BY WhileGrowing
  <2> QED BY <2>1, WhileGrowing DEF Moved, Occupied
<1>2. /\ new_buckets'[x] = buckets[i]
      /\ \A y \in 0..n - 1 : y # x => new_buckets'[y] = new_buckets[y]
      /\ \A y \in 0..n - 1 : is_occupied(new_buckets[y]) => is_occupied(new_buckets'[y])
      /\ new_buckets' \in [0..n - 1 -> Bucket]
  BY <1>1, WhileGrowing
<1>3. Taken' = Taken \cup {x} /\ x \notin Taken
  BY <1>2 DEF Taken
<1>4. Moved' = Moved \cup {i} /\ i \notin Moved
  BY <1>1, WhileGrowing DEF Moved
<1>5. Cardinality(Taken') = Cardinality(Moved')
  <2>1. /\ Cardinality(Taken \cup {x}) = Cardinality(Taken) + 1
        /\ Cardinality(Moved \cup {i}) = Cardinality(Moved) + 1
    BY <1>3, <1>4, WhileGrowing, FS_AddElement
  <2>2. Cardinality(Taken) = Cardinality(Moved)
    BY DEF IInv, NewTableFilled
  <2> QED BY <1>3, <1>4, <2>1, <2>2
<1>6. ASSUME NEW y \in Taken'
      PROVE  \E z \in Moved' : new_buckets'[y] = buckets[z]
  <2>1. CASE y = x
    BY <1>2, <1>4, <2>1
  <2>2. CASE y # x
    <3>1. y \in Taken /\ y \in 0..n - 1
      BY <1>3, <2>2 DEF Taken
    <3>2. PICK z \in Moved : new_buckets[y] = buckets[z]
      BY <3>1 DEF IInv, NewTableFilled
    <3> QED BY <1>2, <1>4, <2>2, <3>1, <3>2
  <2> QED BY <2>1, <2>2
<1>7. ASSUME NEW z \in Moved'
      PROVE  \E y \in Taken' : new_buckets'[y] = buckets[z]
  <2>1. CASE z = i
    BY <1>2, <1>3, <2>1
  <2>2. CASE z # i
    <3>1. PICK y \in Taken : new_buckets[y] = buckets[z]
      BY <1>4, <2>2 DEF IInv, NewTableFilled
    <3>2. y \in 0..n - 1 /\ y # x
      BY <1>3 DEF Taken
    <3> QED BY <1>2, <1>3, <3>1, <3>2
  <2> QED BY <2>1, <2>2
<1>8. \A y \in Taken : new_buckets[y].key # buckets[i].key
  <2>1. ASSUME NEW y \in Taken, new_buckets[y].key = buckets[i].key
        PROVE  FALSE
    <3>1. PICK z \in Moved : new_buckets[y] = buckets[z]
      BY DEF IInv, NewTableFilled
    <3>2. z = i
      BY <1>1, <2>1, <3>1, WhileGrowing DEF IInv, WellFormed, OneBucketPerKey
    <3> QED BY <1>4, <3>2
  <2> QED BY <2>1
<1>9. \A y, z \in Taken' : new_buckets'[y].key = new_buckets'[z].key => y = z
  <2>1. \A y \in Taken : y \in 0..n - 1 /\ y # x
    BY <1>3 DEF Taken
  <2>2. \A y \in Taken : new_buckets'[y] = new_buckets[y]
    BY <1>2, <2>1
  <2>3. \A y, z \in Taken : new_buckets[y].key = new_buckets[z].key => y = z
    BY DEF IInv, NewTableFilled
  <2> QED BY <1>2, <1>3, <1>8, <2>2, <2>3
<1>10. ASSUME NEW y \in Taken', NEW z \in 0..n - 1,
              Distance(hash[new_buckets'[y].key] % n, z, n)
                < Distance(hash[new_buckets'[y].key] % n, y, n)
       PROVE  is_occupied(new_buckets'[z])
  <2>1. CASE y = x
    BY <1>2, <1>10, <2>1
  <2>2. CASE y # x
    <3>1. y \in Taken /\ new_buckets'[y] = new_buckets[y]
      BY <1>2, <1>3, <2>2 DEF Taken
    <3> QED BY <1>2, <1>10, <3>1 DEF IInv, NewTableFilled
  <2> QED BY <2>1, <2>2
<1>11. op' = "insert"
  BY WhileGrowing
<1> QED BY <1>2, <1>5, <1>6, <1>7, <1>9, <1>10, <1>11 DEF NewTableFilled

LEMMA RehashStep ==
  ASSUME IInv, Rehash
  PROVE  IInv'
<1>1. /\ pc = "resize" /\ i < capacity /\ i' = i + 1
      /\ UNCHANGED <<hash, buckets, capacity, size, pc, op, key, value, index, next, reply>>
  BY DEF Rehash, call, cursor
<1>2. Searchable'
  BY <1>1, SameKeys
<1>3. NewTableFilled' /\ new_buckets' \in [0..2 * capacity - 1 -> Bucket]
  <2>1. CASE is_occupied(buckets[i])
    BY <1>1, <2>1, EntryMoves DEF Rehash
  <2>2. CASE ~ is_occupied(buckets[i])
    <3>1. UNCHANGED new_buckets
      BY <2>2 DEF Rehash
    <3>2. Moved' = Moved /\ Taken' = Taken
      BY <1>1, <2>2, <3>1, WhileGrowing DEF Moved, Taken
    <3> QED BY <1>1, <3>1, <3>2, WhileGrowing DEF IInv, NewTableFilled
  <2> QED BY <2>1, <2>2
<1>4. TypeOK'
  BY <1>1, <1>3, WhileGrowing DEF IInv, WellFormed, TypeOK
<1> QED BY <1>1, <1>2, <1>3, <1>4
        DEF IInv, WellFormed, Searchable, Shape, RoomToInsert, PassedAreOthers, GapIsClosing

\* The new table, once every entry has moved, is the table.
LEMMA ResizedStep ==
  ASSUME IInv, Resized
  PROVE  IInv' /\ {buckets'[x] : x \in Live'} = {buckets[x] : x \in Live}
<1>1. /\ pc = "resize" /\ i = capacity /\ pc' = "probe"
      /\ buckets' = new_buckets /\ capacity' = 2 * capacity
      /\ index' = hash[key] % capacity' /\ i' = 0
      /\ UNCHANGED <<hash, size, op, key, value, next>>
  BY DEF Resized, call
<1>2. /\ Moved = Occupied /\ Live = Occupied
      /\ Taken = Occupied' /\ Live' = Occupied'
  BY <1>1, WhileGrowing DEF Moved, Occupied, Live, Taken
<1>3. HalfFree'
  <2>1. Cardinality(Occupied') = size
    BY <1>1, <1>2, OccupiedIsFinite DEF IInv, NewTableFilled
  <2>2. 2 * size <= capacity
    BY DEF IInv, WellFormed, HalfFree
  <2> QED BY <1>1, <2>1, <2>2, WhileGrowing, OccupiedIsFinite DEF HalfFree
<1>4. Reachable' /\ OneBucketPerKey'
  BY <1>1, <1>2 DEF IInv, NewTableFilled, Reachable, OneBucketPerKey
<1>5. IInv'
  <2>1. Searchable'
    BY <1>3, <1>4 DEF Searchable
  <2>2. 2 * size' + 2 <= capacity'
    <3>1. 2 * size <= capacity
      BY DEF IInv, WellFormed, HalfFree
    <3> QED BY <1>1, <3>1, WhileGrowing, OccupiedIsFinite
  <2>3. capacity' \in Nat \ {0, 1} /\ next' \in 0..capacity' - 1 /\ i' \in 0..capacity'
    BY <1>1, WhileGrowing DEF IInv, WellFormed, TypeOK
  <2>4. buckets' \in [0..capacity' - 1 -> Bucket] /\ size' \in Nat
    BY <1>1, WhileGrowing, OccupiedIsFinite
  <2>5. op' = "insert" /\ key' \in Key /\ value' \in Value
    BY <1>1, WhileGrowing
  <2> QED BY <1>1, <2>1, <2>2, <2>3, <2>4, <2>5, SearchBegins
<1>6. {buckets'[x] : x \in Live'} = {buckets[x] : x \in Live}
  <2>1. \A x \in Taken : \E y \in Moved : new_buckets[x] = buckets[y]
    BY <1>1 DEF IInv, NewTableFilled
  <2>2. \A y \in Moved : \E x \in Taken : new_buckets[x] = buckets[y]
    BY <1>1 DEF IInv, NewTableFilled
  <2> QED BY <1>1, <1>2, <2>1, <2>2
<1> QED BY <1>5, <1>6

-----------------------------------------------------------------------------
(* Removal: map_remove closes the gap.                                     *)

LEMMA WhileClosing ==
  ASSUME IInv, pc = "shift"
  PROVE  /\ capacity \in Nat \ {0, 1}
         /\ index \in 0..capacity - 1 /\ next \in 0..capacity - 1 /\ index # next
         /\ buckets \in [0..capacity - 1 -> Bucket]
         /\ op = "remove" /\ key \in Key
         /\ reply = Answer("remove", key, TRUE, Freed)
         /\ is_occupied(buckets[index])
         /\ index \in Occupied /\ Live = Occupied \ {index}
<1>1. /\ capacity \in Nat \ {0, 1}
      /\ index \in 0..capacity - 1 /\ next \in 0..capacity - 1 /\ index # next
      /\ buckets \in [0..capacity - 1 -> Bucket]
      /\ op = "remove" /\ key \in Key
      /\ reply = Answer("remove", key, TRUE, Freed)
  BY Indices DEF IInv, WellFormed, TypeOK, GapIsClosing
<1>2. Distance(index, index, capacity) < Distance(index, next, capacity)
  BY <1>1, DistanceRange
<1>3. is_occupied(buckets[index])
  BY <1>1, <1>2 DEF IInv, GapIsClosing
<1> QED BY <1>1, <1>3 DEF Live, Occupied

LEMMA RemoveHitStep ==
  ASSUME IInv, RemoveHit
  PROVE  IInv' /\ Live = Occupied /\ Live' = Live \ {index} /\ index \in Live
<1>1. /\ pc = "probe" /\ op = "remove" /\ pc' = "shift"
      /\ next' = Following(index) /\ reply' = Answer("remove", key, TRUE, Freed)
      /\ buckets[index].key = key /\ index \in 0..capacity - 1 /\ key \in Key
      /\ UNCHANGED <<hash, buckets, capacity, size, op, key, value, index, new_buckets, i>>
  BY DEF RemoveHit, Hit, IInv, WellFormed, TypeOK, call, resize
<1>2. is_occupied(buckets[index])
  BY <1>1, KeyAssumption DEF is_occupied
<1>3. Occupied' = Occupied /\ Live = Occupied /\ Live' = Live \ {index} /\ index \in Live
  BY <1>1, <1>2 DEF Occupied, Live
<1>4. Searchable'
  BY <1>1, <1>3 DEF IInv, WellFormed, Searchable, HalfFree, Reachable, OneBucketPerKey
<1>5. TypeOK'
  BY <1>1, Indices DEF IInv, WellFormed, TypeOK
<1>6. GapIsClosing'
  <2>1. next' \in 0..capacity - 1 /\ next' # index
    BY <1>1, Indices
  <2>2. Distance(index, next', capacity) = 1
    <3>1. Distance(index, Following(index), capacity) = Distance(index, index, capacity) + 1
      BY <1>1, <2>1, Indices, DistanceNext DEF Following
    <3> QED BY <1>1, <3>1, Indices, DistanceRange
  <2>3. \A y \in 0..capacity - 1 :
          Distance(index, y, capacity) < Distance(index, next', capacity) => y = index
    <3>1. \A y \in 0..capacity - 1 : /\ Distance(index, y, capacity) \in Nat
                                     /\ Distance(index, y, capacity) = 0 <=> index = y
      BY <1>1, TableDistances
    <3> QED BY <2>2, <3>1
  <2> QED BY <1>1, <1>2, <2>1, <2>3 DEF GapIsClosing
<1> QED BY <1>1, <1>3, <1>4, <1>5, <1>6
        DEF IInv, WellFormed, Searchable, Shape, RoomToInsert, PassedAreOthers, NewTableFilled

\* The comparison in map_remove: the way from the entry's home to the entry passes the gap.
LEMMA MayMoveIsOnTheWay ==
  ASSUME IInv, pc = "shift", NEW h \in 0..capacity - 1
  PROVE  MayMove(h) <=> Distance(h, index, capacity) < Distance(h, next, capacity)
BY WhileClosing DEF MayMove, Distance

LEMMA ShiftStep ==
  ASSUME IInv, Shift
  PROVE  IInv' /\ {buckets'[x] : x \in Live'} = {buckets[x] : x \in Live}
<1> DEFINE c == capacity
           h == Home(buckets[next].key)
<1>1. /\ pc = "shift" /\ is_occupied(buckets[next]) /\ next' = Following(next)
      /\ UNCHANGED <<hash, capacity, size, pc, op, key, value, new_buckets, i, reply>>
  BY DEF Shift, call, resize
<1>2. /\ next \in Live
      /\ buckets[next].key \in Key /\ h \in 0..c - 1
      /\ next' \in 0..c - 1 /\ next' # next
      /\ \A y \in 0..c - 1 : Distance(h, y, c) < Distance(h, next, c) => is_occupied(buckets[y])
  <2>1. next \in Live
    BY <1>1, WhileClosing DEF Occupied
  <2>2. buckets[next].key \in Key
    BY <1>1, BucketContents, WhileClosing
  <2> QED BY <1>1, <2>1, <2>2, WhileClosing, Indices
          DEF IInv, WellFormed, Reachable, Home
<1>3. CASE MayMove(h)
  <2>1. /\ buckets' = [buckets EXCEPT ![index] = buckets[next]]
        /\ index' = next
    BY <1>3 DEF Shift, Home
  <2>2. /\ buckets'[index] = buckets[next]
        /\ \A x \in 0..c - 1 : x # index => buckets'[x] = buckets[x]
        /\ \A x \in 0..c - 1 : is_occupied(buckets'[x]) <=> is_occupied(buckets[x])
        /\ buckets' \in [0..c - 1 -> Bucket]
    BY <1>1, <2>1, WhileClosing
  <2>3. /\ Occupied' = Occupied
        /\ Live' = (Live \ {next}) \cup {index}
    BY <1>1, <1>2, <2>1, <2>2, WhileClosing DEF Occupied, Live
  <2>4. \A x \in Live \ {next} : x \in 0..c - 1 /\ x # index /\ buckets'[x] = buckets[x]
    BY <1>1, <2>2, WhileClosing DEF Occupied
  <2>5. {buckets'[x] : x \in Live'} = {buckets[x] : x \in Live}
    BY <1>2, <2>2, <2>3, <2>4
  <2>6. HalfFree'
    BY <1>1, <2>3 DEF IInv, WellFormed, HalfFree
  <2>7. OneBucketPerKey'
    BY <1>2, <2>2, <2>3, <2>4 DEF IInv, WellFormed, OneBucketPerKey
  <2>8. Reachable'
    <3> SUFFICES ASSUME NEW x \in Live', NEW y \in 0..c - 1,
                        Distance(Home(buckets'[x].key), y, c)
                          < Distance(Home(buckets'[x].key), x, c)
                 PROVE  is_occupied(buckets[y])
      BY <1>1, <2>2 DEF Reachable, Home
    <3>1. CASE x = index
      <4>1. Distance(h, y, c) < Distance(h, index, c)
        BY <2>2, <3>1
      <4>2. Distance(h, index, c) < Distance(h, next, c)
        BY <1>1, <1>2, <1>3, MayMoveIsOnTheWay
      <4>3. /\ Distance(h, y, c) \in Nat /\ Distance(h, index, c) \in Nat
            /\ Distance(h, next, c) \in Nat
        <5> HIDE DEF h
        <5> QED BY <1>1, <1>2, WhileClosing, DistanceRange
      <4> HIDE DEF h
      <4> QED BY <1>2, <4>1, <4>2, <4>3
    <3>2. CASE x # index
      <4>1. x \in Live /\ buckets'[x] = buckets[x]
        BY <2>3, <2>4, <3>2
      <4> QED BY <4>1 DEF IInv, WellFormed, Reachable, Home
    <3> QED BY <3>1, <3>2
  <2>9. GapIsClosing'
    <3>1. Distance(next, next', c) = 1 /\ next \in 0..c - 1
      <4>1. Distance(next, Following(next), c) = Distance(next, next, c) + 1
        BY <1>1, <1>2, WhileClosing, DistanceNext DEF Following
      <4> QED BY <1>1, <4>1, WhileClosing, DistanceRange
    <3>2. \A y \in 0..c - 1 : Distance(next, y, c) < Distance(next, next', c) => y = next
      <4>1. \A y \in 0..c - 1 : /\ Distance(next, y, c) \in Nat
                                /\ Distance(next, y, c) = 0 <=> next = y
        BY <1>1, WhileClosing, TableDistances
      <4> QED BY <3>1, <4>1
    <3> QED BY <1>1, <1>2, <2>1, <2>2, <3>1, <3>2, WhileClosing DEF GapIsClosing
  <2>10. TypeOK'
    BY <1>1, <1>2, <2>1, <2>2, WhileClosing DEF IInv, WellFormed, TypeOK
  <2> QED BY <1>1, <2>5, <2>6, <2>7, <2>8, <2>9, <2>10
          DEF IInv, WellFormed, Shape, RoomToInsert, PassedAreOthers, NewTableFilled
<1>4. CASE ~ MayMove(h)
  <2>1. UNCHANGED <<buckets, index>>
    BY <1>4 DEF Shift, Home
  <2>2. Occupied' = Occupied /\ Live' = Live
    BY <1>1, <2>1 DEF Occupied, Live
  <2>3. Searchable'
    BY <1>1, <2>1, <2>2 DEF IInv, WellFormed, Searchable, HalfFree, Reachable, OneBucketPerKey
  <2>4. TypeOK'
    BY <1>1, <1>2, <2>1, WhileClosing DEF IInv, WellFormed, TypeOK
  <2>5. /\ \A y \in 0..c - 1 : /\ Distance(index, y, c) \in Nat
                               /\ Distance(index, y, c) = Distance(index, next, c) => y = next
        /\ Distance(index, next', c) =
             IF next' = index THEN 0 ELSE Distance(index, next, c) + 1
    BY <1>1, WhileClosing, TableDistances, DistanceNext DEF Following
  <2>6. ASSUME NEW y \in 0..c - 1,
               Distance(index, y, c) < Distance(index, next, c) \/ y = next
        PROVE  /\ is_occupied(buckets[y])
               /\ \/ ~ (Distance(Home(buckets[y].key), index, c)
                          < Distance(Home(buckets[y].key), y, c))
                  \/ y = index
    <3>1. CASE y = next
      BY <1>1, <1>2, <1>4, <3>1, MayMoveIsOnTheWay
    <3>2. CASE Distance(index, y, c) < Distance(index, next, c)
      BY <1>1, <3>2 DEF IInv, GapIsClosing
    <3> QED BY <2>6, <3>1, <3>2
  <2>7. next' # index
    <3> SUFFICES ASSUME next' = index PROVE FALSE
      OBVIOUS
    <3>0. c \in Nat \ {0} /\ next \in 0..c - 1 /\ index \in 0..c - 1
      BY <1>1, WhileClosing
    <3>1. Distance(index, next, c) = c - 1
      <4>1. next \in Nat /\ next < c
        BY <3>0
      <4>2. index = IF next = c - 1 THEN 0 ELSE next + 1
        BY <1>1, <3>0, <4>1, Remainder DEF Following
      <4> QED BY <3>0, <4>2 DEF Distance
    <3>2. \A y \in 0..c - 1 : Distance(index, y, c) < c - 1 \/ Distance(index, y, c) = c - 1
      <4>1. \A y \in 0..c - 1 : /\ Distance(index, y, c) \in Nat
                                /\ Distance(index, y, c) < c
        BY <3>0, TableDistances
      <4> HIDE DEF c
      <4> QED BY <3>0, <4>1
    <3>3. \A y \in 0..c - 1 : is_occupied(buckets[y])
      BY <2>5, <2>6, <3>1, <3>2
    <3> QED BY <3>3, SomeBucketIsFree
  <2>8. \A y \in 0..c - 1 : Distance(index, y, c) < Distance(index, next', c) =>
                              Distance(index, y, c) < Distance(index, next, c) \/ y = next
    BY <1>1, <2>5, <2>7, WhileClosing
  <2>9. GapIsClosing'
    BY <1>1, <2>1, <2>6, <2>7, <2>8, WhileClosing DEF GapIsClosing, Home
  <2> QED BY <1>1, <2>1, <2>2, <2>3, <2>4, <2>9
          DEF IInv, WellFormed, Searchable, Shape, RoomToInsert, PassedAreOthers, NewTableFilled
<1> QED BY <1>3, <1>4

\* The gap becomes an unoccupied bucket, which hides no entry.
LEMMA RemovedStep ==
  ASSUME IInv, Removed
  PROVE  IInv' /\ {buckets'[x] : x \in Live'} = {buckets[x] : x \in Live}
<1> DEFINE c == capacity
<1>1. /\ pc = "shift" /\ ~ is_occupied(buckets[next]) /\ pc' = "idle"
      /\ buckets' = [buckets EXCEPT ![index] = Empty] /\ size' = size - 1
      /\ Return(reply) /\ UNCHANGED <<hash, capacity>>
  BY DEF Removed, Return
<1>2. /\ \A x \in 0..c - 1 : x # index => buckets'[x] = buckets[x]
      /\ ~ is_occupied(buckets'[index])
      /\ buckets' \in [0..c - 1 -> Bucket]
  BY <1>1, WhileClosing DEF Empty, is_occupied, Bucket
<1>3. /\ Occupied' = Occupied \ {index} /\ Live = Occupied' /\ Live' = Occupied'
      /\ \A x \in Live : x \in 0..c - 1 /\ x # index /\ x # next
  BY <1>1, <1>2, WhileClosing DEF Occupied, Live
<1>4. {buckets'[x] : x \in Live'} = {buckets[x] : x \in Live}
  BY <1>2, <1>3
<1>5. HalfFree' /\ size' \in Nat
  <2>1. Cardinality(Occupied') = size - 1 /\ Cardinality(Occupied') \in Nat
    BY <1>1, <1>3, OccupiedIsFinite, WhileClosing, FS_RemoveElement, FS_CardinalityType
  <2>2. 2 * size <= capacity
    BY DEF IInv, WellFormed, HalfFree
  <2> QED BY <1>1, <2>1, <2>2, OccupiedIsFinite, WhileClosing DEF HalfFree
<1>6. OneBucketPerKey'
  BY <1>2, <1>3 DEF IInv, WellFormed, OneBucketPerKey
<1>7. ASSUME NEW x \in Live
      PROVE  ~ (Distance(Home(buckets[x].key), index, c) < Distance(Home(buckets[x].key), x, c))
  <2> DEFINE h == Home(buckets[x].key)
  <2>1. x \in 0..c - 1 /\ x # index /\ x # next /\ h \in 0..c - 1
    <3>1. x \in 0..c - 1 /\ x # index /\ x # next /\ is_occupied(buckets[x])
      BY <1>3 DEF Occupied
    <3> QED BY <3>1, BucketContents, Indices
  <2>2. CASE Distance(index, x, c) < Distance(index, next, c)
    BY <1>1, <2>1, <2>2 DEF IInv, GapIsClosing
  <2>3. CASE ~ (Distance(index, x, c) < Distance(index, next, c))
    <3>1. Distance(index, next, c) < Distance(index, x, c)
      <4>1. /\ Distance(index, next, c) \in Nat /\ Distance(index, x, c) \in Nat
            /\ Distance(index, next, c) = Distance(index, x, c) => next = x
        BY <1>1, <2>1, WhileClosing, TableDistances
      <4> QED BY <2>1, <2>3, <4>1
    <3>2. ~ (Distance(h, next, c) < Distance(h, x, c))
      BY <1>1, WhileClosing DEF IInv, WellFormed, Reachable, Home
    <3>3. ASSUME Distance(h, index, c) < Distance(h, x, c)
          PROVE  FALSE
      <4> HIDE DEF h
      <4>1. capacity \in Nat \ {0} /\ next \in 0..c - 1 /\ index \in 0..c - 1
        BY <1>1, WhileClosing
      <4> QED BY <2>1, <3>1, <3>2, <3>3, <4>1, DistanceBetween
    <3> QED BY <3>3
  <2> QED BY <2>2, <2>3
<1>8. Reachable'
  <2> SUFFICES ASSUME NEW x \in Live, NEW y \in 0..c - 1,
                      Distance(Home(buckets[x].key), y, c) < Distance(Home(buckets[x].key), x, c)
               PROVE  is_occupied(buckets'[y])
    BY <1>1, <1>2, <1>3 DEF Reachable, Home
  <2>1. y # index
    BY <1>7
  <2>2. is_occupied(buckets[y])
    BY DEF IInv, WellFormed, Reachable, Home
  <2> QED BY <1>2, <2>1, <2>2
<1>9. Searchable'
  BY <1>5, <1>6, <1>8 DEF Searchable
<1> QED BY <1>1, <1>2, <1>4, <1>5, <1>9, Returned

-----------------------------------------------------------------------------
(* The table can be searched in every step of every call.                  *)

LEMMA InvInit == Init => IInv
<1> SUFFICES ASSUME Init PROVE IInv
  OBVIOUS
<1>1. /\ capacity = 2 /\ \A x \in 0..capacity - 1 : buckets[x] = Empty
      /\ buckets \in [0..capacity - 1 -> Bucket]
  BY CapacityAssumption DEF Init, EmptyTable, Bucket
<1>2. Occupied = {} /\ Live = {}
  BY <1>1 DEF Init, Occupied, Live, Empty, is_occupied
<1>3. HalfFree
  BY <1>1, <1>2, FS_EmptySet DEF Init, HalfFree
<1>4. Reachable /\ OneBucketPerKey
  BY <1>2 DEF Reachable, OneBucketPerKey
<1>5. TypeOK
  BY <1>1 DEF Init, TypeOK
<1> QED BY <1>1, <1>3, <1>4, <1>5
        DEF Init, IInv, WellFormed, Shape, RoomToInsert, PassedAreOthers, NewTableFilled,
            GapIsClosing

LEMMA InvStep == IInv /\ [Next]_vars => IInv'
<1> SUFFICES ASSUME IInv, [Next]_vars PROVE IInv'
  OBVIOUS
<1>1. CASE UNCHANGED vars
  <2>1. /\ UNCHANGED <<hash, buckets, capacity, size, pc, op, key, value, index, next>>
        /\ UNCHANGED <<new_buckets, i, reply>>
    BY <1>1 DEF vars, call, cursor, resize
  <2>2. Live' = Live /\ Occupied' = Occupied
    BY <2>1 DEF Live, Occupied
  <2>3. WellFormed'
    BY <2>1, <2>2 DEF IInv, WellFormed, TypeOK, HalfFree, Reachable, OneBucketPerKey
  <2>4. Shape' /\ RoomToInsert' /\ PassedAreOthers'
    BY <2>1 DEF IInv, Shape, RoomToInsert, PassedAreOthers, Home
  <2>5. Taken' = Taken /\ Moved' = Moved
    BY <2>1 DEF Taken, Moved
  <2>6. NewTableFilled'
    BY <2>1, <2>5 DEF IInv, NewTableFilled
  <2>7. GapIsClosing'
    BY <2>1 DEF IInv, GapIsClosing, Home
  <2> QED BY <2>3, <2>4, <2>6, <2>7 DEF IInv
<1>2. CASE Begin
  <2>1. CASE \E k \in Key, v \in Value : InsertCall(k, v)
    BY <2>1, InsertCallStep
  <2>2. CASE \E k \in Key, o \in {"get", "remove"} : Call(o, k, None)
    BY <2>2, CallStep
  <2> QED BY <1>2, <2>1, <2>2 DEF Begin
<1>3. CASE Rehash
  BY <1>3, RehashStep
<1>4. CASE Resized
  BY <1>4, ResizedStep
<1>5. CASE Probe
  BY <1>5, ProbeStep
<1>6. CASE InsertHit \/ InsertMiss
  BY <1>6, InsertHitStep, InsertMissStep
<1>7. CASE GetHit \/ NotFound
  BY <1>7, AnswerStep
<1>8. CASE RemoveHit
  BY <1>8, RemoveHitStep
<1>9. CASE Shift
  BY <1>9, ShiftStep
<1>10. CASE Removed
  BY <1>10, RemovedStep
<1>11. CASE DoubleFree
  BY <1>11, DoubleFreeStep
<1> QED BY <1>1, <1>2, <1>3, <1>4, <1>5, <1>6, <1>7, <1>8, <1>9, <1>10, <1>11 DEF Next, Step

THEOREM Invariance == Spec => []IInv
<1> QED BY InvInit, InvStep, PTL DEF Spec

\* Half of the table is free, probing finds every entry and no key is there twice, in
\* the middle of growth and of closing a gap too.
THEOREM TableCanBeSearched == Spec => []WellFormed
<1>1. IInv => WellFormed
  BY DEF IInv
<1> QED BY <1>1, Invariance, PTL

-----------------------------------------------------------------------------
(* The table implements the dictionary.                                    *)

ContentsMatch ==
  /\ DOMAIN Contents = Entries
  /\ \A x \in Live : /\ buckets[x].key \in Entries
                     /\ Contents[buckets[x].key] = buckets[x].value
  /\ \A k \in Entries : \E x \in Live : buckets[x].key = k

LEMMA ContentsAreTheBuckets == IInv => ContentsMatch
<1> SUFFICES ASSUME IInv PROVE ContentsMatch
  OBVIOUS
<1>1. ASSUME NEW x \in Live
      PROVE  Contents[buckets[x].key] = buckets[x].value
  <2> DEFINE y == CHOOSE z \in Live : buckets[z].key = buckets[x].key
  <2>1. y \in Live /\ buckets[y].key = buckets[x].key
    OBVIOUS
  <2>2. y = x
    <3> HIDE DEF y
    <3> QED BY <2>1 DEF IInv, WellFormed, OneBucketPerKey
  <2>3. Contents[buckets[x].key] = buckets[y].value
    BY DEF Contents, Entries
  <2> QED BY <2>2, <2>3
<1> QED BY <1>1 DEF ContentsMatch, Contents, Entries

\* Where the entries lie does not matter.
LEMMA SameEntries ==
  ASSUME IInv, IInv', {buckets'[x] : x \in Live'} = {buckets[x] : x \in Live}
  PROVE  Contents' = Contents
<1>1. ContentsMatch /\ ContentsMatch'
  BY ContentsAreTheBuckets, PTL
<1>2. \A x \in Live' : \E y \in Live : buckets'[x] = buckets[y]
  OBVIOUS
<1>3. \A y \in Live : \E x \in Live' : buckets'[x] = buckets[y]
  OBVIOUS
<1>4. Entries' = Entries
  BY <1>2, <1>3 DEF Entries
<1>5. ASSUME NEW k \in Entries
      PROVE  Contents'[k] = Contents[k]
  <2>1. PICK x \in Live' : buckets'[x].key = k
    BY <1>1, <1>4 DEF ContentsMatch
  <2>2. PICK y \in Live : buckets'[x] = buckets[y]
    BY <1>2
  <2> QED BY <1>1, <2>1, <2>2 DEF ContentsMatch
<1> QED BY <1>4, <1>5 DEF Contents

\* A search that finds its key has found the dictionary's value.
LEMMA HitIsTheEntry ==
  ASSUME IInv, Hit
  PROVE  /\ index \in Live /\ index \in 0..capacity - 1 /\ is_occupied(buckets[index])
         /\ Live = Occupied /\ key \in Key /\ key \in Entries
         /\ Contents[key] = buckets[index].value
<1>1. index \in 0..capacity - 1 /\ key \in Key /\ pc = "probe" /\ buckets[index].key = key
  BY DEF IInv, WellFormed, TypeOK, Hit
<1>2. index \in Live /\ Live = Occupied /\ is_occupied(buckets[index])
  BY <1>1, KeyAssumption DEF Live, Occupied, is_occupied
<1> QED BY <1>1, <1>2, ContentsAreTheBuckets DEF ContentsMatch

LEMMA MissIsNoEntry ==
  ASSUME IInv, Miss
  PROVE  key \notin Entries /\ key \in Key /\ Live = Occupied
<1>1. Live = Occupied /\ key \in Key
  BY DEF Miss, Live, IInv, WellFormed, TypeOK
<1>2. \A x \in Live : x \in 0..capacity - 1
  BY <1>1 DEF Occupied
<1> QED BY <1>1, <1>2, MissMeansAbsent DEF Entries

\* A step that leaves the table alone leaves the dictionary alone.
LEMMA TableUnchanged ==
  ASSUME IInv, IInv', UNCHANGED <<buckets, capacity>>, pc # "shift", pc' # "shift"
  PROVE  Contents' = Contents
<1>1. Live' = Live
  BY DEF Live, Occupied
<1> QED BY <1>1, SameEntries

\* The value of one key is replaced, by the new one or by nothing that can be used.
LEMMA ValueStep ==
  ASSUME IInv, IInv', Hit, NEW v \in Value \cup {Freed},
         buckets' = [buckets EXCEPT ![index].value = v], UNCHANGED capacity, pc' # "shift"
  PROVE  Contents' = [Contents EXCEPT ![key] = v]
<1>1. /\ \A y \in 0..capacity - 1 :
           buckets'[y].key = buckets[y].key /\ (y # index => buckets'[y] = buckets[y])
      /\ buckets'[index].value = v
  BY HitIsTheEntry, ValueReplaced
<1>2. Live' = Live /\ \A x \in Live : x \in 0..capacity - 1
  BY <1>1, HitIsTheEntry DEF Hit, Live, Occupied, is_occupied
<1>3. Entries' = Entries
  BY <1>1, <1>2 DEF Entries
<1>4. ContentsMatch /\ ContentsMatch'
  BY ContentsAreTheBuckets, PTL
<1>5. ASSUME NEW k \in Entries
      PROVE  Contents'[k] = IF k = key THEN v ELSE Contents[k]
  <2>1. PICK x \in Live : buckets[x].key = k
    BY <1>4 DEF ContentsMatch
  <2>2. Contents'[k] = buckets'[x].value /\ Contents[k] = buckets[x].value
    BY <1>1, <1>2, <1>4, <2>1 DEF ContentsMatch
  <2>3. k = key <=> x = index
    BY <2>1, HitIsTheEntry DEF Hit, IInv, WellFormed, OneBucketPerKey
  <2> QED BY <1>1, <1>2, <2>2, <2>3
<1>6. Contents \in [Entries -> {Contents[k] : k \in Entries}]
  BY DEF Contents
<1>7. Contents' = [k \in Entries |-> IF k = key THEN v ELSE Contents[k]]
  <2>1. Contents' = [k \in Entries |-> Contents'[k]]
    BY <1>3 DEF Contents
  <2> QED BY <1>5, <2>1
<1> QED BY <1>6, <1>7

LEMMA RefinesInit == Init => D!Init
<1> SUFFICES ASSUME Init PROVE D!Init
  OBVIOUS
<1>1. Live = {}
  BY CapacityAssumption DEF Init, Live, Occupied, EmptyTable, Empty, is_occupied
<1>2. Entries = {}
  BY <1>1 DEF Entries
<1>3. Contents = [k \in {} |-> Freed]
  BY <1>2 DEF Contents
<1> QED BY <1>3 DEF Init, D!Init, D!Answer, Answer

\* map_insert.
LEMMA InsertRefines ==
  ASSUME IInv, IInv', InsertHit \/ InsertMiss
  PROVE  D!Insert(key, value) \/ D!InsertFails(key, value)
<1>1. CASE InsertHit
  <2>1. Hit /\ buckets[index].value # Freed /\ value \in Value
    BY <1>1 DEF InsertHit, IInv, WellFormed, TypeOK
  <2>2. key \in Entries /\ Contents[key] # Freed /\ DOMAIN Contents = Entries
    BY <2>1, HitIsTheEntry DEF Contents
  <2>3. ASSUME buckets' = [buckets EXCEPT ![index].value = value],
               Return(Answer("insert", key, TRUE, value))
        PROVE  D!Insert(key, value)
    <3>1. Contents' = [Contents EXCEPT ![key] = value]
      BY <2>1, <2>3, ValueStep DEF Return
    <3>2. Contents' = [x \in Entries \cup {key} |-> IF x = key THEN value ELSE Contents[x]]
      <4>1. Entries \cup {key} = Entries
        BY <2>2
      <4>2. Contents = [x \in Entries |-> Contents[x]]
        BY DEF Contents
      <4> QED BY <3>1, <4>1, <4>2
    <3> QED BY <2>2, <2>3, <3>2 DEF D!Insert, D!Answer, Answer, Return
  <2>4. ASSUME buckets' = [buckets EXCEPT ![index].value = Freed],
               Return(Answer("insert", key, FALSE, value))
        PROVE  D!InsertFails(key, value)
    <3>1. Contents' = [Contents EXCEPT ![key] = Freed]
      BY <2>1, <2>4, ValueStep DEF Return
    <3> QED BY <2>2, <2>4, <3>1 DEF D!InsertFails, D!Answer, Answer, Return
  <2> QED BY <1>1, <2>3, <2>4 DEF InsertHit
<1>2. CASE InsertMiss
  <2>1. Miss /\ index \in 0..capacity - 1 /\ pc = "probe"
    BY <1>2 DEF InsertMiss, Miss, IInv, WellFormed, TypeOK
  <2>2. key \notin Entries /\ key \in Key /\ DOMAIN Contents = Entries /\ Live = Occupied
    BY <2>1, MissIsNoEntry DEF Contents
  <2>3. ASSUME UNCHANGED buckets, Return(Answer("insert", key, FALSE, value))
        PROVE  D!InsertFails(key, value)
    <3>1. Contents' = Contents
      BY <2>1, <2>3, TableUnchanged DEF Return
    <3> QED BY <2>3, <3>1 DEF D!InsertFails, D!Answer, Answer, Return
  <2>4. ASSUME buckets' = [buckets EXCEPT ![index] = [key |-> key, value |-> value]],
               Return(Answer("insert", key, TRUE, value))
        PROVE  D!Insert(key, value)
    <3>1. /\ buckets'[index] = [key |-> key, value |-> value]
          /\ \A x \in 0..capacity - 1 : x # index => buckets'[x] = buckets[x]
          /\ is_occupied(buckets'[index]) /\ ~ is_occupied(buckets[index])
          /\ UNCHANGED capacity /\ pc' = "idle"
      BY <2>1, <2>2, <2>4, KeyAssumption
         DEF IInv, WellFormed, TypeOK, Return, Miss, is_occupied
    <3>2. Live' = Live \cup {index} /\ \A x \in Live : x # index /\ buckets'[x] = buckets[x]
      BY <2>1, <2>2, <3>1 DEF Live, Occupied
    <3>3. Entries' = Entries \cup {key}
      BY <3>1, <3>2 DEF Entries
    <3>4. ContentsMatch /\ ContentsMatch'
      BY ContentsAreTheBuckets, PTL
    <3>5. ASSUME NEW k \in Entries \cup {key}
          PROVE  Contents'[k] = IF k = key THEN value ELSE Contents[k]
      <4>1. CASE k = key
        BY <3>1, <3>2, <3>4, <4>1 DEF ContentsMatch
      <4>2. CASE k # key
        <5>1. PICK x \in Live : buckets[x].key = k
          BY <3>4, <4>2 DEF ContentsMatch
        <5> QED BY <3>2, <3>4, <4>2, <5>1 DEF ContentsMatch
      <4> QED BY <4>1, <4>2
    <3>6. Contents' = [k \in Entries \cup {key} |-> IF k = key THEN value ELSE Contents[k]]
      <4>1. Contents' = [k \in Entries \cup {key} |-> Contents'[k]]
        BY <3>3 DEF Contents
      <4> QED BY <3>5, <4>1
    <3> QED BY <2>2, <2>4, <3>6 DEF D!Insert, D!Answer, Answer, Return
  <2> QED BY <1>2, <2>3, <2>4 DEF InsertMiss
<1> QED BY <1>1, <1>2

\* map_get, and map_remove of a key that is not there.
LEMMA AnswerRefines ==
  ASSUME IInv, IInv', GetHit \/ NotFound
  PROVE  D!Get(key) \/ D!Remove(key)
<1>0. DOMAIN Contents = Entries /\ op \in {"get", "remove"}
  BY DEF Contents, GetHit, NotFound
<1>1. Contents' = Contents
  BY TableUnchanged DEF GetHit, NotFound, Hit, Miss, Return
<1>2. CASE GetHit
  <2>1. key \in Entries /\ Contents[key] = buckets[index].value
    BY <1>2, HitIsTheEntry DEF GetHit
  <2> QED BY <1>0, <1>1, <1>2, <2>1 DEF GetHit, Return, D!Get, D!Answer, Answer
<1>3. CASE NotFound
  <2>1. key \notin Entries
    BY <1>3, MissIsNoEntry DEF NotFound
  <2>2. Contents = [x \in Entries \ {key} |-> Contents[x]]
    BY <2>1 DEF Contents
  <2>3. reply' = Answer(op, key, FALSE, Freed) /\ key \notin DOMAIN Contents
    BY <1>0, <1>3, <2>1 DEF NotFound, Return
  <2>4. CASE op = "get"
    BY <1>1, <2>3, <2>4 DEF D!Get, D!Answer, Answer
  <2>5. CASE op = "remove"
    <3>1. (key \in DOMAIN Contents) = FALSE
      BY <2>3
    <3>2. reply' = D!Answer("remove", key, key \in DOMAIN Contents, Freed)
      BY <2>3, <2>5, <3>1, Zenon DEF D!Answer, Answer
    <3>3. Contents' = [x \in DOMAIN Contents \ {key} |-> Contents[x]]
      BY <1>0, <1>1, <2>2
    <3> QED BY <2>3, <3>2, <3>3 DEF D!Remove
  <2> QED BY <1>0, <2>4, <2>5
<1> QED BY <1>2, <1>3

\* map_remove: the key is gone from the dictionary before the gap is closed.
LEMMA RemoveRefines ==
  ASSUME IInv, IInv', RemoveHit
  PROVE  D!Remove(key)
<1>1. /\ Live' = Live \ {index} /\ UNCHANGED buckets
      /\ reply' = Answer("remove", key, TRUE, Freed)
      /\ buckets[index].value # Freed /\ buckets[index].key = key
  BY RemoveHitStep DEF RemoveHit, Hit
<1>2. index \in Live /\ key \in Entries /\ Contents[key] # Freed /\ DOMAIN Contents = Entries
  BY <1>1, HitIsTheEntry DEF RemoveHit, Contents
<1>3. Entries' = Entries \ {key}
  BY <1>1, <1>2 DEF Entries, IInv, WellFormed, OneBucketPerKey
<1>4. ContentsMatch /\ ContentsMatch'
  BY ContentsAreTheBuckets, PTL
<1>5. ASSUME NEW k \in Entries \ {key}
      PROVE  Contents'[k] = Contents[k]
  <2>1. PICK x \in Live : buckets[x].key = k
    BY <1>4 DEF ContentsMatch
  <2>2. x \in Live'
    BY <1>1, <2>1
  <2> QED BY <1>1, <1>4, <2>1, <2>2 DEF ContentsMatch
<1>6. Contents' = [k \in Entries \ {key} |-> Contents[k]]
  <2>1. Contents' = [k \in Entries \ {key} |-> Contents'[k]]
    BY <1>3 DEF Contents
  <2> QED BY <1>5, <2>1
<1> QED BY <1>1, <1>2, <1>6 DEF D!Remove, D!Answer, Answer

LEMMA AbortRefines ==
  ASSUME IInv, IInv', DoubleFree
  PROVE  D!Abort
<1>1. Contents' = Contents
  BY TableUnchanged DEF DoubleFree, Hit
<1>2. key \in DOMAIN Contents /\ Contents[key] = Freed
  BY HitIsTheEntry DEF DoubleFree, Contents
<1> QED BY <1>1, <1>2 DEF DoubleFree, D!Abort, D!Answer, Answer

\* Every step is a step of the dictionary or leaves it and the answer as they are.
LEMMA RefinesStep ==
  ASSUME IInv, IInv', [Next]_vars
  PROVE  [D!Next]_<<Contents, reply>>
<1>1. CASE UNCHANGED vars
  <2>1. Live' = Live /\ UNCHANGED <<buckets, reply>>
    BY <1>1 DEF vars, cursor, Live, Occupied
  <2> QED BY <2>1, SameEntries
<1>2. CASE Begin
  <2>1. UNCHANGED <<buckets, capacity>> /\ pc # "shift" /\ pc' # "shift"
    BY <1>2 DEF Begin, InsertCall, Call, Return
  <2>2. Contents' = Contents
    BY <2>1, TableUnchanged
  <2>3. CASE UNCHANGED reply
    BY <2>2, <2>3
  <2>4. CASE \E k \in Key, v \in Value : reply' = Answer("insert", k, FALSE, v)
    BY <2>2, <2>4 DEF D!Next, D!InsertFails, D!Answer, Answer
  <2> QED BY <1>2, <2>3, <2>4 DEF Begin, InsertCall, Call, Return
<1>3. CASE Rehash \/ Probe
  <2>1. UNCHANGED <<buckets, capacity, reply>> /\ pc # "shift" /\ pc' # "shift"
    BY <1>3 DEF Rehash, Probe
  <2> QED BY <2>1, TableUnchanged
<1>4. CASE Resized \/ Shift \/ Removed
  <2>1. UNCHANGED reply
    BY <1>4 DEF Resized, Shift, Removed, Return
  <2>2. {buckets'[x] : x \in Live'} = {buckets[x] : x \in Live}
    BY <1>4, ResizedStep, ShiftStep, RemovedStep
  <2> QED BY <2>1, <2>2, SameEntries
<1>5. CASE InsertHit \/ InsertMiss
  <2>1. key \in Key /\ value \in Value
    BY <1>5 DEF InsertHit, InsertMiss, Hit, Miss, IInv, WellFormed, TypeOK
  <2> QED BY <1>5, <2>1, InsertRefines DEF D!Next
<1>6. CASE GetHit \/ NotFound \/ RemoveHit
  <2>1. key \in Key
    BY <1>6 DEF GetHit, NotFound, RemoveHit, Hit, Miss, IInv, WellFormed, TypeOK
  <2> QED BY <1>6, <2>1, AnswerRefines, RemoveRefines DEF D!Next
<1>7. CASE DoubleFree
  BY <1>7, AbortRefines DEF D!Next
<1> QED BY <1>1, <1>2, <1>3, <1>4, <1>5, <1>6, <1>7 DEF Next, Step

\* The hash table answers every call as a dictionary does, however its keys collide,
\* while it grows and when entries are moved to close a gap.
THEOREM AnswersAsADictionary == Spec => ImplementsDictionary
<1>1. Init => D!Init
  BY RefinesInit
<1>2. IInv /\ IInv' /\ [Next]_vars => [D!Next]_<<Contents, reply>>
  BY RefinesStep
<1> QED BY <1>1, <1>2, Invariance, PTL DEF Spec, ImplementsDictionary, D!Spec

=============================================================================
