------------------------------- MODULE HashMap -------------------------------
(***************************************************************************)
(* map.c: an open-addressing hash table with linear probing, doubling when  *)
(* it is half full and closing gaps by moving entries back on removal. One  *)
(* step is one turn of the loop the code is in. The table implements        *)
(* Dictionary.                                                              *)
(***************************************************************************)
EXTENDS Integers, FiniteSets

CONSTANTS
  Key, Value,
  None,         \* no key: an unoccupied bucket
  Freed,        \* a value whose memory has been given back
  HashValue,    \* what wyhash can return
  MAP_INITIAL_CAPACITY

ASSUME KeyAssumption == None \notin Key /\ Freed \notin Value /\ None \notin Value
ASSUME HashAssumption == HashValue \subseteq Nat
ASSUME CapacityAssumption == MAP_INITIAL_CAPACITY = 2

VARIABLES
  hash,         \* wyhash: some function of the key, the same for the whole run
  buckets, capacity, size,
  pc,           \* the loop the running call is in
  op, key, value,           \* the call
  index, next,              \* the bucket looked at; map_remove: the one behind it
  new_buckets, i,           \* resize_map: the table being filled, and the next
                            \* old bucket to move
  reply         \* what the last call answered

call == <<op, key, value>>
cursor == <<index, next>>
resize == <<new_buckets, i>>
vars == <<hash, buckets, capacity, size, pc, call, cursor, resize, reply>>

Answer(o, k, ok, v) == [op |-> o, key |-> k, ok |-> ok, value |-> v]
Empty == [key |-> None, value |-> None]
is_occupied(b) == b.key # None
EmptyTable(n) == [x \in 0..n - 1 |-> Empty]
Occupied == {x \in 0..capacity - 1 : is_occupied(buckets[x])}

\* How far bucket b is behind bucket a, going up and around in n buckets.
Distance(a, b, n) == IF a <= b THEN b - a ELSE b + n - a

Following(x) == (x + 1) % capacity

\* Mutant: the table grows when it has no bucket left.
HalfFullAtEnd == size >= capacity

HalfFull == size >= capacity \div 2

-----------------------------------------------------------------------------
\* create_map
Init ==
  /\ hash \in [Key -> HashValue]
  /\ capacity = MAP_INITIAL_CAPACITY
  /\ buckets = EmptyTable(capacity)
  /\ size = 0
  /\ pc = "idle"
  /\ op = "none" /\ key = None /\ value = None
  /\ index = 0 /\ next = 0
  /\ new_buckets = EmptyTable(0) /\ i = 0
  /\ reply = Answer("none", Freed, TRUE, Freed)

Call(o, k, v) ==
  /\ pc = "idle"
  /\ op' = o /\ key' = k /\ value' = v
  /\ index' = hash[k] % capacity
  /\ pc' = "probe"
  /\ UNCHANGED <<hash, buckets, capacity, size, next, resize, reply>>

\* A call is over, its locals are gone.
Return(answer) ==
  /\ reply' = answer
  /\ pc' = "idle"
  /\ op' = "none" /\ key' = None /\ value' = None
  /\ index' = 0 /\ next' = 0
  /\ UNCHANGED <<hash, capacity, resize>>

\* map_insert looks at the load first, also when the key is already there; without
\* memory for a larger table it gives up.
InsertCall(k, v) ==
  IF ~ HalfFull THEN Call("insert", k, v)
  ELSE /\ pc = "idle"
       /\ \/ /\ op' = "insert" /\ key' = k /\ value' = v
             /\ pc' = "resize"
             /\ new_buckets' = EmptyTable(2 * capacity)
             /\ i' = 0
             /\ UNCHANGED <<hash, capacity, cursor, reply>>
          \/ Return(Answer("insert", k, FALSE, v))
       /\ UNCHANGED <<buckets, size>>

\* resize_map, one bucket: the entry goes to the first bucket that is free from its
\* home bucket on.
Rehash ==
  /\ pc = "resize"
  /\ i < capacity
  /\ i' = i + 1
  /\ IF is_occupied(buckets[i])
     THEN LET n == 2 * capacity
              home == hash[buckets[i].key] % n
          IN  \E x \in 0..n - 1 :
                /\ ~ is_occupied(new_buckets[x])
                /\ \A y \in 0..n - 1 : Distance(home, y, n) < Distance(home, x, n) =>
                                         is_occupied(new_buckets[y])
                /\ new_buckets' = [new_buckets EXCEPT ![x] = buckets[i]]
     ELSE UNCHANGED new_buckets
  /\ UNCHANGED <<hash, buckets, capacity, size, pc, call, cursor, reply>>

Resized ==
  /\ pc = "resize"
  /\ i = capacity
  /\ buckets' = new_buckets
  /\ capacity' = 2 * capacity
  /\ index' = hash[key] % capacity'
  /\ new_buckets' = EmptyTable(0) /\ i' = 0
  /\ pc' = "probe"
  /\ UNCHANGED <<hash, size, call, next, reply>>

\* The loop of the three operations: another key is in this bucket.
Probe ==
  /\ pc = "probe"
  /\ is_occupied(buckets[index])
  /\ buckets[index].key # key
  /\ index' = Following(index)
  /\ UNCHANGED <<hash, buckets, capacity, size, pc, call, next, resize, reply>>

Hit == pc = "probe" /\ buckets[index].key = key
Miss == pc = "probe" /\ ~ is_occupied(buckets[index])

\* map_insert frees the old value, then asks for memory for the new one.
InsertHit ==
  /\ op = "insert" /\ Hit /\ buckets[index].value # Freed
  /\ \/ /\ buckets' = [buckets EXCEPT ![index].value = value]
        /\ Return(Answer("insert", key, TRUE, value))
     \/ /\ buckets' = [buckets EXCEPT ![index].value = Freed]
        /\ Return(Answer("insert", key, FALSE, value))
  /\ UNCHANGED size

\* A new entry, or no memory for one.
InsertMiss ==
  /\ op = "insert" /\ Miss
  /\ \/ /\ buckets' = [buckets EXCEPT ![index] = [key |-> key, value |-> value]]
        /\ size' = size + 1
        /\ Return(Answer("insert", key, TRUE, value))
     \/ /\ Return(Answer("insert", key, FALSE, value))
        /\ UNCHANGED <<buckets, size>>

GetHit ==
  /\ op = "get" /\ Hit
  /\ Return(Answer("get", key, TRUE, buckets[index].value))
  /\ UNCHANGED <<buckets, size>>

\* map_get and map_remove
NotFound ==
  /\ op \in {"get", "remove"} /\ Miss
  /\ Return(Answer(op, key, FALSE, Freed))
  /\ UNCHANGED <<buckets, size>>

\* The entry is freed; its bucket stays marked as occupied until the gap is closed.
RemoveHit ==
  /\ op = "remove" /\ Hit /\ buckets[index].value # Freed
  /\ next' = Following(index)
  /\ reply' = Answer("remove", key, TRUE, Freed)
  /\ pc' = "shift"
  /\ UNCHANGED <<hash, buckets, capacity, size, call, index, resize>>

\* Mutants: a gap before the end of the table is not closed from its start; an
\* entry at home in the gap stays.
MayMoveAhead(ideal_pos) == index < next /\ (ideal_pos <= index \/ ideal_pos > next)
MayMoveStrictly(ideal_pos) ==
  \/ index < next /\ (ideal_pos < index \/ ideal_pos > next)
  \/ index > next /\ (ideal_pos < index /\ ideal_pos > next)

\* The entry behind may move back to the gap unless its home lies after the gap.
MayMove(ideal_pos) ==
  \/ index < next /\ (ideal_pos <= index \/ ideal_pos > next)
  \/ index > next /\ (ideal_pos <= index /\ ideal_pos > next)

Shift ==
  /\ pc = "shift"
  /\ is_occupied(buckets[next])
  /\ next' = Following(next)
  /\ IF MayMove(hash[buckets[next].key] % capacity)
     THEN /\ buckets' = [buckets EXCEPT ![index] = buckets[next]]
          /\ index' = next
     ELSE UNCHANGED <<buckets, index>>
  /\ UNCHANGED <<hash, capacity, size, pc, call, resize, reply>>

Removed ==
  /\ pc = "shift"
  /\ ~ is_occupied(buckets[next])
  /\ buckets' = [buckets EXCEPT ![index] = Empty]
  /\ size' = size - 1
  /\ Return(reply)

\* The value of a key whose overwrite failed is freed once more.
DoubleFree ==
  /\ op \in {"insert", "remove"} /\ Hit /\ buckets[index].value = Freed
  /\ pc' = "aborted"
  /\ reply' = Answer("abort", Freed, FALSE, Freed)
  /\ UNCHANGED <<hash, buckets, capacity, size, call, cursor, resize>>

Begin == \/ \E k \in Key, v \in Value : InsertCall(k, v)
         \/ \E k \in Key, o \in {"get", "remove"} : Call(o, k, None)

Step == \/ Rehash \/ Resized \/ Probe \/ InsertHit \/ InsertMiss \/ GetHit
        \/ NotFound \/ RemoveHit \/ Shift \/ Removed \/ DoubleFree

Next == Begin \/ Step

\* A call that has begun runs on: the map is used by one thread, under its mutex.
Spec == Init /\ [][Next]_vars /\ WF_vars(Step)

-----------------------------------------------------------------------------
Bucket == [key : Key, value : Value \cup {Freed}] \cup {Empty}

TypeOK ==
  /\ hash \in [Key -> HashValue]
  /\ capacity \in Nat \ {0}
  /\ buckets \in [0..capacity - 1 -> Bucket]
  /\ size \in Nat
  /\ pc \in {"idle", "resize", "probe", "shift", "aborted"}
  /\ op \in {"none", "insert", "get", "remove"}
  /\ pc # "idle" => op # "none" /\ key \in Key
  /\ op = "insert" => value \in Value
  /\ index \in 0..capacity - 1 /\ next \in 0..capacity - 1
  /\ i \in 0..capacity
  /\ pc = "resize" => new_buckets \in [0..2 * capacity - 1 -> Bucket]

\* size counts the occupied buckets and at least half of the table is free, in every
\* step of every call: each probing loop meets an unoccupied bucket and stops.
HalfFree ==
  /\ size = Cardinality(Occupied)
  /\ 2 * size <= capacity

\* The buckets that hold an entry: not the gap map_remove is closing.
Live == IF pc = "shift" THEN Occupied \ {index} ELSE Occupied

\* No bucket between an entry's home bucket and the entry is unoccupied, so probing
\* from its home finds it.
Reachable ==
  \A x \in Live :
    LET home == hash[buckets[x].key] % capacity
    IN  \A y \in 0..capacity - 1 :
          Distance(home, y, capacity) < Distance(home, x, capacity) =>
            is_occupied(buckets[y])

\* A key is in one bucket only.
OneBucketPerKey ==
  \A x, y \in Live : buckets[x].key = buckets[y].key => x = y

\* In every step of every call, in the middle of growth and of closing a gap, the table
\* is one map_get can search: probing ends, finds every entry, and one entry per key.
WellFormed == TypeOK /\ HalfFree /\ Reachable /\ OneBucketPerKey

\* The entries of the table are the dictionary, the answers are the dictionary's.
Entries == {buckets[x].key : x \in Live}
Contents == [k \in Entries |-> buckets[CHOOSE x \in Live : buckets[x].key = k].value]
D == INSTANCE Dictionary WITH dict <- Contents

\* The table answers every call as a dictionary would, through growth and removal.
ImplementsDictionary == D!Spec

\* Every call ends.
CallsReturn == pc \in {"resize", "probe", "shift"} ~> pc \in {"idle", "aborted"}
=============================================================================
