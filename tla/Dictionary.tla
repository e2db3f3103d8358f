----------------------------- MODULE Dictionary -----------------------------
(***************************************************************************)
(* What the callers of map.c rely on: a partial function from keys to       *)
(* values, and the answer of the last call.                                 *)
(***************************************************************************)
CONSTANTS Key, Value,
          Freed     \* the value of a key whose memory a failed insert gave back

VARIABLES dict, reply

Answer(op, key, ok, value) == [op |-> op, key |-> key, ok |-> ok, value |-> value]

Init == /\ dict = [k \in {} |-> Freed]
        /\ reply = Answer("none", Freed, TRUE, Freed)

Insert(k, v) ==
  /\ k \in DOMAIN dict => dict[k] # Freed
  /\ dict' = [x \in DOMAIN dict \cup {k} |-> IF x = k THEN v ELSE dict[x]]
  /\ reply' = Answer("insert", k, TRUE, v)

\* Out of memory: no other key is touched, but a value that was to be replaced may
\* already be gone.
InsertFails(k, v) ==
  /\ \/ UNCHANGED dict
     \/ /\ k \in DOMAIN dict
        /\ dict[k] # Freed
        /\ dict' = [dict EXCEPT ![k] = Freed]
  /\ reply' = Answer("insert", k, FALSE, v)

Get(k) ==
  /\ reply' = IF k \in DOMAIN dict THEN Answer("get", k, TRUE, dict[k])
                                   ELSE Answer("get", k, FALSE, Freed)
  /\ UNCHANGED dict

Remove(k) ==
  /\ k \in DOMAIN dict => dict[k] # Freed
  /\ dict' = [x \in DOMAIN dict \ {k} |-> dict[x]]
  /\ reply' = Answer("remove", k, k \in DOMAIN dict, Freed)

\* Freeing a value a second time ends the program.
Abort ==
  /\ \E k \in DOMAIN dict : dict[k] = Freed
  /\ reply' = Answer("abort", Freed, FALSE, Freed)
  /\ UNCHANGED dict

Next == \/ \E k \in Key, v \in Value : Insert(k, v) \/ InsertFails(k, v)
        \/ \E k \in Key : Get(k) \/ Remove(k)
        \/ Abort

Spec == Init /\ [][Next]_<<dict, reply>>
=============================================================================
