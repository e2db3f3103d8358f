----------------------------- MODULE MCHashMap -----------------------------
(* Three keys: the table grows from 2 to 8 buckets. The hash values make the *)
(* keys collide, or not, and probe around the end of a table of each size.   *)
EXTENDS HashMap

CONSTANTS k1, k2, k3
MCKey == {k1, k2, k3}
MCHashValue == {0, 3, 7}
=============================================================================
