--------------------------- MODULE PostgresStore ---------------------------
(***************************************************************************)
(* Get of postgres_time_traversal, over a table of rows [key, block, val],  *)
(* at most one for a key and block (the primary key).  The operator gives  *)
(* the set of answers a call may give; an error is the empty set.          *)
(***************************************************************************)
EXTENDS Naturals, Sequences, SequencesExt

CONSTANT MaxInt64

\* database/sql converts the arguments of a statement before it runs it, and
\* refuses a uint64 with the high bit set.
Convertible(n) == n <= MaxInt64

-----------------------------------------------------------------------------
\* Mutant of DistinctOn: the oldest row of a key comes first.
DistinctOldest(rows, keys, B) ==
    LET selected == {r \in rows : r.key \in Range(keys) /\ r.block <= B}
    IN  {r \in selected : \A s \in selected : s.key = r.key => r.block <= s.block}

\* distinct on (key) ... where key = any and block_number <= B
\* order by key, block_number desc
DistinctOn(rows, keys, B) ==
    LET selected == {r \in rows : r.key \in Range(keys) /\ r.block <= B}
    IN  {r \in selected : \A s \in selected : s.key = r.key => s.block <= r.block}

\* One set of values found per key.  rows.Err is not looked at after the loop: when the
\* connection breaks while rows are read, the answer is made from those that came.
GetAtBlock(rows, keys, B) ==
    IF Convertible(B)
    THEN {[i \in DOMAIN keys |-> {r.val : r \in {r \in came : r.key = keys[i]}}] :
              came \in SUBSET DistinctOn(rows, keys, B)}
    ELSE {}
=============================================================================
