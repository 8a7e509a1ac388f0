------------------------------ MODULE Backend ------------------------------
(***************************************************************************)
(* The wrapped store: badger (latest value of a key, stamped with a block  *)
(* number) and badger_time_traversal (one version per key and block).      *)
(*                                                                         *)
(* A database is a set of versions [key, block, val].  A lookup returns    *)
(* the set of values found: {} is NOT_FOUND, {v} is FOUND with value v.    *)
(* A batch of entries is a function from its keys to its values: when a    *)
(* batch names a key twice both loops keep the last value.                 *)
(*                                                                         *)
(* Keys are opaque.  The two facts about their bytes that the code depends *)
(* on are constants: which keys start with the bytes of a key, and how the *)
(* versions of keys sort.  TimeTravelKeys derives both from the bytes.  The *)
(* byte after a key's own bytes is taken to be below 0xFF, so that an      *)
(* extension sorts before every version of the key it extends.             *)
(***************************************************************************)
EXTENDS Naturals, Functions

CONSTANTS
    Keys,
    Values,
    TimeTraversal, \* TRUE: badger_time_traversal, FALSE: badger
    Extensions,    \* keys whose bytes start with those of a key, itself included
    Rank           \* position of the versions of a key in the database

ASSUME BackendAssumption ==
    /\ TimeTraversal \in BOOLEAN
    /\ Extensions \in [Keys -> SUBSET Keys]
    /\ \A k \in Keys : k \in Extensions[k]
    /\ Rank \in [Keys -> Nat]

Version == [key : Keys, block : Nat, val : Values]

-----------------------------------------------------------------------------
(* Reads *)

\* The version Get finds: the newest one not above the requested block.  The
\* plain store has a single version per key and hides it when it is newer.
Newest(db, k, B) ==
    {t \in db : /\ t.key = k
                /\ t.block <= B
                /\ \A u \in db : u.key = k /\ u.block <= B => u.block <= t.block}

WrappedGet(db, k, B) == {t.val : t \in Newest(db, k, B)}

\* badger_time_traversal: one reverse seek under the bytes of k.  It lands on
\* the oldest version of k; when k has none, on the oldest version of the last
\* key that extends k.  The requested block plays no part.
Oldest(db, k) ==
    LET Under == {t \in db : t.key \in Extensions[k]}
        Last  == {t \in Under : \A u \in Under :
                     t.key = k \/ (u.key # k /\ Rank[u.key] <= Rank[t.key])}
    IN  {t \in Last : \A u \in Last : u.key = t.key => t.block <= u.block}

WrappedGetFirst(db, k, B) ==
    IF TimeTraversal THEN {t.val : t \in Oldest(db, k)} ELSE WrappedGet(db, k, B)

\* The existence test of an IfNotExist write: an exact lookup in the plain
\* store, a prefix scan over composite keys in the time traversal store.
Exists(db, k) ==
    \E t \in db : IF TimeTraversal THEN t.key \in Extensions[k] ELSE t.key = k

-----------------------------------------------------------------------------
(* Writes *)

\* Mutant of Put: the time traversal store keeps one version per key.
PutLatest(db, batch, n) ==
    {t \in db : t.key \notin DOMAIN batch}
        \cup {[key |-> k, block |-> n, val |-> batch[k]] : k \in DOMAIN batch}

\* Store the batch at block n: a version with the same database key is replaced.
Put(db, batch, n) ==
    {t \in db : t.key \in DOMAIN batch => TimeTraversal /\ t.block # n}
        \cup {[key |-> k, block |-> n, val |-> batch[k]] : k \in DOMAIN batch}

\* The entries that pass the existence test, made against the database as it
\* was before the batch.
Admitted(db, batch, ifNotExist) ==
    Restrict(batch, {k \in DOMAIN batch : ifNotExist => ~Exists(db, k)})

WrappedSetAll(db, batch, ifNotExist, n) ==
    Put(db, Admitted(db, batch, ifNotExist), n)

\* A batch that ends in an error, or in a crash, may have been written in part:
\* WriteBatch commits in several transactions.
PartialSetAll(db, batch, ifNotExist, n) ==
    LET admitted == Admitted(db, batch, ifNotExist)
    IN  {Put(db, Restrict(admitted, D), n) : D \in SUBSET DOMAIN admitted}
=============================================================================
