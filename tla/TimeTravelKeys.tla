-------------------------- MODULE TimeTravelKeys --------------------------
(***************************************************************************)
(* badger_time_traversal on bytes: what Backend takes as given of composite *)
(* keys, sorting and seeking.                                              *)
(*                                                                         *)
(* The database is an ordered map from composite keys to values.  A        *)
(* composite key is the bytes of a key followed by the reversed block      *)
(* number, Width digits of base Radix, big-endian: 8 and 256 in the code.  *)
(***************************************************************************)
EXTENDS Naturals, Sequences, FiniteSets, SequencesExt, Functions

CONSTANTS
    Radix,    \* values of a byte
    Width,    \* bytes of a block number
    Names,    \* keys, as sequences of bytes
    Values,
    Batches,  \* sequences of entries a SetAll may be given
    MaxBlock  \* bound on block numbers

Byte == 0 .. Radix - 1
Top == Radix - 1

\* Radix ^ i
Power[i \in 0 .. Width] == IF i = 0 THEN 1 ELSE Radix * Power[i - 1]

MaxUint == Power[Width] - 1

ASSUME TimeTravelKeysAssumption ==
    /\ Radix \in Nat \ {0, 1} /\ Width \in Nat \ {0}
    /\ Names \subseteq Seq(Byte)
    /\ Batches \subseteq Seq([key : Names, val : Values])
    /\ MaxBlock \in 0 .. MaxUint

VARIABLE disk \* composite key -> value

-----------------------------------------------------------------------------
(* Bytes *)

BigEndian(n) == [i \in 1 .. Width |-> (n \div Power[Width - i]) % Radix]

makeTimeTraversalKey(key, n) == key \o BigEndian(MaxUint - n)

\* bytes.Compare(a, b) == -1
Less(a, b) ==
    \/ IsStrictPrefix(a, b)
    \/ \E i \in DOMAIN a \cap DOMAIN b :
           a[i] < b[i] /\ \A j \in 1 .. i - 1 : a[j] = b[j]

\* Where an iterator over the database lands: at the first item not below
\* start, or, in reverse, at the last one not above it.
Seek(start) ==
    {c \in DOMAIN disk : /\ ~ Less(c, start)
                         /\ \A d \in DOMAIN disk : Less(d, start) \/ ~ Less(d, c)}

SeekReverse(start) ==
    {c \in DOMAIN disk : /\ ~ Less(start, c)
                         /\ \A d \in DOMAIN disk : Less(start, d) \/ ~ Less(c, d)}

\* badger's Set of one composite key.
Stored(d, c, val) == [x \in DOMAIN d \cup {c} |-> IF x = c THEN val ELSE d[x]]

-----------------------------------------------------------------------------
(* Operations *)

\* Mutant of Get: the end of the range is the version of block 0 itself.
GetAboveGenesis(key, B) ==
    LET start == makeTimeTraversalKey(key, B)
        end   == makeTimeTraversalKey(key, 0)
    IN  {disk[c] : c \in {c \in Seek(start) : Less(c, end)}}

\* {} is NOT_FOUND, {v} is FOUND with value v.
Get(key, B) ==
    LET start        == makeTimeTraversalKey(key, B)
        exclusiveEnd == Append(makeTimeTraversalKey(key, 0), 0)
    IN  {disk[c] : c \in {c \in Seek(start) : Less(c, exclusiveEnd)}}

\* Mutant of GetFirst: the bound of the range is the version of block 0 itself.
GetFirstAboveGenesis(key) ==
    LET begin == key \o [i \in 1 .. Width |-> 0]
        end   == key \o [i \in 1 .. Width |-> Top]
    IN  {disk[c] : c \in {c \in SeekReverse(end) : ~ Less(c, begin) /\ Less(c, end)}}

GetFirst(key) ==
    LET begin == key \o [i \in 1 .. Width |-> 0]
        end   == Append(key \o [i \in 1 .. Width |-> Top], 0)
    IN  {disk[c] : c \in {c \in SeekReverse(end) : ~ Less(c, begin) /\ Less(c, end)}}

\* The IfNotExist scan: Seek to the key's bytes, then ValidForPrefix.
Exists(key) == \E c \in Seek(key) : IsPrefix(key, c)

\* Mutant of Store: the scan sees the entries that come before in the batch.
StoreInTurn(entries, IfNotExist, n) ==
    FoldLeft(LAMBDA d, e :
                 IF IfNotExist /\ \E c \in DOMAIN d : IsPrefix(e.key, c) THEN d
                 ELSE Stored(d, makeTimeTraversalKey(e.key, n), e.val),
             disk, entries)

\* Mutant of Admitted: the scan is an exact lookup, as in the latest-value store.
AdmittedExactly(entries, IfNotExist) ==
    {i \in DOMAIN entries : IfNotExist => entries[i].key \notin DOMAIN disk}

\* The entries of a batch that pass the scan, made against the database as it was
\* before the batch.
Admitted(entries, IfNotExist) ==
    {i \in DOMAIN entries : IfNotExist => ~ Exists(entries[i].key)}

\* The loop over a batch when only the chosen entries reach the database: one
\* after the other, so that the last entry of a key wins.
Written(entries, chosen, n) ==
    LET after[i \in 0 .. Len(entries)] ==
            IF i = 0 THEN disk
            ELSE IF i \in chosen
                 THEN Stored(after[i - 1], makeTimeTraversalKey(entries[i].key, n), entries[i].val)
                 ELSE after[i - 1]
    IN  after[Len(entries)]

Store(entries, IfNotExist, n) == Written(entries, Admitted(entries, IfNotExist), n)

SetAll(entries, IfNotExist, n) == disk' = Store(entries, IfNotExist, n)

\* What may have been committed of a batch.
PartialStore(entries, IfNotExist, n) ==
    {Written(entries, committed, n) : committed \in SUBSET Admitted(entries, IfNotExist)}

\* An error, or a stop, after some entries of the batch were committed.
SetAllFails(entries, IfNotExist, n) == disk' \in PartialStore(entries, IfNotExist, n)

\* Mutant of Set: the value is stored under the key itself.
SetPlain(entry, IfNotExist, n) ==
    /\ ~ (IfNotExist /\ Exists(entry.key))
    /\ disk' = Stored(disk, entry.key, entry.val)

\* The same for a single entry, in a transaction of its own.
Set(entry, IfNotExist, n) ==
    /\ ~ (IfNotExist /\ Exists(entry.key))
    /\ disk' = Stored(disk, makeTimeTraversalKey(entry.key, n), entry.val)

Init == disk = <<>>

Next ==
    \E entries \in Batches, IfNotExist \in BOOLEAN, n \in 0 .. MaxBlock :
        \/ SetAll(entries, IfNotExist, n)
        \/ SetAllFails(entries, IfNotExist, n)
        \/ Len(entries) = 1 /\ Set(entries[1], IfNotExist, n)

Spec == Init /\ [][Next]_disk

-----------------------------------------------------------------------------
(* Against the versions of Backend *)

KeyOf(c) == SubSeq(c, 1, Len(c) - Width)
BlockOf(c) == CHOOSE n \in 0 .. MaxUint : c = makeTimeTraversalKey(KeyOf(c), n)

VersionsIn(d) == {[key |-> KeyOf(c), block |-> BlockOf(c), val |-> d[c]] : c \in DOMAIN d}
Versions == VersionsIn(disk)

Extensions == [key \in Names |-> {x \in Names : IsPrefix(key, x)}]

\* Keys in the order of their versions: an extension comes before what it extends.
Rank == [key \in Names |->
            Cardinality({x \in Names : Less(Append(x, Top), Append(key, Top))})]

V == INSTANCE Backend WITH Keys <- Names, TimeTraversal <- TRUE

\* A table that holds the same versions.
P == INSTANCE PostgresStore WITH MaxInt64 <- MaxUint \div 2

\* Composite keys of two keys do not interleave: the byte that follows a key in a
\* longer one is below Top, and block numbers, those asked for included, leave
\* the first byte of the reversed number at Top.
KeysApart ==
    /\ \A x, y \in Names : IsStrictPrefix(x, y) => y[Len(x) + 1] < Top
    /\ MaxBlock < Power[Width - 1]

\* Every entry under a composite key is a version: its key and block number can
\* be read back from the bytes.
TypeOK ==
    /\ \A c \in DOMAIN disk : \E key \in Names, n \in 0 .. MaxBlock : c = makeTimeTraversalKey(key, n)
    /\ \A t \in Versions : t.key \in Names /\ t.block \in 0 .. MaxBlock /\ t.val \in Values

\* The seek of Get lands on the newest version of its own key that is not above
\* the block, block 0 included, past every other key (getter.go:40-54).
GetsAgree ==
    KeysApart => \A key \in Names, B \in 0 .. MaxBlock :
                     Get(key, B) = V!WrappedGet(Versions, key, B)

HasVersion(key) == \E t \in Versions : t.key = key

\* GetFirst of a key that was stored finds the oldest of its values, block 0
\* included, past the versions of every longer key (getter.go:86, 107-135).
FirstsAgree ==
    KeysApart => \A key \in Names :
        LET own == {t \in Versions : t.key = key}
        IN  HasVersion(key) =>
                GetFirst(key) = {t.val : t \in {t \in own : \A u \in own : t.block <= u.block}}

\* A key that was never stored is not there for GetFirst, nor for an IfNotExist
\* write, whatever longer keys were stored (getter.go:86, setter.go:33, 90).
LongerKeysApart ==
    KeysApart => \A key \in Names : ~ HasVersion(key) => GetFirst(key) = {} /\ ~ Exists(key)

Batch(entries) ==
    [key \in {e.key : e \in Range(entries)} |->
        LET last == CHOOSE i \in DOMAIN entries :
                        /\ entries[i].key = key
                        /\ \A j \in i + 1 .. Len(entries) : entries[j].key # key
        IN  entries[last].val]

\* A SetAll on bytes, which looks up and writes one entry after the other, leaves
\* one version for each key of the batch, with the last value the batch has for
\* it, except that IfNotExist skips the keys stored before the batch.  Said of
\* batches in which the test finds no key by a longer one only (setter.go:80-133).
SetsAgree ==
    KeysApart => \A entries \in Batches, IfNotExist \in BOOLEAN, n \in 0 .. MaxBlock :
        LET batch   == Batch(entries)
            skipped == {key \in DOMAIN batch : IfNotExist /\ HasVersion(key)}
        IN  (\A key \in DOMAIN batch : IfNotExist /\ Exists(key) => HasVersion(key)) =>
                VersionsIn(Store(entries, IfNotExist, n))
                    = V!Put(Versions, Restrict(batch, DOMAIN batch \ skipped), n)

\* What a part of a batch may hold: of a key it names more than once, any value.
Selections(entries) ==
    {batch \in [{e.key : e \in Range(entries)} -> Values] :
        \A key \in DOMAIN batch : [key |-> key, val |-> batch[key]] \in Range(entries)}

\* Wherever a SetAll fails or is cut off, no version is lost: one may have been
\* replaced by the batch, at the batch's own block, and none at all under
\* IfNotExist; what is new is an entry of the batch (setter.go:80-133).
PartsAgree ==
    KeysApart => \A entries \in Batches, IfNotExist \in BOOLEAN, n \in 0 .. MaxBlock :
        \A d \in PartialStore(entries, IfNotExist, n) :
            LET after == VersionsIn(d)
            IN  /\ \A t \in Versions \ after :
                       /\ ~ IfNotExist /\ t.block = n
                       /\ \E u \in after : u.key = t.key /\ u.block = n
                /\ \A t \in after \ Versions :
                       t.block = n /\ [key |-> t.key, val |-> t.val] \in Range(entries)

\* Over a table of the same versions, Get of postgres_time_traversal finds what
\* badger_time_traversal finds, key by key, in the order asked; when rows were
\* lost on the way it may miss a value, and never gives another one
\* (getter.go:31-63).
PostgresAgrees ==
    \A key1, key2 \in Names, B \in 0 .. MaxUint :
        LET found   == <<V!WrappedGet(Versions, key1, B), V!WrappedGet(Versions, key2, B)>>
            answers == P!GetAtBlock(Versions, <<key1, key2>>, B)
        IN  /\ B <= MaxUint \div 2 => found \in answers
            /\ \A answer \in answers, i \in 1 .. 2 : answer[i] \subseteq found[i]
=============================================================================
