----------------------- MODULE ForkAwareStore_proofs -----------------------
(***************************************************************************)
(* What the fork-aware store promises on its own, under callers that never *)
(* go below the last flush, for any keys, any values, any bound on block   *)
(* numbers, and both badger stores: types and stamps whatever the flags,   *)
(* and, when all callers pass the same IfNotExist, that a flush is         *)
(* invisible to readers and that the store implements OverlayStore.        *)
(***************************************************************************)
EXTENDS ForkAwareStore, TLAPS

\* Every version is stamped at or below the last flush, so that a flush puts its
\* entries on top of what is there.
StampedBelow ==
    /\ flushUpToBlock \in 0..MaxBlock
    /\ \A t \in db : t.block <= flushUpToBlock

-----------------------------------------------------------------------------
(* What a write to the wrapped store does to lookups *)

\* A key of the batch is found with its new value, from the block it is put at on.
LEMMA PutFound ==
    ASSUME NEW d \in SUBSET Version, NEW batch, NEW n \in Nat, NEW k \in DOMAIN batch,
           \A t \in d : t.key = k => t.block <= n,
           NEW B \in Nat, n <= B
    PROVE  WrappedGet(Put(d, batch, n), k, B) = {batch[k]}
<1> DEFINE new == [key |-> k, block |-> n, val |-> batch[k]]
<1>0. new.key = k /\ new.block = n /\ new.val = batch[k]
  OBVIOUS
<1>1. new \in Put(d, batch, n)
  BY DEF Put
<1>2. ASSUME NEW t \in Put(d, batch, n), t.key = k
      PROVE  t = new \/ (t.block \in Nat /\ t.block < n)
  <2>1. CASE t \in d /\ (t.key \in DOMAIN batch => TimeTraversal /\ t.block # n)
    BY <1>2, <2>1 DEF Version
  <2>2. CASE t \in {[key |-> j, block |-> n, val |-> batch[j]] : j \in DOMAIN batch}
    BY <1>2, <2>2
  <2> QED
    BY <1>2, <2>1, <2>2 DEF Put
<1> HIDE DEF new
<1>3. Newest(Put(d, batch, n), k, B) = {new}
  <2>1. ASSUME NEW t \in Put(d, batch, n), t.key = k PROVE t.block <= n
    BY <1>0, <1>2, <2>1
  <2>2. new \in Newest(Put(d, batch, n), k, B)
    BY <1>0, <1>1, <2>1 DEF Newest
  <2>3. ASSUME NEW t \in Newest(Put(d, batch, n), k, B) PROVE t = new
    <3>1. t \in Put(d, batch, n) /\ t.key = k /\ n <= t.block
      BY <1>0, <1>1, <2>3 DEF Newest
    <3> QED
      BY <1>2, <3>1
  <2> QED
    BY <2>2, <2>3
<1> QED
  BY <1>0, <1>3 DEF WrappedGet

\* Any other key is found as before.
LEMMA PutElsewhere ==
    ASSUME NEW d, NEW batch, NEW n, NEW k, k \notin DOMAIN batch, NEW B
    PROVE  WrappedGet(Put(d, batch, n), k, B) = WrappedGet(d, k, B)
<1>1. \A t : t.key = k => (t \in Put(d, batch, n) <=> t \in d)
  BY DEF Put
<1>2. Newest(Put(d, batch, n), k, B) = Newest(d, k, B)
  BY <1>1 DEF Newest
<1> QED
  BY <1>2 DEF WrappedGet

\* What is admitted is a part of the batch, unchanged.
LEMMA AdmittedFacts ==
    ASSUME NEW d, NEW batch, NEW f \in BOOLEAN
    PROVE  /\ \A k : k \in DOMAIN Admitted(d, batch, f)
                        <=> k \in DOMAIN batch /\ (f => ~Exists(d, k))
           /\ \A D \in SUBSET DOMAIN Admitted(d, batch, f) :
                 Restrict(Admitted(d, batch, f), D) = Restrict(batch, D)
           /\ Admitted(d, batch, f) = Restrict(batch, DOMAIN Admitted(d, batch, f))
<1> DEFINE A == {k \in DOMAIN batch : f => ~Exists(d, k)}
<1>1. Admitted(d, batch, f) = [k \in A |-> batch[k]]
  BY DEF Admitted, Restrict
<1>2. \A k : k \in A <=> k \in DOMAIN batch /\ (f => ~Exists(d, k))
  OBVIOUS
<1> HIDE DEF A
<1>3. DOMAIN Admitted(d, batch, f) = A /\ \A k \in A : Admitted(d, batch, f)[k] = batch[k]
  BY <1>1
<1>4. \A D \in SUBSET A : Restrict(Admitted(d, batch, f), D) = Restrict(batch, D)
  BY <1>3 DEF Restrict
<1>5. Admitted(d, batch, f) = Restrict(batch, A)
  BY <1>1 DEF Restrict
<1> QED
  BY <1>2, <1>3, <1>4, <1>5

\* A write keeps the database typed and its stamps below its block.
LEMMA PutTyped ==
    ASSUME NEW d, d \in SUBSET Version, NEW batch, NEW n, n \in Nat,
           DOMAIN batch \subseteq Keys, \A k \in DOMAIN batch : batch[k] \in Values,
           \A t \in d : t.block <= n
    PROVE  /\ Put(d, batch, n) \in SUBSET Version
           /\ \A t \in Put(d, batch, n) : t.block <= n
BY DEF Put, Version

-----------------------------------------------------------------------------
(* The steps *)

LEMMA BatchFacts ==
    ASSUME NEW batch \in Batches
    PROVE  /\ DOMAIN batch \subseteq Keys
           /\ \A k \in DOMAIN batch : batch[k] \in Values
BY DEF Batches

\* SetAll keeps a part of its batch, unchanged.
LEMMA KeptFacts ==
    ASSUME NEW batch \in Batches, NEW f, NEW n
    PROVE  /\ DOMAIN Kept(batch, f, n) =
                 {k \in DOMAIN batch : f => k \notin DOMAIN cache /\ WrappedGet(db, k, n) = {}}
           /\ DOMAIN Kept(batch, f, n) \subseteq Keys
           /\ \A k \in DOMAIN Kept(batch, f, n) :
                 Kept(batch, f, n)[k] = batch[k] /\ Kept(batch, f, n)[k] \in Values
BY BatchFacts DEF Kept, Restrict

\* A write that changes anything caches what it keeps; of that, a part D that
\* is admitted reaches the wrapped store, at the flushed block only.
LEMMA WriteSteps ==
    ASSUME NEW n \in BlockNumbers, NEW batch \in Batches, NEW f \in BOOLEAN,
           flushUpToBlock \in Nat, Write(batch, f, n) \/ WriteFails(batch, f, n)
    PROVE  \/ UNCHANGED vars
           \/ /\ CacheAll(Kept(batch, f, n), n) /\ UNCHANGED flushUpToBlock
              /\ flushUpToBlock <= n
              /\ \/ db' = db
                 \/ \E D \in SUBSET DOMAIN Admitted(db, Kept(batch, f, n), f) :
                       n = flushUpToBlock /\ db' = Put(db, Restrict(Kept(batch, f, n), D), n)
<1> DEFINE kept == Kept(batch, f, n)
<1>1. n \in Nat
  BY StoreAssumption DEF BlockNumbers
<1>2. CASE Write(batch, f, n)
  <2>1. /\ CacheAll(kept, n) /\ UNCHANGED flushUpToBlock /\ flushUpToBlock <= n
        /\ db' = IF n <= flushUpToBlock THEN Put(db, Admitted(db, kept, f), n) ELSE db
    BY <1>1, <1>2 DEF Write, SetAll, WrappedSetAll
  <2>2. Admitted(db, kept, f) = Restrict(kept, DOMAIN Admitted(db, kept, f))
    BY AdmittedFacts
  <2> QED
    BY <1>1, <2>1, <2>2
<1>3. CASE WriteFails(batch, f, n) /\ ~UNCHANGED vars
  <2>1. /\ CacheAll(kept, n) /\ UNCHANGED flushUpToBlock /\ flushUpToBlock <= n
        /\ n <= flushUpToBlock /\ db' \in PartialSetAll(db, kept, f, n)
    BY <1>1, <1>3 DEF WriteFails, SetAllFails
  <2>2. \E D \in SUBSET DOMAIN Admitted(db, kept, f) : db' = Put(db, Restrict(kept, D), n)
    BY <2>1, AdmittedFacts DEF PartialSetAll
  <2> QED
    BY <1>1, <2>1, <2>2
<1> QED
  BY <1>2, <1>3

LEMMA FlushedFacts ==
    ASSUME TypeOK, NEW n
    PROVE  /\ DOMAIN ToFlush(n) = {k \in DOMAIN cache : cache[k].block <= n}
           /\ \A k \in DOMAIN ToFlush(n) : ToFlush(n)[k] = cache[k].val
           /\ DOMAIN ToFlush(n) \subseteq Keys
           /\ \A k \in DOMAIN ToFlush(n) : ToFlush(n)[k] \in Values
BY DEF ToFlush, TypeOK, Slot

\* A flush puts a part D of what is admitted, all of it unless it fails, at its
\* block, and only then the entries it takes leave the cache.
LEMMA FlushSteps ==
    ASSUME TypeOK, NEW n \in BlockNumbers, NEW f \in BOOLEAN, Flush(n, f) \/ FlushFails(n, f)
    PROVE  /\ flushUpToBlock <= n /\ flushUpToBlock' = n
           /\ \E D \in SUBSET DOMAIN Admitted(db, ToFlush(n), f) :
                 /\ db' = Put(db, Restrict(ToFlush(n), D), n)
                 /\ \/ cache' = cache
                    \/ /\ D = DOMAIN Admitted(db, ToFlush(n), f)
                       /\ cache' = Restrict(cache, DOMAIN cache \ DOMAIN ToFlush(n))
<1>1. CASE Flush(n, f)
  <2>1. /\ flushUpToBlock <= n /\ flushUpToBlock' = n
        /\ db' = Put(db, Admitted(db, ToFlush(n), f), n)
        /\ cache' = Restrict(cache, DOMAIN cache \ DOMAIN ToFlush(n))
    BY <1>1, StoreAssumption DEF Flush, FlushUpToBlock, WrappedSetAll, TypeOK, BlockNumbers
  <2>2. Admitted(db, ToFlush(n), f) = Restrict(ToFlush(n), DOMAIN Admitted(db, ToFlush(n), f))
    BY AdmittedFacts
  <2> QED
    BY <2>1, <2>2
<1>2. CASE FlushFails(n, f)
  <2>1. /\ flushUpToBlock <= n /\ flushUpToBlock' = n /\ cache' = cache
        /\ db' \in PartialSetAll(db, ToFlush(n), f, n)
    BY <1>2, StoreAssumption DEF FlushFails, FlushUpToBlockFails, TypeOK, BlockNumbers
  <2>2. \E D \in SUBSET DOMAIN Admitted(db, ToFlush(n), f) :
            db' = Put(db, Restrict(ToFlush(n), D), n)
    BY <2>1, AdmittedFacts DEF PartialSetAll
  <2> QED
    BY <2>1, <2>2
<1> QED
  BY <1>1, <1>2

-----------------------------------------------------------------------------
(* The invariant for any flags *)

StoreInv == TypeOK /\ StampedBelow

LEMMA InitInv ==
    ASSUME Init
    PROVE  StoreInv
BY StoreAssumption DEF Init, NewStore, EmptyCache, Restrict, StoreInv, TypeOK, StampedBelow, Slot

\* What a step may do to types and stamps: the cache stays typed, and what is
\* put on disk is typed and put at the block that is then the flushed one.
LEMMA StepShape ==
    ASSUME StoreInv, Next
    PROVE  /\ DOMAIN cache' \subseteq Keys /\ cache' \in [DOMAIN cache' -> Slot]
           /\ flushUpToBlock' \in 0..MaxBlock /\ flushUpToBlock <= flushUpToBlock'
           /\ \/ db' = db
              \/ \E batch : /\ DOMAIN batch \subseteq Keys
                            /\ \A k \in DOMAIN batch : batch[k] \in Values
                            /\ db' = Put(db, batch, flushUpToBlock')
<1> USE DEF StoreInv
<1>1. PICK n \in BlockNumbers :
            \/ \E f \in Flags :
                  \/ \E batch \in Batches : Write(batch, f, n) \/ WriteFails(batch, f, n)
                  \/ Flush(n, f) \/ FlushFails(n, f)
            \/ Evict(n)
  BY DEF Next
<1>2. n \in Nat /\ n \in 0..MaxBlock /\ flushUpToBlock \in Nat /\ flushUpToBlock \in 0..MaxBlock
  BY StoreAssumption DEF BlockNumbers, TypeOK, StampedBelow
<1>3. ASSUME NEW f \in Flags, NEW batch \in Batches, Write(batch, f, n) \/ WriteFails(batch, f, n)
      PROVE  /\ DOMAIN cache' \subseteq Keys /\ cache' \in [DOMAIN cache' -> Slot]
             /\ flushUpToBlock' = flushUpToBlock
             /\ \/ db' = db
                \/ \E b : /\ DOMAIN b \subseteq Keys /\ \A k \in DOMAIN b : b[k] \in Values
                          /\ db' = Put(db, b, flushUpToBlock')
  <2> DEFINE kept == Kept(batch, f, n)
  <2>1. f \in BOOLEAN
    BY StoreAssumption
  <2>2. CASE UNCHANGED vars
    BY <2>2 DEF vars, TypeOK
  <2>3. CASE /\ CacheAll(kept, n) /\ UNCHANGED flushUpToBlock
             /\ \/ db' = db
                \/ \E D \in SUBSET DOMAIN Admitted(db, kept, f) :
                      n = flushUpToBlock /\ db' = Put(db, Restrict(kept, D), n)
    <3>1. DOMAIN kept \subseteq Keys /\ \A k \in DOMAIN kept : kept[k] \in Values
      BY KeptFacts
    <3>2. DOMAIN Admitted(db, kept, f) \subseteq DOMAIN kept
      BY <2>1, AdmittedFacts
    <3> HIDE DEF kept
    <3>3. DOMAIN cache' \subseteq Keys /\ cache' \in [DOMAIN cache' -> Slot]
      <4>1. \A k \in DOMAIN kept : [val |-> kept[k], block |-> n] \in Slot
        BY <1>2, <3>1 DEF Slot
      <4> QED
        BY <2>3, <3>1, <4>1 DEF CacheAll, TypeOK
    <3>4. \A D \in SUBSET DOMAIN kept :
             /\ DOMAIN Restrict(kept, D) \subseteq Keys
             /\ \A k \in DOMAIN Restrict(kept, D) : Restrict(kept, D)[k] \in Values
      BY <3>1 DEF Restrict
    <3> QED
      BY <2>3, <3>2, <3>3, <3>4
  <2> QED
    BY <1>2, <1>3, <2>1, <2>2, <2>3, WriteSteps
<1>4. ASSUME NEW f \in Flags, Flush(n, f) \/ FlushFails(n, f)
      PROVE  /\ DOMAIN cache' \subseteq Keys /\ cache' \in [DOMAIN cache' -> Slot]
             /\ flushUpToBlock' = n /\ flushUpToBlock <= n
             /\ \E b : /\ DOMAIN b \subseteq Keys /\ \A k \in DOMAIN b : b[k] \in Values
                       /\ db' = Put(db, b, n)
  <2>1. f \in BOOLEAN
    BY StoreAssumption
  <2>2. /\ flushUpToBlock' = n /\ flushUpToBlock <= n
        /\ \E D \in SUBSET DOMAIN Admitted(db, ToFlush(n), f) :
              /\ db' = Put(db, Restrict(ToFlush(n), D), n)
              /\ cache' = cache \/ cache' = Restrict(cache, DOMAIN cache \ DOMAIN ToFlush(n))
    BY <1>4, <2>1, FlushSteps
  <2>3. DOMAIN Admitted(db, ToFlush(n), f) \subseteq DOMAIN ToFlush(n)
    BY <2>1, AdmittedFacts
  <2>4. DOMAIN cache' \subseteq Keys /\ cache' \in [DOMAIN cache' -> Slot]
    BY <2>2 DEF TypeOK, Restrict
  <2>5. \A D \in SUBSET DOMAIN ToFlush(n) :
           /\ DOMAIN Restrict(ToFlush(n), D) \subseteq Keys
           /\ \A k \in DOMAIN Restrict(ToFlush(n), D) : Restrict(ToFlush(n), D)[k] \in Values
    BY FlushedFacts DEF Restrict
  <2> QED
    BY <2>2, <2>3, <2>4, <2>5
<1>5. CASE Evict(n)
  <2>1. UNCHANGED <<db, flushUpToBlock>>
    BY <1>5 DEF Evict, EvictUpToBlock
  <2>2. DOMAIN cache' \subseteq Keys /\ cache' \in [DOMAIN cache' -> Slot]
    BY <1>5 DEF Evict, EvictUpToBlock, Restrict, TypeOK
  <2> QED
    BY <1>2, <2>1, <2>2
<1> QED
  BY <1>1, <1>2, <1>3, <1>4, <1>5

LEMMA StepInv ==
    ASSUME StoreInv, [Next]_vars
    PROVE  StoreInv'
<1>1. CASE UNCHANGED vars
  BY <1>1 DEF vars, StoreInv, TypeOK, StampedBelow
<1>2. CASE Next
  <2>1. /\ DOMAIN cache' \subseteq Keys /\ cache' \in [DOMAIN cache' -> Slot]
        /\ flushUpToBlock' \in 0..MaxBlock /\ flushUpToBlock <= flushUpToBlock'
        /\ \/ db' = db
           \/ \E batch : /\ DOMAIN batch \subseteq Keys
                         /\ \A k \in DOMAIN batch : batch[k] \in Values
                         /\ db' = Put(db, batch, flushUpToBlock')
    BY <1>2, StepShape
  <2>2. /\ flushUpToBlock' \in Nat /\ flushUpToBlock \in Nat /\ db \in SUBSET Version
        /\ \A t \in db : t.block <= flushUpToBlock'
    BY <2>1, StoreAssumption DEF StoreInv, TypeOK, StampedBelow, Version
  <2>3. db' \in SUBSET Version /\ \A t \in db' : t.block <= flushUpToBlock'
    BY <2>1, <2>2, PutTyped
  <2> QED
    BY <2>1, <2>2, <2>3 DEF StoreInv, TypeOK, StampedBelow
<1> QED
  BY <1>1, <1>2

\* The invariant of the store: typed, and nothing on disk above the last flush.
THEOREM StoreInvariance == Spec => []StoreInv
<1>1. StoreInv /\ [Next]_vars => StoreInv'
  BY StepInv
<1>2. Init => StoreInv
  BY InitInv
<1> QED
  BY <1>1, <1>2, PTL DEF Spec

\* The state of the store stays well typed, whatever callers pass as IfNotExist:
\* cache, disk and last flush.
THEOREM StoreTypeCorrect == Spec => []TypeOK
<1>1. StoreInv => TypeOK
  BY DEF StoreInv
<1> QED
  BY <1>1, StoreInvariance, PTL

-----------------------------------------------------------------------------
(* Callers that agree on IfNotExist *)

\* Every caller writes unconditionally, or every caller sets IfNotExist and no
\* key extends another one, so that the existence test is exact.
OneFlag ==
    \/ Flags = {FALSE}
    \/ Flags = {TRUE} /\ \A k \in Keys : Extensions[k] = {k}

\* With IfNotExist a key is on disk at most once, and a copy that a flush cut
\* short left in the cache agrees with it.
FirstOnly ==
    Flags = {TRUE} =>
        /\ \A t, u \in db : t.key = u.key => t = u
        /\ \A k \in DOMAIN cache : \A t \in db : t.key = k => t.val = cache[k].val

FlagInv == StoreInv /\ FirstOnly

\* What is admitted: all of the batch, or with IfNotExist what is not on disk.
LEMMA AdmittedKeys ==
    ASSUME OneFlag, NEW f \in Flags, NEW batch, DOMAIN batch \subseteq Keys, NEW k
    PROVE  k \in DOMAIN Admitted(db, batch, f)
              <=> k \in DOMAIN batch /\ (f => \A t \in db : t.key # k)
<1>1. k \in DOMAIN Admitted(db, batch, f) <=> k \in DOMAIN batch /\ (f => ~Exists(db, k))
  BY AdmittedFacts, StoreAssumption
<1>2. ASSUME f, k \in DOMAIN batch PROVE Exists(db, k) <=> \E t \in db : t.key = k
  <2>1. Extensions[k] = {k}
    BY <1>2 DEF OneFlag
  <2> QED
    BY <2>1 DEF Exists
<1> QED
  BY <1>1, <1>2

\* What a write keeps with IfNotExist is neither cached nor on disk.
LEMMA KeptIsNew ==
    ASSUME FlagInv, Flags = {TRUE}, NEW n \in Nat, flushUpToBlock <= n,
           NEW batch \in Batches, NEW k \in DOMAIN Kept(batch, TRUE, n)
    PROVE  k \notin DOMAIN cache /\ \A t \in db : t.key # k
<1>1. k \notin DOMAIN cache /\ WrappedGet(db, k, n) = {}
  BY KeptFacts
<1>2. ASSUME NEW t \in db, t.key = k PROVE FALSE
  <2>1. t.block \in Nat /\ flushUpToBlock \in Nat /\ t.block <= flushUpToBlock
    BY DEF FlagInv, StoreInv, StampedBelow, TypeOK, Version
  <2>2. t.block <= n
    BY <2>1
  <2>3. \A u \in db : u.key = k => u = t
    BY <1>2 DEF FlagInv, FirstOnly
  <2>4. t \in Newest(db, k, n)
    BY <1>2, <2>1, <2>2, <2>3 DEF Newest
  <2> QED
    BY <1>1, <2>4 DEF WrappedGet
<1> QED
  BY <1>1, <1>2

\* A put of keys that are not on disk keeps one version per key.
LEMMA PutOnce ==
    ASSUME NEW d, NEW batch, NEW n, \A t \in d : t.key \notin DOMAIN batch
    PROVE  /\ Put(d, batch, n) = d \cup {[key |-> k, block |-> n, val |-> batch[k]] : k \in DOMAIN batch}
           /\ (\A t, u \in d : t.key = u.key => t = u)
                 => \A t, u \in Put(d, batch, n) : t.key = u.key => t = u
<1>1. Put(d, batch, n) = d \cup {[key |-> k, block |-> n, val |-> batch[k]] : k \in DOMAIN batch}
  BY DEF Put
<1> QED
  BY <1>1

\* Steps of callers that agree on the flag: a write caches what it keeps, and a
\* part D of it may reach the disk, at the flushed block; a flush puts a part D
\* of what it takes, and drops from the cache only what is then on disk.
LEMMA FlagSteps ==
    ASSUME OneFlag, FlagInv, Next
    PROVE  \/ UNCHANGED vars
           \/ \E n \in BlockNumbers : Evict(n)
           \/ \E n \in BlockNumbers, f \in Flags : Flush(n, f) \/ FlushFails(n, f)
           \/ \E n \in BlockNumbers, f \in Flags, batch \in Batches :
                 LET kept == Kept(batch, f, n) IN
                 /\ CacheAll(kept, n) /\ UNCHANGED flushUpToBlock /\ flushUpToBlock <= n
                 /\ \/ db' = db
                    \/ \E D \in SUBSET DOMAIN kept :
                          n = flushUpToBlock /\ db' = Put(db, Restrict(kept, D), n)
<1>1. flushUpToBlock \in Nat
  BY DEF FlagInv, StoreInv, TypeOK
<1>2. ASSUME NEW n \in BlockNumbers, NEW f \in Flags, NEW batch \in Batches,
             Write(batch, f, n) \/ WriteFails(batch, f, n), ~UNCHANGED vars
      PROVE  LET kept == Kept(batch, f, n) IN
             /\ CacheAll(kept, n) /\ UNCHANGED flushUpToBlock /\ flushUpToBlock <= n
             /\ \/ db' = db
                \/ \E D \in SUBSET DOMAIN kept :
                      n = flushUpToBlock /\ db' = Put(db, Restrict(kept, D), n)
  <2>1. f \in BOOLEAN
    BY StoreAssumption
  <2>2. DOMAIN Admitted(db, Kept(batch, f, n), f) \subseteq DOMAIN Kept(batch, f, n)
    BY <2>1, AdmittedFacts
  <2> QED
    BY <1>1, <1>2, <2>1, <2>2, WriteSteps
<1> QED
  BY <1>2 DEF Next

LEMMA FlagFlush ==
    ASSUME OneFlag, FlagInv, NEW n \in BlockNumbers, NEW f \in Flags, Flush(n, f) \/ FlushFails(n, f)
    PROVE  /\ flushUpToBlock <= n /\ flushUpToBlock' = n
           /\ \E D \in SUBSET DOMAIN ToFlush(n) :
                 /\ db' = Put(db, Restrict(ToFlush(n), D), n)
                 /\ f => \A t \in db : t.key \notin D
                 /\ \/ cache' = cache
                    \/ /\ cache' = Restrict(cache, DOMAIN cache \ DOMAIN ToFlush(n))
                       /\ \A k \in DOMAIN ToFlush(n) \ D : f /\ \E t \in db : t.key = k
<1>1. f \in BOOLEAN /\ TypeOK /\ DOMAIN ToFlush(n) \subseteq Keys
  BY StoreAssumption, FlushedFacts DEF FlagInv, StoreInv
<1>2. /\ flushUpToBlock <= n /\ flushUpToBlock' = n
      /\ \E D \in SUBSET DOMAIN Admitted(db, ToFlush(n), f) :
            /\ db' = Put(db, Restrict(ToFlush(n), D), n)
            /\ \/ cache' = cache
               \/ /\ D = DOMAIN Admitted(db, ToFlush(n), f)
                  /\ cache' = Restrict(cache, DOMAIN cache \ DOMAIN ToFlush(n))
  BY <1>1, FlushSteps
<1>3. \A k : k \in DOMAIN Admitted(db, ToFlush(n), f)
              <=> k \in DOMAIN ToFlush(n) /\ (f => \A t \in db : t.key # k)
  BY <1>1, AdmittedKeys
<1> QED
  BY <1>2, <1>3

\* With IfNotExist no step stores a key twice or lets memory and disk disagree.
LEMMA FirstStep ==
    ASSUME OneFlag, FlagInv, [Next]_vars
    PROVE  FirstOnly'
<1> SUFFICES ASSUME Flags = {TRUE} PROVE FirstOnly'
  BY DEF FirstOnly
<1>1. /\ \A t, u \in db : t.key = u.key => t = u
      /\ \A k \in DOMAIN cache : \A t \in db : t.key = k => t.val = cache[k].val
  BY DEF FlagInv, FirstOnly
<1>2. CASE UNCHANGED vars
  BY <1>1, <1>2 DEF vars, FirstOnly
<1>3. ASSUME NEW n \in BlockNumbers, Evict(n) PROVE FirstOnly'
  <2>1. db' = db /\ DOMAIN cache' \subseteq DOMAIN cache /\ \A k \in DOMAIN cache' : cache'[k] = cache[k]
    BY <1>3 DEF Evict, EvictUpToBlock, Restrict
  <2> QED
    BY <1>1, <2>1 DEF FirstOnly
<1>4. ASSUME NEW n \in BlockNumbers, NEW f \in Flags, Flush(n, f) \/ FlushFails(n, f)
      PROVE  FirstOnly'
  <2>1. PICK D \in SUBSET DOMAIN ToFlush(n) :
                 /\ db' = Put(db, Restrict(ToFlush(n), D), n)
                 /\ f => \A t \in db : t.key \notin D
                 /\ \/ cache' = cache
                    \/ cache' = Restrict(cache, DOMAIN cache \ DOMAIN ToFlush(n))
    BY <1>4, FlagFlush
  <2> DEFINE b == Restrict(ToFlush(n), D)
  <2>2. f = TRUE /\ DOMAIN b = D /\ \A k \in D : k \in DOMAIN cache /\ b[k] = cache[k].val
    BY <2>1, FlushedFacts DEF Restrict, FlagInv, StoreInv
  <2>3. DOMAIN cache' \subseteq DOMAIN cache /\ \A k \in DOMAIN cache' : cache'[k] = cache[k]
    BY <2>1 DEF Restrict
  <2> HIDE DEF b
  <2>4. /\ db' = db \cup {[key |-> k, block |-> n, val |-> b[k]] : k \in DOMAIN b}
        /\ \A t, u \in db' : t.key = u.key => t = u
    BY <1>1, <2>1, <2>2, PutOnce DEF b
  <2> QED
    BY <1>1, <2>2, <2>3, <2>4 DEF FirstOnly
<1>5. ASSUME NEW n \in BlockNumbers, NEW batch \in Batches,
             CacheAll(Kept(batch, TRUE, n), n), flushUpToBlock <= n,
             \/ db' = db
             \/ \E D \in SUBSET DOMAIN Kept(batch, TRUE, n) :
                   db' = Put(db, Restrict(Kept(batch, TRUE, n), D), n)
      PROVE  FirstOnly'
  <2> DEFINE kept == Kept(batch, TRUE, n)
  <2>1. n \in Nat
    BY StoreAssumption DEF BlockNumbers
  <2>2. \A k \in DOMAIN kept : k \notin DOMAIN cache /\ \A t \in db : t.key # k
    BY <1>5, <2>1, KeptIsNew
  <2> HIDE DEF kept
  <2>3. /\ DOMAIN cache' = DOMAIN cache \cup DOMAIN kept
        /\ \A k \in DOMAIN kept : cache'[k].val = kept[k]
        /\ \A k \in DOMAIN cache : k \notin DOMAIN kept => cache'[k] = cache[k]
    BY <1>5 DEF CacheAll, kept
  <2>4. CASE db' = db
    BY <1>1, <2>2, <2>3, <2>4 DEF FirstOnly
  <2>5. ASSUME NEW D \in SUBSET DOMAIN kept, db' = Put(db, Restrict(kept, D), n)
        PROVE  FirstOnly'
    <3> DEFINE b == Restrict(kept, D)
    <3>1. DOMAIN b = D /\ \A k \in D : b[k] = kept[k]
      BY DEF Restrict
    <3> HIDE DEF b
    <3>2. /\ db' = db \cup {[key |-> k, block |-> n, val |-> b[k]] : k \in DOMAIN b}
          /\ \A t, u \in db' : t.key = u.key => t = u
      BY <1>1, <2>2, <2>5, <3>1, PutOnce DEF b
    <3> QED
      BY <1>1, <2>2, <2>3, <3>1, <3>2 DEF FirstOnly
  <2> QED
    BY <1>5, <2>4, <2>5 DEF kept
<1> QED
  BY <1>2, <1>3, <1>4, <1>5, FlagSteps

\* The invariant under callers that agree on the flag.
LEMMA FlagInvariance ==
    ASSUME OneFlag
    PROVE  Spec => []FlagInv
<1>1. Init => FlagInv
  <2>1. Init => FirstOnly
    BY DEF Init, NewStore, EmptyCache, Restrict, FirstOnly
  <2> QED
    BY <2>1, InitInv DEF FlagInv
<1>2. FlagInv /\ [Next]_vars => FlagInv'
  BY StepInv, FirstStep DEF FlagInv
<1> QED
  BY <1>1, <1>2, PTL DEF Spec

-----------------------------------------------------------------------------
(* Flushes are invisible *)

\* What a flush leaves of a key, from its block on: what is taken from the cache is
\* found on disk, and what stays in the cache hides the disk as before.
LEMMA FlushKeeps ==
    ASSUME OneFlag, FlagInv, NEW n \in BlockNumbers, NEW f \in Flags,
           Flush(n, f) \/ FlushFails(n, f), NEW k \in Keys, NEW B \in Nat, n <= B
    PROVE  Get(k, B)' = Get(k, B)
<1>0. /\ n \in Nat /\ flushUpToBlock \in Nat /\ db \in SUBSET Version
      /\ \A t \in db : t.block \in Nat /\ t.block <= flushUpToBlock
  BY StoreAssumption DEF BlockNumbers, FlagInv, StoreInv, StampedBelow, TypeOK, Version
<1>1. PICK D \in SUBSET DOMAIN ToFlush(n) :
             /\ db' = Put(db, Restrict(ToFlush(n), D), n)
             /\ \/ cache' = cache
                \/ /\ cache' = Restrict(cache, DOMAIN cache \ DOMAIN ToFlush(n))
                   /\ \A j \in DOMAIN ToFlush(n) \ D : f /\ \E t \in db : t.key = j
  BY FlagFlush
<1>2. DOMAIN Restrict(ToFlush(n), D) = D
  BY DEF Restrict
<1>3. \A t \in db : t.block <= n
  <2>1. flushUpToBlock <= n
    BY FlagFlush
  <2> QED
    BY <1>0, <2>1
<1>4. CASE k \in DOMAIN ToFlush(n)
  <2>1. k \in DOMAIN cache /\ cache[k].block \in Nat /\ cache[k].block <= n
    BY <1>4, FlushedFacts DEF FlagInv, StoreInv, TypeOK, Slot
  <2>2. Get(k, B) = {cache[k].val}
    BY <1>0, <2>1 DEF Get, Overlays
  <2>3. CASE cache' = cache
    BY <1>0, <2>1, <2>2, <2>3 DEF Get, Overlays
  <2>4. CASE /\ cache' = Restrict(cache, DOMAIN cache \ DOMAIN ToFlush(n))
             /\ \A j \in DOMAIN ToFlush(n) \ D : f /\ \E t \in db : t.key = j
    <3>1. k \notin DOMAIN cache'
      BY <1>4, <2>4 DEF Restrict
    <3>2. WrappedGet(db', k, B) = {cache[k].val}
      <4>1. CASE k \in D
        <5>1. WrappedGet(db', k, B) = {Restrict(ToFlush(n), D)[k]}
          BY <1>0, <1>1, <1>2, <1>3, <4>1, PutFound
        <5>2. Restrict(ToFlush(n), D)[k] = cache[k].val
          BY <1>4, <4>1, FlushedFacts DEF FlagInv, StoreInv, Restrict
        <5> QED
          BY <5>1, <5>2
      <4>2. CASE k \notin D
        <5>1. f /\ \E t \in db : t.key = k
          BY <1>4, <2>4, <4>2
        <5>2. PICK t \in db : t.key = k
          BY <5>1
        <5>3. t.val = cache[k].val /\ \A u \in db : u.key = k => u = t
          BY <2>1, <5>1, <5>2 DEF FlagInv, FirstOnly, OneFlag
        <5>4. t.block <= B
          BY <1>0, <1>3, <5>2
        <5>5. t \in Newest(db, k, B) /\ \A u \in Newest(db, k, B) : u = t
          BY <1>0, <5>2, <5>3, <5>4 DEF Newest
        <5>6. WrappedGet(db, k, B) = {cache[k].val}
          BY <5>3, <5>5 DEF WrappedGet
        <5>7. WrappedGet(db', k, B) = WrappedGet(db, k, B)
          BY <1>1, <1>2, <4>2, PutElsewhere
        <5> QED
          BY <5>6, <5>7
      <4> QED
        BY <4>1, <4>2
    <3> QED
      BY <2>2, <3>1, <3>2 DEF Get, Overlays, WrappedGet, Newest
  <2> QED
    BY <1>1, <2>3, <2>4
<1>5. CASE k \notin DOMAIN ToFlush(n)
  <2>1. (k \in DOMAIN cache' <=> k \in DOMAIN cache) /\ (k \in DOMAIN cache => cache'[k] = cache[k])
    BY <1>1, <1>5 DEF Restrict
  <2>2. WrappedGet(db', k, B) = WrappedGet(db, k, B)
    BY <1>1, <1>2, <1>5, PutElsewhere
  <2> QED
    BY <2>1, <2>2 DEF Get, Overlays, WrappedGet, Newest
<1> QED
  BY <1>4, <1>5

\* Readers at or above the flushed block never see a flush, also when the wrapped
\* store fails after any part of the batch (store.go:144-174).
THEOREM FlushesAreInvisible ==
    ASSUME OneFlag
    PROVE  Spec => FlushInvisible
<1>1. ASSUME FlagInv, NEW n \in BlockNumbers, NEW f \in Flags, Flush(n, f) \/ FlushFails(n, f),
             NEW k \in Keys, NEW B \in flushUpToBlock'..MaxBlock
      PROVE  Get(k, B)' = Get(k, B)
  <2>1. flushUpToBlock' = n
    BY <1>1, FlagFlush
  <2>2. B \in Nat /\ n <= B
    BY <2>1, StoreAssumption DEF BlockNumbers
  <2> QED
    BY <1>1, <2>2, FlushKeeps
<1>2. FlagInv /\ (\E n \in BlockNumbers, f \in Flags : Flush(n, f) \/ FlushFails(n, f)) =>
                     \A k \in Keys : \A B \in flushUpToBlock'..MaxBlock :
                        Get(k, B)' = Get(k, B)
  BY <1>1
<1> QED
  BY <1>2, FlagInvariance, PTL DEF FlushInvisible

-----------------------------------------------------------------------------
(* The store implements OverlayStore *)

\* A write is seen at the head by the keys it keeps and by no other, and it is
\* final for the part that was written through.
LEMMA WriteIsWrite ==
    ASSUME FlagInv, NEW n \in BlockNumbers, NEW kept, DOMAIN kept \subseteq Keys,
           kept \in [DOMAIN kept -> Values],
           CacheAll(kept, n), UNCHANGED flushUpToBlock,
           \/ db' = db
           \/ \E D \in SUBSET DOMAIN kept :
                 n = flushUpToBlock /\ db' = Put(db, Restrict(kept, D), n)
    PROVE  Overlay!Write
<1>1. /\ n \in Nat /\ flushUpToBlock \in Nat /\ db \in SUBSET Version
      /\ MaxBlock \in Nat /\ n <= MaxBlock
  BY StoreAssumption DEF BlockNumbers, FlagInv, StoreInv, TypeOK
<1>2. \A k \in DOMAIN kept : Get(k, MaxBlock)' = {kept[k]}
  BY <1>1 DEF CacheAll, Get, Overlays
<1>3. PICK S \in SUBSET DOMAIN kept :
           \A k \in Keys : WrappedGet(db', k, MaxBlock)
                              = IF k \in S THEN {kept[k]} ELSE WrappedGet(db, k, MaxBlock)
  <2>1. CASE db' = db
    <3> WITNESS {} \in SUBSET DOMAIN kept
    <3> QED
      BY <2>1
  <2>2. ASSUME NEW D \in SUBSET DOMAIN kept,
               n = flushUpToBlock, db' = Put(db, Restrict(kept, D), n)
        PROVE  \A k \in Keys : WrappedGet(db', k, MaxBlock)
                                  = IF k \in D THEN {kept[k]} ELSE WrappedGet(db, k, MaxBlock)
    <3>1. DOMAIN Restrict(kept, D) = D /\ \A k \in D : Restrict(kept, D)[k] = kept[k]
      BY DEF Restrict
    <3>2. \A t \in db : t.block <= n
      BY <2>2 DEF FlagInv, StoreInv, StampedBelow
    <3>3. ASSUME NEW k \in D PROVE WrappedGet(db', k, MaxBlock) = {kept[k]}
      BY <1>1, <2>2, <3>1, <3>2, PutFound
    <3>4. ASSUME NEW k, k \notin D
          PROVE  WrappedGet(db', k, MaxBlock) = WrappedGet(db, k, MaxBlock)
      BY <2>2, <3>1, <3>4, PutElsewhere
    <3> QED
      BY <3>3, <3>4
  <2> QED
    BY <2>1, <2>2
<1>4. ASSUME NEW k \in Keys, k \notin DOMAIN kept
      PROVE  Get(k, MaxBlock)' = Get(k, MaxBlock)
  <2>1. (k \in DOMAIN cache' <=> k \in DOMAIN cache) /\ (k \in DOMAIN cache => cache'[k] = cache[k])
    BY <1>4 DEF CacheAll
  <2>2. WrappedGet(db', k, MaxBlock) = WrappedGet(db, k, MaxBlock)
    BY <1>3, <1>4
  <2> QED
    BY <2>1, <2>2 DEF Get, Overlays, WrappedGet, Newest
<1>5. kept \in UNION {[D -> Values] : D \in SUBSET Keys}
  OBVIOUS
<1>6. [k \in Keys |-> Get(k, MaxBlock)]'
         = [k \in Keys |-> IF k \in DOMAIN kept THEN {kept[k]}
                           ELSE [j \in Keys |-> Get(j, MaxBlock)][k]]
  BY <1>2, <1>4
<1>7. [k \in Keys |-> WrappedGet(db, k, MaxBlock)]'
         = [k \in Keys |-> IF k \in S THEN [j \in Keys |-> Get(j, MaxBlock)]'[k]
                           ELSE [j \in Keys |-> WrappedGet(db, j, MaxBlock)][k]]
  BY <1>2, <1>3
<1> QED
  BY <1>5, <1>6, <1>7 DEF Overlay!Write

\* A flush makes what it put final and is not seen.
LEMMA FlushIsFinalize ==
    ASSUME OneFlag, FlagInv, NEW n \in BlockNumbers, NEW f \in Flags,
           Flush(n, f) \/ FlushFails(n, f)
    PROVE  Overlay!Finalize
<1>1. /\ n \in Nat /\ flushUpToBlock \in Nat /\ db \in SUBSET Version
      /\ MaxBlock \in Nat /\ n <= MaxBlock
  BY StoreAssumption DEF BlockNumbers, FlagInv, StoreInv, TypeOK
<1>2. \A k \in Keys : Get(k, MaxBlock)' = Get(k, MaxBlock)
  BY <1>1, FlushKeeps
<1>3. PICK D \in SUBSET DOMAIN ToFlush(n) : db' = Put(db, Restrict(ToFlush(n), D), n)
  BY FlagFlush
<1>4. DOMAIN Restrict(ToFlush(n), D) = D /\ \A k \in D : Restrict(ToFlush(n), D)[k] = cache[k].val
  BY FlushedFacts DEF FlagInv, StoreInv, Restrict
<1>5. ASSUME NEW k \in D PROVE WrappedGet(db', k, MaxBlock) = Get(k, MaxBlock)
  <2>1. k \in DOMAIN cache /\ cache[k].block \in Nat /\ cache[k].block <= n
    BY FlushedFacts DEF FlagInv, StoreInv, TypeOK, Slot
  <2>2. Get(k, MaxBlock) = {cache[k].val}
    BY <1>1, <2>1 DEF Get, Overlays
  <2>3. \A t \in db : t.key = k => t.block <= n
    <3>1. flushUpToBlock <= n
      BY FlagFlush
    <3> QED
      BY <1>1, <3>1 DEF FlagInv, StoreInv, StampedBelow, Version
  <2>4. WrappedGet(db', k, MaxBlock) = {Restrict(ToFlush(n), D)[k]}
    BY <1>1, <1>3, <1>4, <2>3, PutFound
  <2> QED
    BY <1>4, <2>2, <2>4
<1>6. ASSUME NEW k, k \notin D
      PROVE  WrappedGet(db', k, MaxBlock) = WrappedGet(db, k, MaxBlock)
  BY <1>3, <1>4, <1>6, PutElsewhere
<1>7. D \in SUBSET Keys
  BY FlushedFacts DEF FlagInv, StoreInv
<1>8. [k \in Keys |-> WrappedGet(db, k, MaxBlock)]'
         = [k \in Keys |-> IF k \in D THEN [j \in Keys |-> Get(j, MaxBlock)][k]
                           ELSE [j \in Keys |-> WrappedGet(db, j, MaxBlock)][k]]
  BY <1>5, <1>6
<1>9. UNCHANGED [k \in Keys |-> Get(k, MaxBlock)]
  BY <1>2
<1> QED
  BY <1>7, <1>8, <1>9 DEF Overlay!Finalize

\* An eviction uncovers what is final under the keys that leave the cache.
LEMMA EvictIsUndo ==
    ASSUME FlagInv, NEW n \in BlockNumbers, Evict(n)
    PROVE  Overlay!Undo
<1> DEFINE S == {k \in DOMAIN cache : ~(cache[k].block < n)}
<1>1. db' = db /\ cache' = Restrict(cache, {k \in DOMAIN cache : cache[k].block < n})
  BY DEF Evict, EvictUpToBlock
<1>2. ASSUME NEW k \in S PROVE Get(k, MaxBlock)' = WrappedGet(db, k, MaxBlock)
  BY <1>1, <1>2 DEF Get, Overlays, Restrict, WrappedGet, Newest
<1>3. ASSUME NEW k, k \notin S PROVE Get(k, MaxBlock)' = Get(k, MaxBlock)
  <2>1. (k \in DOMAIN cache' <=> k \in DOMAIN cache) /\ (k \in DOMAIN cache => cache'[k] = cache[k])
    BY <1>1, <1>3 DEF Restrict
  <2> QED
    BY <1>1, <2>1 DEF Get, Overlays, WrappedGet, Newest
<1>4. S \in SUBSET Keys
  BY DEF FlagInv, StoreInv, TypeOK
<1> HIDE DEF S
<1>5. [k \in Keys |-> Get(k, MaxBlock)]'
         = [k \in Keys |-> IF k \in S THEN [j \in Keys |-> WrappedGet(db, j, MaxBlock)][k]
                           ELSE [j \in Keys |-> Get(j, MaxBlock)][k]]
  BY <1>2, <1>3
<1>6. UNCHANGED [k \in Keys |-> WrappedGet(db, k, MaxBlock)]
  BY <1>1
<1> QED
  BY <1>4, <1>5, <1>6 DEF Overlay!Undo

LEMMA InitIsInit ==
    ASSUME Init
    PROVE  Overlay!Init
<1>1. \A k \in Keys : k \notin DOMAIN cache
  BY DEF Init, NewStore, EmptyCache, Restrict
<1>2. \A k \in Keys : WrappedGet(db, k, MaxBlock) = {}
  BY DEF Init, WrappedGet, Newest
<1>3. \A k \in Keys : Get(k, MaxBlock) = {}
  BY <1>1, <1>2 DEF Get, Overlays
<1> QED
  BY <1>2, <1>3 DEF Overlay!Init

\* A reader at the head, and what is final, see an OverlayStore: a value is lost by an
\* undo only, and then for the value that is final (store.go:36-195).
THEOREM StoreImplementsOverlay ==
    ASSUME OneFlag
    PROVE  Spec => ImplementsOverlay
<1>1. Init => Overlay!Init
  BY InitIsInit
<1>2. ASSUME FlagInv, [Next]_vars
      PROVE  [Overlay!Next]_<<[k \in Keys |-> Get(k, MaxBlock)],
                              [k \in Keys |-> WrappedGet(db, k, MaxBlock)]>>
  <2>1. CASE UNCHANGED vars
    BY <2>1 DEF vars, Get, Overlays, WrappedGet, Newest
  <2>2. ASSUME NEW n \in BlockNumbers, NEW f \in Flags, NEW batch \in Batches,
               LET kept == Kept(batch, f, n) IN
               /\ CacheAll(kept, n) /\ UNCHANGED flushUpToBlock
               /\ \/ db' = db
                  \/ \E D \in SUBSET DOMAIN kept :
                        n = flushUpToBlock /\ db' = Put(db, Restrict(kept, D), n)
        PROVE  Overlay!Write
    <3>1. /\ DOMAIN Kept(batch, f, n) \subseteq Keys
          /\ Kept(batch, f, n) \in [DOMAIN Kept(batch, f, n) -> Values]
      BY BatchFacts DEF Kept, Restrict
    <3> QED
      BY <1>2, <2>2, <3>1, WriteIsWrite
  <2>3. ASSUME NEW n \in BlockNumbers, NEW f \in Flags, Flush(n, f) \/ FlushFails(n, f)
        PROVE  Overlay!Finalize
    BY <1>2, <2>3, FlushIsFinalize
  <2>4. ASSUME NEW n \in BlockNumbers, Evict(n) PROVE Overlay!Undo
    BY <1>2, <2>4, EvictIsUndo
  <2> QED
    BY <1>2, <2>1, <2>2, <2>3, <2>4, FlagSteps DEF Overlay!Next
<1> QED
  BY <1>1, <1>2, FlagInvariance, PTL DEF Spec, ImplementsOverlay, Overlay!Spec
=============================================================================
