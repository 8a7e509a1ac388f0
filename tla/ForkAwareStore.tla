--------------------------- MODULE ForkAwareStore ---------------------------
(***************************************************************************)
(* store/ForkAware/store.go: a store that keeps the entries of blocks that *)
(* can still be undone in memory, in front of a wrapped store.             *)
(*                                                                         *)
(* The Go map cache is a function on the keys it holds: one entry per key, *)
(* with the number of the block that set it.  Every operation runs under   *)
(* mu, so each is one action.  An operation that fails has an action of    *)
(* its own, because what it leaves behind differs.                         *)
(*                                                                         *)
(* The module is used in two ways: Sinker instances its operators, and     *)
(* Spec below drives them as any caller would that respects                *)
(*   - no operation goes below the last flushed block, and                 *)
(*   - IfNotExist comes from the set Flags.                                *)
(***************************************************************************)
EXTENDS Backend

CONSTANTS
    MaxBlock, \* bound on block numbers in Spec
    Flags     \* values of IfNotExist the callers of Spec pass

ASSUME StoreAssumption == MaxBlock \in Nat /\ Flags \subseteq BOOLEAN

VARIABLES
    db,            \* the wrapped store
    cache,         \* key -> cached entry and its block number
    flushUpToBlock \* the block number of the last flush

vars == <<db, cache, flushUpToBlock>>

Slot == [val : Values, block : Nat]

TypeOK ==
    /\ db \subseteq Version
    /\ DOMAIN cache \subseteq Keys
    /\ cache \in [DOMAIN cache -> Slot]
    /\ flushUpToBlock \in Nat

\* NewStore: an empty cache over whatever the wrapped store holds.
EmptyCache == Restrict([k \in Keys |-> [val |-> k, block |-> 0]], {})

NewStore ==
    /\ cache = EmptyCache
    /\ flushUpToBlock = 0

Reopen ==
    /\ cache' = EmptyCache
    /\ flushUpToBlock' = 0
    /\ UNCHANGED db

-----------------------------------------------------------------------------
(* Reads: the cached entry wins when it is not above the requested block. *)

\* Mutants of Overlays: the block is off by one, or not looked at.
OverlaysBefore(k, B) == k \in DOMAIN cache /\ cache[k].block < B
OverlaysAlways(k, B) == k \in DOMAIN cache

Overlays(k, B) == k \in DOMAIN cache /\ cache[k].block <= B

Get(k, B) ==
    IF Overlays(k, B) THEN {cache[k].val} ELSE WrappedGet(db, k, B)

GetFirst(k, B) ==
    IF Overlays(k, B) THEN {cache[k].val} ELSE WrappedGetFirst(db, k, B)

-----------------------------------------------------------------------------
(* SetAll *)

\* Mutant of Kept: an entry that is cached is never overwritten.
KeptFirst(batch, ifNotExist, n) ==
    Restrict(batch, {k \in DOMAIN batch : k \notin DOMAIN cache})

\* The entries SetAll keeps: with IfNotExist, those neither cached nor found
\* in the wrapped store at the block being set.
Kept(batch, ifNotExist, n) ==
    Restrict(batch, {k \in DOMAIN batch :
        ifNotExist => k \notin DOMAIN cache /\ WrappedGet(db, k, n) = {}})

\* Mutant of CacheAll: the new entries replace the whole cache.
CacheOnly(kept, n) ==
    cache' = [k \in DOMAIN kept |-> [val |-> kept[k], block |-> n]]

CacheAll(kept, n) ==
    cache' = [k \in DOMAIN cache \cup DOMAIN kept |->
                IF k \in DOMAIN kept THEN [val |-> kept[k], block |-> n] ELSE cache[k]]

\* Mutant of SetAll: the comparison that decides on the write-through is reversed.
SetAllThrough(batch, ifNotExist, n) ==
    LET kept == Kept(batch, ifNotExist, n)
    IN  /\ CacheAll(kept, n)
        /\ db' = IF n >= flushUpToBlock THEN WrappedSetAll(db, kept, ifNotExist, n) ELSE db
        /\ UNCHANGED flushUpToBlock

\* A block that is already flushed is also written through.
SetAll(batch, ifNotExist, n) ==
    LET kept == Kept(batch, ifNotExist, n)
    IN  /\ CacheAll(kept, n)
        /\ db' = IF n <= flushUpToBlock THEN WrappedSetAll(db, kept, ifNotExist, n) ELSE db
        /\ UNCHANGED flushUpToBlock

\* SetAll returns an error: either the existence check failed before anything
\* was stored, or the write-through failed after the cache was updated.
SetAllFails(batch, ifNotExist, n) ==
    LET kept == Kept(batch, ifNotExist, n)
    IN  \/ /\ ifNotExist /\ \E k \in DOMAIN batch : k \notin DOMAIN cache
           /\ UNCHANGED vars
        \/ /\ DOMAIN kept # {} /\ n <= flushUpToBlock
           /\ CacheAll(kept, n)
           /\ db' \in PartialSetAll(db, kept, ifNotExist, n)
           /\ UNCHANGED flushUpToBlock

-----------------------------------------------------------------------------
(* FlushUpToBlock and EvictUpToBlock *)

\* The cached entries a flush hands to the wrapped store.  They are all written
\* at the flush block, not at the block that set them.
ToFlush(n) ==
    [k \in {k \in DOMAIN cache : cache[k].block <= n} |-> cache[k].val]

FlushUpToBlock(n, ifNotExist) ==
    /\ flushUpToBlock' = n
    /\ db' = WrappedSetAll(db, ToFlush(n), ifNotExist, n)
    /\ cache' = Restrict(cache, DOMAIN cache \ DOMAIN ToFlush(n))

\* Mutant of FlushUpToBlockFails: the entries leave the cache all the same.
FlushFailsAndForgets(n, ifNotExist) ==
    /\ DOMAIN ToFlush(n) # {}
    /\ flushUpToBlock' = n
    /\ db' \in PartialSetAll(db, ToFlush(n), ifNotExist, n)
    /\ cache' = Restrict(cache, DOMAIN cache \ DOMAIN ToFlush(n))

\* The wrapped store failed: the entries stay cached, flushUpToBlock has moved.
FlushUpToBlockFails(n, ifNotExist) ==
    /\ DOMAIN ToFlush(n) # {}
    /\ flushUpToBlock' = n
    /\ db' \in PartialSetAll(db, ToFlush(n), ifNotExist, n)
    /\ UNCHANGED cache

\* Mutant of EvictUpToBlock: the comparison is reversed.
EvictBelow(n) ==
    /\ cache' = Restrict(cache, {k \in DOMAIN cache : cache[k].block >= n})
    /\ UNCHANGED <<db, flushUpToBlock>>

EvictUpToBlock(n) ==
    /\ cache' = Restrict(cache, {k \in DOMAIN cache : cache[k].block < n})
    /\ UNCHANGED <<db, flushUpToBlock>>

-----------------------------------------------------------------------------
(* The store on its own, under callers that never go below the last flush *)

Batches == UNION {[D -> Values] : D \in (SUBSET Keys) \ {{}}}

BlockNumbers == 1..MaxBlock

Init == db = {} /\ NewStore

Write(batch, ifNotExist, n) == n >= flushUpToBlock /\ SetAll(batch, ifNotExist, n)

WriteFails(batch, ifNotExist, n) ==
    n >= flushUpToBlock /\ SetAllFails(batch, ifNotExist, n)

Flush(n, ifNotExist) == n >= flushUpToBlock /\ FlushUpToBlock(n, ifNotExist)

FlushFails(n, ifNotExist) == n >= flushUpToBlock /\ FlushUpToBlockFails(n, ifNotExist)

Evict(n) == n >= flushUpToBlock /\ EvictUpToBlock(n)

Next ==
    \E n \in BlockNumbers :
        \/ \E ifNotExist \in Flags :
              \/ \E batch \in Batches :
                    \/ Write(batch, ifNotExist, n)
                    \/ WriteFails(batch, ifNotExist, n)
              \/ Flush(n, ifNotExist)
              \/ FlushFails(n, ifNotExist)
        \/ Evict(n)

Spec == Init /\ [][Next]_vars

-----------------------------------------------------------------------------
(* Properties *)

\* A flush moves entries from memory to the wrapped store and must not be seen
\* by readers: at and above the flushed block every key reads as before, also
\* when the wrapped store fails half way through the batch.
FlushInvisible ==
    [][(\E n \in BlockNumbers, f \in Flags : Flush(n, f) \/ FlushFails(n, f)) =>
          \A k \in Keys : \A B \in flushUpToBlock'..MaxBlock :
             Get(k, B)' = Get(k, B)]_vars

\* What a reader at the head sees, and what is final, behave as OverlayStore
\* promises: a flush changes nothing, an undo falls back to what is final, and
\* an entry disappears in no other way.
Overlay == INSTANCE OverlayStore WITH
    view  <- [k \in Keys |-> Get(k, MaxBlock)],
    final <- [k \in Keys |-> WrappedGet(db, k, MaxBlock)]

ImplementsOverlay == Overlay!Spec
=============================================================================
