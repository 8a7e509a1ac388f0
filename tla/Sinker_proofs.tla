--------------------------- MODULE Sinker_proofs ---------------------------
(***************************************************************************)
(* Proofs about Sinker, for every tree of blocks, every set of keys, every *)
(* output of the blocks and any number of restarts.                        *)
(***************************************************************************)
EXTENDS Sinker, TLAPS

-----------------------------------------------------------------------------
(* The chain *)

\* Of two ancestors of a block, the one with the smaller number is an ancestor
\* of the other.
LEMMA AncestorByNumber ==
    ASSUME NEW c \in Blocks, NEW a \in Anc[c], NEW b \in Anc[c], Num[a] <= Num[b]
    PROVE  a \in Blocks /\ b \in Blocks /\ a \in Anc[b]
<1>1. a \in Blocks /\ b \in Blocks
  BY ChainAssumption
<1>2. Num[a] \in Nat /\ Num[b] \in Nat
  BY <1>1, ChainAssumption
<1>3. CASE b \in Anc[a]
  <2>1. CASE b = a
    BY <2>1, <1>1, ChainAssumption
  <2>2. CASE b # a
    BY <2>2, <1>1, <1>2, <1>3, ChainAssumption
  <2> QED BY <2>1, <2>2
<1> QED BY <1>1, <1>3, ChainAssumption

\* Ancestry is transitive and never increases the block number.
LEMMA AncestorFacts ==
    ASSUME NEW c \in Blocks, NEW a \in Anc[c]
    PROVE  /\ a \in Blocks
           /\ Anc[a] \subseteq Anc[c]
           /\ Num[a] \in Nat /\ Num[c] \in Nat /\ Num[a] <= Num[c]
<1>1. a \in Blocks /\ Anc[a] \subseteq Anc[c] /\ Num[a] \in Nat /\ Num[c] \in Nat
  BY ChainAssumption
<1>2. a = c \/ Num[a] < Num[c]
  BY ChainAssumption
<1> QED BY <1>1, <1>2

-----------------------------------------------------------------------------
(* The store, one lemma per operation the sinker calls *)

\* A new cache is empty.
LEMMA EmptyCacheFacts ==
    DOMAIN Store!EmptyCache = {} /\ Store!EmptyCache \in [{} -> Store!Slot]
BY DEF Store!EmptyCache, Store!Restrict

\* A put adds versions of the batch at its block and removes others.
LEMMA PutFacts ==
    ASSUME NEW d, NEW batch, NEW n
    PROVE  \A t \in Store!Put(d, batch, n) :
              t \in d \/ \E k \in DOMAIN batch : t = [key |-> k, block |-> n, val |-> batch[k]]
BY DEF Store!Put

\* What a write to the wrapped store adds, complete or not, comes from the batch.
LEMMA WrittenFacts ==
    ASSUME NEW batch, NEW ifNotExist, NEW n,
           \/ db' = Store!WrappedSetAll(db, batch, ifNotExist, n)
           \/ db' \in Store!PartialSetAll(db, batch, ifNotExist, n)
    PROVE  \A t \in db' :
              t \in db \/ \E k \in DOMAIN batch : t = [key |-> k, block |-> n, val |-> batch[k]]
<1> DEFINE admitted == Store!Admitted(db, batch, ifNotExist)
<1>1. DOMAIN admitted \subseteq DOMAIN batch /\ \A k \in DOMAIN admitted : admitted[k] = batch[k]
  BY DEF Store!Admitted, Store!Restrict
<1>2. PICK b2 : /\ DOMAIN b2 \subseteq DOMAIN admitted
                /\ \A k \in DOMAIN b2 : b2[k] = admitted[k]
                /\ db' = Store!Put(db, b2, n)
  <2>1. CASE db' = Store!WrappedSetAll(db, batch, ifNotExist, n)
    BY <2>1 DEF Store!WrappedSetAll
  <2>2. CASE db' \in Store!PartialSetAll(db, batch, ifNotExist, n)
    <3>1. PICK D \in SUBSET DOMAIN admitted : db' = Store!Put(db, Store!Restrict(admitted, D), n)
      BY <2>2 DEF Store!PartialSetAll
    <3> QED BY <3>1 DEF Store!Restrict
  <2> QED BY <2>1, <2>2
<1> HIDE DEF admitted
<1>3. \A t \in db' :
         t \in db \/ \E k \in DOMAIN b2 : t = [key |-> k, block |-> n, val |-> b2[k]]
  BY <1>2, PutFacts
<1> QED BY <1>1, <1>2, <1>3

\* A flush, complete or not, only adds versions of cached entries at or below
\* the flush block, stamped with that block, and changes no cached entry.
LEMMA FlushFacts ==
    ASSUME cache \in [DOMAIN cache -> Store!Slot],
           NEW n, NEW ifNotExist,
           \/ Store!FlushUpToBlock(n, ifNotExist)
           \/ Store!FlushUpToBlockFails(n, ifNotExist)
    PROVE  /\ flushUpToBlock' = n
           /\ \A t \in db' : \/ t \in db
                             \/ \E k \in DOMAIN cache :
                                   /\ cache[k].block <= n
                                   /\ t = [key |-> k, block |-> n, val |-> cache[k].val]
           /\ \E D \in SUBSET DOMAIN cache : cache' = [k \in D |-> cache[k]]
<1> DEFINE batch == Store!ToFlush(n)
<1>1. /\ \A k \in DOMAIN batch : k \in DOMAIN cache /\ cache[k].block <= n
      /\ \A k \in DOMAIN batch : batch[k] = cache[k].val
  BY DEF Store!ToFlush
<1>2. \/ db' = Store!WrappedSetAll(db, batch, ifNotExist, n)
      \/ db' \in Store!PartialSetAll(db, batch, ifNotExist, n)
  BY DEF Store!FlushUpToBlock, Store!FlushUpToBlockFails
<1>3. flushUpToBlock' = n
  BY DEF Store!FlushUpToBlock, Store!FlushUpToBlockFails
<1>4. \E D \in SUBSET DOMAIN cache : cache' = [k \in D |-> cache[k]]
  <2>1. CASE Store!FlushUpToBlock(n, ifNotExist)
    <3>1. cache' = [k \in DOMAIN cache \ DOMAIN batch |-> cache[k]]
      BY <2>1 DEF Store!FlushUpToBlock, Store!Restrict
    <3> HIDE DEF batch
    <3> QED BY <3>1
  <2>2. CASE Store!FlushUpToBlockFails(n, ifNotExist)
    <3>1. cache' = [k \in DOMAIN cache |-> cache[k]]
      BY <2>2 DEF Store!FlushUpToBlockFails
    <3> QED BY <3>1
  <2> QED BY <2>1, <2>2
<1> HIDE DEF batch
<1>5. \A t \in db' :
         t \in db \/ \E k \in DOMAIN batch : t = [key |-> k, block |-> n, val |-> batch[k]]
  BY <1>2, WrittenFacts
<1> QED BY <1>1, <1>3, <1>4, <1>5

\* An eviction keeps some cached entries as they are, none at or above its block.
LEMMA EvictFacts ==
    ASSUME NEW n, Store!EvictUpToBlock(n)
    PROVE  /\ db' = db /\ flushUpToBlock' = flushUpToBlock
           /\ \E D \in SUBSET DOMAIN cache :
                 /\ cache' = [k \in D |-> cache[k]]
                 /\ \A k \in D : cache[k].block < n
<1>1. cache' = [k \in {k \in DOMAIN cache : cache[k].block < n} |-> cache[k]]
  BY DEF Store!EvictUpToBlock, Store!Restrict
<1>2. db' = db /\ flushUpToBlock' = flushUpToBlock
  BY DEF Store!EvictUpToBlock
<1> QED BY <1>1, <1>2

-----------------------------------------------------------------------------
(* The inductive invariant, action by action *)

\* It holds when the process first starts.
LEMMA InitInv == Init => IndInv
<1> SUFFICES ASSUME Init PROVE IndInv
  OBVIOUS
<1> USE DEF Init, NoCursor, Store!NewStore
<1>0. DOMAIN cache = {} /\ cache \in [{} -> Store!Slot] /\ DOMAIN history = {}
  BY EmptyCacheFacts
<1>1. TypeOK
  BY <1>0, ChainAssumption, SinkerAssumption DEF TypeOK, Store!TypeOK, Cursor, PC
<1>2. DurableFinal /\ NoStaleVersion /\ StampsFinal
  BY DEF DurableFinal, NoStaleVersion, StampsFinal
<1>3. CursorsSound /\ FlushBehind /\ HeadLowered
  BY <1>0, ChainAssumption DEF CursorsSound, FlushBehind, HeadLowered
<1>4. CacheCanonical /\ CacheFresh
  BY <1>0 DEF CacheCanonical, CacheFresh
<1> QED BY <1>1, <1>2, <1>3, <1>4 DEF IndInv

\* A block is delivered: the branch grows, and so may what is final.
LEMMA DeliverBlockInv ==
    ASSUME IndInv, NEW b \in Blocks, NEW l \in LibOf[b], NEW n \in HeadOf[b],
           DeliverBlock(b, l, n)
    PROVE  IndInv'
<1> USE DEF IndInv
<1>0. /\ pos' = b /\ lib' = l /\ head' = n /\ final' = Later(final, l)
      /\ pc = "idle" /\ pc' \in {"set", "save"}
      /\ db' = db /\ cache' = cache /\ flushUpToBlock' = flushUpToBlock
      /\ cursorFile' = cursorFile /\ headBlock' = headBlock /\ restarts' = restarts
      /\ b \notin Anc[pos] /\ Anc[b] = Anc[pos] \cup {b}
      /\ lib \in Anc[l] /\ Comparable(b, final)
  BY DEF DeliverBlock, IsChild, storeVars
<1>1. /\ pos \in Blocks /\ lib \in Blocks /\ final \in Blocks /\ l \in Blocks
      /\ l \in Anc[b] /\ pos \in Anc[b] /\ Num[pos] < Num[b]
      /\ Num[lib] <= Num[l] /\ Num[lib] <= Num[pos]
      /\ flushUpToBlock \in Nat
      /\ \A x \in Blocks : Num[x] \in Nat
  <2>1. /\ pos \in Blocks /\ lib \in Blocks /\ final \in Blocks /\ l \in Anc[b]
        /\ flushUpToBlock \in Nat /\ lib \in Anc[pos]
    BY SinkerAssumption DEF TypeOK, Store!TypeOK, CursorsSound
  <2>2. l \in Blocks /\ pos \in Anc[b] /\ pos # b
    BY <2>1, <1>0, ChainAssumption
  <2>3. \A x \in Blocks : Num[x] \in Nat
    BY ChainAssumption
  <2>4. Num[pos] < Num[b]
    BY <2>1, <2>2, ChainAssumption
  <2>5. Num[lib] <= Num[l] /\ Num[lib] <= Num[pos]
    BY <2>1, <2>2, <1>0, AncestorFacts
  <2> QED BY <2>1, <2>2, <2>3, <2>4, <2>5
<1>2. /\ final' \in Blocks /\ final \in Anc[final'] /\ l \in Anc[final']
      /\ Anc[final] \subseteq Anc[final'] /\ Num[final] <= Num[final']
  <2>1. CASE final \in Anc[l]
    <3>1. final' = l
      BY <2>1, <1>0 DEF Later
    <3> QED BY <3>1, <2>1, <1>1, ChainAssumption, AncestorFacts
  <2>2. CASE final \notin Anc[l]
    <3>1. final' = final
      BY <2>2, <1>0 DEF Later
    <3>2. l \in Anc[final]
      <4>1. CASE b \in Anc[final]
        BY <4>1, <1>1, ChainAssumption
      <4>2. CASE final \in Anc[b]
        BY <4>2, <2>2, <1>1, ChainAssumption
      <4> QED BY <4>1, <4>2, <1>0 DEF Comparable
    <3> QED BY <3>1, <3>2, <1>1, ChainAssumption
  <2> QED BY <2>1, <2>2
<1>3. history' = [x \in DOMAIN history \cup {b} |->
           IF x = b THEN [block |-> b, lib |-> l, head |-> n] ELSE history[x]]
  BY DEF DeliverBlock
<1>4. TypeOK'
  <2>0. n \in Nat
    BY SinkerAssumption
  <2>1. DOMAIN history' \subseteq Blocks /\ history' \in [DOMAIN history' -> Cursor]
    BY <1>3, <1>1, <2>0 DEF TypeOK, Cursor
  <2>2. Store!TypeOK'
    BY <1>0 DEF TypeOK, Store!TypeOK
  <2> QED BY <2>0, <2>1, <2>2, <1>0, <1>1, <1>2 DEF TypeOK, PC
<1>5. DurableFinal' /\ StampsFinal'
  <2>1. \A t \in db : t.block \in Nat
    BY DEF TypeOK, Store!TypeOK, Store!Version
  <2> QED BY <2>1, <1>0, <1>1, <1>2 DEF DurableFinal, StampsFinal
<1>6. NoStaleVersion'
  <2> SUFFICES ASSUME NEW t \in db,
                      NEW x \in Anc[final'], t.key \in Writes[x],
                      Num[t.val] < Num[x], Num[x] <= t.block
               PROVE  IfNotExist[x]
    BY <1>0 DEF NoStaleVersion
  <2>1. x \in Blocks /\ t.block \in Nat /\ t.block <= Num[final]
    BY <1>2, ChainAssumption DEF TypeOK, Store!TypeOK, Store!Version, StampsFinal
  <2>2. Num[x] <= Num[final]
    BY <2>1, <1>1
  <2>3. x \in Anc[final]
    BY <2>2, <1>2, AncestorByNumber
  <2> QED BY <2>3 DEF NoStaleVersion
<1>7. CursorsSound'
  <2>1. \A x \in DOMAIN history' :
           history'[x].block = x /\ history'[x].lib \in Anc[x] \cap Anc[final']
    BY <1>3, <1>1, <1>2 DEF CursorsSound
  <2> QED BY <2>1, <1>0, <1>1, <1>2 DEF CursorsSound
<1>8. FlushBehind' /\ HeadLowered'
  BY <1>0, <1>1 DEF FlushBehind, HeadLowered, TypeOK
<1>9. CacheCanonical'
  BY <1>0 DEF CacheCanonical
<1>10. CacheFresh'
  <2> SUFFICES ASSUME NEW k \in DOMAIN cache, NEW x \in Ingested',
                      k \in Writes[x], cache[k].block < Num[x]
               PROVE  IfNotExist[x]
    BY <1>0 DEF CacheFresh
  <2>1. CASE pc' = "set"
    BY <2>1, <1>0 DEF CacheFresh, Ingested
  <2>2. CASE pc' = "save"
    <3>1. CASE x = b
      <4>1. Writes[b] = {}
        BY <2>2 DEF DeliverBlock, HasOutput
      <4> QED BY <3>1, <4>1
    <3>2. CASE x # b
      BY <3>2, <2>2, <1>0 DEF CacheFresh, Ingested
    <3> QED BY <3>1, <3>2
  <2> QED BY <2>1, <2>2, <1>0
<1> QED BY <1>4, <1>5, <1>6, <1>7, <1>8, <1>9, <1>10

\* The entries of the block reach the cache; nothing is written through.
LEMMA StoreSetInv == ASSUME IndInv, StoreSet PROVE IndInv'
<1> USE DEF IndInv
<1>0. /\ pc = "set" /\ pc' = "flush"
      /\ pos' = pos /\ lib' = lib /\ head' = head /\ history' = history /\ cursorFile' = cursorFile
      /\ headBlock' = headBlock /\ final' = final /\ restarts' = restarts
  BY DEF StoreSet
<1>1. /\ pos \in Blocks /\ Num[pos] \in Nat /\ IfNotExist[pos] \in BOOLEAN
      /\ Writes[pos] \subseteq Keys
      /\ pos \in Anc[pos] /\ flushUpToBlock \in Nat /\ flushUpToBlock < Num[pos]
      /\ DOMAIN cache \subseteq Keys /\ cache \in [DOMAIN cache -> Store!Slot]
  BY <1>0, ChainAssumption, SinkerAssumption DEF TypeOK, Store!TypeOK, FlushBehind
<1>2. DOMAIN Entries = Writes[pos] /\ \A k \in Writes[pos] : Entries[k] = pos
  BY DEF Entries
<1> DEFINE entries == Store!Kept(Entries, IfNotExist[pos], Num[pos])
           kept == DOMAIN entries
<1>3. /\ db' = db /\ flushUpToBlock' = flushUpToBlock
      /\ cache' = [k \in DOMAIN cache \cup kept |->
             IF k \in kept THEN [val |-> entries[k], block |-> Num[pos]] ELSE cache[k]]
  BY <1>1 DEF StoreSet, Store!SetAll, Store!CacheAll
<1>4. /\ kept \subseteq Writes[pos]
      /\ (IfNotExist[pos] = FALSE) => kept = Writes[pos]
      /\ \A k \in kept : entries[k] = pos
  BY <1>2 DEF Store!Kept, Store!Restrict
<1> HIDE DEF entries
<1>5. /\ DOMAIN cache' = DOMAIN cache \cup kept
      /\ \A k \in kept : cache'[k].val = pos /\ cache'[k].block = Num[pos]
      /\ \A k \in DOMAIN cache \ kept : cache'[k] = cache[k]
  BY <1>3, <1>4
<1>6. TypeOK'
  <2>1. DOMAIN cache' \subseteq Keys /\ cache' \in [DOMAIN cache' -> Store!Slot]
    BY <1>1, <1>3, <1>4 DEF Store!Slot
  <2> QED BY <2>1, <1>0, <1>3 DEF TypeOK, Store!TypeOK, PC
<1>7. DurableFinal' /\ NoStaleVersion' /\ StampsFinal'
  BY <1>0, <1>3 DEF DurableFinal, NoStaleVersion, StampsFinal
<1>8. CursorsSound' /\ FlushBehind' /\ HeadLowered'
  BY <1>0, <1>3 DEF CursorsSound, FlushBehind, HeadLowered
<1>9. CacheCanonical'
  <2> SUFFICES ASSUME NEW k \in DOMAIN cache'
               PROVE  /\ k \in Writes[cache'[k].val] /\ cache'[k].block = Num[cache'[k].val]
                      /\ cache'[k].val \in Anc[pos]
    BY <1>0 DEF CacheCanonical
  <2>1. CASE k \in kept
    BY <2>1, <1>1, <1>4, <1>5
  <2>2. CASE k \notin kept
    BY <2>2, <1>0, <1>5 DEF CacheCanonical
  <2> QED BY <2>1, <2>2
<1>10. CacheFresh'
  <2> SUFFICES ASSUME NEW k \in DOMAIN cache', NEW b \in Anc[pos],
                      k \in Writes[b], cache'[k].block < Num[b]
               PROVE  IfNotExist[b]
    BY <1>0 DEF CacheFresh, Ingested
  <2>1. CASE k \in kept
    BY <2>1, <1>1, <1>5, AncestorFacts
  <2>2. CASE k \notin kept /\ b = pos
    BY <2>2, <1>4, SinkerAssumption
  <2>3. CASE k \notin kept /\ b # pos
    BY <2>3, <1>0, <1>5 DEF CacheFresh, Ingested
  <2> QED BY <2>1, <2>2, <2>3
<1> QED BY <1>6, <1>7, <1>8, <1>9, <1>10

\* A flush, complete or cut short, writes only final entries, none of them stale.
LEMMA FlushInv ==
    ASSUME IndInv, pc = "flush", pc' \in {"save", "stopped"},
           \/ Store!FlushUpToBlock(Num[lib], IfNotExist[pos])
           \/ Store!FlushUpToBlockFails(Num[lib], IfNotExist[pos]),
           UNCHANGED <<pos, lib, head, history, cursorFile, headBlock, final, restarts>>
    PROVE  IndInv'
<1> USE DEF IndInv
<1>1. /\ pos \in Blocks /\ lib \in Blocks /\ final \in Blocks
      /\ lib \in Anc[pos] /\ lib \in Anc[final]
      /\ Num[lib] \in Nat /\ Num[lib] <= Num[final]
      /\ DOMAIN cache \subseteq Keys /\ cache \in [DOMAIN cache -> Store!Slot]
      /\ \A x \in Blocks : Num[x] \in Nat
  BY ChainAssumption, AncestorFacts DEF TypeOK, Store!TypeOK, CursorsSound
<1>2. /\ flushUpToBlock' = Num[lib]
      /\ \A t \in db' : \/ t \in db
                        \/ \E k \in DOMAIN cache :
                              /\ cache[k].block <= Num[lib]
                              /\ t = [key |-> k, block |-> Num[lib], val |-> cache[k].val]
      /\ \E D \in SUBSET DOMAIN cache : cache' = [k \in D |-> cache[k]]
  <2> DEFINE n == Num[lib] f == IfNotExist[pos]
  <2>1. Store!FlushUpToBlock(n, f) \/ Store!FlushUpToBlockFails(n, f)
    OBVIOUS
  <2> HIDE DEF n, f
  <2>2. /\ flushUpToBlock' = n
        /\ \A t \in db' : \/ t \in db
                          \/ \E k \in DOMAIN cache :
                                /\ cache[k].block <= n
                                /\ t = [key |-> k, block |-> n, val |-> cache[k].val]
        /\ \E D \in SUBSET DOMAIN cache : cache' = [k \in D |-> cache[k]]
    BY <2>1, <1>1, FlushFacts
  <2> QED BY <2>2 DEF n
<1>3. PICK D \in SUBSET DOMAIN cache : cache' = [k \in D |-> cache[k]]
  BY <1>2
<1>4. DOMAIN cache' = D /\ \A k \in D : cache'[k] = cache[k]
  BY <1>3
<1>5. \* an entry the flush takes was written by an ancestor of the LIB
      ASSUME NEW k \in DOMAIN cache, cache[k].block <= Num[lib]
      PROVE  /\ cache[k].val \in Blocks /\ k \in Writes[cache[k].val]
             /\ cache[k].block = Num[cache[k].val]
             /\ cache[k].val \in Anc[final]
  <2>1. /\ cache[k].val \in Anc[pos] /\ cache[k].block = Num[cache[k].val]
        /\ k \in Writes[cache[k].val]
    BY DEF CacheCanonical
  <2>2. cache[k].val \in Anc[lib] /\ cache[k].val \in Blocks
    BY <2>1, <1>1, <1>5, AncestorByNumber
  <2> QED BY <2>1, <2>2, <1>1, AncestorFacts
<1>6. TypeOK'
  <2>1. db' \subseteq Store!Version
    <3> SUFFICES ASSUME NEW t \in db' PROVE t \in Store!Version
      OBVIOUS
    <3>1. CASE t \in db
      BY <3>1 DEF TypeOK, Store!TypeOK
    <3>2. CASE \E k \in DOMAIN cache :
                  /\ cache[k].block <= Num[lib]
                  /\ t = [key |-> k, block |-> Num[lib], val |-> cache[k].val]
      BY <3>2, <1>1, <1>5 DEF Store!Version
    <3> QED BY <3>1, <3>2, <1>2
  <2>2. DOMAIN cache' \subseteq Keys /\ cache' \in [DOMAIN cache' -> Store!Slot]
    BY <1>1, <1>3, <1>4
  <2> QED BY <2>1, <2>2, <1>1, <1>2 DEF TypeOK, Store!TypeOK, PC
<1>7. DurableFinal' /\ StampsFinal'
  BY <1>1, <1>2, <1>5 DEF DurableFinal, StampsFinal
<1>8. NoStaleVersion'
  <2> SUFFICES ASSUME NEW t \in db'
               PROVE  /\ t.key \in Writes[t.val]
                      /\ \A b \in Anc[final] :
                            t.key \in Writes[b] /\ Num[t.val] < Num[b] /\ Num[b] <= t.block
                               => IfNotExist[b]
    BY DEF NoStaleVersion
  <2>1. CASE t \in db
    BY <2>1 DEF NoStaleVersion
  <2>2. ASSUME NEW k \in DOMAIN cache, cache[k].block <= Num[lib],
               t = [key |-> k, block |-> Num[lib], val |-> cache[k].val]
        PROVE  /\ t.key \in Writes[t.val]
               /\ \A b \in Anc[final] :
                     t.key \in Writes[b] /\ Num[t.val] < Num[b] /\ Num[b] <= t.block
                        => IfNotExist[b]
    <3>1. t.key = k /\ t.block = Num[lib] /\ t.val = cache[k].val /\ cache[k].block = Num[t.val]
      BY <2>2, <1>5
    <3>2. ASSUME NEW b \in Anc[final], k \in Writes[b], cache[k].block < Num[b],
                 Num[b] <= Num[lib]
          PROVE  IfNotExist[b]
      <4>1. b \in Anc[lib]
        BY <3>2, <1>1, AncestorByNumber
      <4>2. b \in Anc[pos]
        BY <4>1, <1>1, AncestorFacts
      <4> QED BY <4>2, <3>2 DEF CacheFresh, Ingested
    <3> QED BY <2>2, <3>1, <3>2, <1>5
  <2> QED BY <2>1, <2>2, <1>2
<1>9. CursorsSound' /\ FlushBehind' /\ HeadLowered'
  BY <1>1, <1>2 DEF CursorsSound, FlushBehind, HeadLowered
<1>10. CacheCanonical'
  BY <1>4 DEF CacheCanonical
<1>11. CacheFresh'
  BY <1>4 DEF CacheFresh, Ingested
<1> QED BY <1>6, <1>7, <1>8, <1>9, <1>10, <1>11

\* Saving the cursor of the LIB, or the current one, saves a sound cursor.
LEMMA SaveCursorInv == ASSUME IndInv, SaveCursor PROVE IndInv'
<1> USE DEF IndInv
<1>0. /\ pc = "save" /\ pc' = "finish" /\ cursorFile' = LibCursor
      /\ db' = db /\ cache' = cache /\ flushUpToBlock' = flushUpToBlock
      /\ pos' = pos /\ lib' = lib /\ head' = head /\ history' = history
      /\ headBlock' = headBlock /\ final' = final /\ restarts' = restarts
  BY DEF SaveCursor, storeVars
<1>1. LibCursor \in Cursor /\ LibCursor.lib \in Anc[LibCursor.block] \cap Anc[final]
  BY DEF LibCursor, CurrentCursor, Cursor, TypeOK, CursorsSound
<1>2. TypeOK'
  BY <1>0, <1>1 DEF TypeOK, Store!TypeOK, PC
<1>3. DurableFinal' /\ NoStaleVersion' /\ StampsFinal'
  BY <1>0 DEF DurableFinal, NoStaleVersion, StampsFinal
<1>4. CursorsSound' /\ FlushBehind' /\ HeadLowered'
  BY <1>0, <1>1 DEF CursorsSound, FlushBehind, HeadLowered
<1>5. CacheCanonical' /\ CacheFresh'
  BY <1>0 DEF CacheCanonical, CacheFresh, Ingested
<1> QED BY <1>2, <1>3, <1>4, <1>5

\* Finishing a block publishes the number of the current block.
LEMMA FinishInv == ASSUME IndInv, Finish PROVE IndInv'
<1> USE DEF IndInv
<1>0. /\ pc = "finish" /\ pc' = "idle" /\ headBlock' = Num[pos]
      /\ db' = db /\ cache' = cache /\ flushUpToBlock' = flushUpToBlock
      /\ pos' = pos /\ lib' = lib /\ head' = head /\ cursorFile' = cursorFile
      /\ final' = final /\ restarts' = restarts
      /\ history' = [x \in {x \in DOMAIN history : Num[x] > Num[lib]} |-> history[x]]
  BY DEF Finish, storeVars
<1>1. Num[pos] \in Nat
  BY ChainAssumption DEF TypeOK
<1>2. TypeOK'
  BY <1>0, <1>1 DEF TypeOK, Store!TypeOK, PC
<1>3. DurableFinal' /\ NoStaleVersion' /\ StampsFinal'
  BY <1>0 DEF DurableFinal, NoStaleVersion, StampsFinal
<1>4. CursorsSound' /\ FlushBehind' /\ HeadLowered'
  BY <1>0, <1>1 DEF CursorsSound, FlushBehind, HeadLowered
<1>5. CacheCanonical' /\ CacheFresh'
  BY <1>0 DEF CacheCanonical, CacheFresh, Ingested
<1> QED BY <1>2, <1>3, <1>4, <1>5

\* An undo signal: cached entries are of the remaining branch or above its head.
LEMMA DeliverUndoInv ==
    ASSUME IndInv, NEW v \in Blocks, NEW n \in HeadOf[v], DeliverUndo(v, n) PROVE IndInv'
<1> USE DEF IndInv
<1>0. /\ pc = "idle" /\ pc' = "evict" /\ pos' = v /\ head' = n /\ headBlock' = Num[v]
      /\ v \in Anc[pos] /\ lib \in Anc[v]
      /\ db' = db /\ cache' = cache /\ flushUpToBlock' = flushUpToBlock
      /\ lib' = lib /\ history' = history /\ cursorFile' = cursorFile
      /\ final' = final /\ restarts' = restarts
  BY DEF DeliverUndo, storeVars
<1>1. pos \in Blocks /\ Num[v] \in Nat /\ Anc[v] \subseteq Anc[pos] /\ \A x \in Blocks : Num[x] \in Nat
  BY <1>0, ChainAssumption DEF TypeOK
<1>2. TypeOK'
  BY <1>0, <1>1, SinkerAssumption DEF TypeOK, Store!TypeOK, PC
<1>3. DurableFinal' /\ NoStaleVersion' /\ StampsFinal'
  BY <1>0 DEF DurableFinal, NoStaleVersion, StampsFinal
<1>4. CursorsSound' /\ FlushBehind' /\ HeadLowered'
  BY <1>0, <1>1 DEF CursorsSound, FlushBehind, HeadLowered
<1>5. CacheCanonical'
  <2> SUFFICES ASSUME NEW k \in DOMAIN cache
               PROVE  cache[k].val \in Anc[v] \/ Num[cache[k].val] > Num[v]
    BY <1>0 DEF CacheCanonical
  <2>1. cache[k].val \in Anc[pos] /\ cache[k].val \in Blocks
    BY <1>0, <1>1, ChainAssumption DEF CacheCanonical
  <2>2. CASE Num[cache[k].val] <= Num[v]
    BY <2>1, <2>2, <1>0, <1>1, AncestorByNumber
  <2>3. CASE ~(Num[cache[k].val] <= Num[v])
    BY <2>1, <2>3, <1>1
  <2> QED BY <2>2, <2>3
<1>6. CacheFresh'
  BY <1>0, <1>1 DEF CacheFresh, Ingested
<1> QED BY <1>2, <1>3, <1>4, <1>5, <1>6

\* The eviction leaves only entries of the branch the sinker is on.
LEMMA StoreEvictInv == ASSUME IndInv, StoreEvict PROVE IndInv'
<1> USE DEF IndInv
<1>0. /\ pc = "evict" /\ pc' = "save_undo"
      /\ pos' = pos /\ lib' = lib /\ head' = head /\ history' = history /\ cursorFile' = cursorFile
      /\ headBlock' = headBlock /\ final' = final /\ restarts' = restarts
  BY DEF StoreEvict
<1>1. Num[pos] \in Nat /\ DOMAIN cache \subseteq Keys /\ cache \in [DOMAIN cache -> Store!Slot]
  BY ChainAssumption DEF TypeOK, Store!TypeOK
<1>2. /\ db' = db /\ flushUpToBlock' = flushUpToBlock
      /\ \E D \in SUBSET DOMAIN cache :
            cache' = [k \in D |-> cache[k]] /\ \A k \in D : cache[k].block < Num[pos]
  <2> DEFINE n == Num[pos]
  <2>1. Store!EvictUpToBlock(n)
    BY DEF StoreEvict
  <2> HIDE DEF n
  <2>2. /\ db' = db /\ flushUpToBlock' = flushUpToBlock
        /\ \E D \in SUBSET DOMAIN cache :
              cache' = [k \in D |-> cache[k]] /\ \A k \in D : cache[k].block < n
    BY <2>1, EvictFacts
  <2> QED BY <2>2 DEF n
<1>3. PICK D \in SUBSET DOMAIN cache :
            cache' = [k \in D |-> cache[k]] /\ \A k \in D : cache[k].block < Num[pos]
  BY <1>2
<1>4. DOMAIN cache' = D /\ \A k \in D : cache'[k] = cache[k]
  BY <1>3
<1>5. TypeOK'
  BY <1>0, <1>1, <1>2, <1>3, <1>4 DEF TypeOK, Store!TypeOK, PC
<1>6. DurableFinal' /\ NoStaleVersion' /\ StampsFinal'
  BY <1>0, <1>2 DEF DurableFinal, NoStaleVersion, StampsFinal
<1>7. CursorsSound' /\ FlushBehind' /\ HeadLowered'
  BY <1>0, <1>2 DEF CursorsSound, FlushBehind, HeadLowered
<1>8. CacheCanonical'
  <2> SUFFICES ASSUME NEW k \in D
               PROVE  /\ k \in Writes[cache[k].val] /\ cache[k].block = Num[cache[k].val]
                      /\ cache[k].val \in Anc[pos]
    BY <1>0, <1>4 DEF CacheCanonical
  <2>1. cache[k].block < Num[pos] /\ cache[k].block \in Nat
    BY <1>1, <1>3 DEF Store!Slot
  <2>2. headBlock = Num[pos]
    BY <1>0 DEF HeadLowered
  <2> QED BY <2>1, <2>2, <1>1, <1>3 DEF CacheCanonical
<1>9. CacheFresh'
  BY <1>0, <1>4 DEF CacheFresh, Ingested
<1> QED BY <1>5, <1>6, <1>7, <1>8, <1>9

\* The cursor of the undo is saved, or not.
LEMMA SaveUndoCursorInv == ASSUME IndInv, SaveUndoCursor PROVE IndInv'
<1> USE DEF IndInv
<1>0. /\ pc = "save_undo" /\ pc' = "idle"
      /\ cursorFile' = CurrentCursor \/ cursorFile' = cursorFile
      /\ db' = db /\ cache' = cache /\ flushUpToBlock' = flushUpToBlock
      /\ pos' = pos /\ lib' = lib /\ head' = head /\ history' = history
      /\ headBlock' = headBlock /\ final' = final /\ restarts' = restarts
  BY DEF SaveUndoCursor, storeVars
<1>1. cursorFile' \in Cursor /\ cursorFile'.lib \in Anc[cursorFile'.block] \cap Anc[final]
  BY <1>0 DEF CurrentCursor, Cursor, TypeOK, CursorsSound
<1>2. TypeOK'
  BY <1>0, <1>1 DEF TypeOK, Store!TypeOK, PC
<1>3. DurableFinal' /\ NoStaleVersion' /\ StampsFinal'
  BY <1>0 DEF DurableFinal, NoStaleVersion, StampsFinal
<1>4. CursorsSound' /\ FlushBehind' /\ HeadLowered'
  BY <1>0, <1>1 DEF CursorsSound, FlushBehind, HeadLowered
<1>5. CacheCanonical' /\ CacheFresh'
  BY <1>0 DEF CacheCanonical, CacheFresh, Ingested
<1> QED BY <1>2, <1>3, <1>4, <1>5

\* Stopping with the store untouched changes nothing but the step.
LEMMA StopInv ==
    ASSUME IndInv, pc' = "stopped", UNCHANGED storeVars,
           UNCHANGED <<pos, lib, head, history, cursorFile, headBlock, final, restarts>>
    PROVE  IndInv'
<1> USE DEF IndInv
<1>1. TypeOK'
  BY DEF TypeOK, Store!TypeOK, PC, storeVars
<1>2. DurableFinal' /\ NoStaleVersion' /\ StampsFinal'
  BY DEF DurableFinal, NoStaleVersion, StampsFinal, storeVars
<1>3. CursorsSound' /\ FlushBehind' /\ HeadLowered'
  BY DEF CursorsSound, FlushBehind, HeadLowered, storeVars
<1>4. CacheCanonical' /\ CacheFresh'
  BY DEF CacheCanonical, CacheFresh, storeVars
<1> QED BY <1>1, <1>2, <1>3, <1>4

\* A handler that fails and a process that dies leave what the store had, or
\* what a flush cut short made of it.
LEMMA HandlerFailsInv == ASSUME IndInv, HandlerFails PROVE IndInv'
<1>1. /\ pc' = "stopped"
      /\ UNCHANGED <<pos, lib, head, history, cursorFile, headBlock, final, restarts>>
  BY DEF HandlerFails
<1>2. CASE UNCHANGED storeVars
  BY <1>1, <1>2, StopInv
<1>3. CASE pc = "set" /\ Store!SetAllFails(Entries, IfNotExist[pos], Num[pos])
  <2>1. flushUpToBlock \in Nat /\ Num[pos] \in Nat /\ flushUpToBlock < Num[pos]
    BY <1>3, ChainAssumption DEF IndInv, TypeOK, Store!TypeOK, FlushBehind
  <2>2. UNCHANGED storeVars
    BY <1>3, <2>1 DEF Store!SetAllFails, Store!vars, storeVars
  <2> QED BY <1>1, <2>2, StopInv
<1>4. CASE pc = "flush" /\ Store!FlushUpToBlockFails(Num[lib], IfNotExist[pos])
  BY <1>1, <1>4, FlushInv
<1> QED BY <1>2, <1>3, <1>4 DEF HandlerFails

LEMMA CrashInv == ASSUME IndInv, Crash PROVE IndInv'
<1>1. /\ pc' = "stopped"
      /\ UNCHANGED <<pos, lib, head, history, cursorFile, headBlock, final, restarts>>
  BY DEF Crash
<1>2. CASE UNCHANGED storeVars
  BY <1>1, <1>2, StopInv
<1>3. CASE pc = "flush" /\ Store!FlushUpToBlockFails(Num[lib], IfNotExist[pos])
  BY <1>1, <1>3, FlushInv
<1> QED BY <1>2, <1>3 DEF Crash

\* A restart begins with nothing in memory, at a sound cursor.
LEMMA RestartInv == ASSUME IndInv, Restart PROVE IndInv'
<1> USE DEF IndInv
<1>0. /\ pc' = "idle" /\ db' = db /\ final' = final
      /\ restarts < MaxRestarts /\ restarts' = restarts + 1
      /\ cache' = Store!EmptyCache /\ flushUpToBlock' = 0
      /\ history' = [b \in {} |-> NoCursor]
      /\ pos' = cursorFile'.block /\ lib' = cursorFile'.lib
      /\ head' = cursorFile'.head /\ headBlock' = cursorFile'.head
      /\ cursorFile' \in {cursorFile, NoCursor}
  BY DEF Restart, Store!Reopen
<1>1. /\ cursorFile' \in Cursor
      /\ cursorFile'.lib \in Anc[cursorFile'.block] \cap Anc[final]
  BY <1>0, ChainAssumption DEF Cursor, NoCursor, TypeOK, CursorsSound
<1>2. DOMAIN cache' = {} /\ cache' \in [{} -> Store!Slot] /\ DOMAIN history' = {}
  BY <1>0, EmptyCacheFacts
<1>3. /\ pos' \in Blocks /\ lib' \in Blocks /\ lib' \in Anc[pos'] \cap Anc[final]
      /\ head' \in Nat /\ headBlock' \in Nat
      /\ Num[pos'] \in Nat /\ Num[lib'] \in Nat
  BY <1>0, <1>1, ChainAssumption DEF Cursor
<1>4. TypeOK'
  BY <1>0, <1>1, <1>2, <1>3, SinkerAssumption DEF TypeOK, Store!TypeOK, PC
<1>5. DurableFinal' /\ NoStaleVersion' /\ StampsFinal'
  BY <1>0 DEF DurableFinal, NoStaleVersion, StampsFinal
<1>6. CursorsSound' /\ FlushBehind' /\ HeadLowered'
  BY <1>0, <1>1, <1>2, <1>3 DEF CursorsSound, FlushBehind, HeadLowered
<1>7. CacheCanonical' /\ CacheFresh'
  BY <1>2 DEF CacheCanonical, CacheFresh
<1> QED BY <1>4, <1>5, <1>6, <1>7

-----------------------------------------------------------------------------
(* The invariant and what it implies *)

\* Every step of the sinker preserves the invariant.
LEMMA NextInv == ASSUME IndInv, [Next]_vars PROVE IndInv'
<1>1. CASE Deliver
  BY <1>1, DeliverBlockInv DEF Deliver
<1>2. CASE StoreSet
  BY <1>2, StoreSetInv
<1>3. CASE StoreFlush
  BY <1>3, FlushInv DEF StoreFlush
<1>4. CASE SaveCursor
  BY <1>4, SaveCursorInv
<1>5. CASE Finish
  BY <1>5, FinishInv
<1>6. CASE Undo
  BY <1>6, DeliverUndoInv DEF Undo
<1>7. CASE StoreEvict
  BY <1>7, StoreEvictInv
<1>8. CASE SaveUndoCursor
  BY <1>8, SaveUndoCursorInv
<1>9. CASE HandlerFails
  BY <1>9, HandlerFailsInv
<1>10. CASE Crash
  BY <1>10, CrashInv
<1>11. CASE Restart
  BY <1>11, RestartInv
<1>12. CASE UNCHANGED vars
  BY <1>12 DEF vars, storeVars, IndInv, TypeOK, Store!TypeOK, DurableFinal, NoStaleVersion,
               StampsFinal, CursorsSound, FlushBehind, CacheCanonical, CacheFresh, Ingested,
               HeadLowered
<1> QED BY <1>1, <1>2, <1>3, <1>4, <1>5, <1>6, <1>7, <1>8, <1>9, <1>10, <1>11, <1>12
        DEF Next, HandleBlock, HandleUndo

\* The invariant is inductive: it holds in every reachable state of the sinker.
THEOREM Invariance == Spec => []IndInv
<1>1. IndInv /\ [Next]_vars => IndInv'
  BY NextInv
<1> QED BY <1>1, InitInv, PTL DEF Spec

\* Every variable keeps its type.
THEOREM TypeCorrect == Spec => []TypeOK
<1>1. IndInv => TypeOK
  BY DEF IndInv
<1> QED BY <1>1, Invariance, PTL

\* Whatever fails, is replayed or reorganised, the disk only ever holds entries
\* of final blocks, none stamped below the block that wrote it.
THEOREM DiskIsFinal == Spec => []DurableFinal
<1>1. IndInv => DurableFinal
  BY DEF IndInv
<1> QED BY <1>1, Invariance, PTL

\* A version on disk is never stale at the number it is stamped with, although
\* a flush stamps its entries with the LIB and not with their own block.
THEOREM DiskIsFresh == Spec => []NoStaleVersion
<1>1. IndInv => NoStaleVersion
  BY DEF IndInv
<1> QED BY <1>1, Invariance, PTL

\* A value found on disk was written for the key, by a final block not above
\* the requested one.
LEMMA DiskRead ==
    ASSUME IndInv, NEW k, NEW B \in Nat, NEW w \in Store!WrappedGet(db, k, B)
    PROVE  w \in Anc[final] /\ k \in Writes[w] /\ Num[w] \in Nat /\ Num[w] <= B
<1>1. PICK t \in db : t.key = k /\ t.block <= B /\ w = t.val
  BY DEF Store!WrappedGet, Store!Newest
<1>2. w \in Anc[final] /\ Num[w] <= t.block /\ k \in Writes[w]
  BY <1>1 DEF IndInv, DurableFinal, NoStaleVersion
<1>3. t.block \in Nat /\ Num[w] \in Nat
  BY <1>1, ChainAssumption DEF IndInv, TypeOK, Store!TypeOK, Store!Version
<1> QED BY <1>1, <1>2, <1>3

\* A cached value a reader can see was written by a block of the branch the
\* sinker is on.
LEMMA CacheRead ==
    ASSUME IndInv, NEW B \in 0..headBlock, NEW k, Store!Overlays(k, B)
    PROVE  /\ cache[k].val \in Anc[pos] /\ k \in Writes[cache[k].val]
           /\ Num[cache[k].val] <= B
<1>1. /\ k \in DOMAIN cache /\ cache[k].block <= B
      /\ k \in Writes[cache[k].val] /\ cache[k].block = Num[cache[k].val]
      /\ cache[k].val \in Anc[pos] \/ Num[cache[k].val] > headBlock
  BY DEF Store!Overlays, IndInv, CacheCanonical
<1>2. headBlock \in Nat
  BY DEF IndInv, TypeOK
<1>3. cache[k].block \in Nat
  BY <1>1 DEF IndInv, TypeOK, Store!TypeOK, Store!Slot
<1> QED BY <1>1, <1>2, <1>3

LEMMA ReadsCanonical == IndInv => CanonicalRead
<1> SUFFICES ASSUME IndInv, NEW k \in Keys, NEW B \in 0..headBlock, NEW w \in Store!Get(k, B)
             PROVE  k \in Writes[w] /\ Num[w] <= B /\ w \in Anc[pos] \cup Anc[final]
  BY DEF CanonicalRead, Answerable
<1>1. headBlock \in Nat /\ B \in Nat
  BY DEF IndInv, TypeOK
<1>2. CASE Store!Overlays(k, B)
  <2>1. w = cache[k].val
    BY <1>2 DEF Store!Get
  <2> QED BY <1>2, <2>1, CacheRead
<1>3. CASE ~Store!Overlays(k, B)
  <2>1. w \in Store!WrappedGet(db, k, B)
    BY <1>3 DEF Store!Get
  <2> QED BY <1>1, <2>1, DiskRead
<1> QED BY <1>2, <1>3

\* Between any two steps of the sinker, whatever was undone, lost or replayed,
\* an answer to a request the head lets through comes from the branch the
\* sinker is on, or from final blocks, and from no block above the requested one.
THEOREM AnswersAreCanonical == Spec => []CanonicalRead
BY Invariance, ReadsCanonical, PTL

LEMMA FirstReadsCanonical == IndInv => CanonicalFirst
<1> SUFFICES ASSUME IndInv, NEW k \in Keys, NEW B \in 0..headBlock,
                    NEW w \in Store!GetFirst(k, B)
             PROVE  w \in Anc[pos] \cup Anc[final]
  BY DEF CanonicalFirst, Answerable
<1>1. headBlock \in Nat /\ B \in Nat
  BY DEF IndInv, TypeOK
<1>2. CASE Store!Overlays(k, B)
  <2>1. w = cache[k].val
    BY <1>2 DEF Store!GetFirst
  <2> QED BY <1>2, <2>1, CacheRead
<1>3. CASE ~Store!Overlays(k, B) /\ TimeTraversal
  <2>1. PICK t \in db : w = t.val
    BY <1>3 DEF Store!GetFirst, Store!WrappedGetFirst, Store!Oldest
  <2> QED BY <2>1 DEF IndInv, DurableFinal
<1>4. CASE ~Store!Overlays(k, B) /\ ~TimeTraversal
  <2>1. w \in Store!WrappedGet(db, k, B)
    BY <1>4 DEF Store!GetFirst, Store!WrappedGetFirst
  <2> QED BY <2>1, <1>1, DiskRead
<1> QED BY <1>2, <1>3, <1>4

\* GetFirst, too, never answers from an orphaned block.
THEOREM FirstAnswersAreCanonical == Spec => []CanonicalFirst
BY Invariance, FirstReadsCanonical, PTL
=============================================================================
