------------------------- MODULE SinkerReads_proofs -------------------------
(***************************************************************************)
(* Proofs about what the store a sinker drives answers: that an answer up  *)
(* to the flushed block does not change, and where the answers are exactly *)
(* what the chain says.  The hypotheses of a theorem name the modes of the *)
(* program in which it holds; the findings show what happens outside them. *)
(***************************************************************************)
EXTENDS Sinker_proofs

-----------------------------------------------------------------------------
(* Answers up to the flushed block do not change *)

\* What a process holds in memory is above what it flushed.
CacheAbove == pc # "stopped" => \A k \in DOMAIN cache : flushUpToBlock < cache[k].block

SettledInv == IndInv /\ CacheAbove

\* The entries of a block are cached, all at the block; the others stay.
LEMMA SetFacts ==
    ASSUME IndInv, StoreSet
    PROVE  LET kept == DOMAIN Store!Kept(Entries, IfNotExist[pos], Num[pos])
           IN  /\ db' = db /\ flushUpToBlock' = flushUpToBlock
               /\ kept \subseteq Writes[pos] /\ DOMAIN cache' = DOMAIN cache \cup kept
               /\ \A k \in kept : cache'[k] = [val |-> pos, block |-> Num[pos]]
               /\ \A k \in DOMAIN cache \ kept : cache'[k] = cache[k]
<1>1. flushUpToBlock \in Nat /\ Num[pos] \in Nat /\ flushUpToBlock < Num[pos]
  BY ChainAssumption DEF IndInv, TypeOK, Store!TypeOK, FlushBehind, StoreSet
<1> DEFINE entries == Store!Kept(Entries, IfNotExist[pos], Num[pos])
           kept == DOMAIN entries
<1>2. /\ db' = db /\ flushUpToBlock' = flushUpToBlock
      /\ cache' = [k \in DOMAIN cache \cup kept |->
             IF k \in kept THEN [val |-> entries[k], block |-> Num[pos]] ELSE cache[k]]
  BY <1>1 DEF StoreSet, Store!SetAll, Store!CacheAll
<1>3. kept \subseteq Writes[pos] /\ \A k \in kept : entries[k] = pos
  BY DEF Store!Kept, Store!Restrict, Entries
<1> HIDE DEF entries
<1>4. /\ DOMAIN cache' = DOMAIN cache \cup kept
      /\ \A k \in kept : cache'[k] = [val |-> pos, block |-> Num[pos]]
      /\ \A k \in DOMAIN cache \ kept : cache'[k] = cache[k]
  BY <1>2, <1>3
<1> QED BY <1>2, <1>3, <1>4 DEF entries

\* A flush empties the cache up to its block and leaves the rest.
LEMMA FlushCacheFacts ==
    ASSUME NEW n, NEW f, Store!FlushUpToBlock(n, f)
    PROVE  /\ DOMAIN cache' = {k \in DOMAIN cache : ~(cache[k].block <= n)}
           /\ \A k \in DOMAIN cache' : cache'[k] = cache[k]
<1> DEFINE D == {k \in DOMAIN cache : ~(cache[k].block <= n)}
<1>1. DOMAIN cache \ DOMAIN Store!ToFlush(n) = D
  BY DEF Store!ToFlush
<1>2. cache' = [k \in D |-> cache[k]]
  BY <1>1 DEF Store!FlushUpToBlock, Store!Restrict
<1> HIDE DEF D
<1>3. DOMAIN cache' = D /\ \A k \in DOMAIN cache' : cache'[k] = cache[k]
  BY <1>2
<1> QED BY <1>3 DEF D

LEMMA SettledNext == ASSUME SettledInv, [Next]_vars PROVE CacheAbove'
<1> USE DEF SettledInv
<1>0. /\ pos \in Blocks /\ lib \in Blocks /\ Num[pos] \in Nat /\ Num[lib] \in Nat
      /\ flushUpToBlock \in Nat /\ \A k \in DOMAIN cache : cache[k].block \in Nat
  BY ChainAssumption DEF IndInv, TypeOK, Store!TypeOK, Store!Slot
<1>1. CASE pc' = "stopped"
  BY <1>1 DEF CacheAbove
<1>2. CASE pc' # "stopped" /\ cache' = cache /\ flushUpToBlock' = flushUpToBlock /\ pc # "stopped"
  BY <1>2 DEF CacheAbove
<1>3. CASE StoreSet
  <2> DEFINE kept == DOMAIN Store!Kept(Entries, IfNotExist[pos], Num[pos])
  <2>1. /\ flushUpToBlock' = flushUpToBlock /\ DOMAIN cache' = DOMAIN cache \cup kept
        /\ \A k \in kept : cache'[k] = [val |-> pos, block |-> Num[pos]]
        /\ \A k \in DOMAIN cache \ kept : cache'[k] = cache[k]
    BY <1>3, SetFacts
  <2>2. pc = "set" /\ flushUpToBlock < Num[pos]
    BY <1>3 DEF StoreSet, IndInv, FlushBehind
  <2> HIDE DEF kept
  <2> SUFFICES ASSUME NEW k \in DOMAIN cache' PROVE flushUpToBlock < cache'[k].block
    BY <2>1 DEF CacheAbove
  <2>3. CASE k \in kept
    BY <2>1, <2>2, <2>3
  <2>4. CASE k \notin kept
    BY <2>1, <2>2, <2>4 DEF CacheAbove
  <2> QED BY <2>3, <2>4
<1>4. CASE StoreFlush
  <2>1. /\ DOMAIN cache' = {k \in DOMAIN cache : ~(cache[k].block <= Num[lib])}
        /\ \A k \in DOMAIN cache' : cache'[k] = cache[k]
    BY <1>4, FlushCacheFacts DEF StoreFlush
  <2>2. flushUpToBlock' = Num[lib]
    BY <1>4 DEF StoreFlush, Store!FlushUpToBlock
  <2> QED BY <1>0, <2>1, <2>2 DEF CacheAbove
<1>5. CASE StoreEvict
  <2>1. pc = "evict"
    BY <1>5 DEF StoreEvict
  <2>2. /\ flushUpToBlock' = flushUpToBlock
        /\ \E D \in SUBSET DOMAIN cache : cache' = [k \in D |-> cache[k]]
    <3> DEFINE n == Num[pos]
    <3>1. Store!EvictUpToBlock(n)
      BY <1>5 DEF StoreEvict
    <3> HIDE DEF n
    <3> QED BY <3>1, EvictFacts
  <2> QED BY <2>1, <2>2 DEF CacheAbove
<1>6. CASE Restart
  <2>1. DOMAIN cache' = {}
    BY <1>6, EmptyCacheFacts DEF Restart, Store!Reopen
  <2> QED BY <2>1 DEF CacheAbove
<1>7. CASE Deliver
  BY <1>2, <1>7 DEF Deliver, DeliverBlock, storeVars
<1>8. CASE SaveCursor \/ Finish \/ SaveUndoCursor \/ Undo
  BY <1>2, <1>8 DEF SaveCursor, Finish, SaveUndoCursor, Undo, DeliverUndo, storeVars
<1>9. CASE HandlerFails \/ Crash
  BY <1>1, <1>9 DEF HandlerFails, Crash
<1>10. CASE UNCHANGED vars
  BY <1>1, <1>2, <1>10 DEF vars
<1> QED BY <1>3, <1>4, <1>5, <1>6, <1>7, <1>8, <1>9, <1>10 DEF Next, HandleBlock, HandleUndo

\* A flush writes nothing below its block, and at its block only what is cached there.
LEMMA FlushKeepsBelow ==
    ASSUME TimeTraversal, SettledInv, StoreFlush,
           NEW k, NEW B \in 0..flushUpToBlock
    PROVE  Store!WrappedGet(db', k, B) = Store!WrappedGet(db, k, B)
<1> DEFINE n == Num[lib]
           admitted == Store!Admitted(db, Store!ToFlush(n), IfNotExist[pos])
<1>0. /\ n \in Nat /\ flushUpToBlock \in Nat /\ flushUpToBlock <= n /\ B \in Nat
      /\ \A j \in DOMAIN cache : cache[j].block \in Nat /\ flushUpToBlock < cache[j].block
      /\ \A t \in db : t.block \in Nat
  BY ChainAssumption DEF SettledInv, IndInv, TypeOK, Store!TypeOK, Store!Slot, Store!Version,
                         FlushBehind, StoreFlush, CacheAbove
<1>1. db' = {t \in db : t.key \in DOMAIN admitted => t.block # n}
               \cup {[key |-> j, block |-> n, val |-> admitted[j]] : j \in DOMAIN admitted}
  BY DEF StoreFlush, Store!FlushUpToBlock, Store!WrappedSetAll, Store!Put
<1>2. \A j \in DOMAIN admitted : flushUpToBlock < n
  BY <1>0 DEF Store!Admitted, Store!Restrict, Store!ToFlush
<1> HIDE DEF admitted, n
<1>3. \A t : t \in db' /\ t.block <= B <=> t \in db /\ t.block <= B
  <2> SUFFICES ASSUME NEW t PROVE t \in db' /\ t.block <= B <=> t \in db /\ t.block <= B
    OBVIOUS
  <2>1. CASE DOMAIN admitted = {}
    BY <1>1, <2>1
  <2>2. CASE DOMAIN admitted # {}
    <3>1. B < n
      BY <1>0, <1>2, <2>2
    <3>2. \A j \in DOMAIN admitted : ~([key |-> j, block |-> n, val |-> admitted[j]].block <= B)
      BY <1>0, <3>1
    <3>3. \A u \in db : u.block <= B => u.block # n
      BY <1>0, <3>1
    <3> QED BY <1>1, <3>2, <3>3
  <2> QED BY <2>1, <2>2
<1>4. Store!Newest(db', k, B) = Store!Newest(db, k, B)
  BY <1>3 DEF Store!Newest
<1> QED BY <1>4 DEF Store!WrappedGet

\* A step within the life of a process, other than the flush, leaves the disk alone.
LEMMA OnlyFlushWrites ==
    ASSUME SettledInv, [Next]_vars, restarts' = restarts, pc' # "stopped"
    PROVE  StoreFlush \/ (db' = db /\ flushUpToBlock' = flushUpToBlock)
<1>1. restarts \in Nat
  BY SinkerAssumption DEF SettledInv, IndInv, TypeOK
<1>2. CASE Deliver
  BY <1>2 DEF Deliver, DeliverBlock, storeVars
<1>3. CASE StoreSet
  BY <1>3, SetFacts DEF SettledInv
<1>4. CASE SaveCursor \/ Finish \/ SaveUndoCursor \/ Undo
  BY <1>4 DEF SaveCursor, Finish, SaveUndoCursor, Undo, DeliverUndo, storeVars
<1>5. CASE StoreEvict
  BY <1>5 DEF StoreEvict, Store!EvictUpToBlock
<1>6. CASE HandlerFails \/ Crash
  BY <1>6 DEF HandlerFails, Crash
<1>7. CASE Restart
  BY <1>1, <1>7 DEF Restart
<1>8. CASE UNCHANGED vars
  BY <1>8 DEF vars
<1> QED BY <1>2, <1>3, <1>4, <1>5, <1>6, <1>7, <1>8 DEF Next, HandleBlock, HandleUndo

\* Only a restart leads out of the stopped state.
LEMMA OnlyRestartStarts ==
    ASSUME SettledInv, [Next]_vars, restarts' = restarts, pc' # "stopped"
    PROVE  pc # "stopped"
<1>1. restarts \in Nat
  BY SinkerAssumption DEF SettledInv, IndInv, TypeOK
<1>2. CASE Deliver
  BY <1>2 DEF Deliver, DeliverBlock
<1>3. CASE HandleBlock
  BY <1>3 DEF HandleBlock, StoreSet, StoreFlush, SaveCursor, Finish
<1>4. CASE HandleUndo \/ Undo
  BY <1>4 DEF HandleUndo, StoreEvict, SaveUndoCursor, Undo, DeliverUndo
<1>5. CASE HandlerFails \/ Crash
  BY <1>5 DEF HandlerFails, Crash
<1>6. CASE Restart
  BY <1>1, <1>6 DEF Restart
<1>7. CASE UNCHANGED vars
  BY <1>7 DEF vars
<1> QED BY <1>2, <1>3, <1>4, <1>5, <1>6, <1>7 DEF Next

\* Between restarts no step changes what Get answers up to the flushed block.
LEMMA SettledStep ==
    ASSUME TimeTraversal, SettledInv, [Next]_vars, restarts' = restarts, pc' # "stopped",
           NEW k, NEW B \in 0..flushUpToBlock
    PROVE  Store!Get(k, B)' = Store!Get(k, B)
<1>1. pc # "stopped"
  BY OnlyRestartStarts
<1>2. CacheAbove' /\ IndInv'
  BY SettledNext, NextInv DEF SettledInv
<1>3. flushUpToBlock' \in Nat /\ flushUpToBlock \in Nat /\ flushUpToBlock <= flushUpToBlock'
  <2>1. flushUpToBlock' \in Nat /\ flushUpToBlock \in Nat /\ flushUpToBlock <= Num[lib]
    BY <1>2 DEF SettledInv, IndInv, TypeOK, Store!TypeOK, FlushBehind
  <2>2. CASE StoreFlush
    BY <2>1, <2>2 DEF StoreFlush, Store!FlushUpToBlock
  <2> QED BY <2>1, <2>2, OnlyFlushWrites
<1>4. ~Store!Overlays(k, B)
  <2>1. \A j \in DOMAIN cache : cache[j].block \in Nat /\ flushUpToBlock < cache[j].block
    BY <1>1 DEF SettledInv, IndInv, TypeOK, Store!TypeOK, Store!Slot, CacheAbove
  <2> QED BY <2>1, <1>3 DEF Store!Overlays
<1>5. ~Store!Overlays(k, B)'
  <2>1. \A j \in DOMAIN cache' : cache'[j].block \in Nat /\ flushUpToBlock' < cache'[j].block
    BY <1>2 DEF IndInv, TypeOK, Store!TypeOK, Store!Slot, CacheAbove
  <2> QED BY <2>1, <1>3 DEF Store!Overlays
<1>6. Store!WrappedGet(db', k, B) = Store!WrappedGet(db, k, B)
  BY OnlyFlushWrites, FlushKeepsBelow
<1> QED BY <1>4, <1>5, <1>6 DEF Store!Get

LEMMA SettledInvariance == Spec => []SettledInv
<1>1. Init => CacheAbove
  <2> SUFFICES ASSUME Init PROVE CacheAbove
    OBVIOUS
  <2>1. DOMAIN cache = {}
    BY EmptyCacheFacts DEF Init, Store!NewStore
  <2> QED BY <2>1 DEF CacheAbove
<1>2. SettledInv /\ [Next]_vars => SettledInv'
  BY SettledNext, NextInv DEF SettledInv
<1> QED BY <1>1, <1>2, InitInv, PTL DEF Spec, SettledInv

\* With badger_time_traversal, an answer to Get at or below the flushed block is
\* given again for as long as the process runs: no block set, flushed or undone
\* later, on whatever branch, rewrites that history.
THEOREM HistoryIsSettled == ASSUME TimeTraversal PROVE Spec => SettledHistory
<1>1. ASSUME SettledInv, [Next]_vars PROVE
         restarts' = restarts /\ pc' # "stopped" =>
            \A k \in Keys : \A B \in 0..flushUpToBlock : Store!Get(k, B)' = Store!Get(k, B)
  BY <1>1, SettledStep
<1> QED BY <1>1, SettledInvariance, PTL DEF Spec, SettledHistory
-----------------------------------------------------------------------------
(* The sinker is a caller the promises of the store are made to *)

\* A step of ForkAwareStore!Next at any block number, or a new process.
StoreCall ==
    \/ Store!Reopen
    \/ \E n \in Nat \ {0} :
          \/ \E f \in BOOLEAN :
                \/ \E batch \in Store!Batches :
                      Store!Write(batch, f, n) \/ Store!WriteFails(batch, f, n)
                \/ Store!Flush(n, f) \/ Store!FlushFails(n, f)
          \/ Store!Evict(n)

\* Cached entries are above the start of the stream, which wrote nothing.
LEMMA CachedAboveRoot ==
    ASSUME IndInv, NEW k \in DOMAIN cache
    PROVE  cache[k].block \in Nat \ {0}
<1>1. /\ cache[k].val \in Blocks /\ cache[k].block \in Nat
      /\ k \in Writes[cache[k].val] /\ cache[k].block = Num[cache[k].val]
  BY DEF IndInv, TypeOK, Store!TypeOK, Store!Slot, CacheCanonical
<1>2. cache[k].val # Root
  BY <1>1, SinkerAssumption
<1> QED BY <1>1, <1>2, ChainAssumption

\* A set has a block above the last flush; one without entries changes nothing.
LEMMA SetIsCall ==
    ASSUME IndInv, StoreSet PROVE [StoreCall]_storeVars
<1>1. /\ pos \in Blocks /\ Num[pos] \in Nat \ {0} /\ flushUpToBlock \in Nat
      /\ flushUpToBlock < Num[pos]
      /\ IfNotExist[pos] \in BOOLEAN /\ Writes[pos] \in SUBSET Keys
  BY ChainAssumption, SinkerAssumption
     DEF StoreSet, IndInv, TypeOK, Store!TypeOK, FlushBehind
<1>2. CASE Writes[pos] = {}
  <2>1. db' = db /\ flushUpToBlock' = flushUpToBlock
    BY SetFacts
  <2>2. DOMAIN cache' = DOMAIN cache /\ \A k \in DOMAIN cache : cache'[k] = cache[k]
    BY <1>2, SetFacts
  <2>3. cache = [k \in DOMAIN cache |-> cache[k]]
    BY DEF IndInv, TypeOK, Store!TypeOK
  <2>4. cache' = [k \in DOMAIN cache' |-> cache'[k]]
    BY DEF StoreSet, Store!SetAll, Store!CacheAll
  <2>5. cache' = cache
    BY <2>2, <2>3, <2>4
  <2> QED BY <2>1, <2>5 DEF storeVars
<1>3. CASE Writes[pos] # {}
  <2>1. Entries \in Store!Batches
    <3>1. Entries \in [Writes[pos] -> Blocks] /\ Writes[pos] \in (SUBSET Keys) \ {{}}
      BY <1>1, <1>3 DEF Entries
    <3> QED BY <3>1 DEF Store!Batches
  <2>2. Store!Write(Entries, IfNotExist[pos], Num[pos])
    BY <1>1 DEF StoreSet, Store!Write
  <2> QED BY <1>1, <2>1, <2>2 DEF StoreCall
<1> QED BY <1>2, <1>3

\* A flush is at or above the last one; at the start of the stream it is empty.
LEMMA FlushIsCall ==
    ASSUME IndInv, pc = "flush",
           \/ Store!FlushUpToBlock(Num[lib], IfNotExist[pos])
           \/ Store!FlushUpToBlockFails(Num[lib], IfNotExist[pos])
    PROVE  [StoreCall]_storeVars
<1>1. /\ Num[lib] \in Nat /\ flushUpToBlock \in Nat /\ flushUpToBlock <= Num[lib]
      /\ IfNotExist[pos] \in BOOLEAN
  BY ChainAssumption, SinkerAssumption DEF IndInv, TypeOK, Store!TypeOK, FlushBehind
<1>2. CASE Num[lib] # 0
  <2>1. Store!Flush(Num[lib], IfNotExist[pos]) \/ Store!FlushFails(Num[lib], IfNotExist[pos])
    BY <1>1 DEF Store!Flush, Store!FlushFails
  <2> QED BY <1>1, <1>2, <2>1 DEF StoreCall
<1>3. CASE Num[lib] = 0
  <2>1. DOMAIN Store!ToFlush(Num[lib]) = {}
    BY <1>3, CachedAboveRoot DEF Store!ToFlush
  <2>2. Store!FlushUpToBlock(Num[lib], IfNotExist[pos])
    BY <2>1 DEF Store!FlushUpToBlockFails
  <2>3. flushUpToBlock' = flushUpToBlock
    BY <1>1, <1>3, <2>2 DEF Store!FlushUpToBlock
  <2>4. cache' = cache
    <3>1. cache = [k \in DOMAIN cache |-> cache[k]]
      BY DEF IndInv, TypeOK, Store!TypeOK
    <3> QED BY <2>1, <2>2, <3>1 DEF Store!FlushUpToBlock, Store!Restrict
  <2>5. db' = db
    <3> DEFINE batch == Store!Admitted(db, Store!ToFlush(Num[lib]), IfNotExist[pos])
    <3>1. DOMAIN batch = {}
      BY <2>1 DEF Store!Admitted, Store!Restrict
    <3>2. db' = Store!Put(db, batch, Num[lib])
      BY <2>2 DEF Store!FlushUpToBlock, Store!WrappedSetAll
    <3> HIDE DEF batch
    <3> QED BY <3>1, <3>2 DEF Store!Put
  <2> QED BY <2>3, <2>4, <2>5 DEF storeVars
<1> QED BY <1>2, <1>3

\* An undo is above the last flush; one to the start of the stream clears the cache.
LEMMA EvictIsCall ==
    ASSUME IndInv, StoreEvict PROVE StoreCall
<1>1. /\ Num[pos] \in Nat /\ flushUpToBlock \in Nat /\ flushUpToBlock <= Num[pos]
  <2>1. /\ pos \in Blocks /\ lib \in Anc[pos] /\ flushUpToBlock \in Nat
        /\ flushUpToBlock <= Num[lib]
    BY DEF IndInv, TypeOK, Store!TypeOK, CursorsSound, FlushBehind
  <2> QED BY <2>1, AncestorFacts
<1>2. Store!EvictUpToBlock(Num[pos])
  BY DEF StoreEvict
<1>3. CASE Num[pos] # 0
  <2>1. Store!Evict(Num[pos])
    BY <1>1, <1>2 DEF Store!Evict
  <2> QED BY <1>1, <1>3, <2>1 DEF StoreCall
<1>4. CASE Num[pos] = 0
  <2>1. {k \in DOMAIN cache : cache[k].block < Num[pos]} = {k \in DOMAIN cache : cache[k].block < 1}
    BY <1>4, CachedAboveRoot
  <2>2. cache' = Store!Restrict(cache, {k \in DOMAIN cache : cache[k].block < Num[pos]})
        /\ UNCHANGED <<db, flushUpToBlock>>
    BY <1>2 DEF Store!EvictUpToBlock
  <2>3. Store!EvictUpToBlock(1)
    BY <2>1, <2>2 DEF Store!EvictUpToBlock
  <2>4. 1 >= flushUpToBlock
    BY <1>1, <1>4
  <2>5. Store!Evict(1)
    BY <2>3, <2>4 DEF Store!Evict
  <2> QED BY <2>5 DEF StoreCall
<1> QED BY <1>3, <1>4

LEMMA StepIsCall ==
    ASSUME IndInv, [Next]_vars PROVE [StoreCall]_storeVars
<1>1. CASE HandlerFails \/ Crash
  <2>1. CASE pc = "set" /\ Store!SetAllFails(Entries, IfNotExist[pos], Num[pos])
    <3>1. flushUpToBlock \in Nat /\ Num[pos] \in Nat /\ flushUpToBlock < Num[pos]
      BY <2>1, ChainAssumption DEF IndInv, TypeOK, Store!TypeOK, FlushBehind
    <3> QED BY <2>1, <3>1 DEF Store!SetAllFails, Store!vars, storeVars
  <2> QED BY <1>1, <2>1, FlushIsCall DEF HandlerFails, Crash
<1>2. CASE StoreSet \/ StoreEvict
  BY <1>2, SetIsCall, EvictIsCall
<1>3. CASE StoreFlush
  BY <1>3, FlushIsCall DEF StoreFlush
<1>4. CASE Restart
  BY <1>4 DEF Restart, StoreCall
<1>5. CASE Deliver \/ SaveCursor \/ Finish \/ SaveUndoCursor \/ Undo
  BY <1>5 DEF Deliver, DeliverBlock, SaveCursor, Finish, SaveUndoCursor, Undo, DeliverUndo, storeVars
<1>6. CASE UNCHANGED vars
  BY <1>6 DEF vars, storeVars
<1> QED BY <1>1, <1>2, <1>3, <1>4, <1>5, <1>6 DEF Next, HandleBlock, HandleUndo

\* Every step of a sinker is, for the store, a call its specification allows or a
\* new process: no set, flush or undo goes below the last flush, whatever is
\* undone, lost or replayed.  So the promises proved of the store on its own are
\* made to this caller, until a restart opens the store over a filled disk.
THEOREM SinkerRespectsStore == Spec => [][StoreCall]_storeVars
BY Invariance, StepIsCall, PTL DEF Spec

-----------------------------------------------------------------------------
(* One branch, one flag: the head reads exactly as the chain says *)

\* The blocks of S that write k, and the one whose entry holds after all of S.
Wrote(k, S) == {w \in S : k \in Writes[w]}

Holding(k, S) ==
    {w \in Wrote(k, S) :
        /\ IfNotExist[w] => \A v \in Wrote(k, S) : Num[w] <= Num[v]
        /\ \A v \in Wrote(k, S) : Num[w] < Num[v] => IfNotExist[v]}

\* A block that writes k without the flag, or first, holds after it.
LEMMA HoldingTaken ==
    ASSUME NEW k, NEW b \in Blocks, NEW S \in SUBSET Blocks,
           \A v \in S : Num[v] < Num[b],
           k \in Writes[b], ~IfNotExist[b] \/ Wrote(k, S) = {}
    PROVE  Holding(k, S \cup {b}) = {b}
<1>1. Num[b] \in Nat /\ \A v \in S : Num[v] \in Nat
  BY ChainAssumption
<1>2. Wrote(k, S \cup {b}) = Wrote(k, S) \cup {b} /\ Wrote(k, S) \subseteq S
  BY DEF Wrote
<1>3. b \in Holding(k, S \cup {b})
  BY <1>1, <1>2 DEF Holding
<1>4. ASSUME NEW w \in Holding(k, S \cup {b}), w # b PROVE FALSE
  <2>1. w \in Wrote(k, S) /\ Num[w] < Num[b] /\ b \in Wrote(k, S \cup {b})
    BY <1>2, <1>4 DEF Holding
  <2>2. IfNotExist[b] /\ Wrote(k, S) # {}
    BY <2>1 DEF Holding
  <2> QED BY <2>2
<1> QED BY <1>3, <1>4

\* A block that does not write k, or whose flag finds an earlier write, changes
\* nothing for k.
LEMMA HoldingKept ==
    ASSUME NEW k, NEW b \in Blocks, NEW S \in SUBSET Blocks,
           \A v \in S : Num[v] < Num[b],
           k \in Writes[b] => IfNotExist[b] /\ Wrote(k, S) # {}
    PROVE  Holding(k, S \cup {b}) = Holding(k, S)
<1>1. Num[b] \in Nat /\ \A v \in S : Num[v] \in Nat
  BY ChainAssumption
<1>2. CASE k \notin Writes[b]
  <2>1. Wrote(k, S \cup {b}) = Wrote(k, S)
    BY <1>2 DEF Wrote
  <2> QED BY <2>1 DEF Holding
<1>3. CASE k \in Writes[b]
  <2>1. Wrote(k, S \cup {b}) = Wrote(k, S) \cup {b} /\ Wrote(k, S) \subseteq S
    BY <1>3 DEF Wrote
  <2>2. b \notin Holding(k, S \cup {b})
    <3>1. PICK v \in Wrote(k, S) : TRUE
      BY <1>3
    <3> QED BY <3>1, <2>1, <1>1, <1>3 DEF Holding
  <2>3. ASSUME NEW w \in Wrote(k, S)
        PROVE  w \in Holding(k, S \cup {b}) <=> w \in Holding(k, S)
    <3>1. Num[w] < Num[b] /\ Num[w] \in Nat
      BY <1>1, <2>1
    <3> QED BY <3>1, <2>1, <1>1, <1>3 DEF Holding
  <2> QED BY <2>1, <2>2, <2>3 DEF Holding
<1> QED BY <1>2, <1>3

\* The newest version of a key on disk, and what the store holds of the key.
Latest(k) == {t \in db : t.key = k /\ \A u \in db : u.key = k => u.block <= t.block}

Held(k) == IF k \in DOMAIN cache THEN {cache[k].val} ELSE {t.val : t \in Latest(k)}

\* Every block with output has the same flag; with IfNotExist no key extends
\* another one, so that the existence test is exact.
OneFlag ==
    \/ \A b \in Blocks : ~IfNotExist[b]
    \/ (\A b \in Blocks : IfNotExist[b]) /\ \A k \in Keys : Extensions[k] = {k}

\* Nothing is undone and nothing has failed; the disk holds nothing above the flushed
\* block; memory and disk together hold, of every key, what the ingested blocks
\* left there; with IfNotExist a cached key is not on disk.
TipInv ==
    /\ IndInv
    /\ pc \in {"idle", "set", "flush", "save", "finish"}
    /\ final = lib
    /\ pc = "idle" => headBlock = Num[pos]
    /\ \A t \in db : t.block <= flushUpToBlock
    /\ \A k \in Keys : /\ Held(k) = Holding(k, Ingested)
                       /\ Held(k) = {} => Wrote(k, Ingested) = {}
    /\ (\A b \in Blocks : IfNotExist[b]) =>
          \A k \in DOMAIN cache : \A t \in db : t.key # k

LEMMA TipInit == Init => TipInv
<1> SUFFICES ASSUME Init PROVE TipInv
  OBVIOUS
<1> USE DEF Init, Store!NewStore
<1>1. IndInv
  BY InitInv
<1>2. DOMAIN cache = {} /\ db = {}
  BY EmptyCacheFacts
<1>3. Ingested = {Root}
  <2>1. \A a \in Anc[Root] : a = Root
    BY ChainAssumption
  <2> QED BY <2>1, ChainAssumption DEF Ingested
<1>4. \A k \in Keys : Held(k) = {} /\ Wrote(k, Ingested) = {} /\ Holding(k, Ingested) = {}
  BY <1>2, <1>3, SinkerAssumption DEF Held, Latest, Wrote, Holding
<1> QED BY <1>1, <1>2, <1>4, ChainAssumption DEF TipInv

\* A block is delivered: what is ingested writes the same entries.
LEMMA TipDeliver ==
    ASSUME TipInv, IndInv', NEW b \in Blocks, NEW l \in LibOf[b], NEW n \in HeadOf[b],
           DeliverBlock(b, l, n)
    PROVE  TipInv'
<1>0. /\ pos' = b /\ lib' = l /\ final' = Later(final, l)
      /\ pc = "idle" /\ pc' = (IF HasOutput(b) THEN "set" ELSE "save")
      /\ db' = db /\ cache' = cache /\ flushUpToBlock' = flushUpToBlock
      /\ Anc[b] = Anc[pos] \cup {b} /\ b \notin Anc[pos] /\ lib \in Anc[l]
  BY DEF DeliverBlock, IsChild, storeVars
<1>1. final' = l
  BY <1>0 DEF TipInv, Later
<1>2. \A k : Wrote(k, Ingested') = Wrote(k, Ingested)
  <2>1. CASE HasOutput(b)
    BY <1>0, <2>1 DEF Ingested
  <2>2. CASE ~HasOutput(b)
    BY <1>0, <2>2 DEF Ingested, HasOutput, Wrote
  <2> QED BY <2>1, <2>2
<1>3. \A k : Held(k)' = Held(k) /\ Holding(k, Ingested)' = Holding(k, Ingested)
            /\ Wrote(k, Ingested)' = Wrote(k, Ingested)
  BY <1>0, <1>2 DEF Held, Latest, Holding, Wrote
<1> QED BY <1>0, <1>1, <1>3 DEF TipInv

\* What is on disk of a key comes from the ingested blocks.
LEMMA TipStored ==
    ASSUME TipInv, pc = "set", NEW t \in db
    PROVE  /\ t.key \in Keys /\ t.block \in Nat /\ t.block < Num[pos]
           /\ t.val \in Wrote(t.key, Ingested)
<1> USE DEF TipInv
<1>1. /\ t.key \in Keys /\ t.block \in Nat /\ t.val \in Blocks
      /\ pos \in Blocks /\ Num[pos] \in Nat /\ Num[t.val] \in Nat
      /\ flushUpToBlock \in Nat /\ flushUpToBlock < Num[pos]
  BY ChainAssumption DEF IndInv, TypeOK, Store!TypeOK, Store!Version, FlushBehind
<1>2. t.block < Num[pos]
  BY <1>1
<1>3. t.val \in Anc[final] /\ Num[t.val] <= t.block /\ t.key \in Writes[t.val]
  BY DEF IndInv, DurableFinal, NoStaleVersion
<1>4. t.val \in Anc[pos]
  BY <1>1, <1>3, ChainAssumption DEF IndInv, CursorsSound
<1>5. t.val # pos
  BY <1>1, <1>2, <1>3
<1> QED BY <1>1, <1>2, <1>3, <1>4, <1>5 DEF Ingested, Wrote

\* Below the block being set, the lookup of the existence check finds the
\* newest version there is.
LEMMA TipLookup ==
    ASSUME TipInv, NEW k, NEW n \in Nat, \A t \in db : t.block <= n
    PROVE  Store!WrappedGet(db, k, n) = {t.val : t \in Latest(k)}
<1>1. Store!Newest(db, k, n) = Latest(k)
  BY DEF Store!Newest, Latest
<1> QED BY <1>1 DEF Store!WrappedGet

\* The entries of the block reach the cache as the chain says.
LEMMA TipSet ==
    ASSUME TipInv, IndInv', StoreSet PROVE TipInv'
<1> USE DEF TipInv
<1> DEFINE S == Anc[pos] \ {pos}
           kept == DOMAIN Store!Kept(Entries, IfNotExist[pos], Num[pos])
<1>0. /\ pc = "set" /\ pc' = "flush"
      /\ pos' = pos /\ lib' = lib /\ final' = final /\ headBlock' = headBlock
      /\ db' = db /\ flushUpToBlock' = flushUpToBlock
      /\ kept \subseteq Writes[pos] /\ DOMAIN cache' = DOMAIN cache \cup kept
      /\ \A k \in kept : cache'[k] = [val |-> pos, block |-> Num[pos]]
      /\ \A k \in DOMAIN cache \ kept : cache'[k] = cache[k]
  BY SetFacts DEF StoreSet
<1>1. /\ pos \in Blocks /\ Num[pos] \in Nat /\ Writes[pos] \subseteq Keys
      /\ S \in SUBSET Blocks /\ Ingested = S /\ Ingested' = S \cup {pos}
      /\ \A v \in S : Num[v] < Num[pos]
  BY <1>0, ChainAssumption, SinkerAssumption DEF IndInv, TypeOK, Ingested
<1>2. \A t \in db : t.block \in Nat /\ t.block <= Num[pos]
  BY <1>0, <1>1, TipStored
<1>3. \A k : k \in kept <=>
         k \in Writes[pos] /\ (IfNotExist[pos] =>
             k \notin DOMAIN cache /\ {t.val : t \in Latest(k)} = {})
  <2>1. DOMAIN Entries = Writes[pos]
    BY DEF Entries
  <2>2. \A k : Store!WrappedGet(db, k, Num[pos]) = {t.val : t \in Latest(k)}
    BY <1>1, <1>2, TipLookup
  <2> QED BY <2>1, <2>2 DEF Store!Kept, Store!Restrict
<1> HIDE DEF kept, S
<1>4. \A k : Latest(k)' = Latest(k)
  BY <1>0 DEF Latest
<1>5. ASSUME NEW k \in kept
      PROVE  Held(k)' = {pos} /\ Holding(k, S \cup {pos}) = {pos}
             /\ (IfNotExist[pos] => Wrote(k, S) = {})
  <2>1. Held(k)' = {pos}
    BY <1>0 DEF Held
  <2>2. k \in Writes[pos] /\ k \in Keys
    BY <1>0, <1>1
  <2>3. IfNotExist[pos] => Wrote(k, S) = {}
    BY <1>1, <1>3, <2>2 DEF Held
  <2> QED BY <1>1, <2>1, <2>2, <2>3, HoldingTaken
<1>6. ASSUME NEW k \in Keys, k \notin kept
      PROVE  Held(k)' = Held(k) /\ Holding(k, S \cup {pos}) = Holding(k, S)
             /\ (Wrote(k, S) = {} => Wrote(k, S \cup {pos}) = {})
  <2>1. Held(k)' = Held(k)
    BY <1>0, <1>4, <1>6 DEF Held
  <2>2. k \in Writes[pos] => IfNotExist[pos] /\ Wrote(k, S) # {}
    <3>1. k \in Writes[pos] => IfNotExist[pos] /\ Held(k) # {}
      BY <1>3, <1>6 DEF Held
    <3>2. Held(k) = Holding(k, S) /\ Holding(k, S) \subseteq Wrote(k, S)
      BY <1>1 DEF Holding
    <3> QED BY <3>1, <3>2
  <2>3. Wrote(k, S) = {} => Wrote(k, S \cup {pos}) = {}
    BY <2>2 DEF Wrote
  <2> QED BY <1>1, <2>1, <2>2, <2>3, HoldingKept
<1>7. \A k \in Keys : /\ Held(k)' = Holding(k, Ingested')
                      /\ Held(k)' = {} => Wrote(k, Ingested') = {}
  <2> SUFFICES ASSUME NEW k \in Keys
               PROVE  /\ Held(k)' = Holding(k, Ingested')
                      /\ Held(k)' = {} => Wrote(k, Ingested') = {}
    OBVIOUS
  <2>1. CASE k \in kept
    BY <1>1, <1>5, <2>1
  <2>2. CASE k \notin kept
    BY <1>1, <1>6, <2>2
  <2> QED BY <2>1, <2>2
<1>8. ASSUME \A b \in Blocks : IfNotExist[b], NEW k \in DOMAIN cache', NEW t \in db
      PROVE  t.key # k
  <2>1. CASE k \in kept
    BY <1>0, <1>1, <1>5, <1>8, <2>1, TipStored
  <2>2. CASE k \notin kept
    BY <1>0, <1>8, <2>2
  <2> QED BY <2>1, <2>2
<1> QED BY <1>0, <1>7, <1>8 DEF Holding, Wrote

\* With one flag no entry of a flush is dropped by the existence test.
LEMMA FlushAdmitsAll ==
    ASSUME OneFlag, TipInv, pc = "flush", NEW n
    PROVE  Store!Admitted(db, Store!ToFlush(n), IfNotExist[pos]) = Store!ToFlush(n)
<1> DEFINE batch == Store!ToFlush(n)
<1>1. \A k \in DOMAIN batch : IfNotExist[pos] => ~Store!Exists(db, k)
  <2> SUFFICES ASSUME NEW k \in DOMAIN batch, IfNotExist[pos], Store!Exists(db, k) PROVE FALSE
    OBVIOUS
  <2>1. k \in DOMAIN cache /\ k \in Keys /\ pos \in Blocks
    BY DEF Store!ToFlush, TipInv, IndInv, TypeOK, Store!TypeOK
  <2>2. (\A b \in Blocks : IfNotExist[b]) /\ Extensions[k] = {k}
    BY <2>1 DEF OneFlag
  <2>3. \E t \in db : t.key = k
    BY <2>2 DEF Store!Exists
  <2> QED BY <2>1, <2>2, <2>3 DEF TipInv
<1>2. batch = [k \in DOMAIN batch |-> batch[k]]
  BY DEF Store!ToFlush
<1> HIDE DEF batch
<1>3. {k \in DOMAIN batch : IfNotExist[pos] => ~Store!Exists(db, k)} = DOMAIN batch
  BY <1>1
<1>4. Store!Admitted(db, batch, IfNotExist[pos]) = batch
  BY <1>2, <1>3 DEF Store!Admitted, Store!Restrict
<1> QED BY <1>4 DEF batch

\* A flush moves what the store holds from memory to disk and changes none of it.
LEMMA TipFlush ==
    ASSUME OneFlag, TipInv, IndInv', StoreFlush PROVE TipInv'
<1> USE DEF TipInv
<1> DEFINE n == Num[lib]
           F == {k \in DOMAIN cache : cache[k].block <= n}
<1>0. /\ pc = "flush" /\ pc' = "save"
      /\ pos' = pos /\ lib' = lib /\ final' = final /\ headBlock' = headBlock
      /\ flushUpToBlock' = n
  BY DEF StoreFlush, Store!FlushUpToBlock
<1>1. /\ n \in Nat /\ flushUpToBlock \in Nat /\ flushUpToBlock <= n
      /\ \A t \in db : t.block \in Nat /\ t.block <= n
  BY ChainAssumption DEF IndInv, TypeOK, Store!TypeOK, Store!Version, FlushBehind
<1>2. DOMAIN cache' = DOMAIN cache \ F /\ \A k \in DOMAIN cache' : cache'[k] = cache[k]
  BY FlushCacheFacts DEF StoreFlush
<1>3. db' = {t \in db : t.key \in F => TimeTraversal /\ t.block # n}
               \cup {[key |-> k, block |-> n, val |-> cache[k].val] : k \in F}
  <2>1. /\ DOMAIN Store!ToFlush(n) = F
        /\ \A k \in F : Store!ToFlush(n)[k] = cache[k].val
    BY DEF Store!ToFlush
  <2>2. db' = Store!Put(db, Store!ToFlush(n), n)
    BY <1>0, FlushAdmitsAll DEF StoreFlush, Store!FlushUpToBlock, Store!WrappedSetAll
  <2> HIDE DEF F, n
  <2> QED BY <2>1, <2>2 DEF Store!Put
<1> HIDE DEF n, F
<1>4. \A t \in db' : t.block <= n
  BY <1>1, <1>3
<1>5. ASSUME NEW k \in F PROVE {t.val : t \in Latest(k)'} = {cache[k].val}
  <2> DEFINE new == [key |-> k, block |-> n, val |-> cache[k].val]
  <2>1. new \in db' /\ new.key = k /\ new.block = n /\ new.val = cache[k].val
    BY <1>3, <1>5
  <2>2. \A t \in db' : t.key = k /\ t # new => t \in db /\ t.block # n
    BY <1>3, <1>5
  <2> HIDE DEF new
  <2>3. \A t \in db' : t.key = k /\ t # new => ~(n <= t.block)
    BY <1>1, <2>2
  <2>4. Latest(k)' = {new}
    BY <1>4, <2>1, <2>3 DEF Latest
  <2> QED BY <2>1, <2>4
<1>6. ASSUME NEW k, k \notin F PROVE Latest(k)' = Latest(k)
  <2>1. \A t : t \in db' /\ t.key = k <=> t \in db /\ t.key = k
    BY <1>3, <1>6
  <2> QED BY <2>1 DEF Latest
<1>7. \A k : Held(k)' = Held(k)
  <2> SUFFICES ASSUME NEW k PROVE Held(k)' = Held(k)
    OBVIOUS
  <2>1. CASE k \in F
    <3>1. k \in DOMAIN cache /\ k \notin DOMAIN cache'
      BY <1>2, <2>1 DEF F
    <3> QED BY <1>5, <2>1, <3>1 DEF Held
  <2>2. CASE k \notin F
    BY <1>2, <1>6, <2>2 DEF Held
  <2> QED BY <2>1, <2>2
<1>8. ASSUME \A b \in Blocks : IfNotExist[b], NEW k \in DOMAIN cache', NEW t \in db'
      PROVE  t.key # k
  BY <1>2, <1>3, <1>8
<1>9. \A k : Holding(k, Ingested)' = Holding(k, Ingested) /\ Wrote(k, Ingested)' = Wrote(k, Ingested)
  BY <1>0 DEF Ingested, Holding, Wrote
<1> QED BY <1>0, <1>4, <1>7, <1>8, <1>9

\* The other steps leave the store and what is ingested as they are.
LEMMA TipOther ==
    ASSUME TipInv, IndInv', SaveCursor \/ Finish PROVE TipInv'
<1> USE DEF TipInv
<1>1. /\ pos' = pos /\ lib' = lib /\ final' = final
      /\ db' = db /\ cache' = cache /\ flushUpToBlock' = flushUpToBlock
      /\ pc \in {"save", "finish"} /\ pc' \in {"idle", "finish"}
      /\ pc' = "idle" => headBlock' = Num[pos]
  BY DEF SaveCursor, Finish, storeVars
<1>2. \A k : Held(k)' = Held(k)
  BY <1>1 DEF Held, Latest
<1>3. \A k : Holding(k, Ingested)' = Holding(k, Ingested) /\ Wrote(k, Ingested)' = Wrote(k, Ingested)
  BY <1>1 DEF Ingested, Holding, Wrote
<1> QED BY <1>1, <1>2, <1>3

LEMMA TipNext ==
    ASSUME ~CanUndo, OneFlag, TipInv, [Next]_vars PROVE TipInv' \/ pc' = "stopped"
<1>1. IndInv'
  BY NextInv DEF TipInv
<1>3. CASE Deliver
  BY <1>1, <1>3, TipDeliver DEF Deliver
<1>4. CASE HandleBlock
  BY <1>1, <1>4, TipSet, TipFlush, TipOther DEF HandleBlock
<1>5. CASE HandleUndo \/ Undo
  BY <1>5 DEF HandleUndo, StoreEvict, SaveUndoCursor, Undo, DeliverUndo, TipInv
<1>6. CASE HandlerFails \/ Crash \/ Restart
  BY <1>6 DEF HandlerFails, Crash, Restart, TipInv
<1>7. CASE UNCHANGED vars
  <2>1. \A k : Held(k)' = Held(k)
    BY <1>7 DEF vars, Held, Latest
  <2>2. \A k : Holding(k, Ingested)' = Holding(k, Ingested) /\ Wrote(k, Ingested)' = Wrote(k, Ingested)
    BY <1>7 DEF vars, Ingested, Holding, Wrote
  <2> QED BY <1>1, <1>7, <2>1, <2>2 DEF vars, TipInv
<1> QED BY <1>3, <1>4, <1>5, <1>6, <1>7 DEF Next

\* Between two messages the head of the store is what the chain says.
LEMMA TipAnswers == TipInv => TipExact
<1> SUFFICES ASSUME TipInv, pc = "idle", NEW k \in Keys
             PROVE  Store!Get(k, headBlock) = Ideal(k, pos, headBlock)
  BY DEF TipExact
<1> USE DEF TipInv
<1>1. /\ pos \in Blocks /\ headBlock = Num[pos] /\ Num[pos] \in Nat
      /\ flushUpToBlock \in Nat /\ flushUpToBlock <= Num[pos]
      /\ \A t \in db : t.block \in Nat /\ t.block <= Num[pos]
  <2>1. lib \in Anc[pos] /\ pos \in Blocks /\ flushUpToBlock <= Num[lib] /\ flushUpToBlock \in Nat
    BY DEF IndInv, TypeOK, Store!TypeOK, CursorsSound, FlushBehind
  <2>2. Num[lib] <= Num[pos] /\ Num[lib] \in Nat /\ Num[pos] \in Nat
    BY <2>1, AncestorFacts
  <2>3. \A t \in db : t.block \in Nat
    BY DEF IndInv, TypeOK, Store!TypeOK, Store!Version
  <2> QED BY <2>1, <2>2, <2>3
<1>2. Ideal(k, pos, headBlock) = Holding(k, Ingested)
  <2>1. Writers(k, pos, headBlock) = Wrote(k, Anc[pos])
    BY <1>1, AncestorFacts DEF Writers, Wrote
  <2> QED BY <2>1 DEF Ideal, Holding, Ingested
<1>3. Store!Get(k, headBlock) = Held(k)
  <2>1. CASE k \in DOMAIN cache
    <3>1. cache[k].val \in Anc[pos] /\ cache[k].block = Num[cache[k].val]
      BY <2>1 DEF IndInv, CacheCanonical
    <3>2. cache[k].block <= headBlock
      BY <1>1, <3>1, AncestorFacts
    <3> QED BY <2>1, <3>2 DEF Store!Get, Store!Overlays, Held
  <2>2. CASE k \notin DOMAIN cache
    BY <1>1, <2>2, TipLookup DEF Store!Get, Store!Overlays, Held
  <2> QED BY <2>1, <2>2
<1> QED BY <1>2, <1>3

\* A process that has stopped before the first restart stays stopped.
FirstRun == restarts = 0 => TipInv \/ pc = "stopped"

LEMMA FirstRunNext ==
    ASSUME ~CanUndo, OneFlag, IndInv, FirstRun, [Next]_vars PROVE FirstRun'
<1> SUFFICES ASSUME restarts' = 0, pc' # "stopped" PROVE TipInv'
  BY DEF FirstRun
<1>1. restarts \in Nat
  BY SinkerAssumption DEF IndInv, TypeOK
<1>2. ~Restart
  BY <1>1 DEF Restart
<1>3. restarts = 0
  BY <1>2 DEF Next, Deliver, DeliverBlock, HandleBlock, StoreSet, StoreFlush, SaveCursor, Finish,
              Undo, DeliverUndo, HandleUndo, StoreEvict, SaveUndoCursor, HandlerFails, Crash, vars
<1>4. pc # "stopped"
  BY <1>2 DEF Next, Deliver, DeliverBlock, HandleBlock, StoreSet, StoreFlush, SaveCursor, Finish,
              Undo, DeliverUndo, HandleUndo, StoreEvict, SaveUndoCursor, HandlerFails, Crash, vars
<1> QED BY <1>3, <1>4, TipNext DEF FirstRun

\* With final blocks or a sink library that holds blocks back, and one flag for
\* every block, a reader at the head gets exactly what the chain says until the
\* process first stops, over either badger store and however far LIB lags.
THEOREM TipIsExact ==
    ASSUME ~CanUndo, OneFlag PROVE Spec => []FirstRunExact
<1>1. Init => FirstRun
  BY TipInit DEF FirstRun
<1>2. IndInv /\ FirstRun /\ [Next]_vars => FirstRun'
  BY FirstRunNext
<1>3. FirstRun => FirstRunExact
  BY TipAnswers DEF FirstRun, FirstRunExact, TipExact
<1> QED BY <1>1, <1>2, <1>3, Invariance, PTL DEF Spec

-----------------------------------------------------------------------------
(* Final blocks only: the whole history reads exactly as the chain says *)

\* The flag of block w, if it has it, does not keep k out: no block before w wrote k.
Unhindered(k, w) == IfNotExist[w] => \A v \in Anc[w] \ {w} : k \notin Writes[v]

\* What w wrote is on disk, or else an earlier version that its flag respects.
Complete(w) ==
    \A k \in Writes[w] :
        /\ Unhindered(k, w) => [key |-> k, block |-> Num[w], val |-> w] \in db
        /\ \E t \in db : t.key = k /\ t.block <= Num[w]

\* Every block is its own LIB, so there is nothing to undo, in the cursors too.
AllFinal ==
    /\ lib = pos
    /\ cursorFile.lib = cursorFile.block
    /\ \A b \in DOMAIN history : history[b].lib = b
    /\ pc \notin {"evict", "save_undo"}

\* Memory holds entries between the set and the flush of a block only, and only
\* those the existence check let through.
CacheBrief ==
    /\ pc \in {"idle", "set", "save", "finish"} => DOMAIN cache = {}
    /\ \A k \in DOMAIN cache : cache[k].val = pos
    /\ pc = "flush" =>
          \A k \in Writes[pos] :
              \/ k \in DOMAIN cache
              \/ IfNotExist[pos] /\ \E t \in db : t.key = k /\ t.block <= Num[pos]

\* A version is stamped with its own block, and all blocks before it are complete
\* on disk: a crash leaves a gap in the last block only.
DiskInOrder ==
    \A t \in db :
        /\ t.block = Num[t.val]
        /\ Unhindered(t.key, t.val)
        /\ \A w \in Anc[t.val] \ {t.val} : Complete(w)

\* So are the blocks a restart does not ask for again, and the processed ones.
DiskComplete ==
    /\ \A w \in Anc[cursorFile.block] : Complete(w)
    /\ \A w \in Processed : Complete(w)

HistInv == IndInv /\ AllFinal /\ CacheBrief /\ DiskInOrder /\ DiskComplete

\* final_blocks_only: a block is final when it is delivered.
FinalBlocks == TimeTraversal /\ \A b \in Blocks : LibOf[b] \subseteq {b}

\* The root wrote nothing, and nothing comes before it.
LEMMA RootComplete == \A w \in Anc[Root] : w = Root /\ Writes[w] = {}
BY ChainAssumption, SinkerAssumption

\* The position is final, so everything on disk lies on one branch with it.
LEMMA HistPlace ==
    ASSUME HistInv
    PROVE  /\ pos \in Blocks /\ final \in Blocks /\ pos \in Anc[final] /\ Num[pos] \in Nat
           /\ \A t \in db : /\ t.key \in Keys /\ t.block \in Nat /\ t.val \in Blocks
                            /\ t.block = Num[t.val] /\ t.key \in Writes[t.val]
                            /\ t.val \in Anc[final]
                            /\ t.block <= Num[pos] => t.val \in Anc[pos]
                            /\ Num[pos] < t.block => pos \in Anc[t.val] \ {t.val}
                            /\ t.block = Num[pos] => t = [key |-> t.key, block |-> Num[pos], val |-> pos]
<1> USE DEF HistInv
<1>1. /\ pos \in Blocks /\ final \in Blocks /\ pos \in Anc[final] /\ Num[pos] \in Nat
  BY ChainAssumption DEF IndInv, TypeOK, AllFinal, CursorsSound
<1> SUFFICES ASSUME NEW t \in db
             PROVE  /\ t.key \in Keys /\ t.block \in Nat /\ t.val \in Blocks
                    /\ t.block = Num[t.val] /\ t.key \in Writes[t.val]
                    /\ t.val \in Anc[final]
                    /\ t.block <= Num[pos] => t.val \in Anc[pos]
                    /\ Num[pos] < t.block => pos \in Anc[t.val] \ {t.val}
                    /\ t.block = Num[pos] => t = [key |-> t.key, block |-> Num[pos], val |-> pos]
  BY <1>1
<1>2. t \in Store!Version /\ t.key \in Keys /\ t.block \in Nat /\ t.val \in Blocks
  BY DEF IndInv, TypeOK, Store!TypeOK, Store!Version
<1>3. t.block = Num[t.val] /\ t.key \in Writes[t.val] /\ t.val \in Anc[final]
  BY DEF DiskInOrder, IndInv, NoStaleVersion, DurableFinal
<1>4. t.block <= Num[pos] => t.val \in Anc[pos]
  BY <1>1, <1>3, AncestorByNumber
<1>5. Num[pos] < t.block => pos \in Anc[t.val] \ {t.val}
  BY <1>1, <1>2, <1>3, AncestorByNumber
<1>6. ASSUME t.block = Num[pos] PROVE t.val = pos
  <2>1. t.val \in Anc[pos]
    BY <1>1, <1>4, <1>6
  <2>2. t.val # pos => Num[t.val] < Num[pos]
    BY <1>1, <2>1, ChainAssumption
  <2> QED BY <1>1, <1>3, <1>6, <2>2
<1>7. t = [key |-> t.key, block |-> t.block, val |-> t.val]
  BY <1>2 DEF Store!Version
<1> QED BY <1>2, <1>3, <1>4, <1>5, <1>6, <1>7

LEMMA HistInit == Init => HistInv
<1> SUFFICES ASSUME Init PROVE HistInv
  OBVIOUS
<1> USE DEF Init, NoCursor, Store!NewStore
<1>1. DOMAIN cache = {} /\ DOMAIN history = {}
  BY EmptyCacheFacts
<1>2. AllFinal /\ CacheBrief /\ DiskInOrder
  BY <1>1, ChainAssumption DEF AllFinal, CacheBrief, DiskInOrder
<1>3. DiskComplete
  BY RootComplete DEF DiskComplete, Complete, Processed
<1> QED BY <1>2, <1>3, InitInv DEF HistInv

\* The next block is delivered; one without output is complete at once.
LEMMA HistDeliver ==
    ASSUME FinalBlocks, HistInv, NEW b \in Blocks, NEW l \in LibOf[b], NEW n \in HeadOf[b],
           DeliverBlock(b, l, n)
    PROVE  AllFinal' /\ CacheBrief' /\ DiskInOrder' /\ DiskComplete'
<1> USE DEF HistInv
<1>0. /\ pos' = b /\ lib' = b /\ pc = "idle"
      /\ pc' = (IF HasOutput(b) THEN "set" ELSE "save")
      /\ db' = db /\ cache' = cache /\ cursorFile' = cursorFile
      /\ Anc[b] = Anc[pos] \cup {b}
      /\ history' = [x \in DOMAIN history \cup {b} |->
             IF x = b THEN [block |-> b, lib |-> b, head |-> n] ELSE history[x]]
  BY DEF DeliverBlock, IsChild, storeVars, FinalBlocks
<1>1. AllFinal'
  BY <1>0 DEF AllFinal
<1>2. CacheBrief'
  BY <1>0 DEF CacheBrief
<1>3. \A w : Complete(w)' = Complete(w)
  BY <1>0 DEF Complete, Unhindered
<1>4. DiskInOrder'
  BY <1>0, <1>3 DEF DiskInOrder, Unhindered
<1>5. DiskComplete'
  <2>1. pc' = "save" => Complete(b)
    BY <1>0 DEF HasOutput, Complete
  <2>2. \A w \in Anc[pos] : Complete(w)
    BY <1>0 DEF DiskComplete, Processed
  <2> QED BY <1>0, <1>3, <2>1, <2>2 DEF DiskComplete, Processed
<1> QED BY <1>1, <1>2, <1>4, <1>5

\* The entries of the block are cached, but for those the existence check found.
LEMMA HistSet ==
    ASSUME HistInv, StoreSet
    PROVE  AllFinal' /\ CacheBrief' /\ DiskInOrder' /\ DiskComplete'
<1> USE DEF HistInv
<1> DEFINE kept == DOMAIN Store!Kept(Entries, IfNotExist[pos], Num[pos])
<1>0. /\ pc = "set" /\ pc' = "flush"
      /\ pos' = pos /\ lib' = lib /\ history' = history /\ cursorFile' = cursorFile
      /\ db' = db /\ DOMAIN cache = {}
      /\ DOMAIN cache' = kept
      /\ \A k \in kept : cache'[k] = [val |-> pos, block |-> Num[pos]]
  BY SetFacts DEF StoreSet, CacheBrief
<1>1. \A k \in Writes[pos] \ kept :
         IfNotExist[pos] /\ \E t \in db : t.key = k /\ t.block <= Num[pos]
  <2>1. DOMAIN Entries = Writes[pos]
    BY DEF Entries
  <2>2. \A k \in Writes[pos] \ kept : IfNotExist[pos] /\ Store!WrappedGet(db, k, Num[pos]) # {}
    BY <1>0, <2>1 DEF Store!Kept, Store!Restrict
  <2> QED BY <2>2 DEF Store!WrappedGet, Store!Newest
<1> HIDE DEF kept
<1>2. AllFinal'
  BY <1>0 DEF AllFinal
<1>3. CacheBrief'
  BY <1>0, <1>1 DEF CacheBrief
<1>4. DiskInOrder' /\ DiskComplete'
  BY <1>0 DEF DiskInOrder, DiskComplete, Complete, Unhindered, Processed
<1> QED BY <1>2, <1>3, <1>4

\* A flush, complete or cut short, adds versions of the block only, takes none
\* away, and respects the flag.
LEMMA HistFlushFacts ==
    ASSUME FinalBlocks, \A k \in Keys : Extensions[k] = {k}, HistInv, pc = "flush",
           \/ Store!FlushUpToBlock(Num[lib], IfNotExist[pos])
           \/ Store!FlushUpToBlockFails(Num[lib], IfNotExist[pos])
    PROVE  /\ db \subseteq db'
           /\ \A t \in db' : t \in db \/
                 /\ t = [key |-> t.key, block |-> Num[pos], val |-> pos]
                 /\ t.key \in DOMAIN cache
                 /\ IfNotExist[pos] => \A u \in db : u.key # t.key
           /\ Store!FlushUpToBlock(Num[lib], IfNotExist[pos]) =>
                 \A k \in DOMAIN cache :
                     \/ [key |-> k, block |-> Num[pos], val |-> pos] \in db'
                     \/ IfNotExist[pos] /\ \E u \in db : u.key = k
<1> USE DEF HistInv
<1> DEFINE n == Num[pos]
           f == IfNotExist[pos]
           batch == Store!ToFlush(n)
           admitted == Store!Admitted(db, batch, f)
<1>1. lib = pos /\ DOMAIN cache \subseteq Keys
  BY DEF AllFinal, IndInv, TypeOK, Store!TypeOK
<1>2. \A k \in DOMAIN cache : cache[k].val = pos /\ cache[k].block = n
  BY DEF CacheBrief, IndInv, CacheCanonical
<1>3. DOMAIN batch = DOMAIN cache /\ \A k \in DOMAIN cache : batch[k] = pos
  <2>1. \A k \in DOMAIN cache : cache[k].block <= n
    BY <1>2, HistPlace
  <2> QED BY <1>2, <2>1 DEF Store!ToFlush
<1>4. /\ DOMAIN admitted \subseteq DOMAIN cache
      /\ \A k \in DOMAIN admitted : admitted[k] = pos /\ (f => \A u \in db : u.key # k)
      /\ \A k \in DOMAIN cache \ DOMAIN admitted : f /\ \E u \in db : u.key = k
  <2>1. \A k \in DOMAIN cache : Store!Exists(db, k) <=> \E u \in db : u.key = k
    BY <1>1 DEF Store!Exists, FinalBlocks
  <2> HIDE DEF batch
  <2> QED BY <1>3, <2>1 DEF Store!Admitted, Store!Restrict
<1>5. PICK b2 : /\ DOMAIN b2 \subseteq DOMAIN admitted
                /\ \A k \in DOMAIN b2 : b2[k] = pos
                /\ db' = Store!Put(db, b2, n)
                /\ Store!FlushUpToBlock(n, f) => DOMAIN b2 = DOMAIN admitted
  <2>1. CASE Store!FlushUpToBlock(n, f)
    <3>1. db' = Store!Put(db, admitted, n)
      BY <2>1 DEF Store!FlushUpToBlock, Store!WrappedSetAll
    <3> HIDE DEF admitted
    <3> QED BY <1>4, <3>1
  <2>2. CASE Store!FlushUpToBlockFails(n, f) /\ ~Store!FlushUpToBlock(n, f)
    <3>1. PICK D \in SUBSET DOMAIN admitted : db' = Store!Put(db, Store!Restrict(admitted, D), n)
      BY <2>2 DEF Store!FlushUpToBlockFails, Store!PartialSetAll
    <3> HIDE DEF admitted
    <3>2. /\ DOMAIN Store!Restrict(admitted, D) = D
          /\ \A k \in D : Store!Restrict(admitted, D)[k] = admitted[k]
      BY DEF Store!Restrict
    <3> QED BY <1>4, <2>2, <3>1, <3>2
  <2> QED BY <1>1, <2>1, <2>2
<1>6. db' = {t \in db : t.key \in DOMAIN b2 => t.block # n}
               \cup {[key |-> k, block |-> n, val |-> b2[k]] : k \in DOMAIN b2}
  BY <1>5 DEF Store!Put, FinalBlocks
<1> HIDE DEF admitted, batch
<1>7. \A k \in DOMAIN b2 : [key |-> k, block |-> n, val |-> pos] \in db'
  BY <1>5, <1>6
<1>8. \A t \in db : t.block = n => t = [key |-> t.key, block |-> n, val |-> pos]
  BY HistPlace
<1>9. db \subseteq db'
  BY <1>6, <1>7, <1>8
<1>10. \A t \in db' : t \in db \/
          \E k \in DOMAIN b2 : t = [key |-> k, block |-> n, val |-> pos]
  BY <1>5, <1>6
<1> QED BY <1>1, <1>4, <1>5, <1>7, <1>9, <1>10

\* Every version keeps its place, and whatever was complete stays so.
LEMMA HistFlushOrder ==
    ASSUME FinalBlocks, \A k \in Keys : Extensions[k] = {k}, HistInv, pc = "flush",
           \/ Store!FlushUpToBlock(Num[lib], IfNotExist[pos])
           \/ Store!FlushUpToBlockFails(Num[lib], IfNotExist[pos])
    PROVE  DiskInOrder' /\ \A w : Complete(w) => Complete(w)'
<1> USE DEF HistInv
<1>1. db \subseteq db'
  BY HistFlushFacts
<1>2. \A w : Complete(w) => Complete(w)'
  BY <1>1 DEF Complete, Unhindered
<1>3. \A w \in Anc[pos] \ {pos} : Complete(w)
  BY DEF DiskComplete, Processed
<1>4. ASSUME NEW t \in db'
      PROVE  /\ t.block = Num[t.val] /\ Unhindered(t.key, t.val)
             /\ \A w \in Anc[t.val] \ {t.val} : Complete(w)'
  <2>1. CASE t \in db
    BY <1>2, <2>1 DEF DiskInOrder
  <2>2. CASE t \notin db
    <3>1. /\ t.block = Num[pos] /\ t.val = pos
          /\ IfNotExist[pos] => \A u \in db : u.key # t.key
      <4>1. /\ t = [key |-> t.key, block |-> Num[pos], val |-> pos]
            /\ IfNotExist[pos] => \A u \in db : u.key # t.key
        BY <2>2, HistFlushFacts
      <4> DEFINE key == t.key
      <4>2. t = [key |-> key, block |-> Num[pos], val |-> pos]
        BY <4>1
      <4> HIDE DEF key
      <4>3. t.block = Num[pos] /\ t.val = pos
        BY <4>2
      <4> QED BY <4>1, <4>3
    <3>2. Unhindered(t.key, pos)
      <4> SUFFICES ASSUME IfNotExist[pos], NEW v \in Anc[pos] \ {pos}, t.key \in Writes[v]
                   PROVE  FALSE
        BY DEF Unhindered
      <4>1. \E u \in db : u.key = t.key
        BY <1>3 DEF Complete
      <4> QED BY <3>1, <4>1
    <3> QED BY <1>2, <1>3, <3>1, <3>2
  <2> QED BY <2>1, <2>2
<1> QED BY <1>2, <1>4 DEF DiskInOrder, Unhindered

\* After the flush the block itself is complete: what the flag kept out was on
\* disk before, from a block before it or from an earlier run of this one.
LEMMA HistFlushed ==
    ASSUME FinalBlocks, \A k \in Keys : Extensions[k] = {k}, HistInv, StoreFlush
    PROVE  Complete(pos)'
<1> USE DEF HistInv
<1> DEFINE n == Num[pos]
           new(k) == [key |-> k, block |-> n, val |-> pos]
<1>1. /\ pc = "flush" /\ pos' = pos /\ db \subseteq db' /\ n \in Nat
      /\ \A k \in DOMAIN cache : new(k) \in db' \/ (IfNotExist[pos] /\ \E u \in db : u.key = k)
  BY HistFlushFacts, HistPlace DEF StoreFlush
<1>2. ASSUME NEW u \in db, u.key \in Writes[pos], u.block <= n
      PROVE  Unhindered(u.key, pos) /\ IfNotExist[pos] => new(u.key) \in db
  <2> SUFFICES ASSUME Unhindered(u.key, pos), IfNotExist[pos] PROVE new(u.key) \in db
    OBVIOUS
  <2>1. u.val \in Anc[pos] /\ u.key \in Writes[u.val] /\ u.block = Num[u.val]
    BY <1>2, HistPlace
  <2>2. u.val = pos
    BY <2>1 DEF Unhindered
  <2>3. u = new(u.key)
    BY <2>1, <2>2, HistPlace
  <2> QED BY <2>3
<1>3. ASSUME NEW u \in db, ~(u.block <= n) PROVE Complete(pos)'
  <2>1. u.block \in Nat /\ n < u.block
    BY <1>1, <1>3, HistPlace
  <2>2. pos \in Anc[u.val] \ {u.val}
    BY <2>1, HistPlace
  <2>3. Complete(pos)
    BY <2>2 DEF DiskInOrder
  <2>4. \A w : Complete(w) => Complete(w)'
    BY <1>1, HistFlushOrder DEF StoreFlush
  <2> QED BY <1>1, <2>3, <2>4
<1>4. CASE \A u \in db : u.block <= n
  <2> SUFFICES ASSUME NEW k \in Writes[pos]
               PROVE  /\ Unhindered(k, pos) => new(k) \in db'
                      /\ \E t \in db' : t.key = k /\ t.block <= n
    BY <1>1 DEF Complete, Unhindered
  <2> HIDE DEF n
  <2>1. new(k).key = k /\ new(k).block <= n
    BY <1>1
  <2>2. new(k) \in db' \/ (IfNotExist[pos] /\ \E u \in db : u.key = k /\ u.block <= n)
    <3>1. CASE k \in DOMAIN cache
      BY <1>1, <1>4, <3>1
    <3>2. CASE k \notin DOMAIN cache
      BY <1>1, <1>4, <3>2 DEF CacheBrief
    <3> QED BY <3>1, <3>2
  <2>3. CASE new(k) \in db'
    BY <2>1, <2>3
  <2>4. CASE IfNotExist[pos] /\ \E u \in db : u.key = k /\ u.block <= n
    <3>1. PICK u \in db : u.key = k /\ u.block <= n
      BY <2>4
    <3>2. Unhindered(k, pos) => new(k) \in db
      BY <1>2, <2>4, <3>1
    <3> QED BY <1>1, <3>1, <3>2
  <2> QED BY <2>2, <2>3, <2>4
<1> QED BY <1>3, <1>4

LEMMA HistFlush ==
    ASSUME FinalBlocks, \A k \in Keys : Extensions[k] = {k}, HistInv, StoreFlush
    PROVE  AllFinal' /\ CacheBrief' /\ DiskInOrder' /\ DiskComplete'
<1> USE DEF HistInv
<1>1. /\ pc = "flush" /\ pc' = "save"
      /\ pos' = pos /\ lib' = lib /\ history' = history /\ cursorFile' = cursorFile
  BY DEF StoreFlush
<1>2. AllFinal'
  BY <1>1 DEF AllFinal
<1>3. CacheBrief'
  <2>1. DOMAIN cache' = {k \in DOMAIN cache : ~(cache[k].block <= Num[lib])}
    BY FlushCacheFacts DEF StoreFlush
  <2>2. \A k \in DOMAIN cache : cache[k].block = Num[lib] /\ Num[lib] \in Nat
    BY HistPlace DEF CacheBrief, AllFinal, IndInv, CacheCanonical
  <2>3. DOMAIN cache' = {}
    BY <2>1, <2>2
  <2> QED BY <1>1, <2>3 DEF CacheBrief
<1>4. DiskInOrder' /\ \A w : Complete(w) => Complete(w)'
  BY <1>1, HistFlushOrder DEF StoreFlush
<1>5. Complete(pos)'
  BY HistFlushed
<1>6. \A w \in Anc[pos] \ {pos} : Complete(w)
  BY <1>1 DEF DiskComplete, Processed
<1>7. DiskComplete'
  BY <1>1, <1>4, <1>5, <1>6 DEF DiskComplete, Processed
<1> QED BY <1>2, <1>3, <1>4, <1>7

\* The cursor saved is the block's own, whose entries are all on disk.
LEMMA HistSave ==
    ASSUME HistInv, SaveCursor \/ Finish
    PROVE  AllFinal' /\ CacheBrief' /\ DiskInOrder' /\ DiskComplete'
<1> USE DEF HistInv
<1>1. /\ pos' = pos /\ lib' = lib /\ db' = db /\ cache' = cache
      /\ pc \in {"save", "finish"}
      /\ \A w : Complete(w)' = Complete(w)
  BY DEF SaveCursor, Finish, storeVars, Complete, Unhindered
<1>2. DiskInOrder' /\ DOMAIN cache = {}
  BY <1>1 DEF DiskInOrder, Unhindered, CacheBrief
<1>3. \A w \in Anc[pos] : Complete(w)
  BY <1>1 DEF DiskComplete, Processed
<1>4. CASE SaveCursor
  <2>1. pc' = "finish" /\ history' = history /\ cursorFile' = LibCursor
    BY <1>4 DEF SaveCursor
  <2>2. LibCursor.block = pos /\ LibCursor.lib = pos
    BY DEF LibCursor, CurrentCursor, AllFinal, IndInv, CursorsSound
  <2> QED BY <1>1, <1>2, <1>3, <2>1, <2>2 DEF AllFinal, CacheBrief, DiskComplete, Processed
<1>5. CASE Finish
  <2>1. /\ pc' = "idle" /\ cursorFile' = cursorFile
        /\ DOMAIN history' \subseteq DOMAIN history
        /\ \A b \in DOMAIN history' : history'[b] = history[b]
    BY <1>5 DEF Finish
  <2>2. AllFinal' /\ CacheBrief'
    BY <1>1, <1>2, <2>1 DEF AllFinal, CacheBrief
  <2>3. DiskComplete'
    BY <1>1, <1>3, <2>1 DEF DiskComplete, Processed
  <2> QED BY <1>2, <2>2, <2>3
<1> QED BY <1>4, <1>5

\* A process that stops leaves at most the last block incomplete.
LEMMA HistStop ==
    ASSUME FinalBlocks, \A k \in Keys : Extensions[k] = {k}, HistInv, HandlerFails \/ Crash
    PROVE  AllFinal' /\ CacheBrief' /\ DiskInOrder' /\ DiskComplete'
<1> USE DEF HistInv
<1>1. /\ pc' = "stopped"
      /\ UNCHANGED <<pos, lib, history, cursorFile>>
  BY DEF HandlerFails, Crash
<1>2. \/ UNCHANGED storeVars
      \/ pc = "flush" /\ Store!FlushUpToBlockFails(Num[lib], IfNotExist[pos])
  <2>1. CASE pc = "set" /\ Store!SetAllFails(Entries, IfNotExist[pos], Num[pos])
    <3>1. flushUpToBlock \in Nat /\ Num[pos] \in Nat /\ flushUpToBlock < Num[pos]
      BY <2>1, ChainAssumption DEF IndInv, TypeOK, Store!TypeOK, FlushBehind
    <3> QED BY <2>1, <3>1 DEF Store!SetAllFails, Store!vars, storeVars
  <2> QED BY <2>1 DEF HandlerFails, Crash
<1>3. cache' = cache /\ DiskInOrder' /\ \A w : Complete(w) => Complete(w)'
  <2>1. CASE UNCHANGED storeVars
    BY <2>1 DEF storeVars, DiskInOrder, Complete, Unhindered
  <2>2. CASE pc = "flush" /\ Store!FlushUpToBlockFails(Num[lib], IfNotExist[pos])
    <3>1. cache' = cache
      BY <2>2 DEF Store!FlushUpToBlockFails
    <3> QED BY <2>2, <3>1, HistFlushOrder
  <2> QED BY <1>2, <2>1, <2>2
<1>4. AllFinal' /\ CacheBrief'
  BY <1>1, <1>3 DEF AllFinal, CacheBrief
<1>5. DiskComplete'
  BY <1>1, <1>3 DEF DiskComplete, Processed
<1> QED BY <1>3, <1>4, <1>5

\* A restart stands at a block up to which the disk is complete.
LEMMA HistRestart ==
    ASSUME HistInv, Restart
    PROVE  AllFinal' /\ CacheBrief' /\ DiskInOrder' /\ DiskComplete'
<1> USE DEF HistInv
<1>1. /\ pc' = "idle" /\ db' = db /\ DOMAIN cache' = {} /\ DOMAIN history' = {}
      /\ pos' = cursorFile'.block /\ lib' = cursorFile'.lib
      /\ cursorFile' \in {cursorFile, NoCursor}
  BY EmptyCacheFacts DEF Restart, Store!Reopen
<1>2. \A w : Complete(w)' = Complete(w)
  BY <1>1 DEF Complete, Unhindered
<1>3. cursorFile'.lib = cursorFile'.block
  BY <1>1 DEF AllFinal, NoCursor
<1>4. \A w \in Anc[cursorFile'.block] : Complete(w)
  <2>1. CASE cursorFile' = cursorFile
    BY <2>1 DEF DiskComplete
  <2>2. CASE cursorFile' = NoCursor
    <3>1. cursorFile'.block = Root
      BY <2>2 DEF NoCursor
    <3> QED BY <3>1, RootComplete DEF Complete
  <2> QED BY <1>1, <2>1, <2>2
<1>5. AllFinal' /\ CacheBrief' /\ DiskInOrder'
  BY <1>1, <1>2, <1>3 DEF AllFinal, CacheBrief, DiskInOrder, Unhindered
<1>6. DiskComplete'
  BY <1>1, <1>2, <1>4 DEF DiskComplete, Processed
<1> QED BY <1>5, <1>6

LEMMA HistNext ==
    ASSUME FinalBlocks, \A k \in Keys : Extensions[k] = {k}, HistInv, [Next]_vars
    PROVE  HistInv'
<1> USE DEF HistInv
<1>1. IndInv'
  BY NextInv
<1>2. CASE Deliver
  BY <1>1, <1>2, HistDeliver DEF Deliver
<1>3. CASE HandleBlock
  BY <1>1, <1>3, HistSet, HistFlush, HistSave DEF HandleBlock
<1>4. CASE HandleUndo
  BY <1>4 DEF HandleUndo, StoreEvict, SaveUndoCursor, AllFinal
<1>5. ASSUME NEW v \in Blocks, NEW n \in HeadOf[v], DeliverUndo(v, n) PROVE FALSE
  <2>1. pos \in Blocks /\ v \in Anc[pos] /\ v # pos /\ pos \in Anc[v]
    BY <1>5, HistPlace DEF DeliverUndo, AllFinal
  <2>2. Num[v] < Num[pos] /\ Num[pos] < Num[v] /\ Num[v] \in Nat /\ Num[pos] \in Nat
    BY <2>1, ChainAssumption
  <2> QED BY <2>2
<1>6. CASE HandlerFails \/ Crash
  BY <1>1, <1>6, HistStop
<1>7. CASE Restart
  BY <1>1, <1>7, HistRestart
<1>8. CASE UNCHANGED vars
  BY <1>1, <1>8 DEF vars, AllFinal, CacheBrief, DiskInOrder, DiskComplete, Complete,
                    Unhindered, Processed
<1> QED BY <1>2, <1>3, <1>4, <1>5, <1>6, <1>7, <1>8 DEF Next, Undo

\* Up to the last processed block, the versions on disk answer as the chain says.
LEMMA HistAnswers == HistInv => HistoryExact
<1> SUFFICES ASSUME HistInv, NEW k \in Keys, NEW p \in Processed, NEW B \in 0..Num[p]
             PROVE  Store!Get(k, B) = Ideal(k, pos, B)
  BY DEF HistoryExact
<1> USE DEF HistInv
<1> DEFINE W == Writers(k, pos, B)
<1>1. /\ pos \in Blocks /\ final \in Blocks /\ pos \in Anc[final]
      /\ p \in Anc[pos] /\ Num[p] \in Nat /\ Num[p] <= Num[pos] /\ Num[pos] \in Nat
      /\ B \in Nat /\ B <= Num[p] /\ B <= Num[pos]
  <2>1. pos \in Blocks /\ final \in Blocks /\ pos \in Anc[final]
    BY HistPlace
  <2>2. p \in Anc[pos]
    BY DEF Processed
  <2>3. Num[p] \in Nat /\ Num[pos] \in Nat /\ Num[p] <= Num[pos]
    BY <2>1, <2>2, AncestorFacts
  <2> QED BY <2>1, <2>2, <2>3
<1>2. Store!Get(k, B) = Store!WrappedGet(db, k, B)
  <2>1. DOMAIN cache = {} \/ p # pos
    BY DEF CacheBrief, Processed, AllFinal, IndInv, TypeOK, PC
  <2>2. \A j \in DOMAIN cache : cache[j].block = Num[pos]
    BY DEF CacheBrief, IndInv, CacheCanonical
  <2>3. p # pos => B < Num[pos]
    BY <1>1, ChainAssumption
  <2>4. ~Store!Overlays(k, B)
    BY <1>1, <2>1, <2>2, <2>3 DEF Store!Overlays
  <2> QED BY <2>4 DEF Store!Get
<1>3. \A w \in W : w \in Blocks /\ w \in Anc[pos] /\ Num[w] \in Nat /\ Num[w] <= B
                   /\ k \in Writes[w] /\ Complete(w)
  <2> SUFFICES ASSUME NEW w \in W PROVE w \in Blocks /\ w \in Anc[pos] /\ Num[w] \in Nat
                                        /\ Num[w] <= B /\ k \in Writes[w] /\ Complete(w)
    OBVIOUS
  <2>1. w \in Anc[pos] /\ Num[w] <= B /\ k \in Writes[w]
    BY DEF Writers
  <2>2. w \in Blocks /\ Num[w] \in Nat
    BY <1>1, <2>1, AncestorFacts
  <2>3. w \in Processed
    <3>1. w # pos \/ p = pos
      BY <1>1, <2>1, <2>2, ChainAssumption
    <3> QED BY <2>1, <3>1 DEF Processed
  <2> QED BY <2>1, <2>2, <2>3 DEF DiskComplete
<1>4. \A t \in db : t.key = k /\ t.block <= B =>
         t.val \in W /\ t.block = Num[t.val] /\ Unhindered(k, t.val)
  <2> SUFFICES ASSUME NEW t \in db, t.key = k, t.block <= B
               PROVE  t.val \in W /\ t.block = Num[t.val] /\ Unhindered(k, t.val)
    OBVIOUS
  <2>1. t.block \in Nat /\ t.block <= Num[pos]
    BY <1>1, HistPlace
  <2> QED BY <2>1, HistPlace DEF Writers, DiskInOrder
<1>5. \A v, w \in W : Num[v] < Num[w] => v \in Anc[w] \ {w}
  <2> SUFFICES ASSUME NEW v \in W, NEW w \in W, Num[v] < Num[w] PROVE v \in Anc[w] \ {w}
    OBVIOUS
  <2>1. Num[v] <= Num[w] /\ v # w
    BY <1>3
  <2> QED BY <1>1, <1>3, <2>1, AncestorByNumber
<1>6. \A v, w \in W : v \in Anc[w] \ {w} => Num[v] < Num[w]
  BY <1>3, ChainAssumption
<1> HIDE DEF W
<1>7. ASSUME NEW t \in Store!Newest(db, k, B) PROVE t.val \in Ideal(k, pos, B)
  <2>1. t \in db /\ t.key = k /\ t.block <= B /\ t.val \in W /\ t.block = Num[t.val]
        /\ Unhindered(k, t.val)
    BY <1>4 DEF Store!Newest
  <2>2. ASSUME IfNotExist[t.val], NEW v \in W PROVE Num[t.val] <= Num[v]
    <3>1. v \notin Anc[t.val] \ {t.val}
      BY <1>3, <2>1, <2>2 DEF Unhindered
    <3> QED BY <1>3, <1>5, <2>1, <3>1
  <2>3. ASSUME NEW v \in W, Num[t.val] < Num[v] PROVE IfNotExist[v]
    <3> SUFFICES ASSUME ~IfNotExist[v] PROVE FALSE
      OBVIOUS
    <3> DEFINE u == [key |-> k, block |-> Num[v], val |-> v]
    <3>1. u \in db
      BY <1>3 DEF Complete, Unhindered
    <3>2. u.key = k /\ u.block = Num[v] /\ Num[v] <= B
      BY <1>3
    <3> HIDE DEF u
    <3>3. Num[v] <= Num[t.val]
      BY <2>1, <3>1, <3>2 DEF Store!Newest
    <3> QED BY <1>3, <2>1, <2>3, <3>3
  <2> QED BY <2>1, <2>2, <2>3 DEF Ideal, W
<1>8. ASSUME NEW w \in Ideal(k, pos, B) PROVE w \in Store!WrappedGet(db, k, B)
  <2> DEFINE u == [key |-> k, block |-> Num[w], val |-> w]
  <2>1. /\ w \in W
        /\ IfNotExist[w] => \A v \in W : Num[w] <= Num[v]
        /\ \A v \in W : Num[w] < Num[v] => IfNotExist[v]
    BY DEF Ideal, W
  <2>2. Unhindered(k, w)
    <3> SUFFICES ASSUME IfNotExist[w], NEW v \in Anc[w] \ {w}, k \in Writes[v] PROVE FALSE
      BY DEF Unhindered
    <3>1. w \in Blocks /\ w \in Anc[pos] /\ Num[w] \in Nat /\ Num[w] <= B
      BY <1>3, <2>1
    <3>2. v \in Anc[pos] /\ Num[v] < Num[w] /\ Num[v] \in Nat
      BY <1>1, <3>1, ChainAssumption
    <3>3. v \in W
      BY <1>1, <3>1, <3>2 DEF W, Writers
    <3> QED BY <2>1, <3>1, <3>2, <3>3
  <2>3. u \in db /\ u.key = k /\ u.block = Num[w] /\ u.val = w /\ Num[w] <= B
    BY <1>3, <2>1, <2>2 DEF Complete
  <2> HIDE DEF u
  <2>4. ASSUME NEW t \in db, t.key = k, t.block <= B PROVE t.block <= Num[w]
    <3>1. t.val \in W /\ t.block = Num[t.val] /\ Unhindered(k, t.val)
      BY <1>4, <2>4
    <3> SUFFICES ASSUME Num[w] < Num[t.val] PROVE FALSE
      BY <1>3, <2>1, <3>1
    <3>2. IfNotExist[t.val] /\ w \in Anc[t.val] \ {t.val} /\ k \in Writes[w]
      BY <1>3, <1>5, <2>1, <3>1
    <3> QED BY <3>1, <3>2 DEF Unhindered
  <2>5. u \in Store!Newest(db, k, B)
    BY <2>3, <2>4 DEF Store!Newest
  <2> QED BY <2>3, <2>5 DEF Store!WrappedGet
<1> QED BY <1>2, <1>7, <1>8 DEF Store!WrappedGet

\* With final blocks only over badger_time_traversal, every answer to Get up to
\* the last processed block is exactly what the chain says, at any moment and
\* after any number of crashes, half-written batches and replays, also when the
\* blocks disagree on IfNotExist, as long as no key extends another one.  Where
\* the head in the cursors is does not matter.
THEOREM HistoryIsExact ==
    ASSUME FinalBlocks, \A k \in Keys : Extensions[k] = {k} PROVE Spec => []HistoryExact
<1>1. HistInv /\ [Next]_vars => HistInv'
  BY HistNext
<1> QED BY <1>1, HistInit, HistAnswers, PTL DEF Spec
=============================================================================
