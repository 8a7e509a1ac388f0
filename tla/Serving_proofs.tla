--------------------------- MODULE Serving_proofs ---------------------------
(***************************************************************************)
(* Proofs about Serving: any number of requests beside the sinker, for     *)
(* every tree of blocks and every output of the blocks.                    *)
(***************************************************************************)
EXTENDS Serving, Sinker_proofs

-----------------------------------------------------------------------------
(* The cache under a step of the sinker *)

\* What is cached after a step was cached before, or is the entry of the block
\* being set.
LEMMA CacheStep ==
    ASSUME IndInv, [Next]_vars
    PROVE  \A k \in DOMAIN cache' :
              \/ k \in DOMAIN cache /\ cache'[k] = cache[k]
              \/ pc = "set" /\ pos' = pos /\ final' = final /\ cache'[k].val = pos
<1>0. cache \in [DOMAIN cache -> Store!Slot]
  BY DEF IndInv, TypeOK, Store!TypeOK
<1>1. CASE UNCHANGED cache
  BY <1>1
<1>2. CASE \E D \in SUBSET DOMAIN cache : cache' = [k \in D |-> cache[k]]
  BY <1>2
<1>3. CASE StoreSet
  <2>0. pc = "set" /\ pos' = pos /\ final' = final
    BY <1>3 DEF StoreSet
  <2> DEFINE entries == Store!Kept(Entries, IfNotExist[pos], Num[pos])
  <2>1. cache' = [k \in DOMAIN cache \cup DOMAIN entries |->
            IF k \in DOMAIN entries THEN [val |-> entries[k], block |-> Num[pos]] ELSE cache[k]]
    BY <1>3 DEF StoreSet, Store!SetAll, Store!CacheAll
  <2>2. \A k \in DOMAIN entries : entries[k] = pos
    BY DEF Store!Kept, Store!Restrict, Entries
  <2> HIDE DEF entries
  <2> QED BY <2>0, <2>1, <2>2
<1>4. CASE pc = "set" /\ Store!SetAllFails(Entries, IfNotExist[pos], Num[pos])
  <2>1. flushUpToBlock \in Nat /\ Num[pos] \in Nat /\ flushUpToBlock < Num[pos]
    BY <1>4, ChainAssumption DEF IndInv, TypeOK, Store!TypeOK, FlushBehind
  <2>2. UNCHANGED cache
    BY <1>4, <2>1 DEF Store!SetAllFails, Store!vars
  <2> QED BY <2>2, <1>1
<1>5. CASE \/ Store!FlushUpToBlock(Num[lib], IfNotExist[pos])
           \/ Store!FlushUpToBlockFails(Num[lib], IfNotExist[pos])
  BY <1>5, <1>0, <1>2, FlushFacts
<1>6. CASE StoreEvict
  <2>1. \E D \in SUBSET DOMAIN cache : cache' = [k \in D |-> cache[k]]
    BY <1>6, EvictFacts DEF StoreEvict
  <2> QED BY <2>1, <1>2
<1>7. CASE Restart
  <2>1. DOMAIN cache' = {}
    BY <1>7, EmptyCacheFacts DEF Restart, Store!Reopen
  <2> QED BY <2>1
<1>8. CASE Deliver \/ SaveCursor \/ Finish \/ Undo \/ SaveUndoCursor
  <2>1. UNCHANGED cache
    BY <1>8 DEF Deliver, DeliverBlock, SaveCursor, Finish, Undo, DeliverUndo, SaveUndoCursor,
                storeVars
  <2> QED BY <2>1, <1>1
<1>9. CASE StoreFlush
  BY <1>9, <1>5 DEF StoreFlush
<1>10. CASE HandlerFails
  BY <1>10, <1>1, <1>4, <1>5 DEF HandlerFails, storeVars
<1>11. CASE Crash
  BY <1>11, <1>1, <1>5 DEF Crash, storeVars
<1>12. CASE UNCHANGED vars
  BY <1>12, <1>1 DEF vars
<1> QED BY <1>3, <1>6, <1>7, <1>8, <1>9, <1>10, <1>11, <1>12 DEF Next, HandleBlock, HandleUndo

\* The last final block only moves when a block is delivered.
LEMMA FinalStep ==
    ASSUME [Next]_vars, ~Deliver
    PROVE  /\ final' = final
           /\ pc' = "set" => pc = "set" /\ pos' = pos
BY DEF Next, HandleBlock, HandleUndo, StoreSet, StoreFlush, SaveCursor, Finish, Undo,
       DeliverUndo, StoreEvict, SaveUndoCursor, HandlerFails, Crash, Restart, vars

-----------------------------------------------------------------------------
(* CacheOnBranch *)

\* A delivered block is on the branch of what is final afterwards, and so is
\* everything cached.
LEMMA DeliverOnBranch ==
    ASSUME IndInv, CacheOnBranch, NEW b \in Blocks, NEW l \in LibOf[b],
           NEW n \in HeadOf[b], DeliverBlock(b, l, n)
    PROVE  CacheOnBranch'
<1>0. /\ pos' = b /\ final' = Later(final, l) /\ pc = "idle" /\ cache' = cache
      /\ Anc[b] = Anc[pos] \cup {b} /\ Comparable(b, final)
  BY DEF DeliverBlock, IsChild, storeVars
<1>1. l \in Anc[b] /\ l \in Blocks /\ pos \in Blocks /\ final \in Blocks
  BY SinkerAssumption, ChainAssumption DEF IndInv, TypeOK
<1>2. \A k \in DOMAIN cache : cache[k].val \in Anc[b]
  BY <1>0 DEF IndInv, CacheCanonical
<1>3. final' \in {l, final}
  BY <1>0 DEF Later
<1>4. Comparable(b, final')
  BY <1>0, <1>1, <1>3 DEF Comparable
<1>5. \A k \in DOMAIN cache : Comparable(cache[k].val, final')
  BY <1>1, <1>2, <1>3, ChainAssumption DEF CacheOnBranch, Comparable
<1> QED BY <1>0, <1>4, <1>5 DEF CacheOnBranch, Comparable

LEMMA OnBranchStep ==
    ASSUME IndInv, CacheOnBranch, [Next]_vars
    PROVE  CacheOnBranch'
<1>1. CASE Deliver
  BY <1>1, DeliverOnBranch DEF Deliver
<1>2. CASE ~Deliver
  <2>1. final' = final /\ (pc' = "set" => pc = "set" /\ pos' = pos)
    BY <1>2, FinalStep
  <2>2. pos \in Blocks /\ pos \in Anc[pos]
    BY ChainAssumption DEF IndInv, TypeOK
  <2>3. pc = "set" => \A k \in DOMAIN cache : cache[k].val \in Anc[pos]
    BY DEF IndInv, CacheCanonical
  <2>4. \A k \in DOMAIN cache' :
           \/ k \in DOMAIN cache /\ cache'[k] = cache[k]
           \/ pc = "set" /\ cache'[k].val = pos
    BY CacheStep
  <2>5. \A k \in DOMAIN cache' : Comparable(cache'[k].val, final)
    BY <2>4 DEF CacheOnBranch
  <2>6. \A k1, k2 \in DOMAIN cache' : Comparable(cache'[k1].val, cache'[k2].val)
    <3> SUFFICES ASSUME NEW k1 \in DOMAIN cache', NEW k2 \in DOMAIN cache'
                 PROVE  Comparable(cache'[k1].val, cache'[k2].val)
      OBVIOUS
    <3>1. CASE pc = "set"
      <4>1. cache'[k1].val \in Anc[pos] /\ cache'[k2].val \in Anc[pos]
        BY <3>1, <2>2, <2>3, <2>4
      <4> QED BY <4>1, <2>2, ChainAssumption DEF Comparable
    <3>2. CASE pc # "set"
      BY <3>2, <2>4 DEF CacheOnBranch
    <3> QED BY <3>1, <3>2
  <2>7. pc' = "set" => Comparable(pos', final')
    BY <2>1 DEF CacheOnBranch
  <2> QED BY <2>1, <2>5, <2>6, <2>7 DEF CacheOnBranch, Comparable
<1> QED BY <1>1, <1>2

-----------------------------------------------------------------------------
(* Requests *)

\* Whatever the operation, a request starts with the gate.
LEMMA AskStep ==
    ASSUME NEW r \in Requests, Get(r) \/ GetFirst(r) \/ LegacyGet(r) \/ LegacyGetAll(r)
    PROVE  \E op \in {"get", "get_first"} : \E b \in Blocks : \E keys \in KeySets :
              Ask(r, op, b, keys)
BY DEF Get, GetFirst, LegacyGet, LegacyGetAll

\* A step of a request leaves the sinker and its store alone.
LEMMA SinkerMoves == ASSUME [ServingNext]_servingVars PROVE [Next]_vars
<1>1. CASE \E r \in Requests : Get(r) \/ GetFirst(r) \/ LegacyGet(r) \/ LegacyGetAll(r)
  BY <1>1, AskStep DEF Ask
<1>2. CASE \E r \in Requests : Respond(r)
  BY <1>2 DEF Respond
<1>3. CASE SinkerStep
  BY <1>3 DEF SinkerStep
<1>4. CASE UNCHANGED servingVars
  BY <1>4 DEF servingVars
<1> QED BY <1>1, <1>2, <1>3, <1>4 DEF ServingNext

LEMMA ServingInitInv == ServingInit => ServingInv
<1> SUFFICES ASSUME ServingInit PROVE ServingInv
  OBVIOUS
<1>1. DOMAIN cache = {} /\ pc = "idle"
  BY EmptyCacheFacts DEF ServingInit, Init, Store!NewStore
<1>2. RequestOK /\ CacheInView
  BY DEF ServingInit, RequestOK, CacheInView
<1> QED BY <1>1, <1>2 DEF ServingInv, CacheOnBranch

\* At the gate a request sees the branch of the sinker: a cached entry from
\* elsewhere is above the head.
LEMMA AskInv ==
    ASSUME IndInv, ServingInv, NEW r \in Requests, NEW op \in {"get", "get_first"},
           NEW b \in Blocks, NEW keys \in KeySets, Ask(r, op, b, keys)
    PROVE  ServingInv'
<1> DEFINE new == [op |-> op, asked |-> b, keys |-> keys, seen |-> {pos}]
<1>0. /\ request' = [request EXCEPT ![r] = new] /\ Num[b] <= headBlock
      /\ pos' = pos /\ final' = final /\ cache' = cache /\ pc' = pc
  BY DEF Ask, vars
<1>1. pos \in Blocks /\ headBlock \in Nat /\ Num[b] \in Nat
  BY ChainAssumption DEF IndInv, TypeOK
<1>2. new \in Pending
  BY <1>1 DEF Pending
<1>3. RequestOK'
  BY <1>0, <1>2 DEF ServingInv, RequestOK
<1>4. CacheOnBranch'
  BY <1>0 DEF ServingInv, CacheOnBranch, Comparable
<1>5. CacheInView'
  <2> SUFFICES ASSUME NEW q \in Requests, request'[q] # None
               PROVE  /\ pos \in request'[q].seen
                      /\ \A k \in DOMAIN cache :
                            cache[k].block <= Num[request'[q].asked] =>
                               \E x \in request'[q].seen : cache[k].val \in Anc[x]
    BY <1>0 DEF CacheInView
  <2>1. CASE q = r
    <3>1. request'[q] = new
      BY <2>1, <1>0 DEF ServingInv, RequestOK
    <3>2. \A k \in DOMAIN cache : cache[k].block <= Num[b] => cache[k].val \in Anc[pos]
      <4> SUFFICES ASSUME NEW k \in DOMAIN cache, cache[k].block <= Num[b]
                   PROVE  cache[k].val \in Anc[pos]
        OBVIOUS
      <4>1. cache[k].block \in Nat /\ cache[k].block <= headBlock
        BY <1>0, <1>1 DEF IndInv, TypeOK, Store!TypeOK, Store!Slot
      <4> QED BY <4>1, <1>1 DEF IndInv, CacheCanonical
    <3> QED BY <3>1, <3>2
  <2>2. CASE q # r
    <3>1. request'[q] = request[q]
      BY <2>2, <1>0 DEF ServingInv, RequestOK
    <3> QED BY <3>1 DEF ServingInv, CacheInView
  <2> QED BY <2>1, <2>2
<1> QED BY <1>3, <1>4, <1>5 DEF ServingInv

LEMMA RespondInv ==
    ASSUME ServingInv, NEW r \in Requests, Respond(r)
    PROVE  ServingInv'
<1>0. /\ request' = [request EXCEPT ![r] = None]
      /\ pos' = pos /\ final' = final /\ cache' = cache /\ pc' = pc
  BY DEF Respond, vars
<1>1. RequestOK'
  BY <1>0 DEF ServingInv, RequestOK
<1>2. CacheOnBranch'
  BY <1>0 DEF ServingInv, CacheOnBranch, Comparable
<1>3. \A q \in Requests : request'[q] # None => request'[q] = request[q]
  BY <1>0 DEF ServingInv, RequestOK
<1>4. CacheInView'
  BY <1>0, <1>3 DEF ServingInv, CacheInView
<1> QED BY <1>1, <1>2, <1>4 DEF ServingInv

\* While a request is pending the sinker caches only what its current block
\* wrote, and the request has seen that block.
LEMMA SinkerStepInv ==
    ASSUME IndInv, IndInv', ServingInv, SinkerStep
    PROVE  ServingInv'
<1>0. /\ [Next]_vars
      /\ request' = [r \in Requests |->
            IF request[r] = None \/ restarts' # restarts THEN None
            ELSE [request[r] EXCEPT !.seen = @ \cup {pos'}]]
  BY DEF SinkerStep
<1>1. pos' \in Blocks /\ pos' \in Anc[pos']
  BY ChainAssumption DEF IndInv, TypeOK
<1>2. CacheOnBranch'
  BY <1>0, OnBranchStep DEF ServingInv
<1>3. \A r \in Requests : request'[r] # None =>
         /\ request[r] # None /\ request[r] \in Pending
         /\ request'[r] \in Pending /\ request'[r].asked = request[r].asked
         /\ request'[r].seen = request[r].seen \cup {pos'}
  <2> SUFFICES ASSUME NEW r \in Requests, request'[r] # None
               PROVE  /\ request[r] # None /\ request[r] \in Pending
                      /\ request'[r] \in Pending /\ request'[r].asked = request[r].asked
                      /\ request'[r].seen = request[r].seen \cup {pos'}
    OBVIOUS
  <2>1. request[r] # None /\ request'[r] = [request[r] EXCEPT !.seen = @ \cup {pos'}]
    BY <1>0
  <2>2. request[r] \in Pending
    BY <2>1 DEF ServingInv, RequestOK
  <2> QED BY <2>1, <2>2, <1>1 DEF Pending
<1>4. RequestOK'
  <2>1. request' \in [Requests -> {request'[r] : r \in Requests}]
    BY <1>0
  <2> QED BY <2>1, <1>0, <1>3 DEF RequestOK
<1>5. CacheInView'
  <2> SUFFICES ASSUME NEW r \in Requests, request'[r] # None,
                      NEW k \in DOMAIN cache', cache'[k].block <= Num[request'[r].asked]
               PROVE  \E x \in request'[r].seen : cache'[k].val \in Anc[x]
    BY <1>3 DEF CacheInView
  <2>1. CASE k \in DOMAIN cache /\ cache'[k] = cache[k]
    <3>1. \E x \in request[r].seen : cache[k].val \in Anc[x]
      BY <2>1, <1>3 DEF ServingInv, CacheInView
    <3> QED BY <3>1, <2>1, <1>3
  <2>2. CASE pos' = pos /\ cache'[k].val = pos
    BY <2>2, <1>1, <1>3
  <2> QED BY <1>0, <2>1, <2>2, CacheStep
<1> QED BY <1>2, <1>4, <1>5 DEF ServingInv

\* With IndInv, what requests can find in the cache is inductive: one branch, and
\* one the sinker has been on since the gate.
THEOREM ServingInvariance == ServingSpec => [](IndInv /\ ServingInv)
<1>1. ServingInit => IndInv /\ ServingInv
  BY InitInv, ServingInitInv DEF ServingInit
<1>2. IndInv /\ ServingInv /\ [ServingNext]_servingVars => IndInv' /\ ServingInv'
  <2> SUFFICES ASSUME IndInv, ServingInv, [ServingNext]_servingVars
               PROVE  IndInv' /\ ServingInv'
    OBVIOUS
  <2>1. IndInv'
    BY SinkerMoves, NextInv
  <2>2. CASE \E r \in Requests : Get(r) \/ GetFirst(r) \/ LegacyGet(r) \/ LegacyGetAll(r)
    BY <2>2, <2>1, AskStep, AskInv
  <2>3. CASE \E r \in Requests : Respond(r)
    BY <2>3, <2>1, RespondInv
  <2>4. CASE SinkerStep
    BY <2>4, <2>1, SinkerStepInv
  <2>5. CASE UNCHANGED servingVars
    BY <2>5, <2>1 DEF servingVars, vars, ServingInv, RequestOK, CacheOnBranch, CacheInView, Comparable
  <2> QED BY <2>2, <2>3, <2>4, <2>5 DEF ServingNext
<1> QED BY <1>1, <1>2, PTL DEF ServingSpec

-----------------------------------------------------------------------------
(* What a request finds *)

\* A value found for a pending Get is in the cache, at or below the requested
\* block, or it was written by a final block at or below it.
LEMMA GetRead ==
    ASSUME IndInv, RequestOK, NEW r \in Requests, request[r] # None, request[r].op = "get",
           NEW k \in request[r].keys, NEW w \in Found(r, k)
    PROVE  /\ k \in Writes[w] /\ Num[w] <= Num[request[r].asked]
           /\ \/ w \in Anc[final]
              \/ k \in DOMAIN cache /\ w = cache[k].val /\ cache[k].block <= Num[request[r].asked]
<1>1. Num[request[r].asked] \in Nat
  BY ChainAssumption DEF RequestOK, Pending
<1>2. w \in Store!Get(k, Num[request[r].asked])
  BY DEF Found
<1>3. CASE Store!Overlays(k, Num[request[r].asked])
  BY <1>2, <1>3 DEF Store!Get, Store!Overlays, IndInv, CacheCanonical
<1>4. CASE ~Store!Overlays(k, Num[request[r].asked])
  <2>1. w \in Store!WrappedGet(db, k, Num[request[r].asked])
    BY <1>2, <1>4 DEF Store!Get
  <2> QED BY <2>1, <1>1, DiskRead
<1> QED BY <1>3, <1>4

LEMMA GetFirstRead ==
    ASSUME IndInv, RequestOK, NEW r \in Requests, request[r] # None, request[r].op # "get",
           NEW k \in request[r].keys, NEW w \in Found(r, k)
    PROVE  \/ w \in Anc[final]
           \/ k \in DOMAIN cache /\ w = cache[k].val /\ cache[k].block <= Num[request[r].asked]
<1>1. Num[request[r].asked] \in Nat
  BY ChainAssumption DEF RequestOK, Pending
<1>2. w \in Store!GetFirst(k, Num[request[r].asked])
  BY DEF Found
<1>3. CASE Store!Overlays(k, Num[request[r].asked])
  BY <1>2, <1>3 DEF Store!GetFirst, Store!Overlays
<1>4. CASE ~Store!Overlays(k, Num[request[r].asked]) /\ TimeTraversal
  <2>1. PICK t \in db : w = t.val
    BY <1>2, <1>4 DEF Store!GetFirst, Store!WrappedGetFirst, Store!Oldest
  <2> QED BY <2>1 DEF IndInv, DurableFinal
<1>5. CASE ~Store!Overlays(k, Num[request[r].asked]) /\ ~TimeTraversal
  <2>1. w \in Store!WrappedGet(db, k, Num[request[r].asked])
    BY <1>2, <1>5 DEF Store!GetFirst, Store!WrappedGetFirst
  <2> QED BY <2>1, <1>1, DiskRead
<1> QED BY <1>3, <1>4, <1>5

LEMMA FoundCanonical == IndInv /\ ServingInv => RequestCanonical
<1> SUFFICES ASSUME IndInv, ServingInv, NEW r \in Requests, request[r] # None,
                    NEW k \in request[r].keys, NEW w \in Found(r, k)
             PROVE  /\ w \in InView(r)
                    /\ request[r].op = "get" =>
                          k \in Writes[w] /\ Num[w] <= Num[request[r].asked]
  BY DEF RequestCanonical
<1>1. \/ w \in Anc[final]
      \/ k \in DOMAIN cache /\ w = cache[k].val /\ cache[k].block <= Num[request[r].asked]
  BY GetRead, GetFirstRead DEF ServingInv
<1>2. w \in InView(r)
  BY <1>1 DEF ServingInv, CacheInView, InView
<1>3. request[r].op = "get" => k \in Writes[w] /\ Num[w] <= Num[request[r].asked]
  BY GetRead DEF ServingInv
<1> QED BY <1>2, <1>3

\* Whatever the sinker does between the gate and the read, a request is answered
\* from the branches it stood on meanwhile, or from final blocks.
THEOREM RequestsAreCanonical == ServingSpec => []RequestCanonical
BY ServingInvariance, FoundCanonical, PTL

LEMMA FoundOnOneBranch == IndInv /\ ServingInv => OneBranch
<1> SUFFICES ASSUME IndInv, ServingInv,
                    NEW r \in Requests, request[r] # None, request[r].op = "get",
                    NEW k1 \in request[r].keys, NEW k2 \in request[r].keys,
                    NEW w1 \in Found(r, k1), NEW w2 \in Found(r, k2)
             PROVE  Comparable(w1, w2)
  BY DEF OneBranch
<1>1. /\ w1 \in Anc[final] \/ (k1 \in DOMAIN cache /\ w1 = cache[k1].val)
      /\ w2 \in Anc[final] \/ (k2 \in DOMAIN cache /\ w2 = cache[k2].val)
  BY GetRead DEF ServingInv
<1>2. final \in Blocks /\ final \in Anc[final]
  BY ChainAssumption DEF IndInv, TypeOK
<1>3. \A k \in DOMAIN cache : cache[k].val \in Blocks /\ Comparable(cache[k].val, final)
  BY DEF IndInv, TypeOK, Store!TypeOK, Store!Slot, ServingInv, CacheOnBranch
<1>4. \A v \in Blocks : Comparable(v, final) => \A w \in Anc[final] : Comparable(v, w)
  BY <1>2, ChainAssumption DEF Comparable
<1>5. CASE w1 \in Anc[final] /\ w2 \in Anc[final]
  BY <1>5, <1>2, ChainAssumption DEF Comparable
<1>6. CASE k1 \in DOMAIN cache /\ w1 = cache[k1].val /\ w2 \in Anc[final]
  BY <1>6, <1>3, <1>4
<1>7. CASE w1 \in Anc[final] /\ k2 \in DOMAIN cache /\ w2 = cache[k2].val
  BY <1>7, <1>3, <1>4 DEF Comparable
<1>8. CASE k1 \in DOMAIN cache /\ w1 = cache[k1].val /\ k2 \in DOMAIN cache /\ w2 = cache[k2].val
  BY <1>8 DEF ServingInv, CacheOnBranch
<1> QED BY <1>1, <1>5, <1>6, <1>7, <1>8

\* The keys of one Get are answered from one branch, in the middle of a
\* reorganisation too.
THEOREM RequestsAreOnOneBranch == ServingSpec => []OneBranch
BY ServingInvariance, FoundOnOneBranch, PTL
=============================================================================
