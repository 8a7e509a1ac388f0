------------------------- MODULE FeedServing_proofs -------------------------
(***************************************************************************)
(* What readers beside the feed can rely on, for any number of clients,    *)
(* readers and workers: answers match their requests and hold values that  *)
(* were sent, a key of a batch that was accepted is found, and with one    *)
(* controller, readers of v2 are told the readiness it has set.            *)
(*                                                                         *)
(* Every step of FeedServing is a step of RemoteFeed or leaves its         *)
(* variables alone, so that what is proved of RemoteFeed holds here.       *)
(***************************************************************************)
EXTENDS FeedServing, RemoteFeed_proofs

\* What a step of readers leaves alone.
LEMMA ReaderSteps ==
    ASSUME NEW r \in Readers,
           \/ Get(r) \/ GetFirst(r) \/ LegacyGet(r) \/ LegacyGetAll(r)
           \/ \E i \in Positions : Acquire(r, i) \/ ReadKey(r, i) \/ ReadKeyFails(r, i)
           \/ Respond(r) \/ Receive(r)
    PROVE  UNCHANGED <<vars, believed, acked>>
BY DEF Get, GetFirst, LegacyGet, LegacyGetAll, Handle, Acquire, ReadKey, ReadKeyFails,
       Respond, Receive, Move

\* The feed runs as if there were no readers.
THEOREM FeedIsFeed == FeedServingSpec => Spec
<1>1. FeedServingInit => Init
  BY DEF FeedServingInit
<1>2. FeedServingNext => [Next]_vars
  BY ReaderSteps DEF FeedServingNext, SetReturns, SetReadyStarts, SetReadyReturns, FeedStep,
       ServerRestart, Next
<1>3. UNCHANGED feedServingVars => UNCHANGED vars
  BY DEF feedServingVars
<1> QED
  BY <1>1, <1>2, <1>3, PTL DEF FeedServingSpec, Spec

-----------------------------------------------------------------------------
(* Keys are never lost *)

\* A key of a batch in progress that is neither waiting to be looked up nor to be
\* committed exists: it was committed, or was there already.
LookedAfter ==
    \A c \in Clients : call[c].op = "set" =>
        \A k \in DOMAIN call[c].batch.entries \ (call[c].unchecked \cup call[c].admitted) :
            Store!Exists(db, k)

\* Nothing the feed does takes a key out of the store.
LEMMA KeysStay ==
    ASSUME TypeOK, [Next]_vars, NEW k, Store!Exists(db, k)
    PROVE  Store!Exists(db', k)
<1>1. ASSUME NEW c \in Clients, CommitPart(c) PROVE Store!Exists(db', k)
  BY <1>1, StoredFacts DEF CommitPart
<1>2. ASSUME NEW c \in Clients, Flush(c) PROVE Store!Exists(db', k)
  BY <1>2, StoredFacts DEF Flush
<1>3. CASE db' = db
  BY <1>3
<1> QED
  BY <1>1, <1>2, <1>3
  DEF Next, vars, Set, CheckKey, SetFails, SetReady, Persist, PersistFails, Cache, Restart

LEMMA LookedAfterStep ==
    ASSUME TypeOK, LookedAfter, [Next]_vars
    PROVE  LookedAfter'
<1> USE DEF LookedAfter
<1>0. call \in [Clients -> {NoCall} \cup SetCall \cup ReadyCall]
  BY DEF TypeOK
<1> SUFFICES ASSUME NEW c \in Clients, call'[c].op = "set",
                    NEW k \in DOMAIN call'[c].batch.entries, k \notin call'[c].unchecked,
                    k \notin call'[c].admitted
             PROVE  Store!Exists(db', k)
  BY DEF LookedAfter, Store!Exists
<1>1. CASE call'[c] = call[c]
  BY <1>1, KeysStay
<1>2. CASE Set(c)
  <2>1. k \in call'[c].unchecked
    BY <1>0, <1>2 DEF Set, Proceed
  <2> QED
    BY <2>1
<1>3. CASE CheckKey(c)
  <2>1. call[c].op = "set" /\ call'[c].batch = call[c].batch /\ db' = db
    BY <1>3, SetStep DEF CheckKey
  <2>2. call[c] \in SetCall
    BY <2>1, SetCallFacts
  <2>3. PICK x \in call[c].unchecked :
           call' = [call EXCEPT ![c] = [call[c] EXCEPT
              !.unchecked = @ \ {x},
              !.admitted = IF call[c].batch.if_not_exist /\ Store!Exists(db, x) THEN @
                           ELSE @ \cup {x}]]
    BY <1>3 DEF CheckKey, Proceed
  <2>4. /\ call'[c].unchecked = call[c].unchecked \ {x}
        /\ call'[c].admitted = IF call[c].batch.if_not_exist /\ Store!Exists(db, x)
                               THEN call[c].admitted ELSE call[c].admitted \cup {x}
    BY <1>0, <2>2, <2>3 DEF SetCall
  <2>5. CASE k = x
    BY <2>1, <2>4, <2>5
  <2>6. CASE k # x
    BY <2>1, <2>4, <2>6
  <2> QED
    BY <2>5, <2>6
<1>4. CASE CommitPart(c)
  <2>1. call[c].op = "set" /\ call'[c].batch = call[c].batch
    BY <1>4, SetStep
  <2>2. call[c] \in SetCall
    BY <2>1, SetCallFacts
  <2>3. PICK D \in SUBSET call[c].admitted :
           /\ db' = Stored(c, D)
           /\ call' = [call EXCEPT ![c] = [call[c] EXCEPT !.admitted = @ \ D]]
    BY <1>4 DEF CommitPart, Proceed
  <2>4. /\ call'[c].unchecked = call[c].unchecked
        /\ call'[c].admitted = call[c].admitted \ D
    BY <1>0, <2>2, <2>3 DEF SetCall
  <2>5. k \notin D => Store!Exists(db, k)
    BY <2>1, <2>4
  <2> QED
    BY <2>1, <2>3, <2>5, StoredFacts
<1>5. CASE \/ Flush(c) \/ SetFails(c) \/ SetReady(c) \/ Persist(c) \/ PersistFails(c)
           \/ Cache(c) \/ Restart
  <2>1. CASE Persist(c)
    <3>1. call[c] \in ReadyCall
      BY <2>1, ReadyCallFacts DEF Persist
    <3> QED
      BY <1>0, <2>1, <3>1 DEF Persist, ReadyCall, Proceed
  <2>2. CASE SetReady(c)
    BY <1>0, <2>2 DEF SetReady, Proceed
  <2>3. CASE Restart
    BY <2>3 DEF Restart, NoCall
  <2>4. CASE Flush(c) \/ SetFails(c) \/ PersistFails(c) \/ Cache(c)
    BY <1>0, <2>4 DEF Flush, SetFails, PersistFails, Cache, NoCall, Proceed
  <2> QED
    BY <1>5, <2>1, <2>2, <2>3, <2>4
<1>6. ASSUME NEW d \in Clients, d # c,
             \/ Set(d) \/ CheckKey(d) \/ CommitPart(d) \/ Flush(d) \/ SetFails(d)
             \/ SetReady(d) \/ Persist(d) \/ PersistFails(d) \/ Cache(d)
      PROVE  call'[c] = call[c]
  BY <1>0, <1>6 DEF Set, CheckKey, CommitPart, Flush, SetFails, SetReady, Persist,
       PersistFails, Cache, Proceed
<1> QED
  BY <1>1, <1>2, <1>3, <1>4, <1>5, <1>6 DEF Next, vars

\* When a Set returns, all keys of its batch exist.
LEMMA SetReturned ==
    ASSUME TypeOK, LookedAfter, NEW c \in Clients, Flush(c),
           NEW k \in DOMAIN call[c].batch.entries
    PROVE  Store!Exists(db', k)
<1>1. call[c].op = "set" /\ call[c].unchecked = {} /\ db' = Stored(c, call[c].admitted)
  BY DEF Flush
<1>2. k \notin call[c].admitted => Store!Exists(db, k)
  BY <1>1 DEF LookedAfter
<1> QED
  BY <1>1, <1>2, StoredFacts

-----------------------------------------------------------------------------
(* The entries of a request *)

\* All data of the feed is stamped with block 0, so that no request is below it.
Unstamped == \A t \in db : t.block = 0

LEMMA UnstampedStep ==
    ASSUME TypeOK, Unstamped, [Next]_vars
    PROVE  Unstamped'
<1>1. ASSUME NEW c, NEW D PROVE \A t \in Stored(c, D) : t \in db \/ t.block = 0
  BY DEF Stored, Store!Put
<1>2. (\E c, D : db' = Stored(c, D)) \/ db' = db
  BY DEF Next, vars, Set, CheckKey, CommitPart, Flush, SetFails, SetReady, Persist,
         PersistFails, Cache, Restart
<1> QED
  BY <1>1, <1>2 DEF Unstamped

\* A value some batch has for a key; what the store holds, and what calls are about
\* to store, is of that kind.
Sent(k, v) == \E b \in Batches : k \in DOMAIN b.entries /\ v = b.entries[k]

FromBatches ==
    /\ \A t \in db : Sent(t.key, t.val)
    /\ \A c \in Clients : call[c].op = "set" => call[c].batch \in Batches

LEMMA StoredFromBatches ==
    ASSUME TypeOK, FromBatches, NEW c \in Clients, call[c].op = "set",
           NEW D \in SUBSET call[c].admitted
    PROVE  \A t \in Stored(c, D) : Sent(t.key, t.val)
<1> DEFINE part == Restrict(call[c].batch.entries, D)
<1>1. call[c].batch \in Batches /\ D \subseteq DOMAIN call[c].batch.entries
  BY SetCallFacts DEF FromBatches
<1>2. DOMAIN part = D /\ \A k \in D : part[k] = call[c].batch.entries[k]
  BY <1>1 DEF Restrict
<1>3. \A t \in Stored(c, D) : t \in db \/ \E k \in D : t.key = k /\ t.val = part[k]
  BY <1>2 DEF Stored, Store!Put
<1> QED
  BY <1>1, <1>2, <1>3 DEF FromBatches, Sent

LEMMA FromBatchesStep ==
    ASSUME TypeOK, FromBatches, [Next]_vars
    PROVE  FromBatches'
<1>0. call \in [Clients -> {NoCall} \cup SetCall \cup ReadyCall]
  BY DEF TypeOK
<1>1. ASSUME NEW c \in Clients, Set(c) PROVE FromBatches'
  <2>1. PICK batch \in Batches : \E unchecked, admitted :
           call' = [call EXCEPT ![c] = [op |-> "set", batch |-> batch,
                                        unchecked |-> unchecked, admitted |-> admitted]]
    BY <1>1 DEF Set, Proceed
  <2> QED
    BY <1>0, <1>1, <2>1 DEF Set, FromBatches, Sent
<1>2. ASSUME NEW c \in Clients, CheckKey(c) \/ CommitPart(c) PROVE FromBatches'
  <2>1. /\ call[c].op = "set" /\ call'[c].batch = call[c].batch
        /\ \A d \in Clients : d # c => call'[d] = call[d]
    BY <1>0, <1>2, SetStep
  <2>2. \A t \in db' : Sent(t.key, t.val)
    BY <1>2, <2>1, StoredFromBatches DEF CheckKey, CommitPart, FromBatches
  <2> QED
    BY <2>1, <2>2 DEF FromBatches, Sent
<1>3. ASSUME NEW c \in Clients, Flush(c) PROVE FromBatches'
  <2>1. \A t \in db' : Sent(t.key, t.val)
    BY <1>3, StoredFromBatches DEF Flush
  <2> QED
    BY <1>0, <1>3, <2>1 DEF Flush, Proceed, NoCall, FromBatches, Sent
<1>4. ASSUME NEW c \in Clients, SetFails(c) \/ PersistFails(c) \/ Cache(c) PROVE FromBatches'
  BY <1>0, <1>4 DEF SetFails, PersistFails, Cache, Proceed, NoCall, FromBatches, Sent
<1>5. ASSUME NEW c \in Clients, SetReady(c) PROVE FromBatches'
  BY <1>0, <1>5 DEF SetReady, Proceed, FromBatches, Sent
<1>6. ASSUME NEW c \in Clients, Persist(c) PROVE FromBatches'
  <2>1. call[c] \in ReadyCall
    BY <1>6, ReadyCallFacts DEF Persist
  <2>2. call'[c].op = "cache" /\ db' = db /\ \A d \in Clients : d # c => call'[d] = call[d]
    BY <1>0, <1>6, <2>1 DEF Persist, Proceed, ReadyCall
  <2> QED
    BY <2>2 DEF FromBatches, Sent
<1>7. CASE Restart
  BY <1>7 DEF Restart, NoCall, FromBatches, Sent
<1>8. CASE UNCHANGED vars
  BY <1>8 DEF vars, FromBatches, Sent
<1> QED
  BY <1>1, <1>2, <1>3, <1>4, <1>5, <1>6, <1>7, <1>8 DEF Next

\* What a goroutine fills in names its key, is FOUND when the key exists, and then
\* holds a value that was sent for it.
LEMMA LookupFacts ==
    ASSUME TypeOK, Unstamped, FromBatches, NEW k \in Keys, NEW n \in Nat
    PROVE  /\ Lookup(db, k, n) \in QueriedEntry
           /\ Lookup(db, k, n).entry.key = k
           /\ Store!Exists(db, k) => Lookup(db, k, n).code = "FOUND"
           /\ Lookup(db, k, n).code = "FOUND" => Sent(k, Lookup(db, k, n).entry.value)
<1> DEFINE found == Store!WrappedGet(db, k, n)
<1>1. found \subseteq Values /\ \A v \in found : Sent(k, v)
  BY DEF TypeOK, FromBatches, Store!WrappedGet, Store!Newest, Store!Version
<1>2. CASE found = {}
  <2>1. Lookup(db, k, n) = [code |-> "NOT_FOUND", entry |-> [key |-> k, value |-> Nil]]
    BY <1>2 DEF Lookup
  <2>2. ~Store!Exists(db, k)
    <3>1. ASSUME NEW t \in db, t.key = k PROVE t.val \in found
      <4>1. t.block = 0 /\ \A u \in db : u.block = 0
        BY DEF Unstamped
      <4>2. t \in Store!Newest(db, k, n)
        BY <3>1, <4>1 DEF Store!Newest
      <4> QED
        BY <4>2 DEF Store!WrappedGet
    <3> QED
      BY <1>2, <3>1 DEF Store!Exists
  <2> QED
    BY <2>1, <2>2 DEF QueriedEntry, Entry, ResponseCode
<1>3. CASE found # {}
  <2>1. PICK v \in found : Lookup(db, k, n) = [code |-> "FOUND", entry |-> [key |-> k, value |-> v]]
    BY <1>3 DEF Lookup
  <2> QED
    BY <1>1, <2>1 DEF QueriedEntry, Entry, ResponseCode
<1> QED
  BY <1>2, <1>3

\* Sequences of answers, built position by position.
LEMMA Positionwise ==
    ASSUME NEW S, NEW T, NEW keys \in Seq(S), NEW f, f = [i \in DOMAIN keys |-> f[i]],
           \A i \in DOMAIN keys : f[i] \in T
    PROVE  f \in Seq(T) /\ Len(f) = Len(keys)
BY DOMAIN keys = 1..Len(keys), Len(keys) \in Nat

-----------------------------------------------------------------------------
(* One request *)

\* The goroutines have filled in their own entries; those that are not done are
\* waiting or working, unless one has failed.
Pool(s) ==
    /\ s.waiting \cup s.working \subseteq DOMAIN s.req.keys
    /\ s.failed \/ DOMAIN s.req.keys \subseteq s.waiting \cup s.working \cup DOMAIN s.entries
    /\ \A i \in DOMAIN s.entries :
          /\ i \in DOMAIN s.req.keys
          /\ s.entries[i].entry.key = s.req.keys[i]
          /\ s.req.keys[i] \in s.since => s.entries[i].code = "FOUND"
          /\ s.entries[i].code = "FOUND" => Sent(s.req.keys[i], s.entries[i].entry.value)

\* What is told of a key: its name, that it is found if it has to be, and a value that
\* was sent for it.
ToldOf(e, k, since) ==
    /\ e.entry.key = k
    /\ k \in since => e.code = "FOUND"
    /\ e.code = "FOUND" => Sent(k, e.entry.value)

Complete(s) ==
    s.response.block_reached = TRUE =>
        /\ DOMAIN Told(s) = DOMAIN s.req.keys
        /\ \A i \in DOMAIN s.req.keys : ToldOf(Told(s)[i], s.req.keys[i], s.since)

ServedOK(s) ==
    /\ s \in Served
    /\ s.phase = "reading" => Pool(s)
    /\ s.phase = "answered" => Complete(s)

HistoryOK ==
    /\ believed \in SUBSET BOOLEAN
    /\ acked \in SUBSET Keys
    /\ \A k \in acked : Store!Exists(db, k)

RequestInv ==
    /\ request \in [Readers -> {NoRequest} \cup Served]
    /\ \A r \in Readers : request[r] # NoRequest =>
          ServedOK(request[r]) /\ request[r].since \subseteq acked

LEMMA RequestFacts ==
    ASSUME NEW req \in Requests
    PROVE  /\ req.keys \in Seq(Keys) /\ req.block_number \in 0..MaxUint64
           /\ req.omit_deleted \in BOOLEAN /\ req.method \in Modern \cup Legacy
           /\ req.method = "LegacyGet" => Len(req.keys) = 1
           /\ DOMAIN req.keys = 1..Len(req.keys) /\ DOMAIN req.keys \subseteq Positions
           /\ \A i \in DOMAIN req.keys : req.keys[i] \in Keys
<1>1. /\ req \in [method : {"Get", "GetFirst", "LegacyGet", "LegacyGetAll"},
                  block_number : BlockNumber, omit_deleted : BOOLEAN, keys : Seq(Keys)]
      /\ req.method = "LegacyGet" => Len(req.keys) = 1
  BY FeedServingAssumption
<1>2. req.keys \in Seq(Keys)
  BY <1>1
<1>3. DOMAIN req.keys = 1..Len(req.keys) /\ \A i \in DOMAIN req.keys : req.keys[i] \in Keys
  BY <1>2
<1> QED
  BY <1>1, <1>2, <1>3 DEF Modern, Legacy, Positions, BlockNumber

\* A request that arrives is well formed, answered at once or not.
LEMMA ArrivedOK ==
    ASSUME HistoryOK, NEW req \in Requests
    PROVE  /\ ServedOK(Arrived(req)) /\ Arrived(req).since = acked
           /\ \A n \in {NotReached, LegacyNotReached, LegacyAllNotReached} :
                 /\ ServedOK(Answered(Arrived(req), n))
                 /\ Answered(Arrived(req), n).since = acked
<1> DEFINE s == Arrived(req)
<1>1. s \in Served
  <2>1. [i \in {} |-> {}] \in UNION {[D -> QueriedEntry] : D \in SUBSET Positions}
    <3>1. [i \in {} |-> {}] \in [{} -> QueriedEntry]
      OBVIOUS
    <3> QED
      BY <3>1
  <2>2. DOMAIN req.keys \subseteq Positions
    BY RequestFacts
  <2> QED
    BY <2>1, <2>2 DEF Arrived, Served, Response, HistoryOK
<1>2. Pool(s)
  BY DEF Arrived, Pool
<1>3. ASSUME NEW n \in {NotReached, LegacyNotReached, LegacyAllNotReached}
      PROVE  Answered(s, n) \in Served /\ Complete(Answered(s, n))
  <2>1. n \in Response /\ n.block_reached = FALSE
    <3>1. CASE n = NotReached
      BY <3>1 DEF Response, NotReached, GetResponse
    <3>2. CASE n = LegacyNotReached
      BY <3>2 DEF Response, LegacyNotReached, LegacyGetResponse, LegacyCode, ResponseCode
    <3>3. CASE n = LegacyAllNotReached
      <4>1. <<>> \in Seq(ResponseEntry)
        OBVIOUS
      <4> QED
        BY <3>3, <4>1 DEF Response, LegacyAllNotReached, LegacyGetAllResponse
    <3> QED
      BY <1>3, <3>1, <3>2, <3>3
  <2>2. [i \in {} |-> {}] \in UNION {[D -> QueriedEntry] : D \in SUBSET Positions}
    BY <1>1 DEF Arrived, Served
  <2>3. Answered(s, n) \in Served /\ Answered(s, n).response = n
    BY <1>1, <2>1, <2>2 DEF Answered, Served
  <2> QED
    BY <2>1, <2>3 DEF Complete
<1>4. s.phase = "reading" /\ s.since = acked
  BY DEF Arrived
<1>5. \A n : Answered(s, n).phase = "answered" /\ Answered(s, n).since = acked
  BY <1>1, <1>4 DEF Answered, Served
<1> QED
  BY <1>1, <1>2, <1>3, <1>4, <1>5 DEF ServedOK

LEMMA AcquireOK ==
    ASSUME NEW s, ServedOK(s), s.phase = "reading", NEW i \in s.waiting
    PROVE  ServedOK([s EXCEPT !.waiting = @ \ {i}, !.working = @ \cup {i}])
BY DEF ServedOK, Served, Pool

LEMMA ReadKeyFailsOK ==
    ASSUME NEW s, ServedOK(s), s.phase = "reading", NEW i \in s.working
    PROVE  ServedOK([s EXCEPT !.working = @ \ {i}, !.failed = TRUE])
BY DEF ServedOK, Served, Pool

\* The key of a batch that was accepted before the request is found.
LEMMA ReadKeyOK ==
    ASSUME TypeOK, Unstamped, FromBatches, HistoryOK,
           NEW s, ServedOK(s), s.phase = "reading", s.since \subseteq acked, NEW i \in s.working
    PROVE  ServedOK([s EXCEPT !.working = @ \ {i},
                              !.entries = Fill(@, i, Lookup(db, s.req.keys[i], s.req.block_number))])
<1> DEFINE e == Lookup(db, s.req.keys[i], s.req.block_number)
           filled == Fill(s.entries, i, e)
           t == [s EXCEPT !.working = @ \ {i}, !.entries = filled]
<1>1. s \in Served /\ Pool(s)
  BY DEF ServedOK
<1>2. s.req \in Requests /\ i \in DOMAIN s.req.keys /\ i \in Positions
  BY <1>1 DEF Served, Pool
<1>3. s.req.keys[i] \in Keys /\ s.req.block_number \in Nat
  <2>1. s.req.block_number \in 0..MaxUint64 /\ MaxUint64 \in Nat
    BY <1>2, RequestFacts, MessagesAssumption
  <2> QED
    BY <1>2, <2>1, RequestFacts
<1>4. /\ e \in QueriedEntry /\ e.entry.key = s.req.keys[i]
      /\ s.req.keys[i] \in s.since => e.code = "FOUND"
      /\ e.code = "FOUND" => Sent(s.req.keys[i], e.entry.value)
  BY <1>3, LookupFacts DEF HistoryOK
<1> HIDE DEF e
<1>5. PICK D \in SUBSET Positions : s.entries \in [D -> QueriedEntry]
  BY <1>1 DEF Served
<1>6. /\ filled \in [D \cup {i} -> QueriedEntry] /\ DOMAIN filled = DOMAIN s.entries \cup {i}
      /\ \A j \in DOMAIN filled : filled[j] = IF j = i THEN e ELSE s.entries[j]
  BY <1>4, <1>5 DEF Fill
<1> HIDE DEF filled
<1>7. filled \in UNION {[E -> QueriedEntry] : E \in SUBSET Positions}
  BY <1>2, <1>6
<1>8. t \in Served
  BY <1>1, <1>7 DEF Served
<1>9. /\ t.phase = "reading" /\ t.req = s.req /\ t.waiting = s.waiting
      /\ t.working = s.working \ {i} /\ t.entries = filled /\ t.failed = s.failed
      /\ t.since = s.since
  BY <1>1 DEF Served
<1> HIDE DEF t
<1>10. Pool(t)
  <2>1. t.waiting \cup t.working \subseteq DOMAIN t.req.keys
    BY <1>1, <1>9 DEF Pool
  <2>2. t.failed \/ DOMAIN t.req.keys \subseteq t.waiting \cup t.working \cup DOMAIN t.entries
    BY <1>1, <1>6, <1>9 DEF Pool
  <2>3. ASSUME NEW j \in DOMAIN t.entries
        PROVE  /\ j \in DOMAIN t.req.keys
               /\ t.entries[j].entry.key = t.req.keys[j]
               /\ t.req.keys[j] \in t.since => t.entries[j].code = "FOUND"
               /\ t.entries[j].code = "FOUND" => Sent(t.req.keys[j], t.entries[j].entry.value)
    BY <1>1, <1>2, <1>4, <1>6, <1>9, <2>3 DEF Pool
  <2> QED
    BY <2>1, <2>2, <2>3 DEF Pool
<1>11. ServedOK(t)
  BY <1>8, <1>9, <1>10 DEF ServedOK
<1> QED
  BY <1>11 DEF t, filled, e

\* Whatever the answer is, it is well typed, and says FOUND where the entries do.
LEMMA AnsweredOK ==
    ASSUME NEW s, s \in Served, NEW a \in Response, Complete([s EXCEPT !.response = a])
    PROVE  ServedOK(Answered(s, a)) /\ Answered(s, a).since = s.since
<1>1. [i \in {} |-> {}] \in UNION {[D -> QueriedEntry] : D \in SUBSET Positions}
  <2>1. [i \in {} |-> {}] \in [{} -> QueriedEntry]
    OBVIOUS
  <2> QED
    BY <2>1
<1>2. /\ Answered(s, a) \in Served /\ Answered(s, a).phase = "answered"
      /\ Answered(s, a).response = a /\ Answered(s, a).req = s.req
      /\ Answered(s, a).since = s.since
  BY <1>1 DEF Answered, Served
<1>3. /\ [s EXCEPT !.response = a].response = a
      /\ [s EXCEPT !.response = a].req = s.req
      /\ [s EXCEPT !.response = a].since = s.since
  BY DEF Served
<1>4. Told(Answered(s, a)) = Told([s EXCEPT !.response = a])
  BY <1>2, <1>3 DEF Told
<1>5. Complete(Answered(s, a))
  BY <1>2, <1>3, <1>4 DEF Complete
<1> QED
  BY <1>2, <1>5 DEF ServedOK

\* The three answers of a request without errors.
LEMMA AnswersOK ==
    ASSUME NEW s, ServedOK(s), s.phase = "reading", s.waiting = {}, s.working = {}, ~s.failed
    PROVE  /\ s.req.method \in Modern =>
                 GetAnswer(s) \in Response /\ Complete([s EXCEPT !.response = GetAnswer(s)])
           /\ s.req.method = "LegacyGet" =>
                 /\ LegacyGetAnswer(s) \in Response
                 /\ Complete([s EXCEPT !.response = LegacyGetAnswer(s)])
           /\ s.req.method = "LegacyGetAll" =>
                 /\ LegacyGetAllAnswer(s) \in Response
                 /\ Complete([s EXCEPT !.response = LegacyGetAllAnswer(s)])
<1> DEFINE keys == s.req.keys
           with(a) == [s EXCEPT !.response = a]
<1>1. s \in Served /\ Pool(s) /\ s.req \in Requests
  BY DEF ServedOK, Served
<1>2. PICK D \in SUBSET Positions : s.entries \in [D -> QueriedEntry]
  BY <1>1 DEF Served
<1>3. \A i \in DOMAIN keys :
          /\ s.entries[i] \in QueriedEntry
          /\ s.entries[i].entry.key = keys[i]
          /\ keys[i] \in s.since => s.entries[i].code = "FOUND"
          /\ s.entries[i].code = "FOUND" => Sent(keys[i], s.entries[i].entry.value)
  BY <1>1, <1>2 DEF Pool
<1>4. \A i \in DOMAIN keys :
          /\ s.entries[i].code \in ResponseCode
          /\ s.entries[i].entry.key \in Keys
          /\ s.entries[i].entry.value \in Values \cup {Nil}
  BY <1>3 DEF QueriedEntry, Entry
<1>5. keys \in Seq(Keys) /\ s.req.omit_deleted \in BOOLEAN
  BY <1>1, RequestFacts
<1>6. \A a : with(a).response = a /\ with(a).req = s.req /\ with(a).since = s.since
  BY <1>1 DEF Served
<1>7. \A code \in ResponseCode : \A omit \in BOOLEAN :
          CodeV1(code, omit) \in LegacyCode /\ (code = "FOUND" <=> CodeV1(code, omit) = "FOUND")
  BY DEF CodeV1, LegacyCode, ResponseCode
<1>8. ASSUME s.req.method \in Modern
      PROVE  GetAnswer(s) \in Response /\ Complete(with(GetAnswer(s)))
  <2> DEFINE list == [i \in DOMAIN keys |-> s.entries[i]]
  <2>1. list \in QueriedEntries
    BY <1>3, <1>5, Positionwise, Zenon DEF QueriedEntries
  <2>2. GetAnswer(s) = [block_reached |-> TRUE, entries |-> list]
    BY DEF GetAnswer
  <2>3. GetAnswer(s) \in Response
    BY <2>1, <2>2 DEF Response, GetResponse
  <2>6. DOMAIN list = DOMAIN keys /\ \A i \in DOMAIN keys : ToldOf(list[i], keys[i], s.since)
    BY <1>3 DEF ToldOf
  <2> HIDE DEF list
  <2>4. Told(with(GetAnswer(s))) = list
    BY <1>6, <1>8, <2>2 DEF Told, Modern
  <2> QED
    BY <1>6, <2>3, <2>4, <2>6 DEF Complete
<1>9. ASSUME s.req.method = "LegacyGet"
      PROVE  LegacyGetAnswer(s) \in Response /\ Complete(with(LegacyGetAnswer(s)))
  <2> DEFINE e == s.entries[1]
             code == CodeV1(e.code, s.req.omit_deleted)
             value == IF e.code = "FOUND" THEN e.entry.value ELSE Nil
  <2>1. 1 \in DOMAIN keys
    BY <1>1, <1>5, <1>9, RequestFacts
  <2>2. LegacyGetAnswer(s) = [block_reached |-> TRUE, code |-> code, value |-> value]
    BY DEF LegacyGetAnswer
  <2>3. code \in LegacyCode /\ value \in Values \cup {Nil}
    BY <1>4, <1>5, <1>7, <2>1
  <2>4. /\ keys[1] \in s.since => code = "FOUND"
        /\ code = "FOUND" => Sent(keys[1], value)
    BY <1>3, <1>4, <1>5, <1>7, <2>1
  <2> HIDE DEF code, value
  <2>5. LegacyGetAnswer(s) \in Response
    BY <2>2, <2>3 DEF Response, LegacyGetResponse
  <2>6. Told(with(LegacyGetAnswer(s))) =
            <<[code |-> code, entry |-> [key |-> keys[1], value |-> value]]>>
    BY <1>6, <1>9, <2>2 DEF Told, Modern
  <2>8. DOMAIN keys = {1}
    BY <1>1, <1>5, <1>9, RequestFacts
  <2>7. /\ DOMAIN Told(with(LegacyGetAnswer(s))) = DOMAIN keys
        /\ \A i \in DOMAIN keys : ToldOf(Told(with(LegacyGetAnswer(s)))[i], keys[i], s.since)
    BY <2>4, <2>6, <2>8 DEF ToldOf
  <2> QED
    BY <1>6, <2>5, <2>7 DEF Complete
<1>10. ASSUME s.req.method = "LegacyGetAll"
       PROVE  LegacyGetAllAnswer(s) \in Response /\ Complete(with(LegacyGetAllAnswer(s)))
  <2> DEFINE code(i) == CodeV1(s.entries[i].code, s.req.omit_deleted)
             item(i) == [key |-> s.entries[i].entry.key,
                         response |-> [block_reached |-> TRUE, code |-> code(i),
                             value |-> IF code(i) = s.entries[i].code
                                       THEN s.entries[i].entry.value ELSE Nil]]
             list == [i \in DOMAIN keys |-> item(i)]
  <2>1. \A i \in DOMAIN keys : code(i) \in LegacyCode
    BY <1>4, <1>5, <1>7
  <2>2. \A i \in DOMAIN keys : /\ keys[i] \in s.since => code(i) = "FOUND"
                               /\ code(i) = "FOUND" <=> s.entries[i].code = "FOUND"
    BY <1>3, <1>4, <1>5, <1>7
  <2> HIDE DEF code
  <2>3. \A i \in DOMAIN keys : item(i) \in ResponseEntry
    BY <1>4, <2>1 DEF ResponseEntry, LegacyGetResponse
  <2>4. \A i \in DOMAIN list :
            /\ list[i].key = keys[i] /\ list[i].response.code = code(i)
            /\ code(i) = "FOUND" => Sent(keys[i], list[i].response.value)
    BY <1>3, <2>2
  <2>5. LegacyGetAllAnswer(s) = [block_reached |-> TRUE, entries |-> list]
    BY DEF LegacyGetAllAnswer, code
  <2> HIDE DEF item
  <2>6. list \in Seq(ResponseEntry)
    BY <1>5, <2>3, Positionwise, Zenon
  <2>7. DOMAIN list = DOMAIN keys
    OBVIOUS
  <2> HIDE DEF list
  <2>8. LegacyGetAllAnswer(s) \in Response
    BY <2>5, <2>6 DEF Response, LegacyGetAllResponse
  <2>9. Told(with(LegacyGetAllAnswer(s))) =
            [i \in DOMAIN list |->
                [code |-> list[i].response.code,
                 entry |-> [key |-> list[i].key, value |-> list[i].response.value]]]
    BY <1>6, <1>10, <2>5 DEF Told, Modern
  <2>10. /\ DOMAIN Told(with(LegacyGetAllAnswer(s))) = DOMAIN keys
         /\ \A i \in DOMAIN keys : ToldOf(Told(with(LegacyGetAllAnswer(s)))[i], keys[i], s.since)
    BY <2>2, <2>4, <2>7, <2>9 DEF ToldOf
  <2> QED
    BY <1>6, <2>8, <2>10 DEF Complete
<1> QED
  BY <1>8, <1>9, <1>10

-----------------------------------------------------------------------------
(* All requests *)

FeedServingInv == TypeOK /\ Unstamped /\ FromBatches /\ LookedAfter /\ HistoryOK /\ RequestInv

\* A step of one request, from what it is to what it becomes.
LEMMA OneRequest ==
    ASSUME RequestInv, NEW r \in Readers, NEW s, request' = [request EXCEPT ![r] = s],
           s = NoRequest \/ (ServedOK(s) /\ s.since \subseteq acked), acked' = acked
    PROVE  RequestInv'
<1>1. s \in {NoRequest} \cup Served
  BY DEF ServedOK
<1>2. request' \in [Readers -> {NoRequest} \cup Served]
  BY <1>1 DEF RequestInv
<1>3. \A q \in Readers : request'[q] = IF q = r THEN s ELSE request[q]
  BY DEF RequestInv
<1>4. ASSUME NEW q \in Readers, request'[q] # NoRequest
      PROVE  ServedOK(request'[q]) /\ request'[q].since \subseteq acked
  BY <1>3, <1>4 DEF RequestInv
<1> QED
  BY <1>2, <1>4 DEF RequestInv

\* A request at the store.
LEMMA ReadingFacts ==
    ASSUME RequestInv, NEW r \in Readers, request[r].phase = "reading"
    PROVE  ServedOK(request[r]) /\ request[r] \in Served /\ request[r].since \subseteq acked
BY DEF RequestInv, NoRequest, ServedOK

LEMMA ReaderStepsKeep ==
    ASSUME FeedServingInv, NEW r \in Readers,
           \/ Get(r) \/ GetFirst(r) \/ LegacyGet(r) \/ LegacyGetAll(r)
           \/ \E i \in Positions : Acquire(r, i) \/ ReadKey(r, i) \/ ReadKeyFails(r, i)
           \/ Respond(r) \/ Receive(r)
    PROVE  RequestInv'
<1>0. RequestInv /\ HistoryOK /\ acked' = acked
  BY ReaderSteps DEF FeedServingInv
<1>1. CASE Get(r) \/ GetFirst(r) \/ LegacyGet(r) \/ LegacyGetAll(r)
  <2>1. \E method, open : \E n \in {NotReached, LegacyNotReached, LegacyAllNotReached} :
            Handle(r, method, open, n)
    BY <1>1 DEF Get, GetFirst, LegacyGet, LegacyGetAll
  <2>2. PICK req \in Requests, n \in {NotReached, LegacyNotReached, LegacyAllNotReached} :
            \E s \in {Arrived(req), Answered(Arrived(req), n)} :
                request' = [request EXCEPT ![r] = s]
    BY <2>1 DEF Handle
  <2> QED
    BY <1>0, <2>2, ArrivedOK, OneRequest
<1>2. ASSUME NEW i \in Positions, Acquire(r, i) \/ ReadKey(r, i) \/ ReadKeyFails(r, i)
      PROVE  RequestInv'
  <2>1. /\ request[r].phase = "reading"
        /\ ServedOK(request[r]) /\ request[r] \in Served /\ request[r].since \subseteq acked
    BY <1>0, <1>2, ReadingFacts DEF Acquire, ReadKey, ReadKeyFails
  <2>2. CASE Acquire(r, i)
    <3> DEFINE s == [request[r] EXCEPT !.waiting = @ \ {i}, !.working = @ \cup {i}]
    <3>1. request' = [request EXCEPT ![r] = s] /\ i \in request[r].waiting
      BY <2>2 DEF Acquire, Move
    <3>2. ServedOK(s)
      BY <2>1, <3>1, AcquireOK
    <3>3. s.since = request[r].since
      BY <2>1 DEF Served
    <3> HIDE DEF s
    <3> QED
      BY <1>0, <2>1, <3>1, <3>2, <3>3, OneRequest
  <2>3. CASE ReadKey(r, i)
    <3> DEFINE s == [request[r] EXCEPT
                        !.working = @ \ {i},
                        !.entries = Fill(@, i, Lookup(db, request[r].req.keys[i],
                                                      request[r].req.block_number))]
    <3>1. request' = [request EXCEPT ![r] = s] /\ i \in request[r].working
      BY <2>3 DEF ReadKey, Move
    <3>2. ServedOK(s)
      BY <2>1, <3>1, ReadKeyOK DEF FeedServingInv
    <3>3. s.since = request[r].since
      BY <2>1 DEF Served
    <3> HIDE DEF s
    <3> QED
      BY <1>0, <2>1, <3>1, <3>2, <3>3, OneRequest
  <2>4. CASE ReadKeyFails(r, i)
    <3> DEFINE s == [request[r] EXCEPT !.working = @ \ {i}, !.failed = TRUE]
    <3>1. request' = [request EXCEPT ![r] = s] /\ i \in request[r].working
      BY <2>4 DEF ReadKeyFails, Move
    <3>2. ServedOK(s)
      BY <2>1, <3>1, ReadKeyFailsOK
    <3>3. s.since = request[r].since
      BY <2>1 DEF Served
    <3> HIDE DEF s
    <3> QED
      BY <1>0, <2>1, <3>1, <3>2, <3>3, OneRequest
  <2> QED
    BY <1>2, <2>2, <2>3, <2>4
<1>3. CASE Respond(r)
  <2> DEFINE s == request[r]
  <2>1. /\ s.phase = "reading" /\ s.waiting = {} /\ s.working = {}
        /\ ServedOK(s) /\ s \in Served /\ s.since \subseteq acked
    BY <1>0, <1>3, ReadingFacts DEF Respond
  <2>2. s.failed \in BOOLEAN /\ s.req.method \in Modern \cup Legacy
    BY <2>1, RequestFacts DEF Served
  <2>3. PICK a : /\ request' = [request EXCEPT ![r] = Answered(s, a)]
                 /\ \/ s.failed /\ a = Error
                    \/ ~s.failed /\ s.req.method \in Modern /\ a = GetAnswer(s)
                    \/ ~s.failed /\ s.req.method = "LegacyGet" /\ a = LegacyGetAnswer(s)
                    \/ ~s.failed /\ s.req.method = "LegacyGetAll" /\ a = LegacyGetAllAnswer(s)
    BY <1>3, <2>2 DEF Respond, Move, Modern, Legacy
  <2>4. a \in Response /\ Complete([s EXCEPT !.response = a])
    <3>1. CASE s.failed /\ a = Error
      <4>1. [s EXCEPT !.response = a].response.block_reached # TRUE
        BY <2>1, <3>1 DEF Served, Error
      <4> QED
        BY <3>1, <4>1 DEF Complete, Response
    <3>2. CASE ~s.failed
      BY <2>1, <2>3, <3>2, AnswersOK
    <3> QED
      BY <2>2, <2>3, <3>1, <3>2
  <2>5. ServedOK(Answered(s, a)) /\ Answered(s, a).since \subseteq acked
    BY <2>1, <2>4, AnsweredOK
  <2> QED
    BY <1>0, <2>3, <2>5, OneRequest
<1>4. CASE Receive(r)
  BY <1>0, <1>4, OneRequest DEF Receive
<1> QED
  BY <1>1, <1>2, <1>3, <1>4

\* Steps of the feed leave the requests as they are; a restart ends them.
LEMMA FeedStepsKeep ==
    ASSUME FeedServingInv, NEW c \in Clients,
           SetReturns(c) \/ SetReadyStarts(c) \/ SetReadyReturns(c) \/ FeedStep \/ ServerRestart
    PROVE  HistoryOK' /\ RequestInv'
<1> USE DEF FeedServingInv
<1>0. [Next]_vars
  BY DEF SetReturns, SetReadyStarts, SetReadyReturns, FeedStep, ServerRestart, Next
<1>1. \A k \in acked : Store!Exists(db', k)
  BY <1>0, KeysStay DEF HistoryOK
<1>2. ASSUME NEW d \in Clients, Flush(d) PROVE DOMAIN call[d].batch.entries \subseteq Keys
  <2>1. call[d].batch.entries \in Part
    BY <1>2, SetCallFacts DEF Flush
  <2> QED
    BY <2>1 DEF Part
<1>3. /\ acked \subseteq acked' /\ acked' \subseteq Keys
      /\ \A k \in acked' : Store!Exists(db', k)
  <2>1. CASE SetReturns(c)
    BY <1>1, <1>2, <2>1, SetReturned DEF SetReturns, HistoryOK
  <2>2. CASE acked' = acked
    BY <1>1, <2>2 DEF HistoryOK
  <2> QED
    BY <2>1, <2>2 DEF SetReadyStarts, SetReadyReturns, FeedStep, ServerRestart
<1>4. believed' \in SUBSET BOOLEAN
  <2>1. CASE SetReadyStarts(c)
    <3>1. call'[c].value \in BOOLEAN
      <4>1. call \in [Clients -> {NoCall} \cup SetCall \cup ReadyCall]
        BY DEF TypeOK
      <4> QED
        BY <2>1, <4>1 DEF SetReadyStarts, SetReady, Proceed, SetReadyRequest
    <3> QED
      BY <2>1, <3>1 DEF SetReadyStarts, HistoryOK
  <2>2. CASE SetReadyReturns(c)
    BY <2>2, ReadyCallFacts DEF SetReadyReturns, Cache
  <2>3. CASE believed' = believed
    BY <2>3 DEF HistoryOK
  <2> QED
    BY <2>1, <2>2, <2>3 DEF SetReturns, FeedStep, ServerRestart
<1>5. RequestInv'
  <2>1. CASE request' = request
    BY <1>3, <2>1 DEF RequestInv
  <2>2. CASE ServerRestart
    BY <2>2 DEF ServerRestart, RequestInv
  <2> QED
    BY <2>1, <2>2 DEF SetReturns, SetReadyStarts, SetReadyReturns, FeedStep
<1> QED
  BY <1>3, <1>4, <1>5 DEF HistoryOK

\* The invariant behind what readers are told of the keys.
THEOREM FeedServingInvariance == FeedServingSpec => []FeedServingInv
<1>1. FeedServingInit => Unstamped /\ FromBatches /\ LookedAfter /\ HistoryOK /\ RequestInv
  BY DEF FeedServingInit, Init, Unstamped, FromBatches, LookedAfter, NoCall, HistoryOK, RequestInv
<1>2. ASSUME FeedServingInv, TypeOK', [FeedServingNext]_feedServingVars
      PROVE  Unstamped' /\ FromBatches' /\ LookedAfter' /\ HistoryOK' /\ RequestInv'
  <2>1. CASE FeedServingNext
    <3>1. Unstamped' /\ FromBatches' /\ LookedAfter'
      <4>1. [Next]_vars
        BY <2>1, ReaderSteps DEF FeedServingNext, SetReturns, SetReadyStarts,
           SetReadyReturns, FeedStep, ServerRestart, Next
      <4> QED
        BY <1>2, <4>1, UnstampedStep, FromBatchesStep, LookedAfterStep DEF FeedServingInv
    <3>2. ASSUME NEW r \in Readers,
                 \/ Get(r) \/ GetFirst(r) \/ LegacyGet(r) \/ LegacyGetAll(r)
                 \/ \E i \in Positions : Acquire(r, i) \/ ReadKey(r, i) \/ ReadKeyFails(r, i)
                 \/ Respond(r) \/ Receive(r)
          PROVE  HistoryOK' /\ RequestInv'
      <4>1. UNCHANGED <<vars, believed, acked>>
        BY <3>2, ReaderSteps
      <4>2. HistoryOK'
        BY <1>2, <4>1 DEF FeedServingInv, HistoryOK, vars, Store!Exists
      <4> QED
        BY <1>2, <3>2, <4>2, ReaderStepsKeep
    <3>3. ASSUME NEW c \in Clients, SetReturns(c) \/ SetReadyStarts(c) \/ SetReadyReturns(c)
          PROVE  HistoryOK' /\ RequestInv'
      BY <1>2, <3>3, FeedStepsKeep
    <3>4. ASSUME FeedStep PROVE HistoryOK' /\ RequestInv'
      <4>1. \E c \in Clients : TRUE
        BY <3>4 DEF FeedStep
      <4> QED
        BY <1>2, <3>4, <4>1, FeedStepsKeep
    <3>5. ASSUME ServerRestart PROVE HistoryOK' /\ RequestInv'
      <4>1. db' = db /\ UNCHANGED <<believed, acked>>
        BY <3>5 DEF ServerRestart, Restart
      <4> QED
        BY <1>2, <3>5, <4>1 DEF FeedServingInv, ServerRestart, RequestInv, HistoryOK, Store!Exists
    <3>6. HistoryOK' /\ RequestInv'
      BY <2>1, <3>2, <3>3, <3>4, <3>5, Zenon DEF FeedServingNext
    <3> QED
      BY <3>1, <3>6
  <2>2. CASE UNCHANGED feedServingVars
    <3>1. UNCHANGED <<db, call, request, believed, acked>>
      BY <2>2 DEF feedServingVars, vars
    <3>2. Unstamped' /\ FromBatches' /\ LookedAfter'
      BY <1>2, <3>1 DEF FeedServingInv, Unstamped, FromBatches, Sent, LookedAfter, Store!Exists
    <3>3. HistoryOK'
      BY <1>2, <3>1 DEF FeedServingInv, HistoryOK, Store!Exists
    <3>4. RequestInv'
      BY <1>2, <3>1 DEF FeedServingInv, RequestInv
    <3> QED
      BY <3>2, <3>3, <3>4
  <2> QED
    BY <1>2, <2>1, <2>2
<1> QED
  BY <1>1, <1>2, FeedIsFeed, FeedTypeCorrect, PTL DEF FeedServingSpec, FeedServingInv

\* Type correctness of the requests and of their answers.
THEOREM RequestsTyped == FeedServingSpec => []RequestOK
<1>1. FeedServingInv => RequestOK
  BY DEF FeedServingInv, HistoryOK, RequestInv, RequestOK
<1> QED
  BY <1>1, FeedServingInvariance, PTL

\* Whatever clients set at the same time, fails or is cut off by a restart, an answer
\* finds every key of every batch that was accepted before the request.
THEOREM AckedIsFound == FeedServingSpec => []AckedFound
<1>1. ASSUME FeedServingInv, NEW r \in Readers, Reached(r), NEW i \in DOMAIN Told(request[r]),
             request[r].req.keys[i] \in request[r].since
      PROVE  Told(request[r])[i].code = "FOUND"
  <2>1. request[r] # NoRequest /\ request[r].phase = "answered"
    BY <1>1 DEF Reached, NoRequest
  <2>2. Complete(request[r])
    BY <1>1, <2>1 DEF FeedServingInv, RequestInv, ServedOK
  <2> QED
    BY <1>1, <2>2 DEF Complete, ToldOf, Reached
<1>2. FeedServingInv => AckedFound
  BY <1>1 DEF AckedFound
<1> QED
  BY <1>2, FeedServingInvariance, PTL

\* In whatever order goroutines end, fail or are held up, and whatever is set meanwhile,
\* an answer of either version has one entry for each key asked for, in the order asked,
\* and a value some batch sent for that key (getter.go of the badger store).
THEOREM AnswersMatchRequests == FeedServingSpec => []AnswersInOrder
<1>1. ASSUME FeedServingInv, NEW r \in Readers, Reached(r)
      PROVE  /\ DOMAIN Told(request[r]) = DOMAIN request[r].req.keys
             /\ \A i \in DOMAIN request[r].req.keys :
                   ToldOf(Told(request[r])[i], request[r].req.keys[i], request[r].since)
  <2>1. request[r] # NoRequest /\ request[r].phase = "answered"
    BY <1>1 DEF Reached, NoRequest
  <2>2. Complete(request[r])
    BY <1>1, <2>1 DEF FeedServingInv, RequestInv, ServedOK
  <2> QED
    BY <1>1, <2>2 DEF Complete, Reached
<1>2. FeedServingInv => AnswersInOrder
  BY <1>1, Zenon DEF AnswersInOrder, ToldOf, Sent
<1> QED
  BY <1>2, FeedServingInvariance, PTL

-----------------------------------------------------------------------------
(* Readiness *)

\* With a single controller: the flag, in memory and on disk, is a value clients may
\* take it to have, and so is what a v2 request was let through for, or told.
ReadyBelieved ==
    /\ persisted \in believed /\ ready \in believed
    /\ \A c \in Clients : call[c].op \in {"persist", "cache"} => call[c].value \in believed
    /\ \A r \in Readers :
          request[r].phase = "reading" /\ request[r].req.method \in Modern =>
              TRUE \in request[r].promised
    /\ ReadinessAnswered

\* Steps of readers: the gate looks at the flag, and nothing else decides.
LEMMA ReadersKeepBelieved ==
    ASSUME FeedServingInv, ReadyBelieved, NEW r \in Readers,
           \/ Get(r) \/ GetFirst(r) \/ LegacyGet(r) \/ LegacyGetAll(r)
           \/ \E i \in Positions : Acquire(r, i) \/ ReadKey(r, i) \/ ReadKeyFails(r, i)
           \/ Respond(r) \/ Receive(r)
    PROVE  ReadyBelieved'
<1>0. UNCHANGED <<persisted, ready, call, believed>>
  BY ReaderSteps DEF vars
<1>1. request \in [Readers -> {NoRequest} \cup Served]
  BY DEF FeedServingInv, RequestInv
<1>2. SUFFICES
        /\ \A q \in Readers : q # r => request'[q] = request[q]
        /\ request'[r].phase = "reading" /\ request'[r].req.method \in Modern =>
              TRUE \in request'[r].promised
        /\ request'[r].phase = "answered" /\ request'[r].req.method \in Modern
              /\ request'[r].response # Error =>
              request'[r].response.block_reached \in request'[r].promised
  BY <1>0 DEF ReadyBelieved, ReadinessAnswered, AgreesWithFeed
<1>3. ASSUME NEW method, NEW notReached, notReached.block_reached = FALSE, NEW open \in BOOLEAN,
             method \in Modern => open = ready, Handle(r, method, open, notReached)
      PROVE  /\ \A q \in Readers : q # r => request'[q] = request[q]
             /\ request'[r].phase = "reading" /\ request'[r].req.method \in Modern =>
                   TRUE \in request'[r].promised
             /\ request'[r].phase = "answered" /\ request'[r].req.method \in Modern =>
                   request'[r].response.block_reached \in request'[r].promised
  <2>1. PICK req \in Requests :
           /\ req.method = method
           /\ request' = [request EXCEPT ![r] =
                 IF open /\ req.block_number <= HeadBlock THEN Arrived(req)
                 ELSE Answered(Arrived(req), notReached)]
    BY <1>3 DEF Handle
  <2>2. req.block_number <= HeadBlock
    BY RequestFacts, MessagesAssumption DEF HeadBlock
  <2>3. /\ Arrived(req).promised = believed /\ Arrived(req).phase = "reading"
        /\ Arrived(req).req = req
        /\ Answered(Arrived(req), notReached).promised = believed
        /\ Answered(Arrived(req), notReached).phase = "answered"
        /\ Answered(Arrived(req), notReached).response = notReached
        /\ Answered(Arrived(req), notReached).req = req
    BY DEF Arrived, Answered
  <2>4. CASE open
    <3>1. request'[r] = Arrived(req) /\ \A q \in Readers : q # r => request'[q] = request[q]
      BY <1>1, <2>1, <2>2, <2>4
    <3> QED
      BY <1>3, <2>1, <2>3, <2>4, <3>1 DEF ReadyBelieved
  <2>5. CASE ~open
    <3>1. /\ request'[r] = Answered(Arrived(req), notReached)
          /\ \A q \in Readers : q # r => request'[q] = request[q]
      BY <1>1, <2>1, <2>5
    <3>2. method \in Modern => FALSE \in believed
      BY <1>3, <2>5 DEF ReadyBelieved
    <3> QED
      BY <1>3, <2>1, <2>3, <3>1, <3>2
  <2> QED
    BY <1>3, <2>4, <2>5
<1>4. CASE Get(r) \/ GetFirst(r) \/ LegacyGet(r) \/ LegacyGetAll(r)
  <2>1. ready \in BOOLEAN
    BY DEF FeedServingInv, TypeOK
  <2>2. \A n \in {NotReached, LegacyNotReached, LegacyAllNotReached} : n.block_reached = FALSE
    BY DEF NotReached, LegacyNotReached, LegacyAllNotReached
  <2>3. "LegacyGet" \notin Modern /\ "LegacyGetAll" \notin Modern
    BY DEF Modern
  <2>4. CASE Get(r)
    BY <1>3, <2>1, <2>2, <2>4 DEF Get
  <2>5. CASE GetFirst(r)
    BY <1>3, <2>1, <2>2, <2>5 DEF GetFirst
  <2>6. CASE LegacyGet(r)
    BY <1>3, <2>2, <2>3, <2>6 DEF LegacyGet
  <2>7. CASE LegacyGetAll(r)
    BY <1>3, <2>2, <2>3, <2>7 DEF LegacyGetAll
  <2> QED
    BY <1>4, <2>4, <2>5, <2>6, <2>7
<1>5. ASSUME NEW i \in Positions, Acquire(r, i) \/ ReadKey(r, i) \/ ReadKeyFails(r, i)
      PROVE  /\ \A q \in Readers : q # r => request'[q] = request[q]
             /\ request'[r].phase = "reading" /\ request[r].phase = "reading"
             /\ request'[r].req = request[r].req
             /\ request'[r].promised = request[r].promised
  <2>1. request[r].phase = "reading"
    BY <1>5 DEF Acquire, ReadKey, ReadKeyFails
  <2>2. request[r] \in Served
    BY <1>1, <2>1 DEF NoRequest
  <2>3. /\ \A q \in Readers : q # r => request'[q] = request[q]
        /\ request'[r].phase = request[r].phase
        /\ request'[r].req = request[r].req
        /\ request'[r].promised = request[r].promised
    <3>1. CASE Acquire(r, i)
      <4> DEFINE s == [request[r] EXCEPT !.waiting = @ \ {i}, !.working = @ \cup {i}]
      <4>1. request' = [request EXCEPT ![r] = s]
        BY <3>1 DEF Acquire, Move
      <4>2. s.phase = request[r].phase /\ s.req = request[r].req
            /\ s.promised = request[r].promised
        BY <2>2 DEF Served
      <4> HIDE DEF s
      <4> QED
        BY <1>1, <4>1, <4>2
    <3>2. CASE ReadKey(r, i)
      <4> DEFINE s == [request[r] EXCEPT 
                         !.working = @ \ {i},
                         !.entries = Fill(@, i, Lookup(db, request[r].req.keys[i],
                                                       request[r].req.block_number))]
      <4>1. request' = [request EXCEPT ![r] = s]
        BY <3>2 DEF ReadKey, Move
      <4>2. s.phase = request[r].phase /\ s.req = request[r].req
            /\ s.promised = request[r].promised
        BY <2>2 DEF Served
      <4> HIDE DEF s
      <4> QED
        BY <1>1, <4>1, <4>2
    <3>3. CASE ReadKeyFails(r, i)
      <4> DEFINE s == [request[r] EXCEPT !.working = @ \ {i}, !.failed = TRUE]
      <4>1. request' = [request EXCEPT ![r] = s]
        BY <3>3 DEF ReadKeyFails, Move
      <4>2. s.phase = request[r].phase /\ s.req = request[r].req
            /\ s.promised = request[r].promised
        BY <2>2 DEF Served
      <4> HIDE DEF s
      <4> QED
        BY <1>1, <4>1, <4>2
    <3> QED
      BY <1>5, <3>1, <3>2, <3>3
  <2> QED
    BY <2>1, <2>3
<1>6. CASE Respond(r)
  <2>1. request[r].phase = "reading"
    BY <1>6 DEF Respond
  <2>2. request[r] \in Served
    BY <1>1, <2>1 DEF NoRequest
  <2>3. request[r].failed \in BOOLEAN /\ request[r].req.method \in Modern \cup Legacy
    BY <2>2, RequestFacts DEF Served
  <2>4. PICK a : /\ request' = [request EXCEPT ![r] = Answered(request[r], a)]
                 /\ \/ a = Error
                    \/ a = GetAnswer(request[r])
                    \/ request[r].req.method = "LegacyGet"
                    \/ request[r].req.method = "LegacyGetAll"
    BY <1>6, <2>3 DEF Respond, Move, Modern, Legacy
  <2>5. GetAnswer(request[r]).block_reached = TRUE
    BY DEF GetAnswer
  <2>6. /\ Answered(request[r], a).phase = "answered" /\ Answered(request[r], a).response = a
        /\ Answered(request[r], a).req = request[r].req
        /\ Answered(request[r], a).promised = request[r].promised
    BY <2>2 DEF Answered, Served
  <2>7. request[r].req.method \in Modern => TRUE \in request[r].promised
    BY <2>1 DEF ReadyBelieved
  <2> QED
    BY <1>1, <2>4, <2>5, <2>6, <2>7 DEF Modern
<1>7. CASE Receive(r)
  BY <1>1, <1>7 DEF Receive, NoRequest
<1> QED
  <2>1. CASE \E i \in Positions : Acquire(r, i) \/ ReadKey(r, i) \/ ReadKeyFails(r, i)
    BY <1>5, <2>1 DEF ReadyBelieved
  <2> QED
    BY <1>4, <1>6, <1>7, <2>1

\* Steps of the feed: what a SetReady is about to store is believed before it is
\* stored, and the old value until the new one is in memory.
LEMMA FeedKeepsBelieved ==
    ASSUME \A c, d \in Controllers : c = d,
           FeedServingInv, InSync, ReadyBelieved, NEW c \in Clients,
           \/ SetReturns(c) \/ SetReadyStarts(c) \/ SetReadyReturns(c)
           \/ Set(c) /\ UNCHANGED <<believed, request>>
           \/ (CheckKey(c) \/ CommitPart(c)) /\ UNCHANGED <<believed, request>>
           \/ SetFails(c) /\ UNCHANGED <<believed, request>>
           \/ Persist(c) /\ UNCHANGED <<believed, request>>
           \/ PersistFails(c) /\ UNCHANGED <<believed, request>>
    PROVE  ReadyBelieved'
<1>0. TypeOK /\ call \in [Clients -> {NoCall} \cup SetCall \cup ReadyCall] /\ request' = request
  BY DEF FeedServingInv, TypeOK, SetReturns, SetReadyStarts, SetReadyReturns
<1>1. SUFFICES /\ persisted' \in believed' /\ ready' \in believed'
               /\ \A d \in Clients : call'[d].op \in {"persist", "cache"} =>
                     call'[d].value \in believed'
  BY <1>0 DEF ReadyBelieved, ReadinessAnswered, AgreesWithFeed
<1>2. CASE SetReturns(c)
  <2>1. call' = [call EXCEPT ![c] = NoCall] /\ UNCHANGED <<persisted, ready, believed>>
    BY <1>2 DEF SetReturns, Flush, Proceed
  <2> QED
    BY <1>0, <2>1 DEF ReadyBelieved, NoCall
<1>3. CASE SetReadyStarts(c)
  <2>1. PICK req \in SetReadyRequest :
           /\ call' = [call EXCEPT ![c] = [op |-> "persist", value |-> req.ready]]
           /\ believed' = believed \cup {call'[c].value} /\ UNCHANGED <<persisted, ready>>
    BY <1>3 DEF SetReadyStarts, SetReady, Proceed
  <2> QED
    BY <1>0, <2>1 DEF ReadyBelieved
<1>4. CASE SetReadyReturns(c)
  <2>1. /\ call' = [call EXCEPT ![c] = NoCall] /\ believed' = {call[c].value}
        /\ call[c].op = "cache" /\ ready' = call[c].value /\ persisted' = persisted
    BY <1>4 DEF SetReadyReturns, Cache, Proceed
  <2>2. persisted = call[c].value
    BY <2>1 DEF InSync
  <2>3. \A d \in Clients : d # c => call[d].op \notin {"persist", "cache"}
    BY <2>1 DEF InSync
  <2>4. \A d \in Clients : call'[d].op \notin {"persist", "cache"}
    BY <1>0, <2>1, <2>3 DEF NoCall
  <2> QED
    BY <2>1, <2>2, <2>4
<1>5. CASE Set(c) /\ UNCHANGED <<believed, request>>
  <2>1. /\ call'[c].op = "set" /\ UNCHANGED <<persisted, ready, believed>>
        /\ \A d \in Clients : d # c => call'[d] = call[d]
    BY <1>0, <1>5 DEF Set, Proceed
  <2> QED
    BY <2>1 DEF ReadyBelieved
<1>6. CASE (CheckKey(c) \/ CommitPart(c)) /\ UNCHANGED <<believed, request>>
  <2>1. /\ call'[c].op = "set" /\ UNCHANGED <<persisted, ready, believed>>
        /\ \A d \in Clients : d # c => call'[d] = call[d]
    BY <1>0, <1>6, SetStep
  <2> QED
    BY <2>1 DEF ReadyBelieved
<1>7. CASE (SetFails(c) \/ PersistFails(c)) /\ UNCHANGED <<believed, request>>
  <2>1. call' = [call EXCEPT ![c] = NoCall] /\ UNCHANGED <<persisted, ready, believed>>
    BY <1>7 DEF SetFails, PersistFails, Proceed
  <2> QED
    BY <1>0, <2>1 DEF ReadyBelieved, NoCall
<1>8. CASE Persist(c) /\ UNCHANGED <<believed, request>>
  <2>1. call[c].op = "persist"
    BY <1>8 DEF Persist
  <2>2. call[c] \in ReadyCall
    BY <1>0, <2>1, ReadyCallFacts
  <2>3. /\ call'[c].value = call[c].value /\ persisted' = call[c].value
        /\ \A d \in Clients : d # c => call'[d] = call[d]
        /\ UNCHANGED <<ready, believed>>
    BY <1>0, <1>8, <2>2 DEF Persist, Proceed, ReadyCall
  <2> QED
    BY <2>1, <2>3 DEF ReadyBelieved
<1> QED
  BY <1>2, <1>3, <1>4, <1>5, <1>6, <1>7, <1>8

\* With a single controller, what v2 readers are told of the readiness is what the
\* last SetReady said, however often the process restarts, as soon as that call has
\* returned.
THEOREM ReadinessIsAnswered ==
    ASSUME \A c, d \in Controllers : c = d
    PROVE  FeedServingSpec => []ReadinessAnswered
<1>1. FeedServingInit => InSync /\ ReadyBelieved
  <2>1. ASSUME FeedServingInit
        PROVE  /\ persisted = FALSE /\ ready = FALSE /\ believed = {FALSE}
               /\ \A c \in Clients : call[c].op = "none"
               /\ \A r \in Readers : request[r].phase = "none"
    BY <2>1 DEF FeedServingInit, Init, NoCall, NoRequest
  <2> QED
    BY <2>1 DEF InSync, ReadyBelieved, ReadinessAnswered, AgreesWithFeed
<1>2. ASSUME FeedServingInv, InSync, ReadyBelieved, [FeedServingNext]_feedServingVars
      PROVE  InSync' /\ ReadyBelieved'
  <2>1. InSync'
    <3>1. [Next]_vars
      BY <1>2, ReaderSteps DEF FeedServingNext, SetReturns, SetReadyStarts, SetReadyReturns,
         FeedStep, ServerRestart, Next, feedServingVars
    <3> QED
      BY <1>2, <3>1, InSyncStep DEF FeedServingInv
  <2>2. ASSUME NEW r \in Readers,
               \/ Get(r) \/ GetFirst(r) \/ LegacyGet(r) \/ LegacyGetAll(r)
               \/ \E i \in Positions : Acquire(r, i) \/ ReadKey(r, i) \/ ReadKeyFails(r, i)
               \/ Respond(r) \/ Receive(r)
        PROVE  ReadyBelieved'
    BY <1>2, <2>2, ReadersKeepBelieved
  <2>3. ASSUME NEW c \in Clients, SetReturns(c) \/ SetReadyStarts(c) \/ SetReadyReturns(c)
        PROVE  ReadyBelieved'
    BY <1>2, <2>3, FeedKeepsBelieved
  <2>4. ASSUME FeedStep PROVE ReadyBelieved'
    BY <1>2, <2>4, FeedKeepsBelieved DEF FeedStep
  <2>5. ASSUME ServerRestart PROVE ReadyBelieved'
    BY <1>2, <2>5 DEF ServerRestart, Restart, ReadyBelieved, ReadinessAnswered, AgreesWithFeed,
       NoCall, NoRequest
  <2>6. ASSUME UNCHANGED feedServingVars PROVE ReadyBelieved'
    BY <1>2, <2>6 DEF feedServingVars, vars, ReadyBelieved, ReadinessAnswered, AgreesWithFeed
  <2>7. ReadyBelieved'
    BY <1>2, <2>2, <2>3, <2>4, <2>5, <2>6, Zenon DEF FeedServingNext
  <2> QED
    BY <2>1, <2>7
<1>3. ReadyBelieved => ReadinessAnswered
  BY DEF ReadyBelieved
<1> QED
  BY <1>1, <1>2, <1>3, FeedServingInvariance, PTL DEF FeedServingSpec
=============================================================================
