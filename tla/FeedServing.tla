---------------------------- MODULE FeedServing ----------------------------
(***************************************************************************)
(* Read requests beside the feed: the services NewRemoteFeedServer puts on *)
(* one listener.  v2 (grpc/server.go) asks for the readiness first, v1     *)
(* (grpc/legacy) does not; the head block is the largest number there is,  *)
(* so that the head-block gate lets every request through.                 *)
(*                                                                         *)
(* The badger store reads the keys of a request in parallel: a goroutine   *)
(* per key, each in a transaction of its own, at most Workers at a time.   *)
(* Batches of the feed may be committed between two of them.               *)
(***************************************************************************)
EXTENDS RemoteFeed, FiniteSets

CONSTANTS
    Readers,  \* requests that may be in progress at the same time
    Requests, \* what readers ask for: a method and what its requests carry
    Workers   \* numWorkers; with 0 no request that names a key is ever answered

ASSUME FeedServingAssumption ==
    /\ Requests \subseteq
          [method : {"Get", "GetFirst", "LegacyGet", "LegacyGetAll"},
           block_number : BlockNumber, omit_deleted : BOOLEAN, keys : Seq(Keys)]
    /\ \A req \in Requests : req.method = "LegacyGet" => Len(req.keys) = 1
    /\ Workers \in Nat \ {0}

VARIABLES
    request,  \* the request of each reader
    believed, \* history: the values clients may take the readiness to have
    acked     \* history: the keys of batches whose Set has returned

feedServingVars == <<vars, request, believed, acked>>

Positions == UNION {DOMAIN req.keys : req \in Requests}

Modern == {"Get", "GetFirst"}
Legacy == {"LegacyGet", "LegacyGetAll"}

\* A status instead of a response.
Error == [block_reached |-> FALSE, error |-> TRUE]

Response == {Nil, Error} \cup GetResponse \cup LegacyGetResponse \cup LegacyGetAllResponse

\* waiting: goroutines (by index of their key) that wait for the semaphore; working:
\* those that hold it; entries: what they have found; failed: errChan has an error.
\* promised and since are history: what believed and acked were at the gate.
NoRequest == [phase |-> "none"]
Served == [
    phase : {"reading", "answered"}, req : Requests,
    waiting : SUBSET Positions, working : SUBSET Positions,
    entries : UNION {[D -> QueriedEntry] : D \in SUBSET Positions}, failed : BOOLEAN,
    response : Response,
    promised : SUBSET BOOLEAN, since : SUBSET Keys]

FeedServingInit ==
    /\ Init
    /\ request = [r \in Readers |-> NoRequest]
    /\ believed = {FALSE}
    /\ acked = {}

-----------------------------------------------------------------------------
(* The gates *)

HeadBlock == MaxUint64

\* What a database holds for a key: the entry a goroutine fills in.
Lookup(d, k, block) ==
    LET found == Store!WrappedGet(d, k, block)
    IN  IF found = {} THEN [code |-> "NOT_FOUND", entry |-> [key |-> k, value |-> Nil]]
        ELSE [code |-> "FOUND", entry |-> [key |-> k, value |-> CHOOSE v \in found : TRUE]]

Arrived(req) == [
    phase |-> "reading", req |-> req,
    waiting |-> DOMAIN req.keys, working |-> {}, entries |-> [i \in {} |-> {}],
    failed |-> FALSE, response |-> Nil, promised |-> believed, since |-> acked]

Answered(s, response) ==
    [s EXCEPT !.phase = "answered", !.response = response,
              !.waiting = {}, !.entries = [i \in {} |-> {}]]

\* A request below the head goes to the store, any other is answered.
Handle(r, method, open, notReached) ==
    /\ request[r] = NoRequest
    /\ \E req \in Requests :
          /\ req.method = method
          /\ request' = [request EXCEPT ![r] =
                IF open /\ req.block_number <= HeadBlock THEN Arrived(req)
                ELSE Answered(Arrived(req), notReached)]
    /\ UNCHANGED <<vars, believed, acked>>

Get(r) == Handle(r, "Get", ready, NotReached)

\* The store answers GetFirst as it answers Get.
GetFirst(r) == Handle(r, "GetFirst", ready, NotReached)

LegacyGet(r) == Handle(r, "LegacyGet", TRUE, LegacyNotReached)

LegacyGetAll(r) == Handle(r, "LegacyGetAll", TRUE, LegacyAllNotReached)

-----------------------------------------------------------------------------
(* The goroutines of one request *)

Move(r, next) ==
    /\ request[r].phase = "reading"
    /\ request' = [request EXCEPT ![r] = next]
    /\ UNCHANGED <<vars, believed, acked>>

\* Mutant of Acquire: the semaphore has one place less.
AcquireOneLess(r, i) ==
    /\ request[r].phase = "reading"
    /\ i \in request[r].waiting
    /\ Cardinality(request[r].working) < Workers - 1
    /\ Move(r, [request[r] EXCEPT !.waiting = @ \ {i}, !.working = @ \cup {i}])

Acquire(r, i) ==
    /\ request[r].phase = "reading"
    /\ i \in request[r].waiting
    /\ Cardinality(request[r].working) < Workers
    /\ Move(r, [request[r] EXCEPT !.waiting = @ \ {i}, !.working = @ \cup {i}])

Fill(entries, i, e) == [j \in DOMAIN entries \cup {i} |-> IF j = i THEN e ELSE entries[j]]

\* Mutant of ReadKey: entries are appended in the order the goroutines end.
ReadKeyAppends(r, i) ==
    /\ request[r].phase = "reading"
    /\ i \in request[r].working
    /\ LET s == request[r]
       IN  Move(r, [s EXCEPT !.working = @ \ {i},
                             !.entries = Fill(@, Cardinality(DOMAIN @) + 1,
                                              Lookup(db, s.req.keys[i], s.req.block_number))])

ReadKey(r, i) ==
    /\ request[r].phase = "reading"
    /\ i \in request[r].working
    /\ LET s == request[r]
       IN  Move(r, [s EXCEPT !.working = @ \ {i},
                             !.entries = Fill(@, i, Lookup(db, s.req.keys[i], s.req.block_number))])

\* The first error is kept, later ones are dropped.
ReadKeyFails(r, i) ==
    /\ request[r].phase = "reading"
    /\ i \in request[r].working
    /\ Move(r, [request[r] EXCEPT !.working = @ \ {i}, !.failed = TRUE])

-----------------------------------------------------------------------------
(* The answer *)

\* v1 reports a deleted entry as one that is not found when asked to.
CodeV1(code, omitDeleted) ==
    IF omitDeleted /\ code = "NOT_FOUND_FINALIZE" THEN "NOT_FOUND" ELSE code

LegacyGetAnswer(s) ==
    LET e == s.entries[1]
    IN  [block_reached |-> TRUE, code |-> CodeV1(e.code, s.req.omit_deleted),
         value |-> IF e.code = "FOUND" THEN e.entry.value ELSE Nil]

LegacyGetAllAnswer(s) == [
    block_reached |-> TRUE,
    entries |-> [i \in DOMAIN s.req.keys |->
        LET e    == s.entries[i]
            code == CodeV1(e.code, s.req.omit_deleted)
        IN  [key |-> e.entry.key,
             response |-> [block_reached |-> TRUE, code |-> code,
                           value |-> IF code = e.code THEN e.entry.value ELSE Nil]]]]

GetAnswer(s) ==
    [block_reached |-> TRUE, entries |-> [i \in DOMAIN s.req.keys |-> s.entries[i]]]

\* Mutant of Respond: errors are dropped, and a key that failed has no entry.
RespondDespiteError(r) ==
    /\ request[r].phase = "reading"
    /\ request[r].waiting = {} /\ request[r].working = {}
    /\ LET s == request[r]
       IN  Move(r, Answered(s, [
               block_reached |-> TRUE,
               entries |-> [i \in DOMAIN s.req.keys |->
                               IF i \in DOMAIN s.entries THEN s.entries[i] ELSE Nil]]))

\* All goroutines are done: an error of any of them is the answer.
Respond(r) ==
    /\ request[r].phase = "reading"
    /\ request[r].waiting = {} /\ request[r].working = {}
    /\ LET s == request[r]
       IN  Move(r, Answered(s, CASE s.failed -> Error
                                 [] ~s.failed /\ s.req.method \in Modern -> GetAnswer(s)
                                 [] ~s.failed /\ s.req.method = "LegacyGet" -> LegacyGetAnswer(s)
                                 [] OTHER -> LegacyGetAllAnswer(s)))

\* The client has the answer.
Receive(r) ==
    /\ request[r].phase = "answered"
    /\ request' = [request EXCEPT ![r] = NoRequest]
    /\ UNCHANGED <<vars, believed, acked>>

-----------------------------------------------------------------------------
(* The feed *)

SetReturns(c) ==
    /\ Flush(c)
    /\ acked' = acked \cup DOMAIN call[c].batch.entries
    /\ UNCHANGED <<request, believed>>

\* Until SetReady returns, clients may find the old value or the new one; after it
\* fails, too.
SetReadyStarts(c) ==
    /\ SetReady(c)
    /\ believed' = believed \cup {call'[c].value}
    /\ UNCHANGED <<request, acked>>

SetReadyReturns(c) ==
    /\ Cache(c)
    /\ believed' = {call[c].value}
    /\ UNCHANGED <<request, acked>>

FeedStep ==
    /\ \E c \in Clients :
          \/ Set(c)
          \/ CheckKey(c)
          \/ CommitPart(c)
          \/ SetFails(c)
          \/ Persist(c)
          \/ PersistFails(c)
    /\ UNCHANGED <<request, believed, acked>>

\* Requests end with the process.
ServerRestart ==
    /\ Restart
    /\ request' = [r \in Readers |-> NoRequest]
    /\ UNCHANGED <<believed, acked>>

FeedServingNext ==
    \/ \E r \in Readers :
          \/ Get(r)
          \/ GetFirst(r)
          \/ LegacyGet(r)
          \/ LegacyGetAll(r)
          \/ \E i \in Positions : Acquire(r, i) \/ ReadKey(r, i) \/ ReadKeyFails(r, i)
          \/ Respond(r)
          \/ Receive(r)
    \/ \E c \in Clients : SetReturns(c) \/ SetReadyStarts(c) \/ SetReadyReturns(c)
    \/ FeedStep
    \/ ServerRestart

FeedServingSpec == FeedServingInit /\ [][FeedServingNext]_feedServingVars

\* Goroutines are scheduled and transactions of badger end.
HandlerStep(r) ==
    \/ \E i \in Positions : Acquire(r, i) \/ ReadKey(r, i) \/ ReadKeyFails(r, i)
    \/ Respond(r)

FairFeedServing ==
    FeedServingSpec /\ \A r \in Readers : WF_feedServingVars(HandlerStep(r))

-----------------------------------------------------------------------------
(* Properties *)

RequestOK ==
    /\ request \in [Readers -> {NoRequest} \cup Served]
    /\ believed \in SUBSET BOOLEAN
    /\ acked \in SUBSET Keys

\* What an answer that reached the store says of the keys, in its order, whatever
\* the version of the service.
Told(s) ==
    CASE s.req.method \in Modern -> s.response.entries
      [] s.req.method = "LegacyGet" ->
            <<[code |-> s.response.code,
               entry |-> [key |-> s.req.keys[1], value |-> s.response.value]]>>
      [] s.req.method = "LegacyGetAll" ->
            [i \in DOMAIN s.response.entries |->
                LET e == s.response.entries[i]
                IN  [code |-> e.response.code,
                     entry |-> [key |-> e.key, value |-> e.response.value]]]

Reached(r) == request[r].phase = "answered" /\ request[r].response.block_reached = TRUE

\* An answer has one entry for each key of the request, in the order of the request
\* whatever the order the goroutines end in, with a value some batch has for that key.
AnswersInOrder ==
    \A r \in Readers : Reached(r) =>
        LET keys == request[r].req.keys
            told == Told(request[r])
        IN  /\ DOMAIN told = DOMAIN keys
            /\ \A i \in DOMAIN told :
                  /\ told[i].entry.key = keys[i]
                  /\ told[i].code = "FOUND" =>
                        \E b \in Batches : /\ keys[i] \in DOMAIN b.entries
                                          /\ told[i].entry.value = b.entries[keys[i]]

\* A key of a batch whose Set returned before the request is found, whether the batch
\* wrote it or left it as it was: concurrent and failed batches and restarts do not
\* take it away.
AckedFound ==
    \A r \in Readers : Reached(r) =>
        \A i \in DOMAIN Told(request[r]) :
            request[r].req.keys[i] \in request[r].since => Told(request[r])[i].code = "FOUND"

AgreesWithFeed(methods) ==
    \A r \in Readers :
        /\ request[r].phase = "answered"
        /\ request[r].req.method \in methods
        /\ request[r].response # Error
        => request[r].response.block_reached \in request[r].promised

\* What v2 readers are told of the readiness is what the last SetReady that returned
\* said, or one that has not returned or has failed since: through restarts too.
ReadinessAnswered == AgreesWithFeed(Modern)

\* The same of v1 readers, whose semantics are said to be kept aligned.
LegacyReadinessAnswered == AgreesWithFeed(Legacy)

\* Every request that reaches the store is answered, unless the process dies: no
\* goroutine waits for a place in the semaphore for ever.
RequestsEnd == \A r \in Readers : request[r].phase = "reading" ~> request[r].phase # "reading"
=============================================================================
