------------------------------ MODULE Serving ------------------------------
(***************************************************************************)
(* Read requests beside the sinker: grpc/server.go (v2) and grpc/legacy    *)
(* (v1) in the serve command, where the store is always ready.             *)
(*                                                                         *)
(* A handler compares the requested block number with headBlock, and reads *)
(* the store afterwards.  The sinker may take any number of steps between  *)
(* the two.  The read is one step, whatever the number of keys: it holds   *)
(* the lock of the fork-aware store.                                       *)
(*                                                                         *)
(* A client asks about a block: the request carries its number, and its id *)
(* as block_hash, which no code looks at.                                  *)
(***************************************************************************)
EXTENDS Sinker

CONSTANTS
    Requests, \* requests that may be in progress at the same time
    KeySets   \* the sets of keys clients ask for

ASSUME ServingAssumption == KeySets \subseteq SUBSET Keys

VARIABLE request \* the requests that passed the gate and have not read yet

None == [op |-> "none"]

\* seen holds the blocks the sinker has stood on since the gate.
Pending == [op : {"get", "get_first"}, asked : Blocks, keys : KeySets, seen : SUBSET Blocks]

RequestOK == request \in [Requests -> {None} \cup Pending]

servingVars == <<vars, request>>

ServingInit == Init /\ request = [r \in Requests |-> None]

-----------------------------------------------------------------------------
(* The gate *)

\* Mutant of Ask: the block number is not compared with the head.
AskUngated(r, op, asked, keys) ==
    /\ request[r] = None
    /\ request' = [request EXCEPT ![r] =
          [op |-> op, asked |-> asked, keys |-> keys, seen |-> {pos}]]
    /\ UNCHANGED vars

\* A block above the head is answered with block_reached = false at once.  headBlock
\* is read without synchronisation: a handler that sees a value from before is one
\* that passed its gate then.
Ask(r, op, asked, keys) ==
    /\ request[r] = None
    /\ Num[asked] <= headBlock
    /\ request' = [request EXCEPT ![r] =
          [op |-> op, asked |-> asked, keys |-> keys, seen |-> {pos}]]
    /\ UNCHANGED vars

Get(r) == \E b \in Blocks : \E keys \in KeySets : Ask(r, "get", b, keys)

GetFirst(r) == \E b \in Blocks : \E keys \in KeySets : Ask(r, "get_first", b, keys)

LegacyGet(r) ==
    \E b \in Blocks : \E keys \in KeySets : \E k \in keys : keys = {k} /\ Ask(r, "get", b, keys)

LegacyGetAll(r) == \E b \in Blocks : \E keys \in KeySets : Ask(r, "get", b, keys)

-----------------------------------------------------------------------------
(* The read *)

\* What the store answers for a key of a pending request, if it reads now.
Found(r, k) ==
    IF request[r].op = "get" THEN Store!Get(k, Num[request[r].asked])
                             ELSE Store!GetFirst(k, Num[request[r].asked])

\* The response is built from what is found and the request ends.
Respond(r) ==
    /\ request[r] # None
    /\ request' = [request EXCEPT ![r] = None]
    /\ UNCHANGED vars

-----------------------------------------------------------------------------
\* A step of the sinker.  Requests outlive a handler error, while the process
\* shuts down, and end with the process.
SinkerStep ==
    /\ Next
    /\ request' = [r \in Requests |->
          IF request[r] = None \/ restarts' # restarts THEN None
          ELSE [request[r] EXCEPT !.seen = @ \cup {pos'}]]

ServingNext ==
    \/ \E r \in Requests :
          \/ Get(r)
          \/ GetFirst(r)
          \/ LegacyGet(r)
          \/ LegacyGetAll(r)
          \/ Respond(r)
    \/ SinkerStep

ServingSpec == ServingInit /\ [][ServingNext]_servingVars

-----------------------------------------------------------------------------
(* Properties.  A pending request may read at any moment, so that what it would
   find is a property of every state. *)

\* The blocks an answer may come from: the branches the sinker has been on since
\* the gate, and what is final.
InView(r) == Anc[final] \cup UNION {Anc[b] : b \in request[r].seen}

\* Whatever the sinker undoes, sets, flushes or loses between the gate and the
\* read, no answer comes from a block that was off the chain all that time, and
\* a Get answers what a block not above the requested number wrote for the key.
RequestCanonical ==
    \A r \in Requests : request[r] # None =>
        \A k \in request[r].keys : \A w \in Found(r, k) :
            /\ w \in InView(r)
            /\ request[r].op = "get" => k \in Writes[w] /\ Num[w] <= Num[request[r].asked]

\* The keys of one Get are answered from one branch, even when a reorganisation
\* is under way.
OneBranch ==
    \A r \in Requests : request[r] # None /\ request[r].op = "get" =>
        \A k1, k2 \in request[r].keys : \A w1 \in Found(r, k1), w2 \in Found(r, k2) :
            Comparable(w1, w2)

\* The hash of the request verifies the answer: a Get is answered from the branch
\* of the block the client named.
AnswersAskedBlock ==
    \A r \in Requests : request[r] # None /\ request[r].op = "get" =>
        \A k \in request[r].keys : Found(r, k) \subseteq Anc[request[r].asked]

-----------------------------------------------------------------------------
(* Why it holds: with IndInv, the inductive invariant *)

\* Everything cached comes from one branch, that of the last final block.
CacheOnBranch ==
    /\ pc = "set" => Comparable(pos, final)
    /\ \A k \in DOMAIN cache : Comparable(cache[k].val, final)
    /\ \A k1, k2 \in DOMAIN cache : Comparable(cache[k1].val, cache[k2].val)

\* What a pending request can read from the cache was set by a block of a branch
\* the sinker has been on since the gate.
CacheInView ==
    \A r \in Requests : request[r] # None =>
        /\ pos \in request[r].seen
        /\ \A k \in DOMAIN cache :
              cache[k].block <= Num[request[r].asked] =>
                 \E b \in request[r].seen : cache[k].val \in Anc[b]

ServingInv == RequestOK /\ CacheOnBranch /\ CacheInView
=============================================================================
