----------------------------- MODULE RemoteFeed -----------------------------
(***************************************************************************)
(* The remote-feed mode: external services push entries and the readiness  *)
(* flag over gRPC (grpc/feed/server.go) straight into the plain badger     *)
(* store, with no fork-aware layer in front (remote_feed.go).              *)
(*                                                                         *)
(* Calls run concurrently and neither handler nor store takes a lock: a    *)
(* Set looks every key up and commits afterwards, a SetReady persists the  *)
(* flag and then updates the flag in memory.  Each of these is a step.     *)
(***************************************************************************)
EXTENDS Messages, Functions

CONSTANTS
    Clients,
    Setters,     \* clients that call Set
    Controllers, \* clients that call SetReady
    Batches,     \* the batches setters send
    MaxRestarts  \* bound on restarts

ASSUME FeedAssumption ==
    /\ Setters \subseteq Clients /\ Controllers \subseteq Clients
    /\ Batches \subseteq SinkEntries
    /\ MaxRestarts \in Nat

VARIABLES
    db,        \* entries of the badger store
    persisted, \* readyKey in badger; a missing key counts as FALSE
    ready,     \* Store.ready, what IsReady answers
    call,      \* the call each client has in progress
    restarts   \* restarts so far

vars == <<db, persisted, ready, call, restarts>>

Store == INSTANCE Backend WITH
    TimeTraversal <- FALSE,
    Extensions <- [k \in Keys |-> {k}],
    Rank <- [k \in Keys |-> 0]

\* unchecked: keys of the batch that are still to be looked up.
\* admitted: keys that joined the write batch and are not committed yet.
NoCall == [op |-> "none"]
SetCall == [op : {"set"}, batch : SinkEntries, unchecked : SUBSET Keys, admitted : SUBSET Keys]
ReadyCall == [op : {"persist", "cache"}, value : BOOLEAN]

TypeOK ==
    /\ db \subseteq Store!Version
    /\ persisted \in BOOLEAN
    /\ ready \in BOOLEAN
    /\ call \in [Clients -> {NoCall} \cup SetCall \cup ReadyCall]
    /\ \A c \in Clients : call[c].op = "set" =>
          call[c].unchecked \cup call[c].admitted \subseteq DOMAIN call[c].batch.entries
    /\ restarts \in 0..MaxRestarts

Init ==
    /\ db = {}
    /\ persisted = FALSE
    /\ ready = FALSE
    /\ call = [c \in Clients |-> NoCall]
    /\ restarts = 0

Proceed(c, next) == call' = [call EXCEPT ![c] = next]

-----------------------------------------------------------------------------
(* Set *)

\* A batch without entries is answered at once and changes nothing.
Set(c) ==
    /\ c \in Setters
    /\ call[c] = NoCall
    /\ \E req \in SetRequest :
          /\ req.entries \in Batches
          /\ DOMAIN req.entries.entries # {}
          /\ Proceed(c, [op |-> "set", batch |-> req.entries,
                         unchecked |-> DOMAIN req.entries.entries, admitted |-> {}])
    /\ UNCHANGED <<db, persisted, ready, restarts>>

\* Mutant of CheckKey: IfNotExist is not looked at.
CheckNothing(c) ==
    /\ call[c].op = "set"
    /\ \E k \in call[c].unchecked :
          Proceed(c, [call[c] EXCEPT !.unchecked = @ \ {k}, !.admitted = @ \cup {k}])
    /\ UNCHANGED <<db, persisted, ready, restarts>>

\* Mutant of CheckKey: a key that exists ends the loop instead of its round.
CheckUntilFound(c) ==
    /\ call[c].op = "set"
    /\ \E k \in call[c].unchecked :
          Proceed(c, IF call[c].batch.if_not_exist /\ Store!Exists(db, k)
                     THEN [call[c] EXCEPT !.unchecked = {}]
                     ELSE [call[c] EXCEPT !.unchecked = @ \ {k}, !.admitted = @ \cup {k}])
    /\ UNCHANGED <<db, persisted, ready, restarts>>

\* An IfNotExist entry whose key is found is skipped, any other joins the batch
\* that will be written.
CheckKey(c) ==
    /\ call[c].op = "set"
    /\ \E k \in call[c].unchecked :
          Proceed(c, [call[c] EXCEPT
              !.unchecked = @ \ {k},
              !.admitted = IF call[c].batch.if_not_exist /\ Store!Exists(db, k) THEN @
                           ELSE @ \cup {k}])
    /\ UNCHANGED <<db, persisted, ready, restarts>>

\* Mutant of Stored: the write batch takes keys for values.
StoredKeys(c, D) == Store!Put(db, [k \in D |-> k], 0)

\* The database once entries of the call are committed.  Data of the feed is
\* final and latest: it is stamped with block 0.
Stored(c, D) == Store!Put(db, Restrict(call[c].batch.entries, D), 0)

\* A WriteBatch that outgrows a transaction commits what it holds so far.
CommitPart(c) ==
    /\ call[c].op = "set"
    /\ \E D \in SUBSET call[c].admitted :
          /\ D # {}
          /\ db' = Stored(c, D)
          /\ Proceed(c, [call[c] EXCEPT !.admitted = @ \ D])
    /\ UNCHANGED <<persisted, ready, restarts>>

\* All keys are checked and the rest is committed.
Flush(c) ==
    /\ call[c].op = "set"
    /\ call[c].unchecked = {}
    /\ db' = Stored(c, call[c].admitted)
    /\ Proceed(c, NoCall)
    /\ UNCHANGED <<persisted, ready, restarts>>

\* A lookup or a commit fails: what is committed stays.
SetFails(c) ==
    /\ call[c].op = "set"
    /\ Proceed(c, NoCall)
    /\ UNCHANGED <<db, persisted, ready, restarts>>

-----------------------------------------------------------------------------
(* SetReady *)

SetReady(c) ==
    /\ c \in Controllers
    /\ call[c] = NoCall
    /\ \E req \in SetReadyRequest : Proceed(c, [op |-> "persist", value |-> req.ready])
    /\ UNCHANGED <<db, persisted, ready, restarts>>

Persist(c) ==
    /\ call[c].op = "persist"
    /\ persisted' = call[c].value
    /\ Proceed(c, [call[c] EXCEPT !.op = "cache"])
    /\ UNCHANGED <<db, ready, restarts>>

\* Mutant of PersistFails: the flag in memory is updated all the same.
PersistFailsSilently(c) ==
    /\ call[c].op = "persist"
    /\ Proceed(c, [call[c] EXCEPT !.op = "cache"])
    /\ UNCHANGED <<db, persisted, ready, restarts>>

PersistFails(c) ==
    /\ call[c].op = "persist"
    /\ Proceed(c, NoCall)
    /\ UNCHANGED <<db, persisted, ready, restarts>>

Cache(c) ==
    /\ call[c].op = "cache"
    /\ ready' = call[c].value
    /\ Proceed(c, NoCall)
    /\ UNCHANGED <<db, persisted, restarts>>

-----------------------------------------------------------------------------
\* Mutant of Restart: the flag in memory starts as TRUE.
RestartReady ==
    /\ restarts < MaxRestarts
    /\ restarts' = restarts + 1
    /\ ready' = TRUE
    /\ call' = [c \in Clients |-> NoCall]
    /\ UNCHANGED <<db, persisted>>

\* The process dies and is started again: calls in progress are lost and the
\* flag in memory is read back from badger.
Restart ==
    /\ restarts < MaxRestarts
    /\ restarts' = restarts + 1
    /\ ready' = persisted
    /\ call' = [c \in Clients |-> NoCall]
    /\ UNCHANGED <<db, persisted>>

Next ==
    \/ \E c \in Clients :
          \/ Set(c)
          \/ CheckKey(c)
          \/ CommitPart(c)
          \/ Flush(c)
          \/ SetFails(c)
          \/ SetReady(c)
          \/ Persist(c)
          \/ PersistFails(c)
          \/ Cache(c)
    \/ Restart

Spec == Init /\ [][Next]_vars

-----------------------------------------------------------------------------
(* Properties *)

\* The readiness readers are told survives a restart, unless the restart cuts
\* off a SetReady call.
ReadinessSurvives ==
    [][restarts' # restarts /\ (\A c \in Clients : call[c].op # "cache") =>
          ready' = ready]_vars

\* A Set with IfNotExist never replaces or removes an entry of the store.
FirstKept ==
    [][\A c \in Clients :
          call[c].op = "set" /\ call[c].batch.if_not_exist /\ call'[c] # call[c] =>
              db \subseteq db']_vars
=============================================================================
