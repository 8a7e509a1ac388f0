-------------------------- MODULE RemoteFeed_proofs --------------------------
(***************************************************************************)
(* What holds of the remote feed when one client at a time may do a thing: *)
(* one controller keeps the readiness in memory and on disk together, one  *)
(* setter keeps IfNotExist.  Two overlapping Set calls may both find a key *)
(* absent before either commits; two overlapping SetReady calls may        *)
(* persist in one order and update memory in the other.                    *)
(***************************************************************************)
EXTENDS RemoteFeed, TLAPS

\* A call of Set in progress, by the type of the calls.
LEMMA SetCallFacts ==
    ASSUME TypeOK, NEW c \in Clients, call[c].op = "set"
    PROVE  /\ call[c] \in SetCall
           /\ call[c].batch.entries \in Part
           /\ call[c].unchecked \subseteq DOMAIN call[c].batch.entries
           /\ call[c].admitted \subseteq DOMAIN call[c].batch.entries
<1>1. call[c] \in SetCall
  BY DEF TypeOK, NoCall, SetCall, ReadyCall
<1> QED
  BY <1>1 DEF TypeOK, SetCall, SinkEntries

\* A call of SetReady in progress.
LEMMA ReadyCallFacts ==
    ASSUME TypeOK, NEW c \in Clients, call[c].op \in {"persist", "cache"}
    PROVE  call[c] \in ReadyCall /\ call[c].value \in BOOLEAN
BY DEF TypeOK, NoCall, SetCall, ReadyCall

\* Committing entries of a batch keeps the database well formed, makes their keys
\* exist and no other, takes no key away, and removes nothing when it finds none of
\* its keys.
LEMMA StoredFacts ==
    ASSUME TypeOK, NEW c \in Clients, call[c].op = "set",
           NEW D, D \subseteq call[c].admitted
    PROVE  /\ Stored(c, D) \subseteq Store!Version
           /\ \A k : Store!Exists(Stored(c, D), k) <=> Store!Exists(db, k) \/ k \in D
           /\ (\A k \in D : ~Store!Exists(db, k)) => db \subseteq Stored(c, D)
<1> DEFINE part == Restrict(call[c].batch.entries, D)
<1>1. /\ call[c].batch.entries \in Part
      /\ D \subseteq DOMAIN call[c].batch.entries
  BY SetCallFacts
<1>2. PICK E \in SUBSET Keys : call[c].batch.entries \in [E -> Values]
  BY <1>1 DEF Part
<1>3. /\ DOMAIN part = D
      /\ \A k \in D : k \in Keys /\ part[k] \in Values
  BY <1>1, <1>2 DEF Restrict
<1>4. Stored(c, D) = {t \in db : t.key \notin D}
                        \cup {[key |-> k, block |-> 0, val |-> part[k]] : k \in D}
  BY <1>3 DEF Stored, Store!Put
<1>5. \A k \in D : [key |-> k, block |-> 0, val |-> part[k]] \in Store!Version
  BY <1>3 DEF Store!Version
<1>6. Stored(c, D) \subseteq Store!Version
  BY <1>4, <1>5 DEF TypeOK
<1>7. \A k : Store!Exists(Stored(c, D), k) <=> Store!Exists(db, k) \/ k \in D
  <2> HIDE DEF part
  <2>1. ASSUME NEW k, Store!Exists(Stored(c, D), k) PROVE Store!Exists(db, k) \/ k \in D
    BY <1>4, <2>1 DEF Store!Exists
  <2>2. ASSUME NEW k \in D PROVE Store!Exists(Stored(c, D), k)
    <3>1. [key |-> k, block |-> 0, val |-> part[k]] \in Stored(c, D)
      BY <1>4
    <3> QED
      BY <3>1 DEF Store!Exists
  <2>3. ASSUME NEW k, Store!Exists(db, k), k \notin D PROVE Store!Exists(Stored(c, D), k)
    <3>1. PICK t \in db : t.key = k
      BY <2>3 DEF Store!Exists
    <3>2. t \in Stored(c, D)
      BY <1>4, <2>3, <3>1
    <3> QED
      BY <3>1, <3>2 DEF Store!Exists
  <2> QED
    BY <2>1, <2>2, <2>3
<1>8. ASSUME \A k \in D : ~Store!Exists(db, k) PROVE db \subseteq Stored(c, D)
  BY <1>4, <1>8 DEF Store!Exists
<1> QED
  BY <1>6, <1>7, <1>8

-----------------------------------------------------------------------------
\* Type correctness.
THEOREM FeedTypeCorrect == Spec => []TypeOK
<1>1. Init => TypeOK
  <2>1. ASSUME Init PROVE /\ call \in [Clients -> {NoCall} \cup SetCall \cup ReadyCall]
                          /\ \A c \in Clients : call[c].op # "set"
    BY <2>1 DEF Init, NoCall
  <2>2. ASSUME Init PROVE restarts \in 0..MaxRestarts
    BY <2>2, FeedAssumption DEF Init
  <2>3. ASSUME Init PROVE db \subseteq Store!Version /\ persisted \in BOOLEAN /\ ready \in BOOLEAN
    BY <2>3 DEF Init
  <2> QED
    BY <2>1, <2>2, <2>3 DEF TypeOK
<1>2. ASSUME TypeOK, [Next]_vars PROVE TypeOK'
  <2> USE DEF TypeOK, Proceed
  \* A step of one Set call, from the call as it is to the call it proceeds with.
  <2>0. ASSUME NEW c \in Clients, NEW s \in SetCall, call' = [call EXCEPT ![c] = s],
               s.unchecked \cup s.admitted \subseteq DOMAIN s.batch.entries,
               db' \subseteq Store!Version, UNCHANGED <<persisted, ready, restarts>>
        PROVE  TypeOK'
    <3>1. \A d \in Clients : call'[d] = IF d = c THEN s ELSE call[d]
      BY <1>2, <2>0
    <3>2. call' \in [Clients -> {NoCall} \cup SetCall \cup ReadyCall]
      BY <1>2, <2>0
    <3> QED
      BY <1>2, <2>0, <3>1, <3>2
  <2>1. ASSUME NEW c \in Clients, Set(c) PROVE TypeOK'
    <3>1. PICK req \in SetRequest :
             call' = [call EXCEPT ![c] = [op |-> "set", batch |-> req.entries,
                 unchecked |-> DOMAIN req.entries.entries, admitted |-> {}]]
      BY <2>1 DEF Set
    <3>2. req.entries \in SinkEntries /\ DOMAIN req.entries.entries \subseteq Keys
      BY <3>1 DEF SetRequest, SinkEntries, Part
    <3>3. [op |-> "set", batch |-> req.entries,
           unchecked |-> DOMAIN req.entries.entries, admitted |-> {}] \in SetCall
      BY <3>2 DEF SetCall
    <3> QED
      BY <1>2, <2>0, <2>1, <3>1, <3>3 DEF Set
  <2>2. ASSUME NEW c \in Clients, CheckKey(c) PROVE TypeOK'
    <3>1. call[c].op = "set"
      BY <2>2 DEF CheckKey
    <3>2. PICK k \in call[c].unchecked :
             call' = [call EXCEPT ![c] = [call[c] EXCEPT
                !.unchecked = @ \ {k},
                !.admitted = IF call[c].batch.if_not_exist /\ Store!Exists(db, k) THEN @
                             ELSE @ \cup {k}]]
      BY <2>2 DEF CheckKey
    <3> DEFINE s == [call[c] EXCEPT
                !.unchecked = @ \ {k},
                !.admitted = IF call[c].batch.if_not_exist /\ Store!Exists(db, k) THEN @
                             ELSE @ \cup {k}]
    <3>3. /\ call[c] \in SetCall
          /\ call[c].unchecked \subseteq DOMAIN call[c].batch.entries
          /\ call[c].admitted \subseteq DOMAIN call[c].batch.entries
      BY <1>2, <3>1, SetCallFacts
    <3>4. /\ s \in SetCall
          /\ s.unchecked \cup s.admitted \subseteq DOMAIN s.batch.entries
      BY <3>3 DEF SetCall
    <3>5. db' \subseteq Store!Version /\ UNCHANGED <<persisted, ready, restarts>>
      BY <1>2, <2>2 DEF CheckKey
    <3> HIDE DEF s
    <3>6. call' = [call EXCEPT ![c] = s]
      BY <3>2 DEF s
    <3> QED
      BY <2>0, <3>4, <3>5, <3>6
  <2>3. ASSUME NEW c \in Clients, CommitPart(c) PROVE TypeOK'
    <3>1. call[c].op = "set"
      BY <2>3 DEF CommitPart
    <3>2. PICK D \in SUBSET call[c].admitted :
             /\ db' = Stored(c, D)
             /\ call' = [call EXCEPT ![c] = [call[c] EXCEPT !.admitted = @ \ D]]
      BY <2>3 DEF CommitPart
    <3> DEFINE s == [call[c] EXCEPT !.admitted = @ \ D]
    <3>3. /\ call[c] \in SetCall
          /\ call[c].unchecked \subseteq DOMAIN call[c].batch.entries
          /\ call[c].admitted \subseteq DOMAIN call[c].batch.entries
      BY <1>2, <3>1, SetCallFacts
    <3>4. /\ s \in SetCall
          /\ s.unchecked \cup s.admitted \subseteq DOMAIN s.batch.entries
      BY <3>3 DEF SetCall
    <3>5. db' \subseteq Store!Version
      BY <1>2, <3>1, <3>2, StoredFacts
    <3>6. UNCHANGED <<persisted, ready, restarts>>
      BY <2>3 DEF CommitPart
    <3> QED
      BY <2>0, <3>2, <3>4, <3>5, <3>6
  <2>4. ASSUME NEW c \in Clients, Flush(c) PROVE TypeOK'
    <3>1. db' \subseteq Store!Version
      BY <1>2, <2>4, StoredFacts DEF Flush
    <3> QED
      BY <1>2, <2>4, <3>1 DEF Flush, NoCall
  <2>5. ASSUME NEW c \in Clients, SetFails(c) PROVE TypeOK'
    BY <1>2, <2>5 DEF SetFails, NoCall
  <2>6. ASSUME NEW c \in Clients, SetReady(c) \/ Persist(c) \/ PersistFails(c) \/ Cache(c)
        PROVE  TypeOK'
    <3>1. CASE SetReady(c)
      BY <1>2, <3>1 DEF SetReady, SetReadyRequest, ReadyCall
    <3>2. CASE Persist(c)
      <4>1. call[c] \in ReadyCall
        BY <1>2, <3>2, ReadyCallFacts DEF Persist
      <4> QED
        BY <1>2, <3>2, <4>1 DEF Persist, ReadyCall
    <3>3. CASE PersistFails(c)
      BY <1>2, <3>3 DEF PersistFails, NoCall
    <3>4. CASE Cache(c)
      <4>1. call[c] \in ReadyCall
        BY <1>2, <3>4, ReadyCallFacts DEF Cache
      <4> QED
        BY <1>2, <3>4, <4>1 DEF Cache, ReadyCall, NoCall
    <3> QED
      BY <2>6, <3>1, <3>2, <3>3, <3>4
  <2>7. CASE Restart
    BY <1>2, <2>7, FeedAssumption DEF Restart, NoCall
  <2>8. CASE UNCHANGED vars
    BY <1>2, <2>8 DEF vars
  <2> QED
    BY <1>2, <2>1, <2>2, <2>3, <2>4, <2>5, <2>6, <2>7, <2>8 DEF Next
<1> QED
  BY <1>1, <1>2, PTL DEF Spec

-----------------------------------------------------------------------------
(* Readiness *)

\* With a single controller, memory and disk disagree only in the middle of its
\* SetReady call, and then the disk has what memory is about to get.
InSync ==
    /\ \A c \in Clients : call[c].op \in {"persist", "cache"} => c \in Controllers
    /\ \A c \in Clients : call[c].op = "cache" => persisted = call[c].value
    /\ (\A c \in Clients : call[c].op # "cache") => ready = persisted

\* A step of a Set call that goes on.
LEMMA SetStep ==
    ASSUME TypeOK, NEW c \in Clients, CheckKey(c) \/ CommitPart(c)
    PROVE  /\ call[c].op = "set"
           /\ call'[c].op = "set" /\ call'[c].batch = call[c].batch
           /\ \A d \in Clients : d # c => call'[d] = call[d]
           /\ persisted' = persisted /\ ready' = ready /\ restarts' = restarts
<1>1. call[c].op = "set"
  BY DEF CheckKey, CommitPart
<1>2. call[c] \in SetCall /\ call \in [Clients -> {NoCall} \cup SetCall \cup ReadyCall]
  BY <1>1, SetCallFacts DEF TypeOK
<1>3. CASE CheckKey(c)
  BY <1>1, <1>2, <1>3 DEF CheckKey, Proceed, SetCall
<1>4. CASE CommitPart(c)
  BY <1>1, <1>2, <1>4 DEF CommitPart, Proceed, SetCall
<1> QED
  BY <1>3, <1>4

LEMMA InSyncStep ==
    ASSUME \A c, d \in Controllers : c = d, TypeOK, InSync, [Next]_vars
    PROVE  InSync'
<1> USE DEF TypeOK, InSync, Proceed
<1>1. ASSUME NEW c \in Clients, Set(c) PROVE InSync'
  BY <1>1 DEF Set, NoCall
<1>2. ASSUME NEW c \in Clients, CheckKey(c) \/ CommitPart(c) PROVE InSync'
  <2>1. /\ call[c].op = "set"
        /\ call'[c].op = "set"
        /\ \A d \in Clients : d # c => call'[d] = call[d]
        /\ persisted' = persisted /\ ready' = ready
    BY <1>2, SetStep
  <2> QED
    BY <2>1
<1>3. ASSUME NEW c \in Clients, Flush(c) \/ SetFails(c) PROVE InSync'
  BY <1>3 DEF Flush, SetFails, NoCall
<1>4. ASSUME NEW c \in Clients, SetReady(c) PROVE InSync'
  BY <1>4 DEF SetReady, NoCall
<1>5. ASSUME NEW c \in Clients, Persist(c) PROVE InSync'
  <2>1. call[c] \in ReadyCall
    BY <1>5, ReadyCallFacts DEF Persist
  <2>2. call'[c] = [op |-> "cache", value |-> call[c].value]
    BY <1>5, <2>1 DEF Persist, ReadyCall
  <2>3. \A d \in Clients : d # c => call'[d] = call[d] /\ call[d].op # "cache"
    BY <1>5 DEF Persist
  <2> QED
    BY <1>5, <2>2, <2>3 DEF Persist
<1>6. ASSUME NEW c \in Clients, PersistFails(c) PROVE InSync'
  BY <1>6 DEF PersistFails, NoCall
<1>7. ASSUME NEW c \in Clients, Cache(c) PROVE InSync'
  <2>1. \A d \in Clients : d # c => call'[d] = call[d] /\ call[d].op # "cache"
    BY <1>7 DEF Cache
  <2> QED
    BY <1>7, <2>1 DEF Cache, NoCall
<1>8. CASE Restart
  BY <1>8 DEF Restart, NoCall
<1>9. CASE UNCHANGED vars
  BY <1>9 DEF vars
<1> QED
  BY <1>1, <1>2, <1>3, <1>4, <1>5, <1>6, <1>7, <1>8, <1>9 DEF Next

\* With a single controller, a restart changes what readers are told only when
\* it cuts off a SetReady call, however many batches are being written.
THEOREM ReadinessIsDurable ==
    ASSUME \A c, d \in Controllers : c = d
    PROVE  Spec => ReadinessSurvives
<1>1. Init => InSync
  <2>1. ASSUME Init PROVE \A c \in Clients : call[c].op = "none"
    BY <2>1 DEF Init, NoCall
  <2> QED
    BY <2>1 DEF Init, InSync
<1>2. TypeOK /\ InSync /\ [Next]_vars => InSync'
  BY InSyncStep
<1>3. ASSUME InSync, restarts' # restarts, \A c \in Clients : call[c].op # "cache",
             [Next]_vars, TypeOK
      PROVE  ready' = ready
  <2>1. Restart
    BY <1>3, FeedAssumption
    DEF Next, Set, CheckKey, CommitPart, Flush, SetFails, SetReady, Persist,
        PersistFails, Cache, vars
  <2> QED
    BY <1>3, <2>1 DEF Restart, InSync
<1>4. TypeOK /\ InSync /\ [Next]_vars =>
         [restarts' # restarts /\ (\A c \in Clients : call[c].op # "cache") =>
             ready' = ready]_vars
  BY <1>3
<1> QED
  BY <1>1, <1>2, <1>4, FeedTypeCorrect, PTL DEF Spec, ReadinessSurvives

-----------------------------------------------------------------------------
(* IfNotExist *)

\* With a single setter, a key it has looked up and not found stays absent until
\* it commits.
StillAbsent ==
    \A c \in Clients :
        call[c].op = "set" =>
            /\ c \in Setters
            /\ call[c].batch.if_not_exist =>
                  \A k \in call[c].admitted : ~Store!Exists(db, k)

\* Every step keeps what the single setter found absent: only its own commit writes,
\* and that takes the keys out of what it has left to write.
LEMMA StillAbsentStep ==
    ASSUME \A c, d \in Setters : c = d, TypeOK, StillAbsent, [Next]_vars
    PROVE  StillAbsent'
<1> USE DEF StillAbsent
<1>0. call \in [Clients -> {NoCall} \cup SetCall \cup ReadyCall]
  BY DEF TypeOK
<1>1. ASSUME NEW c \in Clients, Set(c) PROVE StillAbsent'
  <2>1. /\ db' = db /\ c \in Setters
        /\ call'[c].admitted = {}
        /\ \A d \in Clients : d # c => call'[d] = call[d]
    BY <1>0, <1>1 DEF Set, Proceed
  <2> QED
    BY <2>1 DEF Store!Exists
<1>2. ASSUME NEW c \in Clients, CheckKey(c) PROVE StillAbsent'
  <2>1. /\ call[c].op = "set" /\ call'[c].batch = call[c].batch
        /\ \A d \in Clients : d # c => call'[d] = call[d]
    BY <1>2, SetStep
  <2>2. call[c] \in SetCall
    BY <2>1, SetCallFacts
  <2>3. PICK k \in call[c].unchecked :
           call' = [call EXCEPT ![c] = [call[c] EXCEPT
              !.unchecked = @ \ {k},
              !.admitted = IF call[c].batch.if_not_exist /\ Store!Exists(db, k) THEN @
                           ELSE @ \cup {k}]]
    BY <1>2 DEF CheckKey, Proceed
  <2>4. call'[c].admitted = IF call[c].batch.if_not_exist /\ Store!Exists(db, k)
                            THEN call[c].admitted ELSE call[c].admitted \cup {k}
    BY <1>0, <2>2, <2>3 DEF SetCall
  <2>5. db' = db
    BY <1>2 DEF CheckKey
  <2>6. ASSUME NEW d \in Clients, call'[d].op = "set"
        PROVE  /\ d \in Setters
               /\ call'[d].batch.if_not_exist =>
                     \A x \in call'[d].admitted : ~Store!Exists(db, x)
    BY <2>1, <2>4, <2>6
  <2> QED
    BY <2>5, <2>6 DEF Store!Exists
<1>3. ASSUME NEW c \in Clients, CommitPart(c) PROVE StillAbsent'
  <2>1. /\ call[c].op = "set" /\ call'[c].batch = call[c].batch
        /\ \A d \in Clients : d # c => call'[d] = call[d]
    BY <1>3, SetStep
  <2>2. call[c] \in SetCall
    BY <2>1, SetCallFacts
  <2>3. PICK D \in SUBSET call[c].admitted :
           /\ db' = Stored(c, D)
           /\ call' = [call EXCEPT ![c] = [call[c] EXCEPT !.admitted = @ \ D]]
    BY <1>3 DEF CommitPart, Proceed
  <2>4. call'[c].admitted = call[c].admitted \ D
    BY <1>0, <2>2, <2>3 DEF SetCall
  <2>5. \A x : Store!Exists(db', x) => Store!Exists(db, x) \/ x \in D
    BY <2>1, <2>3, StoredFacts
  <2>6. \A d \in Clients : d # c => call[d].op # "set"
    BY <2>1
  <2>7. ASSUME NEW d \in Clients, call'[d].op = "set"
        PROVE  /\ d \in Setters
               /\ call'[d].batch.if_not_exist =>
                     \A x \in call'[d].admitted : ~Store!Exists(db', x)
    BY <2>1, <2>4, <2>5, <2>6, <2>7
  <2> QED
    BY <2>7 DEF Store!Exists
<1>4. ASSUME NEW c \in Clients, Flush(c) PROVE StillAbsent'
  <2>1. \A d \in Clients : call'[d].op # "set"
    BY <1>0, <1>4 DEF Flush, NoCall, Proceed
  <2> QED
    BY <2>1
<1>5. ASSUME NEW c \in Clients,
             SetFails(c) \/ SetReady(c) \/ Persist(c) \/ PersistFails(c) \/ Cache(c)
      PROVE  StillAbsent'
  <2>1. db' = db /\ \A d \in Clients : d # c => call'[d] = call[d]
    BY <1>0, <1>5 DEF SetFails, SetReady, Persist, PersistFails, Cache, Proceed
  <2>2. call'[c].op # "set"
    <3>1. CASE Persist(c)
      <4>1. call[c] \in ReadyCall
        BY <3>1, ReadyCallFacts DEF Persist
      <4> QED
        BY <1>0, <3>1, <4>1 DEF Persist, ReadyCall, Proceed
    <3>2. CASE SetReady(c)
      BY <1>0, <3>2 DEF SetReady, Proceed
    <3>3. CASE SetFails(c) \/ PersistFails(c) \/ Cache(c)
      BY <1>0, <3>3 DEF SetFails, PersistFails, Cache, NoCall, Proceed
    <3> QED
      BY <1>5, <3>1, <3>2, <3>3
  <2> QED
    BY <2>1, <2>2 DEF Store!Exists
<1>6. CASE Restart
  <2>1. \A d \in Clients : call'[d].op # "set"
    BY <1>6 DEF Restart, NoCall
  <2> QED
    BY <2>1
<1>7. CASE UNCHANGED vars
  BY <1>7 DEF vars, Store!Exists
<1> QED
  BY <1>1, <1>2, <1>3, <1>4, <1>5, <1>6, <1>7 DEF Next

\* With a single setter, no Set with IfNotExist replaces an entry, whatever part
\* of it fails and whenever the process restarts.
THEOREM FirstIsKept ==
    ASSUME \A c, d \in Setters : c = d
    PROVE  Spec => FirstKept
<1>1. Init => StillAbsent
  <2>1. ASSUME Init PROVE \A c \in Clients : call[c].op = "none"
    BY <2>1 DEF Init, NoCall
  <2> QED
    BY <2>1 DEF StillAbsent
<1>2. TypeOK /\ StillAbsent /\ [Next]_vars => StillAbsent'
  BY StillAbsentStep
<1>3. ASSUME TypeOK, StillAbsent, [Next]_vars, NEW c \in Clients,
             call[c].op = "set", call[c].batch.if_not_exist, call'[c] # call[c]
      PROVE  db \subseteq db'
  <2>0. call \in [Clients -> {NoCall} \cup SetCall \cup ReadyCall]
    BY <1>3 DEF TypeOK
  <2>1. \A k \in call[c].admitted : ~Store!Exists(db, k)
    BY <1>3 DEF StillAbsent
  <2>2. CASE CommitPart(c)
    <3>1. PICK D \in SUBSET call[c].admitted : db' = Stored(c, D)
      BY <2>2 DEF CommitPart
    <3> QED
      BY <1>3, <2>1, <3>1, StoredFacts
  <2>3. CASE Flush(c)
    BY <1>3, <2>1, <2>3, StoredFacts DEF Flush
  <2>4. CASE db' = db
    BY <2>4
  <2>5. ASSUME NEW d \in Clients, d # c, CommitPart(d) \/ Flush(d) PROVE FALSE
    BY <1>3, <2>0, <2>5 DEF CommitPart, Flush, Proceed
  <2> QED
    BY <1>3, <2>2, <2>3, <2>4, <2>5
    DEF Next, Set, CheckKey, SetFails, SetReady, Persist, PersistFails, Cache,
        Restart, vars
<1>4. TypeOK /\ StillAbsent /\ [Next]_vars =>
         [\A c \in Clients :
             call[c].op = "set" /\ call[c].batch.if_not_exist /\ call'[c] # call[c] =>
                 db \subseteq db']_vars
  BY <1>3
<1> QED
  BY <1>1, <1>2, <1>4, FeedTypeCorrect, PTL DEF Spec, FirstKept
=============================================================================
