------------------------------- MODULE Sinker -------------------------------
(***************************************************************************)
(* sink/sinker.go and sink/cursor.go driving the fork-aware store, with    *)
(* the process around them (cmd/foundational-store/server.go): it stops on *)
(* a handler error, may crash between any two steps, and restarts from the *)
(* cursor file.                                                            *)
(*                                                                         *)
(* The stream (external) sends the blocks of a branch in order, with the   *)
(* last irreversible block (LIB) in each cursor, and an undo signal before *)
(* it changes branch.  A block writes the keys Writes[b] with the flag     *)
(* IfNotExist[b]; the value written is the id of the block, so that a read *)
(* tells which block it comes from.                                        *)
(*                                                                         *)
(* One handler runs at a time and gRPC readers run beside it: each call a  *)
(* handler makes that readers can observe is a step of its own, and a      *)
(* property about reads is about the state between any two of them.        *)
(***************************************************************************)
EXTENDS Chain, Integers

CONSTANTS
    Keys, TimeTraversal, Extensions, Rank, \* see Backend
    Writes,      \* keys in the map output of a block
    IfNotExist,  \* the flag in the map output of a block
    LibOf,       \* the LIBs the stream may announce with a block
    HeadOf,      \* the head blocks, by number, it may announce with it
    CanUndo,     \* FALSE: the sink library holds blocks back until they need no undo
    MaxRestarts  \* bound on restarts; nothing fails once it is reached

ASSUME SinkerAssumption ==
    /\ TimeTraversal \in BOOLEAN
    /\ Extensions \in [Keys -> SUBSET Keys]
    /\ \A k \in Keys : k \in Extensions[k]
    /\ Writes \in [Blocks -> SUBSET Keys]
    /\ Writes[Root] = {}
    /\ IfNotExist \in [Blocks -> BOOLEAN]
    /\ LibOf \in [Blocks -> SUBSET Blocks]
    /\ \A b \in Blocks : LibOf[b] \subseteq Anc[b]
    /\ HeadOf \in [Blocks -> SUBSET Nat]
    /\ \A b \in Blocks : \A n \in HeadOf[b] : Num[b] <= n
    /\ CanUndo \in BOOLEAN
    /\ MaxRestarts \in Nat

VARIABLES
    db, cache, flushUpToBlock, \* ForkAwareStore
    pos,        \* the block of the last message delivered
    lib,        \* the LIB in its cursor
    head,       \* the number of the head block in its cursor
    history,    \* cursorHistory: block -> the cursor received with it
    cursorFile, \* the cursor on disk
    headBlock,  \* Sinker.headBlock, what gRPC readers are gated on
    pc,         \* the step the handler is at
    final,      \* the last block the stream ever announced as final
    restarts    \* restarts so far

storeVars == <<db, cache, flushUpToBlock>>
vars == <<db, cache, flushUpToBlock, pos, lib, head, history, cursorFile, headBlock,
          pc, final, restarts>>

Store == INSTANCE ForkAwareStore WITH Values <- Blocks, MaxBlock <- 0, Flags <- BOOLEAN

\* A cursor names its block, its LIB, and the head of the chain when it was made:
\* ahead of the block in a stream of final blocks, or one that is catching up.
\* No cursor is the cursor of Root.
Cursor == [block : Blocks, lib : Blocks, head : Nat]
NoCursor == [block |-> Root, lib |-> Root, head |-> 0]

\* Steps of HandleBlockScopedData: set, flush, save, finish.
\* Steps of HandleBlockUndoSignal: evict, save_undo.
PC == {"idle", "set", "flush", "save", "finish", "evict", "save_undo", "stopped"}

TypeOK ==
    /\ Store!TypeOK
    /\ pos \in Blocks /\ lib \in Blocks /\ head \in Nat /\ final \in Blocks
    /\ DOMAIN history \subseteq Blocks
    /\ history \in [DOMAIN history -> Cursor]
    /\ cursorFile \in Cursor
    /\ headBlock \in Nat
    /\ pc \in PC
    /\ restarts \in 0..MaxRestarts

Init ==
    /\ db = {} /\ Store!NewStore
    /\ cursorFile = NoCursor
    /\ pos = Root /\ lib = Root /\ head = 0 /\ headBlock = 0
    /\ history = [b \in {} |-> NoCursor]
    /\ pc = "idle"
    /\ final = Root
    /\ restarts = 0

-----------------------------------------------------------------------------
(* HandleBlockScopedData *)

\* The map output of a block is absent, not empty, when it has neither entries
\* nor the flag: an empty message encodes to no bytes.
HasOutput(b) == Writes[b] # {} \/ IfNotExist[b]

\* Mutant of DeliverBlock: the cursor of a block is saved before its entries.
DeliverAndSave(b, l, n) ==
    /\ pc = "idle"
    /\ IsChild(b, pos) /\ Comparable(b, final)
    /\ l \in LibOf[b] /\ lib \in Anc[l] /\ n \in HeadOf[b]
    /\ pos' = b
    /\ lib' = l
    /\ head' = n
    /\ final' = Later(final, l)
    /\ history' = [x \in DOMAIN history \cup {b} |->
          IF x = b THEN [block |-> b, lib |-> l, head |-> n] ELSE history[x]]
    /\ cursorFile' = [block |-> b, lib |-> l, head |-> n]
    /\ pc' = IF HasOutput(b) THEN "set" ELSE "save"
    /\ UNCHANGED <<storeVars, headBlock, restarts>>

\* The stream sends the next block of the branch, on the branch of what is
\* final.  The handler records the cursor before anything else.
DeliverBlock(b, l, n) ==
    /\ pc = "idle"
    /\ IsChild(b, pos) /\ Comparable(b, final)
    /\ l \in LibOf[b] /\ lib \in Anc[l] /\ n \in HeadOf[b]
    /\ pos' = b
    /\ lib' = l
    /\ head' = n
    /\ final' = Later(final, l)
    /\ history' = [x \in DOMAIN history \cup {b} |->
          IF x = b THEN [block |-> b, lib |-> l, head |-> n] ELSE history[x]]
    /\ pc' = IF HasOutput(b) THEN "set" ELSE "save"
    /\ UNCHANGED <<storeVars, cursorFile, headBlock, restarts>>

Entries == [k \in Writes[pos] |-> pos]

StoreSet ==
    /\ pc = "set"
    /\ Store!SetAll(Entries, IfNotExist[pos], Num[pos])
    /\ pc' = "flush"
    /\ UNCHANGED <<pos, lib, head, history, cursorFile, headBlock, final, restarts>>

\* Mutant of StoreFlush: the flush goes up to the block instead of its LIB.
FlushToHead ==
    /\ pc = "flush"
    /\ Store!FlushUpToBlock(Num[pos], IfNotExist[pos])
    /\ pc' = "save"
    /\ UNCHANGED <<pos, lib, head, history, cursorFile, headBlock, final, restarts>>

StoreFlush ==
    /\ pc = "flush"
    /\ Store!FlushUpToBlock(Num[lib], IfNotExist[pos])
    /\ pc' = "save"
    /\ UNCHANGED <<pos, lib, head, history, cursorFile, headBlock, final, restarts>>

\* The cursor of the last message.
CurrentCursor == [block |-> pos, lib |-> lib, head |-> head]

\* The cursor of the LIB, or the current one when the history has none.
LibCursor == IF lib \in DOMAIN history THEN history[lib] ELSE CurrentCursor

SaveCursor ==
    /\ pc = "save"
    /\ cursorFile' = LibCursor
    /\ pc' = "finish"
    /\ UNCHANGED <<storeVars, pos, lib, head, history, headBlock, final, restarts>>

\* Mutant of Finish: only a block with output is published.
FinishWithOutput ==
    /\ pc = "finish"
    /\ history' = [x \in {x \in DOMAIN history : Num[x] > Num[lib]} |-> history[x]]
    /\ headBlock' = IF HasOutput(pos) THEN Num[pos] ELSE headBlock
    /\ pc' = "idle"
    /\ UNCHANGED <<storeVars, pos, lib, head, cursorFile, final, restarts>>

\* Forget the cursors up to the LIB, its own included, and only then publish
\* the block to readers.
Finish ==
    /\ pc = "finish"
    /\ history' = [x \in {x \in DOMAIN history : Num[x] > Num[lib]} |-> history[x]]
    /\ headBlock' = Num[pos]
    /\ pc' = "idle"
    /\ UNCHANGED <<storeVars, pos, lib, head, cursorFile, final, restarts>>

-----------------------------------------------------------------------------
(* HandleBlockUndoSignal *)

\* Mutant of DeliverUndo: the head is left where it was.
DeliverUndoUnpublished(v, n) ==
    /\ pc = "idle" /\ CanUndo
    /\ v \in Anc[pos] /\ v # pos /\ lib \in Anc[v] /\ n \in HeadOf[v]
    /\ \E b \in Blocks : IsChild(b, v) /\ b \notin Anc[pos] /\ Comparable(b, final)
    /\ pos' = v
    /\ head' = n
    /\ pc' = "evict"
    /\ UNCHANGED <<storeVars, lib, history, cursorFile, headBlock, final, restarts>>

\* The stream orders the sinker back to v, where another branch leaves its own
\* and can still become final.  headBlock moves first.
DeliverUndo(v, n) ==
    /\ pc = "idle" /\ CanUndo
    /\ v \in Anc[pos] /\ v # pos /\ lib \in Anc[v] /\ n \in HeadOf[v]
    /\ \E b \in Blocks : IsChild(b, v) /\ b \notin Anc[pos] /\ Comparable(b, final)
    /\ pos' = v
    /\ head' = n
    /\ headBlock' = Num[v]
    /\ pc' = "evict"
    /\ UNCHANGED <<storeVars, lib, history, cursorFile, final, restarts>>

StoreEvict ==
    /\ pc = "evict"
    /\ Store!EvictUpToBlock(Num[pos])
    /\ pc' = "save_undo"
    /\ UNCHANGED <<pos, lib, head, history, cursorFile, headBlock, final, restarts>>

\* Saving the cursor of an undo may fail: the handler only warns.
SaveUndoCursor ==
    /\ pc = "save_undo"
    /\ \/ cursorFile' = CurrentCursor
       \/ restarts < MaxRestarts /\ UNCHANGED cursorFile
    /\ pc' = "idle"
    /\ UNCHANGED <<storeVars, pos, lib, head, history, headBlock, final, restarts>>

-----------------------------------------------------------------------------
(* Failures *)

\* A handler returns an error: the output does not unmarshal or the store
\* refuses it, the flush fails, or the cursor cannot be written.  The sink
\* library ends the run, the sinker shuts down and the process exits.
HandlerFails ==
    /\ restarts < MaxRestarts
    /\ \/ pc = "set" /\ UNCHANGED storeVars
       \/ pc = "set" /\ Store!SetAllFails(Entries, IfNotExist[pos], Num[pos])
       \/ pc = "flush" /\ Store!FlushUpToBlockFails(Num[lib], IfNotExist[pos])
       \/ pc = "save" /\ UNCHANGED storeVars
    /\ pc' = "stopped"
    /\ UNCHANGED <<pos, lib, head, history, cursorFile, headBlock, final, restarts>>

\* The process dies between two steps, or within the flush of a batch.
Crash ==
    /\ restarts < MaxRestarts
    /\ pc # "stopped"
    /\ \/ UNCHANGED storeVars
       \/ pc = "flush" /\ Store!FlushUpToBlockFails(Num[lib], IfNotExist[pos])
    /\ pc' = "stopped"
    /\ UNCHANGED <<pos, lib, head, history, cursorFile, headBlock, final, restarts>>

\* The process starts again: a new store cache over the same database and a
\* new sinker, from the cursor file or, when that is missing or unreadable, from
\* the start of the stream.  The gate opens up to the head of the chain at the
\* time of the cursor.
Restart ==
    /\ pc = "stopped"
    /\ restarts < MaxRestarts
    /\ restarts' = restarts + 1
    /\ \E cursor \in {cursorFile, NoCursor} :
          /\ cursorFile' = cursor
          /\ pos' = cursor.block
          /\ lib' = cursor.lib
          /\ head' = cursor.head
          /\ headBlock' = cursor.head
    /\ history' = [b \in {} |-> NoCursor]
    /\ pc' = "idle"
    /\ Store!Reopen
    /\ UNCHANGED final

-----------------------------------------------------------------------------
HandleBlock == StoreSet \/ StoreFlush \/ SaveCursor \/ Finish

HandleUndo == StoreEvict \/ SaveUndoCursor

Deliver ==
    \E b \in Blocks : \E l \in LibOf[b] : \E n \in HeadOf[b] : DeliverBlock(b, l, n)

Undo == \E v \in Blocks : \E n \in HeadOf[v] : DeliverUndo(v, n)

Next ==
    \/ Deliver
    \/ HandleBlock
    \/ Undo
    \/ HandleUndo
    \/ HandlerFails
    \/ Crash
    \/ Restart

Spec == Init /\ [][Next]_vars

-----------------------------------------------------------------------------
(* What the store may hold *)

\* Only final blocks reach the disk, and none is stored below its own number:
\* whatever crashes, replays, reorganisations or half-written batches came
\* before, no version on disk ever has to be undone.
DurableFinal ==
    \A t \in db : t.val \in Anc[final] /\ Num[t.val] <= t.block

\* Every version on disk is the entry a final block wrote for that key, and no
\* later block up to the version's number overwrote the key unconditionally.
\* The numbers matter: a flush stamps its entries with the LIB.
NoStaleVersion ==
    \A t \in db :
        /\ t.key \in Writes[t.val]
        /\ \A b \in Anc[final] :
              t.key \in Writes[b] /\ Num[t.val] < Num[b] /\ Num[b] <= t.block => IfNotExist[b]

-----------------------------------------------------------------------------
(* What a reader may see, between any two steps of the sinker.  The gRPC server
   lets a request through when its block number is not above headBlock. *)

Answerable == 0..headBlock

\* An answer comes from the branch the sinker is on, or else from final blocks
\* while a restarted sinker still stands on a branch that lost; it is never
\* from an orphaned block, even between headBlock moving back and the eviction,
\* and it is what a block not above the requested one wrote for that key.
CanonicalRead ==
    \A k \in Keys : \A B \in Answerable : \A w \in Store!Get(k, B) :
        /\ k \in Writes[w] /\ Num[w] <= B
        /\ w \in Anc[pos] \cup Anc[final]

\* GetFirst, likewise, never answers from an orphaned block.
CanonicalFirst ==
    \A k \in Keys : \A B \in Answerable : \A w \in Store!GetFirst(k, B) :
        w \in Anc[pos] \cup Anc[final]

\* Up to the block last flushed, history does not change while one process runs:
\* an answer given there is given again.
SettledHistory ==
    [][restarts' = restarts /\ pc' # "stopped" =>
          \A k \in Keys : \A B \in 0..flushUpToBlock :
             Store!Get(k, B)' = Store!Get(k, B)]_vars

-----------------------------------------------------------------------------
(* Why it holds: the inductive invariant *)

\* Every LIB the sinker knows is on the branch of the cursor it came with and final.
CursorsSound ==
    /\ lib \in Anc[pos] \cap Anc[final]
    /\ cursorFile.lib \in Anc[cursorFile.block] \cap Anc[final]
    /\ \A b \in DOMAIN history :
          history[b].block = b /\ history[b].lib \in Anc[b] \cap Anc[final]

\* The store is never flushed past the LIB, so a block is set before it is flushed.
FlushBehind ==
    /\ flushUpToBlock <= Num[lib]
    /\ pc = "set" => flushUpToBlock < Num[pos]

\* The cache holds what blocks of the current branch wrote.  Entries of an
\* undone block stay until the eviction, out of reach above the published head.
CacheCanonical ==
    \A k \in DOMAIN cache :
        LET w == cache[k].val IN
        /\ k \in Writes[w] /\ cache[k].block = Num[w]
        /\ w \in Anc[pos] \/ (pc \in {"evict", "stopped"} /\ Num[w] > headBlock)

\* Blocks whose entries the store has taken, as long as the process runs.
Ingested == IF pc = "set" THEN Anc[pos] \ {pos} ELSE Anc[pos]

\* No later block of the current branch overwrote a cached entry.
CacheFresh ==
    pc # "stopped" =>
        \A k \in DOMAIN cache : \A b \in Ingested :
            k \in Writes[b] /\ cache[k].block < Num[b] => IfNotExist[b]

\* A version is not stamped above the last final block.
StampsFinal == \A t \in db : t.block <= Num[final]

\* The head is lowered before anything else, as long as the eviction is pending.
HeadLowered == pc = "evict" => headBlock = Num[pos]

IndInv ==
    /\ TypeOK
    /\ DurableFinal
    /\ NoStaleVersion
    /\ StampsFinal
    /\ CursorsSound
    /\ FlushBehind
    /\ CacheCanonical
    /\ CacheFresh
    /\ HeadLowered

-----------------------------------------------------------------------------
(* What a reader should see *)

\* Blocks up to number n on the branch of b that write k.
Writers(k, b, n) == {w \in Anc[b] : k \in Writes[w] /\ Num[w] <= n}

\* The block whose entry for k holds at number n: the last one that wrote k,
\* where a block with IfNotExist writes only if no block wrote k before it.
Ideal(k, b, n) ==
    LET W == Writers(k, b, n)
    IN  {w \in W :
            /\ IfNotExist[w] => \A v \in W : Num[w] <= Num[v]
            /\ \A v \in W : Num[w] < Num[v] => IfNotExist[v]}

\* Blocks whose entries the store has taken and flushed as far as it will.  Of a
\* process that stopped, the block it had in hand does not count.
Processed == IF pc \in {"set", "flush", "stopped"} THEN Anc[pos] \ {pos} ELSE Anc[pos]

\* Every block up to the current one was final when it was sent.
SentFinal == \A b \in Anc[pos] \ {Root} : LibOf[b] = {b}

\* Where blocks are sent when they are final, every processed block and all before
\* it read exactly as the chain says, after any crash and replay.
HistoryExact ==
    SentFinal =>
        \A k \in Keys : \A b \in Processed : \A B \in 0..Num[b] :
            Store!Get(k, B) = Ideal(k, pos, B)

\* Between two messages, the head block reads exactly as the chain says.
TipExact ==
    pc = "idle" => \A k \in Keys : Store!Get(k, headBlock) = Ideal(k, pos, headBlock)

\* So it does, at least, until the process first stops.
FirstRunExact == restarts = 0 => TipExact

\* "Indicates whether the requested block has been processed by the store"
\* (service.proto:41): between two messages, the gate lets no block of the chain
\* through that is still to come.
ReachedIsProcessed ==
    pc = "idle" => \A b \in Blocks : pos \in Anc[b] /\ Num[b] <= headBlock => b = pos

-----------------------------------------------------------------------------
(* Progress *)

\* The undo signal a sinker gets that stands on a branch that lost.
LeaveLostBranch == Undo /\ ~Comparable(pos, final)

\* The sink library delivers a next block, or the undo signal that leads to one, and
\* runs its handler to the end; an orchestrator starts a process that exited.
\* Nothing else is owed: failures, crashes and other undo signals may or may not
\* happen.
Fairness ==
    /\ WF_vars(Deliver) /\ WF_vars(HandleBlock)
    /\ WF_vars(LeaveLostBranch) /\ WF_vars(HandleUndo)
    /\ WF_vars(Restart)

FairSpec == Spec /\ Fairness

\* However often it stops, a sinker whose failures end, on a chain whose
\* reorganisations end, comes to the last block of the branch that wins, lets
\* requests for it through, and goes on doing so.
Served ==
    <>[](pc # "evict") =>
        <>[](/\ pc = "idle" /\ headBlock >= Num[pos]
             /\ Comparable(pos, final) /\ \A b \in Blocks : ~IsChild(b, pos))
=============================================================================
