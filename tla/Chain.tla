------------------------------- MODULE Chain -------------------------------
(***************************************************************************)
(* The tree of blocks the Substreams stream is cut from.  The repository   *)
(* never builds this tree: it only sees block ids, block numbers and the   *)
(* LIB of a cursor (sink/sinker.go:50-129), so the module is external and  *)
(* states what the sinker may rely on.                                     *)
(*                                                                         *)
(* A block is known by its id.  Root stands for the point just before the  *)
(* first block of the stream: no cursor file, headBlock 0.                 *)
(***************************************************************************)
EXTENDS Naturals

CONSTANTS
    Blocks, \* block ids
    Root,   \* the start of the stream
    Num,    \* block number of a block; numbers may be sparse
    Anc     \* ancestors of a block, itself included

ASSUME ChainAssumption ==
    /\ Root \in Blocks
    /\ Num \in [Blocks -> Nat]
    /\ Num[Root] = 0
    /\ Anc \in [Blocks -> SUBSET Blocks]
    /\ \A b \in Blocks : b \in Anc[b] /\ Root \in Anc[b]
    /\ \A b \in Blocks : \A a \in Anc[b] : Anc[a] \subseteq Anc[b]
    /\ \A b \in Blocks : \A a \in Anc[b] : a # b => Num[a] < Num[b]
    /\ \A b \in Blocks : \A a1, a2 \in Anc[b] : a1 \in Anc[a2] \/ a2 \in Anc[a1]

\* One of the two blocks is an ancestor of the other.
Comparable(a, b) == a \in Anc[b] \/ b \in Anc[a]

\* The block that directly follows p on some branch.
IsChild(b, p) == b \notin Anc[p] /\ Anc[b] = Anc[p] \cup {b}

\* The later of two blocks of one branch.
Later(a, b) == IF a \in Anc[b] THEN b ELSE a
=============================================================================
