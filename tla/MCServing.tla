----------------------------- MODULE MCServing -----------------------------
(* Requests beside the small chains of MCSinker.                             *)
EXTENDS Serving, TLC

CONSTANTS a1, a2, a3, b2, k1, k2

MCKeys == {k1, k2}
MCExtensions == [k \in MCKeys |-> {k}]
MCRank == [k \in MCKeys |-> 0]
MCKeySets == {{k1}, {k1, k2}}

\* Root - a1 - a2 - a3
\*           \ b2
ForkBlocks == {Root, a1, a2, a3, b2}
ForkNum == Root :> 0 @@ a1 :> 1 @@ a2 :> 2 @@ a3 :> 3 @@ b2 :> 3
ForkAnc ==
    Root :> {Root} @@ a1 :> {Root, a1} @@ a2 :> {Root, a1, a2}
        @@ a3 :> {Root, a1, a2, a3} @@ b2 :> {Root, a1, b2}
ForkWrites == Root :> {} @@ a1 :> {k1, k2} @@ a2 :> {k1} @@ a3 :> {k2} @@ b2 :> {k1, k2}
ForkFlags == [b \in ForkBlocks |-> b = b2]
\* The LIB is a block before, or a2 itself: that one may be final before a cursor
\* of it is saved, and the file still names another branch.
ForkLib ==
    Root :> {Root} @@ a1 :> {Root} @@ a2 :> {Root, a1, a2} @@ a3 :> {a1, a2} @@ b2 :> {Root, a1}
\* The head of the chain, always ahead: what the gate lets through when it is
\* nearer is a part of what it lets through here.
FarHead == [b \in Blocks |-> {3}]
=============================================================================
