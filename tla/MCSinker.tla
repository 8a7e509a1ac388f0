------------------------------ MODULE MCSinker ------------------------------
(* Instances of Sinker for TLC: small trees of blocks, and what they write.  *)
EXTENDS Sinker, TLC

CONSTANTS a1, a2, a3, a4, b2, b3, c1, c2, c3, c4, d4, k1, k2

MCKeys == {k1, k2}
MCExtensions == [k \in MCKeys |-> {k}]
MCRank == [k \in MCKeys |-> 0]

\* Root - a1 - a2 - a3
\*           \ b2 - b3
ForkBlocks == {Root, a1, a2, a3, b2, b3}
ForkNum == Root :> 0 @@ a1 :> 1 @@ a2 :> 2 @@ a3 :> 3 @@ b2 :> 2 @@ b3 :> 3
ForkAnc ==
    Root :> {Root} @@ a1 :> {Root, a1} @@ a2 :> {Root, a1, a2}
        @@ a3 :> {Root, a1, a2, a3} @@ b2 :> {Root, a1, b2} @@ b3 :> {Root, a1, b2, b3}
ForkWrites ==
    Root :> {} @@ a1 :> {k1, k2} @@ a2 :> {k1} @@ a3 :> {k2} @@ b2 :> {} @@ b3 :> {k1, k2}
ForkFlags == [b \in ForkBlocks |-> b = a3]

\* Root - a1 - a2 - a3 - a4, with a gap in the numbers
LineBlocks == {Root, a1, a2, a3, a4}
LineNum == Root :> 0 @@ a1 :> 1 @@ a2 :> 2 @@ a3 :> 4 @@ a4 :> 5
LineAnc ==
    Root :> {Root} @@ a1 :> {Root, a1} @@ a2 :> {Root, a1, a2}
        @@ a3 :> {Root, a1, a2, a3} @@ a4 :> {Root, a1, a2, a3, a4}
LineWrites == Root :> {} @@ a1 :> {k1, k2} @@ a2 :> {k1} @@ a3 :> {k1, k2} @@ a4 :> {}
LineFlags == [b \in LineBlocks |-> b \in {a2, a3}]

\* Two such lines: the blocks a1 to a4 are final when they are sent, of the others
\* the LIB may be any block before.  The stream may turn back at Root and at c3,
\* which write nothing, and what c4 and d4 write was not there before.
\* Root - c1 - c2 - c3 - c4
\*                     \ d4
LinesBlocks == LineBlocks \cup {c1, c2, c3, c4, d4}
LinesNum == LineNum @@ c1 :> 1 @@ c2 :> 2 @@ c3 :> 4 @@ c4 :> 5 @@ d4 :> 5
LinesAnc ==
    LineAnc @@ c1 :> {Root, c1} @@ c2 :> {Root, c1, c2}
        @@ c3 :> {Root, c1, c2, c3} @@ c4 :> {Root, c1, c2, c3, c4}
        @@ d4 :> {Root, c1, c2, c3, d4}
LinesWrites ==
    LineWrites @@ c1 :> {k1} @@ c2 :> {k1} @@ c3 :> {} @@ c4 :> {k2} @@ d4 :> {k2}
LinesFlags == [b \in LinesBlocks |-> b \in {a2, a3}]
LinesLib == [b \in LinesBlocks |-> IF b \in LineBlocks THEN {b} ELSE LinesAnc[b]]

Overwrite == [b \in Blocks |-> FALSE]

\* The stream may announce any ancestor as irreversible, or only the block itself.
AnyLib == Anc
OwnLib == [b \in Blocks |-> {b}]
\* The first block is final when it is sent; from the next one on LIB may lag.
LagLib == [b \in Blocks |-> IF b = a1 THEN {b} ELSE Anc[b] \ {Root}]

\* The head of the chain is the block itself, or this and the last of the line.
OwnHead == [b \in Blocks |-> {Num[b]}]
LineHead == [b \in LineBlocks |-> {LineNum[b], 5}]
LinesHead == [b \in LinesBlocks |-> IF b \in LineBlocks THEN LineHead[b] ELSE {LinesNum[b]}]
=============================================================================
