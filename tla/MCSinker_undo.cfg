\* A fork over the plain badger store: the undo signal loses entries of blocks
\* that stay.
SPECIFICATION Spec
CONSTANTS
    Root = Root
    a1 = a1
    a2 = a2
    a3 = a3
    a4 = a4
    b2 = b2
    b3 = b3
    c1 = c1
    c2 = c2
    c3 = c3
    c4 = c4
    d4 = d4
    k1 = k1
    k2 = k2
    Blocks <- ForkBlocks
    Num <- ForkNum
    Anc <- ForkAnc
    Keys <- MCKeys
    TimeTraversal = FALSE
    Extensions <- MCExtensions
    Rank <- MCRank
    Writes <- ForkWrites
    IfNotExist <- Overwrite
    LibOf <- AnyLib
    HeadOf <- OwnHead
    CanUndo = TRUE
    MaxRestarts = 0
INVARIANT TipExact
CHECK_DEADLOCK FALSE
