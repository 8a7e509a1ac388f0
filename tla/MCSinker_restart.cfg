\* One branch and one restart: what was only in memory is not sent again.
SPECIFICATION Spec
CONSTANTS
    Root = Root
    a1 = a1
    a2 = a2
    a3 = a3
    a4 = a4
    b2 = b2
    b3 = b3
    c1 = c1
    c2 = c2
    c3 = c3
    c4 = c4
    d4 = d4
    k1 = k1
    k2 = k2
    Blocks <- LineBlocks
    Num <- LineNum
    Anc <- LineAnc
    Keys <- MCKeys
    TimeTraversal = TRUE
    Extensions <- MCExtensions
    Rank <- MCRank
    Writes <- LineWrites
    IfNotExist <- Overwrite
    LibOf <- LagLib
    HeadOf <- OwnHead
    CanUndo = FALSE
    MaxRestarts = 1
INVARIANT TipExact
CHECK_DEADLOCK FALSE
