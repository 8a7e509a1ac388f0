\* Two lines of blocks over badger_time_traversal: crashes, restarts, harmless undos.
SPECIFICATION FairSpec
CONSTANTS
    Root = Root
    a1 = a1
    a2 = a2
    a3 = a3
    a4 = a4
    b2 = b2
    b3 = b3
    c1 = c1
    c2 = c2
    c3 = c3
    c4 = c4
    d4 = d4
    k1 = k1
    k2 = k2
    Blocks <- LinesBlocks
    Num <- LinesNum
    Anc <- LinesAnc
    Keys <- MCKeys
    TimeTraversal = TRUE
    Extensions <- MCExtensions
    Rank <- MCRank
    Writes <- LinesWrites
    IfNotExist <- LinesFlags
    LibOf <- LinesLib
    HeadOf <- LinesHead
    CanUndo = TRUE
    MaxRestarts = 3
INVARIANTS HistoryExact FirstRunExact
PROPERTY Served
CHECK_DEADLOCK FALSE
