\* The client names a block of one branch, the sinker is on the other.
SPECIFICATION ServingSpec
CONSTANTS
    Root = Root
    a1 = a1
    a2 = a2
    a3 = a3
    b2 = b2
    k1 = k1
    k2 = k2
    Blocks <- ForkBlocks
    Num <- ForkNum
    Anc <- ForkAnc
    Keys <- MCKeys
    TimeTraversal = TRUE
    Extensions <- MCExtensions
    Rank <- MCRank
    Writes <- ForkWrites
    IfNotExist <- ForkFlags
    LibOf <- ForkLib
    HeadOf <- FarHead
    CanUndo = TRUE
    MaxRestarts = 0
    Requests = {r1}
    KeySets <- MCKeySets
INVARIANT AnswersAskedBlock
CHECK_DEADLOCK FALSE
