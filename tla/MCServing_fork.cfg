\* One request at a time beside a live sinker: forks, crashes, two restarts.
SPECIFICATION ServingSpec
CONSTANTS
    Root = Root
    a1 = a1
    a2 = a2
    a3 = a3
    b2 = b2
    k1 = k1
    k2 = k2
    Blocks <- ForkBlocks
    Num <- ForkNum
    Anc <- ForkAnc
    Keys <- MCKeys
    TimeTraversal = TRUE
    Extensions <- MCExtensions
    Rank <- MCRank
    Writes <- ForkWrites
    IfNotExist <- ForkFlags
    LibOf <- ForkLib
    HeadOf <- FarHead
    CanUndo = TRUE
    MaxRestarts = 2
    Requests = {r1}
    KeySets <- MCKeySets
INVARIANTS ServingInv RequestCanonical OneBranch IndInv DurableFinal NoStaleVersion CanonicalRead CanonicalFirst
PROPERTY SettledHistory
CHECK_DEADLOCK FALSE
