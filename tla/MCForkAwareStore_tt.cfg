\* badger_time_traversal behind the cache, entries written unconditionally.
SPECIFICATION Spec
CONSTANTS
    Keys = {k1, k2}
    Values = {v1, v2}
    TimeTraversal = TRUE
    Extensions <- MCExtensions
    Rank <- MCRank
    MaxBlock = 3
    Flags = {FALSE}
PROPERTIES FlushInvisible ImplementsOverlay
