SPECIFICATION FairSpec
CONSTANTS
    g = g   a1 = a1   a2 = a2   a3 = a3   a4 = a4   b2 = b2   b3 = b3   c1 = c1
    Null = Null
    Blocks <- Tree
    Prev <- MCPrev
    Chain <- MCChain
    Work <- MCWork
    ChunkRows = 3
INVARIANTS TypeOK Recoverable DoneIsClosed ListIsChain BatchIsLinked MemoryMatchesDisk
PROPERTY CatchesUp
