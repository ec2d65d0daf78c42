SPECIFICATION FairSpec
CONSTANTS
    g = g   a1 = a1   b1 = b1   b2 = b2   b3 = b3   x = x
    Null = Null
    Blocks = {g, a1, b1, b2, b3}
    Prev <- MCPrev
    Chain <- MCChain
    Work <- MCWork
    BatchSize = 2
    HeightChunk = 3
    Txids = {x}
INVARIANTS TypeOK ReplyAsAsked
PROPERTIES ImplementsSource EveryCallEnds
