SPECIFICATION Spec
CONSTANTS
    g = g   a1 = a1   b1 = b1   b2 = b2   d0 = d0   d1 = d1   x = x
    rootA = rootA   rootB = rootB
    Null = Null   NoBlock = NoBlock
    Blocks <- BtcOnly
    Prev <- MCPrev
    Chain <- MCChain
    Work <- MCWork
    Nets = {"btc"}
    NetOf <- MCNetOf
    Root <- MCRoot
    Roots = {rootA, rootB}
    Heights = {0, 1}
    OtherHashes = {x}
    Keys <- MCKeys
    Rank <- MCRank
    Txids = {1}
    Requests = {q1, q2}
    CacheSize = 1
SYMMETRY RequestSymmetry
INVARIANTS TypeOK CacheBounded CacheCoherent HeaderAsAsked ConfirmedByP2P HashOfOwnNetwork
