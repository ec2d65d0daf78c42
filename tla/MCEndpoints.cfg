SPECIFICATION AllSpec
CONSTANTS
    g = g   a1 = a1   d0 = d0   root = root   t1 = t1   s1 = s1   s2 = s2
    Null = Null   NoBlock = NoBlock   NoChain = NoChain   NotFound = NotFound
    Blocks = {g, a1, d0}
    Prev <- MCPrev
    Chain <- MCChain
    Work <- MCWork
    Nets = {"btc", "doge"}
    NetOf <- MCNetOf
    Root <- MCRoot
    Roots = {root}
    Heights = {0, 1}
    OtherHashes = {t1}
    Txids = {1}
    Requests = {q1}
    Hashes = {t1, a1}
    Home <- MCHome
    Signatures = {s1, s2}
    Undecodable = {s1}
    EthBlocks = {1, 2}
    Handlers = {w1, w2}
    Payloads <- MCPayloads
    Keys <- MCKeys
    Rank <- MCRank
    CacheSize = 2
SYMMETRY HandlerSymmetry
INVARIANTS ClientTypeOK KeysApart HeaderOrReceipt AnswersGenuine
PROPERTIES NullIsCurrent EvictsWhenFull
