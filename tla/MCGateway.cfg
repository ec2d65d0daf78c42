SPECIFICATION FairSpec
CONSTANTS
    Flags <- MCFlags
    MaxLosses = 2
INVARIANTS TypeOK ServiceRoutesMatch
PROPERTY ServesAgain
