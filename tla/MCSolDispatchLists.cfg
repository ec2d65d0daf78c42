SPECIFICATION FairSpec
CONSTANTS
    t1 = t1   t2 = t2
    a = a   b = b
    Tasks <- Pair
    Rpcs = {r1, r2}
    Method <- ListMethods
    Answers <- MCAnswers
    QueueCap = 1
    RingCap = 1
    MaxTries = 2
    NoTask = NoTask
    NoAnswer = NoAnswer
    NoValue = NoValue
    Failed = Failed
INVARIANT VerifiedAnswer
PROPERTIES ImplementsService EveryRequestEnds
