SPECIFICATION Spec
CONSTANTS
    t1 = t1   t2 = t2
    a = a   b = b
    Tasks <- Pair
    Rpcs = {r1, r2}
    Method <- AccountMethods
    Answers <- MCAnswers
    QueueCap = 1
    RingCap = 1
    MaxTries = 1
    NoTask = NoTask
    NoAnswer = NoAnswer
    NoValue = NoValue
    Failed = Failed
INVARIANT EventsMatch
