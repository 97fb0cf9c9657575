SPECIFICATION Spec
CONSTANTS
    a1 = a1
    a2 = a2
    h1 = h1
    h2 = h2
    broker = broker
    None = None
    Answers <- MCAnswers
    Handlers <- MCHandlers
    Acceptors <- MCAcceptors
    ResultCounts <- MCResultCounts
    PoolCapacity = 2
INVARIANTS TypeOK NoFalseCompletion CompletionIsAnnounced
PROPERTIES CompletionIsFinal EveryCommandEnds
CHECK_DEADLOCK FALSE
