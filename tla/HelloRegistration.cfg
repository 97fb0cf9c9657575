SPECIFICATION Spec
CONSTANTS
    z1 = z1
    z2 = z2
    j1 = j1
    zwave = zwave
    jablotron = jablotron
    None = None
    Managers <- MCManagers
    Prefixes <- MCPrefixes
    PrefixOf <- MCPrefixOf
    IdentMax = 2
    MaxStarts = 2
    MaxBrokers = 2
INVARIANTS TypeOK RegisteredOnce
PROPERTIES ImplementsLease EveryRequestIsAnswered
CHECK_DEADLOCK FALSE
