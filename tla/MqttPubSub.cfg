SPECIFICATION FairSpec
CONSTANTS
    p1 = p1
    m2 = m2
    m1 = m1
    c1 = c1
    c2 = c2
    k1 = k1
    k2 = k2
    Programs <- MCPrograms
    Methods <- MCMethods
    Calls <- MCCalls
    MethodOf <- MCMethodOf
    Consumers <- MCConsumers
    Home <- MCHome
    MaxNews = 3
    RouterAhead = 1
    Scenes <- MCScenes
INVARIANTS
    TypeOK
    NothingMissed
    NewsInOrder
    Inv
PROPERTIES
    DroppedHasReason
    ReadNewsFreesRouter
    RouterServes
CHECK_DEADLOCK FALSE
