SPECIFICATION FairSpec
CONSTANTS
    u1 = u1
    u2 = u2
    s1 = s1
    s2 = s2
    Users <- MCUsers
    Sessions <- MCSessions
    Tls = FALSE
    Kinds = {"tcp", "websocket"}
INVARIANTS
    TypeOK
    NothingLeaks
    InvokeDials
    InvokesOnItsOwn
PROPERTIES
    EndedIsLeft
    OnConnectReturns
