SPECIFICATION StreamFairSpec
CONSTANTS
    Text <- MCText
    Window = 1
    MaxSent <- MCMost
    Loads <- MCLoads
    Invoked <- MCInvoked
    Handlers <- MCHandlers
    Payloads <- MCPayloads
    Garbled <- MCGarbled
    ErrorTexts <- MCErrorTexts
INVARIANTS
    StreamInv
    StreamYieldsAll
PROPERTIES
    StreamIsACall
    CloseAndRecvReturns
CHECK_DEADLOCK FALSE
