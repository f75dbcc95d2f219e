SPECIFICATION FairSpec
CONSTANTS
    Text <- MCText
    Window = 1
    MaxSent <- MCMost12
    Invoked <- MCInvokedEcho
    Handlers <- MCHandlers
    Payloads <- MCPayloads
    ErrorTexts <- MCErrorTexts
INVARIANTS
    Inv
PROPERTIES
    BlockedRecvReturns
    BlockedSendReturns
CHECK_DEADLOCK FALSE
