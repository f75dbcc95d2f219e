SPECIFICATION RpcFairSpec
CONSTANTS
    Text <- MCText
    Window = 1
    MaxSent <- MCMostRpc
    Invoked <- MCInvoked
    Handlers <- MCHandlers
    Payloads <- MCPayloads
    Garbled <- MCGarbled
    ErrorTexts <- MCErrorTexts
INVARIANTS
    RpcTypeOK
    RpcOutcome
PROPERTIES
    RpcIsACall
    RpcReturns
    RpcLeavesNoReader
CHECK_DEADLOCK FALSE
