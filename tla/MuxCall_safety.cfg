SPECIFICATION Spec
CONSTANTS
    Text <- MCText
    Window = 1
    MaxSent <- MCMost21
    Invoked <- MCInvokedAll
    Handlers <- MCHandlers
    Payloads <- MCPayloads
    ErrorTexts <- MCErrorTexts
INVARIANTS
    TypeOK
    ErrorAfterData
    CleanEndMeansNoError
    HandlerErrorIsSent
PROPERTIES
    ErrorIsFinal
    PipeSpec
CHECK_DEADLOCK FALSE
