SPECIFICATION Spec
CONSTANTS
    Text <- MCText
    Window = 1
    MaxSent <- MCMost12
    Invoked <- MCInvokedEcho
    Handlers <- MCRegistered
    Payloads <- MCPayloads
    ErrorTexts <- MCErrorTexts
INVARIANTS
    RegisteredIsDispatched
CHECK_DEADLOCK FALSE
