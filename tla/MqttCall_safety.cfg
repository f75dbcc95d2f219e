SPECIFICATION Spec
CONSTANTS
    Text <- MCText
    Payloads <- MCPayloads
    ErrorTexts <- MCErrorTexts
    MaxSent <- MCMost12
    RouterAhead = 1
INVARIANTS
    NothingLost
    Inv
PROPERTIES
    PipeSpec
CHECK_DEADLOCK FALSE
