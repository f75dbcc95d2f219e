SPECIFICATION ReadingSpec
CONSTANTS
    Text <- MCText
    Payloads <- MCPayloads
    ErrorTexts <- MCErrorTexts
    MaxSent <- MCMost20
    RouterAhead = 1
PROPERTIES
    RouterOutlivesCall
CHECK_DEADLOCK FALSE
