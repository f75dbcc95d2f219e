SPECIFICATION ReadingSpec
CONSTANTS
    Text <- MCText
    Payloads = {}
    ErrorTexts <- MCErrorTexts
    MaxSent <- MCMost14
    RouterAhead = 0
PROPERTIES
    ReaderFreesRouter
    ReadersCanSend
CHECK_DEADLOCK FALSE
