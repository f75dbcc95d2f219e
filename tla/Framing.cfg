SPECIFICATION Spec
CONSTANTS
    s1 = s1
    s2 = s2
    Base = 2
    Weights <- MCWeights
    Bodies <- MCBodies
    Senders <- MCSenders
    MaxEncodes = 3
    Formats <- MCFormats
INVARIANTS
    FramingInv
    AllocatesWhatIsSent
PROPERTIES
    FramesAreAPipe
    DecoderEnds
CHECK_DEADLOCK FALSE
