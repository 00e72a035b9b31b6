SPECIFICATION FairSpec
CONSTANTS
    Tokens <- MCTokens
    Keys <- MCColonKeys
    Values <- MCLikeKey
    NoObject = NoObject
    Unknown = Unknown
    Faults = FALSE
    Strays = TRUE
    MaxEpochs = 2
    MaxLines = 2
INVARIANTS AckedDurable KernelSafe
PROPERTIES Answered
CHECK_DEADLOCK FALSE
