SPECIFICATION Spec
CONSTANTS
    Tokens <- MCTokens
    Keys <- MCKeys
    Values <- MCTwoValues
    NoObject = NoObject
    Unknown = Unknown
    Faults = TRUE
    Strays = FALSE
    MaxEpochs = 3
    MaxLines = 4
INVARIANTS TypeOK AckedDurable UniqueLines AckedServed AckedGone ReplyMatchesRequest GetAgreesWithAcked
CHECK_DEADLOCK FALSE
