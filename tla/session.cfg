SPECIFICATION Spec
CHECK_DEADLOCK FALSE
CONSTANTS
    HEADERSIZE = 2
    KEY_SIZE = 1
    INSERT_LEN = 1
    KERNEL_LEN = 2
    JOIN_LEN = 2
    TestSends = 2
    SixRounds = 1
    MaxSends = 2
    MenuOps = {"GET"}
    MaxForeign = 1
INVARIANTS InOrder FinalTime
PROPERTIES PdusDelivered CloseSeen KickEnds 
