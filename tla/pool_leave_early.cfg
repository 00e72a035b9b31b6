SPECIFICATION FairSpec
CONSTANTS
    s1 = s1
    s2 = s2
    c1 = c1
    c2 = c2
    c3 = c3
    Slots = {s1}
    Conns = {c1}
    None = None
    SpuriousWakeups = FALSE
    AbruptClients = TRUE
PROPERTIES LeaverTerminates
CHECK_DEADLOCK FALSE
