SPECIFICATION FairSpec
CONSTANTS
    s1 = s1
    s2 = s2
    c1 = c1
    c2 = c2
    c3 = c3
    Slots = {s1, s2}
    Conns = {c1, c2}
    None = None
    SpuriousWakeups = FALSE
    AbruptClients = FALSE
INVARIANTS JoinerFindsWork
PROPERTIES ConnectionAnswered LeaverTerminates
CHECK_DEADLOCK FALSE
