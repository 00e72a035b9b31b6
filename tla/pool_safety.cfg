SPECIFICATION Spec
CONSTANTS
    s1 = s1
    s2 = s2
    c1 = c1
    c2 = c2
    c3 = c3
    Slots = {s1, s2}
    Conns = {c1, c2, c3}
    None = None
    SpuriousWakeups = TRUE
    AbruptClients = TRUE
SYMMETRY PoolSymmetry
INVARIANTS TypeOK SlotsAccounted JoinsTerminatedThread ServedTracked ExitAfterAllJoined
CHECK_DEADLOCK FALSE
