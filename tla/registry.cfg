SPECIFICATION Spec
CONSTANTS
    c1 = c1
    c2 = c2
    c3 = c3
    Clients = {c1, c2, c3}
    Sender = Sender
    NULL = NULL
    Dangling = Dangling
    MaxLeaves = 2
SYMMETRY RegistrySymmetry
INVARIANTS BroadcastReaches BroadcastOnce WalkSafe LeaverDeregistered ServedStaysRegistered
CHECK_DEADLOCK FALSE
