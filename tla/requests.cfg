SPECIFICATION Spec
CONSTANTS
    Reqs = {r, d}
    Deletes = {d}
    Old = Old
    None = None
    TestLength = 2
    MaxTests = 2
INVARIANTS PopFindsWork SleepsOnlyOnMissed AnswerMatches AckedKept
PROPERTIES  MainEnds
CHECK_DEADLOCK FALSE
