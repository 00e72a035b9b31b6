SPECIFICATION Spec
CONSTANTS
    Nodes = {n1, n2, n3, n4}
    Data = {a, b}
    NULL = NULL
INVARIANTS WellLinked FreeComplete LengthCorrect
PROPERTIES ImplementsListADT FreeEnds
CHECK_DEADLOCK FALSE
