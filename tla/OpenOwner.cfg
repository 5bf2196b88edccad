CONSTANTS
    Callers = {"g1", "g2"}
    MaxSeqid = 4
    Attempts = 2
SPECIFICATION Spec
CHECK_DEADLOCK FALSE
INVARIANT AdvanceByOne
