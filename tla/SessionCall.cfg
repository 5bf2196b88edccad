CONSTANTS
    Callers = {c1, c2}
    SlotCount = 2
    SeqMod = 3
    Nobody = Nobody
    Requests = {r1, r2}
    Faults = {"seqfail", "noresop", "undecodable"}
SPECIFICATION Spec
SYMMETRY CallSymmetry
INVARIANTS InSync OwnResults
PROPERTY UsesSession
