CONSTANTS
    Callers = {c1, c2}
    SlotCount = 2
    SeqMod = 4
    Nobody = Nobody
    Requests = {r1, r2}
    Faults = {"seqfail"}
SPECIFICATION Spec
INVARIANT NotWedged
