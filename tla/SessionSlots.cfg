\* More callers than slots, and sequence ids that wrap.
CONSTANTS
    Callers = {c1, c2, c3}
    SlotCount = 2
    SeqMod = 2
    Nobody = Nobody
SPECIFICATION FairSpec
INVARIANTS SlotExclusive TokenAccounting
PROPERTIES ImplementsAllocator AcquireReturns
