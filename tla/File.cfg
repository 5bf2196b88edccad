CONSTANTS
    Goroutines = {g1, g2}
    Nobody = Nobody
    Flags <- MCFlags
    Offsets <- MCOffsets
    MaxSize = 2
    MaxLen = 2
    MaxInt = 3
SPECIFICATION FairSpec
INVARIANTS MovedInPlace OffsetOwned QuietOnceClosed OneClose NoOpenLeft
PROPERTY CallsReturn
