CONSTANTS
    Callers = {c1, c2}
    Workers = {w1, w2}
    Requests = {r1, r2}
    XidMod = 4
    MaxFaults = 1
    Nobody = Nobody
SPECIFICATION FairSpec
INVARIANT OneReader
PROPERTIES OwnReply CallReturns WorkersEnd
