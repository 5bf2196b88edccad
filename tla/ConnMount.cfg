CONSTANTS
    Users = {u1}
    Loop = Loop
    MaxID = 14
    None = 0
    Configs = {"v40", "v41", "auto"}
    Servers = {"both", "mismatch", "notsupp", "illegal"}
    MaxCalls = 2
    MaxForgets = 1
    MaxFaults = 1
SPECIFICATION FairSpec
INVARIANTS ConfirmPaired RetryWorks CloseCleans Negotiated ClientsClosed
PROPERTY Settles
