\* The default period; RENEWs as slow as the headroom allows.
CONSTANTS
    LeasePeriod = 0
    DefaultLease = 12
    MaxRTT = 2
    StopWait = 1
    MaxFaults = 2
    MaxHandles = 2
    Stateids = {s1, s2}
    LossReports = {"STALE_CLIENTID", "EXPIRED"}
SPECIFICATION FairSpec
INVARIANT LeaseKept
PROPERTIES QuietAfterStop ForgottenStays LeaseRegained LoopEnds
