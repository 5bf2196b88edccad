\* A v4.1 server: lost state shows as a SEQUENCE that fails with BADSESSION.
CONSTANTS
    LeasePeriod = 12
    DefaultLease = 12
    MaxRTT = 2
    StopWait = 1
    MaxFaults = 1
    MaxHandles = 0
    Stateids = {s1}
    LossReports = {"BADSESSION"}
SPECIFICATION FairSpec
PROPERTY LeaseRegained
