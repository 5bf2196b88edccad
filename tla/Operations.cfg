CONSTANTS
    Called <- MCCalled
    Durations <- MCDurations
    Attempts <- MCAttempts
    DefaultRetryInitial = 1
    DefaultRetryMax = 4
    DefaultRetryMaxAttempts = 3
    MaxLen = 600
    MaxFragment = 200
    MaxMessage = 300
    LastFragment = 1000
SPECIFICATION OpSpec
CHECK_DEADLOCK FALSE
INVARIANTS NoSilentDelay StopsWhenDone AnswerIsOwn WholeIsTaken CutIsSeen RequestIsRead AppliedOnce AttrsRead
