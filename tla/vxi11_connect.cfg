\* One call of vxi11_connect; the call is over when it has returned.
SPECIFICATION FairSpec
CONSTANTS
    CreateMayFail = TRUE
    Timeouts <- BoundaryTimeouts
    Seconds = {7}
    Nanos <- BoundaryNanos
INVARIANTS ThreadsOutlived JoinedOnce ClientAccountedFor HangCauses DeadlineCorrect
PROPERTIES ReturnsOrHangs
CHECK_DEADLOCK FALSE
