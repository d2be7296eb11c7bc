\* One call of vxi11_connect with an ordinary timeout and no failures of
\* pthread_create.
SPECIFICATION FairSpec
CONSTANTS
    CreateMayFail = FALSE
    Timeouts = {1000}
    Seconds = {7}
    Nanos = {0}
PROPERTIES ConnectReturns
CHECK_DEADLOCK FALSE
