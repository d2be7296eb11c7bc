\* Two threads that pass any handles, shared, stale and void ones too, and
\* call lxi_init at any time, on a table of two entries.  A program that has
\* got round the checks of the library stops calling it.
SPECIFICATION FairSpec
CONSTANTS
    Threads = {t1, t2}
    SESSIONS_MAX = 2
    Blocks = {b1, b2}
    Devices <- TwoEntryDevices
    MaxInits = 1
    NoThread = NoThread
    NULL = NULL
CHECK_DEADLOCK FALSE
INVARIANTS TypeOK MemorySafety NothingLost
PROPERTIES ApiSpec SoloCallReturns
