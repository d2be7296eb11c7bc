\* Buffers of no, one and three bytes; an instrument with four bytes to say.
SPECIFICATION FairSpec
CONSTANTS
    Sizes = {0, 1, 3}
    MaxBytes = 4
INVARIANTS ReceiveCorrect
PROPERTIES Gapless CallReturns
\* A link may be closed.
CHECK_DEADLOCK FALSE
