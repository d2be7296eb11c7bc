\* Four interfaces, up to three answers, with and without a timeout.
SPECIFICATION FairSpec
CONSTANTS
    Interfaces <- FourInterfaces
    Timeouts = {0, 1000}
    MaxAnswers = 3
INVARIANTS TypeOK EachAnswerOnce ClientClosed
PROPERTIES SearchesAll DiscoverReturns
\* A null pointer ends the program, and a backend may hang.
CHECK_DEADLOCK FALSE
