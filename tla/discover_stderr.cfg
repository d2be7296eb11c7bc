\* One answer, identified over HTTP.
SPECIFICATION Spec
CONSTANTS
    Interfaces <- FourInterfaces
    Timeouts = {1000}
    MaxAnswers = 1
INVARIANTS StderrRestored
CHECK_DEADLOCK FALSE
