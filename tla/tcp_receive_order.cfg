\* One call; a message received in three or more pieces.
SPECIFICATION Spec
CONSTANTS
    Sizes <- SmallSizes
    MaxArrive = 4
    MaxCalls = 1
INVARIANTS ReceivesMessage
CHECK_DEADLOCK FALSE
