\* Two calls of up to four bytes each; the program stops calling afterwards.
SPECIFICATION FairSpec
CONSTANTS
    Sizes <- SmallSizes
    MaxArrive = 5
    MaxCalls = 2
INVARIANTS ExactTransfer TwoPiecesInOrder
PROPERTIES SentAll CallReturns
CHECK_DEADLOCK FALSE
