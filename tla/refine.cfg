CONSTANTS
    Numbers <- TwoNumbers
    Requests <- MCRequests
    MAX_ITERATIONS = 3
    None = None
SPECIFICATION Spec
INVARIANTS OnlyTwoDoors LoopKeeps
PROPERTIES RevisingHelps
CHECK_DEADLOCK FALSE
