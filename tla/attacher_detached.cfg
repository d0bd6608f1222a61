CONSTANTS
    MaxRedirectFollow = 2
    EofPossible = FALSE
    MaxVersion = 1
    MaxCalls = 2
SPECIFICATION Spec
INVARIANTS
    DetachReported
CHECK_DEADLOCK FALSE
