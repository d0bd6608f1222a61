CONSTANTS
    MaxRedirectFollow = 3
    EofPossible = FALSE
    MaxVersion = 2
    MaxCalls = 2
SPECIFICATION LiveSpec
INVARIANTS WakeupPending
PROPERTIES CloseCompletes 
CHECK_DEADLOCK FALSE
