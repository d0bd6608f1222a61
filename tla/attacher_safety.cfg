CONSTANTS
    MaxRedirectFollow = 5
    EofPossible = TRUE
    MaxVersion = 3
    MaxCalls = 2
SPECIFICATION Spec
INVARIANTS SingleResolution FlagsAgree NoStaleHandler TokenSync
PROPERTIES ClosedForever
CHECK_DEADLOCK FALSE
