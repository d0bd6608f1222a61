CONSTANTS
    f1 = f1
    timer = timer
    FutureSet = {f1}
    Timer = timer
    Events = {f1, timer}
    Modulus = 8
    MaxDelay = 2
    FirstClock = 6
    MaxClock = 8
    Folded = FALSE
    MaxUses = 2
    MaxTimer = 1
SPECIFICATION Spec
INVARIANTS
    TimedInOrder
    
PROPERTIES
    Delivered
    StopReturns
