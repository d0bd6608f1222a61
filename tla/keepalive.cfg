SPECIFICATION LiveSpec
CONSTANTS
    Default <- MCDefault
    Settings <- MCSettings
    Modulus = 6
    Wraps = FALSE
INVARIANT BufferKept
PROPERTIES TimeoutJustified ActivePeerKept DeadPeerDetected
