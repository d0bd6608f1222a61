CONSTANTS
    AuthRequests = {1, 2}
    PasswordRequests = {1, 2}
    MaxAttempts = 3
    MaxConnections = 2
    Literals = {"1", "01", "x", "true", "false", "2"}
    NumericOf <- MCNumericOf
    Clients = {"c1", "c2"}
    MaxPairings = 3
    MaxStarts = 2
    Ids = {"a", "b"}
    GoodKeys = {"k1", "k2"}
    BadKeys = {"bad"}
    AppNames <- MCAppNames
SPECIFICATION Spec
INVARIANTS AttemptsLimited PolicyMeaning UsersSurvive 
PROPERTIES AccessAnswered
CHECK_DEADLOCK FALSE
