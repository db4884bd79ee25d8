\* Three attempts on one client, two texts each, close() at any time.
SPECIFICATION Spec
CONSTANTS
    MaxAttempts = 3
    MaxTexts = 2
INVARIANTS
    TypeOK
    VerdictIsOwn
    TextAfterReturn
    ConnectedIsTrue
PROPERTIES
    ConnectReturns
CHECK_DEADLOCK FALSE
