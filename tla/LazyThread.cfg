\* Two users of one object, three threads created one after the other.
SPECIFICATION Spec
CONSTANTS
    u1 = u1
    u2 = u2
    Users <- MCUsers
    MaxThreads = 3
INVARIANTS
    TypeOK
    FirstStopJoins
    EndedByStop
PROPERTIES
    StopReturns
CHECK_DEADLOCK FALSE
