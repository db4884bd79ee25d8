\* Three joins, one after the other, on the same MediaSoupAPI object, and ids for the
\* transports of one and a half of them.
SPECIFICATION Spec
CONSTANTS
    MaxJoins = 3
    TransportIds <- MCTransportIds
INVARIANTS
    TypeOK
    OwnVersion
    
    TargetIsUsable
PROPERTIES
    JoinReturns
CHECK_DEADLOCK FALSE
