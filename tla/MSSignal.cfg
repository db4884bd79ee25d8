\* Two concurrent calls, the id 0 and a colliding id, messages of the server's
\* own; no symmetry, which liveness forbids.
SPECIFICATION Spec
CONSTANTS
    c1 = c1
    c2 = c2
    Calls <- MCCalls
    Ids <- MCIds
    ServerIds <- MCServerIds
    MaxServer = 2
INVARIANTS
    TypeOK
    NoSilentLoss
    OwnAnswer
    OnePlace
PROPERTIES
    ImplementsRpc
CHECK_DEADLOCK FALSE
