\* A rejected produce request: violated.
SPECIFICATION Spec
CONSTANTS
    MaxJoins = 2
    TransportIds <- MCTransportIds
INVARIANTS
    ProduceVerdict
CHECK_DEADLOCK FALSE
