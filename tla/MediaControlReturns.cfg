\* Publishing and subscribing meet; termination of both: no symmetry.
SPECIFICATION Spec
CONSTANTS
    t1 = t1
    t2 = t2
    main = main
    p1 = p1
    Callers <- MCCallers
    Streams <- MCStreams
    Peers <- MCPeers
    TpRole = "auto"
    MaxCalls = 2
    MaxJoins = 1
INVARIANTS
    SubscribeVerdict
PROPERTIES
    DescriptionUsedWell
    
CHECK_DEADLOCK FALSE
