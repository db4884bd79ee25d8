\* Publishing: two threads, three calls, two joins; nobody subscribes.
SPECIFICATION Spec
CONSTANTS
    t1 = t1
    t2 = t2
    main = main
    p1 = p1
    Callers <- MCCallers
    Streams <- MCStreams
    Peers <- MCNone
    TpRole = "server"
    MaxCalls = 3
    MaxJoins = 2
SYMMETRY MCSymmetry
INVARIANTS
    TypeOK
    PublishUndisturbed
    ProducedLine
    ProducesOnConnected
    AnswerIsForTransport
CHECK_DEADLOCK FALSE
