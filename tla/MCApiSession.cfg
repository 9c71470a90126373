SPECIFICATION TransportSpec
CONSTANTS
    Sessions = {s1, s2}
    MaxSessions = 1
    MaxSeq = 3
    MaxDrops = 1
    MaxEpoch = 2
    MaxCalls = 3
CHECK_DEADLOCK FALSE
INVARIANTS
    AtMostOnce
    ClientAgreesWithLedger
    EveryInstanceIsOwned
    CallsMatchTheRuntime
PROPERTY
    RequestsResolve
