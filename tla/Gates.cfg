SPECIFICATION FairSpec
CONSTANTS
    Request <- Requests
    Descriptor <- Inferable
    BadParam <- BadNames
    NoSpec = NoSpec
    NoResult = NoResult
    MAX_ATTEMPTS = 2
    Timeout = 3
    Gate = 2
    SampleCount = 2
    Retries = 1
CHECK_DEADLOCK FALSE
INVARIANTS
    TypeOK
    GateHolds
    VerdictIsDeserved
    EveryArgumentIsSent
PROPERTIES
    GatesEnd
