SPECIFICATION ViewSpec
CONSTANTS
    Worker = {w1}
    NoWorker = NoWorker
    Job = {1, 2}
    EnqueuedTypes = {"create"}
    SlowJobs = {}
    MaxAttempts = 2
    AttemptCap = 5
    b1 = b1
    b2 = b2
    n1 = n1
    n2 = n2
    u1 = u1
    u2 = u2
    Body = {b1, b2}
    Name = {n1, n2}
    NameOf <- TwoNames
    Requests <- FirstThenAny
    UserOf <- TwoUsers
    None = None
    Empty = Empty
    Mixed = Mixed
PROPERTIES
    CreatesAreShown
INVARIANTS
    ShownProgressIsReal
