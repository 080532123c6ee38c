SPECIFICATION Spec
CONSTANTS
    Worker = {w1}
    NoWorker = NoWorker
    Job = {1, 2}
    EnqueuedTypes = {"create", "refine"}
    SlowJobs = {}
    MaxAttempts = 5
    AttemptCap = 5
    b1 = b1
    b2 = b2
    n1 = n1
    n2 = n2
    Body = {b1, b2}
    Name = {n1, n2}
    NameOf <- TwoNames
    Requests <- FirstThenSecond
    UserOf <- OneUser
    None = None
    Empty = Empty
    Mixed = Mixed
    u1 = u1
    u2 = u2
CHECK_DEADLOCK FALSE
INVARIANTS
    RefineDelivers
