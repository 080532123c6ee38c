SPECIFICATION Spec
CONSTANTS
    Worker = {w1, w2}
    NoWorker = NoWorker
    Job = {1, 2}
    EnqueuedTypes = {"create", "refine", "delete"}
    SlowJobs = {}
    MaxAttempts = 5
    AttemptCap = 5
    b1 = b1
    b2 = b2
    n1 = n1
    n2 = n2
    Body = {b1, b2}
    Name = {n1, n2}
    NameOf <- TwoNames
    Requests <- FirstThenSecond
    UserOf <- OneUser
    None = None
    Empty = Empty
    Mixed = Mixed
    u1 = u1
    u2 = u2
\* All jobs may have ended, and no worker is in one.
CHECK_DEADLOCK FALSE
INVARIANTS
    ActiveHasFile
    FilesFromOwnJobs
SYMMETRY WorkerSymmetry
