SPECIFICATION FairSpec
CONSTANTS
    Worker = {w1, w2}
    NoWorker = NoWorker
    Job = {1, 2}
    EnqueuedTypes = {"create"}
    SlowJobs = {}
    MaxAttempts = 2
    AttemptCap = 5
INVARIANTS
    ExclusiveRun
    ExitsHaveCause
PROPERTIES
    EveryJobSettles
    ImplementsLifecycle
