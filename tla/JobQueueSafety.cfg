SPECIFICATION Spec
CONSTANTS
    Worker = {w1, w2, w3}
    NoWorker = NoWorker
    Job = {1}
    EnqueuedTypes = {"create", "delete"}
    SlowJobs = {1}
    MaxAttempts = 3
    AttemptCap = 6
SYMMETRY WorkerSymmetry
INVARIANTS
    TypeOK
    OwnedRowAsClaimed
    AttemptsCoverStages
    FinishedUnlocked
    EventMatchesStage
