------------------------------ MODULE JobQueue ------------------------------
(***************************************************************************)
(* The Postgres job queue (packages/db, PgQueue) and the worker processes  *)
(* that drain it (apps/worker, loop.ts and run-job.ts).                    *)
(*                                                                         *)
(* A worker claims the oldest claimable row, runs one stage of the job     *)
(* (here: one step with any outcome its handler can report), and reports   *)
(* the outcome in a transaction that first SELECTs the row to check that   *)
(* the worker still holds the lock and then UPDATEs it by id alone.  The   *)
(* SELECT takes no row lock, so another worker may claim a row whose lock  *)
(* has become stale between the two.                                       *)
(***************************************************************************)
EXTENDS JobStages

CONSTANTS
    Worker,       \* worker ids (WORKER_ID)
    NoWorker,     \* locked_by IS NULL
    Job,          \* jobs, numbered in the order of created_at
    EnqueuedTypes, \* the types of the jobs that are enqueued
    SlowJobs,     \* the jobs a live worker may run for longer than staleLockMs
    MaxAttempts,  \* WORKER_MAX_ATTEMPTS
    AttemptCap    \* bound: attempts are not counted beyond this

NoJob == 0

ASSUME JobAssumption     == Job \subseteq Nat \ {NoJob} /\ SlowJobs \subseteq Job
ASSUME TypesAssumption   == EnqueuedTypes \subseteq JobTypes
ASSUME WorkerAssumption  == NoWorker \notin Worker
ASSUME AttemptAssumption ==
    /\ MaxAttempts \in Nat \ {0}
    /\ AttemptCap \in Nat
    /\ MaxAttempts <= AttemptCap /\ 5 <= AttemptCap

VARIABLES
    \* columns of the jobs table
    stage, type, attempts, lockedBy,
    stale,      \* locked_at is older than staleLockMs
    lastEvent,  \* the newest row of status_events for the job
    \* worker processes
    pc,         \* where the worker's loop is
    held,       \* the job it claimed
    ran,        \* the stage that job was at when it was claimed
    outcome,    \* what the handler asked for
    seen        \* the row its reporting transaction has SELECTed

jobVars    == <<stage, type, attempts, lockedBy, stale, lastEvent>>
workerVars == <<pc, held, ran, outcome, seen>>
vars       == <<stage, type, attempts, lockedBy, stale, lastEvent,
                pc, held, ran, outcome, seen>>

\* "doubting": the report is committed, but its COMMIT was not answered.
\* "exited": the loop rejected, the process set exit code 1.  A process that is
\* down has not claimed anything yet, as an idle one.
Pcs      == {"idle", "running", "reporting", "writing", "doubting", "exited"}
Outcomes == {"none", "advance", "retry", "fail", "thrown", "unanswered", "refused"}
Rows     == [stage : Stages, attempts : 0..AttemptCap]
NoRow    == [stage |-> "none", attempts |-> 0]
NoEvent  == [step |-> "none", status |-> "none"]
Overtaken == [step |-> "none", status |-> "overtaken"]

Busy(w)    == pc[w] \in {"running", "reporting", "writing"}
Runs(w, j) == Busy(w) /\ held[w] = j

TypeOK ==
    /\ stage     \in [Job -> Stages]
    /\ type      \in [Job -> JobTypes \cup {"none"}]
    /\ attempts  \in [Job -> 0..AttemptCap]
    /\ lockedBy  \in [Job -> Worker \cup {NoWorker}]
    /\ stale     \in [Job -> BOOLEAN]
    /\ lastEvent \in [Job -> [step : Stages,
                              status : {"none", "completed", "retrying", "failed",
                                        "overtaken"}]]
    /\ pc        \in [Worker -> Pcs]
    /\ held      \in [Worker -> Job \cup {NoJob}]
    /\ ran       \in [Worker -> Stages]
    /\ outcome   \in [Worker -> Outcomes]
    /\ seen      \in [Worker -> Rows]

Init ==
    /\ stage     = [j \in Job |-> "none"]
    /\ type      = [j \in Job |-> "none"]
    /\ attempts  = [j \in Job |-> 0]
    /\ lockedBy  = [j \in Job |-> NoWorker]
    /\ stale     = [j \in Job |-> FALSE]
    /\ lastEvent = [j \in Job |-> NoEvent]
    /\ pc        = [w \in Worker |-> "idle"]
    /\ held      = [w \in Worker |-> NoJob]
    /\ ran       = [w \in Worker |-> "none"]
    /\ outcome   = [w \in Worker |-> "none"]
    /\ seen      = [w \in Worker |-> NoRow]

-----------------------------------------------------------------------------
(* The queue *)

Enqueue(j, t) ==
    /\ stage[j] = "none"
    /\ \A k \in Job : k < j => stage[k] # "none"
    /\ stage' = [stage EXCEPT ![j] = "queued"]
    /\ type'  = [type EXCEPT ![j] = t]
    /\ UNCHANGED <<attempts, lockedBy, stale, lastEvent, workerVars>>

\* locked_at falls behind now() - staleLockMs.
LockExpires(j) ==
    /\ lockedBy[j] # NoWorker
    /\ ~stale[j]
    /\ j \in SlowJobs \/ ~Runs(lockedBy[j], j)
    /\ stale' = [stale EXCEPT ![j] = TRUE]
    /\ UNCHANGED <<stage, type, attempts, lockedBy, lastEvent, workerVars>>

\* Mutant: claim forgets to look at locked_at.
ClaimableIgnoringLock(j) == stage[j] \in WorkStages

\* Mutant: claim never reclaims the lock of a worker that went away.
ClaimableNeverReclaiming(j) ==
    stage[j] \in WorkStages /\ lockedBy[j] = NoWorker

Claimable(j) ==
    /\ stage[j] \in WorkStages
    /\ lockedBy[j] = NoWorker \/ stale[j]

\* SKIP LOCKED passes over a row a reporting transaction may be updating.
RowMayBeLocked(j) == \E w \in Worker : pc[w] = "writing" /\ held[w] = j

\* The claiming UPDATE, which takes effect as a whole.
TakeLock(w, j) ==
    /\ Claimable(j)
    /\ \A k \in Job : k < j /\ Claimable(k) => RowMayBeLocked(k)
    /\ lockedBy' = [lockedBy EXCEPT ![j] = w]
    /\ stale'    = [stale EXCEPT ![j] = FALSE]
    /\ attempts' = [attempts EXCEPT ![j] = IF @ < AttemptCap THEN @ + 1 ELSE @]
    /\ UNCHANGED <<stage, type, lastEvent>>

Claim(w, j) ==
    /\ pc[w] = "idle"
    /\ TakeLock(w, j)
    /\ pc'   = [pc EXCEPT ![w] = "running"]
    /\ held' = [held EXCEPT ![w] = j]
    /\ ran'  = [ran EXCEPT ![w] = stage[j]]
    /\ UNCHANGED <<outcome, seen>>

\* claim is not inside the loop's try block: if the database refuses the UPDATE
\* or its answer is lost, the loop rejects.
ClaimErrors(w) ==
    /\ pc[w] = "idle"
    /\ UNCHANGED jobVars \/ \E j \in Job : TakeLock(w, j)
    /\ pc'      = [pc EXCEPT ![w] = "exited"]
    /\ outcome' = [outcome EXCEPT ![w] = "refused"]
    /\ UNCHANGED <<held, ran, seen>>

-----------------------------------------------------------------------------
(* One claimed job: run its stage, report the outcome *)

Handle(w, o) ==
    /\ pc[w] = "running"
    /\ o \in HandlerOutcomes(type[held[w]], ran[w])
    /\ pc'      = [pc EXCEPT ![w] = "reporting"]
    /\ outcome' = [outcome EXCEPT ![w] = o]
    /\ UNCHANGED <<jobVars, held, ran, seen>>

\* The report is the one of the catch block, which follows one that failed or a
\* handler that threw, and is not inside the try block itself.
LastReport(w) == outcome[w] \in {"thrown", "unanswered"}

AssertLockOwned(w) ==
    /\ pc[w] \in {"reporting", "doubting"}
    /\ lockedBy[held[w]] = w
    /\ pc'   = [pc EXCEPT ![w] = "writing"]
    /\ seen' = [seen EXCEPT ![w] = [stage    |-> stage[held[w]],
                                    attempts |-> attempts[held[w]]]]
    /\ UNCHANGED <<jobVars, held, ran, outcome>>

\* The report throws because the lock is gone.  The first time, the loop
\* catches it and reports a retryable failure instead; when that report throws
\* too the loop rejects.
AssertLockLost(w) ==
    /\ pc[w] \in {"reporting", "doubting"}
    /\ lockedBy[held[w]] # w
    /\ IF LastReport(w)
       THEN pc' = [pc EXCEPT ![w] = "exited"] /\ UNCHANGED outcome
       ELSE outcome' = [outcome EXCEPT ![w] = "thrown"] /\ UNCHANGED pc
    /\ ran' = [ran EXCEPT ![w] = IF pc'[w] = "exited" THEN "none" ELSE @]
    /\ UNCHANGED <<jobVars, held, seen>>

BackToIdle(w) ==
    /\ pc'      = [pc EXCEPT ![w] = "idle"]
    /\ held'    = [held EXCEPT ![w] = NoJob]
    /\ ran'     = [ran EXCEPT ![w] = "none"]
    /\ outcome' = [outcome EXCEPT ![w] = "none"]
    /\ seen'    = [seen EXCEPT ![w] = NoRow]

\* Mutant: attempts start again at every stage.
AdvanceStageResettingAttempts(j, s) ==
    /\ stage'    = [stage EXCEPT ![j] = s]
    /\ lockedBy' = [lockedBy EXCEPT ![j] = NoWorker]
    /\ stale'    = [stale EXCEPT ![j] = FALSE]
    /\ attempts' = [attempts EXCEPT ![j] = 0]
    /\ UNCHANGED type

\* Mutant: releaseLock is not passed on.
AdvanceStageKeepingLock(j, s) ==
    /\ stage' = [stage EXCEPT ![j] = s]
    /\ UNCHANGED <<type, attempts, lockedBy, stale>>

\* advanceStage with releaseLock: an UPDATE by id, whoever holds the lock now.
AdvanceStage(j, s) ==
    /\ stage'    = [stage EXCEPT ![j] = s]
    /\ lockedBy' = [lockedBy EXCEPT ![j] = NoWorker]
    /\ stale'    = [stale EXCEPT ![j] = FALSE]
    /\ UNCHANGED <<type, attempts>>

\* Mutant: the event is left out of the transaction.
AppendNoStatusEvent(w, j, step, status) == UNCHANGED lastEvent

\* Events are read in the order of their at, the time at which the transaction
\* that wrote them began.  While w holds the lock its event is the newest.  If
\* another worker has claimed the job since, it may have begun a later
\* transaction and committed it first: either's event may then be the newest.
AppendStatusEvent(w, j, step, status) ==
    lastEvent' = [lastEvent EXCEPT ![j] =
        IF lockedBy[j] = w THEN [step |-> step, status |-> status] ELSE Overtaken]

\* The statements of complete, with its COMMIT.
Completed(w) ==
    LET j    == held[w]
        next == NextStage(type[j], ran[w])
    IN  /\ pc[w] = "writing"
        /\ outcome[w] = "advance"
        /\ AdvanceStage(j, next)
        /\ AppendStatusEvent(w, j, next, "completed")

IsTerminal(w) == outcome[w] = "fail" \/ seen[w].attempts >= MaxAttempts

\* The statements of fail, with its COMMIT.
Failed(w) ==
    LET j == held[w]
    IN  /\ pc[w] = "writing"
        /\ outcome[w] # "advance"
        /\ AdvanceStage(j, IF IsTerminal(w) THEN "failed" ELSE seen[w].stage)
        /\ AppendStatusEvent(w, j, seen[w].stage,
                             IF IsTerminal(w) THEN "failed" ELSE "retrying")

Complete(w) == Completed(w) /\ BackToIdle(w)

Fail(w) == Failed(w) /\ BackToIdle(w)

\* The COMMIT takes effect and its answer is lost.  withTransaction throws, and
\* the catch block reports once more, or the loop rejects if that was its report.
CommitUnanswered(w) ==
    /\ Completed(w) \/ Failed(w)
    /\ pc'      = [pc EXCEPT ![w] = IF LastReport(w) THEN "exited" ELSE "doubting"]
    /\ outcome' = [outcome EXCEPT ![w] = "unanswered"]
    /\ ran'     = [ran EXCEPT ![w] = "none"]
    /\ seen'    = [seen EXCEPT ![w] = NoRow]
    /\ UNCHANGED held

\* The database refuses a statement of the report, which rolls back.  The loop
\* catches the first report's error and reports again ...
ReportErrors(w) ==
    /\ pc[w] \in {"reporting", "writing"}
    /\ ~LastReport(w)
    /\ pc'      = [pc EXCEPT ![w] = "reporting"]
    /\ outcome' = [outcome EXCEPT ![w] = "thrown"]
    /\ seen'    = [seen EXCEPT ![w] = NoRow]
    /\ UNCHANGED <<jobVars, held, ran>>

\* ... and rejects over the last one's.
LastReportErrors(w) ==
    /\ pc[w] \in {"reporting", "writing", "doubting"}
    /\ LastReport(w)
    /\ pc'      = [pc EXCEPT ![w] = "exited"]
    /\ held'    = [held EXCEPT ![w] = NoJob]
    /\ outcome' = [outcome EXCEPT ![w] = "refused"]
    /\ ran'     = [ran EXCEPT ![w] = "none"]
    /\ seen'    = [seen EXCEPT ![w] = NoRow]
    /\ UNCHANGED jobVars

-----------------------------------------------------------------------------
(* Processes *)

\* A kill, or an exception outside the loop's promises: an open transaction
\* rolls back and the row stays locked.  docker's restart policy brings the
\* worker back, with the same WORKER_ID.
Crash(w) ==
    /\ pc[w] \notin {"idle", "exited"}
    /\ BackToIdle(w)
    /\ UNCHANGED jobVars

\* The same policy, after an exit.
Restart(w) ==
    /\ pc[w] = "exited"
    /\ BackToIdle(w)
    /\ UNCHANGED jobVars

Work(w) ==
    \/ \E j \in Job : Claim(w, j)
    \/ \E o \in Outcomes : Handle(w, o)
    \/ AssertLockOwned(w)
    \/ AssertLockLost(w)
    \/ Complete(w)
    \/ Fail(w)

Next ==
    \/ \E j \in Job, t \in EnqueuedTypes : Enqueue(j, t)
    \/ \E j \in Job : LockExpires(j)
    \/ \E w \in Worker : Work(w) \/ ClaimErrors(w) \/ ReportErrors(w) \/ LastReportErrors(w)
                        \/ CommitUnanswered(w) \/ Crash(w) \/ Restart(w)

Spec == Init /\ [][Next]_vars

\* Every worker loop keeps going, a dead process is restarted, and time passes
\* for a lock nobody is going to release.
Fairness ==
    /\ \A w \in Worker : WF_vars(Work(w)) /\ WF_vars(Restart(w))
    /\ \A j \in Job : WF_vars(LockExpires(j))

FairSpec == Spec /\ Fairness

-----------------------------------------------------------------------------
(* Properties *)

\* A worker that still owns the lock of the job it runs finds the row at the
\* stage it claimed, even if the lock went stale meanwhile: whatever another
\* worker did to the row took the lock away.  So a report whose lock check
\* passes has read the stage it is about, and one that has been committed
\* without an answer is not applied again.
OwnedRowAsClaimed ==
    \A w \in Worker :
        /\ Busy(w) =>
               /\ held[w] \in Job
               /\ ran[w] \in WorkStages
               /\ stage[held[w]] # "none"
               /\ lockedBy[held[w]] = w => stage[held[w]] = ran[w]
               /\ pc[w] = "writing" =>
                      /\ seen[w].stage = ran[w]
                      /\ seen[w].attempts <= attempts[held[w]]
        /\ pc[w] = "doubting" => held[w] \in Job /\ lockedBy[held[w]] # w

\* While a worker runs a job whose stages all fit in staleLockMs, it holds the
\* lock, and the row is as it was when the worker claimed it: no other worker
\* runs the job, and nothing the worker reports overwrites other progress.
ExclusiveRun ==
    \A w \in Worker :
        Busy(w) /\ held[w] \notin SlowJobs =>
            /\ lockedBy[held[w]] = w
            /\ ~stale[held[w]]
            /\ stage[held[w]] = ran[w]
            /\ pc[w] = "writing" => seen[w].attempts = attempts[held[w]]

\* claim counts an attempt for every stage and nothing resets them, so a job
\* is never past a stage it has not spent an attempt on, and one more is spent
\* while a stage runs.  With the default of 5 attempts a run of the deploying
\* stage has none left, however smoothly the job came so far.
AttemptsCoverStages ==
    /\ \A j \in Job : attempts[j] >= Rank(stage[j])
    /\ \A w \in Worker :
           /\ Busy(w) => attempts[held[w]] >= Rank(ran[w]) + 1
           /\ pc[w] = "writing" => seen[w].attempts >= Rank(ran[w]) + 1

\* A finished job is never locked, even when a worker that lost it writes
\* last: it could otherwise sit locked for ever, since claim passes over it.
FinishedUnlocked ==
    \A j \in Job : stage[j] \in Terminal => lockedBy[j] = NoWorker

\* The newest status event tells where the job is, through crashes, retries and
\* answers that are lost: the dashboard derives its pipeline view from both.  Only
\* a job that can outlast its lock may be written last by a worker whose event is
\* not the newest, and the next report of an owner sets that right.
EventMatchesStage ==
    \A j \in Job :
        CASE lastEvent[j].status = "completed" -> stage[j] = lastEvent[j].step
          [] lastEvent[j].status = "retrying"  -> stage[j] = lastEvent[j].step
          [] lastEvent[j].status = "failed"    -> stage[j] = "failed"
          [] lastEvent[j].status = "overtaken" -> j \in SlowJobs
          [] OTHER                             -> stage[j] \in {"none", "queued"}

\* Nothing a handler does, returning or throwing, ends its worker: the loop
\* rejects only when the database refuses a claim or the last report, when the
\* answer of a claim or a COMMIT is lost, or over a job that can outlast its
\* lock.
ExitsHaveCause ==
    \A w \in Worker :
        pc[w] = "exited" =>
            held[w] \in SlowJobs \/ outcome[w] \in {"refused", "unanswered"}

\* For the jobs whose stages fit in staleLockMs the queue is JobLifecycle, no
\* matter how the workers that run them crash, restart and race on others.
Quick == Job \ SlowJobs

Lifecycle == INSTANCE JobLifecycle WITH
    Job     <- Quick,
    stage   <- [j \in Quick |-> stage[j]],
    type    <- [j \in Quick |-> type[j]],
    running <- [j \in Quick |-> \E w \in Worker : Runs(w, j)]

ImplementsLifecycle == Lifecycle!Spec

\* Provided that workers do not crash for ever and that the database does not
\* for ever make their loops reject, a time comes from which on every job that
\* was enqueued is active or failed for good.
FaultsStop == /\ <>[][\A w \in Worker : ~Crash(w)]_vars
              /\ <>[](\A w \in Worker : outcome[w] # "refused")

EveryJobSettles ==
    FaultsStop => <>[](\A j \in Job : stage[j] \in {"none"} \cup Terminal)
=============================================================================
