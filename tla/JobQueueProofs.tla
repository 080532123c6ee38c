--------------------------- MODULE JobQueueProofs ---------------------------
(***************************************************************************)
(* Proofs about JobQueue, for any set of workers and jobs, any number of   *)
(* attempts and any set of slow jobs.                                      *)
(***************************************************************************)
EXTENDS JobQueue, TLAPS

IInv ==
    /\ TypeOK
    /\ OwnedRowAsClaimed
    /\ ExclusiveRun
    /\ AttemptsCoverStages
    /\ FinishedUnlocked

\* A successful run leads to a stage that at most one more attempt pays for.
LEMMA NextStageRank ==
    ASSUME NEW t, NEW s \in WorkStages
    PROVE  /\ NextStage(t, s) \in Stages \ {"none"}
           /\ Rank(NextStage(t, s)) <= Rank(s) + 1
           /\ Rank(s) \in 0..4
BY DEF NextStage, Rank, Stages, WorkStages, Terminal

LEMMA RankRange == \A s : Rank(s) \in 0..4
BY DEF Rank

LEMMA NoRowIsRow == NoRow \in Rows
BY AttemptAssumption DEF NoRow, Rows, Stages

LEMMA InitIInv == Init => IInv
BY JobAssumption, WorkerAssumption, AttemptAssumption
   DEF Init, IInv, TypeOK, OwnedRowAsClaimed, ExclusiveRun, AttemptsCoverStages,
       FinishedUnlocked, Busy, Stages, JobTypes, Pcs, Outcomes, Rows, NoRow,
       NoEvent, WorkStages, Terminal, Rank

LEMMA EnqueueInv == ASSUME IInv, NEW j \in Job, NEW t \in EnqueuedTypes, Enqueue(j, t)
                    PROVE  IInv'
<1> USE DEF IInv, Busy
<1>1. TypeOK'
  BY TypesAssumption DEF TypeOK, Enqueue, workerVars, Stages, WorkStages
<1>2. OwnedRowAsClaimed'
  BY DEF TypeOK, OwnedRowAsClaimed, Enqueue, workerVars
<1>3. ExclusiveRun'
  BY DEF TypeOK, OwnedRowAsClaimed, ExclusiveRun, Enqueue, workerVars
<1>4. AttemptsCoverStages'
  BY DEF TypeOK, AttemptsCoverStages, Enqueue, workerVars, Rank
<1>5. FinishedUnlocked'
  BY DEF TypeOK, FinishedUnlocked, Enqueue, workerVars, Terminal
<1> QED BY <1>1, <1>2, <1>3, <1>4, <1>5

LEMMA LockExpiresInv == ASSUME IInv, NEW j \in Job, LockExpires(j)
                        PROVE  IInv'
<1> USE DEF IInv, Busy, LockExpires, workerVars
<1>1. TypeOK'
  BY DEF TypeOK
<1>2. OwnedRowAsClaimed'
  BY DEF TypeOK, OwnedRowAsClaimed
<1>3. ExclusiveRun'
  BY DEF TypeOK, ExclusiveRun, Runs
<1>4. AttemptsCoverStages'
  BY DEF AttemptsCoverStages
<1>5. FinishedUnlocked'
  BY DEF FinishedUnlocked
<1> QED BY <1>1, <1>2, <1>3, <1>4, <1>5

\* What the claiming UPDATE does to the rows, whether the worker hears of it and
\* runs the job or does not and exits.
LEMMA TakeLockInv ==
    ASSUME IInv, NEW w \in Worker, NEW j \in Job, pc[w] = "idle", TakeLock(w, j), TypeOK',
           \A v \in Worker \ {w} : /\ pc'[v] = pc[v] /\ held'[v] = held[v]
                                   /\ ran'[v] = ran[v] /\ seen'[v] = seen[v],
           pc'[w] \in {"running", "exited"},
           pc'[w] = "running" => held'[w] = j /\ ran'[w] = stage[j]
    PROVE  IInv'
<1> USE DEF IInv, Busy
<1>1. TypeOK'
  OBVIOUS
<1>a. attempts'[j] >= Rank(stage[j]) + 1 /\ \A k \in Job : attempts'[k] >= attempts[k]
  BY AttemptAssumption, RankRange DEF TypeOK, TakeLock, AttemptsCoverStages
<1>2. OwnedRowAsClaimed'
  <2>1. ASSUME NEW v \in Worker, Busy(v)'
        PROVE  /\ held'[v] \in Job
               /\ ran'[v] \in WorkStages
               /\ stage'[held'[v]] # "none"
               /\ lockedBy'[held'[v]] = v => stage'[held'[v]] = ran'[v]
               /\ pc'[v] = "writing" =>
                      /\ seen'[v].stage = ran'[v]
                      /\ seen'[v].attempts <= attempts'[held'[v]]
    <3>1. CASE v = w
      <4>1. pc'[w] = "running" /\ held'[w] = j /\ ran'[w] = stage[j]
        BY <2>1, <3>1
      <4>2. stage' = stage /\ stage[j] \in WorkStages
        BY DEF TakeLock, Claimable
      <4> QED BY <3>1, <4>1, <4>2 DEF WorkStages
    <3>2. CASE v # w
      <4>1. /\ Busy(v) /\ held'[v] = held[v] /\ ran'[v] = ran[v]
            /\ pc'[v] = pc[v] /\ seen'[v] = seen[v] /\ stage' = stage
        BY <2>1, <3>2 DEF TypeOK, TakeLock
      <4>2. lockedBy'[held[v]] = v => lockedBy[held[v]] = v
        BY <3>2, <4>1 DEF TypeOK, TakeLock, OwnedRowAsClaimed
      <4>3. pc[v] = "writing" => seen[v].attempts <= attempts'[held[v]]
        <5> SUFFICES ASSUME pc[v] = "writing" PROVE seen[v].attempts <= attempts'[held[v]]
          OBVIOUS
        <5>1. held[v] \in Job /\ seen[v].attempts <= attempts[held[v]]
          BY <4>1 DEF OwnedRowAsClaimed
        <5>2. /\ seen[v].attempts \in Nat /\ attempts[held[v]] \in Nat
              /\ attempts'[held[v]] \in Nat
          BY <1>1, <5>1 DEF TypeOK, Rows
        <5> QED BY <5>1, <5>2, <1>a
      <4> QED BY <4>1, <4>2, <4>3 DEF OwnedRowAsClaimed
    <3> QED BY <3>1, <3>2
  <2>2. ASSUME NEW v \in Worker, pc'[v] = "doubting"
        PROVE  held'[v] \in Job /\ lockedBy'[held'[v]] # v
    <3>1. v # w /\ pc[v] = "doubting" /\ held'[v] = held[v]
      BY <2>2
    <3>2. held[v] \in Job /\ lockedBy[held[v]] # v
      BY <3>1 DEF OwnedRowAsClaimed
    <3> QED BY <3>1, <3>2 DEF TypeOK, TakeLock
  <2> QED BY <2>1, <2>2 DEF OwnedRowAsClaimed
<1>3. ExclusiveRun'
  <2> SUFFICES ASSUME NEW v \in Worker, Busy(v)', held'[v] \notin SlowJobs
               PROVE  /\ lockedBy'[held'[v]] = v
                      /\ ~stale'[held'[v]]
                      /\ stage'[held'[v]] = ran'[v]
                      /\ pc'[v] = "writing" => seen'[v].attempts = attempts'[held'[v]]
    BY DEF ExclusiveRun
  <2>1. CASE v = w
    BY <2>1 DEF TypeOK, TakeLock
  <2>2. CASE v # w
    <3>1. Busy(v) /\ held[v] \notin SlowJobs /\ held'[v] = held[v] /\ held[v] \in Job
      BY <2>2 DEF OwnedRowAsClaimed
    <3>2. held[v] # j
      BY <3>1, WorkerAssumption DEF ExclusiveRun, TakeLock, Claimable
    <3> QED BY <2>2, <3>1, <3>2 DEF TypeOK, TakeLock, ExclusiveRun
  <2> QED BY <2>1, <2>2
<1>4. AttemptsCoverStages'
  <2>1. \A k \in Job : attempts'[k] >= Rank(stage'[k])
    BY <1>1, <1>a, RankRange DEF TypeOK, AttemptsCoverStages, TakeLock
  <2>2. ASSUME NEW v \in Worker, Busy(v)'
        PROVE  attempts'[held'[v]] >= Rank(ran'[v]) + 1
    <3>1. CASE v = w
      <4>1. held'[w] = j /\ ran'[w] = stage[j]
        BY <2>2, <3>1
      <4> QED BY <3>1, <4>1, <1>a
    <3>2. CASE v # w
      <4>1. Busy(v) /\ held'[v] = held[v] /\ ran'[v] = ran[v] /\ held[v] \in Job
        BY <2>2, <3>2 DEF OwnedRowAsClaimed
      <4>2. attempts[held[v]] >= Rank(ran[v]) + 1
        BY <4>1 DEF AttemptsCoverStages
      <4>3. attempts[held[v]] \in Nat /\ attempts'[held[v]] \in Nat
        BY <1>1, <4>1 DEF TypeOK
      <4> QED BY <4>1, <4>2, <4>3, <1>a, RankRange
    <3> QED BY <3>1, <3>2
  <2>3. ASSUME NEW v \in Worker, pc'[v] = "writing"
        PROVE  seen'[v].attempts >= Rank(ran'[v]) + 1
    BY <2>3 DEF AttemptsCoverStages
  <2> QED BY <2>1, <2>2, <2>3 DEF AttemptsCoverStages
<1>5. FinishedUnlocked'
  BY DEF TypeOK, FinishedUnlocked, TakeLock, Claimable, Terminal, WorkStages
<1> QED BY <1>1, <1>2, <1>3, <1>4, <1>5

LEMMA ClaimInv == ASSUME IInv, NEW w \in Worker, NEW j \in Job, Claim(w, j)
                  PROVE  IInv'
<1>1. TypeOK'
  BY AttemptAssumption DEF IInv, TypeOK, Claim, TakeLock, Pcs
<1>2. /\ pc[w] = "idle" /\ pc'[w] = "running" /\ held'[w] = j /\ ran'[w] = stage[j]
      /\ TakeLock(w, j)
      /\ \A v \in Worker \ {w} : /\ pc'[v] = pc[v] /\ held'[v] = held[v]
                                  /\ ran'[v] = ran[v] /\ seen'[v] = seen[v]
  BY DEF IInv, TypeOK, Claim
<1> QED BY <1>1, <1>2, TakeLockInv

LEMMA HandleInv == ASSUME IInv, NEW w \in Worker, NEW o \in Outcomes, Handle(w, o)
                   PROVE  IInv'
<1> USE DEF IInv, Busy, Handle, jobVars
<1>1. TypeOK'
  BY DEF TypeOK, Pcs
<1>2. OwnedRowAsClaimed'
  BY DEF TypeOK, OwnedRowAsClaimed
<1>3. ExclusiveRun'
  BY DEF TypeOK, ExclusiveRun
<1>4. AttemptsCoverStages'
  BY DEF TypeOK, AttemptsCoverStages
<1>5. FinishedUnlocked'
  BY DEF FinishedUnlocked
<1> QED BY <1>1, <1>2, <1>3, <1>4, <1>5

\* The lock of a committed report is gone, so that its lock check fails.
LEMMA OwnersDoNotDoubt ==
    ASSUME IInv, NEW w \in Worker, AssertLockOwned(w)
    PROVE  pc[w] = "reporting"
BY DEF IInv, OwnedRowAsClaimed, AssertLockOwned

LEMMA AssertLockOwnedInv == ASSUME IInv, NEW w \in Worker, AssertLockOwned(w)
                            PROVE  IInv'
<1> USE DEF IInv, Busy, AssertLockOwned, jobVars
<1>0. pc[w] = "reporting"
  BY OwnersDoNotDoubt
<1>1. TypeOK'
  BY <1>0 DEF TypeOK, Pcs, Rows, OwnedRowAsClaimed
<1>2. OwnedRowAsClaimed'
  BY <1>0 DEF TypeOK, OwnedRowAsClaimed
<1>3. ExclusiveRun'
  BY <1>0 DEF TypeOK, ExclusiveRun
<1>4. AttemptsCoverStages'
  BY <1>0 DEF TypeOK, AttemptsCoverStages, OwnedRowAsClaimed
<1>5. FinishedUnlocked'
  BY DEF FinishedUnlocked
<1> QED BY <1>1, <1>2, <1>3, <1>4, <1>5

LEMMA AssertLockLostInv == ASSUME IInv, NEW w \in Worker, AssertLockLost(w)
                           PROVE  IInv'
<1> USE DEF IInv, Busy, AssertLockLost, jobVars
<1>1. TypeOK'
  <2>1. ran' \in [Worker -> Stages]
    BY DEF TypeOK, Stages
  <2>2. pc' \in [Worker -> Pcs] /\ outcome' \in [Worker -> Outcomes]
    BY DEF TypeOK, Pcs, Outcomes
  <2> QED BY <2>1, <2>2 DEF TypeOK
<1>2. OwnedRowAsClaimed'
  BY DEF TypeOK, OwnedRowAsClaimed
<1>3. ExclusiveRun'
  BY DEF TypeOK, ExclusiveRun
<1>4. AttemptsCoverStages'
  BY DEF TypeOK, AttemptsCoverStages
<1>5. FinishedUnlocked'
  BY DEF FinishedUnlocked
<1> QED BY <1>1, <1>2, <1>3, <1>4, <1>5

\* Both reports end in the same UPDATE by id: what it does to the row, whoever
\* holds the lock when it is executed, and whatever worker w does then, as long
\* as it is no longer busy with the job.
LEMMA ReportInv ==
    ASSUME IInv, NEW w \in Worker, pc[w] = "writing",
           NEW s \in Stages \ {"none"}, Rank(s) <= Rank(ran[w]) + 1,
           AdvanceStage(held[w], s), TypeOK', ~Busy(w)',
           pc'[w] = "doubting" => held'[w] = held[w],
           \A v \in Worker \ {w} : /\ pc'[v] = pc[v] /\ held'[v] = held[v]
                                   /\ ran'[v] = ran[v] /\ seen'[v] = seen[v]
    PROVE  IInv'
<1> USE DEF IInv, Busy, AdvanceStage
<1>1. held[w] \in Job /\ ran[w] \in WorkStages
  BY DEF OwnedRowAsClaimed
<1>2. OwnedRowAsClaimed'
  BY <1>1, WorkerAssumption DEF TypeOK, OwnedRowAsClaimed
<1>3. ExclusiveRun'
  <2> SUFFICES ASSUME NEW v \in Worker, Busy(v)', held'[v] \notin SlowJobs
               PROVE  /\ lockedBy'[held'[v]] = v
                      /\ ~stale'[held'[v]]
                      /\ stage'[held'[v]] = ran'[v]
                      /\ pc'[v] = "writing" => seen'[v].attempts = attempts'[held'[v]]
    BY DEF ExclusiveRun
  <2>1. v # w /\ Busy(v) /\ held'[v] = held[v] /\ ran'[v] = ran[v]
    OBVIOUS
  <2>2. held[w] \in Job /\ held[v] \in Job
    BY <1>1, <2>1 DEF OwnedRowAsClaimed
  <2>3. held[v] # held[w]
    BY <2>1, <2>2 DEF ExclusiveRun
  <2> QED BY <2>1, <2>2, <2>3 DEF TypeOK, ExclusiveRun
<1>4. AttemptsCoverStages'
  <2>1. attempts' = attempts /\ \A j \in Job : attempts[j] \in Nat
    BY DEF TypeOK
  <2>2. attempts[held[w]] >= Rank(s)
    BY <1>1, <2>1, RankRange DEF AttemptsCoverStages
  <2>3. \A j \in Job : attempts'[j] >= Rank(stage'[j])
    BY <1>1, <2>1, <2>2 DEF TypeOK, AttemptsCoverStages
  <2>4. ASSUME NEW v \in Worker
        PROVE  /\ Busy(v)' => attempts'[held'[v]] >= Rank(ran'[v]) + 1
               /\ pc'[v] = "writing" => seen'[v].attempts >= Rank(ran'[v]) + 1
    <3>1. CASE v = w
      BY <3>1
    <3>2. CASE v # w
      BY <2>1, <3>2 DEF AttemptsCoverStages
    <3> QED BY <3>1, <3>2
  <2> QED BY <2>3, <2>4 DEF AttemptsCoverStages
<1>5. FinishedUnlocked'
  BY <1>1 DEF TypeOK, FinishedUnlocked
<1> QED BY <1>2, <1>3, <1>4, <1>5

\* The worker's part of a report, answered or not.
Leaves(w) ==
    \/ BackToIdle(w)
    \/ /\ pc' = [pc EXCEPT ![w] = IF LastReport(w) THEN "exited" ELSE "doubting"]
       /\ outcome' = [outcome EXCEPT ![w] = "unanswered"]
       /\ ran' = [ran EXCEPT ![w] = "none"]
       /\ seen' = [seen EXCEPT ![w] = NoRow]
       /\ UNCHANGED held

LEMMA LeavesBusy ==
    ASSUME TypeOK, NEW w \in Worker, pc[w] = "writing", Leaves(w)
    PROVE  /\ ~Busy(w)'
           /\ pc'[w] = "doubting" => held'[w] = held[w]
           /\ \A v \in Worker \ {w} : /\ pc'[v] = pc[v] /\ held'[v] = held[v]
                                       /\ ran'[v] = ran[v] /\ seen'[v] = seen[v]
BY DEF Leaves, BackToIdle, Busy, TypeOK

\* What a report leaves in the tables and in the worker has its type.
LEMMA ReportTypes ==
    ASSUME TypeOK, NEW w \in Worker, pc[w] = "writing",
           NEW s \in Stages, AdvanceStage(held[w], s), Leaves(w),
           lastEvent' \in [Job -> [step : Stages,
                           status : {"none", "completed", "retrying", "failed", "overtaken"}]]
    PROVE  TypeOK'
<1> USE NoRowIsRow DEF TypeOK, AdvanceStage, Pcs, Outcomes
<1>1. CASE BackToIdle(w)
  BY <1>1 DEF BackToIdle, Stages
<1>2. CASE ~BackToIdle(w)
  <2>1. UNCHANGED held /\ ran' \in [Worker -> Stages]
    BY <1>2 DEF Leaves, Stages
  <2>2. pc' \in [Worker -> Pcs]
    BY <1>2 DEF Leaves
  <2>3. outcome' \in [Worker -> Outcomes]
    BY <1>2 DEF Leaves
  <2>4. seen' \in [Worker -> Rows]
    BY <1>2 DEF Leaves
  <2> QED BY <2>1, <2>2, <2>3, <2>4
<1> QED BY <1>1, <1>2

LEMMA CompletedInv == ASSUME IInv, NEW w \in Worker, Completed(w), Leaves(w)
                      PROVE  IInv'
<1> DEFINE next == NextStage(type[held[w]], ran[w])
<1>1. held[w] \in Job /\ ran[w] \in WorkStages
  BY DEF IInv, OwnedRowAsClaimed, Completed, Busy
<1>2. next \in Stages \ {"none"} /\ Rank(next) <= Rank(ran[w]) + 1
  BY <1>1, NextStageRank
<1>3. lastEvent' \in [Job -> [step : Stages,
                      status : {"none", "completed", "retrying", "failed", "overtaken"}]]
  BY <1>1, <1>2 DEF Completed, AppendStatusEvent, Overtaken, IInv, TypeOK, Stages
<1>4. pc[w] = "writing" /\ AdvanceStage(held[w], next) /\ TypeOK
  BY DEF Completed, IInv
<1> HIDE DEF next
<1>5. TypeOK'
  BY <1>2, <1>3, <1>4, ReportTypes
<1> QED BY <1>2, <1>4, <1>5, ReportInv, LeavesBusy

LEMMA FailedInv == ASSUME IInv, NEW w \in Worker, Failed(w), Leaves(w)
                   PROVE  IInv'
<1> DEFINE next == IF IsTerminal(w) THEN "failed" ELSE seen[w].stage
<1>1. held[w] \in Job /\ ran[w] \in WorkStages /\ seen[w].stage = ran[w]
  BY DEF IInv, OwnedRowAsClaimed, Failed, Busy
<1>2. next \in Stages \ {"none"} /\ Rank(next) <= Rank(ran[w]) + 1
  <2>1. CASE IsTerminal(w)
    BY <2>1, <1>1, NextStageRank DEF Stages, Terminal, Rank
  <2>2. CASE ~IsTerminal(w)
    BY <2>2, <1>1, NextStageRank DEF Stages, WorkStages
  <2> QED BY <2>1, <2>2
<1>3. lastEvent' \in [Job -> [step : Stages,
                      status : {"none", "completed", "retrying", "failed", "overtaken"}]]
  BY <1>1 DEF Failed, AppendStatusEvent, Overtaken, IInv, TypeOK, Stages, WorkStages
<1>4. pc[w] = "writing" /\ AdvanceStage(held[w], next) /\ TypeOK
  BY DEF Failed, IInv
<1> HIDE DEF next
<1>5. TypeOK'
  BY <1>2, <1>3, <1>4, ReportTypes
<1> QED BY <1>2, <1>4, <1>5, ReportInv, LeavesBusy

\* Every report, with an answer or without.
LEMMA ReportsInv ==
    ASSUME IInv, NEW w \in Worker, Complete(w) \/ Fail(w) \/ CommitUnanswered(w)
    PROVE  IInv'
BY CompletedInv, FailedInv DEF Complete, Fail, CommitUnanswered, Leaves

LEMMA ReportErrorsInv == ASSUME IInv, NEW w \in Worker, ReportErrors(w)
                         PROVE  IInv'
<1> USE DEF IInv, Busy, ReportErrors, jobVars
<1>1. TypeOK'
  BY NoRowIsRow DEF TypeOK, Pcs, Outcomes, Stages
<1>2. OwnedRowAsClaimed'
  BY DEF TypeOK, OwnedRowAsClaimed
<1>3. ExclusiveRun'
  BY DEF TypeOK, ExclusiveRun
<1>4. AttemptsCoverStages'
  BY DEF TypeOK, AttemptsCoverStages
<1>5. FinishedUnlocked'
  BY DEF FinishedUnlocked
<1> QED BY <1>1, <1>2, <1>3, <1>4, <1>5

\* A worker that stops, and one that comes back, leaves every row alone.
LEMMA StopInv ==
    ASSUME IInv, NEW w \in Worker, TypeOK', UNCHANGED jobVars, pc'[w] \in {"idle", "exited"},
           \A v \in Worker \ {w} : /\ pc'[v] = pc[v] /\ held'[v] = held[v]
                                   /\ ran'[v] = ran[v] /\ seen'[v] = seen[v]
    PROVE  IInv'
<1> USE DEF IInv, Busy, jobVars
<1>1. OwnedRowAsClaimed'
  BY DEF OwnedRowAsClaimed
<1>2. ExclusiveRun'
  BY DEF ExclusiveRun
<1>3. AttemptsCoverStages'
  BY DEF AttemptsCoverStages
<1>4. FinishedUnlocked'
  BY DEF FinishedUnlocked
<1> QED BY <1>1, <1>2, <1>3, <1>4

LEMMA ProcessInv ==
    ASSUME IInv, NEW w \in Worker, Crash(w) \/ Restart(w) \/ LastReportErrors(w)
    PROVE  IInv'
<1>1. TypeOK'
  <2>1. CASE Crash(w) \/ Restart(w)
    <3>1. BackToIdle(w) /\ UNCHANGED jobVars
      BY <2>1 DEF Crash, Restart
    <3>2. /\ "idle" \in Pcs /\ NoJob \in Job \cup {NoJob}
          /\ "none" \in Stages /\ "none" \in Outcomes
      BY DEF Pcs, Stages, Outcomes
    <3>3. /\ pc' \in [Worker -> Pcs] /\ held' \in [Worker -> Job \cup {NoJob}]
          /\ ran' \in [Worker -> Stages] /\ outcome' \in [Worker -> Outcomes]
          /\ seen' \in [Worker -> Rows]
      BY <3>1, <3>2, NoRowIsRow DEF BackToIdle, IInv, TypeOK
    <3> QED BY <3>1, <3>3 DEF jobVars, IInv, TypeOK
  <2>2. CASE LastReportErrors(w)
    BY <2>2, NoRowIsRow DEF LastReportErrors, jobVars, IInv, TypeOK, Pcs, Outcomes, Stages
  <2> QED BY <2>1, <2>2
<1>2. /\ UNCHANGED jobVars /\ pc'[w] \in {"idle", "exited"}
      /\ \A v \in Worker \ {w} : /\ pc'[v] = pc[v] /\ held'[v] = held[v]
                                  /\ ran'[v] = ran[v] /\ seen'[v] = seen[v]
  BY DEF Crash, Restart, LastReportErrors, BackToIdle, IInv, TypeOK
<1> QED BY <1>1, <1>2, StopInv

LEMMA ClaimErrorsInv == ASSUME IInv, NEW w \in Worker, ClaimErrors(w)
                        PROVE  IInv'
<1>1. /\ pc[w] = "idle" /\ pc'[w] = "exited"
      /\ \A v \in Worker \ {w} : /\ pc'[v] = pc[v] /\ held'[v] = held[v]
                                  /\ ran'[v] = ran[v] /\ seen'[v] = seen[v]
  BY DEF IInv, TypeOK, ClaimErrors
<1>2. /\ pc' \in [Worker -> Pcs] /\ outcome' \in [Worker -> Outcomes]
      /\ UNCHANGED <<held, ran, seen>>
  BY DEF IInv, TypeOK, ClaimErrors, Pcs, Outcomes
<1>3. CASE UNCHANGED jobVars
  <2>1. TypeOK'
    BY <1>2, <1>3 DEF IInv, TypeOK, jobVars
  <2> QED BY <1>1, <1>3, <2>1, StopInv
<1>4. ASSUME NEW j \in Job, TakeLock(w, j)
      PROVE  IInv'
  <2>1. TypeOK'
    BY <1>2, <1>4, AttemptAssumption DEF IInv, TypeOK, TakeLock
  <2> QED BY <1>1, <1>4, <2>1, TakeLockInv
<1> QED BY <1>3, <1>4 DEF ClaimErrors

LEMMA NextInv == IInv /\ [Next]_vars => IInv'
<1> SUFFICES ASSUME IInv, [Next]_vars
             PROVE  IInv'
  OBVIOUS
<1>1. CASE UNCHANGED vars
  BY <1>1 DEF vars, IInv, TypeOK, OwnedRowAsClaimed, ExclusiveRun,
              AttemptsCoverStages, FinishedUnlocked, Busy
<1>2. CASE \E j \in Job, t \in EnqueuedTypes : Enqueue(j, t)
  BY <1>2, EnqueueInv
<1>3. CASE \E j \in Job : LockExpires(j)
  BY <1>3, LockExpiresInv
<1>4. CASE \E w \in Worker : Work(w)
  BY <1>4, ClaimInv, HandleInv, AssertLockOwnedInv, AssertLockLostInv,
     ReportsInv DEF Work
<1>5. CASE \E w \in Worker :
          \/ ClaimErrors(w) \/ ReportErrors(w) \/ LastReportErrors(w)
          \/ CommitUnanswered(w) \/ Crash(w) \/ Restart(w)
  BY <1>5, ClaimErrorsInv, ReportErrorsInv, ReportsInv, ProcessInv
<1> QED BY <1>1, <1>2, <1>3, <1>4, <1>5 DEF Next

LEMMA SpecIInv == Spec => []IInv
BY InitIInv, NextInv, PTL DEF Spec

-----------------------------------------------------------------------------
(* Safety theorems *)

\* Types: jobs and workers stay within the states the columns and the loop have.
THEOREM TypeCorrect == Spec => []TypeOK
BY SpecIInv, PTL DEF IInv

\* A report whose lock check passed has read the stage the worker ran.
THEOREM OwnedRow == Spec => []OwnedRowAsClaimed
BY SpecIInv, PTL DEF IInv

\* Locks exclude: whatever happens to other jobs, a job whose stages fit in
\* staleLockMs is run by the worker that holds its lock and by no other.
THEOREM Exclusion == Spec => []ExclusiveRun
BY SpecIInv, PTL DEF IInv

\* attempts pays for every stage of the pipeline, not only for failed runs.
THEOREM AttemptsArePaid == Spec => []AttemptsCoverStages
BY SpecIInv, PTL DEF IInv

\* A finished job is unlocked, however late the last report came.
THEOREM FinishedJobsUnlocked == Spec => []FinishedUnlocked
BY SpecIInv, PTL DEF IInv

\* A worker only doubts a report that was committed without an answer.
DoubtsUnanswered ==
    \A w \in Worker : pc[w] = "doubting" => outcome[w] = "unanswered"

\* Nothing that a handler does ends its worker: the loop rejects over what the
\* database refused or did not answer, or over a job that may outlast its lock.
THEOREM ExitCause == Spec => []ExitsHaveCause
<1>1. Init => ExitsHaveCause /\ DoubtsUnanswered
  BY DEF Init, ExitsHaveCause, DoubtsUnanswered
<1>2. IInv /\ ExitsHaveCause /\ DoubtsUnanswered /\ [Next]_vars
        => ExitsHaveCause' /\ DoubtsUnanswered'
  <2> SUFFICES ASSUME IInv, ExitsHaveCause, DoubtsUnanswered, [Next]_vars, NEW v \in Worker
               PROVE  /\ pc'[v] = "exited" =>
                             held'[v] \in SlowJobs \/ outcome'[v] \in {"refused", "unanswered"}
                      /\ pc'[v] = "doubting" => outcome'[v] = "unanswered"
    BY DEF ExitsHaveCause, DoubtsUnanswered
  <2> USE DEF IInv, TypeOK, ExitsHaveCause, DoubtsUnanswered
  <2> DEFINE Goal == /\ pc'[v] = "exited" =>
                            held'[v] \in SlowJobs \/ outcome'[v] \in {"refused", "unanswered"}
                     /\ pc'[v] = "doubting" => outcome'[v] = "unanswered"
  <2>1. CASE UNCHANGED vars
    BY <2>1 DEF vars
  <2>2. CASE \E j \in Job, t \in EnqueuedTypes : Enqueue(j, t)
    BY <2>2 DEF Enqueue, workerVars
  <2>3. CASE \E j \in Job : LockExpires(j)
    BY <2>3 DEF LockExpires, workerVars
  <2>4. ASSUME NEW w \in Worker, Work(w)
        PROVE  Goal
    <3>1. CASE \E j \in Job : Claim(w, j)
      BY <3>1 DEF Claim
    <3>2. CASE \E o \in Outcomes : Handle(w, o)
      BY <3>2 DEF Handle
    <3>3. CASE AssertLockOwned(w)
      BY <3>3 DEF AssertLockOwned
    <3>4. CASE AssertLockLost(w)
      BY <3>4 DEF AssertLockLost, LastReport, ExclusiveRun, OwnedRowAsClaimed, Busy
    <3>5. CASE Complete(w)
      BY <3>5 DEF Complete, BackToIdle
    <3>6. CASE Fail(w)
      BY <3>6 DEF Fail, BackToIdle
    <3> QED BY <2>4, <3>1, <3>2, <3>3, <3>4, <3>5, <3>6 DEF Work
  <2>5. ASSUME NEW w \in Worker,
               \/ ClaimErrors(w) \/ ReportErrors(w) \/ LastReportErrors(w)
               \/ CommitUnanswered(w) \/ Crash(w) \/ Restart(w)
        PROVE  Goal
    BY <2>5 DEF ClaimErrors, ReportErrors, LastReportErrors, CommitUnanswered, Crash, Restart,
                BackToIdle
  <2> QED BY <2>1, <2>2, <2>3, <2>4, <2>5 DEF Next
<1> QED BY <1>1, <1>2, SpecIInv, PTL DEF Spec

\* No event is about a job that does not exist yet.
EventsNameStages ==
    \A j \in Job : lastEvent[j].status \in {"completed", "retrying"}
                        => lastEvent[j].step # "none"

\* A report of a worker that holds the lock writes the stage and the newest event
\* of its job together, as one says what the other does; another report can only
\* be of a slow job.
LEMMA ReportMatches ==
    ASSUME IInv, EventMatchesStage, EventsNameStages, NEW w \in Worker, pc[w] = "writing",
           NEW j \in Job, j = held[w],
           NEW s \in Stages \ {"none"}, NEW step \in Stages \ {"none"},
           NEW status \in {"completed", "retrying", "failed"},
           AdvanceStage(j, s), AppendStatusEvent(w, j, step, status),
           s = IF status = "failed" THEN "failed" ELSE step
    PROVE  EventMatchesStage' /\ EventsNameStages'
<1> USE DEF IInv, TypeOK, AdvanceStage, AppendStatusEvent
<1>1. /\ stage'[j] = s
      /\ lastEvent'[j] = IF lockedBy[j] = w THEN [step |-> step, status |-> status] ELSE Overtaken
      /\ \A k \in Job \ {j} : stage'[k] = stage[k] /\ lastEvent'[k] = lastEvent[k]
  OBVIOUS
<1>2. lockedBy[j] # w => j \in SlowJobs
  BY DEF ExclusiveRun, Busy
<1>3. EventMatchesStage'
  <2>1. CASE lockedBy[j] = w
    BY <1>1, <2>1 DEF EventMatchesStage
  <2>2. CASE lockedBy[j] # w
    BY <1>1, <1>2, <2>2 DEF EventMatchesStage, Overtaken
  <2> QED BY <2>1, <2>2
<1>4. EventsNameStages'
  BY <1>1 DEF EventsNameStages, Overtaken
<1> QED BY <1>3, <1>4

\* The newest status event and the stage of a job agree whenever a worker that
\* held the lock reported last, which for the jobs that are not slow is always.
THEOREM EventsTellStages == Spec => []EventMatchesStage
<1>1. Init => EventMatchesStage /\ EventsNameStages
  BY DEF Init, EventMatchesStage, EventsNameStages, NoEvent
<1>2. IInv /\ EventMatchesStage /\ EventsNameStages /\ [Next]_vars
        => EventMatchesStage' /\ EventsNameStages'
  <2> SUFFICES ASSUME IInv, EventMatchesStage, EventsNameStages, [Next]_vars
               PROVE  EventMatchesStage' /\ EventsNameStages'
    OBVIOUS
  <2>1. CASE UNCHANGED <<stage, lastEvent>>
    BY <2>1 DEF EventMatchesStage, EventsNameStages
  <2>2. ASSUME NEW j \in Job, NEW t \in EnqueuedTypes, Enqueue(j, t)
        PROVE  EventMatchesStage' /\ EventsNameStages'
    <3>1. /\ stage[j] = "none" /\ stage'[j] = "queued" /\ lastEvent' = lastEvent
          /\ \A k \in Job \ {j} : stage'[k] = stage[k]
      BY <2>2 DEF Enqueue, IInv, TypeOK
    <3>2. lastEvent[j].status \notin {"completed", "retrying", "failed"}
      BY <3>1 DEF EventMatchesStage, EventsNameStages
    <3> QED BY <3>1, <3>2 DEF EventMatchesStage, EventsNameStages
  <2>3. ASSUME NEW w \in Worker, Completed(w)
        PROVE  EventMatchesStage' /\ EventsNameStages'
    <3> DEFINE next == NextStage(type[held[w]], ran[w])
    <3>1. held[w] \in Job /\ ran[w] \in WorkStages
      BY <2>3 DEF IInv, OwnedRowAsClaimed, Completed, Busy
    <3>2. next \in Stages \ {"none"}
      BY <3>1, NextStageRank
    <3>3. AdvanceStage(held[w], next) /\ AppendStatusEvent(w, held[w], next, "completed") /\ pc[w] = "writing"
      BY <2>3 DEF Completed
    <3> HIDE DEF next
    <3> QED BY <3>1, <3>2, <3>3, ReportMatches
  <2>4. ASSUME NEW w \in Worker, Failed(w)
        PROVE  EventMatchesStage' /\ EventsNameStages'
    <3>1. held[w] \in Job /\ ran[w] \in WorkStages /\ seen[w].stage = ran[w]
      BY <2>4 DEF IInv, OwnedRowAsClaimed, Failed, Busy
    <3>2. ran[w] \in Stages \ {"none"} /\ "failed" \in Stages \ {"none"}
      BY <3>1 DEF Stages, WorkStages, Terminal
    <3>3. CASE IsTerminal(w)
      BY <2>4, <3>1, <3>2, <3>3, ReportMatches DEF Failed
    <3>4. CASE ~IsTerminal(w)
      BY <2>4, <3>1, <3>2, <3>4, ReportMatches DEF Failed
    <3> QED BY <3>3, <3>4
  <2> QED BY <2>1, <2>2, <2>3, <2>4
          DEF Next, Work, vars, jobVars, LockExpires, Claim, Handle, AssertLockOwned,
              AssertLockLost, Complete, Fail, CommitUnanswered, ClaimErrors, TakeLock, ReportErrors,
              LastReportErrors, Crash, Restart
<1> QED BY <1>1, <1>2, SpecIInv, PTL DEF Spec

-----------------------------------------------------------------------------
(* The queue implements JobLifecycle for the jobs that are not slow.  The   *)
(* mapping takes a job to be running while a worker runs it.                *)

IsRun(j) == \E w \in Worker : Runs(w, j)

\* A step that changes no quick job's stage, type or run is a stutter.
LEMMA StutterStep ==
    ASSUME \A j \in Quick : /\ stage'[j] = stage[j]
                            /\ type'[j] = type[j]
                            /\ IsRun(j)' <=> IsRun(j)
    PROVE  UNCHANGED Lifecycle!vars
BY DEF Lifecycle!vars, IsRun

\* A worker that runs a quick job is the only one that does.
LEMMA OnlyRunner ==
    ASSUME IInv, NEW j \in Quick, NEW v \in Worker, NEW w \in Worker,
           Runs(v, j), Runs(w, j)
    PROVE  v = w
BY DEF IInv, ExclusiveRun, Runs, Quick

LEMMA RunIsBoolean == \A j : IsRun(j) \in BOOLEAN /\ IsRun(j)' \in BOOLEAN
BY DEF IsRun

LEMMA StartStep ==
    ASSUME IInv, NEW w \in Worker, NEW j \in Job, Claim(w, j)
    PROVE  [Lifecycle!Next]_(Lifecycle!vars)
<1>1. stage' = stage /\ type' = type
  BY DEF Claim, TakeLock
<1>2. \A k \in Job \ {j} : IsRun(k)' <=> IsRun(k)
  BY DEF IsRun, Runs, Busy, Claim, IInv, TypeOK
<1>3. CASE j \in SlowJobs
  BY <1>1, <1>2, <1>3, StutterStep DEF Quick
<1>4. CASE j \notin SlowJobs
  <2>1. ~IsRun(j)
    BY <1>4, WorkerAssumption
       DEF IsRun, Runs, IInv, ExclusiveRun, Claim, TakeLock, Claimable, TypeOK
  <2>2. IsRun(j)'
    BY DEF IsRun, Runs, Busy, Claim, IInv, TypeOK
  <2>3. Lifecycle!Start(j)
    <3>1. j \in Quick /\ stage[j] \in WorkStages
      BY <1>4 DEF Quick, Claim, TakeLock, Claimable
    <3>2. [k \in Quick |-> IsRun(k)'] = [[k \in Quick |-> IsRun(k)] EXCEPT ![j] = TRUE]
      <4>1. IsRun(j)' = TRUE /\ \A k \in Job \ {j} : IsRun(k)' = IsRun(k)
        BY <1>2, <2>2, RunIsBoolean
      <4> QED BY <4>1, <3>1 DEF Quick
    <3> QED BY <1>1, <2>1, <3>1, <3>2 DEF Lifecycle!Start, IsRun, Lifecycle!WorkStages, WorkStages
  <2> QED BY <1>4, <2>3 DEF Lifecycle!Next, Quick
<1> QED BY <1>3, <1>4

LEMMA FinishStep ==
    ASSUME IInv, NEW w \in Worker, Busy(w), NEW j \in Job, j = held[w], NEW s,
           stage' = [stage EXCEPT ![j] = s], type' = type,
           ~Busy(w)', \A v \in Worker \ {w} : (Busy(v)' <=> Busy(v)) /\ held'[v] = held[v],
           s \in {NextStage(type[j], ran[w]), "failed", ran[w]}
    PROVE  [Lifecycle!Next]_(Lifecycle!vars)
<1>0. j \in Job /\ ran[w] \in WorkStages /\ Runs(w, j)
  BY DEF IInv, OwnedRowAsClaimed, Runs
<1>2. \A k \in Job \ {j} : IsRun(k)' <=> IsRun(k)
  BY <1>0 DEF IsRun, Runs
<1>3. CASE j \in SlowJobs
  BY <1>2, <1>3, StutterStep DEF Quick, IInv, TypeOK
<1>4. CASE j \notin SlowJobs
  <2>1. j \in Quick /\ IsRun(j) /\ stage[j] = ran[w]
    BY <1>0, <1>4 DEF Quick, IsRun, IInv, ExclusiveRun
  <2>2. ~IsRun(j)'
    <3> SUFFICES ASSUME NEW v \in Worker, Runs(v, j)'
                 PROVE  FALSE
      BY DEF IsRun
    <3>1. v # w /\ Runs(v, j)
      BY DEF Runs
    <3> QED BY <1>0, <2>1, <3>1, OnlyRunner
  <2>3. [k \in Quick |-> IsRun(k)'] = [[k \in Quick |-> IsRun(k)] EXCEPT ![j] = FALSE]
    <3>1. IsRun(j)' = FALSE /\ \A k \in Job \ {j} : IsRun(k)' = IsRun(k)
      BY <1>2, <2>2, RunIsBoolean
    <3> QED BY <2>1, <3>1 DEF Quick
  <2>4. [k \in Quick |-> stage'[k]] = [[k \in Quick |-> stage[k]] EXCEPT ![j] = s]
    BY <2>1 DEF Quick, IInv, TypeOK
  <2>5. Lifecycle!NextStage(type[j], stage[j]) = NextStage(type[j], stage[j])
    BY DEF Lifecycle!NextStage, NextStage
  <2>6. Lifecycle!Finish(j)
    <3> DEFINE aStage == [k \in Quick |-> stage[k]]
               aType  == [k \in Quick |-> type[k]]
               aRun   == [k \in Quick |-> \E v \in Worker : Runs(v, k)]
    <3>1. aStage[j] = stage[j] /\ aType[j] = type[j] /\ aRun[j]
      BY <2>1 DEF IsRun
    <3>2. s \in {Lifecycle!NextStage(aType[j], aStage[j]), "failed", aStage[j]}
      BY <2>1, <2>5, <3>1
    <3>3. aStage[j] \in Lifecycle!WorkStages
      BY <1>0, <2>1, <3>1 DEF Lifecycle!WorkStages, WorkStages
    <3>4. aStage' = [aStage EXCEPT ![j] = s] /\ aType' = aType
      BY <2>4
    <3>5. aRun' = [aRun EXCEPT ![j] = FALSE]
      BY <2>3 DEF IsRun
    <3> HIDE DEF aStage, aType, aRun
    <3> QED BY <3>1, <3>2, <3>3, <3>4, <3>5 DEF Lifecycle!Finish, aStage, aType, aRun
  <2> QED BY <2>1, <2>6 DEF Lifecycle!Next
<1> QED BY <1>3, <1>4

LEMMA ReportStep ==
    ASSUME IInv, NEW w \in Worker, Busy(w), NEW s,
           AdvanceStage(held[w], s), pc[w] = "writing", Leaves(w),
           s \in {NextStage(type[held[w]], ran[w]), "failed", ran[w]}
    PROVE  [Lifecycle!Next]_(Lifecycle!vars)
<1>1. held[w] \in Job
  BY DEF IInv, OwnedRowAsClaimed
<1>2. ~Busy(w)' /\ \A v \in Worker \ {w} : (Busy(v)' <=> Busy(v)) /\ held'[v] = held[v]
  BY LeavesBusy DEF Busy, IInv
<1>3. PICK j \in Job : j = held[w]
  BY <1>1
<1>4. stage' = [stage EXCEPT ![j] = s] /\ type' = type
  BY <1>3 DEF AdvanceStage
<1> QED BY <1>2, <1>3, <1>4, FinishStep

\* A report finishes the run, also when nobody hears that it did.
LEMMA LifecycleReport ==
    ASSUME IInv, NEW w \in Worker, Complete(w) \/ Fail(w) \/ CommitUnanswered(w)
    PROVE  [Lifecycle!Next]_(Lifecycle!vars)
<1>1. Leaves(w) /\ (Completed(w) \/ Failed(w))
  BY DEF Complete, Fail, CommitUnanswered, Leaves
<1>2. CASE Completed(w)
  <2> DEFINE s == NextStage(type[held[w]], ran[w])
  <2>1. Busy(w) /\ pc[w] = "writing" /\ AdvanceStage(held[w], s)
    BY <1>2 DEF Completed, Busy
  <2> HIDE DEF s
  <2> QED BY <1>1, <2>1, ReportStep DEF s
<1>3. CASE Failed(w)
  <2> DEFINE s == IF IsTerminal(w) THEN "failed" ELSE seen[w].stage
  <2>1. s \in {NextStage(type[held[w]], ran[w]), "failed", ran[w]}
    BY <1>3 DEF Failed, IInv, OwnedRowAsClaimed, Busy
  <2>2. Busy(w) /\ pc[w] = "writing" /\ AdvanceStage(held[w], s)
    BY <1>3 DEF Failed, Busy
  <2> HIDE DEF s
  <2> QED BY <1>1, <2>1, <2>2, ReportStep
<1> QED BY <1>1, <1>2, <1>3

\* A worker that stops ends its run and leaves the job at the stage it ran.
LEMMA StopStep ==
    ASSUME IInv, NEW w \in Worker, UNCHANGED jobVars, ~Busy(w)',
           \A v \in Worker \ {w} : (Busy(v)' <=> Busy(v)) /\ held'[v] = held[v]
    PROVE  [Lifecycle!Next]_(Lifecycle!vars)
<1>1. stage' = stage /\ type' = type
  BY DEF jobVars
<1>2. CASE Busy(w)
  <2>1. held[w] \in Job
    BY <1>2 DEF IInv, OwnedRowAsClaimed
  <2>2. CASE held[w] \in SlowJobs
    <3>1. \A j \in Quick : IsRun(j)' <=> IsRun(j)
      BY <2>2 DEF IsRun, Runs, Quick
    <3> QED BY <1>1, <3>1, StutterStep
  <2>3. CASE held[w] \notin SlowJobs
    <3>1. PICK j \in Job : j = held[w]
      BY <2>1
    <3>2. stage' = [stage EXCEPT ![j] = ran[w]]
      BY <1>1, <1>2, <2>3, <3>1 DEF IInv, TypeOK, ExclusiveRun
    <3> QED BY <1>1, <1>2, <3>1, <3>2, FinishStep
  <2> QED BY <2>2, <2>3
<1>3. CASE ~Busy(w)
  BY <1>1, <1>3, StutterStep DEF IsRun, Runs
<1> QED BY <1>2, <1>3

LEMMA LifecycleStep ==
    IInv /\ IInv' /\ [Next]_vars => [Lifecycle!Next]_(Lifecycle!vars)
<1> SUFFICES ASSUME IInv, IInv', [Next]_vars
             PROVE  [Lifecycle!Next]_(Lifecycle!vars)
  OBVIOUS
<1>1. CASE UNCHANGED vars
  BY <1>1, StutterStep DEF vars, IsRun, Runs, Busy
<1>2. ASSUME NEW j \in Job, NEW t \in EnqueuedTypes, Enqueue(j, t)
      PROVE  [Lifecycle!Next]_(Lifecycle!vars)
  <2>1. \A k \in Job : IsRun(k)' <=> IsRun(k)
    BY <1>2 DEF Enqueue, workerVars, IsRun, Runs, Busy
  <2>2. CASE j \in SlowJobs
    BY <1>2, <2>1, <2>2, StutterStep DEF Enqueue, Quick, IInv, TypeOK
  <2>3. CASE j \notin SlowJobs
    <3>1. j \in Quick
      BY <2>3 DEF Quick
    <3>2. [k \in Quick |-> stage'[k]] = [[k \in Quick |-> stage[k]] EXCEPT ![j] = "queued"]
      BY <1>2, <3>1 DEF Enqueue, Quick, IInv, TypeOK
    <3>3. [k \in Quick |-> type'[k]] = [[k \in Quick |-> type[k]] EXCEPT ![j] = t]
      BY <1>2, <3>1 DEF Enqueue, Quick, IInv, TypeOK
    <3>4. [k \in Quick |-> IsRun(k)'] = [k \in Quick |-> IsRun(k)]
      <4>1. \A k \in Job : IsRun(k)' = IsRun(k)
        BY <2>1, RunIsBoolean
      <4> QED BY <4>1 DEF Quick
    <3>5. Lifecycle!Submit(j)
      BY <1>2, <3>1, <3>2, <3>3, <3>4, TypesAssumption
         DEF Lifecycle!Submit, Enqueue, IsRun, Lifecycle!JobTypes, JobTypes
    <3> QED BY <3>1, <3>5 DEF Lifecycle!Next
  <2> QED BY <2>2, <2>3
<1>3. ASSUME NEW j \in Job, LockExpires(j)
      PROVE  [Lifecycle!Next]_(Lifecycle!vars)
  BY <1>3, StutterStep DEF LockExpires, workerVars, IsRun, Runs, Busy
<1>4. ASSUME NEW w \in Worker, Work(w)
      PROVE  [Lifecycle!Next]_(Lifecycle!vars)
  <2>1. CASE \E j \in Job : Claim(w, j)
    BY <2>1, StartStep
  <2>2. CASE (\E o \in Outcomes : Handle(w, o)) \/ AssertLockOwned(w)
    <3>1. \A v \in Worker : (Busy(v)' <=> Busy(v)) /\ held'[v] = held[v]
      BY <2>2, OwnersDoNotDoubt DEF Handle, AssertLockOwned, Busy, IInv, TypeOK
    <3> QED BY <2>2, <3>1, StutterStep
            DEF Handle, AssertLockOwned, jobVars, IsRun, Runs
  <2>3. CASE AssertLockLost(w)
    <3>1. \A v \in Worker \ {w} : (Busy(v)' <=> Busy(v)) /\ held'[v] = held[v]
      BY <2>3 DEF AssertLockLost, Busy, IInv, TypeOK
    <3>2. CASE pc[w] = "reporting"
      <4>1. held[w] \in SlowJobs /\ held'[w] = held[w]
        BY <2>3, <3>2 DEF AssertLockLost, IInv, ExclusiveRun, OwnedRowAsClaimed, Busy
      <4>2. \A j \in Quick : IsRun(j)' <=> IsRun(j)
        BY <3>1, <4>1 DEF IsRun, Runs, Quick
      <4> QED BY <2>3, <4>2, StutterStep DEF AssertLockLost, jobVars
    <3>3. CASE pc[w] = "doubting"
      <4>1. ~Busy(w) /\ ~Busy(w)'
        BY <2>3, <3>3 DEF AssertLockLost, Busy, IInv, TypeOK
      <4>2. \A j \in Quick : IsRun(j)' <=> IsRun(j)
        BY <3>1, <4>1 DEF IsRun, Runs
      <4> QED BY <2>3, <4>2, StutterStep DEF AssertLockLost, jobVars
    <3> QED BY <2>3, <3>2, <3>3 DEF AssertLockLost
  <2>4. CASE Complete(w) \/ Fail(w)
    BY <2>4, LifecycleReport
  <2> QED BY <1>4, <2>1, <2>2, <2>3, <2>4 DEF Work
<1>5. ASSUME NEW w \in Worker, ReportErrors(w)
      PROVE  [Lifecycle!Next]_(Lifecycle!vars)
  <2>1. \A v \in Worker : (Busy(v)' <=> Busy(v)) /\ held'[v] = held[v]
    BY <1>5 DEF ReportErrors, Busy, IInv, TypeOK
  <2> QED BY <1>5, <2>1, StutterStep DEF ReportErrors, jobVars, IsRun, Runs
<1>6. ASSUME NEW w \in Worker, Crash(w) \/ Restart(w) \/ LastReportErrors(w)
      PROVE  [Lifecycle!Next]_(Lifecycle!vars)
  <2>1. ~Busy(w)' /\ \A v \in Worker \ {w} : (Busy(v)' <=> Busy(v)) /\ held'[v] = held[v]
    BY <1>6 DEF Crash, Restart, LastReportErrors, BackToIdle, Busy, IInv, TypeOK
  <2> QED BY <1>6, <2>1, StopStep DEF Crash, Restart, LastReportErrors
<1>7. ASSUME NEW w \in Worker, ClaimErrors(w)
      PROVE  [Lifecycle!Next]_(Lifecycle!vars)
  <2>1. stage' = stage /\ type' = type
    BY <1>7 DEF ClaimErrors, TakeLock, jobVars
  <2>2. \A v \in Worker : (Busy(v)' <=> Busy(v)) /\ held'[v] = held[v]
    BY <1>7 DEF ClaimErrors, Busy, IInv, TypeOK
  <2> QED BY <2>1, <2>2, StutterStep DEF IsRun, Runs
<1>8. ASSUME NEW w \in Worker, CommitUnanswered(w)
      PROVE  [Lifecycle!Next]_(Lifecycle!vars)
  BY <1>8, LifecycleReport
<1> QED BY <1>1, <1>2, <1>3, <1>4, <1>5, <1>6, <1>7, <1>8 DEF Next

LEMMA LifecycleInit == Init => Lifecycle!Init
BY DEF Init, Lifecycle!Init, Quick, Runs, Busy

\* The queue keeps JobLifecycle's promise for every job whose stages fit in
\* staleLockMs: one run at a time, one outcome per run, applied to the stage
\* the run was for, and nothing after a terminal stage.
THEOREM Implementation == Spec => ImplementsLifecycle
<1>1. Init => Lifecycle!Init
  BY LifecycleInit
<1>2. IInv /\ IInv' /\ [Next]_vars => [Lifecycle!Next]_(Lifecycle!vars)
  BY LifecycleStep
<1> QED BY <1>1, <1>2, SpecIInv, PTL DEF Spec, ImplementsLifecycle, Lifecycle!Spec
=============================================================================
