--------------------------- MODULE PipelineProofs ---------------------------
(***************************************************************************)
(* Proofs about Pipeline, for any workers, jobs, bodies, names and users,  *)
(* any number of attempts and any mix of creates, refines and deletes.     *)
(*                                                                         *)
(* QueueInv is what the pipeline needs of the queue: a worker that is busy *)
(* holds its job, at the stage where it found it.  IInv adds what a job at *)
(* each stage has left behind, and what the worker that is about to report *)
(* made true for the stage it reports; Grows says that rows only gain, so  *)
(* that what one job relies on, no step of another takes away.  FileInv    *)
(* and OwnInv come on top, each for the instances its theorem is about.    *)
(***************************************************************************)
EXTENDS Pipeline, TLAPS

-----------------------------------------------------------------------------
(* The queue under the pipeline *)

\* A worker that is busy holds the lock of its job, which is where the worker
\* found it: what ExclusiveRun says in JobQueue, where no job is slow.
Holds(w) ==
    /\ held[w] \in Job
    /\ lockedBy[held[w]] = w
    /\ ~stale[held[w]]
    /\ ran[w] \in WorkStages
    /\ stage[held[w]] = ran[w]
    /\ pc[w] = "writing" => seen[w].stage = ran[w]

QueueInv ==
    /\ Queue!TypeOK
    /\ \A w \in Worker : /\ Queue!Busy(w) => Holds(w)
                         /\ pc[w] \notin {"doubting", "exited"}

\* What the pipeline does to the queue.
QueueStep ==
    \/ \E j \in Job, t \in EnqueuedTypes : Queue!Enqueue(j, t)
    \/ \E j \in Job : Queue!LockExpires(j)
    \/ \E w \in Worker :
           \/ \E j \in Job : Queue!Claim(w, j)
           \/ \E o \in Queue!Outcomes : Queue!Handle(w, o)
           \/ Queue!AssertLockOwned(w) \/ Queue!ReportErrors(w)
           \/ Queue!Complete(w) \/ Queue!Fail(w)
           \/ Queue!Crash(w)

LEMMA Vocabulary ==
    /\ Queue!WorkStages = WorkStages /\ Queue!Terminal = Terminal
    /\ Queue!Stages = Stages /\ Queue!JobTypes = JobTypes
    /\ \A t, s : Queue!NextStage(t, s) = NextStage(t, s)
    /\ \A t, s : Queue!HandlerOutcomes(t, s) = HandlerOutcomes(t, s)
BY DEF Queue!WorkStages, WorkStages, Queue!Terminal, Terminal, Queue!Stages, Stages,
       Queue!JobTypes, JobTypes, Queue!NextStage, NextStage,
       Queue!HandlerOutcomes, HandlerOutcomes

LEMMA QueueActions ==
    ASSUME Next
    PROVE  QueueStep \/ UNCHANGED queueVars
<1>1. ASSUME NEW j \in Job, Request(j) \/ Expire(j)
      PROVE  QueueStep
  BY <1>1 DEF QueueStep, Request, RequestCreate, RequestRefine, RequestDelete, Expire
<1>2. ASSUME Dashboard
      PROVE  UNCHANGED queueVars
  BY <1>2 DEF Dashboard, AuthorizeAction, PerformAction
<1>3. ASSUME NEW w \in Worker, QueueOnly(w) \/ Complete(w) \/ Fail(w) \/ Stop(w)
      PROVE  QueueStep
  BY <1>3 DEF QueueStep, QueueOnly, Complete, Fail, Stop
<1>4. ASSUME NEW w \in Worker, Handler(w)
      PROVE  QueueStep \/ UNCHANGED queueVars
  <2>1. ASSUME NEW o \in {"advance", "fail", "retry", "thrown"}, NEW p, Return(w, o, p)
        PROVE  QueueStep
    BY <2>1 DEF Return, QueueStep, Queue!Outcomes
  <2>2. HandlerRejects(w) \/ HandlerRetries(w) \/ HandlerThrows(w) => QueueStep
    BY <2>1 DEF HandlerRejects, HandlerRetries, HandlerThrows
  <2>3. Generate(w) \/ BuildRefined(w) \/ Validate(w) \/ Probe(w) \/ DeployActivate(w)
            \/ DeleteRow(w) => QueueStep
    BY <2>1 DEF Generate, BuildRefined, Validate, Probe, DeployActivate, DeleteRow
  <2>4. BuildRow(w) \/ BuildSuffixedRow(w) => QueueStep \/ UNCHANGED queueVars
    BY <2>1 DEF BuildRow, BuildSuffixedRow, CreateServerFromJob, Goto
  <2>5. DeployCheck(w) \/ DeployOpen(w) \/ DeployWrite(w) \/ DeployWriteLost(w) \/ DeleteFile(w)
            => QueueStep \/ UNCHANGED queueVars
    BY <2>1 DEF DeployCheck, DeployOpen, DeployWrite, DeployWriteLost, DeleteFile, Goto
  <2> QED BY <1>4, <2>2, <2>3, <2>4, <2>5 DEF Handler
<1> QED BY <1>1, <1>2, <1>3, <1>4 DEF Next

\* The pipeline only uses the queue: without its own tables it is JobQueue, and
\* what is proved of JobQueue holds under it.
THEOREM PipelineUsesQueue == Spec => Queue!Spec
<1>1. Init => Queue!Init
  BY DEF Init
<1>2. [Next]_vars => [Queue!Next]_(Queue!vars)
  <2>1. ASSUME Next
        PROVE  [Queue!Next]_(Queue!vars)
    <3>1. CASE QueueStep
      BY <3>1 DEF QueueStep, Queue!Next, Queue!Work
    <3>2. CASE UNCHANGED queueVars
      BY <3>2 DEF queueVars, Queue!vars
    <3> QED BY <2>1, <3>1, <3>2, QueueActions
  <2>2. UNCHANGED vars => UNCHANGED Queue!vars
    BY DEF vars, queueVars, Queue!vars
  <2> QED BY <2>1, <2>2
<1> QED BY <1>1, <1>2, PTL DEF Spec, Queue!Spec

\* A worker whose part of the queue a step leaves alone still holds its job,
\* unless the step takes the lock or the stage of that job away.
LEMMA StillHolds ==
    ASSUME NEW v \in Worker, Holds(v),
           pc'[v] = pc[v], held'[v] = held[v], ran'[v] = ran[v], seen'[v] = seen[v],
           lockedBy'[held[v]] = lockedBy[held[v]], stale'[held[v]] = stale[held[v]],
           stage'[held[v]] = stage[held[v]]
    PROVE  Holds(v)'
BY DEF Holds

LEMMA OneHolder ==
    ASSUME QueueInv, NEW v \in Worker, NEW w \in Worker,
           Queue!Busy(v), Queue!Busy(w), held[v] = held[w]
    PROVE  v = w
BY DEF QueueInv, Holds

LEMMA RowsAreRows ==
    /\ Queue!NoRow \in Queue!Rows
    /\ \A s \in Stages, n \in 0..AttemptCap : [stage |-> s, attempts |-> n] \in Queue!Rows
BY QueueAssumption, Vocabulary DEF Queue!NoRow, Queue!Rows, Stages

LEMMA EnqueueInv == ASSUME QueueInv, NEW j \in Job, NEW t \in EnqueuedTypes, Queue!Enqueue(j, t)
                    PROVE  QueueInv'
<1>1. Queue!TypeOK'
  BY QueueAssumption, Vocabulary
     DEF QueueInv, Queue!TypeOK, Queue!Enqueue, Queue!workerVars, Stages, WorkStages
<1>2. ASSUME NEW v \in Worker
      PROVE  (Queue!Busy(v)' => Holds(v)') /\ pc'[v] \notin {"doubting", "exited"}
  <2>1. CASE Queue!Busy(v)
    <3>1. Holds(v) /\ held[v] # j
      BY <2>1 DEF QueueInv, Holds, Queue!Enqueue, WorkStages
    <3>2. stage'[held[v]] = stage[held[v]]
      BY <3>1 DEF QueueInv, Queue!TypeOK, Queue!Enqueue, Holds
    <3> QED BY <3>1, <3>2, StillHolds DEF Queue!Enqueue, Queue!workerVars, QueueInv
  <2>2. CASE ~Queue!Busy(v)
    BY <2>2 DEF Queue!Enqueue, Queue!workerVars, Queue!Busy, QueueInv
  <2> QED BY <2>1, <2>2
<1> QED BY <1>1, <1>2 DEF QueueInv

LEMMA LockExpiresInv == ASSUME QueueInv, NEW j \in Job, Queue!LockExpires(j)
                        PROVE  QueueInv'
<1>1. Queue!TypeOK'
  BY DEF QueueInv, Queue!TypeOK, Queue!LockExpires, Queue!workerVars
<1>2. ASSUME NEW v \in Worker
      PROVE  (Queue!Busy(v)' => Holds(v)') /\ pc'[v] \notin {"doubting", "exited"}
  <2>1. CASE Queue!Busy(v)
    <3>1. Holds(v)
      BY <2>1 DEF QueueInv
    <3>2. held[v] # j
      BY <2>1, <3>1, QuickAssumption DEF Holds, Queue!LockExpires, Queue!Runs
    <3>3. stale'[held[v]] = stale[held[v]]
      BY <3>1, <3>2 DEF QueueInv, Queue!TypeOK, Queue!LockExpires, Holds
    <3> QED BY <3>1, <3>3, StillHolds DEF Queue!LockExpires, Queue!workerVars, QueueInv
  <2>2. CASE ~Queue!Busy(v)
    BY <2>2 DEF Queue!LockExpires, Queue!workerVars, Queue!Busy, QueueInv
  <2> QED BY <2>1, <2>2
<1> QED BY <1>1, <1>2 DEF QueueInv

LEMMA ClaimInv == ASSUME QueueInv, NEW w \in Worker, NEW j \in Job, Queue!Claim(w, j)
                  PROVE  QueueInv' /\ Holds(w)' /\ held'[w] = j
<1>1. Queue!TypeOK'
  BY QueueAssumption DEF QueueInv, Queue!TypeOK, Queue!Claim, Queue!TakeLock, Queue!Pcs
<1>2. held'[w] = j /\ pc'[w] = "running"
  BY DEF QueueInv, Queue!TypeOK, Queue!Claim, Queue!TakeLock
<1>3. Holds(w)'
  BY Vocabulary DEF QueueInv, Queue!TypeOK, Queue!Claim, Queue!TakeLock, Queue!Claimable, Holds
<1>4. ASSUME NEW v \in Worker, v # w
      PROVE  (Queue!Busy(v)' => Holds(v)') /\ pc'[v] \notin {"doubting", "exited"}
  <2>1. pc'[v] = pc[v] /\ held'[v] = held[v] /\ ran'[v] = ran[v] /\ seen'[v] = seen[v]
    BY <1>4 DEF QueueInv, Queue!TypeOK, Queue!Claim
  <2>2. CASE Queue!Busy(v)
    <3>1. Holds(v)
      BY <2>2 DEF QueueInv
    <3>2. held[v] # j
      BY <3>1, QueueAssumption DEF Holds, Queue!Claim, Queue!TakeLock, Queue!Claimable
    <3>3. /\ stale'[held[v]] = stale[held[v]] /\ lockedBy'[held[v]] = lockedBy[held[v]]
          /\ stage'[held[v]] = stage[held[v]]
      BY <3>1, <3>2 DEF QueueInv, Queue!TypeOK, Queue!Claim, Queue!TakeLock, Holds
    <3> QED BY <2>1, <3>1, <3>3, StillHolds DEF QueueInv
  <2>3. CASE ~Queue!Busy(v)
    BY <2>1, <2>3 DEF Queue!Busy, QueueInv
  <2> QED BY <2>2, <2>3
<1>5. pc'[w] \notin {"doubting", "exited"}
  BY <1>2
<1> QED BY <1>1, <1>2, <1>3, <1>4, <1>5 DEF QueueInv

\* A step inside one worker that leaves the rows alone.
LEMMA WorkerStepInv ==
    ASSUME QueueInv, NEW w \in Worker, Queue!TypeOK', UNCHANGED Queue!jobVars,
           \A v \in Worker \ {w} : /\ pc'[v] = pc[v] /\ held'[v] = held[v]
                                   /\ ran'[v] = ran[v] /\ seen'[v] = seen[v],
           pc'[w] \notin {"doubting", "exited"}, Queue!Busy(w)' => Holds(w)'
    PROVE  QueueInv'
<1>1. ASSUME NEW v \in Worker, v # w
      PROVE  (Queue!Busy(v)' => Holds(v)') /\ pc'[v] \notin {"doubting", "exited"}
  <2>1. CASE Queue!Busy(v)
    BY <1>1, <2>1, StillHolds DEF QueueInv, Queue!jobVars
  <2>2. CASE ~Queue!Busy(v)
    BY <1>1, <2>2 DEF QueueInv, Queue!Busy
  <2> QED BY <2>1, <2>2
<1> QED BY <1>1 DEF QueueInv

LEMMA HandleInv == ASSUME QueueInv, NEW w \in Worker, NEW o \in Queue!Outcomes, Queue!Handle(w, o)
                   PROVE  QueueInv'
<1>1. Queue!TypeOK'
  BY DEF QueueInv, Queue!TypeOK, Queue!Handle, Queue!jobVars, Queue!Pcs
<1>2. Holds(w)' /\ pc'[w] = "reporting"
  BY DEF QueueInv, Queue!TypeOK, Queue!Busy, Queue!Handle, Queue!jobVars, Holds
<1>3. \A v \in Worker \ {w} : /\ pc'[v] = pc[v] /\ held'[v] = held[v]
                              /\ ran'[v] = ran[v] /\ seen'[v] = seen[v]
  BY DEF QueueInv, Queue!TypeOK, Queue!Handle
<1> QED BY <1>1, <1>2, <1>3, WorkerStepInv DEF Queue!Handle

LEMMA AssertLockOwnedInv == ASSUME QueueInv, NEW w \in Worker, Queue!AssertLockOwned(w)
                            PROVE  QueueInv'
<1>0. pc[w] = "reporting" /\ Holds(w)
  BY DEF QueueInv, Queue!AssertLockOwned, Queue!Busy
<1>1. Queue!TypeOK'
  <2>1. [stage |-> stage[held[w]], attempts |-> attempts[held[w]]] \in Queue!Rows
    BY <1>0, RowsAreRows, Vocabulary DEF QueueInv, Queue!TypeOK, Holds
  <2> QED BY <2>1 DEF QueueInv, Queue!TypeOK, Queue!AssertLockOwned, Queue!jobVars, Queue!Pcs
<1>2. Holds(w)' /\ pc'[w] = "writing"
  BY <1>0 DEF QueueInv, Queue!TypeOK, Queue!AssertLockOwned, Queue!jobVars, Holds
<1>3. \A v \in Worker \ {w} : /\ pc'[v] = pc[v] /\ held'[v] = held[v]
                              /\ ran'[v] = ran[v] /\ seen'[v] = seen[v]
  BY DEF QueueInv, Queue!TypeOK, Queue!AssertLockOwned
<1> QED BY <1>1, <1>2, <1>3, WorkerStepInv DEF Queue!AssertLockOwned

LEMMA ReportErrorsInv == ASSUME QueueInv, NEW w \in Worker, Queue!ReportErrors(w)
                         PROVE  QueueInv'
<1>1. Queue!TypeOK'
  BY RowsAreRows
     DEF QueueInv, Queue!TypeOK, Queue!ReportErrors, Queue!jobVars, Queue!Pcs, Queue!Outcomes
<1>2. Holds(w)' /\ pc'[w] = "reporting"
  BY DEF QueueInv, Queue!TypeOK, Queue!Busy, Queue!ReportErrors, Queue!jobVars, Holds
<1>3. \A v \in Worker \ {w} : /\ pc'[v] = pc[v] /\ held'[v] = held[v]
                              /\ ran'[v] = ran[v] /\ seen'[v] = seen[v]
  BY DEF QueueInv, Queue!TypeOK, Queue!ReportErrors
<1> QED BY <1>1, <1>2, <1>3, WorkerStepInv DEF Queue!ReportErrors

LEMMA CrashInv == ASSUME QueueInv, NEW w \in Worker, Queue!Crash(w)
                  PROVE  QueueInv'
<1>0. /\ pc' = [pc EXCEPT ![w] = "idle"]
      /\ held' = [held EXCEPT ![w] = Queue!NoJob] /\ ran' = [ran EXCEPT ![w] = "none"]
      /\ outcome' = [outcome EXCEPT ![w] = "none"] /\ seen' = [seen EXCEPT ![w] = Queue!NoRow]
      /\ UNCHANGED Queue!jobVars
  BY DEF Queue!Crash, Queue!BackToIdle
<1>1. Queue!TypeOK'
  BY <1>0, RowsAreRows, Vocabulary
     DEF QueueInv, Queue!TypeOK, Queue!jobVars, Queue!Pcs, Queue!Outcomes, Stages
<1>2. pc'[w] = "idle"
  BY <1>0 DEF QueueInv, Queue!TypeOK
<1>3. \A v \in Worker \ {w} : /\ pc'[v] = pc[v] /\ held'[v] = held[v]
                              /\ ran'[v] = ran[v] /\ seen'[v] = seen[v]
  BY <1>0 DEF QueueInv, Queue!TypeOK
<1> QED BY <1>0, <1>1, <1>2, <1>3, WorkerStepInv DEF Queue!Busy

\* Both reports release one job, which nobody else is running.
LEMMA ReportInv ==
    ASSUME QueueInv, NEW w \in Worker, pc[w] = "writing", NEW s \in Stages,
           Queue!AdvanceStage(held[w], s), Queue!BackToIdle(w),
           \E step_ \in Stages, status_ \in {"completed", "retrying", "failed"} :
               Queue!AppendStatusEvent(w, held[w], step_, status_)
    PROVE  /\ QueueInv'
           /\ stage' = [stage EXCEPT ![held[w]] = s] /\ UNCHANGED type
<1>0. Queue!Busy(w) /\ Holds(w)
  BY DEF QueueInv, Queue!Busy
<1>1. Queue!TypeOK'
  BY <1>0, RowsAreRows, Vocabulary
     DEF QueueInv, Queue!TypeOK, Queue!AdvanceStage, Queue!BackToIdle,
         Queue!AppendStatusEvent, Queue!Pcs, Queue!Outcomes, Stages, Holds
<1>2. ASSUME NEW v \in Worker, v # w
      PROVE  (Queue!Busy(v)' => Holds(v)') /\ pc'[v] \notin {"doubting", "exited"}
  <2>1. pc'[v] = pc[v] /\ held'[v] = held[v] /\ ran'[v] = ran[v] /\ seen'[v] = seen[v]
    BY <1>2 DEF QueueInv, Queue!TypeOK, Queue!BackToIdle
  <2>2. CASE Queue!Busy(v)
    <3>1. Holds(v) /\ held[v] # held[w]
      BY <1>0, <1>2, <2>2, OneHolder DEF QueueInv
    <3>2. /\ stale'[held[v]] = stale[held[v]] /\ lockedBy'[held[v]] = lockedBy[held[v]]
          /\ stage'[held[v]] = stage[held[v]]
      BY <1>0, <3>1 DEF QueueInv, Queue!TypeOK, Queue!AdvanceStage, Holds
    <3> QED BY <2>1, <3>1, <3>2, StillHolds DEF QueueInv
  <2>3. CASE ~Queue!Busy(v)
    BY <2>1, <2>3 DEF Queue!Busy, QueueInv
  <2> QED BY <2>2, <2>3
<1>3. pc'[w] = "idle"
  BY DEF QueueInv, Queue!TypeOK, Queue!BackToIdle
<1> QED BY <1>1, <1>2, <1>3 DEF QueueInv, Queue!Busy, Queue!AdvanceStage

LEMMA CompleteInv ==
    ASSUME QueueInv, NEW w \in Worker, Queue!Complete(w)
    PROVE  /\ QueueInv' /\ Holds(w) /\ Queue!Busy(w) /\ UNCHANGED type
           /\ stage' = [stage EXCEPT ![held[w]] = NextStage(type[held[w]], ran[w])]
<1> DEFINE next == NextStage(type[held[w]], ran[w])
<1>1. pc[w] = "writing" /\ Queue!AdvanceStage(held[w], next) /\ Queue!BackToIdle(w)
      /\ Queue!AppendStatusEvent(w, held[w], next, "completed")
  BY Vocabulary DEF Queue!Complete, Queue!Completed
<1>2. Queue!Busy(w) /\ Holds(w)
  BY <1>1 DEF QueueInv, Queue!Busy
<1>3. next \in Stages
  BY DEF NextStage, Stages, WorkStages, Terminal
<1> HIDE DEF next
<1>4. QueueInv' /\ stage' = [stage EXCEPT ![held[w]] = next] /\ UNCHANGED type
  BY <1>1, <1>3, ReportInv
<1> QED BY <1>2, <1>4 DEF next

LEMMA FailInv ==
    ASSUME QueueInv, NEW w \in Worker, Queue!Fail(w)
    PROVE  /\ QueueInv' /\ Holds(w) /\ Queue!Busy(w) /\ UNCHANGED type
           /\ stage' = [stage EXCEPT ![held[w]] =
                            IF Queue!IsTerminal(w) THEN "failed" ELSE ran[w]]
<1> DEFINE next == IF Queue!IsTerminal(w) THEN "failed" ELSE seen[w].stage
           status_ == IF Queue!IsTerminal(w) THEN "failed" ELSE "retrying"
<1>1. pc[w] = "writing" /\ Queue!AdvanceStage(held[w], next) /\ Queue!BackToIdle(w)
      /\ Queue!AppendStatusEvent(w, held[w], seen[w].stage, status_)
  BY DEF Queue!Fail, Queue!Failed
<1>2. Queue!Busy(w) /\ Holds(w) /\ seen[w].stage = ran[w]
  BY <1>1 DEF QueueInv, Queue!Busy, Holds
<1>3. next \in Stages /\ seen[w].stage \in Stages /\ status_ \in {"completed", "retrying", "failed"}
  BY <1>2 DEF Holds, Stages, WorkStages, Terminal
<1> HIDE DEF next, status_
<1>4. QueueInv' /\ stage' = [stage EXCEPT ![held[w]] = next] /\ UNCHANGED type
  BY <1>1, <1>3, ReportInv
<1> QED BY <1>2, <1>4 DEF next

LEMMA InitQueueInv == Queue!Init => QueueInv
BY RowsAreRows, Vocabulary, QueueAssumption
   DEF Queue!Init, QueueInv, Queue!TypeOK, Queue!Pcs, Queue!Outcomes, Queue!Busy,
       Queue!NoJob, Queue!NoEvent, Stages, JobTypes

LEMMA NextQueueInv == QueueInv /\ [Next]_vars => QueueInv'
<1> SUFFICES ASSUME QueueInv, [Next]_vars PROVE QueueInv'
  OBVIOUS
<1>1. CASE UNCHANGED queueVars
  BY <1>1 DEF queueVars, QueueInv, Queue!TypeOK, Queue!Busy, Holds
<1>2. CASE QueueStep
  BY <1>2, EnqueueInv, LockExpiresInv, ClaimInv, HandleInv, AssertLockOwnedInv,
     ReportErrorsInv, CrashInv, CompleteInv, FailInv DEF QueueStep
<1> QED BY <1>1, <1>2, QueueActions DEF vars

-----------------------------------------------------------------------------
(* The inductive invariant *)

Patches == [spec : Specs \cup {None}, server : Body \cup {None}]

StoreTypeOK ==
    /\ status \in [Body -> Statuses]
    /\ slug   \in [Body -> Slugs \cup {None}]
    /\ url    \in [Body -> Slugs \cup {None}]
    /\ probed \in [Body -> Body \cup {None}]
    /\ owner  \in [Body -> Users \cup {None}]
    /\ file   \in [Slugs -> Specs \cup Torn \cup {None}]

\* The part of TypeOK that is not the queue's.
DataTypeOK ==
    /\ StoreTypeOK
    /\ parsed \in [Job -> Specs \cup {None}]
    /\ server \in [Job -> Body \cup {None}]
    /\ step   \in [Worker -> Steps]
    /\ patch  \in [Worker -> Patches]
    /\ dash   \in [op : {"none", "disable", "enable"}, on : Body \cup {None}]

\* A server that has been up does not go back to building or to failed.
Up == {"active", "disabled", "deleted"}

Builds == {"create", "refine"}

\* What a job at its stage has found and left behind.
JobFacts(j) ==
    /\ stage[j] = "none" => parsed[j] = None /\ server[j] = None
    /\ stage[j] # "none" => type[j] \in JobTypes
    /\ server[j] # None => Exists(server[j])
    /\ stage[j] # "none" /\ type[j] # "create" => server[j] # None
    /\ type[j] \in Builds /\ stage[j] \notin {"none", "queued", "failed"} =>
           parsed[j] # None
    /\ type[j] = "create" /\ stage[j] \notin {"none", "queued", "building", "failed"} =>
           server[j] # None
    /\ type[j] \in Builds /\ stage[j] \in {"deploying", "active"} =>
           probed[server[j]] # None
    /\ type[j] \in Builds /\ stage[j] = "active" => url[server[j]] # None
    /\ type[j] = "create" /\ stage[j] = "active" => status[server[j]] \in Up
    /\ type[j] = "create" /\ stage[j] = "failed" /\ server[j] # None =>
           status[server[j]] # "building"

\* ServedIsProbed, row by row, and every row has its slug.
RowFacts(k) ==
    /\ Exists(k) => slug[k] # None
    /\ status[k] \in {"active", "disabled"} => probed[k] # None /\ url[k] # None

\* A server action that has read a row which was up.
DashFacts ==
    \/ dash = NoAction
    \/ /\ dash.on \in Body /\ dash.op # "none"
       /\ status[dash.on] \in Up
       /\ probed[dash.on] # None /\ url[dash.on] # None

\* What a worker whose handler returned carries to its report, and what the
\* handler has made true for the stage that the report advances the job to.
WorkerFacts(w) ==
    /\ pc[w] \notin {"reporting", "writing"} => patch[w] = NoPatch
    /\ pc[w] # "running" => step[w] = "start"
    /\ patch[w].spec # None => ran[w] \in {"queued", "building"}
    /\ patch[w].server # None => ran[w] = "building" /\ Exists(patch[w].server)
    /\ pc[w] \in {"reporting", "writing"} /\ outcome[w] = "advance" =>
           /\ ran[w] = "queued" /\ type[held[w]] \in Builds => patch[w].spec # None
           /\ ran[w] = "building" /\ type[held[w]] = "create" => patch[w].server # None
           /\ ran[w] = "probing" /\ type[held[w]] \in Builds => probed[server[held[w]]] # None
           /\ ran[w] = "deploying" /\ type[held[w]] \in Builds =>
                  status[server[held[w]]] \in Up /\ url[server[held[w]]] # None

IInv ==
    /\ QueueInv
    /\ DataTypeOK
    /\ \A j \in Job : JobFacts(j)
    /\ \A k \in Body : RowFacts(k)
    /\ DashFacts
    /\ \A w \in Worker : WorkerFacts(w)

-----------------------------------------------------------------------------
(* What any step keeps *)

\* Rows only gain: one that exists keeps its slug, its probe and its URL, and
\* one that has been up stays among those that have.
Grows ==
    \A k \in Body :
        /\ Exists(k) => Exists(k)' /\ slug'[k] = slug[k]
        /\ probed[k] # None => probed'[k] # None
        /\ url[k] # None => url'[k] # None
        /\ status[k] \in Up => status'[k] \in Up
        /\ Exists(k) /\ status[k] # "building" => status'[k] # "building"

LEMMA RowsKept == UNCHANGED servers => Grows /\ (\A k \in Body : RowFacts(k) => RowFacts(k)')
BY DEF servers, Grows, Exists, RowFacts

LEMMA JobFactsKept ==
    ASSUME DataTypeOK, Grows, NEW j \in Job, JobFacts(j),
           stage'[j] = stage[j], type'[j] = type[j],
           parsed'[j] = parsed[j], server'[j] = server[j]
    PROVE  JobFacts(j)'
<1>1. server[j] \in Body \cup {None} /\ (server[j] # None => Exists(server[j]))
  BY DEF DataTypeOK, JobFacts
<1>2. type[j] \in Builds /\ stage[j] \in {"deploying", "active"} => server[j] # None
  BY DEF JobFacts, Builds
<1>3. server[j] # None =>
          /\ Exists(server[j])'
          /\ probed[server[j]] # None => probed'[server[j]] # None
          /\ url[server[j]] # None => url'[server[j]] # None
          /\ status[server[j]] \in Up => status'[server[j]] \in Up
          /\ status[server[j]] # "building" => status'[server[j]] # "building"
  BY <1>1 DEF Grows
<1>4. Exists(server[j])' <=> status'[server[j]] # "none"
  BY DEF Exists
<1> QED BY <1>2, <1>3, <1>4 DEF JobFacts, Exists

LEMMA Running ==
    ASSUME IInv, NEW w \in Worker, Queue!Busy(w)
    PROVE  /\ held[w] \in Job /\ ran[w] \in WorkStages /\ stage[held[w]] = ran[w]
           /\ type[held[w]] \in JobTypes /\ JobFacts(held[w])
           /\ type[held[w]] \in Builds /\ ran[w] \notin {"queued", "building"}
                  => server[held[w]] \in Body /\ parsed[held[w]] \in Specs
           /\ type[held[w]] # "create" => server[held[w]] \in Body
<1>1. Holds(w)
  BY DEF IInv, QueueInv
<1>2. JobFacts(held[w])
  BY <1>1 DEF IInv, Holds
<1> QED BY <1>1, <1>2 DEF IInv, DataTypeOK, Holds, JobFacts, WorkStages, Builds

\* No step of another moves a handler, unless it removes the file that the
\* handler has open.
StepKept(v) == step'[v] = step[v] \/ (step[v] = "write" /\ step'[v] = "lost")

LEMMA WorkerFactsKept ==
    ASSUME IInv, Grows, NEW v \in Worker,
           pc'[v] = pc[v], held'[v] = held[v], ran'[v] = ran[v], outcome'[v] = outcome[v],
           patch'[v] = patch[v], StepKept(v),
           Queue!Busy(v) => type'[held[v]] = type[held[v]] /\ server'[held[v]] = server[held[v]]
    PROVE  WorkerFacts(v)'
<1>0. WorkerFacts(v) /\ DataTypeOK
  BY DEF IInv
<1>1. patch'[v].server # None => ran'[v] = "building" /\ Exists(patch[v].server)'
  <2>1. patch[v].server \in Body \cup {None}
    BY <1>0 DEF DataTypeOK, Patches
  <2> QED BY <1>0, <2>1 DEF WorkerFacts, Grows
<1>2. ASSUME pc[v] \in {"reporting", "writing"}, outcome[v] = "advance"
      PROVE  /\ ran[v] = "probing" /\ type[held[v]] \in Builds => probed'[server[held[v]]] # None
             /\ ran[v] = "deploying" /\ type[held[v]] \in Builds =>
                    status'[server[held[v]]] \in Up /\ url'[server[held[v]]] # None
  <2>1. Queue!Busy(v)
    BY <1>2 DEF Queue!Busy
  <2> QED BY <1>0, <1>2, <2>1, Running DEF WorkerFacts, Grows
<1>3. pc[v] # "running" => step'[v] = "start"
  BY <1>0 DEF WorkerFacts, StepKept
<1> QED BY <1>0, <1>1, <1>2, <1>3 DEF WorkerFacts, Queue!Busy

-----------------------------------------------------------------------------
(* The handlers *)

Untouched(v) ==
    /\ pc'[v] = pc[v] /\ held'[v] = held[v] /\ ran'[v] = ran[v]
    /\ outcome'[v] = outcome[v] /\ patch'[v] = patch[v] /\ StepKept(v)

\* Inside one worker, and in the rows and files: no job changes.
LEMMA InsideWorker ==
    ASSUME IInv, NEW w \in Worker, QueueInv', DataTypeOK', Grows,
           \A k \in Body : RowFacts(k)',
           UNCHANGED <<stage, type, parsed, server, dash>>,
           \A v \in Worker \ {w} : Untouched(v), WorkerFacts(w)'
    PROVE  IInv'
<1>1. ASSUME NEW j \in Job
      PROVE  JobFacts(j)'
  BY JobFactsKept DEF IInv
<1>2. DashFacts'
  BY DEF IInv, DashFacts, Grows
<1>3. ASSUME NEW v \in Worker, v # w
      PROVE  WorkerFacts(v)'
  BY <1>3, WorkerFactsKept DEF Untouched, StepKept
<1> QED BY <1>1, <1>2, <1>3 DEF IInv

\* What a handler may return with: what its patch says of its stage, and what
\* it made true if the job is to advance.
MayReturn(w, o, p) ==
    /\ p \in Patches
    /\ p.spec # None => ran[w] \in {"queued", "building"}
    /\ p.server # None => ran[w] = "building" /\ status'[p.server] # "none"
    /\ o = "advance" =>
           /\ ran[w] = "queued" /\ type[held[w]] \in Builds => p.spec # None
           /\ ran[w] = "building" /\ type[held[w]] = "create" => p.server # None
           /\ ran[w] = "probing" /\ type[held[w]] \in Builds => probed'[server[held[w]]] # None
           /\ ran[w] = "deploying" /\ type[held[w]] \in Builds =>
                  status'[server[held[w]]] \in Up /\ url'[server[held[w]]] # None

LEMMA ReturnInv ==
    ASSUME IInv, NEW w \in Worker, NEW o, NEW p, Return(w, o, p), MayReturn(w, o, p),
           StoreTypeOK', Grows, \A k \in Body : RowFacts(k)', UNCHANGED <<parsed, server, dash>>
    PROVE  IInv'
<1>1. /\ QueueInv' /\ UNCHANGED <<stage, type, held, ran>>
      /\ pc' = [pc EXCEPT ![w] = "reporting"] /\ outcome' = [outcome EXCEPT ![w] = o]
  <2>1. o \in Queue!Outcomes
    BY DEF Return, Queue!Handle, Queue!HandlerOutcomes, Queue!Outcomes
  <2> QED BY <2>1, HandleInv DEF IInv, Return, Queue!Handle, Queue!jobVars
<1>2. patch' = [patch EXCEPT ![w] = p] /\ step' = [step EXCEPT ![w] = "start"]
  BY DEF Return
<1>3. DataTypeOK'
  BY <1>2 DEF IInv, DataTypeOK, MayReturn, Steps
<1>4. \A v \in Worker \ {w} : Untouched(v)
  BY <1>1, <1>2 DEF IInv, QueueInv, Queue!TypeOK, DataTypeOK, Untouched, StepKept
<1>5. WorkerFacts(w)'
  <2>1. pc'[w] = "reporting" /\ outcome'[w] = o /\ patch'[w] = p /\ step'[w] = "start"
    BY <1>1, <1>2 DEF IInv, QueueInv, Queue!TypeOK, DataTypeOK
  <2> QED BY <1>1, <2>1 DEF MayReturn, WorkerFacts, Exists
<1> QED BY <1>1, <1>3, <1>4, <1>5, InsideWorker

LEMMA GotoInv ==
    ASSUME IInv, NEW w \in Worker, pc[w] = "running",
           NEW at \in Steps, Goto(w, at),
           UNCHANGED <<jobColumns, servers, patch, dash>>, file' \in [Slugs -> Specs \cup Torn \cup {None}]
    PROVE  IInv'
<1>1. QueueInv'
  BY DEF IInv, QueueInv, Queue!TypeOK, Queue!Busy, Holds, Goto, queueVars
<1>2. DataTypeOK'
  BY DEF IInv, DataTypeOK, StoreTypeOK, Goto, jobColumns, servers
<1>3. \A v \in Worker \ {w} : Untouched(v)
  BY DEF IInv, DataTypeOK, Untouched, StepKept, Goto, queueVars
<1>4. WorkerFacts(w)'
  BY DEF IInv, WorkerFacts, Goto, queueVars, servers, jobColumns, Exists
<1>5. Grows /\ \A k \in Body : RowFacts(k)'
  BY RowsKept DEF IInv
<1> QED BY <1>1, <1>2, <1>3, <1>4, <1>5, InsideWorker DEF Goto, queueVars, jobColumns

LEMMA EmptyPatch ==
    /\ NoPatch \in Patches /\ NoPatch.spec = None /\ NoPatch.server = None
    /\ \A s \in Specs : s # None
    /\ \A s \in Slugs : s # None
    /\ \A k \in Body : k # None
BY NoneAssumption, RequestAssumption DEF NoPatch, Patches

\* The handlers that return and leave rows and files alone.
LEMMA PlainReturnInv ==
    ASSUME IInv, NEW w \in Worker, NEW o, NEW p, Return(w, o, p), MayReturn(w, o, p),
           UNCHANGED <<jobColumns, servers, file, dash>>
    PROVE  IInv'
<1>1. Grows /\ \A k \in Body : RowFacts(k)'
  BY RowsKept DEF IInv
<1>2. StoreTypeOK'
  BY DEF IInv, DataTypeOK, StoreTypeOK, servers
<1> QED BY <1>1, <1>2, ReturnInv DEF jobColumns

LEMMA RejectsInv ==
    ASSUME IInv, NEW w \in Worker, HandlerRejects(w) \/ HandlerRetries(w) \/ HandlerThrows(w)
    PROVE  IInv'
<1>1. PICK o \in {"fail", "retry", "thrown"} : Return(w, o, NoPatch)
  BY DEF HandlerRejects, HandlerRetries, HandlerThrows
<1>2. UNCHANGED <<jobColumns, servers, file, dash>>
  BY DEF HandlerRejects, HandlerRetries, HandlerThrows
<1>3. MayReturn(w, o, NoPatch)
  BY EmptyPatch DEF MayReturn
<1> QED BY <1>1, <1>2, <1>3, PlainReturnInv

LEMMA SlugOfJob ==
    ASSUME IInv, NEW w \in Worker, Queue!Busy(w), type[held[w]] \in Builds, NEW b \in Body
    PROVE  SpecSlug(held[w], b) \in Slugs
<1>1. CASE type[held[w]] = "create"
  BY <1>1, RequestAssumption DEF SpecSlug, Plain, Slugs
<1>2. CASE type[held[w]] = "refine"
  <2>1. server[held[w]] \in Body /\ Exists(server[held[w]])
    BY <1>2, Running, EmptyPatch DEF JobFacts
  <2>2. slug[server[held[w]]] # None
    BY <2>1 DEF IInv, RowFacts
  <2> QED BY <1>2, <2>1, <2>2 DEF SpecSlug, IInv, DataTypeOK, StoreTypeOK
<1> QED BY <1>1, <1>2 DEF Builds

LEMMA GenerateInv == ASSUME IInv, NEW w \in Worker, Generate(w) PROVE IInv'
<1> DEFINE spec(b) == [slug |-> SpecSlug(held[w], b), body |-> b]
<1>1. PICK b \in Requests[held[w]] : Return(w, "advance", [spec |-> spec(b), server |-> None])
  BY DEF Generate
<1>2. Queue!Busy(w) /\ ran[w] = "queued" /\ type[held[w]] \in Builds
  BY DEF Generate, At, Queue!Busy, Builds
<1>3. held[w] \in Job
  BY <1>2, Running
<1>4. b \in Body
  BY <1>1, <1>3, RequestAssumption
<1>5. spec(b) \in Specs
  BY <1>2, <1>4, SlugOfJob DEF Specs
<1> HIDE DEF spec
<1>6. MayReturn(w, "advance", [spec |-> spec(b), server |-> None])
  BY <1>2, <1>5, EmptyPatch DEF MayReturn, Patches
<1> QED BY <1>1, <1>6, PlainReturnInv DEF Generate

\* A spec of a job in building is there, and its slug and body are ones.
LEMMA BuiltSpec ==
    ASSUME IInv, NEW w \in Worker, Queue!Busy(w), type[held[w]] \in Builds, ran[w] # "queued"
    PROVE  /\ held[w] \in Job /\ parsed[held[w]] \in Specs
           /\ parsed[held[w]].slug \in Slugs /\ parsed[held[w]].body \in Body
<1>1. held[w] \in Job /\ parsed[held[w]] # None
  BY Running DEF JobFacts, WorkStages
<1> QED BY <1>1 DEF IInv, DataTypeOK, Specs

LEMMA InsertRowInv ==
    ASSUME IInv, NEW j \in Job, NEW k \in Body, NEW s \in Slugs, ~Exists(k), InsertRow(j, k, s),
           UNCHANGED file
    PROVE  /\ StoreTypeOK' /\ Grows /\ \A i \in Body : RowFacts(i)'
           /\ status'[k] # "none"
<1>1. UserOf[j] \in Users
  BY DEF Users
<1>2. StoreTypeOK'
  BY <1>1 DEF IInv, DataTypeOK, StoreTypeOK, InsertRow, Statuses
<1>3. /\ status'[k] = "building" /\ slug'[k] = s
      /\ \A i \in Body \ {k} : status'[i] = status[i] /\ slug'[i] = slug[i]
  BY DEF IInv, DataTypeOK, StoreTypeOK, InsertRow
<1>4. Grows
  BY <1>3 DEF Grows, Exists, InsertRow, Up
<1>5. ASSUME NEW i \in Body
      PROVE  RowFacts(i)'
  BY <1>3, EmptyPatch DEF RowFacts, Exists, IInv, InsertRow
<1> QED BY <1>2, <1>3, <1>4, <1>5 DEF Exists

\* Either way the handler returns with the id of a row that exists.
LEMMA CreateServerInv ==
    ASSUME IInv, NEW w \in Worker, At(w, "building", {"create"}, step[w]),
           NEW s \in Slugs, NEW p \in Specs \cup {None}, CreateServerFromJob(w, s, p),
           UNCHANGED <<jobColumns, file, dash>>
    PROVE  IInv'
<1> DEFINE k == parsed[held[w]].body
           patch_ == [spec |-> p, server |-> k]
<1>1. Queue!Busy(w) /\ ran[w] = "building" /\ type[held[w]] = "create"
  BY DEF At, Queue!Busy
<1>2. held[w] \in Job /\ k \in Body
  BY <1>1, BuiltSpec DEF Builds
<1>3. Return(w, "advance", patch_)
  BY DEF CreateServerFromJob
<1>4. StoreTypeOK' /\ Grows /\ (\A i \in Body : RowFacts(i)') /\ status'[k] # "none"
  <2>0. UNCHANGED file
    OBVIOUS
  <2>1. CASE Exists(k) /\ UNCHANGED servers
    <3>1. Grows /\ \A i \in Body : RowFacts(i)'
      BY <2>1, RowsKept DEF IInv
    <3>2. StoreTypeOK'
      BY <2>0, <2>1 DEF IInv, DataTypeOK, StoreTypeOK, servers
    <3> QED BY <1>2, <2>1, <3>1, <3>2 DEF servers, Exists
  <2>2. CASE ~Exists(k) /\ InsertRow(held[w], k, s)
    <3> HIDE DEF k
    <3> QED BY <1>2, <2>0, <2>2, InsertRowInv
  <2> QED BY <2>1, <2>2 DEF CreateServerFromJob
<1> HIDE DEF k
<1>5. MayReturn(w, "advance", patch_)
  BY <1>1, <1>2, <1>4, EmptyPatch DEF MayReturn, Patches, Exists
<1> QED BY <1>3, <1>4, <1>5, ReturnInv DEF jobColumns

LEMMA BuildRowInv == ASSUME IInv, NEW w \in Worker, BuildRow(w) PROVE IInv'
<1> DEFINE s == parsed[held[w]].slug
<1>1. /\ At(w, "building", {"create"}, "start") /\ pc[w] = "running" /\ step[w] = "start"
      /\ UNCHANGED <<jobColumns, file, dash>>
  BY DEF BuildRow, At
<1>2. s \in Slugs
  BY <1>1, BuiltSpec DEF At, Queue!Busy, Builds
<1>3. CASE CreateServerFromJob(w, s, None)
  <2> HIDE DEF s
  <2> QED BY <1>1, <1>2, <1>3, CreateServerInv
<1>4. CASE Goto(w, "suffix") /\ UNCHANGED <<servers, patch>>
  BY <1>1, <1>4, GotoInv DEF IInv, DataTypeOK, StoreTypeOK, Steps
<1> QED BY <1>3, <1>4 DEF BuildRow

LEMMA BuildSuffixedRowInv == ASSUME IInv, NEW w \in Worker, BuildSuffixedRow(w) PROVE IInv'
<1> DEFINE spec == parsed[held[w]]
           s    == Suffixed(spec.slug, held[w])
           p    == [spec EXCEPT !.slug = s]
<1>1. /\ At(w, "building", {"create"}, "suffix") /\ step[w] = "suffix"
      /\ UNCHANGED <<jobColumns, file, dash>>
  BY DEF BuildSuffixedRow, At
<1>2. spec \in Specs /\ held[w] \in Job
  BY <1>1, BuiltSpec DEF At, Queue!Busy, Builds
<1>3. s \in Slugs
  BY <1>2 DEF Specs, Slugs, Suffixed
<1>4. p \in Specs
  BY <1>2, <1>3 DEF Specs
<1>5. CASE CreateServerFromJob(w, s, p)
  <2> HIDE DEF s, p
  <2> QED BY <1>1, <1>3, <1>4, <1>5, CreateServerInv
<1>6. CASE Return(w, "fail", NoPatch) /\ UNCHANGED servers
  <2>1. MayReturn(w, "fail", NoPatch)
    BY EmptyPatch DEF MayReturn
  <2> QED BY <1>1, <1>6, <2>1, PlainReturnInv
<1> QED BY <1>5, <1>6 DEF BuildSuffixedRow

LEMMA AdvancesInv ==
    ASSUME IInv, NEW w \in Worker, BuildRefined(w) \/ Validate(w)
    PROVE  IInv'
<1>1. Return(w, "advance", NoPatch) /\ UNCHANGED <<jobColumns, servers, file, dash>>
  BY DEF BuildRefined, Validate
<1>2. MayReturn(w, "advance", NoPatch)
  BY EmptyPatch DEF MayReturn, BuildRefined, Validate, At
<1> QED BY <1>1, <1>2, PlainReturnInv

LEMMA ProbeInv == ASSUME IInv, NEW w \in Worker, Probe(w) PROVE IInv'
<1> DEFINE k == server[held[w]]
           b == parsed[held[w]].body
<1>1. Queue!Busy(w) /\ ran[w] = "probing" /\ type[held[w]] \in Builds
  BY DEF Probe, At, Queue!Busy, Builds
<1>2. k \in Body /\ b \in Body /\ b # None
  BY <1>1, Running, BuiltSpec, EmptyPatch
<1> HIDE DEF k, b
<1>3. /\ probed' = [probed EXCEPT ![k] = b] /\ Return(w, "advance", NoPatch)
      /\ UNCHANGED <<parsed, server, status, slug, url, owner, file, dash>>
  BY DEF Probe, jobColumns, k, b
<1>4. StoreTypeOK'
  BY <1>2, <1>3 DEF IInv, DataTypeOK, StoreTypeOK
<1>5. \A i \in Body : probed'[i] = IF i = k THEN b ELSE probed[i]
  BY <1>3 DEF IInv, DataTypeOK, StoreTypeOK
<1>6. Grows
  BY <1>2, <1>3, <1>5 DEF Grows, Exists
<1>7. \A i \in Body : RowFacts(i)'
  BY <1>2, <1>3, <1>5 DEF IInv, RowFacts, Exists
<1>8. MayReturn(w, "advance", NoPatch)
  BY <1>1, <1>2, <1>5, EmptyPatch DEF MayReturn, k
<1> QED BY <1>3, <1>4, <1>6, <1>7, <1>8, ReturnInv

LEMMA DeployCheckInv == ASSUME IInv, NEW w \in Worker, DeployCheck(w) PROVE IInv'
<1>1. /\ pc[w] = "running" /\ ran[w] = "deploying" /\ UNCHANGED <<jobColumns, servers, file, dash>>
  BY DEF DeployCheck, At
<1>2. CASE AlreadyDeployed(server[held[w]]) /\ Return(w, "advance", NoPatch)
  <2>1. MayReturn(w, "advance", NoPatch)
    BY <1>1, <1>2, EmptyPatch DEF MayReturn, AlreadyDeployed, servers, Up
  <2> QED BY <1>1, <1>2, <2>1, PlainReturnInv
<1>3. CASE Goto(w, "open") /\ UNCHANGED patch
  BY <1>1, <1>3, GotoInv DEF IInv, DataTypeOK, StoreTypeOK, Steps
<1> QED BY <1>2, <1>3 DEF DeployCheck

LEMMA DeployFileInv ==
    ASSUME IInv, NEW w \in Worker, DeployOpen(w) \/ DeployWrite(w) \/ DeployWriteLost(w)
    PROVE  IInv'
<1>1. pc[w] = "running" /\ UNCHANGED <<jobColumns, servers, patch, dash>>
  BY DEF DeployOpen, DeployWrite, DeployWriteLost, At
<1>2. PICK at \in {"write", "activate"} : Goto(w, at)
  BY DEF DeployOpen, DeployWrite, DeployWriteLost
<1>3. parsed[held[w]] \in Specs
  BY BuiltSpec DEF DeployOpen, DeployWrite, DeployWriteLost, At, Queue!Busy, Builds
<1>4. file' \in [Slugs -> Specs \cup Torn \cup {None}]
  BY <1>3 DEF DeployOpen, DeployWrite, DeployWriteLost, Torn, IInv, DataTypeOK, StoreTypeOK
<1> QED BY <1>1, <1>2, <1>4, GotoInv DEF Steps

LEMMA DeleteFileInv == ASSUME IInv, NEW w \in Worker, DeleteFile(w) PROVE IInv'
<1>1. /\ pc[w] = "running" /\ UNCHANGED <<queueVars, jobColumns, servers, patch, dash>>
      /\ file' \in [Slugs -> Specs \cup Torn \cup {None}]
      /\ step' \in [Worker -> Steps] /\ \A v \in Worker \ {w} : StepKept(v)
  BY DEF DeleteFile, At, StepKept, Steps, IInv, DataTypeOK, StoreTypeOK
<1>2. QueueInv'
  BY <1>1 DEF IInv, QueueInv, Queue!TypeOK, Queue!Busy, Holds, queueVars
<1>3. DataTypeOK'
  BY <1>1 DEF IInv, DataTypeOK, StoreTypeOK, jobColumns, servers
<1>4. \A v \in Worker \ {w} : Untouched(v)
  BY <1>1 DEF IInv, DataTypeOK, Untouched, queueVars
<1>5. WorkerFacts(w)'
  BY <1>1 DEF IInv, WorkerFacts, queueVars, servers, jobColumns, Exists
<1>6. Grows /\ \A k \in Body : RowFacts(k)'
  BY <1>1, RowsKept DEF IInv
<1> QED BY <1>1, <1>2, <1>3, <1>4, <1>5, <1>6, InsideWorker DEF queueVars, jobColumns

LEMMA DeployActivateInv == ASSUME IInv, NEW w \in Worker, DeployActivate(w) PROVE IInv'
<1> DEFINE k == server[held[w]]
           s == parsed[held[w]].slug
<1>1. Queue!Busy(w) /\ ran[w] = "deploying" /\ type[held[w]] \in Builds
  BY DEF DeployActivate, At, Queue!Busy, Builds
<1>2. k \in Body /\ s \in Slugs /\ s # None
  BY <1>1, Running, BuiltSpec, EmptyPatch
<1>3. probed[k] # None /\ Exists(k)
  <2>1. JobFacts(held[w]) /\ stage[held[w]] = "deploying"
    BY <1>1, Running
  <2> QED BY <1>1, <1>2, <2>1, EmptyPatch DEF JobFacts
<1> HIDE DEF k, s
<1>4. /\ status' = [status EXCEPT ![k] = "active"] /\ url' = [url EXCEPT ![k] = s]
      /\ Return(w, "advance", NoPatch)
      /\ UNCHANGED <<parsed, server, slug, probed, owner, file, dash>>
  BY DEF DeployActivate, jobColumns, k, s
<1>5. StoreTypeOK'
  BY <1>2, <1>4 DEF IInv, DataTypeOK, StoreTypeOK, Statuses
<1>6. \A i \in Body : /\ status'[i] = IF i = k THEN "active" ELSE status[i]
                      /\ url'[i] = IF i = k THEN s ELSE url[i]
  BY <1>4 DEF IInv, DataTypeOK, StoreTypeOK
<1>7. Grows
  BY <1>2, <1>4, <1>6 DEF Grows, Exists, Up
<1>8. \A i \in Body : RowFacts(i)'
  BY <1>2, <1>3, <1>4, <1>6 DEF IInv, RowFacts, Exists
<1>9. MayReturn(w, "advance", NoPatch)
  BY <1>1, <1>2, <1>6, EmptyPatch DEF MayReturn, k, Up
<1> QED BY <1>4, <1>5, <1>7, <1>8, <1>9, ReturnInv

LEMMA DeleteRowInv == ASSUME IInv, NEW w \in Worker, DeleteRow(w) PROVE IInv'
<1> DEFINE k == server[held[w]]
<1>1. Queue!Busy(w) /\ ran[w] = "queued" /\ type[held[w]] = "delete"
  BY DEF DeleteRow, At, Queue!Busy
<1>2. k \in Body
  BY <1>1, Running
<1>3. Exists(k)
  BY <1>1, <1>2, Running, EmptyPatch DEF JobFacts
<1> HIDE DEF k
<1>4. /\ status' = [status EXCEPT ![k] = "deleted"] /\ Return(w, "advance", NoPatch)
      /\ UNCHANGED <<parsed, server, slug, url, probed, owner, file, dash>>
  BY DEF DeleteRow, jobColumns, k
<1>5. StoreTypeOK'
  BY <1>2, <1>4 DEF IInv, DataTypeOK, StoreTypeOK, Statuses
<1>6. \A i \in Body : status'[i] = IF i = k THEN "deleted" ELSE status[i]
  BY <1>4 DEF IInv, DataTypeOK, StoreTypeOK
<1>7. Grows
  BY <1>4, <1>6 DEF Grows, Exists, Up
<1>8. \A i \in Body : RowFacts(i)'
  BY <1>3, <1>4, <1>6 DEF IInv, RowFacts, Exists
<1>9. MayReturn(w, "advance", NoPatch)
  BY <1>1, EmptyPatch DEF MayReturn, Builds
<1> QED BY <1>4, <1>5, <1>7, <1>8, <1>9, ReturnInv

LEMMA HandlerInv == ASSUME IInv, NEW w \in Worker, Handler(w) PROVE IInv'
BY RejectsInv, GenerateInv, BuildRowInv, BuildSuffixedRowInv, AdvancesInv, ProbeInv,
   DeployCheckInv, DeployFileInv, DeployActivateInv, DeleteFileInv, DeleteRowInv DEF Handler

-----------------------------------------------------------------------------
(* The queue's own steps *)

Reports(w) == pc[w] \in {"reporting", "writing"}

\* Steps that change neither rows nor jobs, and at most one worker.
LEMMA QuietInv ==
    ASSUME IInv, QueueInv', NEW w \in Worker,
           UNCHANGED <<stage, type>>, UNCHANGED <<jobColumns, servers, file, dash>>,
           patch' = [patch EXCEPT ![w] = patch'[w]], step' = [step EXCEPT ![w] = step'[w]],
           step'[w] = "start",
           \/ patch'[w] = NoPatch /\ ~Reports(w)'
           \/ /\ Reports(w) /\ Reports(w)' /\ outcome'[w] \in {outcome[w], "thrown"}
              /\ held'[w] = held[w] /\ ran'[w] = ran[w] /\ patch'[w] = patch[w],
           \A v \in Worker \ {w} : /\ pc'[v] = pc[v] /\ held'[v] = held[v]
                                   /\ ran'[v] = ran[v] /\ outcome'[v] = outcome[v]
    PROVE  IInv'
<1>1. Grows /\ \A k \in Body : RowFacts(k)'
  BY RowsKept DEF IInv
<1>2. DataTypeOK'
  BY EmptyPatch DEF IInv, DataTypeOK, StoreTypeOK, Steps, servers, jobColumns
<1>3. \A v \in Worker \ {w} : Untouched(v)
  BY DEF IInv, DataTypeOK, Untouched, StepKept
<1>4. WorkerFacts(w)'
  BY EmptyPatch DEF IInv, WorkerFacts, servers, jobColumns, Exists, Reports
<1> QED BY <1>1, <1>2, <1>3, <1>4, InsideWorker DEF jobColumns

LEMMA StopInv == ASSUME IInv, NEW w \in Worker, Stop(w) PROVE IInv'
<1>1. QueueInv'
  BY CrashInv DEF Stop, IInv
<1>2. /\ pc'[w] = "idle" /\ patch'[w] = NoPatch /\ step'[w] = "start"
      /\ UNCHANGED <<stage, type>>
      /\ \A v \in Worker \ {w} : /\ pc'[v] = pc[v] /\ held'[v] = held[v]
                                 /\ ran'[v] = ran[v] /\ outcome'[v] = outcome[v]
  BY DEF Stop, Queue!Crash, Queue!BackToIdle, Queue!jobVars, ClearStep, IInv, QueueInv, Queue!TypeOK, DataTypeOK
<1>3. /\ patch' = [patch EXCEPT ![w] = patch'[w]] /\ step' = [step EXCEPT ![w] = step'[w]]
      /\ UNCHANGED <<jobColumns, servers, file, dash>>
  BY <1>2 DEF Stop, ClearStep
<1> QED BY <1>1, <1>2, <1>3, QuietInv DEF Reports

LEMMA QueueOnlyInv == ASSUME IInv, NEW w \in Worker, QueueOnly(w) PROVE IInv'
<1>0. /\ UNCHANGED <<jobColumns, servers, file, step, patch, dash>>
      /\ patch' = [patch EXCEPT ![w] = patch'[w]] /\ step' = [step EXCEPT ![w] = step'[w]]
      /\ patch'[w] = patch[w] /\ step'[w] = step[w]
  BY DEF QueueOnly, IInv, DataTypeOK
<1>1. ASSUME NEW j \in Job, Queue!Claim(w, j)
      PROVE  IInv'
  <2>1. QueueInv' /\ UNCHANGED <<stage, type>>
    BY <1>1, ClaimInv DEF IInv, Queue!Claim, Queue!TakeLock
  <2>2. pc[w] = "idle" /\ pc'[w] = "running" /\ patch[w] = NoPatch /\ step[w] = "start"
    BY <1>1 DEF IInv, WorkerFacts, QueueInv, Queue!TypeOK, Queue!Claim
  <2>3. \A v \in Worker \ {w} : /\ pc'[v] = pc[v] /\ held'[v] = held[v]
                                /\ ran'[v] = ran[v] /\ outcome'[v] = outcome[v]
    BY <1>1 DEF IInv, QueueInv, Queue!TypeOK, Queue!Claim
  <2> QED BY <1>0, <2>1, <2>2, <2>3, QuietInv DEF Reports
<1>2. ASSUME Queue!AssertLockOwned(w) \/ Queue!ReportErrors(w)
      PROVE  IInv'
  <2>1. QueueInv' /\ UNCHANGED <<stage, type, held, ran>>
    BY <1>2, AssertLockOwnedInv, ReportErrorsInv
       DEF IInv, Queue!AssertLockOwned, Queue!ReportErrors, Queue!jobVars
  <2>2. /\ pc[w] \in {"reporting", "writing"} /\ pc'[w] \in {"reporting", "writing"}
        /\ outcome'[w] \in {outcome[w], "thrown"} /\ step[w] = "start"
    BY <1>2 DEF IInv, WorkerFacts, QueueInv, Queue!TypeOK, Queue!AssertLockOwned,
                Queue!ReportErrors
  <2>3. \A v \in Worker \ {w} : /\ pc'[v] = pc[v] /\ held'[v] = held[v]
                                /\ ran'[v] = ran[v] /\ outcome'[v] = outcome[v]
    BY <1>2 DEF IInv, QueueInv, Queue!TypeOK, Queue!AssertLockOwned, Queue!ReportErrors
  <2> QED BY <1>0, <2>1, <2>2, <2>3, QuietInv DEF Reports
<1> QED BY <1>1, <1>2 DEF QueueOnly

\* A report changes one job, which only its worker holds.
LEMMA ReportedInv ==
    ASSUME IInv, NEW w \in Worker, Queue!Busy(w), NEW i \in Job, held[w] = i,
           QueueInv', StoreTypeOK', Grows, \A k \in Body : RowFacts(k)',
           UNCHANGED <<type, dash>>, Queue!BackToIdle(w), ClearStep(w),
           parsed' \in [Job -> Specs \cup {None}], server' \in [Job -> Body \cup {None}],
           \A j \in Job \ {i} : /\ stage'[j] = stage[j] /\ parsed'[j] = parsed[j]
                                /\ server'[j] = server[j],
           JobFacts(i)'
    PROVE  IInv'
<1>1. DataTypeOK'
  BY EmptyPatch DEF IInv, DataTypeOK, ClearStep, Steps
<1>2. ASSUME NEW j \in Job
      PROVE  JobFacts(j)'
  <2>1. CASE j # i
    BY <2>1, JobFactsKept DEF IInv
  <2> QED BY <2>1
<1>3. DashFacts'
  BY DEF IInv, DashFacts, Grows
<1>4. WorkerFacts(w)'
  <2>1. pc'[w] = "idle" /\ patch'[w] = NoPatch /\ step'[w] = "start"
    BY DEF Queue!BackToIdle, ClearStep, IInv, QueueInv, Queue!TypeOK, DataTypeOK
  <2> QED BY <2>1, EmptyPatch DEF WorkerFacts
<1>5. ASSUME NEW v \in Worker, v # w
      PROVE  WorkerFacts(v)'
  <2>1. Queue!Busy(v) => held[v] \in Job \ {i}
    BY <1>5, OneHolder, Running DEF IInv
  <2>2. /\ pc'[v] = pc[v] /\ held'[v] = held[v] /\ ran'[v] = ran[v]
        /\ outcome'[v] = outcome[v] /\ patch'[v] = patch[v] /\ StepKept(v)
    BY <1>5 DEF Queue!BackToIdle, ClearStep, IInv, QueueInv, Queue!TypeOK, DataTypeOK, StepKept
  <2> QED BY <2>1, <2>2, WorkerFactsKept
<1> QED BY <1>1, <1>2, <1>3, <1>4, <1>5 DEF IInv

LEMMA CompleteJobInv == ASSUME IInv, NEW w \in Worker, Complete(w) PROVE IInv'
<1> DEFINE i == held[w]
           r == ran[w]
           p == patch[w]
<1>1. /\ QueueInv' /\ Queue!Busy(w) /\ UNCHANGED type
      /\ stage' = [stage EXCEPT ![i] = NextStage(type[i], r)]
  BY CompleteInv DEF Complete, IInv
<1>2. /\ i \in Job /\ r \in WorkStages /\ stage[i] = r /\ type[i] \in JobTypes /\ JobFacts(i)
      /\ p \in Patches
  BY <1>1, Running DEF IInv, DataTypeOK
<1>3. /\ p.spec # None => r \in {"queued", "building"}
      /\ p.server # None => r = "building" /\ Exists(p.server)
      /\ r = "queued" /\ type[i] \in Builds => p.spec # None
      /\ r = "building" /\ type[i] = "create" => p.server # None
      /\ r = "probing" /\ type[i] \in Builds => probed[server[i]] # None
      /\ r = "deploying" /\ type[i] \in Builds => status[server[i]] \in Up /\ url[server[i]] # None
  BY DEF Complete, Queue!Complete, Queue!Completed, IInv, WorkerFacts
<1> HIDE DEF i, r, p
<1>4. /\ parsed' = [parsed EXCEPT ![i] = IF p.spec = None THEN @ ELSE p.spec]
      /\ server' = [server EXCEPT ![i] = IF p.server = None THEN @ ELSE p.server]
      /\ ClearStep(w) /\ Queue!BackToIdle(w) /\ UNCHANGED <<servers, file, dash>>
  BY DEF Complete, Queue!Complete, i, p
<1>5. Grows /\ (\A k \in Body : RowFacts(k)') /\ StoreTypeOK'
  BY <1>4, RowsKept DEF IInv, DataTypeOK, StoreTypeOK, servers
<1>6. /\ parsed' \in [Job -> Specs \cup {None}] /\ server' \in [Job -> Body \cup {None}]
      /\ \A j \in Job \ {i} : /\ stage'[j] = stage[j] /\ parsed'[j] = parsed[j]
                              /\ server'[j] = server[j]
  BY <1>1, <1>2, <1>4 DEF IInv, DataTypeOK, Patches, QueueInv, Queue!TypeOK
<1>7. /\ stage'[i] = NextStage(type[i], r) /\ UNCHANGED <<type, status, probed, url>>
      /\ parsed'[i] = IF p.spec = None THEN parsed[i] ELSE p.spec
      /\ server'[i] = IF p.server = None THEN server[i] ELSE p.server
  BY <1>1, <1>2, <1>4 DEF IInv, DataTypeOK, QueueInv, Queue!TypeOK, servers
<1>8. \A j \in Job : j = i => JobFacts(j)'
  <2> SUFFICES ASSUME NEW j \in Job, j = i PROVE JobFacts(j)'
    OBVIOUS
  <2>1. CASE type[i] = "delete"
    <3>1. stage'[j] = "active" /\ type'[j] = "delete"
      BY <1>7, <2>1 DEF NextStage
    <3>2. server'[j] # None /\ Exists(server'[j])
      BY <1>2, <1>3, <1>7, <2>1 DEF JobFacts, WorkStages
    <3> QED BY <1>7, <3>1, <3>2 DEF JobFacts, Exists, Builds, JobTypes
  <2>2. CASE type[i] \in Builds
    <3>1. type'[j] = type[i] /\ stage'[j] = NextStage(type[i], r)
      BY <1>7
    <3>2. CASE r = "queued"
      <4>1. stage'[j] = "building"
        BY <2>2, <3>1, <3>2 DEF NextStage, Builds
      <4>2. parsed'[j] # None /\ server'[j] = server[i]
        BY <1>3, <1>7, <2>2, <3>2
      <4> QED BY <1>2, <1>7, <3>1, <3>2, <4>1, <4>2 DEF JobFacts, Exists, Builds, JobTypes
    <3>3. CASE r = "building"
      <4>1. stage'[j] = "validating"
        BY <2>2, <3>1, <3>3 DEF NextStage, Builds
      <4>2. parsed'[j] # None /\ server'[j] # None /\ Exists(server'[j])
        BY <1>2, <1>3, <1>7, <2>2, <3>3 DEF JobFacts, Builds
      <4> QED BY <1>2, <1>7, <3>1, <3>3, <4>1, <4>2 DEF JobFacts, Exists, Builds, JobTypes
    <3>4. CASE r \in {"validating", "probing", "deploying"}
      <4>1. stage'[j] \in {"probing", "deploying", "active"}
        BY <2>2, <3>1, <3>4 DEF NextStage, Builds
      <4>2. /\ stage'[j] = "deploying" <=> r = "probing"
            /\ stage'[j] = "active" <=> r = "deploying"
        BY <2>2, <3>1, <3>4 DEF NextStage, Builds
      <4>3. server'[j] = server[i] /\ parsed'[j] # None /\ server[i] # None /\ Exists(server[i])
        BY <1>2, <1>3, <1>7, <2>2, <3>4 DEF JobFacts, Builds
      <4>4. stage'[j] \in {"deploying", "active"} => probed[server[i]] # None
        BY <1>2, <1>3, <2>2, <3>4, <4>2 DEF JobFacts, Builds
      <4> QED BY <1>3, <1>7, <2>2, <3>1, <4>1, <4>2, <4>3, <4>4
              DEF JobFacts, Exists, Builds, JobTypes
    <3> QED BY <1>2, <3>2, <3>3, <3>4 DEF WorkStages
  <2> QED BY <1>2, <2>1, <2>2 DEF JobTypes, Builds
<1>9. held[w] = i
  BY DEF i
<1> HIDE DEF i
<1> QED BY <1>1, <1>2, <1>4, <1>5, <1>6, <1>8, <1>9, ReportedInv

LEMMA FailJobInv == ASSUME IInv, NEW w \in Worker, Fail(w) PROVE IInv'
<1> DEFINE i == held[w]
           s == IF Queue!IsTerminal(w) THEN "failed" ELSE ran[w]
<1>1. /\ QueueInv' /\ Queue!Busy(w) /\ UNCHANGED type
      /\ stage' = [stage EXCEPT ![i] = s]
  BY FailInv DEF Fail, IInv
<1>2. /\ i \in Job /\ stage[i] = ran[w] /\ ran[w] \in WorkStages /\ type[i] \in JobTypes
      /\ JobFacts(i)
  BY <1>1, Running
<1>3. /\ ClearStep(w) /\ Queue!BackToIdle(w)
      /\ UNCHANGED <<parsed, server, slug, url, probed, owner, file, dash>>
      /\ status' = [k \in Body |-> IF FailsServer(w, k) THEN "failed" ELSE status[k]]
  BY DEF Fail, Queue!Fail, jobColumns
<1>4. \A k \in Body : status'[k] = IF FailsServer(w, k) THEN "failed" ELSE status[k]
  BY <1>3
<1>5. \A k \in Body : FailsServer(w, k) <=>
          s = "failed" /\ type[i] = "create" /\ server[i] = k /\ status[k] = "building"
  BY <1>2 DEF FailsServer, WorkStages
<1>6. StoreTypeOK'
  BY <1>3 DEF IInv, DataTypeOK, StoreTypeOK, Statuses
<1>7. Grows
  BY <1>3, <1>4, <1>5 DEF Grows, Exists, Up
<1>8. \A k \in Body : RowFacts(k)'
  BY <1>3, <1>4, <1>5 DEF IInv, RowFacts, Exists
<1>9. \A j \in Job \ {i} : stage'[j] = stage[j]
  BY <1>1 DEF IInv, QueueInv, Queue!TypeOK
<1>10. \A j \in Job : j = i => JobFacts(j)'
  <2> SUFFICES ASSUME NEW j \in Job, j = i PROVE JobFacts(j)'
    OBVIOUS
  <2>0. server[j] \in Body \cup {None}
    BY DEF IInv, DataTypeOK
  <2>1. stage'[j] = s /\ type'[j] = type[j] /\ s \in {"failed", ran[w]}
    BY <1>1 DEF IInv, QueueInv, Queue!TypeOK
  <2>2. CASE s = ran[w]
    BY <1>2, <1>3, <1>7, <2>1, <2>2, JobFactsKept DEF IInv
  <2>3. CASE s = "failed"
    <3>1. server[j] # None => Exists(server[j])'
      BY <1>2, <1>3, <1>7, <2>0 DEF Grows, JobFacts, Exists
    <3>2. type[j] = "create" /\ server[j] # None => status'[server[j]] # "building"
      BY <1>4, <1>5, <2>0, <2>3
    <3>3. type[j] # "create" => server[j] # None
      BY <1>2 DEF JobFacts, WorkStages
    <3> QED BY <1>2, <1>3, <2>1, <2>3, <3>1, <3>2, <3>3 DEF JobFacts, Exists, JobTypes
  <2> QED BY <2>1, <2>2, <2>3
<1>11. held[w] = i
  OBVIOUS
<1> HIDE DEF i, s
<1>12. parsed' \in [Job -> Specs \cup {None}] /\ server' \in [Job -> Body \cup {None}]
  BY <1>3 DEF IInv, DataTypeOK
<1> QED BY <1>1, <1>2, <1>3, <1>6, <1>7, <1>8, <1>9, <1>10, <1>11, <1>12, ReportedInv

-----------------------------------------------------------------------------
(* Requests, time and the dashboard *)

\* A step that leaves rows, files and workers alone, and at most inserts job i.
LEMMA RequestedInv ==
    ASSUME IInv, NEW i \in Job, QueueInv', stage[i] = "none" \/ stage'[i] = stage[i],
           UNCHANGED <<pc, held, ran, outcome>>, UNCHANGED <<servers, file, step, patch, dash>>,
           server' \in [Job -> Body \cup {None}], UNCHANGED parsed,
           \A j \in Job \ {i} : /\ stage'[j] = stage[j] /\ type'[j] = type[j]
                                /\ server'[j] = server[j],
           stage'[i] = stage[i] => type'[i] = type[i] /\ server'[i] = server[i],
           JobFacts(i)'
    PROVE  IInv'
<1>1. Grows /\ \A k \in Body : RowFacts(k)'
  BY RowsKept DEF IInv
<1>2. DataTypeOK'
  BY DEF IInv, DataTypeOK, StoreTypeOK, servers
<1>3. ASSUME NEW j \in Job
      PROVE  JobFacts(j)'
  <2>1. CASE j # i
    BY <1>1, <2>1, JobFactsKept DEF IInv
  <2> QED BY <2>1
<1>4. DashFacts'
  BY DEF IInv, DashFacts, servers
<1>5. ASSUME NEW v \in Worker
      PROVE  WorkerFacts(v)'
  <2>1. Queue!Busy(v) => held[v] \in Job /\ stage[held[v]] # "none"
    BY Running DEF WorkStages
  <2>2. Queue!Busy(v) => type'[held[v]] = type[held[v]] /\ server'[held[v]] = server[held[v]]
    BY <2>1
  <2> QED BY <1>1, <2>2, WorkerFactsKept DEF StepKept
<1> QED BY <1>1, <1>2, <1>3, <1>4, <1>5 DEF IInv

LEMMA RequestInv == ASSUME IInv, NEW i \in Job, Request(i) PROVE IInv'
<1>1. PICK t \in EnqueuedTypes : Queue!Enqueue(i, t) /\ t \in JobTypes
                                 /\ (t = "create" => UNCHANGED server)
                                 /\ (t # "create" => \E k \in Body : Exists(k)
                                                        /\ server' = [server EXCEPT ![i] = k])
  BY DEF Request, RequestCreate, RequestRefine, RequestDelete, JobTypes, jobColumns
<1>2. UNCHANGED <<servers, file, step, patch, dash>> /\ UNCHANGED parsed
  BY DEF Request, RequestCreate, RequestRefine, RequestDelete, jobColumns
<1>3. QueueInv'
  BY <1>1, EnqueueInv DEF IInv
<1>4. /\ stage[i] = "none" /\ stage'[i] = "queued" /\ type'[i] = t
      /\ UNCHANGED <<pc, held, ran, outcome>>
      /\ \A j \in Job \ {i} : stage'[j] = stage[j] /\ type'[j] = type[j]
  BY <1>1 DEF Queue!Enqueue, Queue!workerVars, IInv, QueueInv, Queue!TypeOK
<1>5. /\ server' \in [Job -> Body \cup {None}]
      /\ \A j \in Job \ {i} : server'[j] = server[j]
  BY <1>1 DEF IInv, DataTypeOK
<1>6. JobFacts(i)'
  <2>1. JobFacts(i) /\ server[i] = None
    BY <1>4 DEF IInv, JobFacts
  <2>2. t = "create" => server'[i] = None
    BY <1>1, <2>1
  <2>3. t # "create" => server'[i] # None /\ status'[server'[i]] # "none"
    BY <1>1, <1>2, EmptyPatch DEF IInv, DataTypeOK, servers, Exists
  <2> QED BY <1>1, <1>4, <2>2, <2>3 DEF JobFacts, Exists
<1> QED BY <1>2, <1>3, <1>4, <1>5, <1>6, RequestedInv

LEMMA ExpireInv == ASSUME IInv, NEW i \in Job, Expire(i) PROVE IInv'
<1>1. QueueInv'
  BY LockExpiresInv DEF Expire, IInv
<1>2. UNCHANGED <<stage, type, pc, held, ran, outcome>>
  BY DEF Expire, Queue!LockExpires, Queue!workerVars
<1>3. UNCHANGED <<parsed, server>> /\ UNCHANGED <<servers, file, step, patch, dash>>
  BY DEF Expire, jobColumns
<1>4. JobFacts(i)'
  BY <1>2, <1>3 DEF IInv, JobFacts, servers, Exists
<1> QED BY <1>1, <1>2, <1>3, <1>4, RequestedInv DEF IInv, DataTypeOK

LEMMA DashboardInv == ASSUME IInv, Dashboard PROVE IInv'
<1>0. UNCHANGED queueVars /\ UNCHANGED <<parsed, server, slug, url, probed, owner, file, step, patch>>
  BY DEF Dashboard, AuthorizeAction, PerformAction, jobColumns, servers
<1>1. QueueInv'
  BY <1>0 DEF IInv, QueueInv, Queue!TypeOK, Queue!Busy, Holds, queueVars
<1>2. ASSUME NEW op \in {"disable", "enable"}, NEW k \in Body, AuthorizeAction(op, k)
      PROVE  Grows /\ DataTypeOK' /\ (\A i \in Body : RowFacts(i)') /\ DashFacts'
  <2>1. status[k] \in {"active", "disabled"} /\ UNCHANGED servers /\ dash' = [op |-> op, on |-> k]
    BY <1>2 DEF AuthorizeAction
  <2>2. Grows /\ \A i \in Body : RowFacts(i)'
    BY <2>1, RowsKept DEF IInv
  <2>3. DataTypeOK'
    BY <1>0, <2>1 DEF IInv, DataTypeOK, StoreTypeOK, servers
  <2>4. DashFacts'
    BY <2>1 DEF IInv, RowFacts, DashFacts, Up, servers
  <2> QED BY <2>2, <2>3, <2>4
<1>3. ASSUME PerformAction
      PROVE  Grows /\ DataTypeOK' /\ (\A i \in Body : RowFacts(i)') /\ DashFacts'
  <2>1. /\ dash' = NoAction /\ dash.on \in Body
        /\ status[dash.on] \in Up /\ probed[dash.on] # None /\ url[dash.on] # None
    BY <1>3 DEF PerformAction, IInv, DashFacts
  <2>2. PICK s \in {"active", "disabled"} : status' = [status EXCEPT ![dash.on] = s]
    BY <1>3 DEF PerformAction
  <2>3. \A i \in Body : status'[i] = IF i = dash.on THEN s ELSE status[i]
    BY <2>1, <2>2 DEF IInv, DataTypeOK, StoreTypeOK
  <2>4. Grows
    BY <1>0, <2>1, <2>3 DEF Grows, Exists, Up
  <2>5. \A i \in Body : RowFacts(i)'
    BY <1>0, <2>1, <2>3 DEF IInv, RowFacts, Exists, Up
  <2>6. DataTypeOK'
    BY <1>0, <2>1, <2>2 DEF IInv, DataTypeOK, StoreTypeOK, Statuses, NoAction
  <2> QED BY <2>1, <2>4, <2>5, <2>6 DEF DashFacts
<1>4. Grows /\ DataTypeOK' /\ (\A i \in Body : RowFacts(i)') /\ DashFacts'
  BY <1>2, <1>3 DEF Dashboard
<1>5. \A j \in Job : JobFacts(j)'
  BY <1>0, <1>4, JobFactsKept DEF IInv, queueVars
<1>6. \A v \in Worker : WorkerFacts(v)'
  BY <1>0, <1>4, WorkerFactsKept DEF queueVars, StepKept
<1> QED BY <1>1, <1>4, <1>5, <1>6 DEF IInv

-----------------------------------------------------------------------------
(* Theorems *)

LEMMA InitIInv == Init => IInv
<1> SUFFICES ASSUME Init PROVE IInv
  OBVIOUS
<1>1. QueueInv
  BY InitQueueInv DEF Init
<1>2. DataTypeOK
  BY EmptyPatch DEF Init, DataTypeOK, StoreTypeOK, Statuses, NoAction, Steps
<1>3. ASSUME NEW j \in Job
      PROVE  JobFacts(j)
  BY DEF Init, Queue!Init, JobFacts, Builds
<1>4. ASSUME NEW k \in Body
      PROVE  RowFacts(k)
  BY DEF Init, RowFacts, Exists
<1>5. ASSUME NEW w \in Worker
      PROVE  WorkerFacts(w)
  BY EmptyPatch DEF Init, Queue!Init, WorkerFacts
<1>6. DashFacts
  BY DEF Init, DashFacts
<1> QED BY <1>1, <1>2, <1>3, <1>4, <1>5, <1>6 DEF IInv

LEMMA NextIInv == IInv /\ [Next]_vars => IInv'
<1>1. ASSUME IInv, UNCHANGED vars
      PROVE  IInv'
  BY <1>1 DEF vars, queueVars, jobColumns, servers, IInv, QueueInv, Queue!TypeOK, Queue!Busy,
              Holds, DataTypeOK, StoreTypeOK, JobFacts, RowFacts, DashFacts, WorkerFacts, Exists
<1>2. ASSUME IInv, Next
      PROVE  IInv'
  BY <1>2, RequestInv, ExpireInv, DashboardInv, HandlerInv, QueueOnlyInv, CompleteJobInv,
     FailJobInv, StopInv DEF Next
<1> QED BY <1>1, <1>2

LEMMA Inductive == Spec => []IInv
BY InitIInv, NextIInv, PTL DEF Spec

\* Only an enable makes a row one that was revived.
LEMMA RevivedStep ==
    ASSUME [Next]_vars
    PROVE  \/ revived' = revived
           \/ dash # NoAction /\ revived' = revived \cup {dash.on}
<1>1. CASE UNCHANGED vars
  BY <1>1 DEF vars
<1>2. ASSUME NEW j \in Job, Request(j) \/ Expire(j)
      PROVE  revived' = revived
  BY <1>2 DEF Request, RequestCreate, RequestRefine, RequestDelete, Expire
<1>3. CASE Dashboard
  BY <1>3 DEF Dashboard, AuthorizeAction, PerformAction
<1>4. ASSUME NEW w \in Worker, Handler(w)
      PROVE  revived' = revived
  BY <1>4 DEF Handler, HandlerRejects, HandlerRetries, HandlerThrows, Generate, BuildRow,
         BuildSuffixedRow, BuildRefined, Validate, Probe, DeployCheck, DeployOpen,
         DeployWrite, DeployWriteLost, DeployActivate, DeleteFile, DeleteRow
<1>5. ASSUME NEW w \in Worker, QueueOnly(w) \/ Complete(w) \/ Fail(w) \/ Stop(w)
      PROVE  revived' = revived
  BY <1>5 DEF QueueOnly, Complete, Fail, Stop
<1> QED BY <1>1, <1>2, <1>3, <1>4, <1>5 DEF Next

\* Rows, files, jobs, workers and server actions keep their types.
THEOREM TypeCorrect == Spec => []TypeOK
<1> DEFINE RevivedOK == revived \subseteq Body
<1>1. Init => RevivedOK
  BY DEF Init
<1>2. IInv /\ RevivedOK /\ [Next]_vars => RevivedOK'
  BY RevivedStep DEF IInv, DashFacts
<1>3. IInv /\ RevivedOK => TypeOK
  BY DEF IInv, QueueInv, DataTypeOK, StoreTypeOK, Patches, TypeOK
<1> QED BY <1>1, <1>2, <1>3, Inductive, PTL DEF Spec

\* No path of the stage machine, of a retry, or of the dashboard serves a
\* server that was not probed or has no URL.
THEOREM OnlyProbedServed == Spec => []ServedIsProbed
<1>1. IInv => ServedIsProbed
  BY DEF IInv, RowFacts, ServedIsProbed
<1> QED BY <1>1, Inductive, PTL

\* A create job that ended well has a server that is up or was taken down by
\* its owner, whatever other jobs of that server do.
THEOREM FinishedIsUp == Spec => []FinishedCreateIsUp
<1>1. IInv => FinishedCreateIsUp
  BY DEF IInv, JobFacts, FinishedCreateIsUp, Up
<1> QED BY <1>1, Inductive, PTL

\* A create job that failed leaves no row of its own in building.
THEOREM FailureSettlesRow == Spec => []FailedCreateSettlesRow
<1>1. IInv => FailedCreateSettlesRow
  BY DEF IInv, JobFacts, FailedCreateSettlesRow
<1> QED BY <1>1, Inductive, PTL

-----------------------------------------------------------------------------
(* What a step of one worker leaves to the others *)

WorkerStep(w) == Handler(w) \/ QueueOnly(w) \/ Complete(w) \/ Fail(w) \/ Stop(w)

OtherStep == (\E j \in Job : Request(j) \/ Expire(j)) \/ Dashboard

KeepsJob(j) == /\ stage'[j] = stage[j] /\ type'[j] = type[j]
               /\ parsed'[j] = parsed[j] /\ server'[j] = server[j]

KeepsRun(v) == Untouched(v) /\ (Queue!Busy(v) => KeepsJob(held[v]))

LEMMA HandlerFrame ==
    ASSUME IInv, NEW w \in Worker, Handler(w)
    PROVE  /\ UNCHANGED <<stage, type, parsed, server>>
           /\ \A v \in Worker \ {w} : Untouched(v)
           /\ Queue!Busy(w) /\ held'[w] = held[w] /\ ran'[w] = ran[w]
<1>1. UNCHANGED <<parsed, server>>
  BY DEF Handler, HandlerRejects, HandlerRetries, HandlerThrows, Generate, BuildRow,
         BuildSuffixedRow, BuildRefined, Validate, Probe, DeployCheck, DeployOpen,
         DeployWrite, DeployWriteLost, DeployActivate, DeleteFile, DeleteRow, jobColumns
<1>2. \/ \E o \in {"advance", "fail", "retry", "thrown"}, p \in {patch'[w]} : Return(w, o, p)
      \/ \E at \in {"suffix", "open", "write", "activate"} :
             Goto(w, at) /\ UNCHANGED patch /\ pc[w] = "running"
      \/ DeleteFile(w)
  <2>1. ASSUME NEW o, NEW p, Return(w, o, p)
        PROVE  Return(w, o, patch'[w])
    BY <2>1 DEF Return, IInv, DataTypeOK
  <2>2. HandlerRejects(w) \/ HandlerRetries(w) \/ HandlerThrows(w) \/ Generate(w) \/ BuildRefined(w)
            \/ Validate(w) \/ Probe(w) \/ DeployActivate(w) \/ DeleteRow(w)
        => \E o \in {"advance", "fail", "retry", "thrown"} : Return(w, o, patch'[w])
    BY <2>1 DEF HandlerRejects, HandlerRetries, HandlerThrows, Generate, BuildRefined,
                Validate, Probe, DeployActivate, DeleteRow
  <2>3. DeployCheck(w) \/ DeployOpen(w) \/ DeployWrite(w) \/ DeployWriteLost(w) \/ BuildRow(w) \/ BuildSuffixedRow(w)
        => \/ \E o \in {"advance", "fail", "retry", "thrown"} : Return(w, o, patch'[w])
           \/ \E at \in {"suffix", "open", "write", "activate"} :
                  Goto(w, at) /\ UNCHANGED patch /\ pc[w] = "running"
    BY <2>1 DEF DeployCheck, DeployOpen, DeployWrite, DeployWriteLost, BuildRow, BuildSuffixedRow,
                CreateServerFromJob, At
  <2> QED BY <2>2, <2>3 DEF Handler
<1>3. CASE \E at \in {"suffix", "open", "write", "activate"} :
               Goto(w, at) /\ UNCHANGED patch /\ pc[w] = "running"
  BY <1>1, <1>3 DEF Goto, queueVars, IInv, DataTypeOK, Untouched, StepKept, Queue!Busy
<1>4. ASSUME NEW o \in {"advance", "fail", "retry", "thrown"}, Return(w, o, patch'[w])
      PROVE  /\ UNCHANGED <<stage, type>> /\ \A v \in Worker \ {w} : Untouched(v)
             /\ Queue!Busy(w) /\ held'[w] = held[w] /\ ran'[w] = ran[w]
  BY <1>4 DEF Return, Queue!Handle, Queue!jobVars, IInv, DataTypeOK, QueueInv, Queue!TypeOK,
              Untouched, StepKept, Queue!Busy
<1>5. CASE DeleteFile(w)
  BY <1>1, <1>5 DEF DeleteFile, At, queueVars, IInv, DataTypeOK, Untouched, StepKept, Queue!Busy
<1> QED BY <1>1, <1>2, <1>3, <1>4, <1>5

LEMMA ReportFrame ==
    ASSUME IInv, NEW w \in Worker, Complete(w) \/ Fail(w)
    PROVE  /\ \A v \in Worker \ {w} : Untouched(v)
           /\ Queue!Busy(w) /\ \A j \in Job \ {held[w]} : KeepsJob(j)
<1>1. ClearStep(w) /\ Queue!BackToIdle(w)
  BY DEF Complete, Fail, Queue!Complete, Queue!Fail
<1>2. \A v \in Worker \ {w} : Untouched(v)
  BY <1>1 DEF ClearStep, Queue!BackToIdle, Untouched, StepKept, IInv, DataTypeOK, QueueInv, Queue!TypeOK
<1>3. /\ Queue!Busy(w) /\ UNCHANGED type
      /\ \A j \in Job \ {held[w]} : stage'[j] = stage[j]
  BY CompleteInv, FailInv DEF Complete, Fail, IInv, QueueInv, Queue!TypeOK
<1>4. \A j \in Job \ {held[w]} : parsed'[j] = parsed[j] /\ server'[j] = server[j]
  BY DEF Complete, Fail, jobColumns, IInv, DataTypeOK
<1> QED BY <1>2, <1>3, <1>4 DEF KeepsJob

LEMMA QuietFrame ==
    ASSUME IInv, NEW w \in Worker, QueueOnly(w) \/ Stop(w)
    PROVE  /\ \A v \in Worker \ {w} : Untouched(v)
           /\ UNCHANGED <<stage, type, parsed, server>> /\ UNCHANGED <<servers, file>>
           /\ step'[w] = "start" /\ patch'[w] \in {NoPatch, patch[w]}
           /\ patch'[w] # NoPatch => held'[w] = held[w] /\ ran'[w] = ran[w]
<1>1. CASE Stop(w)
  BY <1>1 DEF Stop, Queue!Crash, Queue!BackToIdle, ClearStep, Queue!jobVars, jobColumns, Untouched, StepKept, IInv,
              DataTypeOK, QueueInv, Queue!TypeOK
<1>2. CASE QueueOnly(w)
  <2>1. UNCHANGED <<parsed, server>> /\ UNCHANGED <<servers, file>> /\ UNCHANGED <<step, patch>>
    BY <1>2 DEF QueueOnly, jobColumns
  <2>2. /\ \A v \in Worker \ {w} : /\ pc'[v] = pc[v] /\ held'[v] = held[v]
                                   /\ ran'[v] = ran[v] /\ outcome'[v] = outcome[v]
        /\ UNCHANGED <<stage, type>> /\ pc[w] # "running"
        /\ pc[w] \in {"reporting", "writing"} => held'[w] = held[w] /\ ran'[w] = ran[w]
    <3>1. CASE \E j \in Job : Queue!Claim(w, j)
      BY <3>1 DEF Queue!Claim, Queue!TakeLock, IInv, QueueInv, Queue!TypeOK
    <3>2. CASE Queue!AssertLockOwned(w) \/ Queue!ReportErrors(w)
      BY <3>2 DEF Queue!AssertLockOwned, Queue!ReportErrors, Queue!jobVars, IInv, QueueInv,
                  Queue!TypeOK
    <3> QED BY <1>2, <3>1, <3>2 DEF QueueOnly
  <2> QED BY <2>1, <2>2 DEF Untouched, StepKept, IInv, WorkerFacts
<1> QED BY <1>1, <1>2

LEMMA OthersRun ==
    ASSUME IInv, NEW w \in Worker, WorkerStep(w)
    PROVE  \A v \in Worker \ {w} : KeepsRun(v)
<1> SUFFICES ASSUME NEW v \in Worker, v # w PROVE KeepsRun(v)
  OBVIOUS
<1>1. CASE Complete(w) \/ Fail(w)
  <2>1. Queue!Busy(v) => held[v] \in Job \ {held[w]}
    BY <1>1, ReportFrame, OneHolder, Running DEF IInv
  <2> QED BY <1>1, <2>1, ReportFrame DEF KeepsRun
<1>2. CASE Handler(w)
  BY <1>2, HandlerFrame DEF KeepsRun, KeepsJob
<1>3. CASE QueueOnly(w) \/ Stop(w)
  BY <1>3, QuietFrame DEF KeepsRun, KeepsJob
<1> QED BY <1>1, <1>2, <1>3 DEF WorkerStep

Inserted(j) == /\ stage[j] = "none" /\ type'[j] \in EnqueuedTypes
               /\ stage'[j] = "queued"
               /\ type'[j] = "create" => server'[j] = server[j]

LEMMA AllRun ==
    ASSUME IInv, OtherStep
    PROVE  /\ \A v \in Worker : KeepsRun(v)
           /\ UNCHANGED <<parsed, slug, url, probed, owner, file, step, patch, held, ran>>
           /\ \A j \in Job : KeepsJob(j) \/ Inserted(j)
           /\ \A k \in Body : Exists(k)' <=> Exists(k)
<1>0. \A v \in Worker : Queue!Busy(v) => held[v] \in Job /\ stage[held[v]] # "none"
  BY Running DEF WorkStages
<1>1. CASE Dashboard
  <2>1. UNCHANGED queueVars /\ UNCHANGED <<parsed, server, slug, url, probed, owner, file, step, patch>>
    BY <1>1 DEF Dashboard, AuthorizeAction, PerformAction, jobColumns, servers
  <2>2. UNCHANGED <<stage, type, pc, held, ran, outcome>>
    BY <2>1 DEF queueVars
  <2>3. ASSUME NEW k \in Body
        PROVE  Exists(k)' <=> Exists(k)
    BY <1>1 DEF Dashboard, AuthorizeAction, PerformAction, Exists, servers, IInv, DashFacts, Up,
                DataTypeOK, StoreTypeOK
  <2>4. \A v \in Worker : KeepsRun(v)
    BY <2>1, <2>2 DEF KeepsRun, KeepsJob, Untouched, StepKept
  <2> QED BY <2>1, <2>2, <2>3, <2>4 DEF KeepsJob
<1>2. ASSUME NEW i \in Job, Expire(i) \/ Request(i)
      PROVE  /\ UNCHANGED <<pc, held, ran, outcome, step, patch>>
             /\ UNCHANGED <<parsed, status, slug, url, probed, owner, file>>
             /\ \A j \in Job : KeepsJob(j) \/ Inserted(j)
  <2>1. CASE Expire(i)
    BY <2>1 DEF Expire, Queue!LockExpires, Queue!workerVars, jobColumns, servers, KeepsJob
  <2>2. CASE Request(i)
    <3>1. /\ UNCHANGED <<pc, held, ran, outcome, step, patch>>
          /\ UNCHANGED <<parsed, status, slug, url, probed, owner, file>>
      BY <2>2 DEF Request, RequestCreate, RequestRefine, RequestDelete, Queue!Enqueue,
                  Queue!workerVars, jobColumns, servers
    <3>2. Inserted(i) /\ \A j \in Job \ {i} : KeepsJob(j)
      BY <2>2 DEF Request, RequestCreate, RequestRefine, RequestDelete, Queue!Enqueue, Inserted,
                  jobColumns, KeepsJob, IInv, DataTypeOK, QueueInv, Queue!TypeOK
    <3> QED BY <3>1, <3>2
  <2> QED BY <1>2, <2>1, <2>2
<1>3. CASE \E i \in Job : Request(i) \/ Expire(i)
  <2>1. /\ UNCHANGED <<pc, held, ran, outcome, step, patch>>
        /\ UNCHANGED <<parsed, status, slug, url, probed, owner, file>>
        /\ \A j \in Job : KeepsJob(j) \/ Inserted(j)
    BY <1>2, <1>3
  <2>2. \A v \in Worker : KeepsRun(v)
    BY <1>0, <2>1 DEF Inserted, KeepsRun, Untouched, StepKept
  <2> QED BY <2>1, <2>2 DEF Exists
<1> QED BY <1>1, <1>3 DEF OtherStep

-----------------------------------------------------------------------------
(* Where every spec has a slug of its own, files are their servers' own *)

OwnNames == \A a, b \in Body : NameOf[a] = NameOf[b] => a = b

OwnSlug(k) == Plain(NameOf[k])

\* A job's spec has the slug of the server the job is for.
SpecOwned(j, spec) ==
    spec.slug = OwnSlug(IF type[j] = "create" THEN spec.body ELSE server[j])

RowOwned(k) ==
    /\ Exists(k) => slug[k] = OwnSlug(k)
    /\ url[k] \in {None, OwnSlug(k)}

JobOwned(j) ==
    /\ parsed[j] # None => SpecOwned(j, parsed[j])
    /\ type[j] = "create" /\ stage[j] = "queued" => server[j] = None
    /\ type[j] = "create" /\ server[j] # None => parsed[j] # None /\ server[j] = parsed[j].body

WorkerOwned(w) ==
    /\ step[w] # "suffix"
    /\ patch[w].spec # None => ran[w] = "queued" /\ SpecOwned(held[w], patch[w].spec)
    /\ patch[w].server # None =>
           type[held[w]] = "create" /\ patch[w].server = parsed[held[w]].body

Late == {"deploying"} \cup Terminal

Deployed(j, s) == /\ server[j] # None /\ s = OwnSlug(server[j])
                  /\ parsed[j] = file[s] /\ stage[j] \in Late

FileOwned(s) == file[s] \in Specs => \E j \in Job : Deployed(j, s)

OwnInv ==
    /\ \A k \in Body : RowOwned(k)
    /\ \A j \in Job : JobOwned(j)
    /\ \A w \in Worker : WorkerOwned(w)
    /\ \A s \in Slugs : FileOwned(s)

\* What a step has to show: what it did to one row, one job, one worker, one
\* file.
LEMMA OwnInvKept ==
    ASSUME IInv, OwnInv,
           \A k \in Body : RowOwned(k)',
           \A j \in Job : KeepsJob(j) \/ JobOwned(j)',
           \A v \in Worker : KeepsRun(v) \/ WorkerOwned(v)',
           \A s \in Slugs : file'[s] \notin Specs \/ file'[s] = file[s] \/ FileOwned(s)',
           \A j \in Job : stage[j] \in Late =>
               parsed'[j] = parsed[j] /\ server'[j] = server[j] /\ stage'[j] \in Late
    PROVE  OwnInv'
<1>1. ASSUME NEW j \in Job
      PROVE  JobOwned(j)'
  BY DEF OwnInv, JobOwned, KeepsJob, SpecOwned
<1>2. ASSUME NEW v \in Worker, KeepsRun(v)
      PROVE  WorkerOwned(v)'
  <2>1. patch[v] # NoPatch => Queue!Busy(v)
    BY DEF IInv, WorkerFacts, Queue!Busy
  <2>2. CASE patch[v] = NoPatch
    BY <1>2, <2>2, EmptyPatch DEF KeepsRun, Untouched, StepKept, OwnInv, WorkerOwned
  <2>3. CASE Queue!Busy(v)
    BY <1>2, <2>3 DEF KeepsRun, KeepsJob, Untouched, StepKept, OwnInv, WorkerOwned, SpecOwned
  <2> QED BY <2>1, <2>2, <2>3
<1>3. ASSUME NEW s \in Slugs, file'[s] = file[s], file'[s] \in Specs
      PROVE  FileOwned(s)'
  <2>1. PICK j \in Job : Deployed(j, s)
    BY <1>3 DEF OwnInv, FileOwned
  <2>2. Deployed(j, s)'
    BY <1>3, <2>1 DEF Deployed
  <2> QED BY <2>2 DEF FileOwned
<1>4. ASSUME NEW s \in Slugs
      PROVE  FileOwned(s)'
  BY <1>3 DEF FileOwned
<1> QED BY <1>1, <1>2, <1>4 DEF OwnInv

LEMMA OtherOwned == ASSUME IInv, OwnInv, OtherStep PROVE OwnInv'
<1>1. \A k \in Body : RowOwned(k)'
  BY AllRun DEF OwnInv, RowOwned
<1>2. ASSUME NEW j \in Job, Inserted(j)
      PROVE  JobOwned(j)'
  <2>1. parsed'[j] = None
    BY <1>2, AllRun DEF Inserted, IInv, JobFacts
  <2>2. type'[j] = "create" => server'[j] = None
    BY <1>2 DEF Inserted, IInv, JobFacts
  <2> QED BY <2>1, <2>2 DEF JobOwned
<1>3. ASSUME NEW j \in Job, stage[j] \in Late
      PROVE  parsed'[j] = parsed[j] /\ server'[j] = server[j] /\ stage'[j] \in Late
  BY <1>3, AllRun DEF Inserted, KeepsJob, Late, Terminal
<1> QED BY <1>1, <1>2, <1>3, AllRun, OwnInvKept

LEMMA QuietOwned == ASSUME IInv, OwnInv, NEW w \in Worker, QueueOnly(w) \/ Stop(w) PROVE OwnInv'
<1>0. /\ \A v \in Worker \ {w} : KeepsRun(v)
      /\ UNCHANGED <<stage, type, parsed, server, status, slug, url, file>>
      /\ step'[w] = "start" /\ patch'[w] \in {NoPatch, patch[w]}
      /\ patch'[w] # NoPatch => held'[w] = held[w] /\ ran'[w] = ran[w]
  BY QuietFrame, OthersRun DEF WorkerStep, servers
<1>1. \A k \in Body : RowOwned(k)'
  BY <1>0 DEF OwnInv, RowOwned, Exists
<1>2. \A j \in Job : KeepsJob(j)
  BY <1>0 DEF KeepsJob
<1>3. WorkerOwned(w)'
  BY <1>0, EmptyPatch DEF OwnInv, WorkerOwned, SpecOwned
<1> QED BY <1>0, <1>1, <1>2, <1>3, OwnInvKept

LEMMA FailOwned == ASSUME IInv, OwnInv, NEW w \in Worker, Fail(w) PROVE OwnInv'
<1>0. /\ \A v \in Worker \ {w} : KeepsRun(v)
      /\ \A j \in Job \ {held[w]} : KeepsJob(j)
      /\ Queue!Busy(w)
  BY ReportFrame, OthersRun DEF WorkerStep
<1>1. UNCHANGED <<type, parsed, server, slug, url, file>> /\ patch'[w] = NoPatch /\ step'[w] = "start"
  BY FailInv DEF Fail, ClearStep, jobColumns, IInv, DataTypeOK
<1>2. \A k \in Body : Exists(k)' => Exists(k)
  BY DEF Fail, FailsServer, Exists
<1>3. \A k \in Body : RowOwned(k)'
  BY <1>1, <1>2 DEF OwnInv, RowOwned
<1>4. WorkerOwned(w)'
  BY <1>1, EmptyPatch DEF WorkerOwned
<1>5. \A j \in Job : j = held[w] => stage[j] = ran[w] /\ stage'[j] \in {"failed", ran[w]}
  BY <1>0, Running, FailInv DEF Fail, IInv, QueueInv, Queue!TypeOK
<1>6. \A j \in Job : JobOwned(j)'
  BY <1>0, <1>1, <1>5 DEF OwnInv, JobOwned, SpecOwned, KeepsJob
<1>7. \A j \in Job : stage[j] \in Late => stage'[j] \in Late
  BY <1>0, <1>5 DEF KeepsJob, Late, Terminal
<1> QED BY <1>0, <1>1, <1>3, <1>4, <1>6, <1>7, OwnInvKept

LEMMA CompleteOwned == ASSUME IInv, OwnInv, NEW w \in Worker, Complete(w) PROVE OwnInv'
<1> DEFINE i == held[w]
           r == ran[w]
           p == patch[w]
<1>0. /\ \A v \in Worker \ {w} : KeepsRun(v)
      /\ \A j \in Job \ {i} : KeepsJob(j)
      /\ Queue!Busy(w)
  BY ReportFrame, OthersRun DEF WorkerStep
<1>1. i \in Job /\ stage[i] = r /\ r \in WorkStages /\ JobFacts(i)
  BY <1>0, Running
<1>2. /\ stage'[i] = NextStage(type[i], r) /\ UNCHANGED type
      /\ parsed'[i] = IF p.spec = None THEN parsed[i] ELSE p.spec
      /\ server'[i] = IF p.server = None THEN server[i] ELSE p.server
      /\ UNCHANGED <<status, slug, url, file>> /\ patch'[w] = NoPatch /\ step'[w] = "start"
  BY <1>1, CompleteInv DEF Complete, ClearStep, servers, IInv, DataTypeOK, QueueInv, Queue!TypeOK
<1>3. /\ p.spec # None => r = "queued" /\ SpecOwned(i, p.spec)
      /\ p.server # None => r = "building" /\ type[i] = "create" /\ p.server = parsed[i].body
  BY DEF IInv, OwnInv, WorkerFacts, WorkerOwned
<1>4. JobOwned(i)
  BY <1>1 DEF OwnInv
<1>5. stage'[i] # "queued"
  BY <1>2 DEF NextStage
<1>6. r = "deploying" => stage'[i] = "active"
  BY <1>2 DEF NextStage
<1> HIDE DEF i, r, p
<1>7. \A j \in Job : j = i => JobOwned(j)'
  <2> SUFFICES ASSUME NEW j \in Job, j = i PROVE JobOwned(j)'
    OBVIOUS
  <2>1. parsed'[j] # None => SpecOwned(j, parsed[j])' 
    <3>1. CASE p.spec = None
      BY <1>2, <1>3, <1>4, <3>1 DEF JobOwned, SpecOwned
    <3>2. CASE p.spec # None
      BY <1>2, <1>3, <3>2 DEF SpecOwned
    <3> QED BY <3>1, <3>2
  <2>2. type'[j] = "create" /\ server'[j] # None => parsed'[j] # None /\ server'[j] = parsed'[j].body
    <3>1. CASE p.server = None /\ p.spec = None
      BY <1>2, <1>4, <3>1 DEF JobOwned
    <3>2. CASE p.server # None
      <4>1. p.spec = None /\ r = "building"
        BY <1>3, <3>2
      <4>2. type[i] = "create" => parsed[i] # None
        BY <1>1, <4>1 DEF JobFacts, Builds
      <4> QED BY <1>2, <1>3, <3>2, <4>1, <4>2
    <3>3. CASE p.server = None /\ p.spec # None
      <4>1. type[i] = "create" => server[i] = None
        BY <1>1, <1>3, <1>4, <3>3 DEF JobOwned
      <4> QED BY <1>2, <3>3, <4>1
    <3> QED BY <3>1, <3>2, <3>3
  <2> QED BY <1>5, <2>1, <2>2 DEF JobOwned
<1>8. WorkerOwned(w)'
  BY <1>2, EmptyPatch DEF WorkerOwned
<1>9. \A k \in Body : RowOwned(k)'
  BY <1>2 DEF OwnInv, RowOwned, Exists
<1>10. ASSUME NEW j \in Job, stage[j] \in Late
       PROVE  parsed'[j] = parsed[j] /\ server'[j] = server[j] /\ stage'[j] \in Late
  <2>1. CASE j = i
    <3>1. r = "deploying"
      BY <1>1, <1>10, <2>1 DEF Late, WorkStages, Terminal
    <3> QED BY <1>2, <1>3, <1>6, <2>1, <3>1 DEF Late, Terminal
  <2>2. CASE j # i
    BY <1>0, <1>10, <2>2 DEF KeepsJob
  <2> QED BY <2>1, <2>2
<1> QED BY <1>0, <1>2, <1>7, <1>8, <1>9, <1>10, OwnInvKept

\* Handlers leave the jobs alone: what is left to show is about rows, files and
\* the worker itself.
LEMMA HandlerOwnedBy ==
    ASSUME IInv, OwnInv, NEW w \in Worker, Handler(w),
           \A k \in Body : RowOwned(k)', WorkerOwned(w)',
           \A s \in Slugs : file'[s] \notin Specs \/ file'[s] = file[s] \/ FileOwned(s)'
    PROVE  OwnInv'
BY HandlerFrame, OthersRun, OwnInvKept DEF WorkerStep, KeepsJob

\* The spec that a job of an existing server carries has that server's slug.
LEMMA DeployedSlug ==
    ASSUME IInv, OwnInv, NEW j \in Job, type[j] \in Builds, parsed[j] # None, server[j] # None
    PROVE  parsed[j].slug = OwnSlug(server[j])
BY DEF OwnInv, JobOwned, SpecOwned, Builds

LEMMA PlainOwned ==
    ASSUME IInv, OwnInv, NEW w \in Worker, Handler(w), UNCHANGED <<status, slug, url, file>>,
           step'[w] # "suffix", patch'[w] = NoPatch
    PROVE  OwnInv'
<1>1. \A k \in Body : RowOwned(k)'
  BY DEF OwnInv, RowOwned, Exists
<1>2. WorkerOwned(w)'
  BY EmptyPatch DEF WorkerOwned
<1> QED BY <1>1, <1>2, HandlerOwnedBy

LEMMA GenerateOwned == ASSUME IInv, OwnInv, NEW w \in Worker, Generate(w) PROVE OwnInv'
<1> DEFINE j == held[w]
<1>0. Handler(w) /\ Queue!Busy(w) /\ ran[w] = "queued" /\ type[j] \in Builds
  BY DEF Handler, Generate, At, Queue!Busy, Builds
<1>1. PICK b \in Requests[j] :
          patch'[w] = [spec |-> [slug |-> SpecSlug(j, b), body |-> b], server |-> None]
  BY DEF Generate, Return, IInv, DataTypeOK
<1>2. UNCHANGED <<status, slug, url, file>> /\ step'[w] = "start"
  BY DEF Generate, Return, servers, IInv, DataTypeOK
<1>3. j \in Job /\ UNCHANGED <<type, server>> /\ held'[w] = j /\ ran'[w] = "queued"
  BY <1>0, Running, HandlerFrame
<1>4. SpecSlug(j, b) = OwnSlug(IF type[j] = "create" THEN b ELSE server[j])
  <2>1. CASE type[j] = "create"
    BY <2>1 DEF SpecSlug, OwnSlug
  <2>2. CASE type[j] = "refine"
    <3>1. server[j] \in Body /\ Exists(server[j])
      BY <1>0, <2>2, Running, EmptyPatch DEF JobFacts
    <3> QED BY <2>2, <3>1 DEF SpecSlug, OwnInv, RowOwned
  <2> QED BY <1>0, <2>1, <2>2 DEF Builds
<1>5. WorkerOwned(w)'
  BY <1>1, <1>2, <1>3, <1>4 DEF WorkerOwned, SpecOwned
<1>6. \A k \in Body : RowOwned(k)'
  BY <1>2 DEF OwnInv, RowOwned, Exists
<1> QED BY <1>0, <1>2, <1>5, <1>6, HandlerOwnedBy

LEMMA BuildRowOwned ==
    ASSUME OwnNames, IInv, OwnInv, NEW w \in Worker, BuildRow(w) \/ BuildSuffixedRow(w)
    PROVE  OwnInv'
<1> DEFINE j == held[w]
           k == parsed[j].body
           s == parsed[j].slug
<1>0. Handler(w) /\ Queue!Busy(w) /\ ran[w] = "building" /\ type[j] = "create"
  BY DEF Handler, BuildRow, BuildSuffixedRow, At, Queue!Busy
<1>1. j \in Job /\ k \in Body /\ s \in Slugs /\ parsed[j] # None
  BY <1>0, BuiltSpec, EmptyPatch DEF Builds
<1>2. s = OwnSlug(k)
  BY <1>0, <1>1 DEF OwnInv, JobOwned, SpecOwned
<1>3. ~SlugConflict(w, s)
  <2> SUFFICES ASSUME NEW i \in Body, Exists(i), slug[i] = s PROVE i = k
    BY DEF SlugConflict, Taken
  <2>1. OwnSlug(i) = OwnSlug(k)
    BY <1>2 DEF OwnInv, RowOwned
  <2> QED BY <1>1, <2>1 DEF OwnSlug, Plain, OwnNames
<1>4. CreateServerFromJob(w, s, None) /\ UNCHANGED <<file, url>>
  BY <1>3 DEF BuildRow, BuildSuffixedRow, OwnInv, WorkerOwned, At, CreateServerFromJob,
              InsertRow, servers
<1>5. /\ patch'[w] = [spec |-> None, server |-> k] /\ step'[w] = "start"
      /\ UNCHANGED <<type, parsed, held>>
  BY <1>0, <1>4, HandlerFrame
     DEF CreateServerFromJob, Return, Queue!Handle, IInv, DataTypeOK
<1>6. WorkerOwned(w)'
  BY <1>0, <1>5 DEF WorkerOwned
<1> HIDE DEF j, k, s
<1>7. ASSUME NEW i \in Body
      PROVE  RowOwned(i)'
  <2>1. CASE UNCHANGED servers
    BY <2>1 DEF OwnInv, RowOwned, Exists, servers
  <2>2. CASE InsertRow(j, k, s)
    <3>1. /\ Exists(i)' => Exists(i) \/ i = k
          /\ slug'[i] = IF i = k THEN s ELSE slug[i]
      BY <2>2 DEF InsertRow, Exists, IInv, DataTypeOK, StoreTypeOK
    <3> QED BY <1>2, <1>4, <3>1 DEF OwnInv, RowOwned
  <2> QED BY <1>4, <2>1, <2>2 DEF CreateServerFromJob, j, k
<1> QED BY <1>0, <1>4, <1>6, <1>7, HandlerOwnedBy

LEMMA DeployOwned ==
    ASSUME IInv, OwnInv, NEW w \in Worker, DeployOpen(w) \/ DeployWrite(w) \/ DeployActivate(w)
    PROVE  OwnInv'
<1> DEFINE j == held[w]
           k == server[j]
           spec == parsed[j]
<1>0. Handler(w) /\ Queue!Busy(w) /\ ran[w] = "deploying" /\ type[j] \in Builds
  BY DEF Handler, DeployOpen, DeployWrite, DeployActivate, At, Queue!Busy, Builds
<1>1. /\ j \in Job /\ k \in Body /\ spec \in Specs /\ spec.slug \in Slugs
      /\ k # None /\ spec # None /\ stage[j] = "deploying"
  BY <1>0, Running, BuiltSpec, EmptyPatch
<1>2. spec.slug = OwnSlug(k)
  BY <1>0, <1>1, DeployedSlug
<1>3. UNCHANGED <<stage, type, parsed, server>>
  BY <1>0, HandlerFrame
<1>4. patch'[w] = NoPatch /\ step'[w] # "suffix" /\ UNCHANGED slug
  BY DEF DeployOpen, DeployWrite, DeployActivate, Goto, Return, At, IInv, DataTypeOK, WorkerFacts, servers
<1>5. WorkerOwned(w)'
  BY <1>4, EmptyPatch DEF WorkerOwned
<1>6. CASE DeployOpen(w) \/ DeployWrite(w)
  <2>1. /\ \E content \in Torn \cup {spec} : file' = [file EXCEPT ![spec.slug] = content]
        /\ UNCHANGED <<status, url>>
    BY <1>6 DEF DeployOpen, DeployWrite, Torn, servers
  <2>2. ASSUME NEW s \in Slugs, s = spec.slug
        PROVE  FileOwned(s)'
    <3>1. file'[s] \in Torn \cup {spec}
      BY <2>1, <2>2 DEF IInv, DataTypeOK, StoreTypeOK
    <3>2. CASE file'[s] = spec
      <4>1. \A i \in Job : i = j => Deployed(i, s)'
        BY <1>1, <1>2, <1>3, <2>2, <3>2 DEF Deployed, Late
      <4> QED BY <1>1, <4>1 DEF FileOwned
    <3>3. CASE file'[s] \in Torn
      BY <3>3, TornAssumption DEF FileOwned
    <3> QED BY <3>1, <3>2, <3>3
  <2> HIDE DEF spec
  <2>3. \A s \in Slugs : s # spec.slug => file'[s] = file[s]
    BY <2>1 DEF IInv, DataTypeOK, StoreTypeOK
  <2>4. \A i \in Body : RowOwned(i)'
    BY <1>4, <2>1 DEF OwnInv, RowOwned, Exists
  <2> QED BY <1>0, <1>5, <2>2, <2>3, <2>4, HandlerOwnedBy
<1>7. CASE DeployActivate(w)
  <2>1. /\ url' = [url EXCEPT ![k] = spec.slug] /\ status' = [status EXCEPT ![k] = "active"]
        /\ UNCHANGED file
    BY <1>7 DEF DeployActivate
  <2>2. Exists(k)
    BY <1>0, <1>1, Running DEF JobFacts
  <2> HIDE DEF k, spec
  <2>3. ASSUME NEW i \in Body
        PROVE  RowOwned(i)'
    <3>1. /\ Exists(i)' => Exists(i)
          /\ url'[i] = IF i = k THEN OwnSlug(k) ELSE url[i]
      BY <1>2, <2>1, <2>2 DEF Exists, IInv, DataTypeOK, StoreTypeOK
    <3> QED BY <1>4, <3>1 DEF OwnInv, RowOwned
  <2> QED BY <1>0, <1>5, <2>1, <2>3, HandlerOwnedBy
<1> QED BY <1>6, <1>7

LEMMA DeleteOwned ==
    ASSUME IInv, OwnInv, NEW w \in Worker, DeleteFile(w) \/ DeleteRow(w)
    PROVE  OwnInv'
<1> DEFINE k == server[held[w]]
<1>0. /\ Handler(w) /\ Queue!Busy(w) /\ type[held[w]] = "delete"
      /\ patch'[w] = NoPatch /\ step'[w] # "suffix" /\ UNCHANGED <<slug, url>>
  BY DEF Handler, DeleteFile, DeleteRow, At, Goto, Return, Queue!Busy, IInv, DataTypeOK,
         WorkerFacts, servers
<1>1. k \in Body /\ Exists(k)
  BY <1>0, Running, EmptyPatch DEF JobFacts
<1>2. WorkerOwned(w)'
  BY <1>0, EmptyPatch DEF WorkerOwned
<1>3. \A s \in Slugs : file'[s] \notin Specs \/ file'[s] = file[s]
  BY EmptyPatch DEF DeleteFile, DeleteRow, IInv, DataTypeOK, StoreTypeOK
<1>4. \A i \in Body : Exists(i)' => Exists(i)
  BY <1>1 DEF DeleteFile, DeleteRow, Exists, servers, IInv, DataTypeOK, StoreTypeOK
<1>5. \A i \in Body : RowOwned(i)'
  BY <1>0, <1>4 DEF OwnInv, RowOwned
<1> QED BY <1>0, <1>2, <1>3, <1>5, HandlerOwnedBy

LEMMA RestOwned ==
    ASSUME IInv, OwnInv, NEW w \in Worker,
           \/ HandlerRejects(w) \/ HandlerRetries(w) \/ HandlerThrows(w)
           \/ BuildRefined(w) \/ Validate(w) \/ Probe(w) \/ DeployCheck(w) \/ DeployWriteLost(w)
    PROVE  OwnInv'
<1>1. Handler(w)
  BY DEF Handler
<1>2. UNCHANGED <<status, slug, url, file>>
  BY DEF HandlerRejects, HandlerRetries, HandlerThrows, BuildRefined, Validate, Probe,
         DeployCheck, DeployWriteLost, servers
<1>3. step'[w] # "suffix" /\ patch'[w] = NoPatch
  BY DEF HandlerRejects, HandlerRetries, HandlerThrows, BuildRefined, Validate, Probe,
         DeployCheck, DeployWriteLost, Return, Goto, At, IInv, DataTypeOK, WorkerFacts
<1> QED BY <1>1, <1>2, <1>3, PlainOwned

LEMMA NextOwnInv == OwnNames /\ IInv /\ OwnInv /\ [Next]_vars => OwnInv'
<1> SUFFICES ASSUME OwnNames, IInv, OwnInv, [Next]_vars PROVE OwnInv'
  OBVIOUS
<1>1. ASSUME NEW w \in Worker, Handler(w)
      PROVE  OwnInv'
  BY <1>1, GenerateOwned, BuildRowOwned, DeployOwned, DeleteOwned, RestOwned DEF Handler
<1>2. ASSUME NEW w \in Worker, WorkerStep(w)
      PROVE  OwnInv'
  BY <1>1, <1>2, QuietOwned, CompleteOwned, FailOwned DEF WorkerStep
<1>3. CASE UNCHANGED vars
  BY <1>3 DEF vars, queueVars, jobColumns, servers, OwnInv, RowOwned, JobOwned, WorkerOwned,
              FileOwned, Deployed, SpecOwned, Exists
<1> QED BY <1>2, <1>3, OtherOwned DEF Next, OtherStep, WorkerStep

LEMMA OwnInductive == OwnNames => (Spec => [](IInv /\ OwnInv))
<1> SUFFICES ASSUME OwnNames PROVE Spec => [](IInv /\ OwnInv)
  OBVIOUS
<1>1. Init => OwnInv
  BY EmptyPatch DEF Init, Queue!Init, OwnInv, RowOwned, JobOwned, WorkerOwned, FileOwned, Exists
<1>2. IInv /\ OwnInv /\ [Next]_vars => OwnInv'
  BY NextOwnInv
<1> QED BY <1>1, <1>2, Inductive, PTL DEF Spec

\* Where every spec has a slug of its own, a server's file only ever holds what
\* a job of that server deployed, and its public URL is its own slug: nothing
\* that jobs of other servers do reaches either.
THEOREM OwnFiles == OwnNames => (Spec => []FilesFromOwnJobs)
<1> SUFFICES ASSUME OwnNames PROVE Spec => []FilesFromOwnJobs
  OBVIOUS
<1>1. ASSUME IInv, OwnInv
      PROVE  FilesFromOwnJobs
  <2> SUFFICES ASSUME NEW k \in Body, Exists(k)
               PROVE  /\ url[k] \in {None, slug[k]}
                      /\ file[slug[k]] \in Specs =>
                             \E j \in Job : /\ server[j] = k /\ parsed[j] = file[slug[k]]
                                            /\ stage[j] \in {"deploying"} \cup Terminal
    BY DEF FilesFromOwnJobs
  <2>1. slug[k] = OwnSlug(k) /\ url[k] \in {None, OwnSlug(k)} /\ slug[k] \in Slugs
    BY <1>1, EmptyPatch DEF OwnInv, RowOwned, IInv, RowFacts, DataTypeOK, StoreTypeOK
  <2>2. ASSUME file[slug[k]] \in Specs
        PROVE  \E j \in Job : Deployed(j, slug[k]) /\ server[j] = k
    <3>1. PICK j \in Job : Deployed(j, slug[k])
      BY <1>1, <2>1, <2>2 DEF OwnInv, FileOwned
    <3>2. server[j] \in Body /\ OwnSlug(server[j]) = OwnSlug(k)
      BY <1>1, <2>1, <3>1 DEF Deployed, IInv, DataTypeOK
    <3>3. server[j] = k
      BY <3>2 DEF OwnSlug, Plain, OwnNames
    <3> QED BY <3>1, <3>3
  <2> QED BY <2>1, <2>2 DEF Deployed, Late
<1> QED BY <1>1, OwnInductive, PTL

-----------------------------------------------------------------------------
(* There, an active server has its file, and a sole job's deployment is whole *)

DeploySteps == {"open", "write", "lost", "activate"}

DeleteAsked(k) == \E j \in Job : type[j] = "delete" /\ server[j] = k

Undisturbed(k) == OnlyJobOf(k) /\ k \notin revived

\* What a row's URL leads to, and that a job deployed it.
RowFiles(k) ==
    /\ url[k] # None => /\ file[OwnSlug(k)] # None \/ DeleteAsked(k)
                        /\ \E j \in Job : type[j] \in Builds /\ server[j] = k
    /\ status[k] = "active" /\ Undisturbed(k) => file[OwnSlug(k)] \in Specs

\* How far a deployment is, for a server that is not active if nobody disturbs it.
DeployFiles(w, k) ==
    /\ ran[w] = "deploying" /\ type[held[w]] \in Builds
    /\ step[w] \in {"write", "activate"} => file[OwnSlug(k)] # None \/ DeleteAsked(k)
    /\ step[w] = "lost" => DeleteAsked(k)
    /\ Undisturbed(k) => /\ status[k] # "active"
                         /\ step[w] = "write" => file[OwnSlug(k)] = Empty
                         /\ step[w] = "activate" => file[OwnSlug(k)] \in Specs

WorkerFiles(w) == step[w] \in DeploySteps => DeployFiles(w, server[held[w]])

FileInv ==
    /\ \A k \in Body : RowFiles(k)
    /\ \A w \in Worker : WorkerFiles(w)

\* A job keeps its server and its type, and a revived row stays one.
Sticky ==
    /\ \A j \in Job : server[j] # None => server'[j] = server[j] /\ type'[j] = type[j]
    /\ revived \subseteq revived'

LEMMA NextSticky == ASSUME IInv, OwnInv, Next PROVE Sticky
<1>1. revived \subseteq revived'
  BY RevivedStep DEF vars
<1>2. ASSUME NEW j \in Job, server[j] # None, KeepsJob(j) \/ Inserted(j)
      PROVE  server'[j] = server[j] /\ type'[j] = type[j]
  BY <1>2 DEF KeepsJob, Inserted, IInv, JobFacts
<1>3. CASE OtherStep
  BY <1>1, <1>2, <1>3, AllRun DEF Sticky
<1>4. ASSUME NEW w \in Worker, Handler(w) \/ QueueOnly(w) \/ Stop(w)
      PROVE  Sticky
  BY <1>1, <1>4, HandlerFrame, QuietFrame DEF Sticky
<1>5. ASSUME NEW w \in Worker, Complete(w) \/ Fail(w)
      PROVE  Sticky
  <2>1. /\ \A j \in Job \ {held[w]} : KeepsJob(j)
        /\ held[w] \in Job /\ UNCHANGED type
    BY <1>5, ReportFrame, Running, CompleteInv, FailInv DEF Complete, Fail, IInv
  <2>2. CASE Fail(w)
    BY <1>1, <2>2, <2>1 DEF Fail, jobColumns, Sticky
  <2>3. CASE Complete(w)
    <3>1. server'[held[w]] = IF patch[w].server = None THEN server[held[w]] ELSE patch[w].server
      BY <2>1, <2>3 DEF Complete, IInv, DataTypeOK
    <3>2. server[held[w]] # None => server'[held[w]] = server[held[w]]
      BY <2>1, <3>1 DEF OwnInv, WorkerOwned, JobOwned
    <3> QED BY <1>1, <2>1, <3>2 DEF KeepsJob, Sticky
  <2> QED BY <1>5, <2>2, <2>3
<1> QED BY <1>3, <1>4, <1>5 DEF Next, OtherStep

\* So what was asked stays asked, and a row that is undisturbed was so before.
LEMMA StickyFacts ==
    ASSUME Sticky, NEW k \in Body
    PROVE  /\ DeleteAsked(k) => DeleteAsked(k)'
           /\ (\E j \in Job : type[j] \in Builds /\ server[j] = k)
                  => \E j \in Job : type'[j] \in Builds /\ server'[j] = k
           /\ Undisturbed(k)' => Undisturbed(k)
<1>1. k # None
  BY EmptyPatch
<1>2. \A j \in Job : server[j] = k => server'[j] = k /\ type'[j] = type[j]
  BY <1>1 DEF Sticky
<1>3. Undisturbed(k)' => Undisturbed(k)
  BY <1>2 DEF Undisturbed, OnlyJobOf, Sticky
<1> QED BY <1>2, <1>3 DEF DeleteAsked

\* No worker makes row k active, and its file stays.
SameRow(k) ==
    /\ status'[k] = "active" => status[k] = "active" \/ k \in revived'
    /\ file'[OwnSlug(k)] = file[OwnSlug(k)]

LEMMA RowFilesKept ==
    ASSUME Sticky, NEW k \in Body, RowFiles(k), SameRow(k), url'[k] = url[k]
    PROVE  RowFiles(k)'
BY StickyFacts DEF RowFiles, SameRow, Undisturbed

LEMMA DeployFilesKept ==
    ASSUME Sticky, NEW k \in Body, NEW v \in Worker, DeployFiles(v, k), SameRow(k),
           step'[v] = step[v], ran'[v] = ran[v], type'[held'[v]] = type[held[v]]
    PROVE  DeployFiles(v, k)'
BY StickyFacts DEF DeployFiles, SameRow, Undisturbed

\* A worker that deploys holds a job that has a server, which no other worker
\* has unless the server has two jobs.
LEMMA Deployer ==
    ASSUME IInv, NEW v \in Worker, step[v] \in DeploySteps, WorkerFiles(v)
    PROVE  /\ Queue!Busy(v) /\ held[v] \in Job /\ server[held[v]] \in Body
           /\ type[held[v]] \in Builds
<1>1. ran[v] = "deploying" /\ type[held[v]] \in Builds
  BY DEF WorkerFiles, DeployFiles
<1>2. Queue!Busy(v)
  BY DEF IInv, WorkerFacts, Queue!Busy, DeploySteps
<1> QED BY <1>1, <1>2, Running

LEMMA TwoDeployers ==
    ASSUME IInv, FileInv, Sticky, NEW v \in Worker, NEW w \in Worker, v # w,
           step[v] \in DeploySteps, Queue!Busy(w), held[w] \in Job,
           NEW k \in Body, server[held[v]] = k, server[held[w]] = k
    PROVE  ~Undisturbed(k) /\ ~Undisturbed(k)'
<1>1. Queue!Busy(v) /\ held[v] \in Job
  BY Deployer DEF FileInv
<1>2. held[v] # held[w]
  BY <1>1, OneHolder DEF IInv
<1>3. ~Undisturbed(k)
  BY <1>1, <1>2 DEF Undisturbed, OnlyJobOf
<1> QED BY <1>3, StickyFacts

\* The steps that leave files and URLs alone, and make no row active.
LEMMA FileInvKept ==
    ASSUME IInv, FileInv, Sticky, \A k \in Body : SameRow(k) /\ url'[k] = url[k],
           \A v \in Worker : (KeepsRun(v) /\ step'[v] = step[v]) \/ WorkerFiles(v)'
    PROVE  FileInv'
<1>1. \A k \in Body : RowFiles(k)'
  BY RowFilesKept DEF FileInv
<1>2. ASSUME NEW v \in Worker, KeepsRun(v), step'[v] = step[v]
      PROVE  WorkerFiles(v)'
  <2> SUFFICES ASSUME step[v] \in DeploySteps PROVE WorkerFiles(v)'
    BY <1>2 DEF WorkerFiles
  <2>1. PICK k \in Body : k = server[held[v]]
    BY Deployer DEF FileInv
  <2>2. Queue!Busy(v) /\ DeployFiles(v, k)
    BY <2>1, Deployer DEF FileInv, WorkerFiles
  <2>3. ran'[v] = ran[v] /\ type'[held'[v]] = type[held[v]] /\ server'[held'[v]] = k
    BY <1>2, <2>1, <2>2 DEF KeepsRun, KeepsJob, Untouched
  <2>4. DeployFiles(v, k)'
    BY <1>2, <2>2, <2>3, DeployFilesKept
  <2> QED BY <2>3, <2>4 DEF WorkerFiles
<1> QED BY <1>1, <1>2 DEF FileInv

LEMMA OtherFiles == ASSUME IInv, OwnInv, FileInv, Sticky, OtherStep PROVE FileInv'
<1>1. /\ \A v \in Worker : KeepsRun(v) /\ step'[v] = step[v]
      /\ UNCHANGED <<url, file>>
  BY AllRun
<1>2. ASSUME NEW k \in Body
      PROVE  status'[k] = "active" => status[k] = "active" \/ k \in revived'
  <2>1. CASE Dashboard
    BY <2>1 DEF Dashboard, AuthorizeAction, PerformAction, servers, IInv, DashFacts, DataTypeOK,
                StoreTypeOK
  <2>2. CASE \E j \in Job : Request(j) \/ Expire(j)
    BY <2>2 DEF Request, RequestCreate, RequestRefine, RequestDelete, Expire, servers
  <2> QED BY <2>1, <2>2 DEF OtherStep
<1> QED BY <1>1, <1>2, FileInvKept DEF SameRow

LEMMA QuietFiles ==
    ASSUME IInv, OwnInv, FileInv, Sticky, NEW w \in Worker,
           QueueOnly(w) \/ Stop(w) \/ Complete(w) \/ Fail(w)
    PROVE  FileInv'
<1>1. /\ step'[w] = "start" /\ \A v \in Worker \ {w} : step'[v] = step[v]
      /\ UNCHANGED <<url, file>>
  BY QuietFrame DEF QueueOnly, Stop, Complete, Fail, ClearStep, servers, IInv, DataTypeOK
<1>2. \A k \in Body : status'[k] = "active" => status[k] = "active"
  BY DEF QueueOnly, Stop, Complete, Fail, servers
<1>3. WorkerFiles(w)'
  BY <1>1 DEF WorkerFiles, DeploySteps
<1>4. \A v \in Worker \ {w} : KeepsRun(v)
  BY OthersRun DEF WorkerStep
<1> QED BY <1>1, <1>2, <1>3, <1>4, FileInvKept DEF SameRow

\* The handlers that are not about files, and that do not begin to deploy.
LEMMA PlainFiles ==
    ASSUME IInv, OwnInv, FileInv, Sticky, NEW w \in Worker,
           \/ HandlerRejects(w) \/ HandlerRetries(w) \/ HandlerThrows(w) \/ Generate(w)
           \/ BuildRow(w) \/ BuildSuffixedRow(w) \/ BuildRefined(w) \/ Validate(w) \/ Probe(w)
           \/ DeleteRow(w)
    PROVE  FileInv'
<1>1. Handler(w)
  BY DEF Handler
<1>2. /\ step'[w] \in {"start", "suffix"} /\ \A v \in Worker \ {w} : step'[v] = step[v]
      /\ UNCHANGED <<url, file>>
  BY DEF HandlerRejects, HandlerRetries, HandlerThrows, Generate, BuildRow, BuildSuffixedRow,
         CreateServerFromJob, InsertRow, BuildRefined, Validate, Probe, DeleteRow, Return, Goto,
         servers, IInv, DataTypeOK
<1>3. \A k \in Body : status'[k] = "active" => status[k] = "active"
  BY DEF HandlerRejects, HandlerRetries, HandlerThrows, Generate, BuildRow, BuildSuffixedRow,
         CreateServerFromJob, InsertRow, BuildRefined, Validate, Probe, DeleteRow, servers,
         IInv, DataTypeOK, StoreTypeOK
<1>4. WorkerFiles(w)'
  BY <1>2 DEF WorkerFiles, DeploySteps
<1> QED BY <1>1, <1>2, <1>3, <1>4, OthersRun, FileInvKept DEF SameRow, WorkerStep

LEMMA CheckFiles ==
    ASSUME IInv, OwnInv, FileInv, Sticky, NEW w \in Worker, DeployCheck(w) PROVE FileInv'
<1>1. /\ Handler(w) /\ Queue!Busy(w) /\ ran[w] = "deploying" /\ type[held[w]] \in Builds
      /\ UNCHANGED <<url, file, status, type, server, held, ran>>
  <2>1. Handler(w) /\ Queue!Busy(w) /\ ran[w] = "deploying" /\ type[held[w]] \in Builds
    BY DEF Handler, DeployCheck, At, Queue!Busy, Builds
  <2>2. UNCHANGED <<url, file, status, type, server, held, ran>>
    BY DEF DeployCheck, servers, jobColumns, Return, Goto, Queue!Handle, Queue!jobVars, queueVars
  <2> QED BY <2>1, <2>2
<1>2. \A v \in Worker \ {w} : step'[v] = step[v]
  BY DEF DeployCheck, Return, Goto, IInv, DataTypeOK
<1>3. WorkerFiles(w)'
  <2>1. CASE step'[w] = "start"
    BY <2>1 DEF WorkerFiles, DeploySteps
  <2>2. CASE step'[w] = "open" /\ ~AlreadyDeployed(server[held[w]])
    <3>1. PICK k \in Body : k = server[held[w]]
      BY <1>1, Running DEF Builds
    <3>2. status[k] # "active"
      BY <2>2, <3>1 DEF AlreadyDeployed, IInv, RowFacts
    <3>3. DeployFiles(w, k)'
      BY <1>1, <2>2, <3>2 DEF DeployFiles
    <3> QED BY <1>1, <3>1, <3>3 DEF WorkerFiles
  <2> QED BY <2>1, <2>2 DEF DeployCheck, Return, Goto, IInv, DataTypeOK
<1>4. \A v \in Worker \ {w} : KeepsRun(v)
  BY <1>1, OthersRun DEF WorkerStep
<1> QED BY <1>1, <1>2, <1>3, <1>4, FileInvKept DEF SameRow

\* A step about the file or the row of one server k, of a worker whose job has
\* that server: what is left to show is about that row, and about the workers
\* that deploy it.
LEMMA OneServerFiles ==
    ASSUME IInv, OwnInv, FileInv, Sticky, NEW w \in Worker, Handler(w),
           NEW k \in Body, server[held[w]] = k,
           \A i \in Body \ {k} : SameRow(i) /\ url'[i] = url[i],
           RowFiles(k)',
           \A v \in Worker \ {w} : server[held[v]] # k => step'[v] = step[v],
           \A v \in Worker \ {w} :
               step[v] \in DeploySteps /\ server[held[v]] = k => DeployFiles(v, k)',
           \A v \in Worker \ {w} : step'[v] \in DeploySteps => step[v] \in DeploySteps,
           step'[w] \in DeploySteps => DeployFiles(w, k)'
    PROVE  FileInv'
<1>1. \A i \in Body : RowFiles(i)'
  BY RowFilesKept DEF FileInv
<1>0. UNCHANGED <<type, server>> /\ Queue!Busy(w) /\ held'[w] = held[w]
  BY HandlerFrame
<1>2. ASSUME NEW v \in Worker, v # w
      PROVE  WorkerFiles(v)'
  <2> SUFFICES ASSUME step'[v] \in DeploySteps PROVE WorkerFiles(v)'
    BY DEF WorkerFiles
  <2>1. step[v] \in DeploySteps
    BY <1>2
  <2>2. PICK i \in Body : i = server[held[v]]
    BY <2>1, Deployer DEF FileInv
  <2>3. Queue!Busy(v) /\ DeployFiles(v, i) /\ KeepsRun(v)
    BY <1>2, <2>1, <2>2, Deployer, OthersRun DEF FileInv, WorkerFiles, WorkerStep
  <2>4. ran'[v] = ran[v] /\ held'[v] = held[v] /\ type'[held'[v]] = type[held[v]]
        /\ server'[held'[v]] = i
    BY <1>0, <2>2, <2>3 DEF KeepsRun, Untouched
  <2>5. CASE i = k
    BY <1>2, <2>1, <2>2, <2>4, <2>5 DEF WorkerFiles
  <2>6. CASE i # k
    <3>1. DeployFiles(v, i)'
      BY <1>2, <2>2, <2>3, <2>4, <2>6, DeployFilesKept
    <3> QED BY <2>4, <3>1 DEF WorkerFiles
  <2> QED BY <2>5, <2>6
<1>3. WorkerFiles(w)'
  BY <1>0 DEF WorkerFiles
<1> QED BY <1>1, <1>2, <1>3 DEF FileInv

LEMMA OwnSlugs ==
    /\ \A k \in Body : OwnSlug(k) \in Slugs
    /\ OwnNames => \A i, k \in Body : OwnSlug(i) = OwnSlug(k) => i = k
BY RequestAssumption DEF OwnSlug, Plain, Slugs, OwnNames

\* The file that a worker deploys to is its server's, and nobody else's.
LEMMA DeployedTo ==
    ASSUME IInv, OwnInv, NEW w \in Worker, At(w, "deploying", {"create", "refine"}, step[w])
    PROVE  /\ server[held[w]] \in Body /\ parsed[held[w]] \in Specs
           /\ parsed[held[w]].slug = OwnSlug(server[held[w]])
           /\ Queue!Busy(w) /\ held[w] \in Job /\ ran[w] = "deploying"
           /\ type[held[w]] \in Builds
<1>1. Queue!Busy(w) /\ ran[w] = "deploying" /\ type[held[w]] \in Builds
  BY DEF At, Queue!Busy, Builds
<1>2. server[held[w]] \in Body /\ parsed[held[w]] \in Specs /\ held[w] \in Job
  BY <1>1, Running
<1> QED BY <1>1, <1>2, DeployedSlug, EmptyPatch

LEMMA OpenFiles ==
    ASSUME OwnNames, IInv, OwnInv, FileInv, Sticky, NEW w \in Worker, DeployOpen(w)
    PROVE  FileInv'
<1>0. Handler(w) /\ step[w] = "open" /\ At(w, "deploying", {"create", "refine"}, step[w])
  BY DEF Handler, DeployOpen, At
<1>1. PICK k \in Body : k = server[held[w]]
  BY <1>0, DeployedTo
<1>2. /\ parsed[held[w]].slug = OwnSlug(k) /\ Queue!Busy(w) /\ held[w] \in Job
      /\ ran[w] = "deploying" /\ type[held[w]] \in Builds
  BY <1>0, <1>1, DeployedTo
<1>3. /\ file' = [file EXCEPT ![OwnSlug(k)] = Empty] /\ Goto(w, "write")
      /\ UNCHANGED <<status, url, type, server, held, ran>>
  BY <1>2 DEF DeployOpen, servers, jobColumns, Goto, queueVars
<1>4. /\ step'[w] = "write" /\ \A v \in Worker \ {w} : step'[v] = step[v]
  BY <1>3 DEF Goto, IInv, DataTypeOK
<1>5. /\ file'[OwnSlug(k)] = Empty /\ Empty # None
      /\ \A i \in Body \ {k} : file'[OwnSlug(i)] = file[OwnSlug(i)]
  BY <1>3, OwnSlugs, TornAssumption DEF Torn, IInv, DataTypeOK, StoreTypeOK
<1>6. RowFiles(k) /\ DeployFiles(w, k)
  BY <1>0, <1>1 DEF FileInv, WorkerFiles, DeploySteps
<1>7. RowFiles(k)'
  BY <1>3, <1>5, <1>6, StickyFacts DEF RowFiles, DeployFiles
<1>8. DeployFiles(w, k)'
  BY <1>2, <1>3, <1>4, <1>5, <1>6, StickyFacts DEF DeployFiles
<1>9. ASSUME NEW v \in Worker, v # w, step[v] \in DeploySteps, server[held[v]] = k
      PROVE  DeployFiles(v, k)'
  <2>1. ~Undisturbed(k)' /\ DeployFiles(v, k)
    BY <1>1, <1>2, <1>9, TwoDeployers DEF FileInv, WorkerFiles
  <2> QED BY <1>3, <1>4, <1>5, <1>9, <2>1, StickyFacts DEF DeployFiles
<1> QED BY <1>0, <1>1, <1>3, <1>4, <1>5, <1>7, <1>8, <1>9, OneServerFiles DEF SameRow

LEMMA WriteFiles ==
    ASSUME OwnNames, IInv, OwnInv, FileInv, Sticky, NEW w \in Worker, DeployWrite(w)
    PROVE  FileInv'
<1> DEFINE spec == parsed[held[w]]
<1>0. Handler(w) /\ step[w] = "write" /\ At(w, "deploying", {"create", "refine"}, step[w])
  BY DEF Handler, DeployWrite, At
<1>1. PICK k \in Body : k = server[held[w]]
  BY <1>0, DeployedTo
<1>2. /\ spec \in Specs /\ spec.slug = OwnSlug(k) /\ Queue!Busy(w) /\ held[w] \in Job
      /\ ran[w] = "deploying" /\ type[held[w]] \in Builds
  BY <1>0, <1>1, DeployedTo
<1>3. /\ \E content \in {spec, Mixed} :
             /\ content = Mixed => file[OwnSlug(k)] # Empty
             /\ file' = [file EXCEPT ![OwnSlug(k)] = content]
      /\ Goto(w, "activate") /\ UNCHANGED <<status, url, type, server, held, ran>>
  BY <1>2 DEF DeployWrite, servers, jobColumns, Goto, queueVars
<1>4. /\ step'[w] = "activate" /\ \A v \in Worker \ {w} : step'[v] = step[v]
  BY <1>3 DEF Goto, IInv, DataTypeOK
<1> HIDE DEF spec
<1>5. /\ file'[OwnSlug(k)] \in {spec, Mixed} /\ spec # None /\ Mixed # None
      /\ file[OwnSlug(k)] = Empty => file'[OwnSlug(k)] = spec
      /\ \A i \in Body \ {k} : file'[OwnSlug(i)] = file[OwnSlug(i)]
  BY <1>2, <1>3, OwnSlugs, EmptyPatch, TornAssumption DEF Torn, IInv, DataTypeOK, StoreTypeOK
<1>6. RowFiles(k) /\ DeployFiles(w, k)
  BY <1>0, <1>1 DEF FileInv, WorkerFiles, DeploySteps
<1>7. RowFiles(k)'
  BY <1>3, <1>5, <1>6, StickyFacts DEF RowFiles, DeployFiles
<1>8. DeployFiles(w, k)'
  BY <1>0, <1>2, <1>3, <1>4, <1>5, <1>6, StickyFacts DEF DeployFiles
<1>9. ASSUME NEW v \in Worker, v # w, step[v] \in DeploySteps, server[held[v]] = k
      PROVE  DeployFiles(v, k)'
  <2>1. ~Undisturbed(k)' /\ DeployFiles(v, k)
    BY <1>1, <1>2, <1>9, TwoDeployers DEF FileInv, WorkerFiles
  <2>2. ran'[v] = ran[v] /\ type'[held'[v]] = type[held[v]] /\ step'[v] = step[v]
    BY <1>3, <1>4, <1>9
  <2>3. file'[OwnSlug(k)] # None
    BY <1>5
  <2> QED BY <2>1, <2>2, <2>3, StickyFacts DEF DeployFiles
<1> QED BY <1>0, <1>1, <1>3, <1>4, <1>5, <1>7, <1>8, <1>9, OneServerFiles DEF SameRow

LEMMA LostFiles ==
    ASSUME OwnNames, IInv, OwnInv, FileInv, Sticky, NEW w \in Worker, DeployWriteLost(w)
    PROVE  FileInv'
<1>0. Handler(w) /\ step[w] = "lost" /\ At(w, "deploying", {"create", "refine"}, step[w])
  BY DEF Handler, DeployWriteLost, At
<1>1. PICK k \in Body : k = server[held[w]]
  BY <1>0, DeployedTo
<1>2. Goto(w, "activate") /\ UNCHANGED <<status, url, file, type, server, held, ran>>
  BY DEF DeployWriteLost, servers, jobColumns, Goto, queueVars
<1>3. /\ step'[w] = "activate" /\ \A v \in Worker \ {w} : step'[v] = step[v]
  BY <1>2 DEF Goto, IInv, DataTypeOK
<1>4. held[w] \in Job /\ DeployFiles(w, k) /\ DeleteAsked(k)
  BY <1>0, <1>1, DeployedTo DEF FileInv, WorkerFiles, DeployFiles, DeploySteps
<1>5. ~Undisturbed(k)' /\ DeleteAsked(k)'
  <2>1. ~Undisturbed(k)
    BY <1>1, <1>4 DEF DeployFiles, DeleteAsked, Undisturbed, OnlyJobOf, Builds
  <2> QED BY <1>4, <2>1, StickyFacts
<1>6. DeployFiles(w, k)'
  BY <1>2, <1>3, <1>4, <1>5 DEF DeployFiles
<1>7. WorkerFiles(w)'
  BY <1>1, <1>2, <1>6 DEF WorkerFiles
<1> QED BY <1>0, <1>2, <1>3, <1>7, OthersRun, FileInvKept DEF SameRow, WorkerStep

LEMMA ActivateFiles ==
    ASSUME OwnNames, IInv, OwnInv, FileInv, Sticky, NEW w \in Worker, DeployActivate(w)
    PROVE  FileInv'
<1>0. Handler(w) /\ step[w] = "activate" /\ At(w, "deploying", {"create", "refine"}, step[w])
  BY DEF Handler, DeployActivate, At
<1>1. PICK k \in Body : k = server[held[w]]
  BY <1>0, DeployedTo
<1>2. /\ parsed[held[w]].slug = OwnSlug(k) /\ Queue!Busy(w) /\ held[w] \in Job
      /\ type[held[w]] \in Builds
  BY <1>0, <1>1, DeployedTo
<1>3. /\ status' = [status EXCEPT ![k] = "active"] /\ url' = [url EXCEPT ![k] = OwnSlug(k)]
      /\ UNCHANGED <<file, type, server, held, ran>> /\ step' = [step EXCEPT ![w] = "start"]
  BY <1>1, <1>2 DEF DeployActivate, Return, Queue!Handle, Queue!jobVars, jobColumns
<1>4. /\ step'[w] = "start" /\ \A v \in Worker \ {w} : step'[v] = step[v]
      /\ \A i \in Body \ {k} : SameRow(i) /\ url'[i] = url[i]
  BY <1>3 DEF SameRow, IInv, DataTypeOK, StoreTypeOK
<1>5. DeployFiles(w, k)
  BY <1>0, <1>1 DEF FileInv, WorkerFiles, DeploySteps
<1>6. RowFiles(k)'
  <2>1. file'[OwnSlug(k)] # None \/ DeleteAsked(k)'
    BY <1>0, <1>3, <1>5, StickyFacts DEF DeployFiles
  <2>2. \E j \in Job : type'[j] \in Builds /\ server'[j] = k
    BY <1>1, <1>2, <1>3
  <2>3. Undisturbed(k)' => file'[OwnSlug(k)] \in Specs
    BY <1>0, <1>3, <1>5, StickyFacts DEF DeployFiles
  <2> QED BY <2>1, <2>2, <2>3 DEF RowFiles
<1>7. ASSUME NEW v \in Worker, v # w, step[v] \in DeploySteps, server[held[v]] = k
      PROVE  DeployFiles(v, k)'
  <2>1. ~Undisturbed(k)' /\ DeployFiles(v, k)
    BY <1>1, <1>2, <1>7, TwoDeployers DEF FileInv, WorkerFiles
  <2>2. /\ ran'[v] = ran[v] /\ type'[held'[v]] = type[held[v]] /\ step'[v] = step[v]
        /\ file' = file
    BY <1>3, <1>4, <1>7
  <2> QED BY <2>1, <2>2, StickyFacts DEF DeployFiles
<1> QED BY <1>0, <1>1, <1>4, <1>6, <1>7, OneServerFiles DEF DeploySteps

LEMMA DeleteFiles ==
    ASSUME OwnNames, IInv, OwnInv, FileInv, Sticky, NEW w \in Worker, DeleteFile(w)
    PROVE  FileInv'
<1>0. Handler(w) /\ Queue!Busy(w) /\ type[held[w]] = "delete" /\ ran[w] = "queued"
  BY DEF Handler, DeleteFile, At, Queue!Busy
<1>1. PICK k \in Body : k = server[held[w]]
  BY <1>0, Running
<1>2. held[w] \in Job /\ Exists(k) /\ slug[k] = OwnSlug(k) /\ DeleteAsked(k)
  BY <1>0, <1>1, Running, EmptyPatch DEF JobFacts, OwnInv, RowOwned, DeleteAsked
<1>3. /\ file' = [file EXCEPT ![OwnSlug(k)] = None]
      /\ UNCHANGED <<status, url, type, server, held, ran>>
  BY <1>1, <1>2 DEF DeleteFile, servers, jobColumns, queueVars
<1>4. step'[w] = "mark" /\ \A v \in Worker \ {w} :
          step'[v] = IF step[v] = "write" /\ parsed[held[v]].slug = OwnSlug(k)
                     THEN "lost" ELSE step[v]
  BY <1>1, <1>2 DEF DeleteFile
<1>5. \A i \in Body \ {k} : file'[OwnSlug(i)] = file[OwnSlug(i)]
  BY <1>3, OwnSlugs DEF IInv, DataTypeOK, StoreTypeOK
<1>6. DeleteAsked(k)' /\ RowFiles(k)
  BY <1>2, StickyFacts DEF FileInv
\* A job that built the server is another one than the one that deletes it.
<1>7. (\E j \in Job : type[j] \in Builds /\ server[j] = k) => ~Undisturbed(k)'
  <2>1. (\E j \in Job : type[j] \in Builds /\ server[j] = k) => ~Undisturbed(k)
    BY <1>0, <1>1, <1>2 DEF Builds, Undisturbed, OnlyJobOf
  <2> QED BY <2>1, StickyFacts
<1>8. RowFiles(k)'
  <2>1. status[k] = "active" => url[k] # None
    BY DEF IInv, RowFacts
  <2>2. status'[k] = "active" => ~Undisturbed(k)'
    BY <1>3, <1>6, <1>7, <2>1 DEF RowFiles
  <2>3. url'[k] # None => \E j \in Job : type'[j] \in Builds /\ server'[j] = k
    BY <1>3, <1>6, StickyFacts DEF RowFiles
  <2> QED BY <1>6, <2>2, <2>3 DEF RowFiles
<1>9. ASSUME NEW v \in Worker, v # w, step[v] \in DeploySteps
      PROVE  /\ server[held[v]] # k => step'[v] = step[v]
             /\ server[held[v]] = k => DeployFiles(v, k)'
  <2>1. /\ Queue!Busy(v) /\ held[v] \in Job /\ server[held[v]] \in Body
        /\ type[held[v]] \in Builds /\ DeployFiles(v, server[held[v]])
    BY <1>9, Deployer DEF FileInv, WorkerFiles
  <2>2. parsed[held[v]] # None
    BY <2>1, Running, EmptyPatch DEF DeployFiles
  <2>3. parsed[held[v]].slug = OwnSlug(server[held[v]])
    BY <2>1, <2>2, DeployedSlug, EmptyPatch
  <2>4. ASSUME server[held[v]] # k
        PROVE  step'[v] = step[v]
    BY <1>4, <1>9, <2>1, <2>3, <2>4, OwnSlugs
  <2>5. ASSUME server[held[v]] = k
        PROVE  DeployFiles(v, k)'
    <3>1. ~Undisturbed(k)'
      BY <1>7, <2>1, <2>5
    <3>2. ran'[v] = ran[v] /\ type'[held'[v]] = type[held[v]]
      BY <1>3
    <3> QED BY <1>6, <2>1, <2>5, <3>1, <3>2 DEF DeployFiles
  <2> QED BY <2>4, <2>5
<1>10. \A v \in Worker \ {w} : /\ step'[v] \in DeploySteps => step[v] \in DeploySteps
                               /\ step'[v] # step[v] => step[v] \in DeploySteps
  BY <1>4 DEF DeploySteps
<1> QED BY <1>0, <1>1, <1>3, <1>4, <1>5, <1>8, <1>9, <1>10, OneServerFiles
        DEF SameRow, DeploySteps

LEMMA NextFileInv == OwnNames /\ IInv /\ OwnInv /\ FileInv /\ [Next]_vars => FileInv'
<1> SUFFICES ASSUME OwnNames, IInv, OwnInv, FileInv, [Next]_vars PROVE FileInv'
  OBVIOUS
<1>1. CASE UNCHANGED vars
  BY <1>1 DEF vars, queueVars, jobColumns, servers, FileInv, RowFiles, WorkerFiles, DeployFiles,
              DeleteAsked, Undisturbed, OnlyJobOf
<1>2. ASSUME NEW w \in Worker, Handler(w), Sticky
      PROVE  FileInv'
  BY <1>2, PlainFiles, CheckFiles, OpenFiles, WriteFiles, LostFiles, ActivateFiles, DeleteFiles
     DEF Handler
<1>3. ASSUME NEW w \in Worker, WorkerStep(w), Sticky
      PROVE  FileInv'
  BY <1>2, <1>3, QuietFiles DEF WorkerStep
<1>4. CASE Next
  BY <1>3, <1>4, NextSticky, OtherFiles DEF Next, OtherStep, WorkerStep
<1> QED BY <1>1, <1>4

\* Where every spec has a slug of its own, an active server has its file unless
\* its deletion was asked for, and the file is whole if one job made the server
\* and no enable revived it, wherever the workers that wrote it crashed.
THEOREM UndisturbedIsWhole == OwnNames => (Spec => []ActiveHasFile)
<1> SUFFICES ASSUME OwnNames PROVE Spec => []ActiveHasFile
  OBVIOUS
<1>1. Init => FileInv
  BY DEF Init, Queue!Init, FileInv, RowFiles, WorkerFiles, DeploySteps
<1>2. IInv /\ OwnInv /\ FileInv /\ [Next]_vars => FileInv'
  BY NextFileInv
<1>3. ASSUME IInv, OwnInv, FileInv
      PROVE  ActiveHasFile
  <2> SUFFICES ASSUME NEW k \in Body, status[k] = "active"
               PROVE  /\ file[url[k]] = None => DeleteAsked(k)
                      /\ OnlyJobOf(k) /\ k \notin revived => file[url[k]] \in Specs
    BY DEF ActiveHasFile, DeleteAsked
  <2>1. url[k] # None /\ url[k] = OwnSlug(k)
    BY <1>3 DEF IInv, RowFacts, OwnInv, RowOwned
  <2> QED BY <1>3, <2>1 DEF FileInv, RowFiles, Undisturbed
<1> QED BY <1>1, <1>2, <1>3, OwnInductive, PTL DEF Spec
=============================================================================
