-------------------------- MODULE OwnerViewProofs --------------------------
(***************************************************************************)
(* Proofs about OwnerView: what users are shown of their jobs is there,    *)
(* for any instance of the pipeline that runs underneath.                  *)
(*                                                                         *)
(* The views only read, so IInv of PipelineProofs holds under them.  To it *)
(* come what the event of a failure says of the work that was done before  *)
(* it, and what a page that has one of its two answers knows by then.      *)
(***************************************************************************)
EXTENDS OwnerView, PipelineProofs

-----------------------------------------------------------------------------
(* The invariant *)

\* The event of a job that failed names the stage it failed at, and the job has
\* what a job at that stage has.
FailureFacts(j) ==
    LET at == lastEvent[j].step
    IN  stage[j] = "failed" =>
            /\ at \in WorkStages
            /\ type[j] \in Builds /\ at # "queued" => parsed[j] # None
            /\ type[j] = "create" /\ at \notin {"queued", "building"} => server[j] # None
            /\ type[j] \in Builds /\ at = "deploying" => probed[server[j]] # None

\* The jobs that a page has been given either have a card or have a row.
PageFacts ==
    \/ page = NoPage
    \/ page.first = "servers"
    \/ /\ page.first = "jobs"
       /\ \A j \in DOMAIN page.jobs :
              /\ j \in Job /\ stage[j] # "none"
              /\ type[j] = "create" =>
                     \/ page.jobs[j].hasCard
                     \/ page.jobs[j].server \in Body /\ Exists(page.jobs[j].server)

ViewInv ==
    /\ IInv
    /\ \A j \in Job : FailureFacts(j)
    /\ PageFacts

-----------------------------------------------------------------------------
(* What a step of the pipeline keeps of it *)

LEMMA RowsStay ==
    ASSUME IInv, Next, NEW k \in Body
    PROVE  /\ Exists(k) => status'[k] # "none"
           /\ probed[k] # None => probed'[k] # None
<1>1. CASE OtherStep
  BY <1>1, AllRun DEF Exists
<1>2. ASSUME NEW w \in Worker, QueueOnly(w) \/ Stop(w)
      PROVE  UNCHANGED <<status, probed>>
  BY <1>2, QuietFrame DEF servers
<1>3. ASSUME NEW w \in Worker, Complete(w) \/ Fail(w)
      PROVE  UNCHANGED probed /\ (Exists(k) => status'[k] # "none")
  BY <1>3 DEF Complete, Fail, servers, Exists
<1>4. ASSUME NEW w \in Worker, Handler(w)
      PROVE  /\ Exists(k) => status'[k] # "none"
             /\ probed[k] # None => probed'[k] # None
  <2>1. CASE Probe(w)
    <3>1. parsed[held[w]].body # None
      BY <2>1, BuiltSpec, EmptyPatch DEF Probe, At, Queue!Busy, Builds
    <3> QED BY <2>1, <3>1 DEF Probe, Exists, IInv, DataTypeOK, StoreTypeOK
  <2>2. CASE ~Probe(w)
    BY <1>4, <2>2
       DEF Handler, HandlerRejects, HandlerRetries, HandlerThrows, Generate, BuildRow,
           BuildSuffixedRow, CreateServerFromJob, InsertRow, BuildRefined, Validate,
           DeployCheck, DeployOpen, DeployWrite, DeployWriteLost, DeployActivate, DeleteFile,
           DeleteRow, servers, Exists,
           IInv, DataTypeOK, StoreTypeOK
  <2> QED BY <2>1, <2>2
<1> QED BY <1>1, <1>2, <1>3, <1>4 DEF Next, OtherStep, Exists

\* Only a report writes an event, and only of the job it reports.
LEMMA EventsStay ==
    ASSUME IInv, Next, NEW j \in Job
    PROVE  \/ lastEvent'[j] = lastEvent[j]
           \/ \E w \in Worker : held[w] = j /\ (Complete(w) \/ Fail(w))
<1>1. ASSUME NEW w \in Worker, Complete(w) \/ Fail(w), held[w] # j
      PROVE  lastEvent'[j] = lastEvent[j]
  BY <1>1 DEF Complete, Fail, Queue!Complete, Queue!Completed, Queue!Fail, Queue!Failed,
              Queue!AppendStatusEvent, IInv, QueueInv, Queue!TypeOK
<1>2. ASSUME NEW w \in Worker, QueueOnly(w) \/ Stop(w)
      PROVE  UNCHANGED lastEvent
  BY <1>2 DEF QueueOnly, Stop, Queue!Claim, Queue!AssertLockOwned, Queue!ReportErrors,
              Queue!TakeLock, Queue!Crash, Queue!jobVars
<1>3. ASSUME NEW w \in Worker, Handler(w)
      PROVE  UNCHANGED lastEvent
  BY <1>3
     DEF Handler, HandlerRejects, HandlerRetries, HandlerThrows, Generate, BuildRow,
         BuildSuffixedRow, CreateServerFromJob, BuildRefined, Validate, Probe, DeployCheck,
         DeployOpen, DeployWrite, DeployWriteLost, DeployActivate, DeleteFile, DeleteRow, Return, Goto, Queue!Handle,
         Queue!jobVars, queueVars
<1>4. ASSUME OtherStep
      PROVE  UNCHANGED lastEvent
  BY <1>4 DEF OtherStep, Request, RequestCreate, RequestRefine, RequestDelete, Expire, Dashboard,
              AuthorizeAction, PerformAction, Queue!Enqueue, Queue!LockExpires, queueVars
<1> QED BY <1>1, <1>2, <1>3, <1>4 DEF Next, OtherStep

\* A job that is in the table keeps its type, and only its own worker moves it.
LEMMA JobsStay ==
    ASSUME IInv, Next, NEW j \in Job
    PROVE  \/ KeepsJob(j) \/ Inserted(j)
           \/ \E w \in Worker : held[w] = j /\ (Complete(w) \/ Fail(w))
<1>1. CASE OtherStep
  BY <1>1, AllRun
<1>2. ASSUME NEW w \in Worker, QueueOnly(w) \/ Stop(w) \/ Handler(w)
      PROVE  KeepsJob(j)
  BY <1>2, QuietFrame, HandlerFrame DEF KeepsJob
<1>3. ASSUME NEW w \in Worker, Complete(w) \/ Fail(w), held[w] # j
      PROVE  KeepsJob(j)
  BY <1>3, ReportFrame
<1> QED BY <1>1, <1>2, <1>3 DEF Next, OtherStep

\* A report: what it writes of its job, which was at the stage the worker ran.
LEMMA Reported ==
    ASSUME IInv, NEW w \in Worker, NEW j \in Job, held[w] = j, Complete(w) \/ Fail(w)
    PROVE  /\ type'[j] = type[j] /\ JobFacts(j)
           /\ stage[j] = ran[w] /\ ran[w] \in WorkStages /\ stage'[j] # "none"
           /\ stage'[j] = "failed" => /\ lastEvent'[j].step = ran[w]
                                      /\ UNCHANGED <<parsed, server, probed>>
<1>1. Queue!Busy(w) /\ UNCHANGED type
  BY CompleteInv, FailInv DEF Complete, Fail, IInv
<1>2. stage[j] = ran[w] /\ ran[w] \in WorkStages /\ JobFacts(j)
  BY <1>1, Running
<1>3. CASE Complete(w)
  <2>1. stage'[j] = NextStage(type[j], ran[w])
    BY <1>3, CompleteInv DEF Complete, IInv, QueueInv, Queue!TypeOK
  <2>2. stage'[j] \notin {"none", "failed"}
    BY <2>1 DEF NextStage
  <2> QED BY <1>1, <1>2, <2>2
<1>4. CASE Fail(w)
  <2>1. stage'[j] \in {"failed", ran[w]}
    BY <1>4, FailInv DEF Fail, IInv, QueueInv, Queue!TypeOK
  <2>2. seen[w].stage = ran[w] /\ lastEvent'[j].step = seen[w].stage
    BY <1>1, <1>4
       DEF Fail, Queue!Fail, Queue!Failed, Queue!AppendStatusEvent, IInv, QueueInv, Queue!TypeOK,
           Holds
  <2>3. UNCHANGED <<parsed, server, probed>>
    BY <1>4 DEF Fail, jobColumns
  <2> QED BY <1>1, <1>2, <2>1, <2>2, <2>3 DEF WorkStages
<1> QED BY <1>3, <1>4

LEMMA NextFailureFacts ==
    ASSUME IInv, Next, NEW j \in Job, FailureFacts(j)
    PROVE  FailureFacts(j)'
<1>1. ASSUME NEW w \in Worker, held[w] = j, Complete(w) \/ Fail(w)
      PROVE  FailureFacts(j)'
  BY <1>1, Reported DEF FailureFacts, JobFacts, WorkStages
<1>2. CASE KeepsJob(j) /\ lastEvent'[j] = lastEvent[j]
  <2>1. server[j] \in Body \cup {None} /\ (type[j] = "refine" /\ stage[j] = "failed" => server[j] # None)
    BY DEF IInv, DataTypeOK, JobFacts
  <2>2. server[j] # None /\ probed[server[j]] # None => probed'[server[j]] # None
    BY <2>1, RowsStay
  <2> QED BY <1>2, <2>1, <2>2 DEF FailureFacts, KeepsJob, Builds
<1>3. CASE Inserted(j)
  BY <1>3 DEF Inserted, FailureFacts
<1> QED BY <1>1, <1>2, <1>3, JobsStay, EventsStay

LEMMA NextPageFacts == ASSUME IInv, PageFacts, Next, UNCHANGED page PROVE PageFacts'
<1> SUFFICES ASSUME page.first = "jobs", page # NoPage, NEW j \in DOMAIN page.jobs
             PROVE  /\ j \in Job /\ stage'[j] # "none"
                    /\ type'[j] = "create" =>
                           \/ page.jobs[j].hasCard
                           \/ page.jobs[j].server \in Body /\ status'[page.jobs[j].server] # "none"
  BY DEF PageFacts, Exists, NoPage
<1>1. /\ j \in Job /\ stage[j] # "none"
      /\ type[j] = "create" => \/ page.jobs[j].hasCard
                               \/ page.jobs[j].server \in Body /\ Exists(page.jobs[j].server)
  BY DEF PageFacts
<1>2. type'[j] = type[j] /\ stage'[j] # "none"
  BY <1>1, JobsStay, Reported DEF KeepsJob, Inserted
<1> QED BY <1>1, <1>2, RowsStay

\* A page that has both answers shows, for every create job, a card or a row.
LEMMA FirstQueryFacts == ASSUME IInv, NEW u \in Users, FirstQuery(u), UNCHANGED vars PROVE PageFacts'
<1>1. CASE page'.first = "jobs" /\ page'.jobs = JobsOf(u)
  <2> SUFFICES ASSUME NEW j \in DOMAIN JobsOf(u)
               PROVE  /\ j \in Job /\ stage[j] # "none"
                      /\ type[j] = "create" =>
                             \/ JobsOf(u)[j].hasCard
                             \/ JobsOf(u)[j].server \in Body /\ Exists(JobsOf(u)[j].server)
    BY <1>1 DEF PageFacts, vars, queueVars, jobColumns, servers, Exists
  <2>1. /\ j \in Job /\ stage[j] # "none" /\ JobsOf(u)[j].server = server[j]
        /\ JobsOf(u)[j].hasCard <=> IsOrphanFailedCreate(j) \/ IsOrphanActiveCreate(j)
    BY DEF JobsOf
  <2>2. server[j] \in Body \cup {None} /\ JobFacts(j) /\ stage[j] \in Stages
    BY <2>1, Vocabulary DEF IInv, DataTypeOK, QueueInv, Queue!TypeOK
  <2> QED BY <2>1, <2>2
          DEF JobFacts, IsOrphanFailedCreate, IsOrphanActiveCreate, Stages, Terminal, WorkStages
<1>2. CASE page'.first = "servers"
  BY <1>2 DEF PageFacts
<1> QED BY <1>1, <1>2 DEF FirstQuery

LEMMA NextViewInv == ViewInv /\ [ViewNext]_viewVars => ViewInv'
<1> SUFFICES ASSUME ViewInv, [ViewNext]_viewVars PROVE ViewInv'
  OBVIOUS
<1>1. CASE Next /\ UNCHANGED page
  BY <1>1, NextIInv, NextFailureFacts, NextPageFacts DEF ViewInv
<1>2. ASSUME UNCHANGED vars
      PROVE  IInv' /\ \A j \in Job : FailureFacts(j)'
  BY <1>2, NextIInv DEF ViewInv, FailureFacts, vars, queueVars, jobColumns, servers
<1>3. CASE SecondQuery /\ UNCHANGED vars
  BY <1>2, <1>3 DEF SecondQuery, PageFacts, ViewInv
<1>4. ASSUME NEW u \in Users, FirstQuery(u), UNCHANGED vars
      PROVE  ViewInv'
  BY <1>2, <1>4, FirstQueryFacts DEF ViewInv
<1>5. CASE UNCHANGED viewVars
  <2>1. UNCHANGED vars /\ UNCHANGED page
    BY <1>5 DEF viewVars
  <2>2. PageFacts'
    BY <2>1 DEF ViewInv, PageFacts, vars, queueVars, servers, Exists
  <2> QED BY <1>2, <2>1, <2>2 DEF ViewInv
<1> QED BY <1>1, <1>3, <1>4, <1>5 DEF ViewNext

LEMMA InitViewInv == ViewInit => ViewInv
BY InitIInv DEF ViewInit, Init, Queue!Init, ViewInv, FailureFacts, PageFacts

LEMMA ViewInductive == ViewSpec => []ViewInv
BY InitViewInv, NextViewInv, PTL DEF ViewSpec

-----------------------------------------------------------------------------
(* Theorems *)

LEMMA Nodes ==
    /\ Len(PIPELINE_STAGES) = 6 /\ DOMAIN PIPELINE_STAGES = 1..6
    /\ PIPELINE_STAGES[1] = "generating" /\ PIPELINE_STAGES[2] = "building"
    /\ PIPELINE_STAGES[3] = "validating" /\ PIPELINE_STAGES[4] = "probing"
    /\ PIPELINE_STAGES[5] = "deploying" /\ PIPELINE_STAGES[6] = "active"
BY DEF PIPELINE_STAGES

LEMMA NodesOfStages ==
    /\ NodeOf("queued") = 1 /\ NodeOf("building") = 2 /\ NodeOf("validating") = 3
    /\ NodeOf("probing") = 4 /\ NodeOf("deploying") = 5
BY Nodes DEF NodeOf

\* What is shown as done lies before the stage the job is at, or failed at.
LEMMA DoneLiesBehind ==
    ASSUME NEW s \in Stages, NEW event, NEW at \in Stages,
           s = "failed" => at = event.step /\ at \in WorkStages,
           s # "failed" => at = s
    PROVE  /\ "generating" \in DoneStages(s, event) => at \notin {"none", "queued"}
           /\ "building" \in DoneStages(s, event) => at \notin {"none", "queued", "building"}
           /\ "probing" \in DoneStages(s, event) => at \in {"deploying", "active"}
           /\ "deploying" \in DoneStages(s, event) => s = "active"
<1> DEFINE upTo == IF s = "active" THEN Len(PIPELINE_STAGES)
                   ELSE IF s = "failed" THEN FailedNode(event) - 1
                   ELSE NodeOf(s) - 1
<1>0. NodeOf("none") = 1
  BY Nodes DEF NodeOf
<1>1. s # "active" => upTo = NodeOf(at) - 1
  BY DEF FailedNode
<1>2. s = "active" => upTo = 6
  BY Nodes
<1>3. at \in {"none"} \cup WorkStages \/ s = "active"
  BY DEF Stages, Terminal
<1>4. upTo \in {0, 1, 2, 3, 4, 6} /\ (s # "active" => upTo < 5)
      /\ (upTo >= 1 => at \notin {"none", "queued"})
      /\ (upTo >= 2 => at \notin {"none", "queued", "building"})
      /\ (upTo >= 4 => at \in {"deploying", "active"})
  <2>1. CASE s = "active"
    BY <1>2, <2>1
  <2>2. CASE s # "active"
    <3> HIDE DEF upTo
    <3> QED BY <1>0, <1>1, <1>3, <2>2, NodesOfStages DEF WorkStages
  <2> QED BY <2>1, <2>2
<1>5. DoneStages(s, event) = {PIPELINE_STAGES[i] : i \in 1..upTo}
  BY DEF DoneStages
<1> HIDE DEF upTo
<1>6. /\ "generating" \in DoneStages(s, event) => upTo >= 1
      /\ "building" \in DoneStages(s, event) => upTo >= 2
      /\ "probing" \in DoneStages(s, event) => upTo >= 4
      /\ "deploying" \in DoneStages(s, event) => upTo >= 5
  <2> SUFFICES ASSUME NEW i \in 1..6
               PROVE  /\ PIPELINE_STAGES[i] = "generating" => i = 1
                      /\ PIPELINE_STAGES[i] = "building" => i = 2
                      /\ PIPELINE_STAGES[i] = "probing" => i = 4
                      /\ PIPELINE_STAGES[i] = "deploying" => i = 5
    BY <1>4, <1>5
  <2>1. i \in {1, 2, 3, 4, 5, 6}
    OBVIOUS
  <2> QED BY <2>1, Nodes
<1> QED BY <1>4, <1>6

\* A stage that is shown as done has left its work, whether the job is on its
\* way, has ended well or has failed, and get_job_status says that a job is in
\* progress exactly until it has ended.
THEOREM ProgressIsReal == ViewSpec => []ShownProgressIsReal
<1>1. ViewInv => ShownProgressIsReal
  <2> SUFFICES ASSUME ViewInv, NEW j \in Job, type[j] \in Builds
               PROVE  /\ WorkIsThere(j, DoneStages(stage[j], lastEvent[j]))
                      /\ JobStatus(j) = "in progress" <=> stage[j] \notin Terminal
    BY DEF ShownProgressIsReal, Builds
  <2> DEFINE at == IF stage[j] = "failed" THEN lastEvent[j].step ELSE stage[j]
  <2>1. JobFacts(j) /\ FailureFacts(j) /\ stage[j] \in Stages
    BY Vocabulary DEF ViewInv, IInv, QueueInv, Queue!TypeOK
  <2>2. at \in Stages /\ (stage[j] = "failed" => at \in WorkStages)
    BY <2>1 DEF FailureFacts, Stages
  <2> HIDE DEF at
  <2>3. /\ at \notin {"none", "queued"} => parsed[j] # None
        /\ at \notin {"none", "queued", "building"} => server[j] # None
        /\ at \in {"deploying", "active"} => probed[server[j]] # None
        /\ stage[j] = "active" => server[j] # None /\ url[server[j]] # None
    BY <2>1, <2>2 DEF at, JobFacts, FailureFacts, Builds, WorkStages
  <2>4. WorkIsThere(j, DoneStages(stage[j], lastEvent[j]))
    <3>1. (stage[j] = "failed" => at = lastEvent[j].step) /\ (stage[j] # "failed" => at = stage[j])
      BY DEF at
    <3> QED BY <2>1, <2>2, <2>3, <3>1, DoneLiesBehind DEF WorkIsThere
  <2>5. JobStatus(j) = "in progress" <=> stage[j] \notin Terminal
    BY <2>3 DEF JobStatus, Terminal
  <2> QED BY <2>4, <2>5
<1> QED BY <1>1, ViewInductive, PTL

\* However the two queries of the list see the database, no create job of the
\* user is left out: it has a card or its row's, unless the row is another
\* user's or was inserted while the page loaded.
THEOREM CreatesShown == ViewSpec => CreatesAreShown
<1>1. ASSUME ViewInv, SecondQuery, NEW j \in DOMAIN ShownJobs, type[j] = "create"
      PROVE  LET job == ShownJobs[j]
             IN  \/ job.hasCard
                 \/ job.server \in ShownRows
                 \/ /\ job.server # None
                    /\ owner[job.server] # page.user \/ job.server \notin page.begun
  <2> DEFINE job == ShownJobs[j]
  <2>0. job = ShownJobs[j]
    OBVIOUS
  <2> HIDE DEF job
  <2>1. CASE page.first = "jobs"
    <3>1. j \in DOMAIN page.jobs /\ job = page.jobs[j] /\ ShownRows = RowsOf(page.user)
      BY <1>1, <2>0, <2>1 DEF ShownJobs, ShownRows
    <3>2. job.hasCard \/ (job.server \in Body /\ Exists(job.server))
      BY <1>1, <2>1, <3>1 DEF ViewInv, PageFacts, SecondQuery
    <3> QED BY <2>0, <3>1, <3>2, EmptyPatch DEF RowsOf
  <2>2. CASE page.first = "servers"
    <3>1. j \in DOMAIN JobsOf(page.user) /\ job = JobsOf(page.user)[j] /\ ShownRows = page.begun
      BY <1>1, <2>0, <2>2 DEF ShownJobs, ShownRows
    <3>2. j \in Job /\ stage[j] # "none" /\ job.server = server[j]
          /\ (job.hasCard <=> IsOrphanFailedCreate(j) \/ IsOrphanActiveCreate(j))
      BY <3>1 DEF JobsOf
    <3>3. JobFacts(j) /\ stage[j] \in Stages
      BY <1>1, <3>2, Vocabulary DEF ViewInv, IInv, QueueInv, Queue!TypeOK
    <3>4. job.hasCard \/ job.server # None
      BY <1>1, <3>2, <3>3
         DEF JobFacts, IsOrphanFailedCreate, IsOrphanActiveCreate, Stages, Terminal, WorkStages
    <3> QED BY <2>0, <3>1, <3>4
  <2> QED BY <1>1, <2>0, <2>1, <2>2 DEF ViewInv, PageFacts, SecondQuery
<1>2. ViewInv => [SecondQuery => \A j \in DOMAIN ShownJobs : LET job == ShownJobs[j] IN
          type[j] = "create" =>
              \/ job.hasCard
              \/ job.server \in ShownRows
              \/ /\ job.server # None
                 /\ owner[job.server] # page.user \/ job.server \notin page.begun]_viewVars
  BY <1>1
<1> QED BY <1>2, ViewInductive, PTL DEF CreatesAreShown
=============================================================================
