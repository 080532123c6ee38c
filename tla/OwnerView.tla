----------------------------- MODULE OwnerView -----------------------------
(***************************************************************************)
(* What users are shown of their jobs while Pipeline runs them: the        *)
(* dashboard's list of servers (/servers), its page of a job (/jobs/{id})  *)
(* and the answer of get_job_status.                                       *)
(*                                                                         *)
(* The list is put together from two queries that run side by side, one of *)
(* the user's servers rows and one of the user's jobs.  A create job has   *)
(* no row until its building stage: the list shows it as a card of its own *)
(* until it has a server_id, and as the row's card from then on.           *)
(***************************************************************************)
EXTENDS Pipeline, Sequences

VARIABLE page   \* the answer of the first query of a load of the list

viewVars == <<vars, page>>

NoPage == [user |-> None, first |-> "none", begun |-> {}, jobs |-> <<>>]

ViewInit == Init /\ page = NoPage

\* refine_mcp_server and delete_server enqueue their jobs for the row's user.
UserId(j) == IF type[j] = "create" THEN UserOf[j] ELSE owner[server[j]]

RowsOf(u) == {k \in Body : Exists(k) /\ owner[k] = u}

IsOrphanFailedCreate(j) == type[j] = "create" /\ stage[j] = "failed" /\ server[j] = None

\* Mutant: only the stages before building are taken to be without a row.
IsOrphanCreateBeforeBuilding(j) ==
    type[j] = "create" /\ stage[j] = "queued" /\ server[j] = None

IsOrphanActiveCreate(j) ==
    type[j] = "create" /\ stage[j] \notin Terminal /\ server[j] = None

\* What the list makes of the user's jobs: a card of their own, or none.
JobsOf(u) ==
    [j \in {i \in Job : stage[i] # "none" /\ UserId(i) = u} |->
        [hasCard |-> IsOrphanFailedCreate(j) \/ IsOrphanActiveCreate(j),
         server  |-> server[j]]]

-----------------------------------------------------------------------------
(* The list *)

\* listServersByUser or listJobsByUser answers first.  begun are the rows that
\* the user had at that time.
FirstQuery(u) ==
    /\ page = NoPage
    /\ \/ page' = [user |-> u, first |-> "servers", begun |-> RowsOf(u), jobs |-> <<>>]
       \/ page' = [user |-> u, first |-> "jobs", begun |-> RowsOf(u), jobs |-> JobsOf(u)]

\* The other answer completes the list, which is shown and not kept.
SecondQuery ==
    /\ page # NoPage
    /\ page' = NoPage

ShownRows == IF page.first = "servers" THEN page.begun ELSE RowsOf(page.user)
ShownJobs == IF page.first = "jobs" THEN page.jobs ELSE JobsOf(page.user)

-----------------------------------------------------------------------------
(* A job's pipeline *)

PIPELINE_STAGES ==
    <<"generating", "building", "validating", "probing", "deploying", "active">>

\* indexOfStage; there is no node for queued, which is shown at the first one.
NodeOf(s) ==
    IF \E i \in DOMAIN PIPELINE_STAGES : PIPELINE_STAGES[i] = s
    THEN CHOOSE i \in DOMAIN PIPELINE_STAGES : PIPELINE_STAGES[i] = s ELSE 1

\* Mutant: the failed stage is taken to be the one after the last completed
\* step, which is named after the stage that it leads to.
FailedNodeAfterStep(event) ==
    IF event.step = "queued" THEN 1 ELSE NodeOf(event.step) + 1

\* A job fails once, and the event that says so is its last.
FailedNode(event) == NodeOf(event.step)

\* derivePipeline: the stages shown as done.  The events are read after the
\* job, whose stage they go with if it has failed.
DoneStages(s, event) ==
    LET upTo == IF s = "active" THEN Len(PIPELINE_STAGES)
                ELSE IF s = "failed" THEN FailedNode(event) - 1
                ELSE NodeOf(s) - 1
    IN  {PIPELINE_STAGES[i] : i \in 1..upTo}

\* get_job_status.
JobStatus(j) ==
    IF stage[j] = "active" /\ server[j] # None /\ url[server[j]] # None THEN "deployed"
    ELSE IF stage[j] = "failed" THEN "failed"
    ELSE "in progress"

-----------------------------------------------------------------------------

ViewNext ==
    \/ Next /\ UNCHANGED page
    \/ (SecondQuery \/ \E u \in Users : FirstQuery(u)) /\ UNCHANGED vars

ViewSpec == ViewInit /\ [][ViewNext]_viewVars

-----------------------------------------------------------------------------
(* Properties *)

\* In whatever order the two queries see the database, no create job of the
\* user is missing from the list: it has a card of its own or its row's, unless
\* the row is another user's, which made the same server first, or was inserted
\* while the page loaded.
CreatesAreShown ==
    [][SecondQuery => \A j \in DOMAIN ShownJobs : LET job == ShownJobs[j] IN
          type[j] = "create" =>
              \/ job.hasCard
              \/ job.server \in ShownRows
              \/ /\ job.server # None
                 /\ owner[job.server] # page.user \/ job.server \notin page.begun]_viewVars

\* What the stages in done leave behind: the spec, the row, the probe's result
\* and the public URL.
WorkIsThere(j, done) ==
    /\ "generating" \in done => parsed[j] # None
    /\ "building" \in done => server[j] # None
    /\ "probing" \in done => probed[server[j]] # None
    /\ "deploying" \in done => url[server[j]] # None

\* A stage that is shown as done has left its work, on the page of a job and on
\* the cards, and a job is shown as in progress exactly until it has ended.
ShownProgressIsReal ==
    \A j \in Job : type[j] \in {"create", "refine"} =>
        /\ WorkIsThere(j, DoneStages(stage[j], lastEvent[j]))
        /\ JobStatus(j) = "in progress" <=> stage[j] \notin Terminal
=============================================================================
