------------------------------ MODULE Pipeline ------------------------------
(***************************************************************************)
(* The create / refine / delete pipeline: the stage handlers of            *)
(* apps/worker run by the workers of JobQueue, the servers table they and  *)
(* the dashboard write, and the directory of spec files they deploy to.    *)
(*                                                                         *)
(* A handler is a sequence of steps, one for each statement or file        *)
(* operation it awaits, and a worker may crash, and other actors may act,  *)
(* between any two.  Every stage fits in staleLockMs here (SlowJobs is     *)
(* empty), so that by JobQueue's ExclusiveRun a handler may read the       *)
(* columns of its job from the row instead of from the copy it claimed.    *)
(*                                                                         *)
(* A generated spec is its slug and its body, which stands for everything  *)
(* else.  The idempotency key is the hash of the generated spec, and a     *)
(* body has one generated slug, so the body is the key; a servers row is   *)
(* named by its key, which the table has a unique constraint on.           *)
(***************************************************************************)
EXTENDS JobStages

CONSTANTS
    Worker, NoWorker, Job, EnqueuedTypes, SlowJobs, MaxAttempts, AttemptCap,
    Body,      \* bodies of generated specs
    Name,      \* the slugs the generator derives
    NameOf,    \* the slug each body is generated with
    Requests,  \* the bodies each job's request may generate
    UserOf,    \* the user each create job is for
    None,      \* a column that is null, a file that does not exist
    Empty,     \* a file that was truncated and not written yet
    Mixed      \* a file that two writers have written over each other

Users == {UserOf[j] : j \in Job}

ASSUME QueueAssumption   ==
    /\ Job \subseteq Nat \ {0} /\ NoWorker \notin Worker
    /\ EnqueuedTypes \subseteq JobTypes
    /\ MaxAttempts \in Nat \ {0} /\ AttemptCap \in Nat
    /\ MaxAttempts <= AttemptCap /\ 5 <= AttemptCap
ASSUME QuickAssumption   == SlowJobs = {}
ASSUME RequestAssumption ==
    /\ NameOf \in [Body -> Name]
    /\ Requests \in [Job -> SUBSET Body]
    /\ None \notin Body
    /\ DOMAIN UserOf = Job
    /\ None \notin Users

VARIABLES
    stage, type, attempts, lockedBy, stale, lastEvent,
    pc, held, ran, outcome, seen,
    \* further columns of the jobs table
    parsed,     \* parsed_spec
    server,     \* server_id
    \* the servers table, "none" for a row that does not exist
    status, slug,
    url,        \* the slug in public_url and deploy_ref
    probed,     \* the body probe_result was measured for
    owner,      \* user_id
    \* SPEC_STORE_DIR
    file,       \* what {slug}.json holds
    \* workers
    step,       \* how far the running handler is
    patch,      \* what an advance outcome will write to the job
    \* the dashboard
    dash,       \* a server action between its check and its update
    \* history: the rows that an enable has made active
    revived

queueVars  == <<stage, type, attempts, lockedBy, stale, lastEvent,
                pc, held, ran, outcome, seen>>
jobColumns == <<parsed, server>>
servers    == <<status, slug, url, probed, owner>>
vars       == <<queueVars, jobColumns, servers, file, step, patch, dash, revived>>

Queue == INSTANCE JobQueue

\* A slug is a generated name, or one that the building stage has suffixed
\* with the first characters of the job's id.
Slugs     == Name \X ({0} \cup Job)
Plain(n)  == <<n, 0>>
Suffixed(s, j) == <<s[1], j>>

Specs    == [slug : Slugs, body : Body]

\* What a whole file holds is a spec.
Torn == {Empty, Mixed}

ASSUME NoneAssumption == None \notin Slugs \cup Specs
ASSUME TornAssumption == Empty # Mixed /\ Torn \cap (Specs \cup {None}) = {}

Statuses == {"none", "building", "active", "failed", "deleted", "disabled"}
Steps    == {"start", "suffix", "open", "write", "lost", "activate", "mark"}
NoPatch  == [spec |-> None, server |-> None]
NoAction == [op |-> "none", on |-> None]

TypeOK ==
    /\ Queue!TypeOK
    /\ parsed \in [Job -> Specs \cup {None}]
    /\ server \in [Job -> Body \cup {None}]
    /\ status \in [Body -> Statuses]
    /\ slug   \in [Body -> Slugs \cup {None}]
    /\ url    \in [Body -> Slugs \cup {None}]
    /\ probed \in [Body -> Body \cup {None}]
    /\ owner  \in [Body -> Users \cup {None}]
    /\ file   \in [Slugs -> Specs \cup Torn \cup {None}]
    /\ step   \in [Worker -> Steps]
    /\ patch  \in [Worker -> [spec   : Specs \cup {None},
                              server : Body \cup {None}]]
    /\ dash   \in [op : {"none", "disable", "enable"}, on : Body \cup {None}]
    /\ revived \subseteq Body

Init ==
    /\ Queue!Init
    /\ parsed = [j \in Job |-> None]
    /\ server = [j \in Job |-> None]
    /\ status = [k \in Body |-> "none"]
    /\ slug   = [k \in Body |-> None]
    /\ url    = [k \in Body |-> None]
    /\ probed = [k \in Body |-> None]
    /\ owner  = [k \in Body |-> None]
    /\ file   = [s \in Slugs |-> None]
    /\ step   = [w \in Worker |-> "start"]
    /\ patch  = [w \in Worker |-> NoPatch]
    /\ dash   = NoAction
    /\ revived = {}

Exists(k) == status[k] # "none"
Taken(s)  == \E k \in Body : Exists(k) /\ slug[k] = s

-----------------------------------------------------------------------------
(* Requests: the creator's tools and the dashboard *)

RequestCreate(j) ==
    /\ Queue!Enqueue(j, "create")
    /\ UNCHANGED <<jobColumns, servers, file, step, patch, dash, revived>>

\* refine_mcp_server asks only that the row exists, whatever its status.
RequestRefine(j, k) ==
    /\ Exists(k)
    /\ Queue!Enqueue(j, "refine")
    /\ server' = [server EXCEPT ![j] = k]
    /\ UNCHANGED <<parsed, servers, file, step, patch, dash, revived>>

RequestDelete(j, k) ==
    /\ Exists(k)
    /\ status[k] # "deleted"
    /\ Queue!Enqueue(j, "delete")
    /\ server' = [server EXCEPT ![j] = k]
    /\ UNCHANGED <<parsed, servers, file, step, patch, dash, revived>>

\* A server action reads the row and checks its status ...
AuthorizeAction(op, k) ==
    /\ dash = NoAction
    /\ status[k] = IF op = "disable" THEN "active" ELSE "disabled"
    /\ dash' = [op |-> op, on |-> k]
    /\ UNCHANGED <<queueVars, jobColumns, servers, file, step, patch, revived>>

\* ... and then updates it, whatever its status has become.
PerformAction ==
    /\ dash # NoAction
    /\ status' = [status EXCEPT ![dash.on] =
                      IF dash.op = "disable" THEN "disabled" ELSE "active"]
    /\ revived' = IF dash.op = "enable" THEN revived \cup {dash.on} ELSE revived
    /\ dash' = NoAction
    /\ UNCHANGED <<queueVars, jobColumns, slug, url, probed, owner, file,
                   step, patch>>

-----------------------------------------------------------------------------
(* Handlers *)

\* Worker w runs stage s of a job of one of the types ts, and has come to at.
At(w, s, ts, at) ==
    /\ pc[w] = "running"
    /\ ran[w] = s
    /\ type[held[w]] \in ts
    /\ step[w] = at

Goto(w, at) ==
    /\ step' = [step EXCEPT ![w] = at]
    /\ UNCHANGED queueVars

\* The handler returns outcome o, with p to be written to the job.
Return(w, o, p) ==
    /\ Queue!Handle(w, o)
    /\ patch' = [patch EXCEPT ![w] = p]
    /\ step'  = [step EXCEPT ![w] = "start"]

\* A rejected request, a policy or compliance violation, or a failed probe.
HandlerRejects(w) ==
    /\ pc[w] = "running"
    /\ type[held[w]] # "delete"
    /\ ran[w] \in {"queued", "validating", "probing"}
    /\ Return(w, "fail", NoPatch)
    /\ UNCHANGED <<jobColumns, servers, file, dash, revived>>

\* An unreachable upstream or a compliance check that could not be run.
HandlerRetries(w) ==
    /\ Return(w, "retry", NoPatch)
    /\ UNCHANGED <<jobColumns, servers, file, dash, revived>>

\* Any statement or file operation the handler awaits may throw.
HandlerThrows(w) ==
    /\ Return(w, "thrown", NoPatch)
    /\ UNCHANGED <<jobColumns, servers, file, dash, revived>>

\* Mutant: a refined spec keeps the slug it was generated with.
SpecSlugAsGenerated(j, b) == Plain(NameOf[b])

\* applyRefineSlugOverride: a refined spec takes the slug of its server.
SpecSlug(j, b) == IF type[j] = "create" THEN Plain(NameOf[b]) ELSE slug[server[j]]

Generate(w) ==
    LET j == held[w]
    IN  /\ At(w, "queued", {"create", "refine"}, "start")
        /\ \E b \in Requests[j] :
               Return(w, "advance", [spec   |-> [slug |-> SpecSlug(j, b), body |-> b],
                                     server |-> None])
        /\ UNCHANGED <<jobColumns, servers, file, dash, revived>>

InsertRow(j, k, s) ==
    /\ status' = [status EXCEPT ![k] = "building"]
    /\ slug'   = [slug EXCEPT ![k] = s]
    /\ owner'  = [owner EXCEPT ![k] = UserOf[j]]
    /\ UNCHANGED <<url, probed>>

\* createServerFromJob: the row of the key if there is one, whoever made it
\* and whatever its slug and status; else a new row, if the slug is free.
CreateServerFromJob(w, s, p) ==
    LET j == held[w]
        k == parsed[j].body
    IN  \/ /\ Exists(k)
           /\ Return(w, "advance", [spec |-> p, server |-> k])
           /\ UNCHANGED servers
        \/ /\ ~Exists(k) /\ ~Taken(s)
           /\ InsertRow(j, k, s)
           /\ Return(w, "advance", [spec |-> p, server |-> k])

SlugConflict(w, s) == ~Exists(parsed[held[w]].body) /\ Taken(s)

BuildRow(w) ==
    LET s == parsed[held[w]].slug
    IN  /\ At(w, "building", {"create"}, "start")
        /\ \/ CreateServerFromJob(w, s, None)
           \/ SlugConflict(w, s) /\ Goto(w, "suffix") /\ UNCHANGED <<servers, patch>>
        /\ UNCHANGED <<jobColumns, file, dash, revived>>

\* The second attempt at the row, whose slug goes back into parsed_spec.
BuildSuffixedRow(w) ==
    LET j == held[w]
        s == Suffixed(parsed[j].slug, j)
    IN  /\ At(w, "building", {"create"}, "suffix")
        /\ \/ CreateServerFromJob(w, s, [parsed[j] EXCEPT !.slug = s])
           \/ SlugConflict(w, s) /\ Return(w, "fail", NoPatch) /\ UNCHANGED servers
        /\ UNCHANGED <<jobColumns, file, dash, revived>>

BuildRefined(w) ==
    /\ At(w, "building", {"refine"}, "start")
    /\ Return(w, "advance", NoPatch)
    /\ UNCHANGED <<jobColumns, servers, file, dash, revived>>

Validate(w) ==
    /\ At(w, "validating", {"create", "refine"}, "start")
    /\ Return(w, "advance", NoPatch)
    /\ UNCHANGED <<jobColumns, servers, file, dash, revived>>

Probe(w) ==
    LET j == held[w]
    IN  /\ At(w, "probing", {"create", "refine"}, "start")
        /\ probed' = [probed EXCEPT ![server[j]] = parsed[j].body]
        /\ Return(w, "advance", NoPatch)
        /\ UNCHANGED <<jobColumns, status, slug, url, owner, file, dash, revived>>

\* A server that is already active with a public URL is taken to have been
\* deployed by this job before a crash.
AlreadyDeployed(k) == status[k] = "active" /\ url[k] # None

\* Mutant: the handler does not wait for the deployer.
DeployCheckNotWaiting(w) ==
    /\ At(w, "deploying", {"create", "refine"}, "start")
    /\ IF AlreadyDeployed(server[held[w]])
       THEN Return(w, "advance", NoPatch)
       ELSE Goto(w, "activate") /\ UNCHANGED patch
    /\ UNCHANGED <<jobColumns, servers, file, dash, revived>>

DeployCheck(w) ==
    /\ At(w, "deploying", {"create", "refine"}, "start")
    /\ IF AlreadyDeployed(server[held[w]])
       THEN Return(w, "advance", NoPatch)
       ELSE Goto(w, "open") /\ UNCHANGED patch
    /\ UNCHANGED <<jobColumns, servers, file, dash, revived>>

\* writeFile opens the file, which truncates it ...
DeployOpen(w) ==
    /\ At(w, "deploying", {"create", "refine"}, "open")
    /\ file' = [file EXCEPT ![parsed[held[w]].slug] = Empty]
    /\ Goto(w, "write")
    /\ UNCHANGED <<jobColumns, servers, patch, dash, revived>>

\* ... and writes the spec into it, at once since it is short, from the start of
\* the file, in which another worker may have written more by then.
DeployWrite(w) ==
    LET spec == parsed[held[w]]
    IN  /\ At(w, "deploying", {"create", "refine"}, "write")
        /\ \E content \in {spec, Mixed} :
               /\ content = Mixed => file[spec.slug] \notin {Empty, spec}
               /\ file' = [file EXCEPT ![spec.slug] = content]
        /\ Goto(w, "activate")
        /\ UNCHANGED <<jobColumns, servers, patch, dash, revived>>

\* The file that was opened has been removed: what is written goes with it.
DeployWriteLost(w) ==
    /\ At(w, "deploying", {"create", "refine"}, "lost")
    /\ Goto(w, "activate")
    /\ UNCHANGED <<jobColumns, servers, file, patch, dash, revived>>

DeployActivate(w) ==
    LET k == server[held[w]]
    IN  /\ At(w, "deploying", {"create", "refine"}, "activate")
        /\ status' = [status EXCEPT ![k] = "active"]
        /\ url'    = [url EXCEPT ![k] = parsed[held[w]].slug]
        /\ Return(w, "advance", NoPatch)
        /\ UNCHANGED <<jobColumns, slug, probed, owner, file, dash, revived>>

\* The name is removed, under the workers that have the file open.
DeleteFile(w) ==
    LET s == slug[server[held[w]]]
    IN  /\ At(w, "queued", {"delete"}, "start")
        /\ file' = [file EXCEPT ![s] = None]
        /\ step' = [v \in Worker |->
                        IF v = w THEN "mark"
                        ELSE IF step[v] = "write" /\ parsed[held[v]].slug = s THEN "lost"
                        ELSE step[v]]
        /\ UNCHANGED <<queueVars, jobColumns, servers, patch, dash, revived>>

DeleteRow(w) ==
    /\ At(w, "queued", {"delete"}, "mark")
    /\ status' = [status EXCEPT ![server[held[w]]] = "deleted"]
    /\ Return(w, "advance", NoPatch)
    /\ UNCHANGED <<jobColumns, slug, url, probed, owner, file, dash, revived>>

-----------------------------------------------------------------------------
(* The queue's own steps, with what they do to the other columns *)

ClearStep(w) ==
    /\ step'  = [step EXCEPT ![w] = "start"]
    /\ patch' = [patch EXCEPT ![w] = NoPatch]

\* parsed_spec is written if the patch has one, server_id is sticky.
Complete(w) ==
    LET j == held[w]
    IN  /\ Queue!Complete(w)
        /\ parsed' = [parsed EXCEPT ![j] =
                          IF patch[w].spec = None THEN @ ELSE patch[w].spec]
        /\ server' = [server EXCEPT ![j] =
                          IF patch[w].server = None THEN @ ELSE patch[w].server]
        /\ ClearStep(w)
        /\ UNCHANGED <<servers, file, dash, revived>>

\* Mutant: the UPDATE does not look at the status of the server.
FailsServerWhateverStatus(w, k) ==
    /\ Queue!IsTerminal(w)
    /\ type[held[w]] = "create"
    /\ server[held[w]] = k

\* Mutant: failures that only become terminal by the attempts count are missed.
FailsServerIfToldTo(w, k) ==
    /\ outcome[w] = "fail"
    /\ type[held[w]] = "create"
    /\ server[held[w]] = k
    /\ status[k] = "building"

\* A terminal failure of a create job takes its server row along, if the job
\* has one and it is still building.
FailsServer(w, k) ==
    /\ Queue!IsTerminal(w)
    /\ type[held[w]] = "create"
    /\ server[held[w]] = k
    /\ status[k] = "building"

Fail(w) ==
    /\ Queue!Fail(w)
    /\ status' = [k \in Body |-> IF FailsServer(w, k) THEN "failed" ELSE status[k]]
    /\ ClearStep(w)
    /\ UNCHANGED <<jobColumns, slug, url, probed, owner, file, dash, revived>>

\* The loop's own rejections leave the job as a crash does.
Stop(w) ==
    /\ Queue!Crash(w)
    /\ ClearStep(w)
    /\ UNCHANGED <<jobColumns, servers, file, dash, revived>>

QueueOnly(w) ==
    /\ \/ \E j \in Job : Queue!Claim(w, j)
       \/ Queue!AssertLockOwned(w)
       \/ Queue!ReportErrors(w)
    /\ UNCHANGED <<jobColumns, servers, file, step, patch, dash, revived>>

Handler(w) ==
    \/ HandlerRejects(w) \/ HandlerRetries(w) \/ HandlerThrows(w)
    \/ Generate(w)
    \/ BuildRow(w) \/ BuildSuffixedRow(w) \/ BuildRefined(w)
    \/ Validate(w) \/ Probe(w)
    \/ DeployCheck(w) \/ DeployOpen(w) \/ DeployWrite(w) \/ DeployWriteLost(w)
    \/ DeployActivate(w)
    \/ DeleteFile(w) \/ DeleteRow(w)

Expire(j) ==
    /\ Queue!LockExpires(j)
    /\ UNCHANGED <<jobColumns, servers, file, step, patch, dash, revived>>

Request(j) ==
    \/ "create" \in EnqueuedTypes /\ RequestCreate(j)
    \/ \E k \in Body : \/ "refine" \in EnqueuedTypes /\ RequestRefine(j, k)
                       \/ "delete" \in EnqueuedTypes /\ RequestDelete(j, k)

Dashboard ==
    \/ \E op \in {"disable", "enable"}, k \in Body : AuthorizeAction(op, k)
    \/ PerformAction

Next ==
    \/ \E j \in Job : Request(j) \/ Expire(j)
    \/ Dashboard
    \/ \E w \in Worker :
           Handler(w) \/ QueueOnly(w) \/ Complete(w) \/ Fail(w) \/ Stop(w)

Spec == Init /\ [][Next]_vars

-----------------------------------------------------------------------------
(* Properties *)

\* Whatever crashes, retries and other jobs come between, a server that is or
\* was being served has been through the probe and has a public URL: no path
\* of the stage machine or of the dashboard leads round the latency gate.
ServedIsProbed ==
    \A k \in Body : status[k] \in {"active", "disabled"} =>
                       probed[k] # None /\ url[k] # None

\* A create job that ended well has a server that is up, or that its owner
\* disabled or deleted since: the failure of another create job that shares
\* the row through the idempotency key does not bring it down.
FinishedCreateIsUp ==
    \A j \in Job : type[j] = "create" /\ stage[j] = "active" =>
        status[server[j]] \in {"active", "disabled", "deleted"}

\* A create job that failed after it got its server row does not leave the row
\* in building, whether it failed at once or ran out of attempts.
FailedCreateSettlesRow ==
    \A j \in Job : type[j] = "create" /\ stage[j] = "failed" /\ server[j] # None =>
        status[server[j]] # "building"

OnlyJobOf(k) == \A i, j \in Job : server[i] = k /\ server[j] = k => i = j

\* Where no two specs are generated with one slug, an active server has its
\* file unless its deletion was asked for, and the file is whole if no other job
\* is about the server and no enable has made it active: a worker that dies
\* between the truncation and the row leaves a server that is not active, and the
\* job writes the file again.  Nobody else may make it active meanwhile: the next
\* attempt would then take the server for its own finished deployment.
ActiveHasFile ==
    \A k \in Body : status[k] = "active" =>
        /\ file[url[k]] = None => \E j \in Job : type[j] = "delete" /\ server[j] = k
        /\ OnlyJobOf(k) /\ k \notin revived => file[url[k]] \in Specs

\* Where no two specs are generated with one slug, a server's file only ever
\* holds a spec that a job of that very server got as far as deploying, and its
\* public URL is its own slug, through refines, deletes and revivals.
FilesFromOwnJobs ==
    \A k \in Body : Exists(k) =>
        /\ url[k] \in {None, slug[k]}
        /\ file[slug[k]] \in Specs =>
               \E j \in Job : /\ server[j] = k
                              /\ parsed[j] = file[slug[k]]
                              /\ stage[j] \in {"deploying"} \cup Terminal

-----------------------------------------------------------------------------
(* What the repository says of a refine, and the code does not do *)

\* "Bounds how long a status change (dashboard disable/enable, delete, or a
\* refine) takes to show up" (mcp-server-pool.ts:23): when the only refine job
\* of a server that is up has ended well, its file holds the refined spec.
RefineDelivers ==
    \A j \in Job :
        /\ type[j] = "refine" /\ stage[j] = "active"
        /\ status[server[j]] = "active"
        /\ \A i \in Job \ {j} : server[i] = server[j] => type[i] = "create"
        => file[slug[server[j]]] = parsed[j]
=============================================================================
