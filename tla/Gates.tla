------------------------------- MODULE Gates -------------------------------
(***************************************************************************)
(* What a spec passes before it is deployed: the generator's checks, the   *)
(* "validating" stage (policy rules, and the Inspector CLI against an      *)
(* ephemeral server) and the "probing" stage (latency samples of every     *)
(* read-only tool).  One job, claimed again for each stage and after each  *)
(* retry; module Pipeline has several jobs, and these stages as one step.  *)
(*                                                                         *)
(* The Inspector gives up a call of a tool after a time of its own.  What  *)
(* the ephemeral server still does for that call is left out.  The worker  *)
(* dies of an answer here; module JobQueue has its crashes anywhere else.  *)
(***************************************************************************)
EXTENDS Generator, UpstreamCall, FiniteSetsExt

CONSTANTS
    SampleCount,    \* sampleCount, of each read-only tool
    Retries,        \* transientRetries, of each sample
    Gate            \* maxObservedLatencyMs, in ticks

ASSUME GateAssumption == /\ SampleCount \in Nat \ {0} /\ Retries \in Nat
                         /\ Gate \in 1..Timeout

VARIABLES
    at,         \* where the handler of validating or probing is
    tool,       \* the index of the tool being called
    sample,     \* samples taken of it
    attempt,    \* of the sample being taken
    slowest,    \* the largest of allSamples
    broken,     \* inspectServer's failures is not empty
    answered,   \* calls of this probing stage with an answer, by tool
    worst,      \* the longest of those
    silent,     \* calls without an answer since the last one with
    misread     \* an answer had the text of a hopeless call

driverVars == <<at, tool, sample, attempt, slowest, broken>>
truthVars  == <<answered, worst, silent, misread>>
vars == <<generatorVars, callVars, driverVars, truthVars>>

TypeOK ==
    /\ GeneratorTypeOK
    /\ CallTypeOK
    /\ at \in {"start", "listing", "ready", "calling"}
    /\ tool \in 1..MAX_TOOLS
    /\ sample \in 0..(SampleCount - 1)
    /\ attempt \in 0..Retries
    /\ slowest \in 0..Timeout
    /\ broken \in BOOLEAN
    /\ answered \in [1..MIN_RECOMMENDED_TOOLS -> 0..SampleCount]
    /\ worst \in 0..Timeout
    /\ silent \in 0..(Retries + 1)
    /\ misread \in BOOLEAN

Fresh ==
    /\ at = "start" /\ tool = 1 /\ sample = 0 /\ attempt = 0
    /\ slowest = 0 /\ broken = FALSE
    /\ answered = [i \in 1..MIN_RECOMMENDED_TOOLS |-> 0]
    /\ worst = 0 /\ silent = 0 /\ misread = FALSE

Init == GeneratorInit /\ CallInit /\ Fresh

-----------------------------------------------------------------------------
(* How a stage ends *)

Advance(next) ==
    /\ stage' = next
    /\ UNCHANGED <<request, outcome, step, answers, spec>>

EndStage(how) ==
    /\ outcome' = how
    /\ UNCHANGED <<request, stage, step, answers, spec>>

Idle == exec' = "idle" /\ result' = NoResult /\ UNCHANGED <<timer, elapsed, heard, wrote>>

Generate ==
    /\ GeneratorStep
    /\ UNCHANGED <<callVars, driverVars, truthVars>>

\* The handler of a stage that is run again starts from nothing.
StartAnew ==
    /\ at' = "start" /\ tool' = 1 /\ sample' = 0 /\ attempt' = 0
    /\ slowest' = 0 /\ broken' = FALSE
    /\ answered' = [i \in 1..MIN_RECOMMENDED_TOOLS |-> 0]
    /\ worst' = 0 /\ silent' = 0 /\ misread' = FALSE

\* The queue has the stage's job claimed again, after failOrRetry.
Rerun ==
    /\ outcome = "retry"
    /\ outcome' = "none"
    /\ step' = IF stage = "generating" THEN "start" ELSE step
    /\ StartAnew
    /\ UNCHANGED <<request, stage, answers, spec, callVars>>

-----------------------------------------------------------------------------
(* Validating *)

Running(s) == stage = s /\ outcome = "none"

\* The rules, the host names of the fetch guard and the ephemeral server.
StartValidating ==
    /\ Running("validating") /\ at = "start"
    /\ \/ /\ ~PolicyAllows(spec)
          /\ EndStage("fail")
          /\ UNCHANGED <<callVars, driverVars, truthVars>>
       \/ /\ PolicyAllows(spec)
          /\ EndStage("retry")   \* new URL() throws, or the port is not bound
          /\ UNCHANGED <<callVars, driverVars, truthVars>>
       \/ /\ PolicyAllows(spec)
          /\ \A i \in DOMAIN spec.tools : spec.tools[i].url # "badport"
          /\ at' = "listing"
          /\ UNCHANGED <<generatorVars, callVars, tool, sample, attempt, slowest,
                         broken, truthVars>>

\* The tools that are called, in order: none but the read-only ones.
NextTool(from) == {i \in ReadOnlyTools(spec) : i > from}

\* inspectServer goes on to the next tool, or to its verdict.
NextToolCall(from, failed) ==
    IF NextTool(from) # {}
    THEN /\ at' = "ready"
         /\ tool' = Min(NextTool(from))
         /\ broken' = failed
         /\ UNCHANGED <<generatorVars, sample, attempt, slowest, truthVars>>
    ELSE /\ IF failed THEN EndStage("fail") ELSE Advance("probing")
         /\ at' = "start" /\ tool' = 1 /\ broken' = FALSE
         /\ UNCHANGED <<sample, attempt, slowest, truthVars>>

\* tools/list: an exit code, output that is not JSON or has not the shape of
\* an answer, and the timeout are all failures of the check.
ToolsListed ==
    /\ Running("validating") /\ at = "listing"
    /\ \/ NextToolCall(0, FALSE)
       \/ EndStage("fail") /\ UNCHANGED <<driverVars, truthVars>>
    /\ UNCHANGED callVars

Call ==
    /\ outcome = "none" /\ at = "ready"
    /\ at' = "calling"
    /\ StartCall(spec.tools[tool], SyntheticArgs(spec.tools[tool]))
    /\ UNCHANGED <<generatorVars, tool, sample, attempt, slowest, broken, truthVars>>

\* Any text of executeTool is a result without isError.
ToolCallEnds ==
    /\ Running("validating") /\ at = "calling" /\ exec = "returned"
    /\ \E failed \in {broken, TRUE} : NextToolCall(tool, failed)
    /\ Idle

\* The Inspector is killed by its timeout, or fails before the call is over.
InspectorEnds ==
    /\ Running("validating") /\ at = "calling"
    /\ NextToolCall(tool, TRUE)
    /\ exec' = "idle" /\ timer' = "off" /\ result' = NoResult
    /\ UNCHANGED <<elapsed, heard, wrote>>

\* The steps of the call itself.
InCall(step_) ==
    /\ at = "calling"
    /\ step_
    /\ UNCHANGED <<generatorVars, driverVars, truthVars>>

LookupEnds   == InCall(Resolve(spec.tools[tool]))
Upstream     == InCall(Answer \/ ReadBody \/ ConnectionFails)
AbortTimer   == InCall(TimerFires)
TimePasses   == InCall(Tick)

\* The process ends, whether the call is the Inspector's or the probe's.  The
\* job is claimed again when its lock is stale, and its stage starts anew.
WorkerDies ==
    /\ at = "calling"
    /\ AnswerThrows
    /\ StartAnew
    /\ UNCHANGED generatorVars

-----------------------------------------------------------------------------
(* Probing *)

\* probeSpec up to its first call: a tool that is not read-only is only
\* checked against its own schema, and without others there is nothing to do.
StartProbing ==
    /\ Running("probing") /\ at = "start"
    /\ LET unfit == \E i \in DOMAIN spec.tools \ ReadOnlyTools(spec) :
                       ~ArgsAccepted(spec.tools[i], SyntheticArgs(spec.tools[i]))
       IN  \/ unfit /\ EndStage("fail") /\ UNCHANGED driverVars
           \/ /\ ~unfit /\ ReadOnlyTools(spec) = {}
              /\ Advance("deploying")
              /\ UNCHANGED driverVars
           \/ /\ ~unfit /\ ReadOnlyTools(spec) # {}
              /\ at' = "ready"
              /\ tool' = Min(ReadOnlyTools(spec))
              /\ UNCHANGED <<generatorVars, sample, attempt, slowest, broken>>
    /\ UNCHANGED <<callVars, truthVars>>

\* Mutant: every status is an answer.
ClassifyEveryStatusOk(text) ==
    CASE text \in {"timed out", "failed", "reads transient"} -> "transient"
      [] text \in {"invalid", "unbuildable", "reads fatal"} -> "fatal"
      [] OTHER                                              -> "ok"

\* classifyProbeResult looks for phrases in the text, whoever wrote them.
Classify(text) ==
    CASE text \in {"timed out", "status 5xx", "failed", "reads transient"} ->
            "transient"
      [] text \in {"invalid", "unbuildable", "reads fatal"} -> "fatal"
      [] OTHER                                              -> "ok"

Max2(a, b) == IF a > b THEN a ELSE b

\* buildResult, once every sample is in.
Verdict(latency) == IF latency < Gate THEN Advance("deploying") ELSE EndStage("fail")

\* Mutant: the retries of a sample are those of its tool.
TakeSampleKeepingAttempts(latency) ==
    /\ slowest' = Max2(slowest, latency)
    /\ UNCHANGED <<attempt, broken>>
    /\ IF sample + 1 < SampleCount
       THEN at' = "ready" /\ sample' = sample + 1 /\ UNCHANGED <<tool, generatorVars>>
       ELSE /\ sample' = 0
            /\ IF NextTool(tool) # {}
               THEN at' = "ready" /\ tool' = Min(NextTool(tool)) /\ UNCHANGED generatorVars
               ELSE at' = "start" /\ tool' = 1 /\ Verdict(slowest')

\* An answer within the retries is a sample, whatever its status.
TakeSample(latency) ==
    /\ slowest' = Max2(slowest, latency)
    /\ attempt' = 0
    /\ UNCHANGED broken
    /\ IF sample + 1 < SampleCount
       THEN at' = "ready" /\ sample' = sample + 1 /\ UNCHANGED <<tool, generatorVars>>
       ELSE /\ sample' = 0
            /\ IF NextTool(tool) # {}
               THEN at' = "ready" /\ tool' = Min(NextTool(tool)) /\ UNCHANGED generatorVars
               ELSE at' = "start" /\ tool' = 1 /\ Verdict(slowest')

\* Mutant: a retry too many.
RetryOnceMore == attempt <= Retries

MayRetry == attempt < Retries

\* After its backoff a sample is tried again.
TryAgain ==
    /\ at' = "ready"
    /\ attempt' = attempt + 1
    /\ UNCHANGED <<generatorVars, tool, sample, slowest, broken>>

\* The upstream has answered, and its answer reads as one.
Read == heard = "answer" /\ result \notin {"reads transient", "reads fatal"}

\* What the upstream has really done, for the properties.
Witness ==
    /\ answered' = IF Read /\ answered[tool] < SampleCount
                   THEN [answered EXCEPT ![tool] = @ + 1] ELSE answered
    /\ worst' = IF Read THEN Max2(worst, elapsed) ELSE worst
    /\ silent' = IF Read THEN 0
                 ELSE IF silent <= Retries THEN silent + 1 ELSE silent
    /\ misread' = (misread \/ (heard = "answer" /\ result = "reads fatal"))

\* runOneSampleWithRetry has the text of a call, and goes on.
CallProbed ==
    /\ Running("probing") /\ at = "calling" /\ exec = "returned"
    /\ \/ Classify(result) = "ok" /\ TakeSample(elapsed)
       \/ /\ Classify(result) = "fatal"
          /\ EndStage("fail")
          /\ UNCHANGED driverVars
       \/ Classify(result) = "transient" /\ MayRetry /\ TryAgain
       \/ /\ Classify(result) = "transient" /\ ~MayRetry
          /\ EndStage("retry")
          /\ UNCHANGED driverVars
    /\ Witness
    /\ Idle

-----------------------------------------------------------------------------

Next ==
    \/ Generate \/ Rerun
    \/ StartValidating \/ ToolsListed \/ ToolCallEnds \/ InspectorEnds
    \/ Call \/ LookupEnds \/ Upstream \/ AbortTimer \/ TimePasses
    \/ StartProbing \/ CallProbed \/ WorkerDies

\* The worker goes on, lookups end, time passes and timers fire.  Nothing is
\* assumed of the upstreams, nor of the LLM: a worker may die for ever.
Fairness ==
    /\ WF_vars(StartValidating \/ ToolsListed \/ ToolCallEnds)
    /\ WF_vars(InspectorEnds)
    /\ WF_vars(Call) /\ WF_vars(StartProbing) /\ WF_vars(CallProbed)
    /\ WF_vars(LookupEnds) /\ WF_vars(TimePasses) /\ WF_vars(AbortTimer)

Spec == Init /\ [][Next]_vars
FairSpec == Spec /\ Fairness

-----------------------------------------------------------------------------
(* Properties *)

\* A spec goes on to its deployment only if each of its read-only tools was
\* really answered SampleCount times, with less than a server error, and none
\* of the answers took as long as the gate (run-probe.ts: the hard gate R2).
GateHolds ==
    stage = "deploying" =>
        \A i \in ReadOnlyTools(spec) : answered[i] = SampleCount /\ worst < Gate

\* The probe gives up for a retry only after as many calls in a row without
\* an answer as one sample has attempts, and fails a spec for good only when
\* an answer did take as long as the gate, or had "Invalid parameters" or the
\* like in its text: never because of the arguments the probe made up or the
\* url, whatever the generator produced.  An answer with the text of an error
\* worth a retry counts as none (run-probe.ts, classify.ts).
VerdictIsDeserved ==
    stage = "probing" => /\ outcome = "retry" => silent = Retries + 1
                         /\ outcome = "fail"  => worst >= Gate \/ misread

\* No parameter a generated tool declares is lost on the way to the upstream:
\* each has a place in the path, the query or the body, also where the
\* descriptor says one thing of it and its url another (build-spec.ts).
EveryArgumentIsSent ==
    spec # NoSpec => \A i \in DOMAIN spec.tools :
        LET t == spec.tools[i]
            all == [p \in DOMAIN t.params |-> SyntheticValue(t.params[p])]
        IN  \A p \in DOMAIN t.params : ArgsAccepted(t, all) /\ p \in Bound(t, all)

\* If the upstreams kill the worker no more than finitely often (a 204 does it,
\* send-pinned-request.ts:16), validating ends, whatever else they do; probing
\* does unless a request was sent after its abort timer had fired (execute.ts:
\* 47, send-pinned-request.ts:57): nothing but the upstream ends such a request.
GatesEnd ==
    <>[][~WorkerDies]_vars =>
        /\ Running("validating") ~> ~Running("validating")
        /\ [](stage = "probing" => ~Unguarded) =>
               (Running("probing") ~> ~Running("probing"))

\* run-probe.ts:94: "probing itself can never cause an upstream side effect":
\* nothing but GETs is sent before the deployment.
ProbingOnlyReads == ~wrote
=============================================================================
