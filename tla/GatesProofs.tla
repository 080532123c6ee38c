---------------------------- MODULE GatesProofs ----------------------------
(***************************************************************************)
(* Theorems of module Gates, for any requests, any descriptors the LLM and *)
(* the OpenAPI documents give, and any number of samples, retries and      *)
(* ticks.                                                                  *)
(*                                                                         *)
(* What the two stages rely on is that a spec is not looked at again: what *)
(* the generator has checked of it (Sound), and what the validating stage  *)
(* finds out about its urls (Buildable), holds of it until it is deployed. *)
(* So no call the probe makes is refused for its arguments or its url: a   *)
(* text that Classify calls fatal was an answer (Told), and the handler's  *)
(* own counters agree with what the upstream has done (Sampling).          *)
(***************************************************************************)
EXTENDS Gates, TLAPS

-----------------------------------------------------------------------------
(* The invariant *)

\* Each parameter has a place in the request, and there are three tools.
Covered(s) ==
    /\ DOMAIN s.tools = 1..MIN_RECOMMENDED_TOOLS
    /\ \A i \in DOMAIN s.tools :
          DOMAIN s.tools[i].params \subseteq
              s.tools[i].tokens \cup s.tools[i].query \cup s.tools[i].body

Sound(s) == Loads(s) /\ PolicyAllows(s) /\ Covered(s)

Buildable(s) == \A i \in DOMAIN s.tools : s.tools[i].url # "badport"

StageFacts ==
    /\ stage = "generating" => spec = NoSpec /\ Fresh
    /\ stage # "generating" => step = "ended" /\ Sound(spec)
    /\ outcome # "none" => step = "ended"
    /\ stage = "deploying" => outcome = "none"
    /\ stage \in {"probing", "deploying"} \/ at # "start" => Buildable(spec)

InFlight == exec \in {"resolving", "awaiting", "reading"}

\* What the upstream did, and how its answer reads.
Told == IF Read THEN "ok"
        ELSE IF heard = "answer" /\ result = "reads fatal" THEN "fatal"
        ELSE "transient"

\* A call is made by a running stage, has its timer while it is under way, and
\* is classified by what the upstream did.
CallFacts ==
    /\ exec # "idle" => /\ at = "calling" /\ outcome = "none"
                        /\ stage \in {"validating", "probing"}
    /\ InFlight <=> timer # "off"
    /\ InFlight => heard = "nothing"
    /\ exec = "returned" => /\ result \notin {"invalid", "unbuildable"}
                            /\ Classify(result) = Told

NothingSampled ==
    /\ sample = 0 /\ attempt = 0 /\ slowest = 0
    /\ answered = [i \in 1..MIN_RECOMMENDED_TOOLS |-> 0]
    /\ worst = 0 /\ silent = 0 /\ misread = FALSE

\* The counters of runOneSampleWithRetry and probeSpec tell the truth.
Sampling ==
    /\ silent = attempt
    /\ worst = slowest
    /\ \A i \in ReadOnlyTools(spec) :
          answered[i] = IF i < tool THEN SampleCount ELSE IF i = tool THEN sample ELSE 0

DriverFacts ==
    /\ at \in {"ready", "calling"} => /\ stage \in {"validating", "probing"}
                                      /\ tool \in ReadOnlyTools(spec)
    /\ at = "listing" => stage = "validating"
    /\ stage = "validating" => NothingSampled
    /\ stage = "probing" /\ outcome = "none" =>
          IF at = "start" THEN NothingSampled ELSE Sampling

GateInv ==
    TypeOK /\ StageFacts /\ CallFacts /\ DriverFacts /\ GateHolds /\ VerdictIsDeserved

-----------------------------------------------------------------------------
(* The operators of the model *)

LEMMA MinOfTools ==
    ASSUME NEW S, S \subseteq 1..MIN_RECOMMENDED_TOOLS, S # {}
    PROVE  Min(S) \in S /\ \A x \in S : Min(S) <= x
<1>1. \E m \in S : \A x \in S : m <= x
  <2>1. S \subseteq {1, 2, 3}
    BY DEF MIN_RECOMMENDED_TOOLS
  <2>2. CASE 1 \in S
    BY <2>1, <2>2
  <2>3. CASE 1 \notin S /\ 2 \in S
    BY <2>1, <2>3
  <2>4. CASE 1 \notin S /\ 2 \notin S
    <3>1. S = {3}
      BY <2>1, <2>4
    <3> QED BY <3>1
  <2> QED BY <2>2, <2>3, <2>4
<1> QED BY <1>1 DEF Min

\* The value that stands for a type is one that the type accepts.
LEMMA SyntheticValueAccepted ==
    \A type \in ParamTypes : HasType(type, SyntheticValue(type))
BY DEF ParamTypes, HasType, Accepts, SyntheticValue

\* The made-up arguments are never refused, of the required parameters only
\* (what the probe sends) as of all.
LEMMA SyntheticArgsAccepted ==
    ASSUME NEW t, ToolAllowed(t)
    PROVE  /\ ArgsAccepted(t, SyntheticArgs(t))
           /\ ArgsAccepted(t, [p \in DOMAIN t.params |-> SyntheticValue(t.params[p])])
<1>1. /\ t.required \subseteq DOMAIN t.params
      /\ \A p \in DOMAIN t.params : t.params[p] \in ParamTypes
  BY DEF ToolAllowed, InputSchemaAllowed
<1>2. \A p \in DOMAIN t.params : HasType(t.params[p], SyntheticValue(t.params[p]))
  BY <1>1, SyntheticValueAccepted
<1> QED BY <1>1, <1>2 DEF ArgsAccepted, SyntheticArgs

LEMMA TemplatesCovered == \A t \in Templates : Covered(t)
<1> USE DEF Covered, MIN_RECOMMENDED_TOOLS, Lookup
<1>1. Covered(SearchTemplate)
  BY DEF SearchTemplate
<1>2. Covered(CurrencyTemplate)
  BY DEF CurrencyTemplate
<1>3. Covered(WeatherTemplate)
  BY DEF WeatherTemplate
<1> QED BY <1>1, <1>2, <1>3 DEF Templates

\* A parameter without a token goes to the query or to the body.
LEMMA AugmentedCovered == \A d : Covered(Augmented(d))
<1> SUFFICES ASSUME NEW d PROVE Covered(Augmented(d))
  OBVIOUS
<1> DEFINE w == WrapperTool(d)
<1>1. DOMAIN w.params \subseteq w.tokens \cup w.query \cup w.body
  BY DEF WrapperTool, NonPathParams
<1>2. ASSUME NEW suffix
      PROVE  /\ Variant(d, w, suffix).params = w.params
             /\ Variant(d, w, suffix).tokens = w.tokens
             /\ Variant(d, w, suffix).query = w.query
             /\ Variant(d, w, suffix).body = w.body
  BY DEF Variant, WrapperTool
<1>3. Augmented(d).tools = <<w, Variant(d, w, "details"), Variant(d, w, "variant_2")>>
  BY DEF Augmented
<1> HIDE DEF w
<1> QED BY <1>1, <1>2, <1>3 DEF Covered, MIN_RECOMMENDED_TOOLS

-----------------------------------------------------------------------------

\* The handler's variables have their types when it starts.
FreshTyped ==
    /\ at \in {"start", "listing", "ready", "calling"}
    /\ tool \in 1..MAX_TOOLS
    /\ sample \in 0..(SampleCount - 1)
    /\ attempt \in 0..Retries
    /\ slowest \in 0..Timeout
    /\ broken \in BOOLEAN
    /\ answered \in [1..MIN_RECOMMENDED_TOOLS -> 0..SampleCount]
    /\ worst \in 0..Timeout
    /\ silent \in 0..(Retries + 1)
    /\ misread \in BOOLEAN

LEMMA FreshHasTypes == (Fresh => FreshTyped) /\ (Fresh' => FreshTyped')
<1>1. /\ 1 \in 1..MAX_TOOLS /\ 0 \in 0..(SampleCount - 1)
      /\ 0 \in 0..Retries /\ 0 \in 0..Timeout /\ 0 \in 0..(Retries + 1)
      /\ [i \in 1..MIN_RECOMMENDED_TOOLS |-> 0]
            \in [1..MIN_RECOMMENDED_TOOLS -> 0..SampleCount]
  BY GateAssumption, TimeoutAssumption DEF MAX_TOOLS
<1> QED BY <1>1, Zenon DEF Fresh, FreshTyped

LEMMA InitEstablishes == Init => GateInv
<1> SUFFICES ASSUME Init PROVE GateInv
  OBVIOUS
<1> USE DEF Init, GeneratorInit, CallInit, Fresh
<1>1. TypeOK
  <2>1. GeneratorTypeOK
    BY AttemptsAssumption DEF GeneratorTypeOK
  <2>2. CallTypeOK
    <3>1. wrote \in BOOLEAN
      OBVIOUS
    <3>2. elapsed \in 0..Timeout
      BY TimeoutAssumption
    <3> QED BY <3>1, <3>2, Zenon DEF CallTypeOK
  <2>3. FreshTyped
    BY FreshHasTypes
  <2> QED
    BY <2>1, <2>2, <2>3, Zenon DEF TypeOK, FreshTyped
<1>2. StageFacts
  BY DEF StageFacts
<1>3. CallFacts
  BY DEF CallFacts, InFlight
<1>4. DriverFacts
  BY DEF DriverFacts
<1>5. GateHolds /\ VerdictIsDeserved
  BY DEF GateHolds, VerdictIsDeserved
<1> QED BY <1>1, <1>2, <1>3, <1>4, <1>5 DEF GateInv

-----------------------------------------------------------------------------
(* The generating stage *)

\* A handler of the stage ends it, or waits for its next answer ...
GoesOn ==
    /\ outcome' \in {"none", "retry", "fail"}
    /\ step' \in {"start", "classify", "fetch", "infer", "ended"}
    /\ outcome' # "none" => step' = "ended"
    /\ UNCHANGED <<stage, spec>>

\* ... or hands over a spec that has passed both checks.
HandsOver ==
    /\ Sound(spec')
    /\ stage' = "validating"
    /\ step' = "ended"
    /\ UNCHANGED outcome

LEMMA FinalizeResult ==
    ASSUME NEW candidate, Covered(candidate), Finalize(candidate)
    PROVE  GoesOn \/ HandsOver
BY DEF Finalize, Rejected, GoesOn, HandsOver, Sound

LEMMA WrapResult ==
    ASSUME NEW d, Wrap(d)
    PROVE  GoesOn \/ HandsOver
<1>1. CASE d.summary = "missing"
  BY <1>1 DEF Wrap, Thrown, GoesOn
<1>2. CASE d.summary # "missing"
  BY <1>2, AugmentedCovered, FinalizeResult DEF Wrap
<1> QED BY <1>1, <1>2

LEMMA WaitResult ==
    ASSUME outcome = "none", NEW next \in {"fetch", "classify", "infer"}, WaitFor(next)
    PROVE  GoesOn
BY DEF WaitFor, GoesOn

LEMMA GeneratorStepResult ==
    ASSUME GateInv, GeneratorStep
    PROVE  /\ stage = "generating" /\ outcome = "none"
           /\ GoesOn \/ HandsOver
           /\ request' = request
           /\ answers' \in 0..(MAX_ATTEMPTS - 1)
<1> USE DEF Thrown, Rejected, GoesOn
<1>1. /\ stage # "generating" => step = "ended"
      /\ outcome # "none" => step = "ended"
      /\ answers \in 0..(MAX_ATTEMPTS - 1)
  BY DEF GateInv, StageFacts, TypeOK, GeneratorTypeOK
<1>2. CASE StartGenerating
  <2>1. /\ stage = "generating" /\ outcome = "none"
        /\ request' = request /\ answers' \in 0..(MAX_ATTEMPTS - 1)
    BY <1>2, AttemptsAssumption DEF StartGenerating
  <2>2. \/ Rejected
        \/ Wrap(request.descriptor)
        \/ WaitFor("fetch") \/ WaitFor("classify")
        \/ \E t \in Templates : Finalize(t)
    BY <1>2, Zenon DEF StartGenerating
  <2> QED
    BY <2>1, <2>2, WrapResult, WaitResult, FinalizeResult, TemplatesCovered
<1>3. CASE Classified
  <2>1. stage = "generating" /\ outcome = "none"
    BY <1>1, <1>3 DEF Classified
  <2> QED
    BY <1>1, <1>3, <2>1, WaitResult, FinalizeResult, TemplatesCovered DEF Classified
<1>4. CASE Fetched
  <2>1. stage = "generating" /\ outcome = "none"
    BY <1>1, <1>4 DEF Fetched
  <2> QED
    BY <1>1, <1>4, <2>1, WaitResult, WrapResult DEF Fetched
<1>5. CASE Inferred
  <2>1. stage = "generating" /\ outcome = "none"
    BY <1>1, <1>5 DEF Inferred
  <2>2. request' = request /\ answers' \in 0..(MAX_ATTEMPTS - 1)
    BY <1>1, <1>5, AttemptsAssumption DEF Inferred
  <2> QED
    BY <1>5, <2>1, <2>2, WaitResult, WrapResult DEF Inferred
<1> QED BY <1>2, <1>3, <1>4, <1>5 DEF GeneratorStep

LEMMA GenerateKeeps ==
    ASSUME GateInv, Generate
    PROVE  GateInv'
<1>1. /\ stage = "generating" /\ outcome = "none"
      /\ GoesOn \/ HandsOver
      /\ request' = request
      /\ answers' \in 0..(MAX_ATTEMPTS - 1)
  BY GeneratorStepResult DEF Generate
<1>2. UNCHANGED <<callVars, driverVars, truthVars>>
  BY DEF Generate
<1>3. /\ GeneratorTypeOK /\ CallTypeOK
      /\ Fresh /\ spec = NoSpec
      /\ exec = "idle"
  BY <1>1 DEF GateInv, TypeOK, StageFacts, CallFacts
<1>4. TypeOK'
  <2>1. GeneratorTypeOK'
    <3>1. CASE GoesOn
      BY <1>1, <1>3, <3>1 DEF GeneratorTypeOK, GoesOn
    <3>2. CASE HandsOver
      BY <1>1, <1>3, <3>2 DEF GeneratorTypeOK, HandsOver, Sound
    <3> QED BY <1>1, <3>1, <3>2
  <2>2. CallTypeOK'
    BY <1>2, <1>3 DEF CallTypeOK, callVars
  <2> QED
    BY <1>2, <2>1, <2>2 DEF GateInv, TypeOK, driverVars, truthVars
<1>5. StageFacts'
  <2>1. Fresh'
    BY <1>2, <1>3 DEF Fresh, driverVars, truthVars
  <2>2. CASE GoesOn
    BY <1>1, <1>3, <2>1, <2>2 DEF StageFacts, GoesOn, Fresh
  <2>3. CASE HandsOver
    BY <1>1, <2>1, <2>3 DEF StageFacts, HandsOver, Fresh
  <2> QED BY <1>1, <2>2, <2>3
<1>6. CallFacts'
  BY <1>2, <1>3 DEF GateInv, CallFacts, InFlight, callVars
<1>7. DriverFacts'
  BY <1>1, <1>2, <1>3
  DEF DriverFacts, Fresh, NothingSampled, GoesOn, HandsOver, driverVars, truthVars
<1>8. GateHolds' /\ VerdictIsDeserved'
  BY <1>1 DEF GateHolds, VerdictIsDeserved, GoesOn, HandsOver
<1> QED BY <1>4, <1>5, <1>6, <1>7, <1>8 DEF GateInv

-----------------------------------------------------------------------------
(* The validating stage *)

LEMMA RerunKeeps ==
    ASSUME GateInv, Rerun
    PROVE  GateInv'
<1>1. /\ outcome = "retry" /\ outcome' = "none"
      /\ step' = IF stage = "generating" THEN "start" ELSE step
      /\ UNCHANGED <<request, stage, answers, spec>>
  BY DEF Rerun
<1>2. /\ exec = "idle" /\ UNCHANGED callVars
      /\ Fresh'
  BY DEF Rerun, StartAnew, GateInv, CallFacts, Fresh
<1>3. TypeOK'
  <2>1. GeneratorTypeOK'
    BY <1>1 DEF GateInv, TypeOK, GeneratorTypeOK
  <2>2. CallTypeOK'
    BY <1>2 DEF GateInv, TypeOK, CallTypeOK, callVars
  <2>3. FreshTyped'
    BY <1>2, FreshHasTypes
  <2> QED BY <2>1, <2>2, <2>3, Zenon DEF TypeOK, FreshTyped
<1>4. StageFacts'
  <2>1. /\ at' = "start"
        /\ stage # "generating" => step = "ended" /\ Sound(spec)
        /\ stage = "generating" => spec = NoSpec
        /\ stage \in {"probing", "deploying"} => Buildable(spec)
        /\ stage # "deploying"
    BY <1>1, <1>2 DEF GateInv, StageFacts, Fresh
  <2>2. UNCHANGED <<stage, spec>>
    BY <1>1
  <2> QED BY <1>1, <1>2, <2>1, <2>2 DEF StageFacts
<1>5. CallFacts'
  BY <1>2 DEF GateInv, CallFacts, InFlight, callVars
<1>6. DriverFacts'
  BY <1>2 DEF DriverFacts, Fresh, NothingSampled
<1>7. GateHolds' /\ VerdictIsDeserved'
  BY <1>1 DEF GateHolds, VerdictIsDeserved, GateInv, StageFacts
<1> QED BY <1>3, <1>4, <1>5, <1>6, <1>7 DEF GateInv

LEMMA StartValidatingKeeps ==
    ASSUME GateInv, StartValidating
    PROVE  GateInv'
<1>1. /\ stage = "validating" /\ outcome = "none" /\ at = "start"
      /\ exec = "idle" /\ step = "ended"
      /\ UNCHANGED <<request, stage, step, answers, spec, callVars, truthVars>>
      /\ UNCHANGED <<tool, sample, attempt, slowest, broken>>
  BY DEF StartValidating, Running, EndStage, GateInv, CallFacts, StageFacts,
         generatorVars, driverVars
<1>2. \/ outcome' \in {"fail", "retry"} /\ at' = "start"
      \/ outcome' = "none" /\ at' = "listing" /\ Buildable(spec)
  BY <1>1 DEF StartValidating, EndStage, Buildable, generatorVars, driverVars
<1>3. TypeOK'
  <2>1. GeneratorTypeOK' /\ CallTypeOK'
    BY <1>1, <1>2 DEF GateInv, TypeOK, GeneratorTypeOK, CallTypeOK, callVars
  <2> QED BY <1>1, <1>2, <2>1 DEF GateInv, TypeOK, truthVars
<1>4. StageFacts'
  BY <1>1, <1>2 DEF GateInv, StageFacts, Sound, Buildable
<1>5. CallFacts'
  BY <1>1 DEF GateInv, CallFacts, InFlight, callVars
<1>6. DriverFacts'
  BY <1>1, <1>2 DEF GateInv, DriverFacts, NothingSampled, truthVars
<1>7. GateHolds' /\ VerdictIsDeserved'
  BY <1>1 DEF GateHolds, VerdictIsDeserved
<1> QED BY <1>3, <1>4, <1>5, <1>6, <1>7 DEF GateInv

\* The tools that are still to be called are among the first three.
LEMMA NextToolRange ==
    ASSUME Sound(spec), NEW from, NextTool(from) # {}
    PROVE  /\ Min(NextTool(from)) \in NextTool(from)
           /\ \A i \in NextTool(from) : Min(NextTool(from)) <= i
           /\ Min(NextTool(from)) \in 1..MIN_RECOMMENDED_TOOLS
           /\ Min(NextTool(from)) \in 1..MAX_TOOLS
<1>1. NextTool(from) \subseteq 1..MIN_RECOMMENDED_TOOLS
  BY DEF NextTool, ReadOnlyTools, Sound, Covered
<1>2. 1..MIN_RECOMMENDED_TOOLS \subseteq 1..MAX_TOOLS
  BY DEF MIN_RECOMMENDED_TOOLS, MAX_TOOLS
<1> QED BY <1>1, <1>2, MinOfTools

\* No call is under way after a call of inspectServer.
Quiet ==
    /\ exec' = "idle" /\ timer' = "off" /\ result' = NoResult
    /\ UNCHANGED <<elapsed, heard, wrote>>

LEMMA NextToolCallKeeps ==
    ASSUME GateInv, Running("validating"), at # "start", Quiet,
           NEW from, NEW failed \in BOOLEAN, NextToolCall(from, failed)
    PROVE  GateInv'
<1>1. /\ stage = "validating" /\ outcome = "none" /\ step = "ended"
      /\ Sound(spec) /\ Buildable(spec) /\ NothingSampled
  BY DEF GateInv, Running, StageFacts, DriverFacts
<1>2. /\ UNCHANGED <<request, step, answers, spec, sample, attempt, slowest>>
      /\ UNCHANGED truthVars
  BY DEF NextToolCall, EndStage, Advance, generatorVars
<1>3. \/ /\ stage' = "validating" /\ outcome' = "none" /\ at' = "ready"
         /\ tool' \in ReadOnlyTools(spec) /\ tool' \in 1..MAX_TOOLS
         /\ broken' = failed
      \/ /\ \/ stage' = "validating" /\ outcome' = "fail"
            \/ stage' = "probing" /\ outcome' = "none"
         /\ at' = "start" /\ tool' = 1 /\ broken' = FALSE
  <2>1. CASE NextTool(from) # {}
    <3>1. /\ Min(NextTool(from)) \in ReadOnlyTools(spec)
          /\ Min(NextTool(from)) \in 1..MAX_TOOLS
      BY <1>1, <2>1, NextToolRange DEF NextTool
    <3> QED BY <1>1, <2>1, <3>1 DEF NextToolCall, generatorVars
  <2>2. CASE NextTool(from) = {}
    BY <1>1, <2>2 DEF NextToolCall, EndStage, Advance
  <2> QED BY <2>1, <2>2
<1>4. TypeOK'
  <2>1. GeneratorTypeOK'
    BY <1>2, <1>3 DEF GateInv, TypeOK, GeneratorTypeOK
  <2>2. CallTypeOK'
    BY DEF GateInv, TypeOK, CallTypeOK, Quiet
  <2>3. at' \in {"start", "listing", "ready", "calling"} /\ tool' \in 1..MAX_TOOLS
    BY <1>3 DEF MAX_TOOLS
  <2>4. broken' \in BOOLEAN
    BY <1>3, Zenon
  <2> QED BY <1>2, <2>1, <2>2, <2>3, <2>4, Zenon DEF GateInv, TypeOK, truthVars
<1>5. StageFacts'
  BY <1>1, <1>2, <1>3 DEF StageFacts, Sound, Buildable
<1>6. CallFacts'
  BY DEF CallFacts, InFlight, Quiet
<1>7. DriverFacts'
  <2>1. NothingSampled'
    BY <1>1, <1>2 DEF NothingSampled, truthVars
  <2> QED BY <1>2, <1>3, <2>1 DEF DriverFacts, ReadOnlyTools
<1>8. GateHolds' /\ VerdictIsDeserved'
  BY <1>3 DEF GateHolds, VerdictIsDeserved
<1> QED BY <1>4, <1>5, <1>6, <1>7, <1>8 DEF GateInv

LEMMA ToolsListedKeeps ==
    ASSUME GateInv, ToolsListed
    PROVE  GateInv'
<1>1. /\ Running("validating") /\ at = "listing" /\ UNCHANGED callVars
      /\ exec = "idle" /\ timer = "off" /\ result = NoResult
  BY DEF ToolsListed, GateInv, TypeOK, CallTypeOK, CallFacts, InFlight
<1>2. CASE NextToolCall(0, FALSE)
  <2>1. Quiet
    BY <1>1 DEF Quiet, callVars
  <2> QED BY <1>1, <1>2, <2>1, NextToolCallKeeps
<1>3. CASE EndStage("fail") /\ UNCHANGED <<driverVars, truthVars>>
  <2>1. TypeOK'
    <3>1. GeneratorTypeOK' /\ CallTypeOK'
      BY <1>1, <1>3
      DEF GateInv, TypeOK, GeneratorTypeOK, CallTypeOK, callVars, EndStage
    <3> QED BY <1>1, <1>3, <3>1 DEF GateInv, TypeOK, driverVars, truthVars
  <2>2. StageFacts'
    BY <1>1, <1>3
    DEF GateInv, StageFacts, Running, EndStage, Sound, Buildable, driverVars
  <2>3. CallFacts'
    BY <1>1 DEF GateInv, CallFacts, InFlight, callVars
  <2>4. DriverFacts'
    BY <1>1, <1>3
    DEF GateInv, DriverFacts, Running, EndStage, NothingSampled, driverVars, truthVars
  <2>5. GateHolds' /\ VerdictIsDeserved'
    BY <1>1, <1>3 DEF GateHolds, VerdictIsDeserved, Running, EndStage
  <2> QED BY <2>1, <2>2, <2>3, <2>4, <2>5 DEF GateInv
<1> QED BY <1>2, <1>3 DEF ToolsListed

LEMMA ToolCallEndsKeeps ==
    ASSUME GateInv, ToolCallEnds
    PROVE  GateInv'
<1>1. Running("validating") /\ at = "calling" /\ Quiet
  BY DEF ToolCallEnds, Idle, Quiet, GateInv, CallFacts, InFlight
<1>2. \E failed \in {broken, TRUE} : NextToolCall(tool, failed)
  BY DEF ToolCallEnds
<1>3. {broken, TRUE} \subseteq BOOLEAN
  BY DEF GateInv, TypeOK
<1> QED BY <1>1, <1>2, <1>3, NextToolCallKeeps

LEMMA InspectorEndsKeeps ==
    ASSUME GateInv, InspectorEnds
    PROVE  GateInv'
<1>1. Running("validating") /\ at = "calling" /\ Quiet /\ NextToolCall(tool, TRUE)
  BY DEF InspectorEnds, Quiet
<1> QED BY <1>1, NextToolCallKeeps

-----------------------------------------------------------------------------
(* The calls, of either stage *)

\* A spec that is Sound has none whose made-up arguments are refused, and a
\* Buildable one none whose url cannot be built: the call sets out.
LEMMA CallKeeps ==
    ASSUME GateInv, Call
    PROVE  GateInv'
<1>1. /\ at = "ready" /\ at' = "calling" /\ outcome = "none"
      /\ stage \in {"validating", "probing"} /\ tool \in ReadOnlyTools(spec)
      /\ Sound(spec) /\ Buildable(spec)
      /\ UNCHANGED <<generatorVars, tool, sample, attempt, slowest, broken, truthVars>>
  BY DEF Call, GateInv, DriverFacts, StageFacts
<1>2. /\ exec' = "resolving" /\ timer' = "armed" /\ result' = NoResult
      /\ elapsed' = 0 /\ heard' = "nothing" /\ wrote' = wrote
  <2>1. ToolAllowed(spec.tools[tool]) /\ spec.tools[tool].url # "badport"
    BY <1>1 DEF ReadOnlyTools, Sound, Loads, Buildable
  <2>2. ArgsAccepted(spec.tools[tool], SyntheticArgs(spec.tools[tool]))
    BY <2>1, SyntheticArgsAccepted
  <2> QED BY <2>1, <2>2 DEF Call, StartCall
<1>3. TypeOK'
  <2>1. GeneratorTypeOK'
    BY <1>1 DEF GateInv, TypeOK, GeneratorTypeOK, generatorVars
  <2>2. CallTypeOK'
    <3>1. wrote' \in BOOLEAN
      BY <1>2 DEF GateInv, TypeOK, CallTypeOK
    <3>2. elapsed' \in 0..Timeout
      BY <1>2, TimeoutAssumption
    <3> QED BY <1>2, <3>1, <3>2, Zenon DEF CallTypeOK
  <2> QED BY <1>1, <2>1, <2>2 DEF GateInv, TypeOK, truthVars
<1>4. StageFacts'
  BY <1>1 DEF GateInv, StageFacts, Sound, Buildable, generatorVars
<1>5. CallFacts'
  BY <1>1, <1>2 DEF CallFacts, InFlight, generatorVars
<1>6. DriverFacts'
  BY <1>1
  DEF GateInv, DriverFacts, NothingSampled, Sampling, ReadOnlyTools, generatorVars,
      truthVars
<1>7. GateHolds' /\ VerdictIsDeserved'
  BY <1>1 DEF GateHolds, VerdictIsDeserved, generatorVars
<1> QED BY <1>3, <1>4, <1>5, <1>6, <1>7 DEF GateInv

\* A step of a call leaves the handler where it is.
LEMMA InCallKeeps ==
    ASSUME GateInv, at = "calling", exec # "idle",
           UNCHANGED <<generatorVars, driverVars, truthVars>>,
           CallTypeOK',
           InFlight' <=> timer' # "off",
           InFlight' => heard' = "nothing",
           exec' = "returned" => /\ result' \notin {"invalid", "unbuildable"}
                                 /\ Classify(result') = Told'
    PROVE  GateInv'
<1>1. outcome = "none" /\ stage \in {"validating", "probing"}
  BY DEF GateInv, CallFacts
<1>2. TypeOK'
  <2>1. GeneratorTypeOK'
    BY DEF GateInv, TypeOK, GeneratorTypeOK, generatorVars
  <2> QED BY <2>1 DEF GateInv, TypeOK, driverVars, truthVars
<1>3. StageFacts'
  BY <1>1 DEF GateInv, StageFacts, Sound, Buildable, generatorVars, driverVars
<1>4. CallFacts'
  BY <1>1 DEF CallFacts, generatorVars, driverVars
<1>5. DriverFacts'
  BY DEF GateInv, DriverFacts, NothingSampled, Sampling, ReadOnlyTools,
         generatorVars, driverVars, truthVars
<1>6. GateHolds' /\ VerdictIsDeserved'
  BY DEF GateInv, GateHolds, VerdictIsDeserved, ReadOnlyTools, generatorVars, truthVars
<1> QED BY <1>2, <1>3, <1>4, <1>5, <1>6 DEF GateInv

\* A call that is caught has heard nothing, and its text is worth a retry.
LEMMA CaughtResult ==
    ASSUME Caught, heard' = "nothing"
    PROVE  /\ exec' = "returned" /\ timer' = "off"
           /\ result' \in Results \ {"invalid", "unbuildable"}
           /\ Classify(result') = Told'
BY DEF Caught, Return, Results, Rendered, Classify, Told, Read

LEMMA LookupEndsKeeps ==
    ASSUME GateInv, LookupEnds
    PROVE  GateInv'
<1>1. /\ at = "calling" /\ UNCHANGED <<generatorVars, driverVars, truthVars>>
      /\ Resolve(spec.tools[tool]) /\ exec = "resolving"
      /\ UNCHANGED <<elapsed, heard>>
  BY DEF LookupEnds, InCall, Resolve
<1>2. CallTypeOK /\ CallFacts
  BY DEF GateInv, TypeOK
<1>3. heard = "nothing" /\ timer # "off" /\ result = NoResult
  BY <1>1, <1>2 DEF CallFacts, InFlight, CallTypeOK
<1>4. CASE Caught /\ UNCHANGED wrote
  <2>1. CallTypeOK'
    BY <1>1, <1>2, <1>3, <1>4, CaughtResult, NoResultAssumption DEF CallTypeOK
  <2> QED BY <1>1, <1>3, <1>4, <2>1, CaughtResult, InCallKeeps DEF InFlight
<1>5. CASE Send(spec.tools[tool])
  <2>1. /\ exec' = "awaiting" /\ UNCHANGED <<timer, result>>
        /\ wrote' \in BOOLEAN
    BY <1>2, <1>5, Zenon DEF Send, CallTypeOK
  <2>2. CallTypeOK'
    BY <1>1, <1>2, <1>3, <2>1 DEF CallTypeOK
  <2> QED BY <1>1, <1>3, <2>1, <2>2, InCallKeeps DEF InFlight
<1> QED BY <1>1, <1>4, <1>5, Zenon DEF Resolve

LEMMA UpstreamKeeps ==
    ASSUME GateInv, Upstream
    PROVE  GateInv'
<1>1. /\ at = "calling" /\ UNCHANGED <<generatorVars, driverVars, truthVars>>
      /\ Answer \/ ReadBody \/ ConnectionFails
      /\ exec \in {"awaiting", "reading"}
      /\ UNCHANGED <<elapsed, wrote>>
  BY DEF Upstream, InCall, Answer, ReadBody, ConnectionFails
<1>2. CallTypeOK /\ CallFacts
  BY DEF GateInv, TypeOK
<1>3. heard = "nothing" /\ timer # "off" /\ result = NoResult
  BY <1>1, <1>2 DEF CallFacts, InFlight, CallTypeOK
<1>4. CASE /\ exec' = "reading" /\ UNCHANGED <<timer, result, heard>>
  <2>1. CallTypeOK'
    BY <1>1, <1>2, <1>3, <1>4 DEF CallTypeOK
  <2> QED BY <1>1, <1>3, <1>4, <2>1, InCallKeeps DEF InFlight
<1>5. CASE /\ exec' = "returned" /\ timer' = "off"
           /\ result' \in Results \ {"invalid", "unbuildable"}
           /\ heard' \in {"nothing", "error", "answer"}
           /\ Classify(result') = Told'
  <2>1. CallTypeOK'
    BY <1>1, <1>2, <1>5, NoResultAssumption DEF CallTypeOK
  <2> QED BY <1>1, <1>5, <2>1, InCallKeeps DEF InFlight
<1>6. CASE Answer
  <2>1. /\ "status 5xx" \in Results /\ Classify("status 5xx") = "transient"
        /\ "status 4xx" \in Results /\ Classify("status 4xx") = "ok"
    BY DEF Results, Classify
  <2> QED BY <1>4, <1>5, <1>6, <2>1 DEF Answer, Return, Told, Read
<1>7. CASE ReadBody
  <2>1. \A text \in Rendered \cup {"not JSON", "too large"} :
           /\ text \in Results \ {"invalid", "unbuildable"}
           /\ Classify(text) = CASE text = "reads transient" -> "transient"
                                [] text = "reads fatal"     -> "fatal"
                                [] OTHER                    -> "ok"
    BY DEF Results, Rendered, Classify
  <2>2. Classify(result') = Told'
    BY <1>7, <2>1 DEF ReadBody, Return, Told, Read
  <2> QED BY <1>5, <1>7, <2>1, <2>2 DEF ReadBody, Return
<1>8. CASE ConnectionFails
  BY <1>3, <1>5, <1>8, CaughtResult DEF ConnectionFails
<1> QED BY <1>1, <1>6, <1>7, <1>8

LEMMA AbortTimerKeeps ==
    ASSUME GateInv, AbortTimer
    PROVE  GateInv'
<1>1. /\ at = "calling" /\ UNCHANGED <<generatorVars, driverVars, truthVars>>
      /\ timer = "armed" /\ UNCHANGED <<elapsed, heard, wrote>>
  BY DEF AbortTimer, InCall, TimerFires
<1>2. CallTypeOK /\ CallFacts
  BY DEF GateInv, TypeOK
<1>3. InFlight /\ heard = "nothing"
  BY <1>1, <1>2 DEF CallFacts
<1>4. CASE exec = "resolving"
  <2>1. timer' = "fired" /\ UNCHANGED <<exec, result>>
    BY <1>4 DEF AbortTimer, InCall, TimerFires
  <2>2. CallTypeOK'
    BY <1>1, <1>2, <1>4, <2>1 DEF CallTypeOK
  <2> QED BY <1>1, <1>3, <1>4, <2>1, <2>2, InCallKeeps DEF InFlight
<1>5. CASE exec # "resolving"
  <2>1. exec' = "returned" /\ result' = "timed out" /\ timer' = "off"
    BY <1>5 DEF AbortTimer, InCall, TimerFires, Return
  <2>2. "timed out" \in Results /\ Classify("timed out") = "transient"
    BY DEF Results, Classify
  <2>3. CallTypeOK'
    BY <1>1, <1>2, <2>1, <2>2, NoResultAssumption DEF CallTypeOK
  <2> QED BY <1>1, <1>3, <2>1, <2>2, <2>3, InCallKeeps DEF InFlight, Told, Read
<1> QED BY <1>4, <1>5

LEMMA TimePassesKeeps ==
    ASSUME GateInv, TimePasses
    PROVE  GateInv'
<1>1. /\ at = "calling" /\ UNCHANGED <<generatorVars, driverVars, truthVars>>
      /\ InFlight /\ elapsed < Timeout /\ elapsed' = elapsed + 1
      /\ UNCHANGED <<exec, timer, result, heard, wrote>>
  BY DEF TimePasses, InCall, Tick, InFlight
<1>2. CallTypeOK /\ CallFacts
  BY DEF GateInv, TypeOK
<1>3. elapsed' \in 0..Timeout
  BY <1>1, <1>2, TimeoutAssumption DEF CallTypeOK
<1>4. CallTypeOK'
  BY <1>1, <1>2, <1>3 DEF CallTypeOK
<1> QED BY <1>1, <1>2, <1>4, InCallKeeps DEF InFlight, CallFacts

\* The next worker finds the stage as it was claimed, and a call it may make.
LEMMA WorkerDiesKeeps ==
    ASSUME GateInv, WorkerDies
    PROVE  GateInv'
<1>1. /\ UNCHANGED generatorVars /\ Fresh' /\ UNCHANGED wrote
      /\ exec' = "idle" /\ timer' = "off" /\ elapsed' = 0
      /\ result' = NoResult /\ heard' = "nothing"
      /\ at = "calling" /\ outcome = "none" /\ stage \in {"validating", "probing"}
  BY DEF WorkerDies, StartAnew, AnswerThrows, Fresh, GateInv, CallFacts
<1>2. TypeOK'
  <2>1. GeneratorTypeOK'
    BY <1>1 DEF GateInv, TypeOK, GeneratorTypeOK, generatorVars
  <2>2. CallTypeOK'
    <3>1. wrote' \in BOOLEAN
      BY <1>1 DEF GateInv, TypeOK, CallTypeOK
    <3>2. elapsed' \in 0..Timeout
      BY <1>1, TimeoutAssumption
    <3> QED BY <1>1, <3>1, <3>2, Zenon DEF CallTypeOK
  <2>3. FreshTyped'
    BY <1>1, FreshHasTypes DEF FreshTyped
  <2> QED BY <2>1, <2>2, <2>3, Zenon DEF TypeOK, FreshTyped
<1>3. StageFacts'
  BY <1>1 DEF GateInv, StageFacts, Sound, Buildable, generatorVars, Fresh
<1>4. CallFacts'
  BY <1>1 DEF CallFacts, InFlight
<1>5. DriverFacts'
  BY <1>1 DEF DriverFacts, Fresh, NothingSampled
<1>6. GateHolds' /\ VerdictIsDeserved'
  BY <1>1 DEF GateHolds, VerdictIsDeserved, generatorVars
<1> QED BY <1>2, <1>3, <1>4, <1>5, <1>6 DEF GateInv

-----------------------------------------------------------------------------
(* The probing stage *)

LEMMA StartProbingKeeps ==
    ASSUME GateInv, StartProbing
    PROVE  GateInv'
<1>1. /\ stage = "probing" /\ outcome = "none" /\ at = "start"
      /\ exec = "idle" /\ step = "ended"
      /\ Sound(spec) /\ Buildable(spec) /\ NothingSampled
      /\ UNCHANGED <<callVars, truthVars>>
  BY DEF StartProbing, Running, GateInv, StageFacts, CallFacts, DriverFacts
<1>2. ~ \E i \in DOMAIN spec.tools \ ReadOnlyTools(spec) :
            ~ArgsAccepted(spec.tools[i], SyntheticArgs(spec.tools[i]))
  BY <1>1, SyntheticArgsAccepted DEF Sound, Loads
<1>3. /\ outcome' = "none" /\ spec' = spec
      /\ UNCHANGED <<request, step, answers, sample, attempt, slowest, broken>>
      /\ \/ /\ ReadOnlyTools(spec) = {}
            /\ stage' = "deploying" /\ at' = "start" /\ tool' = tool
         \/ /\ stage' = "probing" /\ at' = "ready"
            /\ tool' \in ReadOnlyTools(spec) /\ tool' \in 1..MAX_TOOLS
            /\ \A i \in ReadOnlyTools(spec) : tool' <= i
  <2>1. CASE ReadOnlyTools(spec) = {}
    BY <1>1, <1>2, <2>1 DEF StartProbing, Advance, driverVars
  <2>2. CASE ReadOnlyTools(spec) # {}
    <3>1. ReadOnlyTools(spec) \subseteq 1..MIN_RECOMMENDED_TOOLS
      BY <1>1 DEF ReadOnlyTools, Sound, Covered
    <3>2. /\ Min(ReadOnlyTools(spec)) \in ReadOnlyTools(spec)
          /\ \A i \in ReadOnlyTools(spec) : Min(ReadOnlyTools(spec)) <= i
      BY <2>2, <3>1, MinOfTools
    <3>3. Min(ReadOnlyTools(spec)) \in 1..MAX_TOOLS
      BY <3>1, <3>2 DEF MIN_RECOMMENDED_TOOLS, MAX_TOOLS
    <3> QED
      BY <1>1, <1>2, <2>2, <3>2, <3>3 DEF StartProbing, generatorVars
  <2> QED BY <2>1, <2>2
<1>4. TypeOK'
  <2>1. GeneratorTypeOK' /\ CallTypeOK'
    BY <1>1, <1>3 DEF GateInv, TypeOK, GeneratorTypeOK, CallTypeOK, callVars
  <2> QED BY <1>1, <1>3, <2>1 DEF GateInv, TypeOK, truthVars
<1>5. StageFacts'
  BY <1>1, <1>3 DEF StageFacts, Sound, Buildable
<1>6. CallFacts'
  BY <1>1 DEF GateInv, CallFacts, InFlight, callVars
<1>7. DriverFacts'
  <2>1. NothingSampled'
    BY <1>1, <1>3 DEF NothingSampled, truthVars
  <2>2. CASE stage' = "deploying"
    BY <1>3, <2>2 DEF DriverFacts
  <2>3. CASE stage' = "probing"
    <3>1. \A i \in ReadOnlyTools(spec) : i \in 1..MIN_RECOMMENDED_TOOLS
      BY <1>1 DEF ReadOnlyTools, Sound, Covered
    <3>2. \A i \in ReadOnlyTools(spec) :
             answered'[i] = IF i < tool' THEN SampleCount
                            ELSE IF i = tool' THEN sample' ELSE 0
      BY <1>1, <1>3, <2>3, <3>1 DEF NothingSampled, truthVars, MIN_RECOMMENDED_TOOLS
    <3>3. Sampling'
      BY <1>3, <2>1, <3>2 DEF Sampling, NothingSampled, ReadOnlyTools
    <3> QED BY <1>3, <2>3, <3>3 DEF DriverFacts, ReadOnlyTools
  <2> QED BY <1>3, <2>2, <2>3
<1>8. GateHolds' /\ VerdictIsDeserved'
  BY <1>3 DEF GateHolds, VerdictIsDeserved, ReadOnlyTools
<1> QED BY <1>4, <1>5, <1>6, <1>7, <1>8 DEF GateInv

\* What the handler finds in a call that has ended.
Probed ==
    /\ stage = "probing" /\ outcome = "none" /\ at = "calling" /\ exec = "returned"
    /\ Sound(spec) /\ Buildable(spec) /\ Sampling
    /\ tool \in ReadOnlyTools(spec) /\ tool \in 1..MIN_RECOMMENDED_TOOLS
    /\ Idle /\ Witness

LEMMA Witnessed ==
    ASSUME Probed
    PROVE  /\ answered' = IF Read /\ answered[tool] < SampleCount
                          THEN [answered EXCEPT ![tool] = @ + 1] ELSE answered
           /\ worst' = IF Read THEN Max2(worst, elapsed) ELSE worst
           /\ silent' = IF Read THEN 0
                        ELSE IF silent <= Retries THEN silent + 1 ELSE silent
BY Zenon DEF Probed, Witness

LEMMA MisreadWitnessed ==
    ASSUME Probed
    PROVE  /\ misread' \in BOOLEAN
           /\ heard = "answer" /\ result = "reads fatal" => misread'
BY Zenon DEF Probed, Witness

\* After the call, whichever way the handler goes on.
LEMMA ProbedKeeps ==
    ASSUME GateInv, Probed,
           UNCHANGED <<request, step, answers, spec, broken>>,
           stage' \in {"probing", "deploying"},
           outcome' \in {"none", "retry", "fail"},
           stage' = "deploying" => outcome' = "none",
           at' \in {"start", "ready", "calling"},
           at' # "start" => tool' \in ReadOnlyTools(spec) /\ stage' = "probing",
           outcome' = "none" /\ stage' = "probing" => at' # "start" /\ Sampling',
           tool' \in 1..MAX_TOOLS,
           sample' \in 0..(SampleCount - 1), attempt' \in 0..Retries,
           slowest' \in 0..Timeout,
           GateHolds', VerdictIsDeserved'
    PROVE  GateInv'
<1>1. /\ answered' \in [1..MIN_RECOMMENDED_TOOLS -> 0..SampleCount]
      /\ worst' \in 0..Timeout /\ silent' \in 0..(Retries + 1)
      /\ misread' \in BOOLEAN
  <2>1. /\ answered \in [1..MIN_RECOMMENDED_TOOLS -> 0..SampleCount]
        /\ worst \in 0..Timeout /\ silent \in 0..(Retries + 1)
        /\ elapsed \in 0..Timeout
    BY DEF GateInv, TypeOK, CallTypeOK
  <2>2. answered' \in [1..MIN_RECOMMENDED_TOOLS -> 0..SampleCount]
    BY <2>1, Witnessed, GateAssumption DEF Probed
  <2>3. worst' \in 0..Timeout
    BY <2>1, Witnessed, TimeoutAssumption DEF Max2
  <2>4. silent' \in 0..(Retries + 1)
    BY <2>1, Witnessed, GateAssumption
  <2>5. misread' \in BOOLEAN
    BY MisreadWitnessed
  <2> QED BY <2>2, <2>3, <2>4, <2>5
<1>2. CallTypeOK' /\ exec' = "idle" /\ timer' = "off"
  <2>1. timer = "off"
    BY DEF GateInv, CallFacts, InFlight, Probed
  <2> QED BY <2>1 DEF GateInv, TypeOK, CallTypeOK, Probed, Idle
<1>3. GeneratorTypeOK' /\ step' = "ended"
  BY DEF GateInv, TypeOK, GeneratorTypeOK, StageFacts, Probed
<1>4. TypeOK'
  <2>1. broken' \in BOOLEAN
    BY DEF GateInv, TypeOK
  <2>2. at' \in {"start", "listing", "ready", "calling"}
    OBVIOUS
  <2> QED BY <1>1, <1>2, <1>3, <2>1, <2>2, Zenon DEF TypeOK
<1>5. StageFacts'
  BY <1>3 DEF StageFacts, Probed, Sound, Buildable
<1>6. CallFacts'
  BY <1>2 DEF CallFacts, InFlight
<1>7. DriverFacts'
  BY DEF DriverFacts, ReadOnlyTools
<1> QED BY <1>4, <1>5, <1>6, <1>7 DEF GateInv

\* The call has an answer that reads as one: what the handler counts is what happened.
LEMMA SampleTaken ==
    ASSUME GateInv, Probed, Read, TakeSample(elapsed)
    PROVE  GateInv'
<1>1. /\ sample \in 0..(SampleCount - 1) /\ slowest \in 0..Timeout
      /\ attempt \in 0..Retries /\ elapsed \in 0..Timeout
      /\ tool \in 1..MAX_TOOLS
      /\ answered \in [1..MIN_RECOMMENDED_TOOLS -> 0..SampleCount]
      /\ \A i \in ReadOnlyTools(spec) : i \in 1..MIN_RECOMMENDED_TOOLS
  BY DEF GateInv, TypeOK, CallTypeOK, Probed, ReadOnlyTools, Sound, Covered
<1>2. /\ slowest' = Max2(slowest, elapsed) /\ attempt' = 0
      /\ worst' = slowest' /\ silent' = 0
      /\ UNCHANGED <<request, step, answers, spec, broken>>
  BY Witnessed DEF TakeSample, Verdict, Advance, EndStage, Probed, Sampling,
                   generatorVars
<1>3. slowest' \in 0..Timeout /\ attempt' \in 0..Retries
  BY <1>1, <1>2, GateAssumption, TimeoutAssumption DEF Max2
<1>4. /\ answered'[tool] = sample + 1
      /\ \A i \in ReadOnlyTools(spec) : i # tool => answered'[i] = answered[i]
  <2>1. answered[tool] = sample /\ answered[tool] < SampleCount
    BY <1>1, GateAssumption DEF Probed, Sampling
  <2>2. answered' = [answered EXCEPT ![tool] = @ + 1]
    BY <2>1, Witnessed
  <2> QED BY <1>1, <2>1, <2>2 DEF Probed
<1>5. CASE sample + 1 < SampleCount
  <2>1. /\ at' = "ready" /\ sample' = sample + 1 /\ tool' = tool
        /\ stage' = "probing" /\ outcome' = "none"
    BY <1>5 DEF TakeSample, Probed, generatorVars
  <2>2. Sampling'
    BY <1>2, <1>4, <2>1 DEF Probed, Sampling, ReadOnlyTools
  <2>3. sample' \in 0..(SampleCount - 1)
    BY <1>1, <1>5, <2>1, GateAssumption
  <2>4. tool' \in ReadOnlyTools(spec)
    BY <2>1 DEF Probed
  <2> QED
    BY <1>1, <1>2, <1>3, <2>1, <2>2, <2>3, <2>4, ProbedKeeps
    DEF GateHolds, VerdictIsDeserved
<1>6. CASE ~(sample + 1 < SampleCount) /\ NextTool(tool) # {}
  <2>1. /\ at' = "ready" /\ sample' = 0 /\ tool' = Min(NextTool(tool))
        /\ stage' = "probing" /\ outcome' = "none"
    BY <1>6 DEF TakeSample, Probed, generatorVars
  <2>2. /\ tool' \in NextTool(tool) /\ tool' \in 1..MAX_TOOLS
        /\ \A i \in NextTool(tool) : tool' <= i
    BY <1>6, <2>1, NextToolRange DEF Probed
  <2>3. tool' \in ReadOnlyTools(spec) /\ tool' > tool
    BY <2>2 DEF NextTool
  <2>4. sample + 1 = SampleCount
    BY <1>1, <1>6, GateAssumption
  <2>5. ASSUME NEW i \in ReadOnlyTools(spec)
        PROVE  answered'[i] = IF i < tool' THEN SampleCount
                              ELSE IF i = tool' THEN sample' ELSE 0
    <3>1. i \in Nat /\ tool \in Nat /\ tool' \in Nat
      BY <1>1, <2>2
    <3>2. CASE i < tool
      BY <1>4, <2>3, <3>1, <3>2 DEF Probed, Sampling
    <3>3. CASE i = tool
      BY <1>4, <2>3, <2>4, <3>3
    <3>4. CASE i > tool
      <4>1. i >= tool'
        BY <2>2, <3>1, <3>4 DEF NextTool
      <4>2. answered'[i] = 0
        BY <1>4, <3>1, <3>4 DEF Probed, Sampling
      <4> QED BY <2>1, <3>1, <4>1, <4>2
    <3> QED BY <3>1, <3>2, <3>3, <3>4
  <2>6. Sampling'
    BY <1>2, <2>5 DEF Sampling, ReadOnlyTools
  <2>7. sample' \in 0..(SampleCount - 1)
    BY <2>1, GateAssumption
  <2> QED
    BY <1>2, <1>3, <2>1, <2>2, <2>3, <2>6, <2>7, ProbedKeeps
    DEF GateHolds, VerdictIsDeserved
<1>7. CASE ~(sample + 1 < SampleCount) /\ NextTool(tool) = {}
  <2>1. /\ at' = "start" /\ sample' = 0 /\ tool' = 1
        /\ Verdict(slowest')
    BY <1>7 DEF TakeSample
  <2>2. \A i \in ReadOnlyTools(spec) : answered'[i] = SampleCount
    <3>1. sample + 1 = SampleCount
      BY <1>1, <1>7, GateAssumption
    <3>2. \A i \in ReadOnlyTools(spec) : i < tool \/ i = tool
      BY <1>1, <1>7 DEF NextTool
    <3> QED BY <1>4, <3>1, <3>2 DEF Probed, Sampling
  <2>3. sample' \in 0..(SampleCount - 1) /\ tool' \in 1..MAX_TOOLS
    BY <2>1, GateAssumption DEF MAX_TOOLS
  <2>4. CASE slowest' < Gate
    <3>1. stage' = "deploying" /\ outcome' = "none"
      BY <2>1, <2>4 DEF Verdict, Advance, Probed
    <3>2. GateHolds' /\ VerdictIsDeserved'
      BY <1>2, <2>2, <2>4, <3>1 DEF GateHolds, VerdictIsDeserved, ReadOnlyTools
    <3> QED BY <1>2, <1>3, <2>1, <2>3, <3>1, <3>2, ProbedKeeps
  <2>5. CASE ~(slowest' < Gate)
    <3>1. stage' = "probing" /\ outcome' = "fail"
      BY <2>1, <2>5 DEF Verdict, EndStage, Probed
    <3>2. worst' >= Gate
      BY <1>2, <1>3, <2>5, GateAssumption, TimeoutAssumption
    <3>3. GateHolds' /\ VerdictIsDeserved'
      BY <3>1, <3>2 DEF GateHolds, VerdictIsDeserved
    <3> QED BY <1>2, <1>3, <2>1, <2>3, <3>1, <3>3, ProbedKeeps
  <2> QED BY <2>4, <2>5
<1> QED BY <1>5, <1>6, <1>7

\* The call has none: another attempt, or the end of the stage.
LEMMA SampleMissed ==
    ASSUME GateInv, Probed, ~Read,
           \/ MayRetry /\ TryAgain
           \/ ~MayRetry /\ EndStage("retry") /\ UNCHANGED driverVars
    PROVE  GateInv'
<1>1. /\ sample \in 0..(SampleCount - 1) /\ slowest \in 0..Timeout
      /\ attempt \in 0..Retries /\ tool \in 1..MAX_TOOLS
  BY DEF GateInv, TypeOK
<1>2. /\ answered' = answered /\ worst' = worst
      /\ silent' = attempt + 1
  BY <1>1, Witnessed, GateAssumption DEF Probed, Sampling
<1>3. CASE MayRetry /\ TryAgain
  <2>1. /\ at' = "ready" /\ attempt' = attempt + 1
        /\ UNCHANGED <<request, step, answers, spec, broken>>
        /\ UNCHANGED <<tool, sample, slowest>>
        /\ stage' = "probing" /\ outcome' = "none"
    BY <1>3 DEF TryAgain, Probed, generatorVars
  <2>2. attempt' \in 0..Retries
    BY <1>1, <1>3, <2>1, GateAssumption DEF MayRetry
  <2>3. Sampling' /\ tool' \in ReadOnlyTools(spec)
    BY <1>2, <2>1 DEF Probed, Sampling, ReadOnlyTools
  <2> QED
    BY <1>1, <2>1, <2>2, <2>3, ProbedKeeps DEF GateHolds, VerdictIsDeserved
<1>4. CASE ~MayRetry /\ EndStage("retry") /\ UNCHANGED driverVars
  <2>1. /\ stage' = "probing" /\ outcome' = "retry"
        /\ UNCHANGED <<request, step, answers, spec, broken>>
        /\ UNCHANGED <<at, tool, sample, attempt, slowest>>
    BY <1>4 DEF EndStage, Probed, driverVars
  <2>2. silent' = Retries + 1
    BY <1>1, <1>2, <1>4, GateAssumption DEF MayRetry
  <2>3. GateHolds' /\ VerdictIsDeserved'
    BY <2>1, <2>2 DEF GateHolds, VerdictIsDeserved
  <2>4. at' = "calling" /\ tool' \in ReadOnlyTools(spec)
    BY <2>1 DEF Probed
  <2> QED BY <1>1, <2>1, <2>3, <2>4, ProbedKeeps
<1> QED BY <1>3, <1>4

\* The text of an answer makes the spec hopeless.
LEMMA SampleHopeless ==
    ASSUME GateInv, Probed, heard = "answer", result = "reads fatal",
           EndStage("fail"), UNCHANGED driverVars
    PROVE  GateInv'
<1>1. /\ stage' = "probing" /\ outcome' = "fail"
      /\ UNCHANGED <<request, step, answers, spec, broken>>
      /\ UNCHANGED <<at, tool, sample, attempt, slowest>>
  BY DEF EndStage, Probed, driverVars
<1>2. misread'
  BY MisreadWitnessed
<1>3. GateHolds' /\ VerdictIsDeserved'
  BY <1>1, <1>2 DEF GateHolds, VerdictIsDeserved
<1>4. at' = "calling" /\ tool' \in ReadOnlyTools(spec)
  BY <1>1 DEF Probed
<1>5. /\ sample' \in 0..(SampleCount - 1) /\ slowest' \in 0..Timeout
      /\ attempt' \in 0..Retries /\ tool' \in 1..MAX_TOOLS
  BY <1>1 DEF GateInv, TypeOK
<1> QED BY <1>1, <1>3, <1>4, <1>5, ProbedKeeps

LEMMA CallProbedKeeps ==
    ASSUME GateInv, CallProbed
    PROVE  GateInv'
<1>1. Probed
  BY DEF CallProbed, Running, Probed, GateInv, StageFacts, DriverFacts, ReadOnlyTools,
         Sound, Covered
<1>2. Classify(result) = Told
  BY DEF CallProbed, GateInv, CallFacts
<1>3. CASE Read
  BY <1>1, <1>2, <1>3, SampleTaken DEF CallProbed, Told
<1>4. CASE Told = "fatal"
  <2>1. heard = "answer" /\ result = "reads fatal"
    BY <1>4 DEF Told
  <2>2. EndStage("fail") /\ UNCHANGED driverVars
    BY <1>2, <1>4 DEF CallProbed
  <2> QED BY <1>1, <2>1, <2>2, SampleHopeless
<1>5. CASE ~Read /\ Told = "transient"
  BY <1>1, <1>2, <1>5, SampleMissed DEF CallProbed
<1> QED BY <1>3, <1>4, <1>5 DEF Told

-----------------------------------------------------------------------------
(* The theorems *)

LEMMA StepKeeps == GateInv /\ [Next]_vars => GateInv'
<1> SUFFICES ASSUME GateInv, [Next]_vars PROVE GateInv'
  OBVIOUS
<1>1. CASE UNCHANGED vars
  <2> USE DEF vars, generatorVars, callVars, driverVars, truthVars
  <2>1. TypeOK'
    BY <1>1 DEF GateInv, TypeOK, GeneratorTypeOK, CallTypeOK
  <2>2. StageFacts' /\ CallFacts'
    BY <1>1 DEF GateInv, StageFacts, Fresh, Sound, Buildable, CallFacts, Told, Read,
                InFlight
  <2>3. DriverFacts' /\ GateHolds' /\ VerdictIsDeserved'
    BY <1>1 DEF GateInv, DriverFacts, NothingSampled, Sampling, ReadOnlyTools,
                GateHolds, VerdictIsDeserved
  <2> QED BY <2>1, <2>2, <2>3 DEF GateInv
<1>2. CASE Next
  BY <1>2, GenerateKeeps, RerunKeeps, StartValidatingKeeps, ToolsListedKeeps,
     ToolCallEndsKeeps, InspectorEndsKeeps, CallKeeps, LookupEndsKeeps, UpstreamKeeps,
     AbortTimerKeeps, TimePassesKeeps, WorkerDiesKeeps, StartProbingKeeps,
     CallProbedKeeps
  DEF Next
<1> QED BY <1>1, <1>2

LEMMA Invariant == Spec => []GateInv
BY InitEstablishes, StepKeeps, PTL DEF Spec

\* Every variable has its type, a timer is armed or has fired while a call is
\* under way, and a returned call has a text (execute.ts).
THEOREM TypeCorrect == Spec => []TypeOK
BY Invariant, PTL DEF GateInv

\* Nothing is deployed that was not really answered SampleCount times by each
\* of its read-only tools, each time within the gate (run-probe.ts).
THEOREM GateKept == Spec => []GateHolds
BY Invariant, PTL DEF GateInv

\* The probe retries what is unreachable and fails for good what is slow, and
\* nothing else but what reads like an error (run-probe.ts, classify.ts).
THEOREM VerdictDeserved == Spec => []VerdictIsDeserved
BY Invariant, PTL DEF GateInv

\* Two branches are never taken: validating finds no fault with a spec that
\* finalizeSpec let pass, and executeTool neither refuses the arguments that the
\* probe makes up nor fails to build their url, which are the two causes that
\* classify.ts has for "fatal" (validating.ts, execute.ts).
THEOREM BranchesNeverTaken ==
    Spec => [](/\ stage = "validating" => PolicyAllows(spec)
               /\ exec = "returned" => result \notin {"invalid", "unbuildable"})
<1>1. GateInv => /\ stage = "validating" => PolicyAllows(spec)
                 /\ exec = "returned" => result \notin {"invalid", "unbuildable"}
  BY DEF GateInv, StageFacts, Sound, CallFacts
<1> QED BY <1>1, Invariant, PTL

\* Whatever the descriptor, a generated tool sends every argument it declares
\* (build-spec.ts).
THEOREM ArgumentsSent == Spec => []EveryArgumentIsSent
<1>1. GateInv => EveryArgumentIsSent
  <2> SUFFICES ASSUME GateInv, spec # NoSpec, NEW i \in DOMAIN spec.tools
               PROVE  LET t == spec.tools[i]
                          all == [p \in DOMAIN t.params |-> SyntheticValue(t.params[p])]
                      IN  \A p \in DOMAIN t.params :
                             ArgsAccepted(t, all) /\ p \in Bound(t, all)
    BY DEF EveryArgumentIsSent
  <2>1. Sound(spec)
    BY DEF GateInv, StageFacts
  <2> DEFINE t == spec.tools[i]
             all == [p \in DOMAIN t.params |-> SyntheticValue(t.params[p])]
  <2>2. ToolAllowed(t) /\ DOMAIN t.params \subseteq t.tokens \cup t.query \cup t.body
    BY <2>1 DEF Sound, Loads, Covered
  <2>3. ArgsAccepted(t, all)
    BY <2>2, SyntheticArgsAccepted
  <2>4. \A p \in DOMAIN t.params : p \in Bound(t, all)
    BY <2>2 DEF Bound
  <2> QED BY <2>3, <2>4
<1> QED BY <1>1, Invariant, PTL

-----------------------------------------------------------------------------
(* Where every method is spelled as the schema says, probing only reads *)

ProperMethods ==
    /\ \A d \in Descriptor : d.method \in {"GET", "POST"}
    /\ \A r \in Request : r.hint = "descriptor" => r.descriptor.method \in {"GET", "POST"}

OnlyReads(s) == \A i \in ReadOnlyTools(s) : s.tools[i].method = "GET"

ReadInv ==
    /\ stage # "generating" => OnlyReads(spec)
    /\ ~wrote

LEMMA TemplatesRead == \A t \in Templates : OnlyReads(t)
<1> USE DEF OnlyReads, ReadOnlyTools, Lookup
<1>1. OnlyReads(SearchTemplate)
  BY DEF SearchTemplate
<1>2. OnlyReads(CurrencyTemplate)
  BY DEF CurrencyTemplate
<1>3. OnlyReads(WeatherTemplate)
  BY DEF WeatherTemplate
<1> QED BY <1>1, <1>2, <1>3 DEF Templates

\* The hint and the method only part where the spelling is another one.
LEMMA AugmentedReads ==
    ASSUME NEW d, d.method \in {"GET", "POST"}
    PROVE  OnlyReads(Augmented(d))
<1> DEFINE w == WrapperTool(d)
<1>1. w.readOnly => w.method = "GET"
  BY DEF WrapperTool
<1>2. ASSUME NEW suffix
      PROVE  /\ Variant(d, w, suffix).readOnly = w.readOnly
             /\ Variant(d, w, suffix).method = w.method
  BY DEF Variant, WrapperTool
<1>3. Augmented(d).tools = <<w, Variant(d, w, "details"), Variant(d, w, "variant_2")>>
  BY DEF Augmented
<1> HIDE DEF w
<1> QED BY <1>1, <1>2, <1>3 DEF OnlyReads, ReadOnlyTools

LEMMA FinalizeReads ==
    ASSUME NEW candidate, OnlyReads(candidate), Finalize(candidate)
    PROVE  UNCHANGED <<stage, spec>> \/ OnlyReads(spec')
BY DEF Finalize, Rejected

LEMMA WrapReads ==
    ASSUME NEW d, d.method \in {"GET", "POST"}, Wrap(d)
    PROVE  UNCHANGED <<stage, spec>> \/ OnlyReads(spec')
<1>1. CASE d.summary = "missing"
  BY <1>1 DEF Wrap, Thrown
<1>2. CASE d.summary # "missing"
  BY <1>2, AugmentedReads, FinalizeReads DEF Wrap
<1> QED BY <1>1, <1>2

LEMMA GenerateReads ==
    ASSUME ProperMethods, GateInv, GeneratorStep
    PROVE  UNCHANGED <<stage, spec>> \/ OnlyReads(spec')
<1> USE DEF Thrown, Rejected, WaitFor
<1>1. CASE StartGenerating
  <2>1. request \in Request
    BY DEF GateInv, TypeOK, GeneratorTypeOK
  <2>2. \/ Rejected
        \/ request.hint = "descriptor" /\ Wrap(request.descriptor)
        \/ WaitFor("fetch") \/ WaitFor("classify")
        \/ \E t \in Templates : Finalize(t)
    BY <1>1, Zenon DEF StartGenerating
  <2> QED BY <2>1, <2>2, WrapReads, FinalizeReads, TemplatesRead DEF ProperMethods
<1>2. CASE Classified
  BY <1>2, FinalizeReads, TemplatesRead DEF Classified
<1>3. CASE Fetched
  BY <1>3, WrapReads DEF Fetched, ProperMethods
<1>4. CASE Inferred
  BY <1>4, WrapReads DEF Inferred, ProperMethods
<1> QED BY <1>1, <1>2, <1>3, <1>4 DEF GeneratorStep

LEMMA ReadInvKept == ProperMethods /\ GateInv /\ ReadInv /\ [Next]_vars => ReadInv'
<1> SUFFICES ASSUME ProperMethods, GateInv, ReadInv, [Next]_vars
             PROVE  ReadInv'
  OBVIOUS
<1> USE DEF ReadInv, OnlyReads, ReadOnlyTools
<1>1. CASE Generate
  <2>1. UNCHANGED wrote
    BY <1>1 DEF Generate, callVars
  <2> QED BY <1>1, <2>1, GenerateReads DEF Generate
<1>2. CASE LookupEnds
  <2>1. UNCHANGED <<stage, spec>> /\ Resolve(spec.tools[tool])
    BY <1>2 DEF LookupEnds, InCall, generatorVars
  <2>2. spec.tools[tool].method = "GET"
    BY <1>2 DEF LookupEnds, InCall, GateInv, DriverFacts
  <2>3. UNCHANGED wrote \/ Send(spec.tools[tool])
    BY <2>1, Zenon DEF Resolve
  <2>4. ~wrote'
    BY <2>2, <2>3, Zenon DEF Send
  <2> QED BY <2>1, <2>4
<1>3. CASE Rerun \/ StartValidating \/ ToolsListed \/ ToolCallEnds \/ InspectorEnds
           \/ Call \/ Upstream \/ AbortTimer \/ TimePasses \/ StartProbing
           \/ CallProbed \/ WorkerDies \/ UNCHANGED vars
  <2>1. UNCHANGED <<wrote, spec>>
    BY <1>3
    DEF Rerun, StartValidating, ToolsListed, ToolCallEnds, InspectorEnds, NextToolCall,
        EndStage, Advance, Idle, Call, StartCall, InCall, Upstream, Answer, ReadBody,
        ConnectionFails, AbortTimer, TimerFires, TimePasses, Tick, StartProbing,
        CallProbed, TakeSample, Verdict, TryAgain, WorkerDies, AnswerThrows,
        generatorVars, callVars, vars
  <2>2. stage = "generating" => stage' = "generating"
    BY <1>3
    DEF Rerun, StartValidating, ToolsListed, ToolCallEnds, InspectorEnds, Call, InCall,
        Upstream, AbortTimer, TimePasses, StartProbing, CallProbed, WorkerDies,
        Running, generatorVars, vars, GateInv, DriverFacts
  <2> QED BY <2>1, <2>2
<1> QED BY <1>1, <1>2, <1>3 DEF Next

\* A tool with a readOnlyHint can only write if its descriptor spells its method
\* in another way: with the spellings of the schema, nothing but GETs is sent
\* before the deployment (run-probe.ts:94, build-spec.ts).
THEOREM ProperMethodsOnlyRead == ProperMethods => (Spec => []ProbingOnlyReads)
<1> SUFFICES ASSUME ProperMethods PROVE Spec => []ProbingOnlyReads
  OBVIOUS
<1>1. Init => ReadInv
  BY DEF Init, GeneratorInit, CallInit, ReadInv
<1>2. GateInv /\ ReadInv /\ [Next]_vars => ReadInv'
  BY ReadInvKept
<1>3. ReadInv => ProbingOnlyReads
  BY DEF ReadInv, ProbingOnlyReads
<1> QED BY <1>1, <1>2, <1>3, Invariant, PTL DEF Spec
=============================================================================
