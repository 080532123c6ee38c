----------------------------- MODULE Generator -----------------------------
(***************************************************************************)
(* The "generating" stage (packages/generator): from a request and its     *)
(* hints to a spec that passed both checks, or to a rejection.             *)
(*                                                                         *)
(* The stage waits for the LLM, which may answer anything or fail, and for *)
(* the OpenAPI document.  What a stage throws is a retry for the queue.    *)
(* Wording, slugs and the names of response fields are left out.           *)
(***************************************************************************)
EXTENDS ToolSpecs

CONSTANTS
    Request,       \* [nl, hint, descriptor]: what create_mcp_server enqueued
    Descriptor,    \* the descriptors the LLM and OpenAPI documents give
    NoSpec,
    MAX_ATTEMPTS   \* of the LLM at a descriptor

ASSUME AttemptsAssumption == MAX_ATTEMPTS \in Nat \ {0}

VARIABLES
    request,   \* the job's input
    stage,     \* the job's stage, and "deploying" once both gates are passed
    outcome,   \* of the stage's handler: "none" while it runs
    step,      \* what the generating handler waits for
    answers,   \* invalid descriptors the LLM has given
    spec       \* the job's parsed_spec

generatorVars == <<request, stage, outcome, step, answers, spec>>

GeneratorTypeOK ==
    /\ request \in Request
    /\ stage \in {"generating", "validating", "probing", "deploying"}
    /\ outcome \in {"none", "retry", "fail"}
    /\ step \in {"start", "classify", "fetch", "infer", "ended"}
    /\ answers \in 0..(MAX_ATTEMPTS - 1)
    /\ spec # NoSpec => Loads(spec) /\ PolicyAllows(spec)

GeneratorInit ==
    /\ request \in Request
    /\ stage = "generating"
    /\ outcome = "none"
    /\ step = "start"
    /\ answers = 0
    /\ spec = NoSpec

-----------------------------------------------------------------------------
(* The curated templates *)

Lookup(name, params, tokens, query) ==
    [name |-> name, readOnly |-> TRUE, cached |-> TRUE,
     params |-> params, required |-> DOMAIN params,
     method |-> "GET", url |-> "good", tokens |-> tokens,
     query |-> query, body |-> {}]

SearchTemplate == [text |-> "clean", tools |->
    << Lookup("search", [q |-> "string"], {}, {"q"}),
       Lookup("summary", [q |-> "string"], {"q"}, {}),
       [Lookup("random", <<>>, {}, {}) EXCEPT !.cached = FALSE] >>]

CurrencyTemplate == [text |-> "clean", tools |->
    << Lookup("rate", [q |-> "string"], {}, {"q"}),
       Lookup("convert", [q |-> "string", n |-> "number"], {}, {"q", "n"}),
       Lookup("historical", [q |-> "string", n |-> "string"], {"n"}, {"q"}) >>]

WeatherTemplate == [text |-> "clean", tools |->
    << Lookup("current", [q |-> "number", n |-> "number"], {}, {"q", "n"}),
       Lookup("forecast", [q |-> "number", n |-> "number"], {}, {"q", "n"}),
       Lookup("compare", [q |-> "string", n |-> "string"], {}, {"q", "n"}) >>]

Templates == {WeatherTemplate, SearchTemplate, CurrencyTemplate}

-----------------------------------------------------------------------------
(* From a descriptor to a spec *)

\* Mutant: where a parameter goes is what the descriptor says of it.
NonPathParamsAsDeclared(d) == {p \in DOMAIN d.params : d.params[p].in = "query"}

\* ... and not whether the url has a token for it.
NonPathParams(d) == {p \in DOMAIN d.params : p \notin d.tokens}

\* buildHttpWrapperSpec.  Whatever is not a GET is sent as a POST, and
\* whatever is not written "POST" gets a readOnlyHint.
WrapperTool(d) ==
    [name     |-> "tool",
     readOnly |-> d.method # "POST",
     cached   |-> d.method = "GET",
     params   |-> [p \in DOMAIN d.params |-> d.params[p].type],
     required |-> {p \in DOMAIN d.params : d.params[p].required},
     method   |-> IF d.method = "GET" THEN "GET" ELSE "POST",
     url      |-> d.url,
     tokens   |-> d.tokens,
     query    |-> IF d.method = "GET" THEN NonPathParams(d) ELSE {},
     body     |-> IF d.method = "GET" THEN {} ELSE NonPathParams(d)]

\* cloneAsVariant: a name that is cut at its limit loses the suffix.
Variant(d, tool, suffix) ==
    [tool EXCEPT !.name = IF d.summary = "long" THEN @ ELSE suffix]

\* augmentToolCount, of the one tool of a wrapper; templates have enough.
Augmented(d) ==
    [text  |-> IF d.summary = "forbidden" THEN "forbidden" ELSE "clean",
     tools |-> << WrapperTool(d), Variant(d, WrapperTool(d), "details"),
                  Variant(d, WrapperTool(d), "variant_2") >>]

-----------------------------------------------------------------------------
(* The handler *)

Rejected ==
    /\ outcome' = "fail"
    /\ step' = "ended"
    /\ UNCHANGED <<stage, spec>>

Thrown ==
    /\ outcome' = "retry"
    /\ step' = "ended"
    /\ UNCHANGED <<stage, spec>>

\* finalizeSpec
Finalize(candidate) ==
    IF Loads(candidate) /\ PolicyAllows(candidate)
    THEN /\ spec' = candidate
         /\ stage' = "validating"
         /\ step' = "ended"
         /\ UNCHANGED outcome
    ELSE Rejected

\* A descriptor that came with the request is used as it is, whatever its
\* shape; without the fields that buildHttpWrapperSpec reads, it throws.
Wrap(d) == IF d.summary = "missing" THEN Thrown ELSE Finalize(Augmented(d))

WaitFor(next) ==
    /\ step' = next
    /\ UNCHANGED <<stage, outcome, spec>>

\* generateSpec up to its first wait.
StartGenerating ==
    /\ stage = "generating" /\ outcome = "none" /\ step = "start"
    /\ answers' = 0
    /\ UNCHANGED request
    /\ IF request.nl = "branching" \/ request.hint = "authenticated" THEN Rejected
       ELSE CASE request.hint = "descriptor" -> Wrap(request.descriptor)
              [] request.hint = "openapi"    -> WaitFor("fetch")
              [] OTHER ->
                   IF request.nl = "keyword" THEN \E t \in Templates : Finalize(t)
                                             ELSE WaitFor("classify")

\* matchTemplate's question to the LLM.
Classified ==
    /\ step = "classify"
    /\ UNCHANGED <<request, answers>>
    /\ \/ \E t \in Templates : Finalize(t)
       \/ WaitFor("infer")
       \/ Thrown

\* createGuardedOpenApiFetcher: what it refuses and what fails is caught, and
\* the LLM is asked instead, as for a document without a usable operation.
Fetched ==
    /\ step = "fetch"
    /\ UNCHANGED <<request, answers>>
    /\ \/ \E d \in Descriptor : d.url # "plain" /\ Wrap(d)
       \/ WaitFor("infer")

\* One round of inferEndpointDescriptor.
Inferred ==
    /\ step = "infer"
    /\ UNCHANGED request
    /\ \/ /\ \E d \in Descriptor : Wrap(d)
          /\ UNCHANGED answers
       \/ /\ answers + 1 < MAX_ATTEMPTS
          /\ answers' = answers + 1
          /\ WaitFor("infer")
       \/ /\ answers + 1 = MAX_ATTEMPTS
          /\ Rejected
          /\ UNCHANGED answers
       \/ Thrown /\ UNCHANGED answers

GeneratorStep == StartGenerating \/ Classified \/ Fetched \/ Inferred
=============================================================================
