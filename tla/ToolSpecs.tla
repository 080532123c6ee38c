----------------------------- MODULE ToolSpecs -----------------------------
(***************************************************************************)
(* The server specs the generator writes and every later stage reads: what *)
(* packages/spec loads, what packages/validator lets pass, and how the     *)
(* interpreter checks the arguments of a call and binds them to a request. *)
(*                                                                         *)
(* A tool is a record:                                                     *)
(*   name, readOnly, cached      readOnlyHint, has a cacheTtlSeconds       *)
(*   params, required            inputSchema: the type of each property    *)
(*   method, url, tokens         the {tokens} of the urlTemplate           *)
(*   query, body                 the parameters mapped to them; a body     *)
(*                               without fields is null                    *)
(* Of the texts of a spec only what the policy looks for is kept, and of a *)
(* urlTemplate only what tells its fate: "plain" http, an https url that   *)
(* "new URL" rejects ("badport"), a host outside of EGRESS_ALLOWLIST       *)
(* ("unlisted"), or "good".  Field selectors and templates are left out.   *)
(***************************************************************************)
EXTENDS Naturals, FiniteSets, Sequences

CONSTANTS
    BadParam   \* the parameter names that IDENTIFIER_PATTERN rejects

MIN_RECOMMENDED_TOOLS == 3
MAX_TOOLS == 20

-----------------------------------------------------------------------------
(* Values, by the types that accept them *)

Accepts == [string |-> {"test"}, number |-> {"one", "half"},
            integer |-> {"one"}, boolean |-> {"false"}]

ParamTypes == DOMAIN Accepts

\* describeType
HasType(type, value) == value \in Accepts[type]

-----------------------------------------------------------------------------
(* loadServerSpec *)

InputSchemaAllowed(tool) ==
    /\ DOMAIN tool.params \cap BadParam = {}
    /\ \A p \in DOMAIN tool.params : tool.params[p] \in ParamTypes
    /\ tool.required \subseteq DOMAIN tool.params

RequestAllowed(tool) ==
    /\ tool.method \in {"GET", "POST"}
    /\ tool.url # "plain"
    /\ tool.method = "GET" => tool.body = {}

ToolAllowed(tool) ==
    /\ InputSchemaAllowed(tool)
    /\ RequestAllowed(tool)
    /\ tool.tokens \cup tool.query \cup tool.body \subseteq DOMAIN tool.params
    /\ tool.cached => tool.readOnly

UniqueNames(tools) ==
    \A i, j \in DOMAIN tools : tools[i].name = tools[j].name => i = j

Loads(spec) ==
    /\ Len(spec.tools) \in 1..50
    /\ \A i \in DOMAIN spec.tools : ToolAllowed(spec.tools[i])
    /\ UniqueNames(spec.tools)

-----------------------------------------------------------------------------
(* validateSpec.  checkAnnotations and checkMcpVersion repeat what the       *)
(* schema has checked of every spec that comes this far.                     *)

CheckForbiddenWords(spec) == spec.text # "forbidden"

CheckToolCount(spec) == Len(spec.tools) \in MIN_RECOMMENDED_TOOLS..MAX_TOOLS

CheckToolNames(spec) == UniqueNames(spec.tools)

\* Every description names the service.
CheckDescriptions(spec) == spec.text # "unnamed"

CheckRequestResponseLimits(spec) ==
    \A i \in DOMAIN spec.tools : spec.tools[i].url # "plain"

PolicyAllows(spec) ==
    /\ CheckForbiddenWords(spec) /\ CheckDescriptions(spec)
    /\ CheckToolCount(spec) /\ CheckToolNames(spec)
    /\ CheckRequestResponseLimits(spec)

-----------------------------------------------------------------------------
(* The arguments of a call *)

\* validateToolArgs
ArgsAccepted(tool, args) ==
    /\ tool.required \subseteq DOMAIN args
    /\ DOMAIN args \subseteq DOMAIN tool.params
    /\ \A p \in DOMAIN args : HasType(tool.params[p], args[p])

\* syntheticValueFor
SyntheticValue(type) ==
    CASE type = "string"  -> "test"
      [] type = "boolean" -> "false"
      [] OTHER            -> "one"

\* buildSyntheticArgs: only what is required, of what is declared.
SyntheticArgs(tool) ==
    [p \in tool.required \cap DOMAIN tool.params |-> SyntheticValue(tool.params[p])]

\* The arguments that buildRequestUrl and buildRequestBody put into a request.
Bound(tool, args) ==
    (tool.tokens \cup tool.query \cup tool.body) \cap DOMAIN args

ReadOnlyTools(spec) == {i \in DOMAIN spec.tools : spec.tools[i].readOnly}
=============================================================================
